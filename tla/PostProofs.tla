----------------------------- MODULE PostProofs -----------------------------
(***************************************************************************)
(* No job is lost between the queue's store and history, none that was     *)
(* cancelled is filed, and none that failed loses the rows of its retry;   *)
(* for any jobs and any number of removals, refusals, stops and crashes.   *)
(* The stages delete no payload nor a par2 set still needed, and a set     *)
(* handed over as unpacked during the download is whole and undamaged.     *)
(***************************************************************************)
EXTENDS PostQueue, PostStages, DirectUnpack, TLAPS

(* What the hand-off, the queue and the stops leave alone. *)
Kept == <<worker, queueRows, history, removal, unfiled>>

LEMMA KeptKeeps ==
  ASSUME PostIInv, UNCHANGED Kept
  PROVE  PostIInv'
  BY DEF PostIInv, Kept, FiledBeforeRemoved, Finalizing, NeverLost

(* The worker outside the finalizer: only its own position changes. *)
LEMMA WorkerMoves ==
  ASSUME PostIInv, UNCHANGED <<queueRows, history, removal, unfiled>>,
         NEW pc \in {"try", "wait", "exit", "run", "ran", "settle", "cancel", "occupy", "history"}, NEW job,
         NEW fate, NEW refused,
         worker' = [pc |-> pc, job |-> job, fate |-> fate, refused |-> refused],
         \A j, k \in job : j = k,
         pc \in Finalizing \cup {"ran"} => fate # "none"
  PROVE  PostIInv'
<1>1. /\ worker'.pc = pc /\ worker'.job = job /\ worker'.fate = fate
      /\ worker' = [pc |-> worker'.pc, job |-> worker'.job, fate |-> worker'.fate, refused |-> worker'.refused]
  OBVIOUS
<1>2. FiledBeforeRemoved'
  BY <1>1 DEF FiledBeforeRemoved, Finalizing
<1> QED  BY <1>1, <1>2 DEF PostIInv, NeverLost

LEMMA HandOffKeeps ==
  ASSUME PostIInv, NEW j \in PostJob, HandOff(j)
  PROVE  PostIInv'
<1>1. UNCHANGED Kept
  BY DEF HandOff, RunPostProc, EnqueuePostProc, DirectUnpackDone, Push, Notify, handsOnly, store, Kept
<1> QED  BY <1>1, KeptKeeps

LEMMA WorkKeeps ==
  ASSUME PostIInv, Work
  PROVE  PostIInv'
<1> USE DEF store
<1>0. /\ worker = [pc |-> worker.pc, job |-> worker.job, fate |-> worker.fate, refused |-> worker.refused]
      /\ FiledBeforeRemoved /\ NeverLost
      /\ history = [j \in PostJob |-> history[j]] /\ DOMAIN history = PostJob
  BY DEF PostIInv
<1>1. CASE TryPop
  <2>1. UNCHANGED <<queueRows, history, removal, unfiled>>
    BY <1>1 DEF TryPop
  <2>2. CASE frees("exit") \/ frees("wait")
    <3>1. PICK pc \in {"exit", "wait"} :
            worker' = [pc |-> pc, job |-> {}, fate |-> "none", refused |-> FALSE]
      BY <2>2 DEF frees, Idle
    <3> QED  BY <2>1, <3>1, WorkerMoves DEF Finalizing
  <2>3. CASE marks(Head(ppq))
    <3>1. worker' = [pc |-> "run", job |-> {Head(ppq)}, fate |-> "none", refused |-> FALSE]
      BY <2>3 DEF marks, Idle
    <3> QED  BY <2>1, <3>1, WorkerMoves DEF Finalizing
  <2> QED  BY <1>1, <2>2, <2>3 DEF TryPop
<1>2. CASE Wait
  <2>1. UNCHANGED <<queueRows, history, removal, unfiled>>
    BY <1>2 DEF Wait
  <2>2. PICK pc \in {"exit", "try"} :
          worker' = [pc |-> pc, job |-> {}, fate |-> "none", refused |-> FALSE]
    BY <1>2 DEF Wait, frees, Idle
  <2> QED  BY <2>1, <2>2, WorkerMoves DEF Finalizing
<1>3. CASE ProcessJob
  <2>1. UNCHANGED <<queueRows, history, removal, unfiled>>
    BY <1>3 DEF ProcessJob
  <2>2. PICK f \in {"Completed", "Failed"} : worker' = [worker EXCEPT !.pc = "ran", !.fate = f]
    BY <1>3 DEF ProcessJob
  <2>3. worker' = [pc |-> "ran", job |-> worker.job, fate |-> f, refused |-> worker.refused]
    BY <1>0, <2>2
  <2> QED  BY <1>0, <2>1, <2>3, WorkerMoves DEF FiledBeforeRemoved
<1>4. CASE CheckContexts
  <2>1. UNCHANGED <<queueRows, history, removal, unfiled>>
    BY <1>4 DEF CheckContexts
  <2>2. CASE frees("exit") \/ frees("try")
    <3>1. PICK pc \in {"exit", "try"} :
            worker' = [pc |-> pc, job |-> {}, fate |-> "none", refused |-> FALSE]
      BY <2>2 DEF frees, Idle
    <3> QED  BY <2>1, <3>1, WorkerMoves DEF Finalizing
  <2>3. CASE goes("settle")
    <3>1. worker' = [pc |-> "settle", job |-> worker.job, fate |-> worker.fate, refused |-> worker.refused]
      BY <1>0, <2>3 DEF goes
    <3>2. worker.fate # "none"
      BY <1>0, <1>4 DEF CheckContexts, at, FiledBeforeRemoved
    <3> QED  BY <1>0, <2>1, <3>1, <3>2, WorkerMoves DEF FiledBeforeRemoved
  <2> QED  BY <1>4, <2>2, <2>3 DEF CheckContexts
<1>5. CASE Settle \/ CancelAndYield \/ Occupy
  <2>1. UNCHANGED <<queueRows, history, removal, unfiled>>
    BY <1>5 DEF Settle, CancelAndYield, Occupy, finalizing
  <2>2. PICK pc \in {"cancel", "occupy", "history"} : worker' = [worker EXCEPT !.pc = pc]
    BY <1>5 DEF Settle, CancelAndYield, Occupy, goes, commitNext
  <2>3. worker' = [pc |-> pc, job |-> worker.job, fate |-> worker.fate, refused |-> worker.refused]
    BY <1>0, <2>2
  <2>4. worker.fate # "none"
    BY <1>0, <1>5 DEF Settle, CancelAndYield, Occupy, at, FiledBeforeRemoved, Finalizing
  <2> QED  BY <1>0, <2>1, <2>3, <2>4, WorkerMoves DEF FiledBeforeRemoved
<1>6. CASE AddHistory
  <2>0. commitNext("history") = "remove"
    BY DEF commitNext
  <2>1. UNCHANGED <<queueRows, removal>> /\ worker.fate # "none"
    BY <1>0, <1>6 DEF AddHistory, finalizing, at, FiledBeforeRemoved, Finalizing
  <2>2. PICK j \in worker.job :
          \/ /\ history' = [history EXCEPT ![j] = worker.fate]
             /\ worker' = [worker EXCEPT !.pc = "remove"] /\ unfiled' = unfiled
          \/ /\ unfiled' = IF history[j] = "none" THEN unfiled \cup {j} ELSE unfiled
             /\ worker' = [worker EXCEPT !.pc = "remove", !.refused = TRUE]
             /\ history' = history
    BY <1>6, <2>0 DEF AddHistory, goes
  <2>3. \E r : worker' = [pc |-> "remove", job |-> worker.job, fate |-> worker.fate, refused |-> r]
    BY <1>0, <2>2
  <2>4. /\ worker'.pc = "remove" /\ worker'.job = worker.job /\ worker'.fate = worker.fate
        /\ worker' = [pc |-> worker'.pc, job |-> worker'.job, fate |-> worker'.fate, refused |-> worker'.refused]
    BY <2>3
  <2>5. /\ DOMAIN history' = PostJob /\ history' = [k \in PostJob |-> history'[k]]
        /\ \A k \in PostJob : history[k] # "none" => history'[k] # "none"
        /\ unfiled \subseteq unfiled'
    BY <1>0, <2>1, <2>2
  <2>6. j \in PostJob => history'[j] # "none" \/ j \in unfiled'
    BY <1>0, <2>1, <2>2
  <2>7. FiledBeforeRemoved'
    BY <1>0, <2>1, <2>4, <2>6 DEF FiledBeforeRemoved
  <2>8. NeverLost'
    BY <1>0, <2>1, <2>5 DEF NeverLost
  <2> QED  BY <2>1, <2>4, <2>5, <2>7, <2>8 DEF PostIInv
<1>7. CASE RemoveFiled
  <2>1. UNCHANGED <<history, removal, unfiled>> /\ worker.pc = "remove" /\ queueRows' \in {queueRows, queueRows \ worker.job}
    BY <1>7 DEF RemoveFiled, finalizing, at
  <2>2. worker' = [pc |-> "runs", job |-> worker.job, fate |-> worker.fate, refused |-> worker.refused]
    BY <1>0, <1>7 DEF RemoveFiled, goes, commitNext
  <2>3. \A j \in worker.job \cap PostJob : history[j] # "none" \/ j \in unfiled
    BY <1>0, <2>1 DEF FiledBeforeRemoved
  <2>4. FiledBeforeRemoved'
    BY <1>0, <2>1, <2>2, <2>3 DEF FiledBeforeRemoved, Finalizing
  <2>5. NeverLost'
    BY <1>0, <2>1, <2>3 DEF NeverLost
  <2> QED  BY <2>1, <2>2, <2>4, <2>5 DEF PostIInv
<1>8. CASE DeleteRuns
  <2>1. UNCHANGED <<queueRows, history, removal, unfiled>>
    BY <1>8 DEF DeleteRuns, finalizing
  <2>2. worker' = [pc |-> "try", job |-> {}, fate |-> "none", refused |-> FALSE]
    BY <1>8 DEF DeleteRuns, frees, Idle
  <2> QED  BY <2>1, <2>2, WorkerMoves DEF Finalizing
<1> QED  BY <1>1, <1>2, <1>3, <1>4, <1>5, <1>6, <1>7, <1>8 DEF Work

(* A row that RemoveJob deletes belongs to a job somebody removes. *)
LEMMA RemovalKeeps ==
  ASSUME PostIInv, NEW j \in PostJob, Removing(j)
  PROVE  PostIInv'
<1>1. UNCHANGED <<worker, history, unfiled>>
  BY DEF Removing, Find, CancelQueued, CancelRunning, RemoveRow, RemoveRuns, removing
<1>2. PICK s \in {"found", "cancel", "remove", "clean", "done"} : removal' = [removal EXCEPT ![j] = s]
  BY DEF Removing, Find, CancelQueued, CancelRunning, RemoveRow, RemoveRuns, removes
<1>3. queueRows' \in {queueRows, queueRows \ {j}}
  BY DEF Removing, Find, CancelQueued, CancelRunning, RemoveRow, RemoveRuns
<1>4. /\ DOMAIN removal' = PostJob /\ removal' = [k \in PostJob |-> removal'[k]]
      /\ removal'[j] # "no" /\ \A k \in PostJob \ {j} : removal'[k] = removal[k]
  BY <1>2 DEF PostIInv
<1>5. NeverLost'
  BY <1>1, <1>3, <1>4 DEF PostIInv, NeverLost
<1>6. FiledBeforeRemoved'
  BY <1>1 DEF PostIInv, FiledBeforeRemoved
<1> QED  BY <1>1, <1>4, <1>5, <1>6 DEF PostIInv

(* The next start drops only what is in history. *)
LEMMA RestartKeeps ==
  ASSUME PostIInv, Restart
  PROVE  PostIInv'
<1>1. UNCHANGED <<history, unfiled>> /\ worker' = [pc |-> "try", job |-> {}, fate |-> "none", refused |-> FALSE]
  BY DEF Restart, Idle
<1>2. removal' = [j \in PostJob |-> IF removal[j] = "no" \/ j \in queueRows THEN "no" ELSE "done"]
  BY DEF Restart
<1>3. PICK dropped \in SUBSET {j \in queueRows : history[j] # "none"} : queueRows' = queueRows \ dropped
  BY DEF Restart
<1>4. NeverLost'
  BY <1>1, <1>2, <1>3 DEF PostIInv, NeverLost
<1>5. FiledBeforeRemoved'
  BY <1>1 DEF FiledBeforeRemoved, Finalizing
<1> QED  BY <1>1, <1>2, <1>4, <1>5 DEF PostIInv

LEMMA PostStep ==
  ASSUME PostIInv, [PostNext]_postVars
  PROVE  PostIInv'
<1>1. CASE Stop \/ (\E j \in PostJob : TickSaves(j)) \/ UNCHANGED postVars
  <2>1. UNCHANGED Kept
    BY <1>1 DEF Stop, TickSaves, postVars, Kept, store
  <2> QED  BY <2>1, KeptKeeps
<1> QED  BY <1>1, HandOffKeeps, WorkKeeps, RemovalKeeps, RestartKeeps DEF PostNext

LEMMA PostStart == PostInit => PostIInv
  BY DEF PostInit, PostIInv, FiledBeforeRemoved, Finalizing, NeverLost, Idle

(* A job that nobody removes and whose entry the database accepts is in    *)
(* the queue's store or in history at every moment, through any stops and  *)
(* crashes (internal/app/job_finalizer.go: persistAndCommit).              *)
THEOREM NoJobIsLost == PostSpec => []NeverLost
<1>1. PostIInv => NeverLost
  BY DEF PostIInv
<1> QED  BY <1>1, PostStart, PostStep, PTL DEF PostSpec

-----------------------------------------------------------------------------
(* Cancellation.                                                             *)

(* One position of a queue of different jobs is taken out. *)
LEMMA WithoutOne ==
  ASSUME NEW S, NEW q \in Seq(S), NEW i \in DOMAIN q,
         \A m, n \in DOMAIN q : q[m] = q[n] => m = n
  PROVE  /\ without(q, i) \in Seq(S)
         /\ \A m, n \in DOMAIN without(q, i) : without(q, i)[m] = without(q, i)[n] => m = n
         /\ \A m \in DOMAIN without(q, i) : without(q, i)[m] # q[i]
         /\ \A m \in DOMAIN without(q, i) : \E n \in DOMAIN q : without(q, i)[m] = q[n]
<1> DEFINE r == without(q, i)
           from(m) == IF m < i THEN m ELSE m + 1
<1>1. Len(q) \in Nat /\ DOMAIN q = 1..Len(q) /\ \A n \in DOMAIN q : q[n] \in S
  OBVIOUS
<1>2. Len(q) - 1 \in Nat /\ i \in 1..Len(q)
  BY <1>1
<1>3. DOMAIN r = 1..(Len(q) - 1)
  BY DEF without
<1>4. \A m \in DOMAIN r : from(m) \in DOMAIN q /\ from(m) # i /\ r[m] = q[from(m)]
  BY <1>1, <1>2, <1>3 DEF without
<1>5. \A m, n \in DOMAIN r : from(m) = from(n) => m = n
  BY <1>2, <1>3
<1>6. r \in [1..(Len(q) - 1) -> S]
  <2>1. r = [k \in 1..(Len(q) - 1) |-> r[k]]
    BY DEF without
  <2> HIDE DEF r, from
  <2> QED  BY <1>1, <1>3, <1>4, <2>1
<1>7. r \in Seq(S)
  BY <1>2, <1>6
<1> HIDE DEF r, from
<1>8. \A m \in DOMAIN r : r[m] # q[i]
  BY <1>4
<1>9. \A m, n \in DOMAIN r : r[m] = r[n] => m = n
  BY <1>4, <1>5
<1>10. \A m \in DOMAIN r : \E n \in DOMAIN q : r[m] = q[n]
  BY <1>4
<1> QED  BY <1>7, <1>8, <1>9, <1>10 DEF r

LEMMA CancelStart == PostInit => CancelIInv
<1> SUFFICES ASSUME PostInit PROVE CancelIInv
  OBVIOUS
<1>1. ppq = <<>> /\ worker.job = {} /\ worker.pc = "try" /\ caught = {}
  BY DEF PostInit, Idle
<1>2. handoff = [j \in PostJob |-> handoff[j]]
  BY DEF PostInit
<1> QED  BY <1>1, <1>2 DEF CancelIInv, HandedOnce, CaughtIsOut

(* Steps that touch neither the hand-off nor what Cancel looks at. *)
LEMMA CancelUntouched ==
  ASSUME CancelIInv, UNCHANGED <<handoff, ppq, worker, current, caught, doomed>>
  PROVE  CancelIInv'
  BY DEF CancelIInv, HandedOnce, CaughtIsOut

(* The worker lets go of its job. *)
LEMMA CancelFreed ==
  ASSUME CancelIInv, UNCHANGED <<handoff, ppq, caught>>,
         worker'.job = {}, worker'.pc \in {"try", "wait", "exit"}
  PROVE  CancelIInv'
  BY DEF CancelIInv, HandedOnce, CaughtIsOut

(* The worker moves on with its job, which nobody cancelled. *)
LEMMA CancelMovesOn ==
  ASSUME CancelIInv, UNCHANGED <<handoff, ppq, caught>>,
         worker'.job = worker.job, worker'.pc \in Finalizing,
         worker.job \cap caught = {}
  PROVE  CancelIInv'
  BY DEF CancelIInv, HandedOnce, CaughtIsOut, Finalizing

(* The hand-off moves forward, and nothing new is queued. *)
LEMMA CancelHandsOver ==
  ASSUME CancelIInv, UNCHANGED <<ppq, worker, current, caught, doomed>>,
         handoff' = [k \in PostJob |-> handoff'[k]],
         \A k \in PostJob : handoff[k] \in {"notify", "in"} => handoff'[k] \in {"notify", "in"}
  PROVE  CancelIInv'
<1>1. \A i \in DOMAIN ppq : ppq[i] \in PostJob
  BY DEF CancelIInv, HandedOnce
<1>2. HandedOnce'
  <2>1. \A i \in DOMAIN ppq : handoff'[ppq[i]] \in {"notify", "in"} /\ ppq[i] \notin worker.job
    BY <1>1 DEF CancelIInv, HandedOnce
  <2>2. \A j \in worker.job : handoff'[j] \in {"notify", "in"}
    BY DEF CancelIInv, HandedOnce
  <2> QED  BY <2>1, <2>2 DEF CancelIInv, HandedOnce
<1>3. CaughtIsOut'
  <2>1. \A j \in caught : handoff'[j] \in {"notify", "in"}
    BY DEF CancelIInv, CaughtIsOut
  <2> QED  BY <2>1 DEF CancelIInv, CaughtIsOut
<1> QED  BY <1>2, <1>3 DEF CancelIInv

LEMMA CancelHandOff ==
  ASSUME CancelIInv, NEW j \in PostJob, HandOff(j)
  PROVE  CancelIInv'
<1>1. UNCHANGED <<worker, current, caught, doomed>>
  BY DEF HandOff, RunPostProc, EnqueuePostProc, DirectUnpackDone, Push, Notify, handsOnly
<1>2. PICK s : handoff' = [handoff EXCEPT ![j] = s]
  BY DEF HandOff, RunPostProc, EnqueuePostProc, DirectUnpackDone, Push, Notify, hands
<1>3. /\ handoff' = [k \in PostJob |-> handoff'[k]] /\ handoff'[j] = s
      /\ \A k \in PostJob \ {j} : handoff'[k] = handoff[k]
  BY <1>2 DEF CancelIInv
<1>4. CASE Notify(j)
  <2>1. UNCHANGED ppq /\ s = "in"
    BY <1>3, <1>4 DEF Notify, hands, pushNext, pushSteps, CancelIInv
  <2> QED  BY <1>1, <1>3, <2>1, CancelHandsOver
<1>5. CASE Push(j)
  <2>1. handoff[j] = "append" /\ ppq' = Append(ppq, j) /\ s = "notify"
    BY <1>3, <1>5 DEF Push, hands, pushNext, pushSteps, CancelIInv
  <2>2. /\ ppq \in Seq(PostJob) /\ \A i \in DOMAIN ppq : ppq[i] # j
        /\ j \notin worker.job /\ j \notin caught
    BY <2>1 DEF CancelIInv, HandedOnce, CaughtIsOut
  <2>3. /\ ppq' \in Seq(PostJob) /\ DOMAIN ppq' = DOMAIN ppq \cup {Len(ppq) + 1} /\ ppq'[Len(ppq) + 1] = j
        /\ \A i \in DOMAIN ppq : ppq'[i] = ppq[i] /\ ppq[i] \in PostJob
    BY <2>1, <2>2
  <2>4. \A i \in DOMAIN ppq' : handoff'[ppq'[i]] \in {"notify", "in"} /\ ppq'[i] \notin worker.job
    <3> SUFFICES ASSUME NEW i \in DOMAIN ppq'
                 PROVE  handoff'[ppq'[i]] \in {"notify", "in"} /\ ppq'[i] \notin worker.job
      OBVIOUS
    <3>1. CASE i \in DOMAIN ppq
      <4>1. ppq'[i] = ppq[i] /\ ppq[i] \in PostJob \ {j}
        BY <2>2, <2>3, <3>1
      <4>2. handoff[ppq[i]] \in {"notify", "in"} /\ ppq[i] \notin worker.job
        BY <3>1 DEF CancelIInv, HandedOnce
      <4> QED  BY <1>3, <4>1, <4>2
    <3>2. CASE i = Len(ppq) + 1
      BY <1>3, <2>1, <2>2, <2>3, <3>2
    <3> QED  BY <2>3, <3>1, <3>2
  <2>5. \A i, k \in DOMAIN ppq' : ppq'[i] = ppq'[k] => i = k
    BY <2>2, <2>3 DEF CancelIInv, HandedOnce
  <2>6. \A k \in worker.job \cup caught : handoff'[k] \in {"notify", "in"}
    BY <1>3, <2>2 DEF CancelIInv, HandedOnce, CaughtIsOut
  <2>7. HandedOnce'
    BY <1>1, <2>3, <2>4, <2>5, <2>6 DEF CancelIInv, HandedOnce
  <2>8. CaughtIsOut'
    BY <1>1, <2>2, <2>3, <2>6 DEF CancelIInv, CaughtIsOut
  <2> QED  BY <1>3, <2>7, <2>8 DEF CancelIInv
<1>6. CASE RunPostProc(j) \/ EnqueuePostProc(j) \/ DirectUnpackDone(j)
  <2>1. UNCHANGED ppq /\ handoff[j] \notin {"notify", "in"}
    BY <1>6 DEF RunPostProc, EnqueuePostProc, DirectUnpackDone
  <2> QED  BY <1>1, <1>3, <2>1, CancelHandsOver
<1> QED  BY <1>4, <1>5, <1>6 DEF HandOff

LEMMA CancelTryPop ==
  ASSUME PostIInv, CancelIInv, TryPop
  PROVE  CancelIInv'
<1>1. UNCHANGED <<handoff, caught>>
  BY DEF TryPop
<1>2. CASE (frees("exit") \/ frees("wait")) /\ UNCHANGED ppq
  <2>1. worker'.job = {} /\ worker'.pc \in {"try", "wait", "exit"}
    BY <1>2 DEF frees, Idle
  <2> QED  BY <1>1, <1>2, <2>1, CancelFreed
<1>3. CASE ppq # <<>> /\ ppq' = Tail(ppq) /\ marks(Head(ppq))
  <2> DEFINE h == Head(ppq)
  <2>1. current' = {h} /\ worker'.job = {h} /\ worker'.pc = "run"
    BY <1>3 DEF marks, Idle
  <2>2. ppq \in Seq(PostJob) /\ \A i, k \in DOMAIN ppq : ppq[i] = ppq[k] => i = k
    BY DEF CancelIInv, HandedOnce
  <2>3. /\ h = ppq[1] /\ 1 \in DOMAIN ppq /\ h \in PostJob /\ ppq' \in Seq(PostJob)
        /\ \A i \in DOMAIN ppq' : i + 1 \in DOMAIN ppq /\ ppq'[i] = ppq[i + 1] /\ i \in Nat /\ i # 0
    BY <1>3, <2>2
  <2> HIDE DEF h
  <2>4. handoff[h] \in {"notify", "in"} /\ h \notin caught
    BY <2>3 DEF CancelIInv, HandedOnce, CaughtIsOut
  <2>5. \A i \in DOMAIN ppq' : ppq'[i] # h
    BY <2>2, <2>3
  <2>6. \A i, k \in DOMAIN ppq' : ppq'[i] = ppq'[k] => i = k
    BY <2>2, <2>3
  <2>7. HandedOnce'
    BY <1>1, <2>1, <2>3, <2>4, <2>5, <2>6 DEF CancelIInv, HandedOnce
  <2>8. CaughtIsOut'
    <3>1. \A j \in caught : \A i \in DOMAIN ppq' : ppq'[i] # j
      BY <2>3 DEF CancelIInv, CaughtIsOut
    <3>2. caught' \cap worker'.job = {}
      BY <1>1, <2>1, <2>4
    <3> QED  BY <1>1, <2>1, <3>1, <3>2 DEF CancelIInv, CaughtIsOut
  <2> QED  BY <1>1, <2>7, <2>8 DEF CancelIInv
<1> QED  BY <1>2, <1>3 DEF TryPop

LEMMA CancelWork ==
  ASSUME PostIInv, CancelIInv, Work
  PROVE  CancelIInv'
<1>0. /\ worker = [pc |-> worker.pc, job |-> worker.job, fate |-> worker.fate, refused |-> worker.refused]
      /\ \A j, k \in worker.job : j = k
  BY DEF PostIInv, FiledBeforeRemoved
<1>1. CASE Wait
  <2>1. worker'.job = {} /\ worker'.pc \in {"try", "wait", "exit"}
    BY <1>1 DEF Wait, frees, Idle
  <2> QED  BY <1>1, <2>1, CancelFreed DEF Wait
<1>2. CASE ProcessJob
  <2>1. worker.pc = "run" /\ worker'.pc = "ran" /\ worker'.job = worker.job
    BY <1>0, <1>2 DEF ProcessJob, at
  <2>2. UNCHANGED <<handoff, ppq, current, caught, doomed>>
    BY <1>2 DEF ProcessJob, pushed
  <2> QED  BY <2>1, <2>2 DEF CancelIInv, HandedOnce, CaughtIsOut
<1>3. CASE CheckContexts
  <2>1. UNCHANGED <<handoff, ppq, caught, doomed>>
    BY <1>3 DEF CheckContexts, pushed
  <2>2. CASE frees("exit") \/ frees("try")
    <3>1. worker'.job = {} /\ worker'.pc \in {"try", "wait", "exit"}
      BY <2>2 DEF frees, Idle
    <3> QED  BY <2>1, <3>1, CancelFreed
  <2>3. CASE goes("settle") /\ ~(worker.job \subseteq doomed)
    <3>1. worker'.job = worker.job /\ worker'.pc \in Finalizing
      BY <1>0, <2>3 DEF goes, Finalizing
    <3>2. worker.job \cap caught = {}
      BY <1>0, <2>3 DEF CancelIInv, CaughtIsOut
    <3> QED  BY <2>1, <3>1, <3>2, CancelMovesOn
  <2> QED  BY <1>3, <2>2, <2>3 DEF CheckContexts
<1>4. CASE Settle \/ CancelAndYield \/ Occupy \/ AddHistory \/ RemoveFiled
  <2>1. UNCHANGED <<handoff, ppq, caught>>
    BY <1>4 DEF Settle, CancelAndYield, Occupy, AddHistory, RemoveFiled, finalizing, pushed
  <2>2. worker.pc \in Finalizing
    BY <1>4 DEF Settle, CancelAndYield, Occupy, AddHistory, RemoveFiled, at, Finalizing
  <2>3. worker'.job = worker.job /\ worker'.pc \in Finalizing
    BY <1>0, <1>4 DEF Settle, CancelAndYield, Occupy, AddHistory, RemoveFiled, goes, commitNext, Finalizing
  <2>4. worker.job \cap caught = {}
    BY <2>2 DEF CancelIInv, CaughtIsOut, Finalizing
  <2> QED  BY <2>1, <2>3, <2>4, CancelMovesOn
<1>5. CASE DeleteRuns
  <2>1. worker'.job = {} /\ worker'.pc \in {"try", "wait", "exit"}
    BY <1>5 DEF DeleteRuns, frees, Idle
  <2> QED  BY <1>5, <2>1, CancelFreed DEF DeleteRuns, finalizing, pushed
<1> QED  BY <1>1, <1>2, <1>3, <1>4, <1>5, CancelTryPop DEF Work

LEMMA CancelRemoval ==
  ASSUME CancelIInv, NEW j \in PostJob, Removing(j)
  PROVE  CancelIInv'
<1>1. UNCHANGED <<handoff, worker, current>>
  BY DEF Removing, Find, CancelQueued, CancelRunning, RemoveRow, RemoveRuns, removing
<1>2. CASE Find(j) \/ RemoveRow(j) \/ RemoveRuns(j)
  <2>1. UNCHANGED <<ppq, doomed, caught>>
    BY <1>2 DEF Find, RemoveRow, RemoveRuns
  <2> QED  BY <1>1, <2>1, CancelUntouched
<1>3. CASE CancelRunning(j)
  <2>1. /\ UNCHANGED ppq /\ doomed' = doomed \cup (current \cap {j})
        /\ caught' = IF j \in worker.job /\ worker.pc \in {"run", "ran"} THEN caught \cup {j} ELSE caught
    BY <1>3 DEF CancelRunning
  <2>2. HandedOnce'
    BY <1>1, <2>1 DEF CancelIInv, HandedOnce
  <2>3. CASE j \in worker.job /\ worker.pc \in {"run", "ran"}
    <3>1. caught' = caught \cup {j} /\ j \in doomed'
      BY <2>1, <2>3 DEF CancelIInv, CaughtIsOut
    <3>2. handoff[j] \in {"notify", "in"} /\ \A i \in DOMAIN ppq : ppq[i] # j
      BY <2>3 DEF CancelIInv, HandedOnce
    <3>3. CaughtIsOut'
      BY <1>1, <2>1, <2>3, <3>1, <3>2 DEF CancelIInv, CaughtIsOut
    <3> QED  BY <1>1, <2>2, <3>3 DEF CancelIInv
  <2>4. CASE ~(j \in worker.job /\ worker.pc \in {"run", "ran"})
    <3>1. caught' = caught /\ doomed \subseteq doomed'
      BY <2>1, <2>4
    <3>2. CaughtIsOut'
      BY <1>1, <2>1, <3>1 DEF CancelIInv, CaughtIsOut
    <3> QED  BY <1>1, <2>2, <3>2 DEF CancelIInv
  <2> QED  BY <2>3, <2>4
<1>4. CASE CancelQueued(j)
  <2>1. UNCHANGED doomed
    BY <1>4 DEF CancelQueued
  <2>2. CASE UNCHANGED <<ppq, caught>>
    BY <1>1, <2>1, <2>2, CancelUntouched
  <2>3. CASE \E i \in DOMAIN ppq : findsJob(i, j) /\ ppq' = without(ppq, i) /\ caught' = caught \cup {j}
    <3>1. PICK i \in DOMAIN ppq : ppq[i] = j /\ ppq' = without(ppq, i) /\ caught' = caught \cup {j}
      BY <2>3 DEF findsJob
    <3>2. ppq \in Seq(PostJob) /\ \A m, n \in DOMAIN ppq : ppq[m] = ppq[n] => m = n
      BY DEF CancelIInv, HandedOnce
    <3>3. /\ ppq' \in Seq(PostJob)
          /\ \A m, n \in DOMAIN ppq' : ppq'[m] = ppq'[n] => m = n
          /\ \A m \in DOMAIN ppq' : ppq'[m] # j
          /\ \A m \in DOMAIN ppq' : \E n \in DOMAIN ppq : ppq'[m] = ppq[n]
      BY <3>1, <3>2, WithoutOne
    <3>4. handoff[j] \in {"notify", "in"} /\ j \notin worker.job
      BY <3>1 DEF CancelIInv, HandedOnce
    <3>5. HandedOnce'
      BY <1>1, <3>3 DEF CancelIInv, HandedOnce
    <3>6. CaughtIsOut'
      BY <1>1, <2>1, <3>1, <3>3, <3>4 DEF CancelIInv, CaughtIsOut
    <3> QED  BY <1>1, <3>5, <3>6 DEF CancelIInv
  <2> QED  BY <1>4, <2>2, <2>3 DEF CancelQueued
<1> QED  BY <1>2, <1>3, <1>4 DEF Removing

LEMMA CancelRestart ==
  ASSUME Restart
  PROVE  CancelIInv'
<1>1. /\ ppq' = <<>> /\ worker'.job = {} /\ worker'.pc = "try" /\ caught' = {}
      /\ handoff' = [j \in PostJob |-> handoff'[j]]
  BY DEF Restart, Idle
<1> QED  BY <1>1 DEF CancelIInv, HandedOnce, CaughtIsOut

LEMMA CancelStep ==
  ASSUME PostIInv, CancelIInv, [PostNext]_postVars
  PROVE  CancelIInv'
<1>1. CASE Stop \/ (\E j \in PostJob : TickSaves(j)) \/ UNCHANGED postVars
  BY <1>1, CancelUntouched DEF Stop, TickSaves, postVars, pushed
<1> QED  BY <1>1, CancelHandOff, CancelWork, CancelRemoval, CancelRestart DEF PostNext

(* A job that Cancel found, in the queue or under its stages, does not     *)
(* reach the finalizer in this life of the process, whatever runs between  *)
(* Cancel's two looks (internal/postproc/postproc.go: Cancel, popJob).     *)
THEOREM CancelledNeverFiled == PostSpec => []CancelTakes
<1>1. CancelIInv => CancelTakes
  BY DEF CancelIInv, CaughtIsOut, CancelTakes
<1> QED  BY <1>1, PostStart, PostStep, CancelStart, CancelStep, PTL DEF PostSpec

-----------------------------------------------------------------------------
(* The rows a retry resumes from.                                            *)

LEMMA RunsStart == PostInit => RunsIInv
<1> SUFFICES ASSUME PostInit PROVE RunsIInv
  OBVIOUS
<1>1. worker.pc = "try" /\ runRows = PostJob /\ \A j \in PostJob : history[j] = "none" /\ removal[j] = "no"
  BY DEF PostInit, Idle
<1> QED  BY <1>1 DEF RunsIInv, RunsOutlast, FiledAsRun, Finalizing

(* Steps that leave the stores and the worker's record alone. *)
LEMMA RunsUntouched ==
  ASSUME RunsIInv, UNCHANGED <<worker, queueRows, history, runRows, removal, unfiled>>
  PROVE  RunsIInv'
  BY DEF RunsIInv, RunsOutlast, FiledAsRun, Finalizing

(* The worker comes to a place before the queue's row, the stores as they are. *)
LEMMA RunsWorkerMoves ==
  ASSUME RunsIInv, UNCHANGED <<queueRows, history, runRows, removal, unfiled>>,
         worker'.pc \notin {"remove", "runs"},
         worker'.pc \in Finalizing \cup {"ran"} => worker'.fate \in {"Completed", "Failed"}
  PROVE  RunsIInv'
<1>1. FiledAsRun'
  BY DEF FiledAsRun, Finalizing
<1>2. RunsOutlast'
  BY DEF RunsIInv, RunsOutlast
<1> QED  BY <1>1, <1>2 DEF RunsIInv

LEMMA RunsWork ==
  ASSUME PostIInv, HandedOnce, RunsIInv, Work
  PROVE  RunsIInv'
<1> USE DEF store
<1>0. /\ worker = [pc |-> worker.pc, job |-> worker.job, fate |-> worker.fate, refused |-> worker.refused]
      /\ FiledBeforeRemoved /\ DOMAIN history = PostJob /\ worker.job \subseteq PostJob
  BY DEF PostIInv, HandedOnce
<1>1. CASE TryPop \/ Wait \/ ProcessJob \/ CheckContexts \/ Settle \/ CancelAndYield \/ Occupy
  <2>1. UNCHANGED <<queueRows, history, runRows, removal, unfiled>>
    BY <1>1 DEF TryPop, Wait, ProcessJob, CheckContexts, Settle, CancelAndYield, Occupy, finalizing
  <2>2. CASE TryPop \/ Wait
    <3>1. worker'.pc \in {"try", "wait", "exit", "run"}
      BY <2>2 DEF TryPop, Wait, frees, marks, Idle
    <3> QED  BY <2>1, <3>1, RunsWorkerMoves DEF Finalizing
  <2>3. CASE ProcessJob
    <3>1. worker'.pc = "ran" /\ worker'.fate \in {"Completed", "Failed"}
      BY <1>0, <2>3 DEF ProcessJob
    <3> QED  BY <2>1, <3>1, RunsWorkerMoves
  <2>4. CASE CheckContexts
    <3>1. worker.fate \in {"Completed", "Failed"}
      BY <2>4 DEF CheckContexts, at, RunsIInv
    <3>2. worker'.pc \in {"try", "exit"} \/ (worker'.pc = "settle" /\ worker'.fate = worker.fate)
      BY <1>0, <2>4 DEF CheckContexts, frees, goes, Idle
    <3> QED  BY <2>1, <3>1, <3>2, RunsWorkerMoves DEF Finalizing
  <2>5. CASE Settle \/ CancelAndYield \/ Occupy
    <3>1. worker.fate \in {"Completed", "Failed"}
      BY <2>5 DEF Settle, CancelAndYield, Occupy, at, RunsIInv, FiledAsRun, Finalizing
    <3>2. worker'.pc \in {"cancel", "occupy", "history"} /\ worker'.fate = worker.fate
      BY <1>0, <2>5 DEF Settle, CancelAndYield, Occupy, goes, commitNext
    <3> QED  BY <2>1, <3>1, <3>2, RunsWorkerMoves
  <2> QED  BY <1>1, <2>2, <2>3, <2>4, <2>5
<1>2. CASE AddHistory
  <2>1. UNCHANGED <<queueRows, runRows, removal>> /\ worker.pc = "history"
    BY <1>2 DEF AddHistory, finalizing, at
  <2>2. worker.fate \in {"Completed", "Failed"}
    BY <2>1 DEF RunsIInv, FiledAsRun, Finalizing
  <2>3. PICK j \in worker.job :
          \/ /\ history' = [history EXCEPT ![j] = worker.fate] /\ history[j] = "none"
             /\ worker' = [worker EXCEPT !.pc = "remove"] /\ unfiled' = unfiled
          \/ /\ unfiled' = IF history[j] = "none" THEN unfiled \cup {j} ELSE unfiled
             /\ worker' = [worker EXCEPT !.pc = "remove", !.refused = TRUE]
             /\ history' = history
    BY <1>2 DEF AddHistory, goes, commitNext
  <2>4. worker'.pc = "remove" /\ worker'.job = worker.job /\ worker'.fate = worker.fate
    BY <1>0, <2>3
  <2>5. j \in PostJob /\ \A k \in worker.job : k = j
    BY <1>0 DEF FiledBeforeRemoved
  <2>6. CASE /\ history' = [history EXCEPT ![j] = worker.fate] /\ history[j] = "none"
             /\ worker' = [worker EXCEPT !.pc = "remove"] /\ unfiled' = unfiled
    <3>1. history'[j] = worker.fate /\ \A k \in PostJob \ {j} : history'[k] = history[k]
      BY <1>0, <2>5, <2>6
    <3>2. FiledAsRun'
      BY <2>2, <2>4, <2>5, <3>1 DEF FiledAsRun
    <3>3. RunsOutlast'
      BY <2>1, <2>5, <2>6, <3>1 DEF RunsIInv, RunsOutlast
    <3>4. \A k \in PostJob : history'[k] \in {"none", "Completed", "Failed"}
      BY <2>2, <3>1 DEF RunsIInv
    <3> QED  BY <2>1, <2>4, <3>2, <3>3, <3>4 DEF RunsIInv
  <2>7. CASE /\ unfiled' = IF history[j] = "none" THEN unfiled \cup {j} ELSE unfiled
             /\ worker' = [worker EXCEPT !.pc = "remove", !.refused = TRUE]
             /\ history' = history
    <3>1. worker'.refused = TRUE /\ unfiled \subseteq unfiled'
      BY <1>0, <2>7
    <3>2. FiledAsRun'
      BY <2>2, <2>4, <3>1 DEF FiledAsRun
    <3>3. RunsOutlast'
      BY <2>1, <2>7, <3>1 DEF RunsIInv, RunsOutlast
    <3> QED  BY <2>1, <2>4, <2>7, <3>2, <3>3 DEF RunsIInv
  <2> QED  BY <2>3, <2>6, <2>7
<1>3. CASE RemoveFiled
  <2>1. /\ UNCHANGED <<history, runRows, removal, unfiled>> /\ worker.pc = "remove"
        /\ queueRows' \subseteq queueRows
    BY <1>3 DEF RemoveFiled, finalizing, at
  <2>2. /\ worker'.pc = "runs" /\ worker'.job = worker.job
        /\ worker'.fate = worker.fate /\ worker'.refused = worker.refused
    BY <1>0, <1>3 DEF RemoveFiled, goes, commitNext
  <2>3. FiledAsRun'
    BY <2>1, <2>2 DEF RunsIInv, FiledAsRun, Finalizing
  <2>4. RunsOutlast'
    BY <2>1 DEF RunsIInv, RunsOutlast
  <2> QED  BY <2>1, <2>2, <2>3, <2>4 DEF RunsIInv
<1>4. CASE DeleteRuns
  <2>1. UNCHANGED <<queueRows, history, removal, unfiled>> /\ worker.pc = "runs"
    BY <1>4 DEF DeleteRuns, finalizing, at
  <2>2. worker'.pc = "try"
    BY <1>4 DEF DeleteRuns, frees, Idle
  <2>3. runRows \ {j \in worker.job : ~keepsRuns(j)} \subseteq runRows'
    BY <1>4 DEF DeleteRuns
  <2>4. \A j \in worker.job : ~keepsRuns(j) => history[j] = "Completed" \/ j \in unfiled
    <3>1. worker.fate \in {"Completed", "Failed"}
      BY <2>1 DEF RunsIInv, FiledAsRun, Finalizing
    <3>2. \A j \in worker.job : history[j] # "none" \/ j \in unfiled
      BY <1>0, <2>1 DEF FiledBeforeRemoved
    <3>3. ~worker.refused => \A j \in worker.job : history[j] = worker.fate
      BY <2>1 DEF RunsIInv, FiledAsRun
    <3>4. \A j \in worker.job : history[j] \in {"none", "Completed", "Failed"}
      BY <1>0 DEF RunsIInv
    <3> QED  BY <3>1, <3>2, <3>3, <3>4 DEF keepsRuns
  <2>5. RunsOutlast'
    BY <2>1, <2>3, <2>4 DEF RunsIInv, RunsOutlast
  <2>6. FiledAsRun'
    BY <2>2 DEF FiledAsRun, Finalizing
  <2> QED  BY <2>1, <2>2, <2>5, <2>6 DEF RunsIInv
<1> QED  BY <1>1, <1>2, <1>3, <1>4 DEF Work

LEMMA RunsRemoval ==
  ASSUME PostIInv, RunsIInv, NEW j \in PostJob, Removing(j)
  PROVE  RunsIInv'
<1>1. UNCHANGED <<worker, history, unfiled>>
  BY DEF Removing, Find, CancelQueued, CancelRunning, RemoveRow, RemoveRuns, removing
<1>2. FiledAsRun'
  BY <1>1 DEF RunsIInv, FiledAsRun, Finalizing
<1>3. PICK s : removal' = [removal EXCEPT ![j] = s]
  BY DEF Removing, Find, CancelQueued, CancelRunning, RemoveRow, RemoveRuns, removes
<1>4. removal'[j] = s /\ \A k \in PostJob \ {j} : removal'[k] = removal[k]
  BY <1>3 DEF PostIInv
<1>5. CASE Find(j) \/ CancelQueued(j) \/ CancelRunning(j)
  <2>1. UNCHANGED <<queueRows, runRows>> /\ removal[j] \in {"no", "found", "cancel"}
    BY <1>5 DEF Find, CancelQueued, CancelRunning
  <2>2. s \in {"found", "cancel", "remove"}
    BY <1>3, <1>4, <1>5 DEF Find, CancelQueued, CancelRunning, removes, PostIInv
  <2>3. RunsOutlast'
    BY <1>1, <1>4, <2>1, <2>2 DEF RunsIInv, RunsOutlast
  <2> QED  BY <1>1, <1>2, <1>4, <2>1, <2>2, <2>3 DEF RunsIInv
<1>6. CASE RemoveRow(j) \/ RemoveRuns(j)
  <2>1. /\ queueRows' \subseteq queueRows /\ j \notin queueRows'
        /\ runRows \ {j} \subseteq runRows'
    BY <1>6 DEF RemoveRow, RemoveRuns, RunsIInv
  <2>2. s \in {"clean", "done"}
    BY <1>3, <1>4, <1>6 DEF RemoveRow, RemoveRuns, removes, PostIInv
  <2>3. RunsOutlast'
    BY <1>1, <1>4, <2>1, <2>2 DEF RunsIInv, RunsOutlast
  <2> QED  BY <1>1, <1>2, <1>4, <2>1, <2>3 DEF RunsIInv
<1> QED  BY <1>5, <1>6 DEF Removing

(* The next start deletes rows only of jobs that history knows as successful. *)
LEMMA RunsRestart ==
  ASSUME PostIInv, RunsIInv, Restart
  PROVE  RunsIInv'
<1>1. UNCHANGED <<history, unfiled>> /\ worker'.pc = "try"
  BY DEF Restart, Idle
<1>2. removal' = [j \in PostJob |-> IF removal[j] = "no" \/ j \in queueRows THEN "no" ELSE "done"]
  BY DEF Restart
<1>3. PICK dropped \in SUBSET {j \in queueRows : history[j] # "none"} :
        /\ queueRows' = queueRows \ dropped
        /\ runRows' = runRows \ {j \in dropped : history[j] # "Failed"}
  BY DEF Restart
<1>4. \A j \in PostJob : removal'[j] \notin {"clean", "done"} => removal[j] \notin {"clean", "done"}
  BY <1>2 DEF RunsIInv
<1>5. \A j \in PostJob \cap queueRows' : removal'[j] \notin {"clean", "done"}
  BY <1>2, <1>3
<1>6. RunsOutlast'
  BY <1>1, <1>3, <1>4 DEF RunsIInv, RunsOutlast
<1>7. FiledAsRun'
  BY <1>1 DEF FiledAsRun, Finalizing
<1> QED  BY <1>1, <1>5, <1>6, <1>7 DEF RunsIInv

(* A job filed as Failed keeps the rows its retry resumes from, also when  *)
(* a crash between history and queue made the worker process it again and  *)
(* succeed (internal/app/job_finalizer.go: shouldDeleteDurability).        *)
THEOREM FailedRunsStay == PostSpec => []FailedKeepsRuns
<1>1. ASSUME PostIInv, CancelIInv, RunsIInv, [PostNext]_postVars PROVE RunsIInv'
  <2>1. CASE Stop \/ (\E j \in PostJob : TickSaves(j)) \/ UNCHANGED postVars \/ \E j \in PostJob : HandOff(j)
    <3>1. UNCHANGED <<worker, queueRows, history, runRows, removal, unfiled>>
      BY <2>1 DEF Stop, TickSaves, postVars, HandOff, RunPostProc, EnqueuePostProc, DirectUnpackDone, Push, Notify,
                  handsOnly, store
    <3> QED  BY <1>1, <3>1, RunsUntouched
  <2> QED  BY <1>1, <2>1, RunsWork, RunsRemoval, RunsRestart DEF PostNext, CancelIInv
<1>2. RunsIInv => FailedKeepsRuns
  BY DEF RunsIInv, RunsOutlast, FailedKeepsRuns
<1> QED  BY <1>1, <1>2, PostStart, PostStep, CancelStart, CancelStep, RunsStart, PTL DEF PostSpec

-----------------------------------------------------------------------------
(* The stages of one job.                                                    *)

\* The files of the directory are different from each other.
LEMMA Files ==
  /\ Sample \in File /\ Alien \in File
  /\ \A a \in Arc : /\ Vol(a) \in File /\ Par(a) \in File /\ Out(a) \in File
                    /\ {Vol(a), Par(a), Out(a)} \cap {Sample, Alien} = {}
  /\ \A a, b \in Arc : /\ Vol(a) # Par(b) /\ Vol(a) # Out(b) /\ Par(a) # Out(b)
                       /\ (Vol(a) = Vol(b) => a = b) /\ (Par(a) = Par(b) => a = b) /\ (Out(a) = Out(b) => a = b)
BY DEF Arc, File, Vol, Par, Out, Sample, Alien

\* The order of the stages.
LEMMA Afters ==
  /\ after("quickcheck") = "repair" /\ after("repair") = "rar_volume_recovery"
  /\ after("rar_volume_recovery") = "unpack" /\ after("unpack") = "sample_cleanup"
  /\ after("sample_cleanup") = "par2_cleanup" /\ after("par2_cleanup") = "extension_cleanup"
  /\ after("extension_cleanup") = "finalize" /\ after("finalize") = "cleanup"
  /\ after("cleanup") = "script" /\ after("script") = "done"
<1>1. DOMAIN Stages = 1..10 /\ Len(Stages) = 10
  BY DEF Stages
<1>2. ASSUME NEW k \in 1..10, NEW s, Stages[k] = s, \A i \in 1..10 : Stages[i] = s => i = k
      PROVE  after(s) = IF k = 10 THEN "done" ELSE Stages[k + 1]
  <2> DEFINE c == CHOOSE i \in DOMAIN Stages : Stages[i] = s
  <2>1. c = k
    BY <1>1, <1>2
  <2>2. after(s) = IF c = Len(Stages) THEN "done" ELSE Stages[c + 1]
    BY DEF after
  <2> HIDE DEF c
  <2> QED BY <1>1, <2>1, <2>2
<1>3. /\ Stages[1] = "quickcheck" /\ Stages[2] = "repair" /\ Stages[3] = "rar_volume_recovery"
      /\ Stages[4] = "unpack" /\ Stages[5] = "sample_cleanup" /\ Stages[6] = "par2_cleanup"
      /\ Stages[7] = "extension_cleanup" /\ Stages[8] = "finalize" /\ Stages[9] = "cleanup"
      /\ Stages[10] = "script"
  BY DEF Stages
<1>4. ASSUME NEW k \in 1..10 PROVE \A i \in 1..10 : Stages[i] = Stages[k] => i = k
  BY <1>3
<1>5. ASSUME NEW k \in 1..10 PROVE after(Stages[k]) = IF k = 10 THEN "done" ELSE Stages[k + 1]
  BY <1>2, <1>4
<1>6. /\ after(Stages[1]) = Stages[2] /\ after(Stages[2]) = Stages[3] /\ after(Stages[3]) = Stages[4]
      /\ after(Stages[4]) = Stages[5] /\ after(Stages[5]) = Stages[6] /\ after(Stages[6]) = Stages[7]
      /\ after(Stages[7]) = Stages[8] /\ after(Stages[8]) = Stages[9] /\ after(Stages[9]) = Stages[10]
      /\ after(Stages[10]) = "done"
  BY <1>5
<1> QED BY <1>3, <1>6

\* Moving files.
LEMMA Moving ==
  ASSUME NEW fs, NEW where, place' = moved(fs, where)
  PROVE  /\ place' = [f \in File |-> place'[f]]
         /\ \A f \in File : place'[f] = IF f \in fs THEN where ELSE place[f]
BY DEF moved

\* What one step of a walk leaves to the next: it is in stage s with t to do.
goesWith(v, s, t, w) ==
  /\ isWalk(v) /\ v.stage = s /\ v.todo = t /\ v.du = w.du /\ v.ready = w.ready
  /\ v.parError = w.parError /\ v.unpackError = w.unpackError

LEMMA StageSet ==
  ASSUME NEW w, isWalk(w), NEW s, NEW v, v = [w EXCEPT !.stage = s]
  PROVE  goesWith(v, s, w.todo, w)
BY DEF isWalk, goesWith

LEMMA QuickSet ==
  ASSUME NEW w, isWalk(w), NEW s, NEW q, NEW v, v = [[w EXCEPT !.quick = q] EXCEPT !.stage = s]
  PROVE  goesWith(v, s, w.todo, w)
BY DEF isWalk, goesWith

LEMMA MsgSet ==
  ASSUME NEW w, isWalk(w), NEW s, NEW m, NEW v, v = [[w EXCEPT !.failMsg = m] EXCEPT !.stage = s]
  PROVE  goesWith(v, s, w.todo, w)
BY DEF isWalk, goesWith

LEMMA StartSet ==
  ASSUME NEW w, isWalk(w), NEW s, NEW m, NEW o, NEW v,
         \/ v = [w EXCEPT !.failMsg = m, !.stage = s]
         \/ v = [w EXCEPT !.owned = o, !.met = m, !.stage = s]
  PROVE  goesWith(v, s, w.todo, w)
<1>1. CASE v = [w EXCEPT !.failMsg = m, !.stage = s]
  BY <1>1 DEF isWalk, goesWith
<1>2. CASE v = [w EXCEPT !.owned = o, !.met = m, !.stage = s]
  BY <1>2 DEF isWalk, goesWith
<1> QED BY <1>1, <1>2

LEMMA TodoSet ==
  ASSUME NEW w, isWalk(w), NEW s, NEW t, NEW v, v = [w EXCEPT !.stage = s, !.todo = t]
  PROVE  goesWith(v, s, t, w)
BY DEF isWalk, goesWith

\* The other updates of a walk.
settled(w, t) == [w EXCEPT !.todo = t]
repaired(w, t, e) == [w EXCEPT !.todo = t, !.parError = e]
unpacking(w, t, r, o) == [w EXCEPT !.stage = "extract", !.todo = t, !.ready = r, !.owned = o]
notScanned(w, o, e, s) == [[w EXCEPT !.owned = o, !.unpackError = e] EXCEPT !.stage = s]
notRead(w, e, s) == [[w EXCEPT !.parError = e] EXCEPT !.stage = s]
wentWrong(w, t, e) == [w EXCEPT !.stage = "extract", !.todo = t, !.unpackError = e]

LEMMA SettledSet ==
  ASSUME NEW w, isWalk(w), NEW t, NEW v, v = settled(w, t)
  PROVE  goesWith(v, w.stage, t, w)
BY DEF isWalk, settled, goesWith

LEMMA RepairedSet ==
  ASSUME NEW w, isWalk(w), NEW t, NEW e, NEW v, v = repaired(w, t, e)
  PROVE  /\ isWalk(v) /\ v.stage = w.stage /\ v.todo = t /\ v.du = w.du /\ v.ready = w.ready
         /\ v.unpackError = w.unpackError /\ v.parError = e
BY DEF isWalk, repaired

LEMMA UnpackingSet ==
  ASSUME NEW w, isWalk(w), NEW t, NEW r, NEW o, NEW v, v = unpacking(w, t, r, o)
  PROVE  /\ isWalk(v) /\ v.stage = "extract" /\ v.todo = t /\ v.du = w.du /\ v.ready = r
         /\ v.parError = w.parError /\ v.unpackError = w.unpackError
BY DEF isWalk, unpacking

LEMMA NotScannedSet ==
  ASSUME NEW w, isWalk(w), NEW o, NEW e, NEW s, NEW v, v = notScanned(w, o, e, s)
  PROVE  /\ isWalk(v) /\ v.stage = s /\ v.todo = w.todo /\ v.du = w.du /\ v.ready = w.ready
         /\ v.parError = w.parError /\ v.unpackError = e
BY DEF isWalk, notScanned

LEMMA ParErrorSet ==
  ASSUME NEW w, isWalk(w), NEW s, NEW e, NEW v, v = notRead(w, e, s)
  PROVE  /\ isWalk(v) /\ v.stage = s /\ v.todo = w.todo /\ v.du = w.du /\ v.ready = w.ready
         /\ v.unpackError = w.unpackError /\ v.parError = e
BY DEF isWalk, notRead

LEMMA WentWrongSet ==
  ASSUME NEW w, isWalk(w), NEW t, NEW e, NEW v, v = wentWrong(w, t, e)
  PROVE  /\ isWalk(v) /\ v.stage = "extract" /\ v.todo = t /\ v.du = w.du /\ v.ready = w.ready
         /\ v.parError = w.parError /\ v.unpackError = e
BY DEF isWalk, wentWrong

\* An archive that counts as extracted, and one that does not.
LEMMA Counted ==
  ASSUME NEW a, NEW fs, isWalk(walk), walk' = counts(a, fs)
  PROVE  /\ isWalk(walk') /\ walk'.stage = "extract" /\ walk'.todo = walk.todo \ {a} /\ walk'.du = walk.du
         /\ walk'.ready = walk.ready \cup {a}
         /\ walk'.parError = walk.parError /\ walk'.unpackError = walk.unpackError
<1>1. PICK t, r, o : t = walk.todo \ {a} /\ r = walk.ready \cup {a} /\ o = walk.owned \cup fs
  OBVIOUS
<1>2. walk' = unpacking(walk, t, r, o)
  BY <1>1 DEF counts, unpacking
<1>3. /\ isWalk(walk') /\ walk'.stage = "extract" /\ walk'.todo = t /\ walk'.du = walk.du
      /\ walk'.ready = r /\ walk'.parError = walk.parError /\ walk'.unpackError = walk.unpackError
  BY <1>2, UnpackingSet
<1> QED BY <1>1, <1>3

LEMMA Failed ==
  ASSUME NEW a, isWalk(walk), walk' = extracts(a)
  PROVE  /\ isWalk(walk') /\ walk'.stage = "extract" /\ walk'.todo = walk.todo \ {a} /\ walk'.du = walk.du
         /\ walk'.ready = walk.ready /\ walk'.parError = walk.parError /\ walk'.unpackError = TRUE
<1>1. PICK t, e : t = walk.todo \ {a} /\ e = TRUE
  OBVIOUS
<1>2. walk' = wentWrong(walk, t, e)
  BY <1>1 DEF extracts, wentWrong
<1>3. /\ isWalk(walk') /\ walk'.stage = "extract" /\ walk'.todo = t /\ walk'.du = walk.du
      /\ walk'.ready = walk.ready /\ walk'.parError = walk.parError /\ walk'.unpackError = e
  BY <1>2, WentWrongSet
<1> QED BY <1>1, <1>3

LEMMA KeepStart == StagesInit => KeepInv
<1> SUFFICES ASSUME StagesInit PROVE KeepInv
  OBVIOUS
<1>1. PICK du \in SUBSET ({"rar"} \ (damaged \cup hidden)) :
        /\ walk = Fresh(du)
        /\ place = [f \in File |-> CASE f = Alien -> "none"
                                     [] \E a \in Arc : f = Out(a) /\ a \notin du -> "none"
                                     [] OTHER -> "dl"]
        /\ content = [a \in Arc |-> IF a \in du THEN "whole" ELSE "none"]
  BY DEF StagesInit
<1>2. /\ isWalk(walk) /\ walk.stage = "queued" /\ walk.du = du /\ walk.ready = {} /\ walk.todo = {}
      /\ du \subseteq Arc
  BY <1>1 DEF Fresh, isWalk, Arc
<1>3. place = [f \in File |-> place[f]] /\ content = [a \in Arc |-> content[a]]
  BY <1>1
<1>4. \A a \in Arc : place[Vol(a)] = "dl" /\ (a \in du => place[Out(a)] = "dl")
  BY <1>1, Files
<1>5. \A a \in Arc : content[a] # "part" /\ (a \in du => content[a] = "whole")
  BY <1>1
<1>6. short = {}
  BY DEF StagesInit
<1>7. \A a \in Arc : volumesKept(a) /\ (a \in du => outputKept(a))
  BY <1>4, <1>5, <1>6 DEF volumesKept, outputKept, onDisk
<1>8. owed \subseteq Arc
  BY DEF owed
<1>9. ExtractedIsKept
  <2>1. \A a \in Arc : onDisk(Out(a)) => content[a] \in {"part", "bad", "whole"}
    BY <1>1, Files DEF onDisk
  <2> QED BY <1>2, <1>7, <1>8, <2>1 DEF ExtractedIsKept
<1>10. PartIsWritten
  BY <1>5, <1>8 DEF PartIsWritten
<1>11. PayloadKept /\ ParNeedsVolume
  BY <1>4, <1>7, <1>8 DEF PayloadKept, ParNeedsVolume
<1>12. TodoIsThere /\ SeenIsUnpacked
  BY <1>2 DEF TodoIsThere, SeenIsUnpacked, in
<1> QED BY <1>2, <1>3, <1>9, <1>10, <1>11, <1>12 DEF KeepInv

\* What every step but an extraction, a deletion of volumes and an interruption
\* leaves alone.
calm ==
  /\ place' = [f \in File |-> place'[f]]
  /\ config' = config /\ content' = content /\ cut' = cut /\ short' \subseteq short
  /\ \A a \in owed :
       /\ onDisk(Out(a)) <=> onDisk(Out(a))'
       /\ onDisk(Vol(a)) => onDisk(Vol(a))'
       /\ place'[Par(a)] = "dl" => place[Par(a)] = "dl"
       /\ place'[Par(a)] = "dl" /\ place[Vol(a)] \in {"dl", "gone"} => place'[Vol(a)] \in {"dl", "gone"}

LEMMA CalmKeeps ==
  ASSUME KeepInv, calm, walk'.du \subseteq walk.du, walk'.ready \subseteq walk.ready \cup walk.du,
         walk'.todo \subseteq Arc
  PROVE  /\ owed' = owed /\ owed \subseteq Arc
         /\ \A a \in owed : (volumesKept(a) => volumesKept(a)') /\ (outputKept(a) => outputKept(a)')
         /\ content' = [a \in Arc |-> content'[a]]
         /\ ExtractedIsKept' /\ ParNeedsVolume' /\ PayloadKept'
<1>1. owed' = owed /\ owed \subseteq Arc
  BY DEF calm, owed, joinDisabled
<1>2. \A a \in owed : (volumesKept(a) => volumesKept(a)') /\ (outputKept(a) => outputKept(a)')
  BY DEF calm, volumesKept, outputKept
<1>3. ExtractedIsKept'
  <2>1. \A a \in owed \cap (walk.du \cup walk.ready) : outputKept(a)
    BY DEF KeepInv, ExtractedIsKept
  <2>2. \A a \in owed \cap (walk'.du \cup walk'.ready) : outputKept(a)'
    BY <1>2, <2>1
  <2>3. walk.du \subseteq Arc /\ walk.ready \subseteq Arc
    BY DEF KeepInv, ExtractedIsKept
  <2>4. \A a \in owed : onDisk(Out(a))' => content'[a] \in {"part", "bad", "whole"}
    BY DEF KeepInv, ExtractedIsKept, calm
  <2> QED BY <1>1, <2>2, <2>3, <2>4 DEF ExtractedIsKept
<1>4. ParNeedsVolume'
  <2>1. ASSUME NEW a \in owed, place'[Par(a)] = "dl" PROVE place'[Vol(a)] \in {"dl", "gone"}
    <3>1. place[Par(a)] = "dl"
      BY <2>1 DEF calm
    <3>2. place[Vol(a)] \in {"dl", "gone"}
      BY <3>1 DEF KeepInv, ParNeedsVolume
    <3> QED BY <2>1, <3>2 DEF calm
  <2> QED BY <1>1, <2>1 DEF ParNeedsVolume, Par, Vol
<1>5. PayloadKept'
  BY <1>1, <1>2 DEF KeepInv, PayloadKept
<1>6. content' = [a \in Arc |-> content'[a]]
  BY DEF calm, KeepInv
<1> QED BY <1>1, <1>2, <1>3, <1>4, <1>5, <1>6

\* Outside an extraction there is no half a file.
LEMMA NoPart ==
  ASSUME KeepInv, ~in("write")
  PROVE  \A a \in owed : content[a] # "part"
BY DEF KeepInv, PartIsWritten

Told == {"extract", "write", "delete", "sample_cleanup", "par2_cleanup"}

\* A step to a stage of which nothing is said.
LEMMA PlainStep ==
  ASSUME KeepInv, calm, ~in("write"), isWalk(walk'), walk'.du \subseteq walk.du,
         walk'.ready \subseteq walk.ready \cup walk.du, walk'.todo \subseteq Arc, walk'.stage \notin Told
  PROVE  KeepInv'
<1>1. PartIsWritten'
  BY NoPart, CalmKeeps DEF PartIsWritten, calm
<1>2. SeenIsUnpacked' /\ TodoIsThere'
  BY DEF SeenIsUnpacked, TodoIsThere, in, Told
<1>3. place' = [f \in File |-> place'[f]]
  BY DEF calm
<1> QED BY <1>1, <1>2, <1>3, CalmKeeps DEF KeepInv

LEMMA PlainGoes ==
  ASSUME KeepInv, calm, ~in("write"), NEW s, s \notin Told, NEW t, t \subseteq Arc, goesWith(walk', s, t, walk)
  PROVE  KeepInv'
<1>1. /\ isWalk(walk') /\ walk'.du \subseteq walk.du /\ walk'.ready \subseteq walk.ready \cup walk.du
      /\ walk'.todo \subseteq Arc /\ walk'.stage \notin Told
  BY DEF goesWith
<1> QED BY <1>1, PlainStep

\* Moves that spare the archives the stages owe something to.
LEMMA SparesArchives ==
  ASSUME KeepInv, config' = config, content' = content, cut' = cut, short' = short,
         NEW fs, fs \subseteq config.junk \cup {Sample, Alien}, NEW where, place' = moved(fs, where)
  PROVE  /\ calm
         /\ \A a \in owed : place'[Vol(a)] = place[Vol(a)] /\ place'[Par(a)] = place[Par(a)]
                            /\ place'[Out(a)] = place[Out(a)]
<1>1. /\ place' = [f \in File |-> place'[f]]
      /\ \A f \in File : place'[f] = IF f \in fs THEN where ELSE place[f]
  BY Moving
<1>2. ASSUME NEW a \in owed
      PROVE  place'[Vol(a)] = place[Vol(a)] /\ place'[Par(a)] = place[Par(a)] /\ place'[Out(a)] = place[Out(a)]
  <2>1. a \in Arc /\ {Vol(a), Par(a), Out(a)} \cap config.junk = {}
    BY <1>2 DEF owed
  <2>2. Vol(a) \notin fs /\ Par(a) \notin fs /\ Out(a) \notin fs
    BY <2>1, Files
  <2>3. Vol(a) \in File /\ Par(a) \in File /\ Out(a) \in File
    BY <2>1, Files
  <2> QED BY <1>1, <2>2, <2>3
<1> QED BY <1>1, <1>2 DEF calm, onDisk

LEMMA Resting ==
  ASSUME KeepInv, place' = place, config' = config, content' = content, cut' = cut, short' \subseteq short
  PROVE  calm
BY DEF calm, onDisk, KeepInv

\* Everything in the directory, or its content, goes to another place.
LEMMA MovesOn ==
  ASSUME KeepInv, config' = config, content' = content, cut' = cut, short' = short,
         NEW where, where \in {"failed", "unpack", "final"},
         \/ place' = moved(inDir, where)
         \/ \E part \in {{}, {Out(a) : a \in Arc}} : place' = moved(here(part), where)
         \/ place' = [f \in File |-> IF place[f] = "unpack" THEN "final" ELSE place[f]]
  PROVE  calm
<1>0. owed \subseteq Arc
  BY DEF owed
<1>1. CASE place' = moved(inDir, where)
  <2>1. /\ place' = [f \in File |-> place'[f]]
        /\ \A f \in File : place'[f] = IF place[f] = "dl" THEN where ELSE place[f]
    BY <1>1, Moving DEF inDir
  <2> QED BY <1>0, <2>1, Files DEF calm, onDisk
<1>2. ASSUME NEW part \in {{}, {Out(a) : a \in Arc}}, place' = moved(here(part), where) PROVE calm
  <2>1. /\ place' = [f \in File |-> place'[f]]
        /\ \A f \in File : place'[f] = IF f \in here(part) THEN where ELSE place[f]
    BY <1>2, Moving
  <2>2. \A a \in Arc : place'[Vol(a)] = place[Vol(a)] /\ place'[Par(a)] = place[Par(a)]
    BY <1>2, <2>1, Files DEF here
  <2>3. \A a \in Arc : place'[Out(a)] = place[Out(a)] \/ (place[Out(a)] = "dl" /\ place'[Out(a)] = where)
    BY <2>1, Files DEF here
  <2> QED BY <1>0, <2>1, <2>2, <2>3 DEF calm, onDisk
<1>3. CASE place' = [f \in File |-> IF place[f] = "unpack" THEN "final" ELSE place[f]]
  <2>1. /\ place' = [f \in File |-> place'[f]]
        /\ \A f \in File : place'[f] = IF place[f] = "unpack" THEN "final" ELSE place[f]
    BY <1>3
  <2> QED BY <1>0, <2>1, Files DEF calm, onDisk
<1> QED BY <1>1, <1>2, <1>3

\* The stages before the unpacking, those after the cleanups, and the end.
LEMMA PlainStages ==
  ASSUME KeepInv,
         \/ Begin \/ QuickCheck \/ Repair \/ Repaired \/ RarVolumeRecovery \/ Par2Cleanup \/ ExtensionCleanup
         \/ Finalize \/ StripPrefix \/ Cleanup \/ Script
  PROVE  KeepInv'
<1>0. /\ isWalk(walk) /\ config' = config /\ content' = content /\ cut' = cut /\ short' = short
      /\ walk.todo \subseteq Arc
  BY DEF KeepInv, ExtractedIsKept, Begin, QuickCheck, Repair, Repaired, RarVolumeRecovery, Par2Cleanup,
         ExtensionCleanup, Finalize, StripPrefix, Cleanup, Script, inputs, kept
<1>w. ~in("write")
  BY DEF Begin, QuickCheck, Repair, Repaired, RarVolumeRecovery, Par2Cleanup, ExtensionCleanup,
         Finalize, StripPrefix, Cleanup, Script, in, Entering
<1>1. CASE Begin
  <2>1. place' = place
    BY <1>1 DEF Begin
  <2>2. PICK s \in {"done", "quickcheck"} : \E m, o :
          \/ walk' = [walk EXCEPT !.failMsg = m, !.stage = s]
          \/ walk' = [walk EXCEPT !.owned = o, !.met = m, !.stage = s]
    <3>1. CASE inDir = {}
      BY <1>1, <3>1 DEF Begin
    <3>2. CASE inDir # {}
      <4>1. walk' = [walk EXCEPT !.owned = inDir, !.met = Alien \in inDir, !.stage = "quickcheck"]
        BY <1>1, <3>2 DEF Begin, Stages
      <4>2. PICK m : m = (Alien \in inDir)
        OBVIOUS
      <4> QED BY <4>1, <4>2, Zenon
    <3> QED BY <3>1, <3>2
  <2>3. goesWith(walk', s, walk.todo, walk)
    BY <1>0, <2>2, StartSet
  <2>4. s \notin Told
    BY <2>2 DEF Told
  <2> QED BY <1>0, <1>w, <2>1, <2>3, <2>4, Resting, PlainGoes
<1>2. CASE QuickCheck
  <2>1. place' = place /\ walk.stage = "quickcheck"
    BY <1>2 DEF QuickCheck, Entering, in
  <2>2. PICK q : walk' = [[walk EXCEPT !.quick = q] EXCEPT !.stage = after(walk.stage)]
    <3>1. \A q : [[walk EXCEPT !.quick = q] EXCEPT !.stage = after(walk.stage)] = leaves([walk EXCEPT !.quick = q])
      BY DEF leaves
    <3> QED BY <1>2, <3>1 DEF QuickCheck
  <2>3. goesWith(walk', "repair", walk.todo, walk)
    <3>1. walk' = [[walk EXCEPT !.quick = q] EXCEPT !.stage = "repair"]
      BY <2>1, <2>2, Afters
    <3> QED BY <1>0, <3>1, QuickSet
  <2> QED BY <1>0, <1>w, <2>1, <2>3, Resting, PlainGoes DEF Told
<1>3. CASE Repair
  <2>1. place' = place /\ walk.stage = "repair" /\ after(walk.stage) = "rar_volume_recovery"
    BY <1>3, Afters DEF Repair, Entering, in
  <2>2. CASE walk' = leaves(walk)
    <3>1. goesWith(walk', "rar_volume_recovery", walk.todo, walk)
      BY <1>0, <2>1, <2>2, StageSet DEF leaves
    <3> QED BY <1>0, <1>w, <2>1, <3>1, Resting, PlainGoes DEF Told
  <2>3. CASE walk' = [walk EXCEPT !.stage = "sets", !.todo = sets]
    <3>1. goesWith(walk', "sets", sets, walk)
      BY <1>0, <2>3, TodoSet
    <3>2. sets \subseteq Arc
      BY DEF sets
    <3> QED BY <1>0, <1>w, <2>1, <3>1, <3>2, Resting, PlainGoes DEF Told
  <2>4. CASE walk' = leaves([walk EXCEPT !.parError = TRUE])
    <3>1. PICK e : e = TRUE
      OBVIOUS
    <3>2. walk' = notRead(walk, e, "rar_volume_recovery")
      BY <2>1, <2>4, <3>1 DEF leaves, notRead
    <3>3. /\ isWalk(walk') /\ walk'.stage = "rar_volume_recovery" /\ walk'.todo = walk.todo /\ walk'.du = walk.du
          /\ walk'.ready = walk.ready
      BY <1>0, <3>2, ParErrorSet
    <3> QED BY <1>0, <1>w, <2>1, <3>3, Resting, PlainStep DEF Told
  <2>5. \/ walk' = leaves(walk) \/ walk' = [walk EXCEPT !.stage = "sets", !.todo = sets]
        \/ walk' = leaves([walk EXCEPT !.parError = TRUE])
    BY <1>3, Zenon DEF Repair
  <2> QED BY <2>2, <2>3, <2>4, <2>5
<1>4. CASE Repaired
  <2>1. place' = place /\ walk' = [walk EXCEPT !.stage = "rar_volume_recovery"]
    BY <1>4, Afters DEF Repaired
  <2>2. goesWith(walk', "rar_volume_recovery", walk.todo, walk)
    BY <1>0, <2>1, StageSet
  <2> QED BY <1>0, <1>w, <2>1, <2>2, Resting, PlainGoes DEF Told
<1>5. CASE RarVolumeRecovery
  <2>1. place' = place /\ walk' = [walk EXCEPT !.stage = "unpack"]
    BY <1>5, Afters DEF RarVolumeRecovery, Entering, in, leaves
  <2>2. goesWith(walk', "unpack", walk.todo, walk)
    BY <1>0, <2>1, StageSet
  <2> QED BY <1>0, <1>w, <2>1, <2>2, Resting, PlainGoes DEF Told
<1>6. CASE Par2Cleanup
  <2>1. walk' = [walk EXCEPT !.stage = "extension_cleanup"]
    BY <1>6, Afters DEF Par2Cleanup, Entering, in, leaves
  <2>2. goesWith(walk', "extension_cleanup", walk.todo, walk)
    BY <1>0, <2>1, StageSet
  <2>3. calm
    <3>1. CASE place' = place
      BY <1>0, <3>1, Resting
    <3>2. CASE place' = moved(here({Par(a) : a \in Arc}), "gone")
      <4>1. /\ place' = [f \in File |-> place'[f]]
            /\ \A f \in File : place'[f] = IF f \in here({Par(a) : a \in Arc}) THEN "gone" ELSE place[f]
        BY <3>2, Moving
      <4>2. \A a \in Arc : place'[Vol(a)] = place[Vol(a)] /\ place'[Out(a)] = place[Out(a)]
        BY <4>1, Files DEF here
      <4>3. \A a \in Arc : place'[Par(a)] = "dl" => place[Par(a)] = "dl"
        BY <4>1, Files
      <4>4. owed \subseteq Arc
        BY DEF owed
      <4> QED BY <1>0, <4>1, <4>2, <4>3, <4>4 DEF calm, onDisk
    <3> QED BY <1>6, <3>1, <3>2 DEF Par2Cleanup
  <2> QED BY <1>0, <1>w, <2>2, <2>3, PlainGoes DEF Told
<1>7. CASE ExtensionCleanup
  <2>1. walk' = [walk EXCEPT !.stage = "finalize"] /\ place' = moved(mine(junk), "gone")
    BY <1>7, Afters DEF ExtensionCleanup, Entering, in, leaves
  <2>2. goesWith(walk', "finalize", walk.todo, walk)
    BY <1>0, <2>1, StageSet
  <2>3. mine(junk) \subseteq config.junk \cup {Sample, Alien}
    BY DEF mine, junk, here
  <2>4. calm
    BY <1>0, <2>1, <2>3, SparesArchives
  <2> QED BY <1>0, <1>w, <2>2, <2>4, PlainGoes DEF Told
<1>8. CASE Finalize
  <2>1. walk' = [walk EXCEPT !.stage = "cleanup"] \/ walk' = [walk EXCEPT !.stage = "strip"]
    BY <1>8, Afters DEF Finalize, Entering, in, leaves, handleFailure, moveToDest, moveFails
  <2>2. PICK s \in {"cleanup", "strip"} : goesWith(walk', s, walk.todo, walk)
    BY <1>0, <2>1, StageSet
  <2>3. dest \in {"unpack", "final"} /\ s \notin Told
    BY <2>2 DEF dest, Told
  <2>4. \/ place' = place \/ place' = moved(inDir, "failed") \/ place' = moved(inDir, dest)
        \/ \E part \in {{}, {Out(a) : a \in Arc}} : place' = moved(here(part), dest)
    BY <1>8 DEF Finalize, handleFailure, moveToDest, moveFails
  <2>5. calm
    BY <1>0, <2>3, <2>4, MovesOn, Resting
  <2> QED BY <1>0, <1>w, <2>2, <2>3, <2>5, PlainGoes
<1>9. CASE StripPrefix
  <2>1. walk' = [walk EXCEPT !.stage = "cleanup"]
    BY <1>9, Afters DEF StripPrefix
  <2>2. goesWith(walk', "cleanup", walk.todo, walk)
    BY <1>0, <2>1, StageSet
  <2>3. place' = place \/ place' = [f \in File |-> IF place[f] = "unpack" THEN "final" ELSE place[f]]
    BY <1>9 DEF StripPrefix
  <2>4. calm
    BY <1>0, <2>3, MovesOn, Resting
  <2> QED BY <1>0, <1>w, <2>2, <2>4, PlainGoes DEF Told
<1>10. CASE Cleanup
  <2>1. place' = place /\ walk' = [walk EXCEPT !.stage = "script"]
    BY <1>10, Afters DEF Cleanup, Entering, in, leaves
  <2>2. goesWith(walk', "script", walk.todo, walk)
    BY <1>0, <2>1, StageSet
  <2> QED BY <1>0, <1>w, <2>1, <2>2, Resting, PlainGoes DEF Told
<1>11. CASE Script
  <2>1. place' = place /\ walk.stage = "script"
    BY <1>11 DEF Script, Entering, in
  <2>2. \/ walk' = [walk EXCEPT !.stage = "done"]
        \/ \E m : walk' = [[walk EXCEPT !.failMsg = m] EXCEPT !.stage = "done"]
    <3>1. CASE walk' = leaves(walk)
      BY <2>1, <3>1, Afters DEF leaves
    <3>2. CASE walk' = leaves([walk EXCEPT !.failMsg = TRUE])
      BY <2>1, <3>2, Afters DEF leaves
    <3> QED BY <1>11, <3>1, <3>2 DEF Script
  <2>3. goesWith(walk', "done", walk.todo, walk)
    BY <1>0, <2>2, StageSet, MsgSet
  <2> QED BY <1>0, <1>w, <2>1, <2>3, Resting, PlainGoes DEF Told
<1> QED BY <1>1, <1>2, <1>3, <1>4, <1>5, <1>6, <1>7, <1>8, <1>9, <1>10, <1>11

\* A step that changes nothing SeenIsUnpacked speaks of but leaves the samples.
LEMMA SeenStays ==
  ASSUME KeepInv, isWalk(walk'), calm, short' = short, hidden' = hidden,
         \A a \in owed : place'[Vol(a)] = place[Vol(a)] /\ place'[Par(a)] = place[Par(a)]
                         /\ place'[Out(a)] = place[Out(a)],
         \/ walk' = walk /\ \A a \in Arc : place'[Vol(a)] = place[Vol(a)]
         \/ walk.stage = "sample_cleanup" /\ goesWith(walk', "par2_cleanup", walk.todo, walk)
  PROVE  KeepInv'
<1>1. /\ walk'.du \subseteq walk.du /\ walk'.ready \subseteq walk.ready \cup walk.du /\ walk'.todo \subseteq Arc
      /\ config' = config /\ content' = content
  BY DEF goesWith, KeepInv, ExtractedIsKept, calm
<1>2. /\ owed' = owed /\ owed \subseteq Arc
      /\ \A a \in owed : outputKept(a) => outputKept(a)'
      /\ content' = [a \in Arc |-> content'[a]]
      /\ ExtractedIsKept' /\ ParNeedsVolume' /\ PayloadKept'
  BY <1>1, CalmKeeps
<1>3. place' = [f \in File |-> place'[f]]
  BY DEF calm
<1>4. CASE walk' = walk /\ \A a \in Arc : place'[Vol(a)] = place[Vol(a)]
  <2>1. SeenIsUnpacked'
    <3>1. visible' = visible
      BY <1>4 DEF visible
    <3> QED BY <1>1, <1>2, <1>4, <3>1 DEF KeepInv, SeenIsUnpacked
  <2>2. PartIsWritten'
    BY <1>1, <1>2, <1>4 DEF KeepInv, PartIsWritten, in, turnOf
  <2>3. TodoIsThere'
    BY <1>1, <1>4 DEF KeepInv, TodoIsThere, in, turnOf, ExtractedIsKept
  <2> QED BY <1>2, <1>3, <2>1, <2>2, <2>3 DEF KeepInv
<1>5. CASE walk.stage = "sample_cleanup" /\ goesWith(walk', "par2_cleanup", walk.todo, walk)
  <2>1. walk'.stage = "par2_cleanup" /\ walk'.parError = walk.parError /\ walk'.unpackError = walk.unpackError
    BY <1>5 DEF goesWith
  <2>2. \A a \in owed : content[a] # "part"
    BY <1>5, NoPart DEF in
  <2>3. PartIsWritten'
    BY <1>1, <1>2, <2>2 DEF PartIsWritten
  <2>4. TodoIsThere'
    BY <2>1 DEF TodoIsThere, in
  <2>5. SeenIsUnpacked'
    BY <1>1, <1>2, <1>5, <2>1 DEF KeepInv, SeenIsUnpacked
  <2> QED BY <1>2, <1>3, <2>3, <2>4, <2>5 DEF KeepInv
<1> QED BY <1>4, <1>5

\* The par2 cleanup and the one before it owe nothing if an error is known or
\* nothing is unpacked.
LEMMA ToSamples ==
  ASSUME KeepInv, ~in("write"), calm, isWalk(walk'), walk'.stage = "sample_cleanup",
         walk'.du = walk.du, walk'.ready = walk.ready, walk'.todo = walk.todo,
         walk'.parError \/ walk'.unpackError \/ asIs(config)
  PROVE  KeepInv'
<1>1. walk.todo \subseteq Arc
  BY DEF KeepInv, ExtractedIsKept
<1>2. /\ owed' = owed /\ content' = [a \in Arc |-> content'[a]]
      /\ ExtractedIsKept' /\ ParNeedsVolume' /\ PayloadKept'
  BY <1>1, CalmKeeps
<1>3. PartIsWritten'
  BY <1>2, NoPart DEF PartIsWritten, calm
<1>4. TodoIsThere'
  BY DEF TodoIsThere, in
<1>5. SeenIsUnpacked'
  BY DEF SeenIsUnpacked, calm
<1>6. place' = [f \in File |-> place'[f]]
  BY DEF calm
<1> QED BY <1>2, <1>3, <1>4, <1>5, <1>6 DEF KeepInv

LEMMA SkipKeeps ==
  ASSUME KeepInv, Skip
  PROVE  KeepInv'
<1>1. /\ isWalk(walk) /\ UNCHANGED <<config, place, hidden, content, cut, short>>
      /\ walk' = [walk EXCEPT !.stage = after(walk.stage)] /\ walk.todo \subseteq Arc
  BY DEF KeepInv, ExtractedIsKept, Skip, leaves, inputs, kept
<1>2. calm /\ goesWith(walk', after(walk.stage), walk.todo, walk)
  BY <1>1, Resting, StageSet
<1>3. CASE walk.stage \in {"quickcheck", "repair", "extension_cleanup", "par2_cleanup"}
  <2>1. after(walk.stage) \notin Told /\ ~in("write")
    BY <1>3, Afters DEF Told, in
  <2> QED BY <1>1, <1>2, <2>1, PlainGoes
<1>4. CASE walk.stage = "sample_cleanup"
  <2>1. goesWith(walk', "par2_cleanup", walk.todo, walk)
    BY <1>2, <1>4, Afters
  <2>2. isWalk(walk')
    BY <2>1 DEF goesWith
  <2> QED BY <1>1, <1>2, <1>4, <2>1, <2>2, SeenStays
<1>5. CASE walk.stage = "unpack" /\ config.pp < 2
  <2>1. goesWith(walk', "sample_cleanup", walk.todo, walk)
    BY <1>2, <1>5, Afters
  <2>2. /\ isWalk(walk') /\ walk'.stage = "sample_cleanup" /\ walk'.du = walk.du
        /\ walk'.ready = walk.ready /\ walk'.todo = walk.todo
    BY <2>1 DEF goesWith
  <2> QED BY <1>2, <1>5, <2>2, ToSamples DEF in, asIs
<1> QED BY <1>3, <1>4, <1>5 DEF Skip, skipped

LEMMA RepairSetKeeps ==
  ASSUME KeepInv, NEW a \in Arc, RepairSet(a)
  PROVE  KeepInv'
<1>1. /\ isWalk(walk) /\ UNCHANGED <<config, place, content, cut>> /\ walk.stage = "sets"
      /\ short' \subseteq short /\ walk.todo \subseteq Arc
  BY DEF KeepInv, ExtractedIsKept, RepairSet, handleRepairResult, inputs, in
<1>2. PICK t, e : t \subseteq Arc /\ (walk' = settled(walk, t) \/ walk' = repaired(walk, t, e))
  <2>1. CASE walk' = [walk EXCEPT !.todo = @ \ {a}]
    BY <1>1, <2>1 DEF settled
  <2>2. ASSUME NEW ok, handleRepairResult(a, ok)
        PROVE  \E t, e : t \subseteq Arc /\ walk' = repaired(walk, t, e)
    <3>1. PICK e, t : e = (walk.parError \/ ~ok) /\ t = walk.todo \ {a}
      OBVIOUS
    <3>2. walk' = [walk EXCEPT !.todo = walk.todo \ {a}, !.parError = walk.parError \/ ~ok]
      BY <2>2 DEF handleRepairResult
    <3>3. walk' = repaired(walk, t, e)
      BY <3>1, <3>2, Zenon DEF repaired
    <3>4. t \subseteq Arc
      BY <1>1, <3>1
    <3> QED BY <3>3, <3>4
  <2> QED BY <2>1, <2>2 DEF RepairSet
<1>3. /\ isWalk(walk') /\ walk'.stage = "sets" /\ walk'.du = walk.du /\ walk'.ready = walk.ready
      /\ walk'.todo = t
  BY <1>1, <1>2, SettledSet, RepairedSet DEF goesWith
<1>4. calm
  BY <1>1, Resting
<1> QED BY <1>1, <1>2, <1>3, <1>4, PlainStep DEF Told, in

\* The unpacking begins: what it sees and Direct Unpack did not extract is to do.
LEMMA UnpackKeeps ==
  ASSUME KeepInv, Unpack
  PROVE  KeepInv'
<1>1. /\ isWalk(walk) /\ UNCHANGED <<config, place, hidden, content, cut, short>> /\ walk.stage = "unpack"
      /\ after(walk.stage) = "sample_cleanup" /\ ~in("write")
  BY Afters DEF KeepInv, Unpack, inputs, kept, Entering, in
<1>2. calm
  BY <1>1, Resting
<1>3. CASE walk.parError /\ walk' = leaves(walk)
  <2>1. goesWith(walk', "sample_cleanup", walk.todo, walk)
    BY <1>1, <1>3, StageSet DEF leaves
  <2>2. /\ isWalk(walk') /\ walk'.stage = "sample_cleanup" /\ walk'.du = walk.du
        /\ walk'.ready = walk.ready /\ walk'.todo = walk.todo /\ walk'.parError
    BY <1>3, <2>1 DEF goesWith
  <2> QED BY <1>1, <1>2, <2>2, ToSamples
<1>4. ASSUME NEW o, walk' = leaves([walk EXCEPT !.owned = o, !.unpackError = TRUE]) PROVE KeepInv'
  <2>1. PICK e : e = TRUE
    OBVIOUS
  <2>2. walk' = notScanned(walk, o, e, "sample_cleanup")
    BY <1>1, <1>4, <2>1 DEF leaves, notScanned
  <2>3. /\ isWalk(walk') /\ walk'.stage = "sample_cleanup" /\ walk'.du = walk.du
        /\ walk'.ready = walk.ready /\ walk'.todo = walk.todo /\ walk'.unpackError = e
    BY <1>1, <2>2, NotScannedSet
  <2>4. walk'.unpackError
    BY <2>1, <2>3
  <2> QED BY <1>1, <1>2, <2>3, <2>4, ToSamples
<1>5. ASSUME NEW o,
             walk' = [walk EXCEPT !.stage = "extract", !.todo = visible \ walk.du, !.ready = walk.du, !.owned = o]
      PROVE  KeepInv'
  <2>1. PICK t, r : t = visible \ walk.du /\ r = walk.du
    OBVIOUS
  <2>2. walk' = unpacking(walk, t, r, o)
    BY <1>5, <2>1 DEF unpacking
  <2>3. isWalk(walk') /\ walk'.stage = "extract" /\ walk'.du = walk.du /\ walk'.ready = r /\ walk'.todo = t
    BY <1>1, <2>2, UnpackingSet
  <2>4. walk'.ready = walk.du /\ walk'.todo = visible \ walk.du /\ walk'.todo \subseteq Arc
    BY <2>1, <2>3 DEF visible
  <2>5. /\ owed' = owed /\ content' = [a \in Arc |-> content'[a]]
        /\ ExtractedIsKept' /\ ParNeedsVolume' /\ PayloadKept'
    BY <1>2, <2>3, <2>4, CalmKeeps
  <2>6. PartIsWritten'
    BY <1>1, <2>5, NoPart DEF PartIsWritten
  <2>7. TodoIsThere'
    BY <1>1, <2>3, <2>4 DEF TodoIsThere, in, visible
  <2>8. SeenIsUnpacked'
    <3>1. visible' = visible
      BY <1>1 DEF visible
    <3> QED BY <2>3, <2>4, <3>1 DEF SeenIsUnpacked
  <2>9. place' = [f \in File |-> place'[f]]
    BY <1>2 DEF calm
  <2> QED BY <2>3, <2>5, <2>6, <2>7, <2>8, <2>9 DEF KeepInv
<1> QED BY <1>3, <1>4, <1>5, Zenon DEF Unpack

\* What writing one archive's output leaves of the rest.
writes(a) ==
  /\ place' = [f \in File |-> place'[f]] /\ content' = [b \in Arc |-> content'[b]]
  /\ UNCHANGED <<config, hidden, short>>
  /\ \A b \in Arc : place'[Vol(b)] = place[Vol(b)] /\ place'[Par(b)] = place[Par(b)]
  /\ \A b \in Arc \ {a} : place'[Out(b)] = place[Out(b)] /\ content'[b] = content[b]
  /\ owed' \subseteq owed

LEMMA Writing ==
  ASSUME KeepInv, NEW a \in Arc, NEW where, NEW c, UNCHANGED <<config, hidden, short>>, cut \subseteq cut',
         \/ place' = moved({Out(a)}, where) /\ content' = [content EXCEPT ![a] = c]
         \/ place' = place /\ content' = content
  PROVE  writes(a)
<1>1. owed' \subseteq owed
  BY DEF owed, joinDisabled
<1>2. CASE place' = place /\ content' = content
  BY <1>1, <1>2 DEF writes, KeepInv
<1>3. CASE place' = moved({Out(a)}, where) /\ content' = [content EXCEPT ![a] = c]
  <2>1. /\ place' = [f \in File |-> place'[f]]
        /\ \A f \in File : place'[f] = IF f \in {Out(a)} THEN where ELSE place[f]
    BY <1>3, Moving
  <2>2. \A b \in Arc : place'[Vol(b)] = place[Vol(b)] /\ place'[Par(b)] = place[Par(b)]
    BY <2>1, Files
  <2>3. \A b \in Arc \ {a} : place'[Out(b)] = place[Out(b)]
    BY <2>1, Files
  <2>4. content = [b \in Arc |-> content[b]]
    BY DEF KeepInv
  <2>5. content' = [b \in Arc |-> content'[b]] /\ \A b \in Arc \ {a} : content'[b] = content[b]
    BY <1>3, <2>4
  <2> QED BY <1>1, <2>1, <2>2, <2>3, <2>5 DEF writes
<1> QED BY <1>2, <1>3

\* A step on the output of an archive whose volumes are there, or whose output
\* stays, and the account of it.
LEMMA ArchiveStep ==
  ASSUME KeepInv, NEW a \in Arc, walk.stage \in {"extract", "write"}, turnOf(a), writes(a), isWalk(walk'),
         walk'.du = walk.du, walk'.todo = walk.todo \ {a}, walk'.stage = "extract",
         \/ /\ walk'.ready = walk.ready \cup {a} /\ walk'.unpackError = walk.unpackError
            /\ a \in owed' => outputKept(a)'
         \/ walk'.ready = walk.ready /\ walk'.unpackError = TRUE,
         a \in owed' => content'[a] # "part",
         a \in owed' => volumesKept(a)' \/ (outputKept(a) => outputKept(a)'),
         a \in owed' => (onDisk(Out(a))' => content'[a] \in {"bad", "whole"})
  PROVE  KeepInv'
<1>0. a \notin walk.du \cup walk.ready
  BY DEF KeepInv, TodoIsThere, turnOf
<1>1. /\ place' = [f \in File |-> place'[f]] /\ content' = [b \in Arc |-> content'[b]]
      /\ owed' \subseteq owed /\ owed \subseteq Arc
  BY DEF writes, owed
<1>2. ASSUME NEW b \in owed', b # a
      PROVE  (volumesKept(b) => volumesKept(b)') /\ (outputKept(b) => outputKept(b)')
  BY <1>1, <1>2 DEF writes, volumesKept, outputKept, onDisk
<1>3. walk.du \subseteq Arc /\ walk.ready \subseteq Arc /\ walk.todo \subseteq Arc
  BY DEF KeepInv, ExtractedIsKept
<1>4. ExtractedIsKept'
  <2>1. ASSUME NEW b \in owed' \cap (walk'.du \cup walk'.ready) PROVE outputKept(b)'
    <3>1. CASE b = a
      BY <1>0, <2>1, <3>1
    <3>2. CASE b # a
      <4>1. b \in owed \cap (walk.du \cup walk.ready)
        BY <1>1, <2>1, <3>2
      <4>2. outputKept(b)
        BY <4>1 DEF KeepInv, ExtractedIsKept
      <4> QED BY <1>2, <2>1, <3>2, <4>2
    <3> QED BY <3>1, <3>2
  <2>2. walk'.du \subseteq Arc /\ walk'.ready \subseteq Arc /\ walk'.todo \subseteq Arc
    BY <1>3
  <2>3. ASSUME NEW b \in owed', onDisk(Out(b))' PROVE content'[b] \in {"part", "bad", "whole"}
    <3>1. CASE b = a
      BY <2>3, <3>1
    <3>2. CASE b # a
      <4>1. place'[Out(b)] = place[Out(b)] /\ content'[b] = content[b] /\ b \in owed
        BY <1>1, <2>3, <3>2 DEF writes
      <4>2. onDisk(Out(b))
        BY <2>3, <4>1 DEF onDisk
      <4> QED BY <4>1, <4>2 DEF KeepInv, ExtractedIsKept
    <3> QED BY <3>1, <3>2
  <2> QED BY <2>1, <2>2, <2>3 DEF ExtractedIsKept
<1>5. PartIsWritten'
  <2>1. ASSUME NEW b \in owed', content'[b] = "part" PROVE FALSE
    <3>1. b # a
      BY <2>1
    <3>2. b \in owed /\ b \in Arc /\ content[b] = "part"
      BY <1>1, <2>1, <3>1 DEF writes
    <3>3. turnOf(b)
      BY <3>2 DEF KeepInv, PartIsWritten
    <3> QED BY <3>1, <3>2, <3>3 DEF turnOf, Arc
  <2> QED BY <2>1 DEF PartIsWritten
<1>6. TodoIsThere'
  <2>1. \A b \in walk'.todo : place'[Vol(b)] = "dl" /\ b \notin walk'.du \cup walk'.ready
    BY <1>3 DEF KeepInv, TodoIsThere, writes
  <2> QED BY <2>1 DEF TodoIsThere, in
<1>7. ParNeedsVolume'
  BY <1>1 DEF KeepInv, ParNeedsVolume, writes
<1>8. PayloadKept'
  <2>1. ASSUME NEW b \in owed' PROVE volumesKept(b)' \/ outputKept(b)'
    <3>1. volumesKept(b) \/ outputKept(b)
      BY <1>1, <2>1 DEF KeepInv, PayloadKept
    <3>2. volumesKept(b) => volumesKept(b)'
      BY <1>1, <2>1 DEF writes, volumesKept, onDisk
    <3> QED BY <1>2, <2>1, <3>1, <3>2
  <2> QED BY <2>1 DEF PayloadKept
<1>9. SeenIsUnpacked'
  <2>1. visible' = visible
    BY DEF visible, writes
  <2>2. \A b \in visible \cap owed : b \in walk.todo \cup walk.ready \/ walk.unpackError
    BY DEF KeepInv, SeenIsUnpacked
  <2>3. \A b \in visible' \cap owed' : b \in walk'.todo \cup walk'.ready \/ walk'.unpackError
    BY <1>1, <2>1, <2>2
  <2> QED BY <2>3 DEF SeenIsUnpacked
<1> QED BY <1>1, <1>4, <1>5, <1>6, <1>7, <1>8, <1>9 DEF KeepInv

\* The volumes of the archive whose turn it is are there.
LEMMA TurnHasVolumes ==
  ASSUME KeepInv, NEW a \in Arc, walk.stage \in {"extract", "write"}, turnOf(a)
  PROVE  onDisk(Vol(a)) /\ (in("write") \/ a \notin short => volumesKept(a))
<1>1. place[Vol(a)] = "dl" /\ (in("write") => a \notin short)
  BY DEF KeepInv, TodoIsThere, turnOf
<1> QED BY <1>1 DEF onDisk, volumesKept

LEMMA ExtractKeeps ==
  ASSUME KeepInv, NEW a \in Arc, Extract(a)
  PROVE  KeepInv'
<1>1. /\ isWalk(walk) /\ UNCHANGED <<config, hidden, short, cut>> /\ walk.stage = "extract" /\ turnOf(a)
      /\ walk.todo \subseteq Arc /\ walk.du \subseteq Arc /\ walk.ready \subseteq Arc /\ ~in("write")
  BY DEF KeepInv, ExtractedIsKept, Extract, inputs, in
<1>2. owed' = owed /\ owed \subseteq Arc
  BY <1>1 DEF owed, joinDisabled
<1>3. \A b \in owed : content[b] # "part"
  BY <1>1, NoPart
<1>4. ASSUME UNCHANGED <<place, content>>
      PROVE  writes(a) /\ \A b \in Arc : (outputKept(b)' <=> outputKept(b)) /\ content'[b] = content[b]
  <2>1. writes(a)
    BY <1>1, <1>4, Writing
  <2> QED BY <1>4, <2>1 DEF outputKept, onDisk
<1>o. \A b \in owed : onDisk(Out(b)) => content[b] \in {"bad", "whole"}
  BY <1>3 DEF KeepInv, ExtractedIsKept
<1>p. ASSUME UNCHANGED <<place, content>> PROVE a \in owed' => (onDisk(Out(a))' => content'[a] \in {"bad", "whole"})
  BY <1>2, <1>o, <1>p DEF onDisk
<1>5. \A b \in owed \cap (walk.du \cup walk.ready) : outputKept(b)
  BY DEF KeepInv, ExtractedIsKept
<1>6. ASSUME UNCHANGED <<place, content>>, NEW fs, walk' = counts(a, fs), a \in owed => outputKept(a)
      PROVE  KeepInv'
  <2>1. /\ isWalk(walk') /\ walk'.stage = "extract" /\ walk'.todo = walk.todo \ {a} /\ walk'.du = walk.du
        /\ walk'.ready = walk.ready \cup {a} /\ walk'.unpackError = walk.unpackError
    BY <1>1, <1>6, Counted
  <2> QED BY <1>1, <1>2, <1>3, <1>4, <1>p, <1>6, <2>1, ArchiveStep
<1>7. CASE joinDisabled(a) /\ walk' = counts(a, {}) /\ UNCHANGED <<place, content>>
  BY <1>6, <1>7 DEF owed
<1>8. CASE place[Out(a)] = "dl" /\ walk' = counts(a, {Out(a)}) /\ UNCHANGED <<place, content>>
  <2>1. a \in owed => outputKept(a)
    <3>1. ASSUME a \in owed PROVE content[a] \in {"bad", "whole"}
      BY <1>3, <1>8, <3>1 DEF KeepInv, ExtractedIsKept, onDisk
    <3> QED BY <1>8, <3>1 DEF outputKept, onDisk
  <2> QED BY <1>6, <1>8, <2>1
<1>9. CASE walk' = extracts(a) /\ UNCHANGED <<place, content>>
  <2>1. /\ isWalk(walk') /\ walk'.stage = "extract" /\ walk'.todo = walk.todo \ {a} /\ walk'.du = walk.du
        /\ walk'.ready = walk.ready /\ walk'.unpackError = TRUE
    BY <1>1, <1>9, Failed
  <2> QED BY <1>1, <1>2, <1>3, <1>4, <1>p, <1>9, <2>1, ArchiveStep
<1>10. CASE /\ a \notin short /\ walk' = [walk EXCEPT !.stage = "write"]
            /\ \/ place' = moved({Out(a)}, "dl") /\ content' = [content EXCEPT ![a] = "part"]
               \/ a = "rar" /\ UNCHANGED <<place, content>>
  <2>1. goesWith(walk', "write", walk.todo, walk)
    BY <1>1, <1>10, StageSet
  <2>2. /\ isWalk(walk') /\ walk'.stage = "write" /\ walk'.todo = walk.todo /\ walk'.du = walk.du
        /\ walk'.ready = walk.ready /\ walk'.unpackError = walk.unpackError
    BY <2>1 DEF goesWith
  <2>3. writes(a)
    BY <1>1, <1>10, Writing
  <2>4. /\ place' = [f \in File |-> place'[f]] /\ content' = [b \in Arc |-> content'[b]]
    BY <2>3 DEF writes
  <2>5. a \notin walk.du \cup walk.ready
    BY <1>1 DEF KeepInv, TodoIsThere, turnOf
  <2>6. ASSUME NEW b \in owed, b # a
        PROVE  (volumesKept(b) => volumesKept(b)') /\ (outputKept(b) => outputKept(b)') /\ content'[b] # "part"
    BY <1>2, <1>3, <2>3, <2>6 DEF writes, volumesKept, outputKept, onDisk
  <2>7. volumesKept(a)'
    <3>1. volumesKept(a)
      BY <1>1, <1>10, TurnHasVolumes
    <3> QED BY <2>3, <3>1 DEF writes, volumesKept, onDisk
  <2>8. ExtractedIsKept'
    <3>1. \A b \in owed : onDisk(Out(b))' => content'[b] \in {"part", "bad", "whole"}
      <4>1. ASSUME NEW b \in owed, b # a, onDisk(Out(b))' PROVE content'[b] \in {"part", "bad", "whole"}
        BY <1>2, <1>o, <2>3, <4>1 DEF writes, onDisk
      <4>2. ASSUME a \in owed, onDisk(Out(a))' PROVE content'[a] \in {"part", "bad", "whole"}
        <5>1. content = [b \in Arc |-> content[b]]
          BY DEF KeepInv
        <5> QED BY <1>10, <1>o, <4>2, <5>1 DEF onDisk
      <4> QED BY <4>1, <4>2
    <3> QED BY <1>1, <1>2, <1>5, <2>2, <2>5, <2>6, <3>1 DEF ExtractedIsKept
  <2>9. PartIsWritten'
    <3>1. turnOf(a)'
      BY <1>1, <2>2 DEF turnOf
    <3> QED BY <1>2, <2>2, <2>6, <3>1 DEF PartIsWritten, in
  <2>10. TodoIsThere'
    <3>1. \A b \in walk.todo : place'[Vol(b)] = "dl" /\ b \notin walk.du \cup walk.ready
      BY <1>1, <2>3 DEF KeepInv, TodoIsThere, writes
    <3>2. \A b \in walk.todo : turnOf(b)' => b = a
      BY <1>1, <2>2 DEF turnOf, Arc
    <3> QED BY <1>1, <1>10, <2>2, <3>1, <3>2 DEF TodoIsThere, in
  <2>11. ParNeedsVolume'
    BY <1>2, <2>3 DEF KeepInv, ParNeedsVolume, writes
  <2>12. PayloadKept'
    BY <1>2, <2>6, <2>7 DEF KeepInv, PayloadKept
  <2>13. SeenIsUnpacked'
    <3>1. visible' = visible
      BY <1>1, <2>3 DEF visible, writes
    <3> QED BY <1>1, <1>2, <2>2, <3>1 DEF KeepInv, SeenIsUnpacked
  <2> QED BY <2>2, <2>4, <2>8, <2>9, <2>10, <2>11, <2>12, <2>13 DEF KeepInv
<1> QED BY <1>7, <1>8, <1>9, <1>10, Zenon DEF Extract

LEMMA ExtractedKeeps ==
  ASSUME KeepInv, NEW a \in Arc, Extracted(a)
  PROVE  KeepInv'
<1>1. /\ isWalk(walk) /\ UNCHANGED <<config, hidden, short>> /\ walk.stage = "write" /\ in("write") /\ turnOf(a)
  BY DEF KeepInv, Extracted, inputs, in
<1>2. volumesKept(a)
  BY <1>1, TurnHasVolumes
<1>3. content = [b \in Arc |-> content[b]] /\ place = [f \in File |-> place[f]] /\ Out(a) \in File
  BY Files DEF KeepInv
<1>4. ASSUME writes(a) PROVE volumesKept(a)'
  BY <1>2, <1>4 DEF writes, volumesKept, onDisk
<1>5. CASE extractWithDriver(a)
  <2>1. PICK c \in {"bad", "whole"} : content' = [content EXCEPT ![a] = c]
    BY <1>5 DEF extractWithDriver
  <2>2. place' = moved({Out(a)}, "dl") /\ cut' = cut /\ walk' = counts(a, {Out(a)})
    BY <1>5 DEF extractWithDriver
  <2>3. writes(a)
    BY <1>1, <2>1, <2>2, Writing
  <2>4. content'[a] \in {"bad", "whole"} /\ place'[Out(a)] = "dl"
    BY <1>3, <2>1, <2>2 DEF moved
  <2>5. outputKept(a)'
    BY <2>4 DEF outputKept, onDisk
  <2>6. /\ isWalk(walk') /\ walk'.stage = "extract" /\ walk'.todo = walk.todo \ {a} /\ walk'.du = walk.du
        /\ walk'.ready = walk.ready \cup {a} /\ walk'.unpackError = walk.unpackError
    BY <1>1, <2>2, Counted
  <2>7. content'[a] # "part"
    BY <2>4
  <2> QED BY <1>1, <1>4, <2>3, <2>4, <2>5, <2>6, <2>7, ArchiveStep
<1>6. CASE extractFails(a)
  <2>1. /\ isWalk(walk') /\ walk'.stage = "extract" /\ walk'.todo = walk.todo \ {a} /\ walk'.du = walk.du
        /\ walk'.ready = walk.ready /\ walk'.unpackError = TRUE
    BY <1>1, <1>6, Failed DEF extractFails
  <2>2. CASE place' = moved({Out(a)}, "none") /\ content' = [content EXCEPT ![a] = "none"] /\ cut' = cut
    <3>1. writes(a)
      BY <1>1, <2>2, Writing
    <3>2. content'[a] = "none" /\ place'[Out(a)] = "none"
      BY <1>3, <2>2 DEF moved
    <3>3. ~onDisk(Out(a))'
      BY <3>2 DEF onDisk
    <3> QED BY <1>1, <1>4, <2>1, <3>1, <3>2, <3>3, ArchiveStep
  <2>3. CASE cut' = cut \cup {a} /\ UNCHANGED <<place, content>>
    <3>1. writes(a)
      BY <1>1, <2>3, Writing
    <3>2. a \notin owed'
      BY <2>3 DEF owed
    <3> QED BY <1>1, <2>1, <3>1, <3>2, ArchiveStep
  <2>4. CASE content[a] # "part" /\ UNCHANGED <<place, content, cut>>
    <3>1. writes(a)
      BY <1>1, <2>4, Writing
    <3>2. a \in owed' => a \in owed
      BY <3>1 DEF writes
    <3>3. a \in owed' => (onDisk(Out(a))' => content'[a] \in {"bad", "whole"})
      BY <2>4, <3>2 DEF KeepInv, ExtractedIsKept, onDisk
    <3>4. content'[a] # "part"
      BY <2>4
    <3> QED BY <1>1, <1>4, <2>1, <3>1, <3>3, <3>4, ArchiveStep
  <2> QED BY <1>6, <2>2, <2>3, <2>4 DEF extractFails
<1> QED BY <1>5, <1>6 DEF Extracted

\* Of what unpacking saw and did not extract there is an error when the cleanup
\* begins.
LEMMA CleanupKeeps ==
  ASSUME KeepInv, CleanupArchives
  PROVE  KeepInv'
<1>1. /\ isWalk(walk) /\ UNCHANGED <<config, hidden, place, content, cut, short>> /\ walk.stage = "extract"
      /\ walk.todo = {} /\ walk.ready \subseteq Arc /\ ~in("write")
  BY DEF KeepInv, ExtractedIsKept, CleanupArchives, inputs, kept, in
<1>2. PICK t : t \subseteq walk.ready /\ walk' = [walk EXCEPT !.stage = "delete", !.todo = t]
  BY DEF CleanupArchives
<1>3. goesWith(walk', "delete", t, walk)
  BY <1>1, <1>2, TodoSet
<1>4. /\ isWalk(walk') /\ walk'.stage = "delete" /\ walk'.todo = t /\ walk'.du = walk.du
      /\ walk'.ready = walk.ready /\ walk'.parError = walk.parError /\ walk'.unpackError = walk.unpackError
  BY <1>3 DEF goesWith
<1>5. calm
  BY <1>1, Resting
<1>6. /\ owed' = owed /\ owed \subseteq Arc /\ content' = [a \in Arc |-> content'[a]]
      /\ \A a \in owed : outputKept(a) => outputKept(a)'
      /\ ExtractedIsKept' /\ ParNeedsVolume' /\ PayloadKept'
  BY <1>1, <1>2, <1>4, <1>5, CalmKeeps
<1>7. PartIsWritten'
  BY <1>1, <1>6, NoPart DEF PartIsWritten
<1>8. TodoIsThere'
  BY <1>2, <1>4 DEF TodoIsThere, in
<1>9. SeenIsUnpacked'
  <2>1. ASSUME NEW a \in owed, place[Par(a)] = "dl", ~walk.unpackError, a \notin hidden
        PROVE  outputKept(a)
    <3>1. place[Vol(a)] \in {"dl", "gone"}
      BY <2>1 DEF KeepInv, ParNeedsVolume
    <3>2. CASE place[Vol(a)] = "gone"
      BY <2>1, <3>2 DEF KeepInv, PayloadKept, volumesKept, onDisk
    <3>3. CASE place[Vol(a)] = "dl"
      <4>1. a \in visible
        BY <1>6, <2>1, <3>3 DEF visible
      <4>2. a \in walk.ready
        BY <1>1, <2>1, <4>1 DEF KeepInv, SeenIsUnpacked
      <4> QED BY <2>1, <4>2 DEF KeepInv, ExtractedIsKept
    <3> QED BY <3>1, <3>2, <3>3
  <2>2. \A a \in owed' : place'[Par(a)] = "dl" => walk'.unpackError \/ outputKept(a)' \/ a \in hidden'
    BY <1>1, <1>4, <1>6, <2>1
  <2> QED BY <1>4, <2>2 DEF SeenIsUnpacked
<1>10. place' = [f \in File |-> place'[f]]
  BY <1>5 DEF calm
<1> QED BY <1>4, <1>6, <1>7, <1>8, <1>9, <1>10 DEF KeepInv

\* The volumes go whose content is there.
LEMMA DeleteKeeps ==
  ASSUME KeepInv, NEW a \in Arc, DeleteVolumes(a)
  PROVE  KeepInv'
<1>1. /\ isWalk(walk) /\ UNCHANGED <<config, hidden, content, cut, short>> /\ walk.stage = "delete"
      /\ a \in walk.todo /\ walk.todo \subseteq walk.ready /\ walk.ready \subseteq Arc /\ walk.du \subseteq Arc
      /\ ~in("write") /\ walk' = [walk EXCEPT !.todo = walk.todo \ {a}]
  BY DEF KeepInv, ExtractedIsKept, TodoIsThere, DeleteVolumes, inputs, kept, in
<1>2. goesWith(walk', "delete", walk.todo \ {a}, walk)
  <2>1. PICK t : t = walk.todo \ {a}
    OBVIOUS
  <2>2. walk' = settled(walk, t)
    BY <1>1, <2>1 DEF settled
  <2>3. goesWith(walk', walk.stage, t, walk)
    BY <1>1, <2>2, SettledSet
  <2> QED BY <1>1, <2>1, <2>3
<1>3. /\ isWalk(walk') /\ walk'.stage = "delete" /\ walk'.todo = walk.todo \ {a} /\ walk'.du = walk.du
      /\ walk'.ready = walk.ready /\ walk'.parError = walk.parError /\ walk'.unpackError = walk.unpackError
  BY <1>2 DEF goesWith
<1>4. /\ place' = [f \in File |-> place'[f]]
      /\ \A f \in File : place'[f] = IF f \in here({Vol(a)}) THEN "gone" ELSE place[f]
  BY Moving DEF DeleteVolumes
<1>5. /\ \A b \in Arc : place'[Par(b)] = place[Par(b)] /\ place'[Out(b)] = place[Out(b)]
      /\ \A b \in Arc \ {a} : place'[Vol(b)] = place[Vol(b)]
      /\ place'[Vol(a)] = place[Vol(a)] \/ place'[Vol(a)] = "gone"
  BY <1>4, Files DEF here
<1>6. owed' = owed /\ owed \subseteq Arc
  BY <1>1 DEF owed, joinDisabled
<1>7. \A b \in owed : (outputKept(b) => outputKept(b)') /\ (b # a /\ volumesKept(b) => volumesKept(b)')
  BY <1>1, <1>5, <1>6 DEF outputKept, volumesKept, onDisk
<1>8. \A b \in owed \cap (walk.du \cup walk.ready) : outputKept(b)
  BY DEF KeepInv, ExtractedIsKept
<1>9. ExtractedIsKept'
  <2>1. \A b \in owed : onDisk(Out(b))' => content'[b] \in {"part", "bad", "whole"}
    BY <1>1, <1>5, <1>6 DEF KeepInv, ExtractedIsKept, onDisk
  <2> QED BY <1>1, <1>3, <1>6, <1>7, <1>8, <2>1 DEF ExtractedIsKept
<1>10. PartIsWritten'
  BY <1>1, <1>6, NoPart DEF PartIsWritten
<1>11. TodoIsThere'
  BY <1>1, <1>3 DEF TodoIsThere, in
<1>12. ParNeedsVolume'
  BY <1>5, <1>6 DEF KeepInv, ParNeedsVolume
<1>13. PayloadKept'
  <2>1. a \in owed => outputKept(a)
    BY <1>1, <1>8
  <2>2. \A b \in owed : volumesKept(b) \/ outputKept(b)
    BY DEF KeepInv, PayloadKept
  <2> QED BY <1>6, <1>7, <2>1, <2>2 DEF PayloadKept
<1>14. SeenIsUnpacked'
  BY <1>1, <1>3, <1>5, <1>6, <1>7 DEF KeepInv, SeenIsUnpacked
<1>15. content' = [b \in Arc |-> content'[b]]
  BY <1>1 DEF KeepInv
<1> QED BY <1>3, <1>4, <1>9, <1>10, <1>11, <1>12, <1>13, <1>14, <1>15 DEF KeepInv

LEMMA UnpackedKeeps ==
  ASSUME KeepInv, Unpacked
  PROVE  KeepInv'
<1>1. /\ isWalk(walk) /\ UNCHANGED <<config, hidden, place, content, cut, short>> /\ walk.stage = "delete"
      /\ walk.todo \subseteq Arc /\ ~in("write") /\ walk' = [walk EXCEPT !.stage = "sample_cleanup"]
  BY Afters DEF KeepInv, ExtractedIsKept, Unpacked, inputs, kept, in
<1>2. goesWith(walk', "sample_cleanup", walk.todo, walk)
  BY <1>1, StageSet
<1>3. /\ isWalk(walk') /\ walk'.stage = "sample_cleanup" /\ walk'.todo = walk.todo /\ walk'.du = walk.du
      /\ walk'.ready = walk.ready /\ walk'.parError = walk.parError /\ walk'.unpackError = walk.unpackError
  BY <1>2 DEF goesWith
<1>4. calm
  BY <1>1, Resting
<1>5. /\ owed' = owed /\ owed \subseteq Arc /\ content' = [a \in Arc |-> content'[a]]
      /\ \A a \in owed : outputKept(a) => outputKept(a)'
      /\ ExtractedIsKept' /\ ParNeedsVolume' /\ PayloadKept'
  BY <1>1, <1>3, <1>4, CalmKeeps
<1>6. PartIsWritten'
  BY <1>1, <1>5, NoPart DEF PartIsWritten
<1>7. TodoIsThere' 
  BY <1>3 DEF TodoIsThere, in
<1>8. SeenIsUnpacked'
  BY <1>1, <1>3, <1>5 DEF KeepInv, SeenIsUnpacked
<1>9. place' = [f \in File |-> place'[f]]
  BY <1>4 DEF calm
<1> QED BY <1>3, <1>5, <1>6, <1>7, <1>8, <1>9 DEF KeepInv

\* The walk starts over: half a file is held against its archive or removed, and
\* volumes are missing only of what was extracted.
LEMMA InterruptedKeeps ==
  ASSUME KeepInv, Interrupted
  PROVE  KeepInv'
<1>1. /\ isWalk(walk') /\ walk'.stage = "queued" /\ walk'.du = {} /\ walk'.ready = {} /\ walk'.todo = {}
  BY DEF Interrupted, Fresh, isWalk
<1>2. config' = config /\ hidden' = hidden
  BY DEF Interrupted, inputs
<1>3. walk.todo \subseteq Arc /\ walk.ready \subseteq Arc
  BY DEF KeepInv, ExtractedIsKept
<1>4. TodoIsThere' /\ SeenIsUnpacked'
  BY <1>1 DEF TodoIsThere, SeenIsUnpacked, in
<1>5. CASE cut' = cut \cup {a \in Arc : content[a] = "part"} /\ UNCHANGED <<place, content>>
  <2>1. /\ owed' \subseteq owed /\ owed \subseteq Arc /\ \A a \in owed' : content'[a] # "part"
    BY <1>2, <1>5 DEF owed, joinDisabled
  <2>2. \A a \in owed' : (outputKept(a) => outputKept(a)') /\ (volumesKept(a) /\ a \notin short' => volumesKept(a)')
    BY <1>5, <2>1 DEF outputKept, volumesKept, onDisk
  <2>3. ExtractedIsKept'
    BY <1>1, <1>5, <2>1 DEF KeepInv, ExtractedIsKept, onDisk
  <2>4. PartIsWritten'
    BY <2>1 DEF PartIsWritten
  <2>5. ParNeedsVolume'
    BY <1>5, <2>1 DEF KeepInv, ParNeedsVolume
  <2>6. PayloadKept'
    <3>1. ASSUME NEW a \in owed', ~volumesKept(a)' PROVE outputKept(a)
      <4>1. volumesKept(a) \/ outputKept(a)
        BY <2>1, <3>1 DEF KeepInv, PayloadKept
      <4>2. CASE volumesKept(a)
        <5>1. a \in short' /\ a \notin short
          BY <2>2, <3>1, <4>2 DEF volumesKept
        <5>2. in("delete") /\ a \in walk.todo
          BY <5>1 DEF Interrupted
        <5>3. a \in walk.ready
          BY <5>2 DEF KeepInv, TodoIsThere
        <5> QED BY <2>1, <5>3, <3>1 DEF KeepInv, ExtractedIsKept
      <4> QED BY <4>1, <4>2
    <3> QED BY <2>2, <3>1 DEF PayloadKept
  <2>7. place' = [f \in File |-> place'[f]] /\ content' = [a \in Arc |-> content'[a]]
    BY <1>5 DEF KeepInv
  <2> QED BY <1>1, <1>4, <2>3, <2>4, <2>5, <2>6, <2>7 DEF KeepInv
<1>6. CASE /\ in("write") /\ turnOf("split")
           /\ place' = moved({Out("split")}, "none") /\ content' = [content EXCEPT !["split"] = "none"]
           /\ cut' = cut
  <2>1. short' = short /\ "split" \in Arc /\ walk.stage = "write"
    BY <1>6 DEF Interrupted, in, Arc
  <2>2. writes("split")
    BY <1>2, <1>6, <2>1, Writing
  <2>3. owed' = owed /\ owed \subseteq Arc
    BY <1>2, <1>6 DEF owed, joinDisabled
  <2>4. content = [b \in Arc |-> content[b]] /\ Out("split") \in File
    BY <2>1, Files DEF KeepInv
  <2>5. content'["split"] = "none" /\ ~onDisk(Out("split"))'
    BY <1>6, <2>1, <2>4 DEF moved, onDisk
  <2>6. ASSUME NEW b \in owed
        PROVE  /\ volumesKept(b) => volumesKept(b)'
               /\ b # "split" /\ outputKept(b) => outputKept(b)'
               /\ content'[b] # "part" /\ (onDisk(Out(b))' => content'[b] \in {"part", "bad", "whole"})
    <3>1. CASE b = "split"
      BY <2>1, <2>2, <2>5, <3>1 DEF writes, volumesKept, onDisk
    <3>2. CASE b # "split"
      <4>1. content[b] # "part"
        BY <1>6, <2>3, <3>2 DEF KeepInv, PartIsWritten, turnOf, Arc
      <4>2. place'[Out(b)] = place[Out(b)] /\ content'[b] = content[b] /\ place'[Vol(b)] = place[Vol(b)]
        BY <2>2, <2>3, <3>2 DEF writes
      <4> QED BY <2>1, <4>1, <4>2 DEF volumesKept, outputKept, onDisk, KeepInv, ExtractedIsKept
    <3> QED BY <3>1, <3>2
  <2>7. volumesKept("split")
    BY <1>6, <2>1, TurnHasVolumes
  <2>8. ExtractedIsKept'
    BY <1>1, <2>3, <2>6 DEF ExtractedIsKept
  <2>9. PartIsWritten'
    BY <2>3, <2>6 DEF PartIsWritten
  <2>10. ParNeedsVolume'
    BY <2>2, <2>3 DEF KeepInv, ParNeedsVolume, writes
  <2>11. PayloadKept'
    <3>1. \A b \in owed : volumesKept(b) \/ outputKept(b)
      BY DEF KeepInv, PayloadKept
    <3> QED BY <2>3, <2>6, <2>7, <3>1 DEF PayloadKept
  <2>12. place' = [f \in File |-> place'[f]] /\ content' = [a \in Arc |-> content'[a]]
    BY <2>2 DEF writes
  <2> QED BY <1>1, <1>4, <2>8, <2>9, <2>10, <2>11, <2>12 DEF KeepInv
<1> QED BY <1>5, <1>6 DEF Interrupted

LEMMA OtherKeeps ==
  ASSUME KeepInv, SampleCleanup \/ FileJob \/ AlienArrives \/ UNCHANGED stageVars
  PROVE  KeepInv'
<1>0. /\ isWalk(walk) /\ config' = config /\ hidden' = hidden /\ content' = content /\ cut' = cut
      /\ short' = short
  BY DEF KeepInv, SampleCleanup, FileJob, AlienArrives, stageVars, inputs, kept
<1>1. CASE SampleCleanup
  <2>1. walk.stage = "sample_cleanup" /\ walk' = [walk EXCEPT !.stage = "par2_cleanup"]
    BY <1>1, Afters DEF SampleCleanup, Entering, in, leaves
  <2>2. goesWith(walk', "par2_cleanup", walk.todo, walk)
    BY <1>0, <2>1, StageSet
  <2>3. \/ place' = place
        \/ mine(junk) \subseteq config.junk \cup {Sample, Alien} /\ place' = moved(mine(junk), "gone")
    BY <1>1 DEF SampleCleanup, mine, junk, here
  <2>4. calm /\ \A a \in owed : place'[Vol(a)] = place[Vol(a)] /\ place'[Par(a)] = place[Par(a)]
                                /\ place'[Out(a)] = place[Out(a)]
    BY <1>0, <2>3, SparesArchives, Resting
  <2>5. isWalk(walk')
    BY <2>2 DEF goesWith
  <2> QED BY <1>0, <2>1, <2>2, <2>4, <2>5, SeenStays
<1>2. CASE AlienArrives
  <2>1. walk' = walk /\ place' = moved({Alien}, "dl")
    BY <1>2 DEF AlienArrives
  <2>2. calm /\ \A a \in owed : place'[Vol(a)] = place[Vol(a)] /\ place'[Par(a)] = place[Par(a)]
                                /\ place'[Out(a)] = place[Out(a)]
    BY <1>0, <2>1, SparesArchives
  <2>3. \A a \in Arc : place'[Vol(a)] = place[Vol(a)]
    BY <2>1, Files DEF moved
  <2> QED BY <1>0, <2>1, <2>2, <2>3, SeenStays
<1>3. CASE FileJob \/ UNCHANGED stageVars
  <2>1. walk' = walk /\ place' = place
    BY <1>3 DEF FileJob, stageVars
  <2> QED BY <1>0, <2>1, Resting, SeenStays
<1> QED BY <1>1, <1>2, <1>3

LEMMA KeepStep == KeepInv /\ [StagesNext]_stageVars => KeepInv'
<1> SUFFICES ASSUME KeepInv, [StagesNext]_stageVars PROVE KeepInv'
  OBVIOUS
<1>1. ASSUME NEW a \in Arc, RepairSet(a) PROVE KeepInv'
  BY <1>1, RepairSetKeeps
<1>2. ASSUME NEW a \in Arc, Extract(a) \/ Extracted(a) PROVE KeepInv'
  BY <1>2, ExtractKeeps, ExtractedKeeps
<1>3. ASSUME NEW a \in Arc, DeleteVolumes(a) PROVE KeepInv'
  BY <1>3, DeleteKeeps
<1> QED BY <1>1, <1>2, <1>3, PlainStages, SkipKeeps, UnpackKeeps, CleanupKeeps, UnpackedKeeps, InterruptedKeeps,
           OtherKeeps DEF StagesNext

\* Whatever tool fails, wherever the process dies and however often the stages
\* start over, the content of each archive stays on disk, as volumes or
\* extracted to the end, for any processing level and any number of upsets;
\* excepted are the archives of which a cut-off extraction has left half a file,
\* the joins that are disabled and the names the user wants deleted.
THEOREM PayloadIsKept == StagesSpec => []PayloadKept
<1>1. KeepInv => PayloadKept
  BY DEF KeepInv
<1> QED BY <1>1, KeepStart, KeepStep, PTL DEF StagesSpec

\* No step brings a par2 set back.
LEMMA SetsShrink == [StagesNext]_stageVars => sets' \subseteq sets
<1> SUFFICES ASSUME [StagesNext]_stageVars, NEW a \in Arc, place'[Par(a)] = "dl" PROVE place[Par(a)] = "dl"
  BY DEF sets
<1>0. Par(a) \in File /\ Par(a) # Alien /\ \A b \in Arc : Par(a) # Out(b) /\ Par(a) # Vol(b)
  BY Files
<1>1. CASE place' = place
  BY <1>1
<1>2. ASSUME NEW fs, NEW where, place' = moved(fs, where), where # "dl" \/ Par(a) \notin fs PROVE place[Par(a)] = "dl"
  BY <1>0, <1>2 DEF moved
<1>3. CASE SampleCleanup \/ ExtensionCleanup \/ Par2Cleanup
  BY <1>1, <1>2, <1>3 DEF SampleCleanup, ExtensionCleanup, Par2Cleanup
<1>4. CASE Finalize
  <2>1. dest # "dl"
    BY DEF dest
  <2> QED BY <1>1, <1>2, <1>4, <2>1 DEF Finalize, handleFailure, moveToDest, moveFails
<1>5. CASE StripPrefix
  BY <1>0, <1>1, <1>5 DEF StripPrefix
<1>6. CASE AlienArrives
  BY <1>0, <1>2, <1>6 DEF AlienArrives
<1>7. ASSUME NEW b \in Arc, Extract(b) \/ Extracted(b) \/ DeleteVolumes(b) \/ RepairSet(b) PROVE place[Par(a)] = "dl"
  <2>1. \/ place' = place
        \/ \E where : place' = moved({Out(b)}, where)
        \/ place' = moved(here({Vol(b)}), "gone")
    BY <1>7 DEF Extract, Extracted, extractWithDriver, extractFails, DeleteVolumes, RepairSet
  <2>2. Par(a) \notin {Out(b)}
    BY <1>0
  <2> QED BY <1>1, <1>2, <2>1, <2>2
<1>8. CASE Interrupted
  BY <1>1, <1>2, <1>8 DEF Interrupted
<1>9. CASE \/ Begin \/ Skip \/ QuickCheck \/ Repair \/ Repaired \/ RarVolumeRecovery \/ Unpack \/ Cleanup
           \/ CleanupArchives \/ Unpacked \/ Script \/ FileJob \/ UNCHANGED stageVars
  BY <1>1, <1>9 DEF Begin, Skip, QuickCheck, Repair, Repaired, RarVolumeRecovery, Unpack, Cleanup, Script,
                    CleanupArchives, Unpacked, FileJob, stageVars
<1> QED BY <1>3, <1>4, <1>5, <1>6, <1>7, <1>8, <1>9 DEF StagesNext

Watched == {"queued", "quickcheck", "repair", "sets", "rar_volume_recovery", "unpack", "extract", "write"}

\* What most steps leave of the damage and of what is known about it.
steady ==
  /\ config' = config /\ damaged' = damaged /\ unseen' = unseen /\ sets' \subseteq sets
  /\ verdicts' = [a \in Arc |-> verdicts'[a]] /\ content' = [a \in Arc |-> content'[a]]
  /\ \A a \in Arc : (verdicts'[a] = "ok" => verdicts[a] = "ok") /\ (content'[a] = "bad" => content[a] = "bad")

\* The parts of DamageIsSeen that do not depend on the stage.
LEMMA SteadyKeeps ==
  ASSUME SightInv, steady
  PROVE  /\ \A a \in Arc : verdicts'[a] = "ok" => a \notin damaged'
         /\ \A a \in sets' : content'[a] = "bad" => a \in unseen' \/ asIs(config')
         /\ verdicts' = [a \in Arc |-> verdicts'[a]] /\ content' = [a \in Arc |-> content'[a]]
<1>1. \A a \in Arc : verdicts[a] = "ok" => a \notin damaged
  BY DEF SightInv, DamageIsSeen
<1>2. \A a \in sets : content[a] = "bad" => a \in unseen \/ asIs(config)
  BY DEF SightInv, DamageIsSeen
<1>3. sets \subseteq Arc
  BY DEF sets
<1> QED BY <1>1, <1>2, <1>3 DEF steady

\* A step to a stage that does not look for damage.
LEMMA BlindStep ==
  ASSUME SightInv, steady, isWalk(walk'), walk'.stage \notin Watched
  PROVE  SightInv'
<1>1. DamageIsSeen'
  BY SteadyKeeps DEF DamageIsSeen, in, Watched
<1> QED BY <1>1, SteadyKeeps DEF SightInv

\* A step between two stages that come after the repair.
LEMMA SoberStep ==
  ASSUME SightInv, steady, isWalk(walk'),
         walk.stage \in {"rar_volume_recovery", "unpack", "extract", "write"},
         walk'.stage \in {"rar_volume_recovery", "unpack", "extract", "write"},
         walk'.parError = walk.parError,
         walk'.stage \in {"extract", "write"} => ~walk.parError
  PROVE  SightInv'
<1>1. \A a \in sets \cap damaged : a \in unseen \/ walk.parError \/ asIs(config)
  BY DEF SightInv, DamageIsSeen
<1>2. \A a \in sets' \cap damaged' : a \in unseen' \/ walk'.parError \/ asIs(config')
  BY <1>1 DEF steady
<1>3. DamageIsSeen'
  BY <1>2, SteadyKeeps DEF DamageIsSeen, in
<1> QED BY <1>3, SteadyKeeps DEF SightInv

LEMMA SightStart == StagesInit => SightInv
<1> SUFFICES ASSUME StagesInit PROVE SightInv
  OBVIOUS
<1>1. PICK du \in SUBSET ({"rar"} \ (damaged \cup hidden)) :
        walk = Fresh(du) /\ content = [a \in Arc |-> IF a \in du THEN "whole" ELSE "none"]
  BY DEF StagesInit
<1>2. isWalk(walk) /\ walk.stage = "queued" /\ walk.quick = "NotRun"
  BY <1>1 DEF Fresh, isWalk
<1>3. content = [a \in Arc |-> content[a]] /\ \A a \in Arc : content[a] # "bad"
  BY <1>1
<1>4. verdicts = [a \in Arc |-> "none"]
  BY DEF StagesInit
<1>5. verdicts = [a \in Arc |-> verdicts[a]] /\ \A a \in Arc : verdicts[a] # "ok"
  BY <1>4
<1>6. sets \subseteq Arc
  BY DEF sets
<1>7. DamageIsSeen
  BY <1>2, <1>3, <1>5, <1>6 DEF DamageIsSeen, in
<1> QED BY <1>2, <1>3, <1>5, <1>7 DEF SightInv

\* The quick check, and what the repair makes of it.
LEMMA LookSteps ==
  ASSUME SightInv, sets' \subseteq sets, Begin \/ QuickCheck \/ Repair \/ Repaired
  PROVE  SightInv'
<1>0. /\ isWalk(walk) /\ UNCHANGED <<config, damaged, verdicts, content, place>> /\ sets' = sets /\ sets \subseteq Arc
      /\ unseen \subseteq unseen'
      /\ verdicts' = [a \in Arc |-> verdicts'[a]] /\ content' = [a \in Arc |-> content'[a]]
  BY DEF SightInv, Begin, QuickCheck, Repair, Repaired, inputs, kept, sets
<1>1. /\ \A a \in Arc : verdicts'[a] = "ok" => a \notin damaged'
      /\ \A a \in sets' : content'[a] = "bad" => a \in unseen' \/ asIs(config')
  BY <1>0 DEF SightInv, DamageIsSeen
<1>2. CASE Begin
  <2>1. PICK s \in {"done", "quickcheck"} : \E m, o :
          \/ walk' = [walk EXCEPT !.failMsg = m, !.stage = s]
          \/ walk' = [walk EXCEPT !.owned = o, !.met = m, !.stage = s]
    <3>1. CASE inDir = {}
      BY <1>2, <3>1 DEF Begin
    <3>2. CASE inDir # {}
      <4>1. walk' = [walk EXCEPT !.owned = inDir, !.met = Alien \in inDir, !.stage = "quickcheck"]
        BY <1>2, <3>2 DEF Begin, Stages
      <4>2. PICK m : m = (Alien \in inDir)
        OBVIOUS
      <4> QED BY <4>1, <4>2, Zenon
    <3> QED BY <3>1, <3>2
  <2>2. walk'.quick = walk.quick
    BY <1>0, <2>1 DEF isWalk
  <2>3. isWalk(walk') /\ walk'.stage = s
    <3>1. goesWith(walk', s, walk.todo, walk)
      BY <1>0, <2>1, StartSet
    <3> QED BY <3>1 DEF goesWith
  <2>4. walk.quick = "NotRun"
    BY <1>2 DEF SightInv, DamageIsSeen, Begin, in
  <2>5. DamageIsSeen'
    BY <1>1, <2>1, <2>2, <2>3, <2>4 DEF DamageIsSeen, in
  <2> QED BY <1>0, <2>3, <2>5 DEF SightInv
<1>3. CASE QuickCheck
  <2>1. PICK q \in {recordVerdict, "Inconclusive"} :
          walk' = [[walk EXCEPT !.quick = q] EXCEPT !.stage = after(walk.stage)]
    <3>1. \A q : [[walk EXCEPT !.quick = q] EXCEPT !.stage = after(walk.stage)] = leaves([walk EXCEPT !.quick = q])
      BY DEF leaves
    <3> QED BY <1>3, <3>1 DEF QuickCheck
  <2>2. walk' = [[walk EXCEPT !.quick = q] EXCEPT !.stage = "repair"]
    BY <1>3, <2>1, Afters DEF QuickCheck, Entering, in
  <2>3. walk'.quick = q
    BY <1>0, <2>2 DEF isWalk
  <2>4. isWalk(walk') /\ walk'.stage = "repair"
    <3>1. goesWith(walk', "repair", walk.todo, walk)
      BY <1>0, <2>2, QuickSet
    <3> QED BY <3>1 DEF goesWith
  <2>5. q = "Clean" => \A a \in sets : a \notin damaged
    BY <2>1 DEF recordVerdict, intact
  <2>6. DamageIsSeen'
    BY <1>0, <1>1, <2>3, <2>4, <2>5 DEF DamageIsSeen, in
  <2> QED BY <1>0, <2>4, <2>6 DEF SightInv
<1>4. CASE Repair
  <2>0. walk.stage = "repair" /\ after(walk.stage) = "rar_volume_recovery"
    BY <1>4, Afters DEF Repair, Entering, in
  <2>1. CASE walk' = leaves(walk) /\ unseen' = unseen \cup {a \in sets : verdicts[a] # "ok"}
    <3>1. goesWith(walk', "rar_volume_recovery", walk.todo, walk)
      BY <1>0, <2>0, <2>1, StageSet DEF leaves
    <3>2. isWalk(walk') /\ walk'.stage = "rar_volume_recovery"
      BY <3>1 DEF goesWith
    <3>3. \A a \in sets' \cap damaged' : a \in unseen'
      BY <1>0, <1>1, <2>1
    <3>4. DamageIsSeen'
      BY <1>1, <3>2, <3>3 DEF DamageIsSeen, in
    <3> QED BY <1>0, <3>2, <3>4 DEF SightInv
  <2>2. CASE walk.quick = "Clean" /\ walk' = leaves(walk)
    <3>1. goesWith(walk', "rar_volume_recovery", walk.todo, walk)
      BY <1>0, <2>0, <2>2, StageSet DEF leaves
    <3>2. isWalk(walk') /\ walk'.stage = "rar_volume_recovery"
      BY <3>1 DEF goesWith
    <3>3. \A a \in sets : a \notin damaged
      BY <2>0, <2>2 DEF SightInv, DamageIsSeen, in
    <3>4. DamageIsSeen'
      BY <1>0, <1>1, <3>2, <3>3 DEF DamageIsSeen, in
    <3> QED BY <1>0, <3>2, <3>4 DEF SightInv
  <2>3. CASE walk' = [walk EXCEPT !.stage = "sets", !.todo = sets]
    <3>1. goesWith(walk', "sets", sets, walk)
      BY <1>0, <2>3, TodoSet
    <3>2. isWalk(walk') /\ walk'.stage = "sets" /\ walk'.todo = sets
      BY <3>1 DEF goesWith
    <3>3. DamageIsSeen'
      BY <1>0, <1>1, <3>2 DEF DamageIsSeen, in
    <3> QED BY <1>0, <3>2, <3>3 DEF SightInv
  <2>4. CASE walk' = leaves([walk EXCEPT !.parError = TRUE])
    <3>1. PICK e : e = TRUE
      OBVIOUS
    <3>2. walk' = notRead(walk, e, "rar_volume_recovery")
      BY <2>0, <2>4, <3>1 DEF leaves, notRead
    <3>3. isWalk(walk') /\ walk'.stage = "rar_volume_recovery" /\ walk'.parError = e
      BY <1>0, <3>2, ParErrorSet
    <3>4. walk'.parError
      BY <3>1, <3>3
    <3>5. DamageIsSeen'
      BY <1>1, <3>3, <3>4 DEF DamageIsSeen, in
    <3> QED BY <1>0, <3>3, <3>5 DEF SightInv
  <2>5. \/ walk' = leaves(walk) /\ unseen' = unseen \cup {a \in sets : verdicts[a] # "ok"}
        \/ walk.quick = "Clean" /\ walk' = leaves(walk)
        \/ walk' = [walk EXCEPT !.stage = "sets", !.todo = sets]
        \/ walk' = leaves([walk EXCEPT !.parError = TRUE])
    BY <1>4, Zenon DEF Repair
  <2> QED BY <2>1, <2>2, <2>3, <2>4, <2>5
<1>5. CASE Repaired
  <2>1. walk' = [walk EXCEPT !.stage = "rar_volume_recovery"] /\ walk.stage = "sets" /\ walk.todo = {}
    BY <1>5, Afters DEF Repaired, in
  <2>2. goesWith(walk', "rar_volume_recovery", walk.todo, walk)
    BY <1>0, <2>1, StageSet
  <2>3. isWalk(walk') /\ walk'.stage = "rar_volume_recovery" /\ walk'.parError = walk.parError
    BY <2>2 DEF goesWith
  <2>4. \A a \in sets \cap damaged : walk.parError
    BY <2>1 DEF SightInv, DamageIsSeen, in
  <2>5. DamageIsSeen'
    BY <1>0, <1>1, <2>3, <2>4 DEF DamageIsSeen, in
  <2> QED BY <1>0, <2>3, <2>5 DEF SightInv
<1> QED BY <1>2, <1>3, <1>4, <1>5

\* A set that is repaired loses its damage, and one that is not is an error.
LEMMA RepairSetSees ==
  ASSUME SightInv, NEW a \in Arc, RepairSet(a)
  PROVE  SightInv'
<1>1. /\ isWalk(walk) /\ UNCHANGED <<config, unseen, content, place>> /\ sets' = sets /\ sets \subseteq Arc
      /\ walk.stage = "sets" /\ content' = [b \in Arc |-> content'[b]]
      /\ \A b \in sets : content[b] = "bad" => b \in unseen \/ asIs(config)
      /\ \A b \in Arc : verdicts[b] = "ok" => b \notin damaged
      /\ \A b \in sets \cap damaged : b \in walk.todo \/ walk.parError
      /\ verdicts = [b \in Arc |-> verdicts[b]]
  BY DEF SightInv, DamageIsSeen, RepairSet, inputs, in, sets
<1>2. ASSUME NEW e, NEW t, t = walk.todo \ {a}, walk' = repaired(walk, t, e), walk.parError => e,
             damaged' \subseteq damaged, a \in damaged' => e, verdicts' = [b \in Arc |-> verdicts'[b]],
             \A b \in Arc : verdicts'[b] = "ok" => b \notin damaged'
      PROVE  SightInv'
  <2>1. isWalk(walk') /\ walk'.stage = "sets" /\ walk'.todo = t /\ walk'.parError = e
    BY <1>1, <1>2, RepairedSet
  <2>2. \A b \in sets \cap damaged' : b \in t \/ e
    BY <1>1, <1>2
  <2>3. DamageIsSeen'
    BY <1>1, <1>2, <2>1, <2>2 DEF DamageIsSeen, in
  <2> QED BY <1>1, <1>2, <2>1, <2>3 DEF SightInv
<1>3. CASE verdicts[a] = "ok" /\ walk' = [walk EXCEPT !.todo = @ \ {a}] /\ UNCHANGED <<damaged, short, verdicts>>
  <2>1. PICK t : t = walk.todo \ {a}
    OBVIOUS
  <2>2. walk' = settled(walk, t)
    BY <1>3, <2>1 DEF settled
  <2>3. goesWith(walk', walk.stage, t, walk)
    BY <1>1, <2>2, SettledSet
  <2>4. isWalk(walk') /\ walk'.stage = "sets" /\ walk'.todo = t /\ walk'.parError = walk.parError
    BY <1>1, <2>3 DEF goesWith
  <2>5. \A b \in sets \cap damaged : b \in t \/ walk.parError
    BY <1>1, <1>3, <2>1
  <2>6. DamageIsSeen'
    BY <1>1, <1>3, <2>4, <2>5 DEF DamageIsSeen, in
  <2> QED BY <1>1, <1>3, <2>4, <2>6 DEF SightInv
<1>4. ASSUME handleRepairResult(a, TRUE) PROVE SightInv'
  <2>1. PICK e, t : e = walk.parError /\ t = walk.todo \ {a}
    OBVIOUS
  <2>2. walk' = [walk EXCEPT !.todo = walk.todo \ {a}, !.parError = walk.parError \/ ~TRUE]
    BY <1>4 DEF handleRepairResult
  <2>3. PICK d : d = (walk.parError \/ ~TRUE)
    OBVIOUS
  <2>4. walk' = repaired(walk, t, d)
    BY <2>1, <2>2, <2>3, Zenon DEF repaired
  <2>5. walk.parError => d
    BY <2>3
  <2>6. damaged' = damaged \ {a} /\ verdicts' = [verdicts EXCEPT ![a] = "ok"]
    BY <1>4 DEF handleRepairResult
  <2>7. verdicts' = [b \in Arc |-> verdicts'[b]] /\ \A b \in Arc : verdicts'[b] = "ok" => b \notin damaged'
    BY <1>1, <2>6
  <2>8. damaged' \subseteq damaged /\ a \notin damaged'
    BY <2>6
  <2> HIDE <2>3
  <2> QED BY <1>2, <2>1, <2>4, <2>5, <2>7, <2>8
<1>5. ASSUME handleRepairResult(a, FALSE) PROVE SightInv'
  <2>1. PICK t : t = walk.todo \ {a}
    OBVIOUS
  <2>2. walk' = [walk EXCEPT !.todo = walk.todo \ {a}, !.parError = walk.parError \/ ~FALSE]
    BY <1>5 DEF handleRepairResult
  <2>3. PICK d : d = (walk.parError \/ ~FALSE)
    OBVIOUS
  <2>4. walk' = repaired(walk, t, d)
    BY <2>1, <2>2, <2>3, Zenon DEF repaired
  <2>5. d
    BY <2>3
  <2>6. damaged' = damaged /\ verdicts' = [verdicts EXCEPT ![a] = "bad"]
    BY <1>5 DEF handleRepairResult
  <2>7. verdicts' = [b \in Arc |-> verdicts'[b]] /\ \A b \in Arc : verdicts'[b] = "ok" => b \notin damaged'
    BY <1>1, <2>6
  <2>8. damaged' \subseteq damaged
    BY <2>6
  <2> HIDE <2>3
  <2> QED BY <1>2, <2>1, <2>4, <2>5, <2>7, <2>8
<1> QED BY <1>3, <1>4, <1>5, Zenon DEF RepairSet

LEMMA SkipSees ==
  ASSUME SightInv, Skip
  PROVE  SightInv'
<1>1. /\ isWalk(walk) /\ UNCHANGED <<config, place, damaged, unseen, verdicts, content>> /\ sets' = sets
      /\ walk' = [walk EXCEPT !.stage = after(walk.stage)]
  BY DEF SightInv, Skip, leaves, inputs, kept, sets
<1>2. steady
  BY <1>1 DEF steady, SightInv
<1>3. goesWith(walk', after(walk.stage), walk.todo, walk)
  BY <1>1, StageSet
<1>4. isWalk(walk') /\ walk'.stage = after(walk.stage) /\ walk'.quick = walk.quick
  BY <1>1, <1>3 DEF goesWith, isWalk
<1>5. CASE walk.stage \in {"unpack", "sample_cleanup", "par2_cleanup", "extension_cleanup"}
  <2>1. walk'.stage \notin Watched
    BY <1>4, <1>5, Afters DEF Watched
  <2> QED BY <1>2, <1>4, <2>1, BlindStep
<1>6. CASE walk.stage = "quickcheck"
  <2>1. walk'.stage = "repair" /\ walk'.quick = "NotRun"
    BY <1>4, <1>6, Afters DEF SightInv, DamageIsSeen
  <2>2. DamageIsSeen'
    BY <1>2, <2>1, SteadyKeeps DEF DamageIsSeen, in
  <2> QED BY <1>2, <1>4, <2>2, SteadyKeeps DEF SightInv
<1>7. CASE walk.stage = "repair" /\ config.pp < 1
  <2>1. walk'.stage = "rar_volume_recovery"
    BY <1>4, <1>7, Afters
  <2>2. asIs(config')
    BY <1>1, <1>7 DEF asIs
  <2>3. DamageIsSeen'
    BY <1>2, <2>1, <2>2, SteadyKeeps DEF DamageIsSeen, in
  <2> QED BY <1>2, <1>4, <2>3, SteadyKeeps DEF SightInv
<1> QED BY <1>5, <1>6, <1>7 DEF Skip, skipped

\* What is joined while it is damaged was passed over.
LEMMA ArchiveSees ==
  ASSUME SightInv, sets' \subseteq sets, NEW a \in Arc, Extract(a) \/ Extracted(a)
  PROVE  SightInv'
<1>1. /\ isWalk(walk) /\ UNCHANGED <<config, damaged, unseen, verdicts>> /\ walk.stage \in {"extract", "write"}
      /\ content = [b \in Arc |-> content[b]] /\ verdicts = [b \in Arc |-> verdicts[b]] /\ ~walk.parError
  BY DEF SightInv, DamageIsSeen, Extract, Extracted, inputs, in
<1>2. isWalk(walk') /\ walk'.stage \in {"extract", "write"} /\ walk'.parError = walk.parError
  <2>1. CASE walk' = extracts(a)
    BY <1>1, <2>1, Failed
  <2>2. ASSUME NEW fs, walk' = counts(a, fs) PROVE isWalk(walk') /\ walk'.stage = "extract" /\ walk'.parError = walk.parError
    BY <1>1, <2>2, Counted
  <2>3. CASE walk' = [walk EXCEPT !.stage = "write"]
    <3>1. goesWith(walk', "write", walk.todo, walk)
      BY <1>1, <2>3, StageSet
    <3> QED BY <3>1 DEF goesWith
  <2>4. walk' = extracts(a) \/ (\E fs : walk' = counts(a, fs)) \/ walk' = [walk EXCEPT !.stage = "write"]
    BY Zenon DEF Extract, Extracted, extractWithDriver, extractFails
  <2> QED BY <2>1, <2>2, <2>3, <2>4
<1>3. \/ content' = content
      \/ \E c \in {"none", "part", "whole"} : content' = [content EXCEPT ![a] = c]
      \/ a \in damaged /\ content' = [content EXCEPT ![a] = "bad"]
  BY DEF Extract, Extracted, extractWithDriver, extractFails
<1>4. \A b \in sets \cap damaged : b \in unseen \/ asIs(config)
  BY <1>1 DEF SightInv, DamageIsSeen
<1>5. content' = [b \in Arc |-> content'[b]] /\ \A b \in Arc : content'[b] = "bad" => content[b] = "bad" \/ b \in damaged
  BY <1>1, <1>3
<1>6. \A b \in sets' : content'[b] = "bad" => b \in unseen \/ asIs(config)
  <2>1. \A b \in sets : content[b] = "bad" => b \in unseen \/ asIs(config)
    BY DEF SightInv, DamageIsSeen
  <2>2. sets \subseteq Arc
    BY DEF sets
  <2> QED BY <1>4, <1>5, <2>1, <2>2
<1>7. \A b \in Arc : verdicts[b] = "ok" => b \notin damaged
  BY DEF SightInv, DamageIsSeen
<1>8. \A b \in sets' \cap damaged' : b \in unseen' \/ walk'.parError \/ asIs(config')
  BY <1>1, <1>4
<1>9. DamageIsSeen'
  BY <1>1, <1>2, <1>6, <1>7, <1>8 DEF DamageIsSeen, in
<1> QED BY <1>1, <1>2, <1>5, <1>9 DEF SightInv

LEMMA LaterSees ==
  ASSUME SightInv, sets' \subseteq sets,
         \/ RarVolumeRecovery \/ Unpack \/ CleanupArchives \/ (\E a \in Arc : DeleteVolumes(a)) \/ Unpacked
         \/ SampleCleanup \/ Par2Cleanup \/ ExtensionCleanup \/ Finalize \/ StripPrefix \/ Cleanup \/ Script
  PROVE  SightInv'
<1>0. /\ isWalk(walk) /\ UNCHANGED <<config, damaged, unseen, content>>
      /\ verdicts' = verdicts \/ verdicts' = [a \in Arc |-> "none"]
  BY DEF SightInv, RarVolumeRecovery, Unpack, CleanupArchives, DeleteVolumes, Unpacked, SampleCleanup, Par2Cleanup,
         ExtensionCleanup, Finalize, StripPrefix, Cleanup, Script, inputs, kept
<1>1. steady
  <2>1. verdicts = [a \in Arc |-> verdicts[a]] /\ content = [a \in Arc |-> content[a]]
    BY DEF SightInv
  <2>2. verdicts' = [a \in Arc |-> verdicts'[a]] /\ \A a \in Arc : verdicts'[a] = "ok" => verdicts[a] = "ok"
    BY <1>0, <2>1
  <2> QED BY <1>0, <2>1, <2>2 DEF steady
<1>2. ASSUME NEW s, s \notin Watched, NEW t, goesWith(walk', s, t, walk) PROVE SightInv'
  BY <1>1, <1>2, BlindStep DEF goesWith
<1>3. CASE RarVolumeRecovery
  <2>1. walk.stage = "rar_volume_recovery" /\ walk' = [walk EXCEPT !.stage = "unpack"]
    BY <1>3, Afters DEF RarVolumeRecovery, Entering, in, leaves
  <2>2. goesWith(walk', "unpack", walk.todo, walk)
    BY <1>0, <2>1, StageSet
  <2>3. isWalk(walk') /\ walk'.stage = "unpack" /\ walk'.parError = walk.parError
    BY <2>2 DEF goesWith
  <2> QED BY <1>1, <2>1, <2>3, SoberStep
<1>4. CASE Unpack
  <2>0. walk.stage = "unpack" /\ after(walk.stage) = "sample_cleanup"
    BY <1>4, Afters DEF Unpack, Entering, in
  <2>1. CASE walk' = leaves(walk)
    <3>1. goesWith(walk', "sample_cleanup", walk.todo, walk)
      BY <1>0, <2>0, <2>1, StageSet DEF leaves
    <3> QED BY <1>2, <3>1 DEF Watched
  <2>2. ASSUME NEW o, walk' = leaves([walk EXCEPT !.owned = o, !.unpackError = TRUE]) PROVE SightInv'
    <3>1. PICK e : e = TRUE
      OBVIOUS
    <3>2. walk' = notScanned(walk, o, e, "sample_cleanup")
      BY <2>0, <2>2, <3>1 DEF leaves, notScanned
    <3>3. isWalk(walk') /\ walk'.stage = "sample_cleanup"
      BY <1>0, <3>2, NotScannedSet
    <3> QED BY <1>1, <3>3, BlindStep DEF Watched
  <2>3. ASSUME NEW o, ~walk.parError,
               walk' = [walk EXCEPT !.stage = "extract", !.todo = visible \ walk.du, !.ready = walk.du, !.owned = o]
        PROVE  SightInv'
    <3>1. PICK t, r : t = visible \ walk.du /\ r = walk.du
      OBVIOUS
    <3>2. walk' = unpacking(walk, t, r, o)
      BY <2>3, <3>1 DEF unpacking
    <3>3. isWalk(walk') /\ walk'.stage = "extract" /\ walk'.parError = walk.parError
      BY <1>0, <3>2, UnpackingSet
    <3> QED BY <1>1, <2>0, <2>3, <3>3, SoberStep
  <2> QED BY <1>4, <2>1, <2>2, <2>3, Zenon DEF Unpack
<1>5. CASE CleanupArchives
  <2>1. PICK t : walk' = [walk EXCEPT !.stage = "delete", !.todo = t]
    BY <1>5 DEF CleanupArchives
  <2>2. goesWith(walk', "delete", t, walk)
    BY <1>0, <2>1, TodoSet
  <2> QED BY <1>2, <2>2 DEF Watched
<1>6. ASSUME NEW a \in Arc, DeleteVolumes(a) PROVE SightInv'
  <2>1. PICK t : t = walk.todo \ {a}
    OBVIOUS
  <2>2. walk' = settled(walk, t) /\ walk.stage = "delete"
    BY <1>6, <2>1 DEF settled, DeleteVolumes, in
  <2>3. goesWith(walk', walk.stage, t, walk)
    BY <1>0, <2>2, SettledSet
  <2> QED BY <1>2, <2>2, <2>3 DEF Watched
<1>7. CASE Unpacked \/ SampleCleanup \/ Par2Cleanup \/ ExtensionCleanup \/ StripPrefix \/ Cleanup
  <2>1. PICK s : s \notin Watched /\ walk' = [walk EXCEPT !.stage = s]
    BY <1>7, Afters DEF Unpacked, SampleCleanup, Par2Cleanup, ExtensionCleanup, StripPrefix, Cleanup, Entering, in,
                        leaves, Watched
  <2>2. goesWith(walk', s, walk.todo, walk)
    BY <1>0, <2>1, StageSet
  <2> QED BY <1>2, <2>1, <2>2
<1>8. CASE Finalize
  <2>1. walk' = [walk EXCEPT !.stage = "cleanup"] \/ walk' = [walk EXCEPT !.stage = "strip"]
    BY <1>8, Afters DEF Finalize, Entering, in, leaves, handleFailure, moveToDest, moveFails
  <2>2. PICK s \in {"cleanup", "strip"} : goesWith(walk', s, walk.todo, walk)
    BY <1>0, <2>1, StageSet
  <2>3. s \notin Watched
    BY <2>2 DEF Watched
  <2> QED BY <1>2, <2>2, <2>3
<1>9. CASE Script
  <2>1. walk.stage = "script"
    BY <1>9 DEF Script, Entering, in
  <2>2. \/ walk' = [walk EXCEPT !.stage = "done"]
        \/ \E m : walk' = [[walk EXCEPT !.failMsg = m] EXCEPT !.stage = "done"]
    <3>1. CASE walk' = leaves(walk)
      BY <2>1, <3>1, Afters DEF leaves
    <3>2. CASE walk' = leaves([walk EXCEPT !.failMsg = TRUE])
      BY <2>1, <3>2, Afters DEF leaves
    <3> QED BY <1>9, <3>1, <3>2 DEF Script
  <2>3. goesWith(walk', "done", walk.todo, walk)
    BY <1>0, <2>2, StageSet, MsgSet
  <2> QED BY <1>2, <2>3 DEF Watched
<1> QED BY <1>3, <1>4, <1>5, <1>6, <1>7, <1>8, <1>9

LEMMA RestSees ==
  ASSUME SightInv, sets' \subseteq sets, FileJob \/ AlienArrives \/ Interrupted \/ UNCHANGED stageVars
  PROVE  SightInv'
<1>0. UNCHANGED <<config, damaged, unseen, verdicts>>
  BY DEF FileJob, AlienArrives, Interrupted, stageVars, inputs
<1>1. content' = content \/ content' = [content EXCEPT !["split"] = "none"]
  BY DEF FileJob, AlienArrives, Interrupted, stageVars, kept
<1>2. steady
  <2>1. verdicts = [a \in Arc |-> verdicts[a]] /\ content = [a \in Arc |-> content[a]]
    BY DEF SightInv
  <2>2. content' = [a \in Arc |-> content'[a]] /\ \A a \in Arc : content'[a] = "bad" => content[a] = "bad"
    BY <1>1, <2>1
  <2> QED BY <1>0, <2>1, <2>2 DEF steady
<1>3. CASE Interrupted
  <2>1. isWalk(walk') /\ walk'.stage = "queued" /\ walk'.quick = "NotRun"
    BY <1>3 DEF Interrupted, Fresh, isWalk
  <2>2. DamageIsSeen'
    BY <1>2, <2>1, SteadyKeeps DEF DamageIsSeen, in
  <2> QED BY <1>2, <2>1, <2>2, SteadyKeeps DEF SightInv
<1>4. CASE FileJob \/ AlienArrives \/ UNCHANGED stageVars
  <2>1. walk' = walk
    BY <1>4 DEF FileJob, AlienArrives, stageVars
  <2>2. DamageIsSeen'
    BY <1>0, <1>2, <2>1, SteadyKeeps DEF SightInv, DamageIsSeen, in
  <2> QED BY <1>2, <2>1, <2>2, SteadyKeeps DEF SightInv
<1> QED BY <1>3, <1>4

LEMMA SightStep == SightInv /\ [StagesNext]_stageVars => SightInv'
<1> SUFFICES ASSUME SightInv, [StagesNext]_stageVars PROVE SightInv'
  OBVIOUS
<1>0. sets' \subseteq sets
  BY SetsShrink
<1>1. ASSUME NEW a \in Arc, RepairSet(a) PROVE SightInv'
  BY <1>1, RepairSetSees
<1>2. ASSUME NEW a \in Arc, Extract(a) \/ Extracted(a) PROVE SightInv'
  BY <1>0, <1>2, ArchiveSees
<1> QED BY <1>0, <1>1, <1>2, LookSteps, SkipSees, LaterSees, RestSees DEF StagesNext

\* Nothing but the par2 cleanup deletes a par2 set, and that one only where the
\* invariants vouch for the content.
LEMMA Par2Step == StagesIInv /\ [StagesNext]_stageVars => keepsNeededPar2
<1> SUFFICES ASSUME StagesIInv, [StagesNext]_stageVars, NEW a \in owed,
                    place[Par(a)] # "gone", place'[Par(a)] = "gone"
             PROVE  \/ onDisk(Out(a)) /\ content[a] = "whole"
                    \/ a \in hidden \/ a \in unseen \/ asIs(config)
  BY DEF keepsNeededPar2
<1> USE DEF StagesIInv
<1>0. /\ a \in Arc /\ Par(a) \in File /\ Par(a) # Alien /\ Par(a) \notin config.junk
      /\ \A b \in Arc : Par(a) # Out(b) /\ Par(a) # Vol(b)
  BY Files DEF owed
<1>1. CASE Par2Cleanup
  <2>1. ~keepsPar2 /\ place' = moved(here({Par(b) : b \in Arc}), "gone") /\ walk.stage = "par2_cleanup"
    BY <1>1 DEF Par2Cleanup, Entering, in
  <2>2. place[Par(a)] = "dl"
    BY <1>0, <2>1 DEF moved, here
  <2>3. outputKept(a) \/ a \in hidden \/ asIs(config)
    BY <2>1, <2>2 DEF KeepInv, SeenIsUnpacked, keepsPar2
  <2>4. content[a] = "bad" => a \in unseen \/ asIs(config)
    BY <1>0, <2>2 DEF SightInv, DamageIsSeen, sets
  <2> QED BY <2>3, <2>4 DEF outputKept
<1>2. CASE place' = place
  BY <1>2
<1>3. ASSUME NEW fs, NEW where, place' = moved(fs, where), where # "gone" \/ Par(a) \notin fs PROVE FALSE
  BY <1>0, <1>3 DEF moved
<1>4. CASE SampleCleanup \/ ExtensionCleanup
  <2>1. Par(a) \notin mine(junk)
    BY <1>0 DEF mine, junk, here
  <2> QED BY <1>2, <1>3, <1>4, <2>1 DEF SampleCleanup, ExtensionCleanup
<1>5. ASSUME NEW b \in Arc, DeleteVolumes(b) PROVE FALSE
  <2>1. Par(a) \notin here({Vol(b)})
    BY <1>0 DEF here
  <2> QED BY <1>3, <1>5, <2>1 DEF DeleteVolumes
<1>6. CASE Finalize
  <2>1. dest # "gone"
    BY DEF dest
  <2> QED BY <1>2, <1>3, <1>6, <2>1 DEF Finalize, handleFailure, moveToDest, moveFails
<1>7. CASE StripPrefix
  BY <1>0, <1>2, <1>7 DEF StripPrefix
<1>8. CASE AlienArrives
  BY <1>3, <1>8 DEF AlienArrives
<1>9. ASSUME NEW b \in Arc, Extract(b) \/ Extracted(b) PROVE FALSE
  BY <1>2, <1>3, <1>9 DEF Extract, Extracted, extractWithDriver, extractFails
<1>10. ASSUME NEW b \in Arc, RepairSet(b) PROVE FALSE
  BY <1>2, <1>10 DEF RepairSet
<1>11. CASE Interrupted
  BY <1>2, <1>3, <1>11 DEF Interrupted
<1>12. CASE \/ Begin \/ Skip \/ QuickCheck \/ Repair \/ Repaired \/ RarVolumeRecovery \/ Unpack \/ Cleanup
            \/ CleanupArchives \/ Unpacked \/ Script \/ FileJob \/ UNCHANGED stageVars
  BY <1>2, <1>12 DEF Begin, Skip, QuickCheck, Repair, Repaired, RarVolumeRecovery, Unpack, Cleanup, Script,
                     CleanupArchives, Unpacked, FileJob, stageVars
<1> QED BY <1>1, <1>4, <1>5, <1>6, <1>7, <1>8, <1>9, <1>10, <1>11, <1>12 DEF StagesNext

\* A par2 set is deleted only when the content of its archive, extracted from
\* volumes that a repair has looked at, is on disk to the end, in any walk, the
\* interrupted ones included; the exceptions are those of Par2OutlivesNeed.
THEOREM Par2SetsOutliveNeed == StagesSpec => Par2OutlivesNeed
<1>1. StagesIInv /\ [StagesNext]_stageVars => [keepsNeededPar2]_stageVars
  BY Par2Step
<1>2. StagesInit => StagesIInv
  BY KeepStart, SightStart DEF StagesIInv
<1>3. StagesIInv /\ [StagesNext]_stageVars => StagesIInv'
  BY KeepStep, SightStep DEF StagesIInv
<1> QED BY <1>1, <1>2, <1>3, PTL DEF StagesSpec, Par2OutlivesNeed

-----------------------------------------------------------------------------
(* Direct unpacking.                                                         *)

\* The last volume of a set is one of its volumes, and none comes after it.
LEMMA LastVolume ==
  ASSUME NEW s \in RarSets
  PROVE  /\ totalVolumes(s) \in volumesOf(s) /\ totalVolumes(s) \in Nat \ {0}
         /\ volumesOf(s) \subseteq 1..totalVolumes(s) /\ volumesOf(s) \subseteq Nat \ {0}
<1> DEFINE V == volumesOf(s)
<1>1. V \subseteq Nat \ {0}
  BY VolumeAssumption DEF volumesOf
<1>2. \E x \in V : \A y \in V : x >= y
  BY <1>1, VolumeAssumption
<1>3. Max(V) \in V /\ \A y \in V : Max(V) >= y
  <2>1. Max(V) = CHOOSE x \in V : \A y \in V : x >= y
    BY DEF Max
  <2> HIDE DEF V
  <2> QED BY <1>2, <2>1
<1> QED BY <1>1, <1>3 DEF totalVolumes

LEMMA RarSetOf == \A f \in RarFiles : Volume[f].set \in RarSets /\ Volume[f].vol \in volumesOf(Volume[f].set)
BY DEF RarSets, volumesOf

\* One unpacker changes.
LEMMA UnitSet ==
  ASSUME units \in Seq(Unit), NEW i \in 1..Len(units), NEW v \in Unit, becomes(i, v)
  PROVE  /\ units' \in Seq(Unit) /\ Len(units') = Len(units) /\ units'[i] = v
         /\ \A k \in 1..Len(units) : k # i => units'[k] = units[k]
BY DEF becomes

\* What an unpacker may never take back.
keepsUnit(v, d) ==
  /\ v \in Unit /\ SoundUnit(v) /\ d.corrupt \subseteq v.corrupt
  /\ \A s \in RarSets : d.have[s] \subseteq v.have[s]

LEMMA WholeStays ==
  ASSUME NEW d \in Unit, NEW v, keepsUnit(v, d), NEW s \in RarSets, whole(d, s)
  PROVE  whole(v, s)
<1>1. v.have[s] \subseteq volumesOf(s) /\ d.have[s] \subseteq v.have[s]
  BY DEF keepsUnit, SoundUnit, MarkedIfDamaged
<1> QED BY <1>1 DEF whole

\* The unpackers grow, and whoever refers to one still finds it.
LEMMA UnitsKeep ==
  ASSUME UnpackIInv, units' \in Seq(Unit), Len(units) <= Len(units'),
         \A k \in 1..Len(units') : SoundUnit(units'[k]),
         \A k \in 1..Len(units) : keepsUnit(units'[k], units[k]),
         post'.pc = post.pc \/ (post.pc = "blocked" /\ post'.pc = "aborted"),
         post'.sets = post.sets, post'.unit = post.unit
  PROVE  KeepsToItsUnit' /\ HandedIsWhole'
<1>1. KeepsToItsUnit'
  BY DEF UnpackIInv, KeepsToItsUnit
<1>2. HandedIsWhole'
  <2>1. ASSUME NEW s \in post.sets PROVE whole(units'[post.unit], s)
    <3>1. s \in RarSets /\ post.unit \in 1..Len(units)
      BY DEF UnpackIInv, UnpackTypeOK, KeepsToItsUnit
    <3>2. whole(units[post.unit], s)
      BY DEF UnpackIInv, HandedIsWhole, whole
    <3>3. units[post.unit] \in Unit
      BY <3>1 DEF UnpackIInv, UnpackTypeOK
    <3> QED BY <3>1, <3>2, <3>3, WholeStays
  <2> QED BY <2>1 DEF HandedIsWhole, whole
<1> QED BY <1>1, <1>2

LEMMA UnitPostStep ==
  ASSUME UnpackIInv, NEW i \in 1..Len(units), NEW v, becomes(i, v), keepsUnit(v, units[i]),
         registered' = registered,
         post' \in [pc : {"none", "due", "wait", "blocked", "aborted", "posted", "dropped"},
                    unit : 0..Len(units), sets : SUBSET RarSets],
         post'.pc = post.pc \/ (post.pc = "blocked" /\ post'.pc = "aborted"),
         post'.sets = post.sets, post'.unit = post.unit,
         watcher' \in [pc : {"idle", "look", "admit", "mark", "add", "signal"},
                       file : SUBSET RarFiles, unit : 0..Len(units)],
         MarkedThenAdded'
  PROVE  UnpackIInv'
<1>1. units \in Seq(Unit) /\ v \in Unit /\ units[i] \in Unit
  BY DEF UnpackIInv, UnpackTypeOK, keepsUnit
<1>2. /\ units' \in Seq(Unit) /\ Len(units') = Len(units) /\ units'[i] = v
      /\ \A k \in 1..Len(units) : k # i => units'[k] = units[k]
  BY <1>1, UnitSet
<1>3. ASSUME NEW k \in 1..Len(units) PROVE keepsUnit(units'[k], units[k])
  <2>1. CASE k = i
    BY <1>2, <2>1
  <2>2. CASE k # i
    <3>1. units'[k] = units[k] /\ units[k] \in Unit /\ SoundUnit(units[k])
      BY <1>1, <1>2, <2>2 DEF UnpackIInv
    <3> QED BY <3>1 DEF keepsUnit
  <2> QED BY <2>1, <2>2
<1>4. \A k \in 1..Len(units') : SoundUnit(units'[k])
  BY <1>2, <1>3 DEF keepsUnit
<1>5. KeepsToItsUnit' /\ HandedIsWhole'
  BY <1>2, <1>3, <1>4, UnitsKeep
<1>6. UnpackTypeOK'
  BY <1>2 DEF UnpackIInv, UnpackTypeOK
<1> QED BY <1>4, <1>5, <1>6 DEF UnpackIInv

LEMMA UnitStep ==
  ASSUME UnpackIInv, NEW i \in 1..Len(units), NEW v, becomes(i, v), keepsUnit(v, units[i]),
         UNCHANGED <<registered, post>>,
         watcher' \in [pc : {"idle", "look", "admit", "mark", "add", "signal"},
                       file : SUBSET RarFiles, unit : 0..Len(units)],
         MarkedThenAdded'
  PROVE  UnpackIInv'
<1>1. /\ post' \in [pc : {"none", "due", "wait", "blocked", "aborted", "posted", "dropped"},
                    unit : 0..Len(units), sets : SUBSET RarSets]
      /\ post'.pc = post.pc /\ post'.sets = post.sets /\ post'.unit = post.unit
  BY DEF UnpackIInv, UnpackTypeOK
<1> QED BY <1>1, UnitPostStep

\* An unpacker that keeps its marks keeps the watcher's promise.
LEMMA MarkStays ==
  ASSUME UnpackIInv, NEW i \in 1..Len(units), NEW v, becomes(i, v), keepsUnit(v, units[i]), watcher' = watcher
  PROVE  MarkedThenAdded'
<1>1. units \in Seq(Unit) /\ v \in Unit
  BY DEF UnpackIInv, UnpackTypeOK, keepsUnit
<1>2. /\ Len(units') = Len(units) /\ units'[i] = v
      /\ \A k \in 1..Len(units) : k # i => units'[k] = units[k]
  BY <1>1, UnitSet
<1>3. watcher.pc = "add" => watcher.unit \in 1..Len(units)
  BY DEF UnpackIInv, UnpackTypeOK, MarkedThenAdded
<1> QED BY <1>2, <1>3 DEF UnpackIInv, MarkedThenAdded, keepsUnit

\* A step of an unpacker's own goroutines.
LEMMA OwnStep ==
  ASSUME UnpackIInv, NEW i \in 1..Len(units), NEW v, becomes(i, v), keepsUnit(v, units[i]), UNCHANGED others
  PROVE  UnpackIInv'
<1>1. UNCHANGED <<registered, post, watcher>>
  BY DEF others
<1>5. MarkedThenAdded'
  BY <1>1, MarkStays
<1> QED BY <1>1, <1>5, UnitStep DEF UnpackIInv, UnpackTypeOK

\* The goroutine of an unpacker moves and the feeds rest.
sameFeeds(v, d) ==
  /\ v.have = d.have /\ v.corrupt = d.corrupt /\ v.feeds = d.feeds /\ v.started = d.started /\ v.cur = d.cur
  /\ v.won \subseteq d.won

LEMMA RunMoves ==
  ASSUME NEW d \in Unit, SoundUnit(d), NEW v \in Unit, sameFeeds(v, d),
         v.run # "off" => d.started,
         v.run \in {"entry", "read", "verdict"} => d.run \in {"entry", "read", "verdict"},
         v.run = "verdict" => EndReached(d, d.feeds[Len(d.feeds)])
  PROVE  keepsUnit(v, d)
<1>1. MarkedIfDamaged(v)
  BY DEF SoundUnit, MarkedIfDamaged, sameFeeds
<1>2. \A s \in v.won : whole(v, s)
  BY DEF SoundUnit, whole, sameFeeds
<1>3. \A g \in 1..Len(v.feeds) : FedIsThere(v, v.feeds[g])
  BY DEF SoundUnit, FedIsThere, sameFeeds
<1>4. FeedsCurrent(v)
  BY DEF SoundUnit, FeedsCurrent, sameFeeds, EndReached
<1> QED BY <1>1, <1>2, <1>3, <1>4 DEF keepsUnit, SoundUnit, sameFeeds

\* The unpackers such steps leave.
runs(d, r) == [d EXCEPT !.run = r]
ends(d, r, b) == [d EXCEPT !.run = r, !.done = b]
woken(d, r, b) == [d EXCEPT !.ready = b, !.run = r]
loses(d, x, y) == [d EXCEPT !.run = "next", !.failed = x, !.skipped = y]

LEMMA RunForm ==
  ASSUME NEW d \in Unit, NEW r \in RunPc
  PROVE  runs(d, r) \in Unit /\ sameFeeds(runs(d, r), d) /\ runs(d, r).run = r
<1>1. ASSUME NEW v, v = runs(d, r) PROVE v \in Unit /\ sameFeeds(v, d) /\ v.run = r
  BY <1>1 DEF runs, Unit, sameFeeds
<1> QED BY <1>1

LEMMA EndForm ==
  ASSUME NEW d \in Unit, NEW r \in RunPc, NEW b \in BOOLEAN
  PROVE  ends(d, r, b) \in Unit /\ sameFeeds(ends(d, r, b), d) /\ ends(d, r, b).run = r
<1>1. ASSUME NEW v, v = ends(d, r, b) PROVE v \in Unit /\ sameFeeds(v, d) /\ v.run = r
  BY <1>1 DEF ends, Unit, sameFeeds
<1> QED BY <1>1

LEMMA WokenForm ==
  ASSUME NEW d \in Unit, NEW r \in RunPc, NEW b \in BOOLEAN
  PROVE  woken(d, r, b) \in Unit /\ sameFeeds(woken(d, r, b), d) /\ woken(d, r, b).run = r
<1>1. ASSUME NEW v, v = woken(d, r, b) PROVE v \in Unit /\ sameFeeds(v, d) /\ v.run = r
  BY <1>1 DEF woken, Unit, sameFeeds
<1> QED BY <1>1

LEMMA LosesForm ==
  ASSUME NEW d \in Unit, NEW x \in SUBSET RarSets, NEW y \in SUBSET RarSets
  PROVE  loses(d, x, y) \in Unit /\ sameFeeds(loses(d, x, y), d) /\ loses(d, x, y).run = "next"
<1>1. ASSUME NEW v, v = loses(d, x, y) PROVE v \in Unit /\ sameFeeds(v, d) /\ v.run = "next"
  BY <1>1 DEF loses, Unit, sameFeeds, RunPc
<1> QED BY <1>1

LEMMA AbortUnit ==
  ASSUME NEW d \in Unit, SoundUnit(d)
  PROVE  keepsUnit(Abort(d), d)
<1>1. CASE d.killed
  BY <1>1 DEF Abort, keepsUnit
<1>2. CASE ~d.killed
  <2>1. PICK x, b1, b2 : /\ x = d.failed \cup Range(d.next) \cup ({d.cur} \ {"none"})
                         /\ b1 = (d.done \/ ~d.started) /\ b2 = (d.ready \/ d.started)
    OBVIOUS
  <2>2. x \in SUBSET RarSets /\ b1 \in BOOLEAN /\ b2 \in BOOLEAN /\ <<>> \in Seq(RarSets) /\ {} \in SUBSET RarSets
    <3>1. d.failed \subseteq RarSets /\ d.next \in Seq(RarSets) /\ d.cur \in RarSets \cup {"none"}
      BY DEF Unit
    <3>2. Range(d.next) \subseteq RarSets
      BY <3>1 DEF Range
    <3> QED BY <2>1, <3>1, <3>2
  <2>3. PICK v : v = [d EXCEPT !.killed = TRUE, !.won = {}, !.next = <<>>, !.failed = x, !.done = b1, !.ready = b2]
    OBVIOUS
  <2>4. Abort(d) = v
    BY <1>2, <2>1, <2>3 DEF Abort
  <2>5. v \in Unit
    BY <2>2, <2>3 DEF Unit
  <2>6. sameFeeds(v, d) /\ v.run = d.run
    BY <2>3 DEF Unit, sameFeeds
  <2>7. keepsUnit(v, d)
    BY <2>5, <2>6, RunMoves DEF SoundUnit, FeedsCurrent
  <2> QED BY <2>4, <2>7
<1> QED BY <1>1, <1>2

LEMMA MarkUnit ==
  ASSUME NEW d \in Unit, SoundUnit(d), NEW s \in RarSets
  PROVE  keepsUnit(MarkCorrupt(d, s), d) /\ MarkCorrupt(d, s).corrupt = d.corrupt \cup {s}
<1>1. PICK v, c : c = d.corrupt \cup {s} /\ v = [d EXCEPT !.corrupt = c, !.ready = TRUE]
  OBVIOUS
<1>2. MarkCorrupt(d, s) = v
  BY <1>1 DEF MarkCorrupt
<1>3. c \in SUBSET RarSets
  BY <1>1 DEF Unit
<1>4. /\ v \in Unit /\ v.have = d.have /\ v.corrupt = c /\ v.feeds = d.feeds /\ v.started = d.started
      /\ v.cur = d.cur /\ v.won = d.won /\ v.run = d.run
  BY <1>1, <1>3 DEF Unit
<1>5. MarkedIfDamaged(v)
  BY <1>1, <1>4 DEF SoundUnit, MarkedIfDamaged
<1>6. \A w \in v.won : whole(v, w)
  BY <1>4 DEF SoundUnit, whole
<1>7. \A g \in 1..Len(v.feeds) : FedIsThere(v, v.feeds[g])
  BY <1>4 DEF SoundUnit, FedIsThere
<1>8. FeedsCurrent(v)
  BY <1>1, <1>4 DEF SoundUnit, FeedsCurrent, EndReached
<1> QED BY <1>1, <1>2, <1>4, <1>5, <1>6, <1>7, <1>8 DEF keepsUnit, SoundUnit

\* A volume is added: to what the unpacker has, and perhaps as a first or
\* another set to extract.
LEMMA AddUnit ==
  ASSUME NEW d \in Unit, SoundUnit(d), NEW f \in RarFiles, f \in Damaged => Volume[f].set \in d.corrupt
  PROVE  keepsUnit(Add(d, Volume[f].set, Volume[f].vol), d)
<1> DEFINE s == Volume[f].set
           n == Volume[f].vol
           h == [d.have EXCEPT ![s] = @ \cup {n}]
<1>0. s \in RarSets /\ n \in volumesOf(s) /\ n \in Nat \ {0}
  BY RarSetOf, VolumeAssumption
<1>1. PICK k : k = [d EXCEPT !.have = h]
  OBVIOUS
<1>2. d.have \in [RarSets -> SUBSET Nat] /\ d.next \in Seq(RarSets)
  BY DEF Unit
<1>3. h \in [RarSets -> SUBSET Nat] /\ h[s] = d.have[s] \cup {n} /\ \A t \in RarSets : t # s => h[t] = d.have[t]
  BY <1>0, <1>2
<1>4. [d EXCEPT !.have[s] = @ \cup {n}] = k
  BY <1>1
<1> HIDE DEF h
<1>5. /\ k \in Unit /\ k.have = h /\ k.corrupt = d.corrupt /\ k.feeds = d.feeds /\ k.started = d.started
      /\ k.cur = d.cur /\ k.won = d.won /\ k.run = d.run /\ k.next = d.next
  BY <1>1, <1>3 DEF Unit
<1>6. PICK q : q = Append(d.next, s)
  OBVIOUS
<1>7. q \in Seq(RarSets)
  BY <1>0, <1>2, <1>6
<1>8. \/ Add(d, s, n) = k
      \/ Add(d, s, n) = [k EXCEPT !.next = q]
      \/ ~d.started /\ Add(d, s, n) = [k EXCEPT !.cur = s, !.started = TRUE]
  <2>1. [k EXCEPT !.next = Append(@, s)] = [k EXCEPT !.next = q]
    BY <1>5, <1>6
  <2>2. Add(d, s, n) =
          CASE ~d.started /\ n = 1 -> [k EXCEPT !.cur = s, !.started = TRUE]
            [] (d.started \/ n # 1) /\ ~setQueued(d, s) -> [k EXCEPT !.next = Append(@, s)]
            [] OTHER -> k
    BY <1>4 DEF Add
  <2>3. CASE ~d.started /\ n = 1
    BY <2>2, <2>3
  <2>4. CASE ~(~d.started /\ n = 1) /\ (d.started \/ n # 1) /\ ~setQueued(d, s)
    BY <2>1, <2>2, <2>4
  <2>5. CASE ~(~d.started /\ n = 1) /\ ~((d.started \/ n # 1) /\ ~setQueued(d, s))
    BY <2>2, <2>5
  <2> QED BY <2>3, <2>4, <2>5
<1>9. PICK v : v = Add(d, s, n)
  OBVIOUS
<1>10. /\ v \in Unit /\ v.have = h /\ v.corrupt = d.corrupt /\ v.feeds = d.feeds /\ v.won = d.won
       /\ v.run = d.run
       /\ \/ v.started = d.started /\ v.cur = d.cur
          \/ ~d.started /\ v.started = TRUE /\ v.cur = s
  <2>1. CASE v = k
    BY <1>5, <2>1
  <2>2. CASE v = [k EXCEPT !.next = q]
    BY <1>5, <1>7, <2>2 DEF Unit
  <2>3. CASE ~d.started /\ v = [k EXCEPT !.cur = s, !.started = TRUE]
    BY <1>0, <1>5, <2>3 DEF Unit
  <2> QED BY <1>8, <1>9, <2>1, <2>2, <2>3
<1>11. \A t \in RarSets : d.have[t] \subseteq h[t] /\ h[t] \subseteq volumesOf(t)
  BY <1>0, <1>3 DEF SoundUnit, MarkedIfDamaged
<1>12. MarkedIfDamaged(v)
  <2>1. ASSUME NEW g \in RarFiles \cap Damaged, Volume[g].vol \in h[Volume[g].set]
        PROVE  Volume[g].set \in d.corrupt
    <3>1. CASE Volume[g].vol \in d.have[Volume[g].set]
      BY <3>1 DEF SoundUnit, MarkedIfDamaged
    <3>2. CASE Volume[g].vol \notin d.have[Volume[g].set]
      <4>3. Volume[g].set \in RarSets
        BY RarSetOf
      <4>4. Volume[g].set = s
        <5> HIDE DEF s, n
        <5> QED BY <1>3, <2>1, <3>2, <4>3
      <4>5. Volume[g].vol \in d.have[s] \cup {n} /\ Volume[g].vol \notin d.have[s]
        <5> HIDE DEF s, n
        <5> QED BY <1>3, <2>1, <3>2, <4>4
      <4>1. Volume[g].set = s /\ Volume[g].vol = n
        BY <4>4, <4>5
      <4>2. g = f
        BY <4>1, VolumeAssumption
      <4> QED BY <2>1, <4>2
    <3> QED BY <3>1, <3>2
  <2> QED BY <1>10, <1>11, <2>1 DEF MarkedIfDamaged
<1>13. \A t \in v.won : whole(v, t)
  <2>1. d.won \subseteq RarSets
    BY DEF Unit
  <2> QED BY <1>10, <1>11, <2>1 DEF SoundUnit, whole
<1>14. \A g \in 1..Len(v.feeds) : FedIsThere(v, v.feeds[g])
  <2>1. d.feeds \in Seq(Feed)
    BY DEF Unit
  <2>2. ASSUME NEW g \in 1..Len(d.feeds) PROVE FedIsThere(v, d.feeds[g])
    <3>4. d.feeds[g] \in Feed
      BY <2>1
    <3>1. d.feeds[g].set \in RarSets
      BY <3>4 DEF Feed
    <3>2. FedIsThere(d, d.feeds[g])
      BY DEF SoundUnit
    <3>3. d.have[d.feeds[g].set] \subseteq v.have[d.feeds[g].set]
      BY <1>10, <1>11, <3>1
    <3> QED BY <3>2, <3>3 DEF FedIsThere
  <2> QED BY <1>10, <2>2
<1>15. FeedsCurrent(v)
  <2>1. CASE v.started = d.started /\ v.cur = d.cur
    BY <1>10, <2>1 DEF SoundUnit, FeedsCurrent, EndReached
  <2>2. CASE ~d.started /\ v.started = TRUE /\ v.cur = s
    BY <1>0, <1>10, <2>2 DEF SoundUnit, FeedsCurrent
  <2> QED BY <1>10, <2>1, <2>2
<1> QED BY <1>9, <1>10, <1>11, <1>12, <1>13, <1>14, <1>15 DEF keepsUnit, SoundUnit

\* The feeds of an unpacker change, and the goroutine stays with the last one.
LEMMA FeedsMove ==
  ASSUME NEW d \in Unit, SoundUnit(d), NEW v \in Unit,
         v.have = d.have, v.corrupt = d.corrupt, v.started = d.started, v.cur = d.cur, v.won = d.won,
         \A g \in 1..Len(v.feeds) : FedIsThere(d, v.feeds[g]),
         v.run # "off" => d.started,
         v.run \in {"entry", "read", "verdict"} => Len(v.feeds) > 0 /\ v.feeds[Len(v.feeds)].set = d.cur,
         v.run = "verdict" => EndReached(d, v.feeds[Len(v.feeds)])
  PROVE  keepsUnit(v, d)
<1>1. MarkedIfDamaged(v)
  BY DEF SoundUnit, MarkedIfDamaged
<1>2. \A s \in v.won : whole(v, s)
  BY DEF SoundUnit, whole
<1>3. \A g \in 1..Len(v.feeds) : FedIsThere(v, v.feeds[g])
  BY DEF FedIsThere
<1>4. FeedsCurrent(v)
  BY DEF SoundUnit, FeedsCurrent, EndReached
<1> QED BY <1>1, <1>2, <1>3, <1>4 DEF keepsUnit, SoundUnit

\* The unpackers such steps leave.
fed(d, r, q) == [d EXCEPT !.run = r, !.feeds = q]
fedOnly(d, q) == [d EXCEPT !.feeds = q]
fedAwake(d, b, q) == [d EXCEPT !.ready = b, !.feeds = q]

keepsRest(v, d) ==
  /\ v \in Unit /\ v.have = d.have /\ v.corrupt = d.corrupt /\ v.started = d.started
  /\ v.cur = d.cur /\ v.won = d.won

LEMMA FedForm ==
  ASSUME NEW d \in Unit, NEW r \in RunPc, NEW q \in Seq(Feed), NEW v, v = fed(d, r, q)
  PROVE  keepsRest(v, d) /\ v.run = r /\ v.feeds = q
BY DEF fed, Unit, keepsRest

LEMMA FedOnlyForm ==
  ASSUME NEW d \in Unit, NEW q \in Seq(Feed), NEW v, v = fedOnly(d, q)
  PROVE  keepsRest(v, d) /\ v.run = d.run /\ v.feeds = q
BY DEF fedOnly, Unit, keepsRest

LEMMA FedAwakeForm ==
  ASSUME NEW d \in Unit, NEW b \in BOOLEAN, NEW q \in Seq(Feed), NEW v, v = fedAwake(d, b, q)
  PROVE  keepsRest(v, d) /\ v.run = d.run /\ v.feeds = q
BY DEF fedAwake, Unit, keepsRest

feedAt(d, g, x) == [d.feeds EXCEPT ![g] = x]
feedLooks(f, p) == [f EXCEPT !.pc = p]
feedMoves(f, p, e) == [f EXCEPT !.pc = p, !.err = e]
feedTakes(f, p, n) == [f EXCEPT !.pc = p, !.vol = n]

LEMMA FeedLooks ==
  ASSUME NEW f \in Feed, NEW p \in {"look", "send", "parked", "over"}, NEW x, x = feedLooks(f, p)
  PROVE  x \in Feed /\ x.set = f.set /\ x.vol = f.vol /\ x.pc = p
BY DEF Feed, feedLooks

LEMMA FeedSeqSet ==
  ASSUME NEW c \in Seq(Feed), NEW g \in 1..Len(c), NEW x \in Feed, NEW q, q = [c EXCEPT ![g] = x]
  PROVE  q \in Seq(Feed) /\ Len(q) = Len(c) /\ q[g] = x /\ \A h \in 1..Len(q) : h # g => q[h] = c[h]
OBVIOUS

\* One feed changes: its set stays, and what is over stays over.
LEMMA FeedChanges ==
  ASSUME NEW d \in Unit, SoundUnit(d), NEW g \in 1..Len(d.feeds), NEW x \in Feed, FedIsThere(d, x),
         x.set = d.feeds[g].set, NEW q, q = feedAt(d, g, x)
  PROVE  /\ q \in Seq(Feed) /\ Len(q) = Len(d.feeds) /\ q[g] = x /\ \A h \in 1..Len(q) : FedIsThere(d, q[h])
         /\ \A h \in 1..Len(q) : h # g => q[h] = d.feeds[h]
         /\ \A h \in 1..Len(q) : q[h].set = d.feeds[h].set
<1>1. d.feeds \in Seq(Feed)
  BY DEF Unit
<1>2. q \in Seq(Feed) /\ Len(q) = Len(d.feeds) /\ q[g] = x /\ \A h \in 1..Len(q) : h # g => q[h] = d.feeds[h]
  <2>1. q = [d.feeds EXCEPT ![g] = x]
    BY DEF feedAt
  <2> QED BY <1>1, <2>1, FeedSeqSet
<1>3. \A h \in 1..Len(q) : FedIsThere(d, q[h]) /\ q[h].set = d.feeds[h].set
  BY <1>2 DEF SoundUnit
<1> QED BY <1>2, <1>3

\* A feed looks for its next volume, is woken, or is cancelled.
LEMMA FeedGoes ==
  ASSUME NEW d \in Unit, NEW f \in Feed, FedIsThere(d, f), f.pc # "over",
         NEW p \in {"look", "send", "parked", "over"},          p = "send" => f.vol \in d.have[f.set],
         NEW x \in Feed, x.set = f.set, x.vol = f.vol, x.pc = p, p = "over" => x.err
  PROVE  FedIsThere(d, x)
BY DEF FedIsThere

LEMMA FeedWakes ==
  ASSUME NEW d \in Unit, NEW f \in Feed, FedIsThere(d, f), NEW p, p = "look", NEW x, x = feedLooks(f, p)
  PROVE  x \in Feed /\ x.set = f.set /\ x.vol = f.vol /\ FedIsThere(d, x)
<1>1. p \in {"look", "send", "parked", "over"}
  OBVIOUS
<1>2. x \in Feed /\ x.set = f.set /\ x.vol = f.vol /\ x.pc = p
  BY <1>1, FeedLooks
<1> QED BY <1>2 DEF FedIsThere

\* The decoder takes the volume a feed offers.
LEMMA FeedGives ==
  ASSUME NEW d \in Unit, NEW f \in Feed, FedIsThere(d, f), f.pc = "send",
         NEW p \in {"look", "over"}, p = "over" => f.vol = totalVolumes(f.set),
         NEW x \in Feed, x.set = f.set, x.vol = f.vol + 1, x.pc = p
  PROVE  FedIsThere(d, x)
<1>0. f.vol \in Nat \ {0}
  BY DEF Feed
<1>2. 1..(f.vol - 1) \subseteq d.have[f.set] /\ f.vol \in d.have[f.set]
  BY DEF FedIsThere
<1>3. x.vol - 1 = f.vol
  BY <1>0
<1>4. 1..(x.vol - 1) \subseteq d.have[x.set]
  <2>1. 1..f.vol = (1..(f.vol - 1)) \cup {f.vol}
    BY <1>0
  <2> QED BY <1>2, <1>3, <2>1
<1>5. x.pc = "over" => x.vol - 1 = totalVolumes(x.set)
  BY <1>3
<1> QED BY <1>4, <1>5 DEF FedIsThere

\* One feed of an unpacker moves, and the goroutine with it or not.
LEMMA FeedUnit ==
  ASSUME NEW d \in Unit, SoundUnit(d), NEW g \in 1..Len(d.feeds), NEW x \in Feed,
         x.set = d.feeds[g].set, x.vol = d.feeds[g].vol, FedIsThere(d, x), d.feeds[g].pc # "over",
         NEW q, q = feedAt(d, g, x), NEW v, keepsRest(v, d), v.run = d.run, v.feeds = q
  PROVE  keepsUnit(v, d)
<1>0. d.feeds \in Seq(Feed)
  BY DEF Unit
<1>1. /\ q \in Seq(Feed) /\ Len(q) = Len(d.feeds) /\ \A h \in 1..Len(q) : FedIsThere(d, q[h])
      /\ \A h \in 1..Len(q) : h # g => q[h] = d.feeds[h]
      /\ \A h \in 1..Len(q) : q[h].set = d.feeds[h].set
      /\ q[g] = x
  BY FeedChanges
<1>2. /\ d.run # "off" => d.started
      /\ d.run \in {"entry", "read", "verdict"} => Len(d.feeds) > 0 /\ d.feeds[Len(d.feeds)].set = d.cur
      /\ d.run = "verdict" => EndReached(d, d.feeds[Len(d.feeds)])
  BY DEF SoundUnit, FeedsCurrent
<1>3. d.run \in {"entry", "read", "verdict"} => Len(q) \in 1..Len(q)
  BY <1>0, <1>1, <1>2
<1>4. d.run = "verdict" => EndReached(d, q[Len(q)])
  <2>1. CASE g = Len(q)
    BY <1>1, <1>2, <2>1 DEF EndReached
  <2>2. CASE g # Len(q)
    BY <1>1, <1>2, <1>3, <2>2
  <2> QED BY <2>1, <2>2
<1>5. d.run \in {"entry", "read", "verdict"} => Len(q) > 0 /\ q[Len(q)].set = d.cur
  BY <1>1, <1>2, <1>3
<1>6. /\ v \in Unit /\ v.have = d.have /\ v.corrupt = d.corrupt /\ v.started = d.started
      /\ v.cur = d.cur /\ v.won = d.won
  BY DEF keepsRest
<1> QED BY <1>1, <1>2, <1>4, <1>5, <1>6, FeedsMove

LEMMA TakeUnit ==
  ASSUME NEW d \in Unit, SoundUnit(d), d.run = "read", NEW g \in 1..Len(d.feeds), g = Len(d.feeds),
         NEW x \in Feed, x.set = d.feeds[g].set, FedIsThere(d, x), NEW q, q = feedAt(d, g, x),
         NEW v, keepsRest(v, d), v.feeds = q, v.run # "off", v.run = "verdict" => EndReached(d, x)
  PROVE  keepsUnit(v, d)
<1>1. /\ q \in Seq(Feed) /\ Len(q) = Len(d.feeds) /\ q[g] = x /\ \A h \in 1..Len(q) : FedIsThere(d, q[h])
  BY FeedChanges
<1>2. d.started /\ d.feeds[g].set = d.cur
  BY DEF SoundUnit, FeedsCurrent
<1>3. Len(q) > 0 /\ q[Len(q)] = x
  BY <1>1
<1>4. /\ v \in Unit /\ v.have = d.have /\ v.corrupt = d.corrupt /\ v.started = d.started
      /\ v.cur = d.cur /\ v.won = d.won
  BY DEF keepsRest
<1>5. \A h \in 1..Len(v.feeds) : FedIsThere(d, v.feeds[h])
  BY <1>1
<1>6. /\ v.run \in {"entry", "read", "verdict"} => Len(v.feeds) > 0 /\ v.feeds[Len(v.feeds)].set = d.cur
      /\ v.run = "verdict" => EndReached(d, v.feeds[Len(v.feeds)])
  BY <1>2, <1>3
<1> QED BY <1>2, <1>4, <1>5, <1>6, FeedsMove

\* A set is opened: a new feed starts at its first volume.
LEMMA OpenUnit ==
  ASSUME NEW d \in Unit, SoundUnit(d), d.run = "header", NEW x \in Feed, x.set = d.cur, x.vol = 1, x.pc = "look",
         NEW q, q = Append(d.feeds, x), NEW v, keepsRest(v, d), v.feeds = q, v.run = "entry"
  PROVE  keepsUnit(v, d)
<1>1. d.feeds \in Seq(Feed) /\ d.started
  BY DEF Unit, SoundUnit, FeedsCurrent
<1>3. FedIsThere(d, x)
  BY DEF FedIsThere
<1>4. /\ q \in Seq(Feed) /\ Len(q) = Len(d.feeds) + 1 /\ q[Len(q)] = x /\ Len(q) > 0
      /\ \A h \in 1..Len(d.feeds) : q[h] = d.feeds[h]
  BY <1>1
<1>5. \A h \in 1..Len(q) : h \in 1..Len(d.feeds) \/ h = Len(q)
  BY <1>1, <1>4
<1>6. \A h \in 1..Len(v.feeds) : FedIsThere(d, v.feeds[h])
  <2>1. \A h \in 1..Len(d.feeds) : FedIsThere(d, d.feeds[h])
    BY DEF SoundUnit
  <2>2. ASSUME NEW h \in 1..Len(q) PROVE FedIsThere(d, q[h])
    BY <1>3, <1>4, <1>5, <2>1
  <2> QED BY <2>2
<1>7. /\ v \in Unit /\ v.have = d.have /\ v.corrupt = d.corrupt /\ v.started = d.started
      /\ v.cur = d.cur /\ v.won = d.won
  BY DEF keepsRest
<1>8. /\ Len(v.feeds) > 0 /\ v.feeds[Len(v.feeds)].set = d.cur
      /\ v.run # "verdict"
  BY <1>4
<1> QED BY <1>1, <1>6, <1>7, <1>8, FeedsMove

\* A set is won: the decoder or its feed came to the end without an error, and
\* nothing marked it, so every volume of the archive is there and undamaged.
wins(d, w) == [d EXCEPT !.won = w, !.run = "next"]

LEMMA WinUnit ==
  ASSUME NEW d \in Unit, SoundUnit(d), d.run = "verdict", succeeds(d), NEW w, w = d.won \cup {d.cur},
         NEW v, v = wins(d, w)
  PROVE  keepsUnit(v, d)
<1> DEFINE f == d.feeds[Len(d.feeds)]
<1>1. /\ d.feeds \in Seq(Feed) /\ Len(d.feeds) \in 1..Len(d.feeds) /\ f \in Feed /\ f.set = d.cur
      /\ EndReached(d, f) /\ d.cur \in RarSets /\ d.started /\ d.won \subseteq RarSets
  BY DEF Unit, SoundUnit, FeedsCurrent
<1>2. ~f.err /\ d.cur \notin d.corrupt
  BY DEF succeeds, Last
<1>3. FedIsThere(d, f)
  BY <1>1 DEF SoundUnit
<1>4. 1..(f.vol - 1) \subseteq d.have[d.cur] /\ (f.pc = "over" => f.vol - 1 = totalVolumes(d.cur))
  BY <1>1, <1>2, <1>3 DEF FedIsThere
<1>5. ASSUME NEW x \in archiveOf(d.cur) PROVE Volume[x].vol \in d.have[d.cur] /\ x \notin Damaged
  <2>1. /\ x \in RarFiles /\ Volume[x].set = d.cur /\ Volume[x].vol <= EndsAt[d.cur]
        /\ Volume[x].vol \in Nat \ {0}
    BY VolumeAssumption DEF archiveOf
  <2>2. Volume[x].vol <= totalVolumes(d.cur) /\ totalVolumes(d.cur) \in Nat
    BY <1>1, <2>1, LastVolume, RarSetOf
  <2>3. EndsAt[d.cur] \in Nat /\ f.vol \in Nat
    BY <1>1, VolumeAssumption DEF Feed
  <2>4. f.vol > EndsAt[d.cur] \/ f.pc = "over"
    BY <1>1, <1>2 DEF EndReached
  <2>5. Volume[x].vol \in 1..(f.vol - 1)
    BY <1>4, <2>1, <2>2, <2>3, <2>4
  <2>6. Volume[x].vol \in d.have[d.cur]
    BY <1>4, <2>5
  <2> QED BY <1>2, <2>1, <2>6 DEF SoundUnit, MarkedIfDamaged
<1>7. whole(d, d.cur)
  BY <1>5 DEF whole
<1>8. w \in SUBSET RarSets
  BY <1>1
<1>9. /\ v \in Unit /\ v.have = d.have /\ v.corrupt = d.corrupt /\ v.feeds = d.feeds
      /\ v.started = d.started /\ v.cur = d.cur /\ v.won = w /\ v.run = "next"
  BY <1>8 DEF wins, Unit, RunPc
<1>10. MarkedIfDamaged(v)
  BY <1>9 DEF SoundUnit, MarkedIfDamaged
<1>11. \A s \in v.won : whole(v, s)
  BY <1>7, <1>9 DEF SoundUnit, whole
<1>12. \A g \in 1..Len(v.feeds) : FedIsThere(v, v.feeds[g])
  BY <1>9 DEF SoundUnit, FedIsThere
<1>13. FeedsCurrent(v)
  BY <1>1, <1>9 DEF FeedsCurrent
<1> QED BY <1>9, <1>10, <1>11, <1>12, <1>13 DEF keepsUnit, SoundUnit

LEMMA StaysSound ==
  ASSUME NEW d \in Unit, SoundUnit(d), NEW v \in Unit, FeedsCurrent(v),
         v.have = d.have, v.corrupt = d.corrupt, v.feeds = d.feeds, v.won = d.won
  PROVE  keepsUnit(v, d)
<1>1. MarkedIfDamaged(v)
  BY DEF SoundUnit, MarkedIfDamaged
<1>2. \A s \in v.won : whole(v, s)
  BY DEF SoundUnit, whole
<1>3. \A g \in 1..Len(v.feeds) : FedIsThere(v, v.feeds[g])
  BY DEF SoundUnit, FedIsThere
<1> QED BY <1>1, <1>2, <1>3 DEF keepsUnit, SoundUnit

\* The next set of the queue becomes the current one.
turns(d, c, q) == [d EXCEPT !.run = "top", !.cur = c, !.next = q]

LEMMA TurnUnit ==
  ASSUME NEW d \in Unit, SoundUnit(d), d.run = "next", d.next # <<>>, NEW v,
         NEW c, c = Head(d.next), NEW q, q = Tail(d.next), v = turns(d, c, q)
  PROVE  keepsUnit(v, d)
<1>1. d.next \in Seq(RarSets) /\ d.started /\ d.feeds \in Seq(Feed)
  BY DEF Unit, SoundUnit, FeedsCurrent
<1>2. c \in RarSets /\ q \in Seq(RarSets)
  BY <1>1
<1>3. /\ v \in Unit /\ v.have = d.have /\ v.corrupt = d.corrupt /\ v.feeds = d.feeds
      /\ v.started = d.started /\ v.cur = c /\ v.won = d.won /\ v.run = "top"
  BY <1>2 DEF turns, Unit, RunPc
<1>4. FeedsCurrent(v)
  BY <1>1, <1>2, <1>3 DEF FeedsCurrent
<1> QED BY <1>3, <1>4, StaysSound

-----------------------------------------------------------------------------
(* The steps of an unpacker's goroutines.                                    *)

LEMMA UnitAt ==
  ASSUME UnpackIInv, NEW i \in 1..Len(units)
  PROVE  /\ units \in Seq(Unit) /\ units[i] \in Unit /\ SoundUnit(units[i]) /\ FeedsCurrent(units[i])
         /\ units[i].feeds \in Seq(Feed)
<1>1. units \in Seq(Unit) /\ units[i] \in Unit /\ SoundUnit(units[i])
  BY DEF UnpackIInv, UnpackTypeOK
<1> QED BY <1>1 DEF SoundUnit, Unit

LEMMA RunStep ==
  ASSUME UnpackIInv, NEW i \in 1..Len(units), NEW v \in Unit, becomes(i, v), UNCHANGED others,
         sameFeeds(v, units[i]), units[i].run # "off",
         v.run \in {"entry", "read", "verdict"} => units[i].run \in {"entry", "read", "verdict"},
         v.run = "verdict" => units[i].feeds[Len(units[i].feeds)].pc = "over"
  PROVE  UnpackIInv'
<1>1. units[i] \in Unit /\ SoundUnit(units[i]) /\ units[i].started
  BY UnitAt DEF FeedsCurrent
<1>2. keepsUnit(v, units[i])
  BY <1>1, RunMoves DEF EndReached
<1> QED BY <1>2, OwnStep

\* The goroutine only moves on.
LEMMA RunGoes ==
  ASSUME UnpackIInv, NEW i \in 1..Len(units), NEW r \in RunPc, becomes(i, runs(units[i], r)), UNCHANGED others,
         units[i].run # "off",
         r \in {"entry", "read", "verdict"} => units[i].run \in {"entry", "read", "verdict"},
         r = "verdict" => units[i].feeds[Len(units[i].feeds)].pc = "over"
  PROVE  UnpackIInv'
<1>1. units[i] \in Unit
  BY UnitAt
<1>2. runs(units[i], r) \in Unit /\ sameFeeds(runs(units[i], r), units[i]) /\ runs(units[i], r).run = r
  BY <1>1, RunForm
<1> QED BY <1>2, RunStep

LEMMA RunTopInv == ASSUME UnpackIInv, NEW i \in 1..Len(units), RunTop(i) PROVE UnpackIInv'
<1>1. PICK r, b : /\ r = (IF units[i].killed THEN "ended" ELSE "first") /\ b = units[i].killed
  OBVIOUS
<1>2. units[i] \in Unit
  BY UnitAt
<1>3. r \in RunPc /\ b \in BOOLEAN /\ r \notin {"entry", "read", "verdict"}
  BY <1>1, <1>2 DEF RunPc, Unit
<1>4. becomes(i, ends(units[i], r, b)) /\ UNCHANGED others /\ units[i].run # "off"
  BY <1>1 DEF RunTop, ends
<1>5. /\ ends(units[i], r, b) \in Unit /\ sameFeeds(ends(units[i], r, b), units[i])
      /\ ends(units[i], r, b).run = r
  BY <1>2, <1>3, EndForm
<1> QED BY <1>3, <1>4, <1>5, RunStep

LEMMA RunFirstInv == ASSUME UnpackIInv, NEW i \in 1..Len(units), RunFirst(i) PROVE UnpackIInv'
<1>1. PICK seen : seen = volumeState(units[i], units[i].cur, 1)
  OBVIOUS
<1>2. PICK r : r = CASE seen = "ready" -> "header" [] seen = "absent" -> "parked" [] OTHER -> "lost"
  OBVIOUS
<1>3. r \in {"header", "parked", "lost"}
  BY <1>2
<1>4. r \in RunPc /\ r \notin {"entry", "read", "verdict"}
  BY <1>3 DEF RunPc
<1>5. becomes(i, runs(units[i], r)) /\ UNCHANGED others /\ units[i].run # "off"
  BY <1>1, <1>2 DEF RunFirst, runs
<1> QED BY <1>4, <1>5, RunGoes

LEMMA RunWakesInv == ASSUME UnpackIInv, NEW i \in 1..Len(units), RunWakes(i) PROVE UnpackIInv'
<1>1. UNCHANGED others /\ units[i].run # "off"
  BY DEF RunWakes
<1>2. CASE becomes(i, [units[i] EXCEPT !.ready = FALSE, !.run = "first"])
  <2>1. PICK r, b : r = "first" /\ b = FALSE
    OBVIOUS
  <2>2. r \in RunPc /\ b \in BOOLEAN /\ r \notin {"entry", "read", "verdict"}
    BY <2>1 DEF RunPc
  <2>3. becomes(i, woken(units[i], r, b))
    BY <1>2, <2>1 DEF woken
  <2>4. units[i] \in Unit
    BY UnitAt
  <2>5. /\ woken(units[i], r, b) \in Unit /\ sameFeeds(woken(units[i], r, b), units[i])
        /\ woken(units[i], r, b).run = r
    BY <2>2, <2>4, WokenForm
  <2> QED BY <1>1, <2>2, <2>3, <2>5, RunStep
<1>3. CASE becomes(i, [units[i] EXCEPT !.run = "lost"])
  <2>1. PICK r : r = "lost"
    OBVIOUS
  <2>2. r \in RunPc /\ r \notin {"entry", "read", "verdict"}
    BY <2>1 DEF RunPc
  <2>3. becomes(i, runs(units[i], r))
    BY <1>3, <2>1 DEF runs
  <2> QED BY <1>1, <2>2, <2>3, RunGoes
<1> QED BY <1>2, <1>3 DEF RunWakes

LEMMA NextEntryInv == ASSUME UnpackIInv, NEW i \in 1..Len(units), NextEntry(i) PROVE UnpackIInv'
<1>1. PICK r : r = (IF closing \/ units[i].killed THEN "lost" ELSE "read")
  OBVIOUS
<1>2. r \in RunPc /\ r # "verdict"
  BY <1>1 DEF RunPc
<1>3. becomes(i, runs(units[i], r)) /\ UNCHANGED others /\ units[i].run = "entry"
  BY <1>1 DEF NextEntry, runs
<1> QED BY <1>2, <1>3, RunGoes

LEMMA NoVolumeInv == ASSUME UnpackIInv, NEW i \in 1..Len(units), NoVolume(i) PROVE UnpackIInv'
<1>1. PICK r \in {"verdict", "lost"} : becomes(i, [units[i] EXCEPT !.run = r])
  BY DEF NoVolume
<1>2. r \in RunPc
  BY DEF RunPc
<1>3. /\ becomes(i, runs(units[i], r)) /\ UNCHANGED others /\ units[i].run = "read"
      /\ units[i].feeds[Len(units[i].feeds)].pc = "over"
  BY <1>1 DEF NoVolume, runs, Last
<1> QED BY <1>2, <1>3, RunGoes

LEMMA SetLostInv == ASSUME UnpackIInv, NEW i \in 1..Len(units), SetLost(i) PROVE UnpackIInv'
<1>1. units[i] \in Unit /\ units[i].cur \in RarSets /\ UNCHANGED others /\ units[i].run # "off"
  BY UnitAt DEF SetLost, FeedsCurrent
<1>2. PICK x, y : /\ x = IF ~units[i].killed /\ units[i].run = "lost" THEN units[i].failed \cup {units[i].cur}
                                                                  ELSE units[i].failed
                  /\ y = IF ~units[i].killed /\ units[i].run = "skip" THEN units[i].skipped \cup {units[i].cur}
                                                                  ELSE units[i].skipped
  OBVIOUS
<1>3. x \in SUBSET RarSets /\ y \in SUBSET RarSets
  BY <1>1, <1>2 DEF Unit
<1>4. becomes(i, loses(units[i], x, y))
  BY <1>2 DEF SetLost, loses
<1>5. /\ loses(units[i], x, y) \in Unit /\ sameFeeds(loses(units[i], x, y), units[i])
      /\ loses(units[i], x, y).run = "next"
  BY <1>1, <1>3, LosesForm
<1> QED BY <1>1, <1>4, <1>5, RunStep

LEMMA OpenSetInv == ASSUME UnpackIInv, NEW i \in 1..Len(units), OpenSet(i) PROVE UnpackIInv'
<1>1. /\ units[i] \in Unit /\ SoundUnit(units[i]) /\ units[i].cur \in RarSets /\ units[i].feeds \in Seq(Feed)
      /\ UNCHANGED others /\ units[i].run = "header"
  BY UnitAt DEF OpenSet, FeedsCurrent
<1>2. CASE units[i].cur \in NotRar
  <2>1. PICK r : r = "skip"
    OBVIOUS
  <2>2. r \in RunPc /\ r \notin {"entry", "read", "verdict"}
    BY <2>1 DEF RunPc
  <2>3. becomes(i, runs(units[i], r))
    BY <1>2, <2>1 DEF OpenSet, runs
  <2> QED BY <1>1, <2>2, <2>3, RunGoes
<1>3. CASE units[i].cur \notin NotRar
  <2>1. PICK x : x = [set |-> units[i].cur, vol |-> 1, pc |-> "look", err |-> FALSE]
    OBVIOUS
  <2>2. x \in Feed /\ x.set = units[i].cur /\ x.vol = 1 /\ x.pc = "look"
    BY <1>1, <2>1 DEF Feed
  <2>3. PICK q, r : q = Append(units[i].feeds, x) /\ r = "entry"
    OBVIOUS
  <2>4. q \in Seq(Feed) /\ r \in RunPc
    BY <1>1, <2>2, <2>3 DEF RunPc
  <2>5. becomes(i, fed(units[i], r, q))
    BY <1>3, <2>1, <2>3 DEF OpenSet, fed
  <2>6. PICK v : v = fed(units[i], r, q)
    OBVIOUS
  <2>7. keepsRest(v, units[i]) /\ v.run = r /\ v.feeds = q
    BY <1>1, <2>4, <2>6, FedForm
  <2>8. keepsUnit(v, units[i])
    BY <1>1, <2>2, <2>3, <2>7, OpenUnit
  <2> QED BY <1>1, <2>5, <2>6, <2>8, OwnStep
<1> QED BY <1>2, <1>3

LEMMA VerdictInv == ASSUME UnpackIInv, NEW i \in 1..Len(units), Verdict(i) PROVE UnpackIInv'
<1>1. units[i] \in Unit /\ SoundUnit(units[i]) /\ UNCHANGED others /\ units[i].run = "verdict"
  BY UnitAt DEF Verdict
<1>2. CASE succeeds(units[i])
  <2>1. PICK w : w = units[i].won \cup {units[i].cur}
    OBVIOUS
  <2>2. PICK v : v = wins(units[i], w)
    OBVIOUS
  <2>3. becomes(i, v)
    BY <1>2, <2>1, <2>2 DEF Verdict, wins
  <2>4. keepsUnit(v, units[i])
    BY <1>1, <1>2, <2>1, <2>2, WinUnit
  <2> QED BY <1>1, <2>3, <2>4, OwnStep
<1>3. CASE ~succeeds(units[i])
  <2>1. PICK r : r = "lost"
    OBVIOUS
  <2>2. r \in RunPc /\ r \notin {"entry", "read", "verdict"}
    BY <2>1 DEF RunPc
  <2>3. becomes(i, runs(units[i], r))
    BY <1>3, <2>1 DEF Verdict, runs
  <2> QED BY <1>1, <2>2, <2>3, RunGoes
<1> QED BY <1>2, <1>3

LEMMA NextSetInv == ASSUME UnpackIInv, NEW i \in 1..Len(units), NextSet(i) PROVE UnpackIInv'
<1>1. units[i] \in Unit /\ SoundUnit(units[i]) /\ UNCHANGED others /\ units[i].run = "next"
  BY UnitAt DEF NextSet
<1>2. CASE units[i].killed \/ units[i].next = <<>>
  <2>1. PICK r, b : r = "ended" /\ b = TRUE
    OBVIOUS
  <2>2. r \in RunPc /\ b \in BOOLEAN /\ r \notin {"entry", "read", "verdict"}
    BY <2>1 DEF RunPc
  <2>3. becomes(i, ends(units[i], r, b))
    BY <1>2, <2>1 DEF NextSet, ends
  <2>4. /\ ends(units[i], r, b) \in Unit /\ sameFeeds(ends(units[i], r, b), units[i])
        /\ ends(units[i], r, b).run = r
    BY <1>1, <2>2, EndForm
  <2> QED BY <1>1, <2>2, <2>3, <2>4, RunStep
<1>3. CASE ~(units[i].killed \/ units[i].next = <<>>)
  <2>1. PICK c, q : c = Head(units[i].next) /\ q = Tail(units[i].next)
    OBVIOUS
  <2>2. PICK v : v = turns(units[i], c, q)
    OBVIOUS
  <2>3. becomes(i, v)
    BY <1>3, <2>1, <2>2 DEF NextSet, turns
  <2>4. keepsUnit(v, units[i])
    BY <1>1, <1>3, <2>1, <2>2, TurnUnit
  <2> QED BY <1>1, <2>3, <2>4, OwnStep
<1> QED BY <1>2, <1>3

LEMMA TakeVolumeInv == ASSUME UnpackIInv, NEW i \in 1..Len(units), TakeVolume(i) PROVE UnpackIInv'
<1>1. PICK d, g : d = units[i] /\ g = Len(units[i].feeds)
  OBVIOUS
<1>2. PICK f : f = d.feeds[g]
  OBVIOUS
<1>3. /\ d \in Unit /\ SoundUnit(d) /\ FeedsCurrent(d) /\ d.feeds \in Seq(Feed) /\ UNCHANGED others
      /\ d.run = "read" /\ f.pc = "send"
  BY <1>1, <1>2, UnitAt DEF TakeVolume
<1>4. g \in 1..Len(d.feeds) /\ g = Len(d.feeds)
  BY <1>1, <1>3 DEF FeedsCurrent
<1>5. f \in Feed /\ FedIsThere(d, f)
  BY <1>2, <1>3, <1>4 DEF SoundUnit
<1>6. PICK p, n : p = (IF f.vol = totalVolumes(f.set) THEN "over" ELSE "look") /\ n = f.vol + 1
  OBVIOUS
<1>7. p \in {"look", "over"} /\ p \in {"look", "send", "parked", "over"} /\ n \in Nat \ {0}
      /\ (p = "over" => f.vol = totalVolumes(f.set))
  BY <1>5, <1>6 DEF Feed
<1>8. PICK x : x = feedTakes(f, p, n)
  OBVIOUS
<1>9. x \in Feed /\ x.set = f.set /\ x.vol = n /\ x.pc = p
  BY <1>5, <1>7, <1>8 DEF Feed, feedTakes
<1>10. FedIsThere(d, x)
  BY <1>3, <1>5, <1>6, <1>7, <1>9, FeedGives
<1>11. PICK q : q = feedAt(d, g, x)
  OBVIOUS
<1>12. q \in Seq(Feed)
  BY <1>2, <1>3, <1>4, <1>9, <1>10, <1>11, FeedChanges
<1>13. PICK r \in RunPc : /\ r # "off" /\ (r = "verdict" => f.vol = EndsAt[f.set] \/ f.set \in d.corrupt)
                          /\ becomes(i, [d EXCEPT !.run = r, !.feeds[g] = [f EXCEPT !.pc = p, !.vol = @ + 1]])
  BY <1>1, <1>2, <1>6 DEF TakeVolume, RunPc, decoded
<1>14. PICK v : v = fed(d, r, q)
  OBVIOUS
<1>15. becomes(i, v)
  <2>1. [f EXCEPT !.pc = p, !.vol = @ + 1] = x
    BY <1>2, <1>5, <1>6, <1>8 DEF feedTakes
  <2>2. [d EXCEPT !.run = r, !.feeds[g] = [f EXCEPT !.pc = p, !.vol = @ + 1]] = [d EXCEPT !.run = r, !.feeds[g] = x]
    BY <2>1
  <2>3. [d EXCEPT !.run = r, !.feeds[g] = x] = v
    BY <1>11, <1>14 DEF fed, feedAt
  <2> QED BY <1>13, <2>2, <2>3
<1>16. keepsRest(v, d) /\ v.run = r /\ v.feeds = q
  BY <1>3, <1>12, <1>14, FedForm
<1>18. r = "verdict" => EndReached(d, x)
  <2>1. f.vol \in Nat /\ EndsAt[f.set] \in Nat
    BY <1>5, VolumeAssumption DEF Feed
  <2> QED BY <1>6, <1>9, <1>13, <2>1 DEF EndReached
<1>17. keepsUnit(v, d)
  BY <1>2, <1>3, <1>4, <1>9, <1>10, <1>11, <1>13, <1>16, <1>18, TakeUnit
<1> QED BY <1>1, <1>3, <1>15, <1>17, OwnStep

\* One feed of an unpacker moves.
LEMMA FeedStays ==
  ASSUME UnpackIInv, NEW i \in 1..Len(units), NEW d, d = units[i], NEW g \in 1..Len(d.feeds), NEW x \in Feed,
         x.set = d.feeds[g].set, x.vol = d.feeds[g].vol, FedIsThere(d, x), d.feeds[g].pc # "over",
         UNCHANGED others, NEW b \in BOOLEAN,
         becomes(i, fedOnly(d, feedAt(d, g, x))) \/ becomes(i, fedAwake(d, b, feedAt(d, g, x)))
  PROVE  UnpackIInv'
<1>1. d \in Unit /\ SoundUnit(d)
  BY UnitAt
<1>2. PICK q : q = feedAt(d, g, x)
  OBVIOUS
<1>3. q \in Seq(Feed)
  BY <1>1, <1>2, FeedChanges
<1>4. PICK v : becomes(i, v) /\ (v = fedOnly(d, q) \/ v = fedAwake(d, b, q))
  BY <1>2
<1>5. keepsRest(v, d) /\ v.run = d.run /\ v.feeds = q
  BY <1>1, <1>3, <1>4, FedOnlyForm, FedAwakeForm
<1>6. keepsUnit(v, d)
  BY <1>1, <1>2, <1>5, FeedUnit
<1> QED BY <1>4, <1>6, OwnStep

LEMMA FeedStepInv ==
  ASSUME UnpackIInv, NEW i \in 1..Len(units), NEW g \in 1..Len(units[i].feeds), FeedStep(i, g)
  PROVE  UnpackIInv'
<1>1. PICK d : d = units[i]
  OBVIOUS
<1>2. PICK f : f = d.feeds[g]
  OBVIOUS
<1>3. d \in Unit /\ SoundUnit(d) /\ d.feeds \in Seq(Feed) /\ UNCHANGED others /\ g \in 1..Len(d.feeds)
  BY <1>1, UnitAt DEF FeedStep
<1>4. f \in Feed /\ FedIsThere(d, f)
  BY <1>2, <1>3 DEF SoundUnit
<1>5. ASSUME NEW p \in {"look", "send", "parked", "over"}, NEW e \in BOOLEAN, f.pc # "over",
             p = "send" => f.vol \in d.have[f.set], p = "over" => e = TRUE,
             becomes(i, [d EXCEPT !.feeds[g] = [@ EXCEPT !.pc = p, !.err = e]])
      PROVE  UnpackIInv'
  <2>1. PICK x : x = feedMoves(f, p, e)
    OBVIOUS
  <2>2. x \in Feed /\ x.set = f.set /\ x.vol = f.vol /\ x.pc = p /\ x.err = e
    BY <1>4, <1>5, <2>1 DEF Feed, feedMoves
  <2>3. p = "over" => x.err
    BY <1>5, <2>2
  <2>4. FedIsThere(d, x)
    BY <1>3, <1>4, <1>5, <2>2, <2>3, FeedGoes
  <2>5. becomes(i, fedOnly(d, feedAt(d, g, x)))
    BY <1>2, <1>5, <2>1 DEF fedOnly, feedAt, feedMoves
  <2> QED BY <1>1, <1>2, <1>3, <1>5, <2>2, <2>4, <2>5, FeedStays
<1>6. CASE f.pc = "look" /\ becomes(i, [d EXCEPT !.feeds[g] = [@ EXCEPT
               !.pc = CASE volumeState(d, f.set, f.vol) = "ready"  -> "send"
                        [] volumeState(d, f.set, f.vol) = "absent" -> "parked"
                        [] OTHER -> "over",
               !.err = (volumeState(d, f.set, f.vol) = "stop")]])
  <2>1. PICK m : m = volumeState(d, f.set, f.vol)
    OBVIOUS
  <2>2. m \in {"stop", "ready", "absent"} /\ (m = "ready" => f.vol \in d.have[f.set])
    BY <2>1 DEF volumeState
  <2>3. PICK p, e : p = (CASE m = "ready" -> "send" [] m = "absent" -> "parked" [] OTHER -> "over")
                    /\ e = (m = "stop")
    OBVIOUS
  <2>4. p \in {"look", "send", "parked", "over"} /\ (p = "send" => m = "ready") /\ (p = "over" => m = "stop")
    BY <2>2, <2>3
  <2>5. e \in BOOLEAN /\ (p = "over" => e = TRUE)
    BY <2>3, <2>4
  <2>6. becomes(i, [d EXCEPT !.feeds[g] = [@ EXCEPT !.pc = p, !.err = e]])
    BY <1>6, <2>1, <2>3
  <2> QED BY <1>5, <1>6, <2>2, <2>4, <2>5, <2>6
<1>7. CASE f.pc = "parked" /\ becomes(i, [d EXCEPT !.ready = FALSE, !.feeds[g].pc = "look"])
  <2>1. PICK p, b : p = "look" /\ b = FALSE
    OBVIOUS
  <2>2. PICK x : x = feedLooks(f, p)
    OBVIOUS
  <2>3. x \in Feed /\ x.set = f.set /\ x.vol = f.vol /\ FedIsThere(d, x)
    BY <1>3, <1>4, <2>1, <2>2, FeedWakes
  <2>4. becomes(i, fedAwake(d, b, feedAt(d, g, x)))
    BY <1>2, <1>7, <2>1, <2>2 DEF fedAwake, feedAt, feedLooks
  <2>5. b \in BOOLEAN
    BY <2>1
  <2> QED BY <1>1, <1>2, <1>3, <1>7, <2>3, <2>4, <2>5, FeedStays
<1>8. CASE f.pc \in {"look", "parked", "send"} /\ becomes(i, [d EXCEPT !.feeds[g] = [@ EXCEPT !.pc = "over", !.err = TRUE]])
  <2>1. PICK p, e : p = "over" /\ e = TRUE
    OBVIOUS
  <2>2. p \in {"look", "send", "parked", "over"} /\ e \in BOOLEAN /\ p # "send"
    BY <2>1
  <2>3. becomes(i, [d EXCEPT !.feeds[g] = [@ EXCEPT !.pc = p, !.err = e]])
    BY <1>8, <2>1
  <2> QED BY <1>5, <1>8, <2>1, <2>2, <2>3
<1> QED BY <1>1, <1>2, <1>6, <1>7, <1>8 DEF FeedStep

LEMMA RunStepsInv == ASSUME UnpackIInv, NEW i \in 1..Len(units), RunSteps(i) PROVE UnpackIInv'
BY RunTopInv, RunFirstInv, RunWakesInv, OpenSetInv, NextEntryInv, TakeVolumeInv, NoVolumeInv, VerdictInv,
   SetLostInv, NextSetInv DEF RunSteps

-----------------------------------------------------------------------------
(* The watcher, post-processing and whoever aborts.                          *)

\* A step that leaves every unpacker as it is.
LEMMA UnitsRest ==
  ASSUME UnpackIInv, units' = units, registered' \in 0..Len(units),
         watcher' \in [pc : {"idle", "look", "admit", "mark", "add", "signal"},
                       file : SUBSET RarFiles, unit : 0..Len(units)],
         post' \in [pc : {"none", "due", "wait", "blocked", "aborted", "posted", "dropped"},
                    unit : 0..Len(units), sets : SUBSET RarSets],
         MarkedThenAdded', KeepsToItsUnit', HandedIsWhole'
  PROVE  UnpackIInv'
BY DEF UnpackIInv, UnpackTypeOK

\* A step of post-processing: it keeps what it has or takes what was won.
LEMMA CollectorStep ==
  ASSUME UnpackIInv, units' = units, watcher' = watcher, registered' \in 0..Len(units),
         post' \in [pc : {"none", "due", "wait", "blocked", "aborted", "posted", "dropped"},
                    unit : 0..Len(units), sets : SUBSET RarSets],
         KeepsToItsUnit',
         \/ post'.sets = post.sets /\ post'.unit = post.unit
         \/ post'.sets = {}
         \/ post'.unit # 0 /\ post'.sets = units[post'.unit].won
  PROVE  UnpackIInv'
<1>1. MarkedThenAdded'
  BY DEF UnpackIInv, MarkedThenAdded
<1>2. HandedIsWhole'
  <2>1. CASE post'.sets = post.sets /\ post'.unit = post.unit
    BY <2>1 DEF UnpackIInv, HandedIsWhole
  <2>2. CASE post'.sets = {}
    BY <2>2 DEF HandedIsWhole
  <2>3. CASE post'.unit # 0 /\ post'.sets = units[post'.unit].won
    <3>1. post'.unit \in 1..Len(units)
      BY <2>3 DEF UnpackIInv, UnpackTypeOK
    <3>2. SoundUnit(units[post'.unit])
      BY <3>1 DEF UnpackIInv
    <3> QED BY <2>3, <3>2 DEF SoundUnit, whole, HandedIsWhole
  <2> QED BY <2>1, <2>2, <2>3
<1> QED BY <1>1, <1>2, UnitsRest DEF UnpackIInv, UnpackTypeOK

LEMMA FileDoneInv == ASSUME UnpackIInv, NEW f \in RarFiles, FileDone(f) PROVE UnpackIInv'
<1>1. units' = units /\ registered' = registered /\ registered \in 0..Len(units) /\ Len(units) \in Nat
  BY DEF FileDone, UnpackIInv, UnpackTypeOK
<1>2. watcher' = [pc |-> "look", file |-> {f}, unit |-> 0]
  BY DEF FileDone
<1>3. watcher' \in [pc : {"idle", "look", "admit", "mark", "add", "signal"},
                    file : SUBSET RarFiles, unit : 0..Len(units)]
  BY <1>1, <1>2
<1>4. MarkedThenAdded'
  BY <1>2 DEF MarkedThenAdded
<1>5. \/ post' = post
      \/ post.pc = "none" /\ post' = [post EXCEPT !.pc = "due"]
  BY DEF FileDone
<1>6. /\ post' \in [pc : {"none", "due", "wait", "blocked", "aborted", "posted", "dropped"},
                    unit : 0..Len(units), sets : SUBSET RarSets]
      /\ post'.sets = post.sets /\ post'.unit = post.unit
      /\ post'.pc = post.pc \/ (post.pc = "none" /\ post'.pc = "due")
  BY <1>5 DEF UnpackIInv, UnpackTypeOK
<1>7. KeepsToItsUnit'
  BY <1>6 DEF UnpackIInv, KeepsToItsUnit
<1>8. HandedIsWhole'
  BY <1>1, <1>6 DEF UnpackIInv, HandedIsWhole
<1> QED BY <1>1, <1>3, <1>4, <1>6, <1>7, <1>8, UnitsRest

\* The watcher moves, and what it refers to stays.
LEMMA WatcherOnly ==
  ASSUME UnpackIInv, units' = units, registered' = registered, post' = post,
         watcher' \in [pc : {"idle", "look", "admit", "mark", "add", "signal"},
                       file : SUBSET RarFiles, unit : 0..Len(units)],
         MarkedThenAdded'
  PROVE  UnpackIInv'
<1>1. KeepsToItsUnit' /\ HandedIsWhole'
  BY DEF UnpackIInv, KeepsToItsUnit, HandedIsWhole
<1> QED BY <1>1, UnitsRest DEF UnpackIInv, UnpackTypeOK

LEMMA WatcherResting ==
  ASSUME UnpackIInv, WatcherRests
  PROVE  /\ watcher' \in [pc : {"idle", "look", "admit", "mark", "add", "signal"},
                          file : SUBSET RarFiles, unit : 0..Len(units)]
         /\ MarkedThenAdded'
<1>1. watcher' = [pc |-> "idle", file |-> {}, unit |-> 0] /\ Len(units) \in Nat
  BY DEF WatcherRests, UnpackIInv, UnpackTypeOK
<1>2. MarkedThenAdded'
  BY <1>1 DEF MarkedThenAdded
<1> QED BY <1>1, <1>2

LEMMA SameUnits ==
  ASSUME UnpackIInv, units' = units, watcher' = watcher, post' = post, registered' \in 0..Len(units)
  PROVE  UnpackIInv'
<1>1. MarkedThenAdded' /\ KeepsToItsUnit' /\ HandedIsWhole'
  BY DEF UnpackIInv, MarkedThenAdded, KeepsToItsUnit, HandedIsWhole
<1> QED BY <1>1, UnitsRest DEF UnpackIInv, UnpackTypeOK

LEMMA LooksInv == ASSUME UnpackIInv, Looks PROVE UnpackIInv'
<1>1. units' = units /\ registered' = registered /\ post' = post
  BY DEF Looks
<1>2. CASE WatcherRests
  BY <1>1, <1>2, WatcherResting, WatcherOnly
<1>3. CASE watcher' = [watcher EXCEPT !.pc = "admit"]
  <2>1. /\ watcher' \in [pc : {"idle", "look", "admit", "mark", "add", "signal"},
                         file : SUBSET RarFiles, unit : 0..Len(units)]
        /\ watcher'.pc = "admit" /\ watcher'.file = watcher.file
    BY <1>3 DEF UnpackIInv, UnpackTypeOK
  <2>2. MarkedThenAdded'
    BY <2>1 DEF UnpackIInv, MarkedThenAdded
  <2> QED BY <1>1, <2>1, <2>2, WatcherOnly
<1> QED BY <1>2, <1>3 DEF Looks

LEMMA NewUnit == New \in Unit /\ SoundUnit(New)
<1>1. PICK v : v = New
  OBVIOUS
<1>2. <<>> \in Seq(RarSets) /\ <<>> \in Seq(Feed) /\ [s \in RarSets |-> {}] \in [RarSets -> SUBSET Nat]
  OBVIOUS
<1>3. v \in Unit
  BY <1>1, <1>2 DEF New, Unit, RunPc
<1>4. /\ \A s \in RarSets : v.have[s] = {}
      /\ v.won = {} /\ v.feeds = <<>> /\ v.run = "off" /\ v.started = FALSE
  BY <1>1 DEF New
<1>5. MarkedIfDamaged(v)
  <2>1. \A f \in RarFiles : v.have[Volume[f].set] = {}
    BY <1>4, RarSetOf
  <2> QED BY <1>4, <2>1 DEF MarkedIfDamaged
<1>6. FeedsCurrent(v)
  BY <1>4 DEF FeedsCurrent
<1>7. SoundUnit(v)
  BY <1>4, <1>5, <1>6 DEF SoundUnit
<1> QED BY <1>1, <1>3, <1>7

LEMMA AdmitInv == ASSUME UnpackIInv, Admit PROVE UnpackIInv'
<1>1. /\ post' = post /\ watcher.pc = "admit" /\ units \in Seq(Unit) /\ Len(units) \in Nat
      /\ registered \in 0..Len(units)
  BY DEF Admit, UnpackIInv, UnpackTypeOK
<1>2. CASE WatcherRests /\ UNCHANGED <<units, registered>>
  BY <1>1, <1>2, WatcherResting, WatcherOnly
<1>3. CASE registered # 0 /\ watcher' = [watcher EXCEPT !.pc = "mark", !.unit = registered]
           /\ UNCHANGED <<units, registered>>
  <2>1. /\ watcher' \in [pc : {"idle", "look", "admit", "mark", "add", "signal"},
                         file : SUBSET RarFiles, unit : 0..Len(units)]
        /\ watcher'.pc = "mark" /\ watcher'.file = watcher.file /\ watcher'.unit # 0
    BY <1>3 DEF UnpackIInv, UnpackTypeOK
  <2>2. MarkedThenAdded'
    BY <2>1 DEF UnpackIInv, MarkedThenAdded
  <2> QED BY <1>1, <1>3, <2>1, <2>2, WatcherOnly
<1>4. CASE units' = Append(units, New) /\ registered' = Len(units) + 1
           /\ watcher' = [watcher EXCEPT !.pc = "mark", !.unit = registered']
  <2>1. /\ units' \in Seq(Unit) /\ Len(units') = Len(units) + 1 /\ units'[Len(units')] = New
        /\ \A k \in 1..Len(units) : units'[k] = units[k]
    BY <1>1, <1>4, NewUnit
  <2>2. ASSUME NEW k \in 1..Len(units) PROVE keepsUnit(units'[k], units[k])
    BY <2>1, UnitAt DEF keepsUnit
  <2>3. ASSUME NEW k \in 1..Len(units') PROVE SoundUnit(units'[k])
    <3>1. CASE k = Len(units')
      BY <2>1, <3>1, NewUnit
    <3>2. CASE k # Len(units')
      <4>1. k \in 1..Len(units)
        BY <1>1, <2>1, <3>2
      <4> QED BY <2>2, <4>1 DEF keepsUnit
    <3> QED BY <3>1, <3>2
  <2>4. KeepsToItsUnit' /\ HandedIsWhole'
    BY <1>1, <2>1, <2>2, <2>3, UnitsKeep
  <2>5. registered' \in 1..Len(units')
    BY <1>1, <1>4, <2>1
  <2>6. PICK u : u = registered'
    OBVIOUS
  <2>7. /\ watcher' \in [pc : {"idle", "look", "admit", "mark", "add", "signal"},
                         file : SUBSET RarFiles, unit : 0..Len(units')]
        /\ watcher'.pc = "mark" /\ watcher'.file = watcher.file /\ watcher'.unit # 0
    <3>1. watcher' = [watcher EXCEPT !.pc = "mark", !.unit = u] /\ u \in 0..Len(units') /\ u # 0
      BY <1>4, <2>5, <2>6
    <3> QED BY <3>1 DEF UnpackIInv, UnpackTypeOK
  <2>8. MarkedThenAdded'
    BY <2>7 DEF UnpackIInv, MarkedThenAdded
  <2>9. post' \in [pc : {"none", "due", "wait", "blocked", "aborted", "posted", "dropped"},
                   unit : 0..Len(units'), sets : SUBSET RarSets]
    <3>1. post \in [pc : {"none", "due", "wait", "blocked", "aborted", "posted", "dropped"},
                    unit : 0..Len(units), sets : SUBSET RarSets]
      BY DEF UnpackIInv, UnpackTypeOK
    <3>2. 0..Len(units) \subseteq 0..Len(units')
      BY <1>1, <2>1
    <3> QED BY <1>1, <3>1, <3>2
  <2>10. UnpackTypeOK'
    BY <2>1, <2>5, <2>7, <2>9 DEF UnpackTypeOK
  <2> QED BY <2>3, <2>4, <2>8, <2>10 DEF UnpackIInv
<1> QED BY <1>2, <1>3, <1>4 DEF Admit

LEMMA WatcherAt ==
  ASSUME UnpackIInv, watcher.pc \in {"mark", "add", "signal"}
  PROVE  watcher.unit \in 1..Len(units) /\ watcher.file \subseteq RarFiles /\ \A f, g \in watcher.file : f = g
BY DEF UnpackIInv, UnpackTypeOK, MarkedThenAdded

LEMMA MarksInv == ASSUME UnpackIInv, Marks PROVE UnpackIInv'
<1>1. /\ watcher.pc = "mark" /\ watcher' = [watcher EXCEPT !.pc = "add"] /\ post' = post
      /\ registered' = registered
  BY DEF Marks
<1>2. PICK u : u = watcher.unit
  OBVIOUS
<1>3. u \in 1..Len(units) /\ watcher.file \subseteq RarFiles /\ \A f, g \in watcher.file : f = g
  BY <1>1, <1>2, WatcherAt
<1>4. PICK f \in watcher.file : IF f \in Damaged THEN becomes(u, MarkCorrupt(units[u], Volume[f].set))
                                                  ELSE UNCHANGED units
  BY <1>2 DEF Marks
<1>5. /\ watcher' \in [pc : {"idle", "look", "admit", "mark", "add", "signal"},
                       file : SUBSET RarFiles, unit : 0..Len(units)]
      /\ watcher'.pc = "add" /\ watcher'.file = watcher.file /\ watcher'.unit = u
  BY <1>1, <1>2 DEF UnpackIInv, UnpackTypeOK
<1>6. u # 0
  BY <1>3
<1>7. CASE f \in Damaged
  <2>1. units \in Seq(Unit) /\ units[u] \in Unit /\ SoundUnit(units[u])
    BY <1>3, UnitAt
  <2>2. Volume[f].set \in RarSets
    BY <1>3, RarSetOf
  <2>3. PICK v : v = MarkCorrupt(units[u], Volume[f].set)
    OBVIOUS
  <2>4. keepsUnit(v, units[u]) /\ v.corrupt = units[u].corrupt \cup {Volume[f].set}
    BY <2>1, <2>2, <2>3, MarkUnit
  <2>5. becomes(u, v)
    BY <1>4, <1>7, <2>3
  <2>6. units'[u] = v
    BY <1>3, <2>1, <2>4, <2>5, UnitSet DEF keepsUnit
  <2>7. MarkedThenAdded'
    BY <1>3, <1>5, <1>6, <2>4, <2>6 DEF MarkedThenAdded
  <2> QED BY <1>1, <1>3, <1>5, <2>4, <2>5, <2>7, UnitStep
<1>8. CASE f \notin Damaged
  <2>1. units' = units
    BY <1>4, <1>8
  <2>2. MarkedThenAdded'
    BY <1>3, <1>4, <1>5, <1>6, <1>8 DEF MarkedThenAdded
  <2> QED BY <1>1, <1>5, <2>1, <2>2, WatcherOnly
<1> QED BY <1>7, <1>8

LEMMA AddsInv == ASSUME UnpackIInv, Adds PROVE UnpackIInv'
<1>1. watcher.pc = "add" /\ post' = post /\ registered' = registered
  BY DEF Adds
<1>2. PICK u : u = watcher.unit
  OBVIOUS
<1>3. u \in 1..Len(units) /\ watcher.file \subseteq RarFiles /\ \A f, g \in watcher.file : f = g
  BY <1>1, <1>2, WatcherAt
<1>4. CASE units[u].killed
  <2>1. WatcherRests /\ units' = units
    BY <1>2, <1>4 DEF Adds
  <2> QED BY <1>1, <2>1, WatcherResting, WatcherOnly
<1>5. CASE ~units[u].killed
  <2>1. PICK f \in watcher.file : becomes(u, Add(units[u], Volume[f].set, Volume[f].vol))
    BY <1>2, <1>5 DEF Adds
  <2>2. watcher' = [watcher EXCEPT !.pc = "signal"]
    BY <1>2, <1>5 DEF Adds
  <2>3. /\ watcher' \in [pc : {"idle", "look", "admit", "mark", "add", "signal"},
                         file : SUBSET RarFiles, unit : 0..Len(units)]
        /\ watcher'.pc = "signal" /\ watcher'.file = watcher.file /\ watcher'.unit = u
    BY <1>2, <2>2 DEF UnpackIInv, UnpackTypeOK
  <2>4. u # 0
    BY <1>3
  <2>5. MarkedThenAdded'
    BY <1>3, <2>3, <2>4 DEF MarkedThenAdded
  <2>6. units[u] \in Unit /\ SoundUnit(units[u]) /\ f \in RarFiles
    BY <1>3, UnitAt
  <2>7. f \in Damaged => Volume[f].set \in units[u].corrupt
    BY <1>1, <1>2 DEF UnpackIInv, MarkedThenAdded
  <2>8. keepsUnit(Add(units[u], Volume[f].set, Volume[f].vol), units[u])
    BY <2>6, <2>7, AddUnit
  <2> QED BY <1>1, <1>3, <2>1, <2>3, <2>5, <2>8, UnitStep
<1> QED BY <1>4, <1>5

LEMMA SignalsInv == ASSUME UnpackIInv, Signals PROVE UnpackIInv'
<1>1. watcher.pc = "signal" /\ post' = post /\ registered' = registered /\ WatcherRests
  BY DEF Signals
<1>2. PICK u : u = watcher.unit
  OBVIOUS
<1>3. u \in 1..Len(units)
  BY <1>1, <1>2, WatcherAt
<1>4. PICK d : d = units[u]
  OBVIOUS
<1>5. d \in Unit /\ SoundUnit(d) /\ FeedsCurrent(d)
  BY <1>3, <1>4, UnitAt
<1>6. PICK r, b : r = (IF d.run = "off" /\ d.started THEN "top" ELSE d.run) /\ b = TRUE
  OBVIOUS
<1>7. r \in RunPc /\ b \in BOOLEAN
  BY <1>5, <1>6 DEF Unit, RunPc
<1>8. becomes(u, woken(d, r, b))
  BY <1>2, <1>4, <1>6 DEF Signals, woken
<1>9. PICK v : v = woken(d, r, b)
  OBVIOUS
<1>10. v \in Unit /\ sameFeeds(v, d) /\ v.run = r
  BY <1>5, <1>7, <1>9, WokenForm
<1>11. /\ r # "off" => d.started
       /\ r \in {"entry", "read", "verdict"} => d.run \in {"entry", "read", "verdict"}
       /\ r = "verdict" => EndReached(d, d.feeds[Len(d.feeds)])
  BY <1>5, <1>6 DEF FeedsCurrent
<1>12. keepsUnit(v, d)
  BY <1>5, <1>10, <1>11, RunMoves
<1> QED BY <1>1, <1>3, <1>4, <1>8, <1>9, <1>12, WatcherResting, UnitStep

LEMMA CollectInv == ASSUME UnpackIInv, Collect PROVE UnpackIInv'
<1>1. /\ units' = units /\ watcher' = watcher /\ registered' = 0 /\ post.pc \in {"none", "due"}
      /\ post' = [post EXCEPT !.pc = IF registered = 0 THEN "posted" ELSE "wait", !.unit = registered]
  BY DEF Collect
<1>2. /\ post' \in [pc : {"none", "due", "wait", "blocked", "aborted", "posted", "dropped"},
                    unit : 0..Len(units), sets : SUBSET RarSets]
      /\ post'.sets = post.sets /\ post'.unit = registered
      /\ post'.pc = (IF registered = 0 THEN "posted" ELSE "wait")
  BY <1>1 DEF UnpackIInv, UnpackTypeOK
<1>3. post'.sets = {}
  BY <1>1, <1>2 DEF UnpackIInv, KeepsToItsUnit
<1>4. KeepsToItsUnit'
  BY <1>2, <1>3 DEF KeepsToItsUnit
<1>5. registered' \in 0..Len(units)
  BY <1>1 DEF UnpackIInv, UnpackTypeOK
<1> QED BY <1>1, <1>2, <1>3, <1>4, <1>5, CollectorStep

LEMMA PostAt ==
  ASSUME UnpackIInv, post.pc \in {"wait", "blocked", "aborted"}
  PROVE  post.unit \in 1..Len(units) /\ units[post.unit] \in Unit /\ units[post.unit].won \subseteq RarSets
<1>1. post.unit \in 1..Len(units)
  BY DEF UnpackIInv, UnpackTypeOK, KeepsToItsUnit
<1>2. units[post.unit] \in Unit
  BY <1>1, UnitAt
<1> QED BY <1>1, <1>2 DEF Unit

LEMMA WaitBeginsInv == ASSUME UnpackIInv, WaitBegins PROVE UnpackIInv'
<1>1. units' = units /\ watcher' = watcher /\ registered' = registered /\ post.pc = "wait"
  BY DEF WaitBegins
<1>2. post.unit \in 1..Len(units) /\ units[post.unit].won \subseteq RarSets
  BY <1>1, PostAt
<1>3. PICK p, w : /\ p = (IF units[post.unit].started THEN "blocked" ELSE "posted")
                  /\ w = (IF units[post.unit].started THEN post.sets ELSE units[post.unit].won)
  OBVIOUS
<1>4. post' = [post EXCEPT !.pc = p, !.sets = w]
  BY <1>3 DEF WaitBegins
<1>5. w \subseteq RarSets /\ p \in {"blocked", "posted"}
  BY <1>2, <1>3 DEF UnpackIInv, UnpackTypeOK
<1>6. /\ post' \in [pc : {"none", "due", "wait", "blocked", "aborted", "posted", "dropped"},
                    unit : 0..Len(units), sets : SUBSET RarSets]
      /\ post'.sets = w /\ post'.unit = post.unit /\ post'.pc = p
  BY <1>4, <1>5 DEF UnpackIInv, UnpackTypeOK
<1>7. post'.unit # 0
  BY <1>2, <1>6
<1>8. KeepsToItsUnit'
  BY <1>5, <1>6, <1>7 DEF KeepsToItsUnit
<1>9. registered' \in 0..Len(units)
  BY <1>1 DEF UnpackIInv, UnpackTypeOK
<1>10. \/ post'.sets = post.sets /\ post'.unit = post.unit
       \/ post'.unit # 0 /\ post'.sets = units[post'.unit].won
  BY <1>3, <1>6, <1>7
<1> QED BY <1>1, <1>6, <1>8, <1>9, <1>10, CollectorStep

LEMMA WaitEndsInv == ASSUME UnpackIInv, WaitEnds PROVE UnpackIInv'
<1>1. watcher' = watcher /\ registered' = registered /\ post.pc \in {"blocked", "aborted"}
  BY DEF WaitEnds
<1>2. /\ post.unit \in 1..Len(units) /\ units[post.unit].won \subseteq RarSets /\ units[post.unit] \in Unit
      /\ SoundUnit(units[post.unit]) /\ registered \in 0..Len(units)
  BY <1>1, PostAt, UnitAt DEF UnpackIInv, UnpackTypeOK
<1>3. CASE post' = [post EXCEPT !.pc = "posted", !.sets = units[post.unit].won] /\ units' = units
  <2>1. /\ post' \in [pc : {"none", "due", "wait", "blocked", "aborted", "posted", "dropped"},
                      unit : 0..Len(units), sets : SUBSET RarSets]
        /\ post'.sets = units[post.unit].won /\ post'.unit = post.unit /\ post'.pc = "posted"
    BY <1>2, <1>3 DEF UnpackIInv, UnpackTypeOK
  <2>2. post'.unit # 0
    BY <1>2, <2>1
  <2>3. KeepsToItsUnit'
    BY <2>1, <2>2 DEF KeepsToItsUnit
  <2> QED BY <1>1, <1>2, <1>3, <2>1, <2>2, <2>3, CollectorStep
<1>4. CASE post' = [post EXCEPT !.pc = "dropped"] /\ units' = units
  <2>1. /\ post' \in [pc : {"none", "due", "wait", "blocked", "aborted", "posted", "dropped"},
                      unit : 0..Len(units), sets : SUBSET RarSets]
        /\ post'.sets = post.sets /\ post'.unit = post.unit /\ post'.pc = "dropped"
    BY <1>4 DEF UnpackIInv, UnpackTypeOK
  <2>2. KeepsToItsUnit'
    BY <2>1 DEF UnpackIInv, KeepsToItsUnit
  <2> QED BY <1>1, <1>2, <1>4, <2>1, <2>2, CollectorStep
<1>5. CASE post.pc = "blocked" /\ post' = [post EXCEPT !.pc = "aborted"]
           /\ becomes(post.unit, Abort(units[post.unit]))
  <2>1. /\ post' \in [pc : {"none", "due", "wait", "blocked", "aborted", "posted", "dropped"},
                      unit : 0..Len(units), sets : SUBSET RarSets]
        /\ post'.sets = post.sets /\ post'.unit = post.unit /\ post'.pc = "aborted"
    BY <1>5 DEF UnpackIInv, UnpackTypeOK
  <2>2. keepsUnit(Abort(units[post.unit]), units[post.unit])
    BY <1>2, AbortUnit
  <2>3. MarkedThenAdded'
    BY <1>1, <1>2, <1>5, <2>2, MarkStays
  <2>4. watcher' \in [pc : {"idle", "look", "admit", "mark", "add", "signal"},
                      file : SUBSET RarFiles, unit : 0..Len(units)]
    BY <1>1 DEF UnpackIInv, UnpackTypeOK
  <2> QED BY <1>1, <1>2, <1>5, <2>1, <2>2, <2>3, <2>4, UnitPostStep
<1> QED BY <1>3, <1>4, <1>5 DEF WaitEnds

LEMMA AbortStartInv == ASSUME UnpackIInv, NEW by \in {"remove", "shutdown"}, AbortStart(by) PROVE UnpackIInv'
<1>1. watcher' = watcher /\ registered' = registered /\ post' = post /\ registered \in 0..Len(units)
  BY DEF AbortStart, UnpackIInv, UnpackTypeOK
<1>2. CASE registered = 0
  <2>1. units' = units
    BY <1>2 DEF AbortStart
  <2> QED BY <1>1, <2>1, SameUnits
<1>3. CASE registered # 0
  <2>1. registered \in 1..Len(units) /\ becomes(registered, Abort(units[registered]))
    BY <1>1, <1>3 DEF AbortStart, UnpackIInv, UnpackTypeOK
  <2>2. units[registered] \in Unit /\ SoundUnit(units[registered])
    BY <2>1, UnitAt
  <2>3. keepsUnit(Abort(units[registered]), units[registered])
    BY <2>2, AbortUnit
  <2>4. MarkedThenAdded'
    BY <1>1, <2>1, <2>3, MarkStays
  <2> QED BY <1>1, <2>1, <2>3, <2>4, UnitStep DEF UnpackIInv, UnpackTypeOK
<1> QED BY <1>2, <1>3

LEMMA AbortEndInv == ASSUME UnpackIInv, AbortEnd PROVE UnpackIInv'
<1>1. units' = units /\ watcher' = watcher /\ post' = post /\ registered' \in 0..Len(units)
  BY DEF AbortEnd, UnpackIInv, UnpackTypeOK
<1> QED BY <1>1, SameUnits

\* The invariant holds at the start and every step keeps it.
LEMMA UnpackInitInv == UnpackInit => UnpackIInv
<1> SUFFICES ASSUME UnpackInit PROVE UnpackIInv
  OBVIOUS
<1>1. units = <<>> /\ registered = 0 /\ Len(units) = 0 /\ units \in Seq(Unit)
  BY DEF UnpackInit
<1>2. watcher = [pc |-> "idle", file |-> {}, unit |-> 0] /\ post = [pc |-> "none", unit |-> 0, sets |-> {}]
  BY DEF UnpackInit
<1>3. UnpackTypeOK
  BY <1>1, <1>2 DEF UnpackTypeOK
<1>4. MarkedThenAdded
  BY <1>2 DEF MarkedThenAdded
<1>5. KeepsToItsUnit /\ HandedIsWhole
  BY <1>2 DEF KeepsToItsUnit, HandedIsWhole
<1> QED BY <1>1, <1>3, <1>4, <1>5 DEF UnpackIInv

LEMMA UnpackNextInv == UnpackIInv /\ [UnpackNext]_unpackVars => UnpackIInv'
<1> SUFFICES ASSUME UnpackIInv, [UnpackNext]_unpackVars PROVE UnpackIInv'
  OBVIOUS
<1>1. CASE UNCHANGED unpackVars
  <2>1. units' = units /\ watcher' = watcher /\ post' = post /\ registered' = registered
    BY <1>1 DEF unpackVars
  <2> QED BY <2>1, SameUnits DEF UnpackIInv, UnpackTypeOK
<1>2. CASE WatcherSteps
  BY <1>2, LooksInv, AdmitInv, MarksInv, AddsInv, SignalsInv DEF WatcherSteps
<1>3. CASE AfterAbort \/ Crowd
  <2>1. units' = units /\ watcher' = watcher /\ post' = post /\ registered' = registered
    BY <1>3 DEF AfterAbort, Crowd
  <2> QED BY <2>1, SameUnits DEF UnpackIInv, UnpackTypeOK
<1>4. CASE \E f \in RarFiles : FileDone(f)
  BY <1>4, FileDoneInv
<1>5. CASE \E i \in 1..Len(units) : RunSteps(i)
  BY <1>5, RunStepsInv
<1>6. CASE \E i \in 1..Len(units) : \E g \in 1..Len(units[i].feeds) : FeedStep(i, g)
  BY <1>6, FeedStepInv
<1>7. CASE Collect \/ WaitBegins \/ WaitEnds \/ AbortEnd
  BY <1>7, CollectInv, WaitBeginsInv, WaitEndsInv, AbortEndInv
<1>8. CASE \E by \in {"remove", "shutdown"} : AbortStart(by)
  BY <1>8, AbortStartInv
<1> QED BY <1>1, <1>2, <1>3, <1>4, <1>5, <1>6, <1>7, <1>8 DEF UnpackNext

\* A set that post-processing is told was unpacked while the job downloaded has
\* every one of its volumes, and none of them had a failed article: the volumes
\* may be deleted.  For every number of sets, volumes and unpackers, and every
\* order in which the watcher, the feeds and the aborts move.
THEOREM HandedSetsAreWhole == UnpackSafety => []HandedIsWhole
<1>1. UnpackSafety => []UnpackIInv
  BY UnpackInitInv, UnpackNextInv, PTL DEF UnpackSafety
<1>2. UnpackIInv => HandedIsWhole
  BY DEF UnpackIInv
<1> QED BY <1>1, <1>2, PTL
=============================================================================
