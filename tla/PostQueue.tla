------------------------------ MODULE PostQueue -------------------------------
(***************************************************************************)
(* The post-processor's queue and worker, the finalizer that files the job *)
(* in history and takes it out of the queue, and what cuts across them:    *)
(* the hand-off from the runner (which may wait for Direct Unpack), a user *)
(* who removes the job, a shutdown, and a crash between any two steps.     *)
(* The stages themselves are PostStages; here they end in a fate.          *)
(***************************************************************************)
EXTENDS Integers, Sequences, FiniteSets

CONSTANTS
    PostJob,      \* jobs that reach post-processing
    Unpacking,    \* those whose Direct Unpack still runs when they do
    MaxRemovals,  \* bound on the jobs a user removes
    MaxFaults     \* bound on stops, crashes and refused database calls

VARIABLES
    handoff,    \* PostJob -> "no" | "close" | "unpack" | "append" | "notify" | "in"
    ppq,        \* ppQueue.jobs
    token,      \* ppQueue.notifyCh holds a value
    current,    \* {currentJobID}, or {}
    doomed,     \* jobs whose jobCtx is cancelled
    worker,     \* [pc, job, fate, refused]: run, then the finalizer on the same goroutine
    stopped,    \* workerCtx is cancelled
    occupied,   \* jobs the finalizer has leased with Dispatcher.Occupy
    queueRows,  \* durable: jobs in the dispatcher's store
    history,    \* durable: PostJob -> "none" | "Completed" | "Failed"
    runRows,    \* durable: jobs with durable_runs and failed_articles rows
    latched,    \* jobs whose intent is IntentCancel, in memory
    cancelledRows, \* durable: jobs whose row in the store says so
    removal,    \* PostJob -> RemoveJob's progress: "no" | "found" | "cancel" | "remove" | "clean" | "done"
    caught,     \* jobs Cancel found in the queue or under the stages (history variable)
    unfiled,    \* jobs whose history entry the database refused (history variable)
    postFaults

postVars == <<handoff, ppq, token, current, doomed, worker, stopped, occupied, queueRows,
              history, runRows, latched, cancelledRows, removal, caught, unfiled, postFaults>>
store == <<queueRows, history, runRows>>
intents == <<latched, cancelledRows>>
pushed == <<handoff, ppq, token>>

Idle == [pc |-> "try", job |-> {}, fate |-> "none", refused |-> FALSE]
SetOf(q) == {q[i] : i \in DOMAIN q}

PostInit ==
    /\ handoff = [j \in PostJob |-> "no"] /\ ppq = <<>> /\ token = FALSE
    /\ current = {} /\ doomed = {} /\ worker = Idle /\ stopped = FALSE /\ occupied = {}
    /\ queueRows = PostJob /\ history = [j \in PostJob |-> "none"] /\ runRows = PostJob
    /\ latched = {} /\ cancelledRows = {} /\ removal = [j \in PostJob |-> "no"]
    /\ caught = {} /\ unfiled = {} /\ postFaults = 0

postFault == postFaults < MaxFaults /\ postFaults' = postFaults + 1

-----------------------------------------------------------------------------
(* The hand-off.                                                             *)
hands(j, s) == handoff' = [handoff EXCEPT ![j] = s]
handsOnly == UNCHANGED <<current, doomed, worker, stopped, occupied, store, intents, removal, caught, unfiled, postFaults>>

\* Has: queued or current, under one lock.
Has(j) == j \in SetOf(ppq) \cup current

\* runPostProc: the dispatcher launches a job once, and only with IntentRun.
RunPostProc(j) ==
    /\ handoff[j] = "no" /\ j \in queueRows \ latched /\ ~stopped /\ ~Has(j)
    /\ hands(j, "close")
    /\ handsOnly /\ UNCHANGED <<ppq, token>>

\* Mutant of pushSteps: the worker is woken before the job is in the queue.
pushStepsSwapped == <<"notify", "append">>
\* Push: append under the lock, then notify.
pushSteps == <<"append", "notify">>

pushNext(s) == IF s = pushSteps[1] THEN pushSteps[2] ELSE "in"

\* enqueuePostProc: handles are closed, the checkpoint is flushed, and a Direct
\* Unpacker leaves the orchestrator; a goroutine of its own waits for it.
EnqueuePostProc(j) ==
    /\ handoff[j] = "close"
    /\ hands(j, IF j \in Unpacking THEN "unpack" ELSE pushSteps[1])
    /\ handsOnly /\ UNCHANGED <<ppq, token>>

\* awaitDirectUnpackOrAbort: a shutdown ends the wait without a push.
DirectUnpackDone(j) ==
    /\ handoff[j] = "unpack"
    /\ hands(j, IF stopped THEN "in" ELSE pushSteps[1])
    /\ handsOnly /\ UNCHANGED <<ppq, token>>

Push(j) ==
    /\ handoff[j] = "append"
    /\ ppq' = Append(ppq, j) /\ hands(j, pushNext("append"))
    /\ handsOnly /\ UNCHANGED token

Notify(j) ==
    /\ handoff[j] = "notify"
    /\ token' = TRUE /\ hands(j, pushNext("notify"))
    /\ handsOnly /\ UNCHANGED ppq

-----------------------------------------------------------------------------
(* The worker: run, popJob, processJob.                                      *)
at(pc) == worker.pc = pc
goes(pc) == worker' = [worker EXCEPT !.pc = pc]
frees(pc) == worker' = [Idle EXCEPT !.pc = pc]

\* Mutant of marks: the job is popped but not yet current.
marksLater(j) == current' = {} /\ worker' = [Idle EXCEPT !.pc = "run", !.job = {j}]
\* mark runs under the queue's lock.
marks(j) == current' = {j} /\ worker' = [Idle EXCEPT !.pc = "run", !.job = {j}]

TryPop ==
    /\ at("try")
    /\ \/ stopped /\ frees("exit") /\ UNCHANGED <<ppq, current, doomed>>
       \/ ~stopped /\ ppq = <<>> /\ frees("wait") /\ UNCHANGED <<ppq, current, doomed>>
       \/ ~stopped /\ ppq # <<>> /\ ppq' = Tail(ppq) /\ marks(Head(ppq)) /\ doomed' = doomed \ {Head(ppq)}
    /\ UNCHANGED <<handoff, token, stopped, occupied, store, intents, removal, caught, unfiled, postFaults>>

Wait ==
    /\ at("wait")
    /\ \/ token /\ token' = FALSE /\ frees("try")
       \/ stopped /\ frees("exit") /\ UNCHANGED token
    /\ UNCHANGED <<handoff, ppq, current, doomed, stopped, occupied, store, intents, removal, caught, unfiled, postFaults>>

\* processJob: all the stages, or as many as a cancelled context lets through.
ProcessJob ==
    /\ at("run")
    /\ \E f \in {"Completed", "Failed"} : worker' = [worker EXCEPT !.pc = "ran", !.fate = f]
    /\ UNCHANGED <<pushed, current, doomed, stopped, occupied, store, intents, removal, caught, unfiled, postFaults>>

\* A shutdown preserves the job for the next start; a cancelled one is dropped.
CheckContexts ==
    /\ at("ran")
    /\ IF stopped THEN frees("exit") /\ current' = {}
       ELSE IF worker.job \subseteq doomed THEN frees("try") /\ current' = {}
       ELSE goes("settle") /\ UNCHANGED current
    /\ UNCHANGED <<pushed, doomed, stopped, occupied, store, intents, removal, caught, unfiled, postFaults>>

\* setBusyWithJob(false), then onJobDone.
Settle ==
    /\ at("settle")
    /\ current' = {} /\ goes("cancel")
    /\ UNCHANGED <<pushed, doomed, stopped, occupied, store, intents, removal, caught, unfiled, postFaults>>

-----------------------------------------------------------------------------
(* persistAndCommit.                                                         *)
finalizing == UNCHANGED <<pushed, current, doomed, stopped, intents, removal, caught>>

\* persistAndCommit begins with the dispatcher's Cancel, which latches the
\* intents and settles the job, and Yielded, which frees what it held.
CancelAndYield ==
    /\ at("cancel") /\ goes("occupy")
    /\ latched' = latched \cup (worker.job \cap queueRows)
    /\ UNCHANGED <<pushed, current, doomed, stopped, occupied, store, cancelledRows, removal, caught, unfiled, postFaults>>

\* persistIfChanged, in the tick that Cancel and Yielded kick: the row says
\* cancelled from here on, unless the job is being removed.
TickSaves(j) ==
    /\ j \in (latched \cap queueRows) \ cancelledRows /\ removal[j] # "remove"
    /\ cancelledRows' = cancelledRows \cup {j}
    /\ UNCHANGED <<pushed, current, doomed, worker, stopped, occupied, store, latched, removal, caught, unfiled, postFaults>>

\* Mutant of commitNext: the job leaves the queue before it is in history.
commitNextSwapped(s) == CASE s = "occupy" -> "remove" [] s = "remove" -> "history" [] s = "history" -> "runs"
commitNext(s) == CASE s = "occupy" -> "history" [] s = "history" -> "remove" [] s = "remove" -> "runs"

\* Occupy refuses a job that is being removed; the commit goes on without it.
Occupy ==
    /\ at("occupy")
    /\ occupied' = {j \in worker.job \cap queueRows : removal[j] # "remove"}
    /\ goes(commitNext("occupy"))
    /\ finalizing /\ UNCHANGED <<store, unfiled, postFaults>>

\* historyRepo.Add is refused by the database, or because the entry exists.
AddHistory ==
    /\ at("history")
    /\ \E j \in worker.job :
         \/ /\ history[j] = "none"
            /\ history' = [history EXCEPT ![j] = worker.fate]
            /\ goes(commitNext("history")) /\ UNCHANGED <<unfiled, postFaults>>
         \/ /\ IF history[j] = "none" THEN postFault ELSE UNCHANGED postFaults
            /\ unfiled' = IF history[j] = "none" THEN unfiled \cup {j} ELSE unfiled
            /\ worker' = [worker EXCEPT !.pc = commitNext("history"), !.refused = TRUE]
            /\ UNCHANGED history
    /\ finalizing /\ UNCHANGED <<occupied, queueRows, runRows>>

\* Dispatcher.Remove, tried twice.
RemoveFiled ==
    /\ at("remove")
    /\ \/ queueRows' = queueRows \ worker.job /\ UNCHANGED postFaults
       \/ postFault /\ UNCHANGED queueRows
    /\ goes(commitNext("remove"))
    /\ finalizing /\ UNCHANGED <<occupied, history, runRows, unfiled>>

\* A failed job's rows belong to its retry, also when it failed in an earlier life.
keepsRuns(j) == worker.fate = "Failed" \/ (worker.refused /\ history[j] = "Failed")

\* deleteJobDurability; in doubt the rows are kept.
DeleteRuns ==
    /\ at("runs")
    /\ \/ /\ runRows' = runRows \ {j \in worker.job : ~keepsRuns(j)} /\ UNCHANGED postFaults
       \/ /\ worker.refused /\ postFault /\ UNCHANGED runRows
    /\ occupied' = {} /\ frees("try")
    /\ finalizing /\ UNCHANGED <<queueRows, history, unfiled>>

-----------------------------------------------------------------------------
(* RemoveJob, on a request's goroutine.                                      *)
removes(j, s) == removal' = [removal EXCEPT ![j] = s]
removing == UNCHANGED <<handoff, token, current, worker, stopped, occupied, history, intents, unfiled, postFaults>>

Find(j) ==
    /\ removal[j] = "no" /\ j \in queueRows /\ worker.pc # "exit"
    /\ Cardinality({k \in PostJob : removal[k] # "no"}) < MaxRemovals
    /\ removes(j, "found")
    /\ removing /\ UNCHANGED <<ppq, doomed, queueRows, runRows, caught>>

\* findJob: the first position that holds the job.
findsJob(i, j) == i \in DOMAIN ppq /\ ppq[i] = j /\ \A k \in 1..(i - 1) : ppq[k] # j

\* What follows position i moves down by one.
without(q, i) == [k \in 1..(Len(q) - 1) |-> IF k < i THEN q[k] ELSE q[k + 1]]

\* Cancel: out of the queue ...
CancelQueued(j) ==
    /\ removal[j] = "found" /\ removes(j, "cancel")
    /\ \/ \E i \in DOMAIN ppq : findsJob(i, j) /\ ppq' = without(ppq, i) /\ caught' = caught \cup {j}
       \/ j \notin SetOf(ppq) /\ UNCHANGED <<ppq, caught>>
    /\ removing /\ UNCHANGED <<doomed, queueRows, runRows>>

\* ... or, under the other lock, the running job's context.
CancelRunning(j) ==
    /\ removal[j] = "cancel" /\ removes(j, "remove")
    /\ doomed' = doomed \cup (current \cap {j})
    /\ caught' = IF j \in worker.job /\ worker.pc \in {"run", "ran"} THEN caught \cup {j} ELSE caught
    /\ removing /\ UNCHANGED <<ppq, queueRows, runRows>>

\* Dispatcher.Remove waits for the finalizer's lease, and finds the job or not.
RemoveRow(j) ==
    /\ removal[j] = "remove" /\ j \notin occupied
    /\ IF j \in queueRows THEN queueRows' = queueRows \ {j} /\ removes(j, "clean")
       ELSE removes(j, "done") /\ UNCHANGED queueRows
    /\ removing /\ UNCHANGED <<ppq, doomed, runRows, caught>>

RemoveRuns(j) ==
    /\ removal[j] = "clean" /\ removes(j, "done")
    /\ runRows' = runRows \ {j}
    /\ removing /\ UNCHANGED <<ppq, doomed, queueRows, caught>>

-----------------------------------------------------------------------------
(* Stop, crash, and the next start.                                          *)
Stop ==
    /\ ~stopped /\ stopped' = TRUE /\ postFault
    /\ UNCHANGED <<pushed, current, doomed, worker, occupied, store, intents, removal, caught, unfiled>>

\* dropJobAlreadyInHistory runs for every job that is loaded; a lookup that
\* fails leaves the job in the queue.
Restart ==
    /\ (stopped /\ worker.pc = "exit" /\ UNCHANGED postFaults) \/ postFault
    /\ handoff' = [j \in PostJob |-> "no"] /\ ppq' = <<>> /\ token' = FALSE
    /\ current' = {} /\ doomed' = {} /\ worker' = Idle /\ stopped' = FALSE /\ occupied' = {}
    /\ removal' = [j \in PostJob |-> IF removal[j] = "no" \/ j \in queueRows THEN "no" ELSE "done"]
    /\ caught' = {}
    /\ \E dropped \in SUBSET {j \in queueRows : history[j] # "none"} :
         /\ queueRows' = queueRows \ dropped
         /\ latched' = (cancelledRows \cap queueRows) \ dropped
         /\ runRows' = runRows \ {j \in dropped : history[j] # "Failed"}
    /\ UNCHANGED <<history, cancelledRows, unfiled>>

HandOff(j) == RunPostProc(j) \/ EnqueuePostProc(j) \/ DirectUnpackDone(j) \/ Push(j) \/ Notify(j)
Work == TryPop \/ Wait \/ ProcessJob \/ CheckContexts \/ Settle
        \/ CancelAndYield \/ Occupy \/ AddHistory \/ RemoveFiled \/ DeleteRuns
Removing(j) == Find(j) \/ CancelQueued(j) \/ CancelRunning(j) \/ RemoveRow(j) \/ RemoveRuns(j)

PostNext ==
    \/ \E j \in PostJob : HandOff(j) \/ Removing(j) \/ TickSaves(j)
    \/ Work \/ Stop \/ Restart

-----------------------------------------------------------------------------
\* A job nobody removed is never lost: at every moment it is in the queue's
\* store or in history, unless the database refused the entry.
NeverLost == \A j \in PostJob : j \in queueRows \/ history[j] # "none" \/ removal[j] # "no" \/ j \in unfiled

\* A failed job keeps the rows its retry resumes from, also when it is
\* processed once more because a crash left it in the queue.
FailedKeepsRuns ==
    \A j \in PostJob : history[j] = "Failed" /\ removal[j] = "no" /\ j \notin unfiled => j \in runRows

\* A job that Cancel found, in the queue or with the worker before it has looked at
\* the contexts, does not reach the finalizer.
CancelTakes == worker.pc \in {"settle", "cancel", "occupy", "history", "remove", "runs"} => worker.job \cap caught = {}

\* A pushed job is taken, unless the process is told to stop: no wake-up is
\* lost between Push and Pop.
PushedIsTaken == \A j \in PostJob : (j \in SetOf(ppq)) ~> (j \notin SetOf(ppq) \/ stopped)

\* docs/post-processing-contract.md:50-52 of a crash while a job is being
\* processed: its state is preserved "so crash recovery re-enqueues it on next
\* startup".  A job in the queue that is neither filed nor being removed is one
\* post-processing has or can still be given.
ReEnqueued ==
    \A j \in queueRows :
        history[j] = "none" /\ removal[j] = "no" /\ j \notin unfiled => j \notin latched \/ j \in worker.job

\* Once a user's removal is over, post-processing holds the job no more.
RemovedStaysOut ==
    \A j \in PostJob : removal[j] = "done" /\ j \notin queueRows =>
        handoff[j] \in {"no", "in"} /\ j \notin SetOf(ppq) \cup current

PostSpec == PostInit /\ [][PostNext]_postVars

PostFairness == WF_postVars(Work) /\ \A j \in PostJob : WF_postVars(HandOff(j))

-----------------------------------------------------------------------------
(* The invariants behind NeverLost, CancelTakes and FailedKeepsRuns.         *)
Finalizing == {"settle", "cancel", "occupy", "history", "remove", "runs"}

\* The worker holds one job, decides its fate before it finalizes, and comes to
\* the queue's row only with the entry written or refused.
FiledBeforeRemoved ==
    /\ \A j, k \in worker.job : j = k
    /\ worker.pc \in Finalizing \cup {"ran"} => worker.fate # "none"
    /\ worker.pc \in {"remove", "runs"} =>
         \A j \in worker.job \cap PostJob : history[j] # "none" \/ j \in unfiled

PostIInv ==
    /\ DOMAIN history = PostJob /\ DOMAIN removal = PostJob
    /\ history = [j \in PostJob |-> history[j]] /\ removal = [j \in PostJob |-> removal[j]]
    /\ worker = [pc |-> worker.pc, job |-> worker.job, fate |-> worker.fate, refused |-> worker.refused]
    /\ FiledBeforeRemoved
    /\ NeverLost

\* A job is appended once in a life of the process: queued jobs are all
\* different, and the one with the worker is not queued as well.
HandedOnce ==
    /\ ppq \in Seq(PostJob) /\ worker.job \subseteq PostJob
    /\ \A i, k \in DOMAIN ppq : ppq[i] = ppq[k] => i = k
    /\ \A i \in DOMAIN ppq : handoff[ppq[i]] \in {"notify", "in"} /\ ppq[i] \notin worker.job
    /\ \A j \in worker.job : handoff[j] \in {"notify", "in"}

\* What Cancel found is out of the queue for good, and under the stages only
\* with its context cancelled; the job under them is the current one.
CaughtIsOut ==
    /\ worker.pc \in {"run", "ran"} => current = worker.job
    /\ caught \subseteq PostJob
    /\ \A j \in caught : handoff[j] \in {"notify", "in"}
    /\ \A j \in caught : \A i \in DOMAIN ppq : ppq[i] # j
    /\ \A j \in caught \cap worker.job : j \in doomed /\ worker.pc \in {"run", "ran"}

CancelIInv ==
    /\ handoff = [j \in PostJob |-> handoff[j]]
    /\ HandedOnce
    /\ CaughtIsOut

\* The rows of a job go with its removal, with a success that this life filed
\* or an earlier one did, or with an entry the database refused.
RunsOutlast ==
    \A j \in PostJob :
        removal[j] \notin {"clean", "done"} /\ j \notin unfiled /\ history[j] # "Completed" => j \in runRows

\* An entry that was not refused says what the stages ended in.
FiledAsRun ==
    /\ worker.pc \in Finalizing => worker.fate \in {"Completed", "Failed"}
    /\ worker.pc \in {"remove", "runs"} /\ ~worker.refused =>
         \A j \in worker.job : history[j] = worker.fate

RunsIInv ==
    /\ \A j \in PostJob : history[j] \in {"none", "Completed", "Failed"}
    /\ \A j \in PostJob \cap queueRows : removal[j] \notin {"clean", "done"}
    /\ worker.pc = "ran" => worker.fate \in {"Completed", "Failed"}
    /\ RunsOutlast
    /\ FiledAsRun
=============================================================================
