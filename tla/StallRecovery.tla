--------------------------- MODULE StallRecovery ---------------------------
(***************************************************************************)
(* Parking a job for a storage fault and getting it moving again           *)
(* (internal/app/stall.go, with Stall, Fail and the finalize of            *)
(* internal/app/durability.go).                                            *)
(*                                                                         *)
(* One job.  Four threads touch its stall record: the completion watcher   *)
(* (handleFileComplete), the checkpoint loop (checkpoints and              *)
(* re-evaluations, one goroutine), the goroutine handleWriteFault starts   *)
(* and the API.  The dispatcher's tick grants and takes back the job's     *)
(* slot, loading and evicting its manifest with it.                        *)
(***************************************************************************)
EXTENDS Integers, FiniteSets

CONSTANTS Files,          \* the files of the job
          MaxStallFaults, \* how often the device breaks, or refuses one write
          MaxUser         \* how many calls the API makes

VARIABLES exists,     \* the job is in the queue
          intent,     \* its intent: run or pause
          asked,      \* the user paused it and has not resumed it since
          holds,      \* it holds the slot its position needs
          resident,   \* its manifest is loaded
          broken,     \* the device refuses every sync
          openFiles,  \* files whose handle the assembler holds
          trimmed,    \* files a finalize has trimmed and recorded
          marked,     \* files marked complete
          told,       \* files whose completion the assembler has reported
          ever,       \* files that were ever recorded for a retry
          rec,        \* stalls[jobID]
          watch,      \* the completion watcher
          loop,       \* the checkpoint loop
          fault,      \* the goroutine of a write fault
          slips, calls

jobVars == <<exists, intent, asked, holds, resident>>
files == <<openFiles, trimmed, marked, told>>
budgets == <<slips, calls>>
stallVars == <<jobVars, files, broken, ever, rec, watch, loop, fault, budgets>>

NoFiles == [f \in Files |-> "none"]
NoRecord == [on |-> FALSE, parked |-> FALSE, seed |-> FALSE, files |-> NoFiles]
Recorded(r) == {f \in Files : r.files[f] # "none"}
Rest == [pc |-> "idle", file |-> {}]
LoopRest == [pc |-> "idle", todo |-> {}, snap |-> NoFiles, blocked |-> FALSE, file |-> {}]

StallInit ==
  /\ exists = TRUE /\ intent = "run" /\ asked = FALSE
  /\ holds = FALSE /\ resident = FALSE /\ broken = FALSE
  /\ openFiles = {} /\ trimmed = {} /\ marked = {} /\ told = {} /\ ever = {}
  /\ rec = NoRecord
  /\ watch = Rest /\ loop = LoopRest /\ fault = "none"
  /\ slips = 0 /\ calls = 0

-----------------------------------------------------------------------------
(* The record *)

\* setStallReasonLocked: every reason is a storage fault, so the job is ours.
noteStall(r) == [r EXCEPT !.on = TRUE, !.parked = TRUE]

\* notePendingFinalize leaves a file that is already recorded as it is.
notePendingFinalize(r, f) ==
  [r EXCEPT !.on = TRUE, !.files[f] = IF @ = "none" THEN "pending" ELSE @]

noteUndeliveredCompletion(r, f) == [r EXCEPT !.on = TRUE, !.files[f] = "done"]

noteNeedsSeed(r) == [r EXCEPT !.on = TRUE, !.seed = TRUE]

setFinalizeState(r, f, s) == IF r.on THEN [r EXCEPT !.files[f] = s] ELSE r

\* The record goes with its last file, whatever else it says.
completeFinalizeRecovery(r, f) ==
  IF ~r.on THEN r
  ELSE LET left == [r EXCEPT !.files[f] = "none"]
       IN  IF Recorded(left) = {} THEN NoRecord ELSE left

\* stallLost: the file cannot be finalized in this process.
stallLost(r, f) == noteStall(setFinalizeState(r, f, "lost"))

-----------------------------------------------------------------------------
(* The dispatcher *)

\* tick: a running job is granted its slot and its manifest is loaded ...
Grant ==
  /\ exists /\ intent = "run" /\ ~holds
  /\ holds' = TRUE /\ resident' = TRUE
  /\ UNCHANGED <<exists, intent, asked, files, broken, ever, rec, watch, loop, fault, budgets>>

\* ... and the manifest of a job that holds nothing is evicted.
EvictManifest ==
  /\ resident /\ ~holds
  /\ resident' = FALSE
  /\ UNCHANGED <<exists, intent, asked, holds, files, broken, ever, rec, watch, loop, fault, budgets>>

\* PauseJob, then Yielded, which parks the job: its slot is returned.
parks == /\ intent' = IF exists THEN "pause" ELSE intent
         /\ holds' = FALSE

\* A user's pause: the worker is told to stop and yields.
UserPause ==
  /\ exists /\ calls < MaxUser
  /\ intent' = "pause" /\ holds' = FALSE /\ asked' = TRUE /\ calls' = calls + 1
  /\ UNCHANGED <<exists, resident, files, broken, ever, rec, watch, loop, fault, slips>>

\* A user's resume, which also asks for a re-evaluation.
UserResume ==
  /\ exists /\ intent = "pause" /\ calls < MaxUser
  /\ intent' = "run" /\ asked' = FALSE /\ calls' = calls + 1
  /\ UNCHANGED <<exists, holds, resident, files, broken, ever, rec, watch, loop, fault, slips>>

\* RemoveJob: the handles are closed and the job leaves the queue.
RemoveJob ==
  /\ exists /\ calls < MaxUser
  /\ exists' = FALSE /\ holds' = FALSE /\ openFiles' = {} /\ calls' = calls + 1
  /\ UNCHANGED <<intent, asked, resident, trimmed, marked, told, broken, ever, rec, watch, loop,
                 fault, slips>>

-----------------------------------------------------------------------------
(* The device *)

Break == /\ ~broken /\ slips < MaxStallFaults
         /\ broken' = TRUE /\ slips' = slips + 1
         /\ UNCHANGED <<jobVars, files, ever, rec, watch, loop, fault, calls>>

RepairDevice ==
  /\ broken /\ broken' = FALSE
  /\ UNCHANGED <<jobVars, files, ever, rec, watch, loop, fault, budgets>>

\* The assembler opens a file for the first of its articles.
OpenFile(f) ==
  /\ exists /\ holds /\ resident
  /\ f \notin openFiles \cup told
  /\ openFiles' = openFiles \cup {f}
  /\ UNCHANGED <<jobVars, trimmed, marked, told, broken, ever, rec, watch, loop, fault, budgets>>

-----------------------------------------------------------------------------
(* Stalls raised by a write *)

\* handleWriteFault starts a goroutine, which stalls or fails the job.
WriteFault(kind) ==
  /\ openFiles # {} /\ fault = "none" /\ slips < MaxStallFaults
  /\ fault' = kind /\ slips' = slips + 1
  /\ UNCHANGED <<jobVars, files, broken, ever, rec, watch, loop, calls>>

\* Stall: the record first, then the pause.
FaultStep ==
  \/ /\ fault = "stall" /\ fault' = "noted" /\ rec' = noteStall(rec)
     /\ UNCHANGED <<jobVars, files, broken, ever, watch, loop, budgets>>
  \/ /\ fault = "noted" /\ fault' = "none" /\ parks
     /\ UNCHANGED <<exists, asked, resident, files, broken, ever, rec, watch, loop, budgets>>
  \/ \* Fail: the record is dropped and the job handed to post-processing.
     /\ fault = "fail" /\ fault' = "none" /\ rec' = NoRecord
     /\ exists' = FALSE /\ holds' = FALSE /\ openFiles' = {}
     /\ UNCHANGED <<intent, asked, resident, trimmed, marked, told, broken, ever, watch, loop, budgets>>

-----------------------------------------------------------------------------
(* finalizeCompletedFile *)

\* What its checks find before the barrier runs.  A job with no readable
\* manifest has no target, and that is answered as success.
looks(f) == CASE ~exists \/ ~resident -> "skip"
              [] f \notin openFiles   -> "skip"
              [] OTHER                -> "barrier"

\* What the barrier answers; its acknowledgement needs the manifest.
answer == CASE broken -> "fault" [] ~resident -> "unacked" [] OTHER -> "ok"

\* The bytes are trimmed and recorded unless the device refused.
trims(f, a) == trimmed' = IF a = "fault" THEN trimmed ELSE trimmed \cup {f}

\* The deferred CloseFile: only a finalize that answered success closes.
closes(f, a) == openFiles' = IF a \in {"ok", "skip"} THEN openFiles \ {f} ELSE openFiles

-----------------------------------------------------------------------------
(* The completion watcher *)

\* handleFileComplete is called for a file whose articles are all resolved.
WatchStart(f) ==
  /\ watch = Rest /\ f \in openFiles \ told
  /\ told' = told \cup {f}
  /\ watch' = [pc |-> looks(f), file |-> {f}]
  /\ UNCHANGED <<jobVars, openFiles, trimmed, marked, broken, ever, rec, loop, fault, budgets>>

\* The barrier answers; a fault is routed to Stall, anything else to the
\* record or to the completion.
WatchFinalized(f) ==
  /\ watch.file = {f} /\ watch.pc \in {"skip", "barrier"}
  /\ LET a == IF watch.pc = "skip" \/ f \notin openFiles THEN "skip" ELSE answer IN
       /\ IF a = "skip" THEN UNCHANGED trimmed ELSE trims(f, a)
       /\ closes(f, a)
       /\ watch' = [watch EXCEPT !.pc = CASE a = "fault" -> "stall"
                                          [] a = "unacked" -> "note"
                                          [] OTHER -> "complete"]
  /\ UNCHANGED <<jobVars, marked, told, broken, ever, rec, loop, fault, budgets>>

\* completeFinalizedFile: MarkFileComplete needs the manifest; a completion
\* it refuses is recorded as finalized and undelivered.
WatchComplete(f) ==
  /\ watch.file = {f} /\ watch.pc = "complete"
  /\ watch' = Rest
  /\ IF exists /\ resident
     THEN marked' = marked \cup {f} /\ UNCHANGED rec
     ELSE rec' = noteUndeliveredCompletion(rec, f) /\ UNCHANGED marked
  /\ UNCHANGED <<jobVars, openFiles, trimmed, told, broken, ever, loop, fault, budgets>>

\* routeFinalizeFailure: Stall, its pause, then the file is noted.
WatchRoute(f) ==
  /\ watch.file = {f}
  /\ \/ /\ watch.pc = "stall" /\ watch' = [watch EXCEPT !.pc = "pause"]
        /\ rec' = noteStall(rec) /\ UNCHANGED <<intent, holds, ever>>
     \/ /\ watch.pc = "pause" /\ watch' = [watch EXCEPT !.pc = "note"]
        /\ parks /\ UNCHANGED <<rec, ever>>
     \/ /\ watch.pc = "note" /\ watch' = Rest
        /\ rec' = notePendingFinalize(rec, f) /\ ever' = ever \cup {f}
        /\ UNCHANGED <<intent, holds>>
  /\ UNCHANGED <<exists, asked, resident, files, broken, loop, fault, budgets>>

-----------------------------------------------------------------------------
(* The checkpoint loop *)

\* checkpointJob needs a manifest and an open file.
CheckpointStart ==
  /\ loop = LoopRest /\ exists /\ resident /\ openFiles # {}
  /\ loop' = [loop EXCEPT !.pc = "checkpoint"]
  /\ UNCHANGED <<jobVars, files, broken, ever, rec, watch, fault, budgets>>

\* Its barrier parks the job on a fault; runs it could not acknowledge are
\* left for the re-evaluation to replay.
CheckpointEnd ==
  /\ loop.pc = "checkpoint"
  /\ IF broken
     THEN loop' = [loop EXCEPT !.pc = "park"] /\ rec' = noteStall(rec)
     ELSE loop' = LoopRest /\ rec' = IF resident THEN rec ELSE noteNeedsSeed(rec)
  /\ UNCHANGED <<jobVars, files, broken, ever, watch, fault, budgets>>

CheckpointPark ==
  /\ loop.pc = "park" /\ loop' = LoopRest /\ parks
  /\ UNCHANGED <<exists, asked, resident, files, broken, ever, rec, watch, fault, budgets>>

\* reevaluateStall: a job that has left is forgotten, the files of any other
\* are read off its record.
ReevaluateStart ==
  /\ loop = LoopRest /\ rec.on
  /\ IF exists
     THEN /\ loop' = [LoopRest EXCEPT !.pc = "retry", !.snap = rec.files,
                        !.todo = Recorded(rec),
                        !.blocked = \E f \in Files : rec.files[f] = "lost"]
          /\ UNCHANGED rec
     ELSE rec' = NoRecord /\ UNCHANGED loop
  /\ UNCHANGED <<jobVars, files, broken, ever, watch, fault, budgets>>

\* Mutant: a retry that does not look at the handle or at the manifest.
retryFinalizeBlind(f) ==
  IF ~resident THEN "skip" ELSE IF f \notin openFiles THEN "skip" ELSE answer

\* retryFinalize: no handle is final, no manifest is a failure like any other.
retryFinalize(f) ==
  CASE f \notin openFiles     -> "lost"
    [] ~exists \/ ~resident   -> "unread"
    [] OTHER                  -> answer

\* One recorded file.  The first failure is routed, the rest are counted.
Retry(f) ==
  /\ loop.pc = "retry" /\ f \in loop.todo
  /\ LET go   == loop.snap[f] = "pending"
         a    == IF go THEN retryFinalize(f) ELSE "none"
         good == a \in {"ok", "skip"}
         next == [loop EXCEPT !.todo = @ \ {f}, !.blocked = @ \/ (go /\ ~good),
                    !.snap[f] = IF good THEN "done" ELSE IF a = "lost" THEN "lost" ELSE @]
         stalls == a \in {"unread", "fault"} /\ ~loop.blocked
     IN  /\ IF a \in {"ok", "unacked"} THEN trims(f, a) ELSE UNCHANGED trimmed
         /\ IF go THEN closes(f, a) ELSE UNCHANGED openFiles
         /\ loop' = IF stalls THEN [next EXCEPT !.pc = "restall", !.file = {f}] ELSE next
         /\ rec' = CASE good       -> setFinalizeState(rec, f, "done")
                     [] a = "lost" -> stallLost(rec, f)
                     [] stalls     -> noteStall(rec)
                     [] a = "unacked" /\ ~loop.blocked -> notePendingFinalize(rec, f)
                     [] OTHER      -> rec
  /\ UNCHANGED <<jobVars, marked, told, broken, ever, watch, fault, budgets>>

\* The rest of routeFinalizeFailure for the failure that was routed.
Restall(f) ==
  /\ loop.pc = "restall" /\ loop.file = {f} /\ parks
  /\ rec' = notePendingFinalize(rec, f)
  /\ loop' = [loop EXCEPT !.pc = "retry", !.file = {}]
  /\ UNCHANGED <<exists, asked, resident, files, broken, ever, watch, fault, budgets>>

\* Every file has been tried: stay parked if one failed, else resume a job we
\* parked.  A job that cannot be resumed has left, and is forgotten.
Decide ==
  /\ loop.pc = "retry" /\ loop.todo = {}
  /\ CASE loop.blocked -> loop' = LoopRest /\ UNCHANGED <<intent, rec>>
       [] ~loop.blocked /\ rec.on /\ rec.parked /\ ~exists ->
            loop' = LoopRest /\ rec' = NoRecord /\ UNCHANGED intent
       [] OTHER ->
            /\ intent' = IF rec.on /\ rec.parked THEN "run" ELSE intent
            /\ loop' = [loop EXCEPT !.pc = "deliver", !.todo = {f \in Files : loop.snap[f] # "none"}]
            /\ UNCHANGED rec
  /\ UNCHANGED <<exists, asked, holds, resident, files, broken, ever, watch, fault, budgets>>

\* The completion of a recovered file, kept for next time when refused.
Deliver(f) ==
  /\ loop.pc = "deliver" /\ f \in loop.todo
  /\ loop' = [loop EXCEPT !.todo = @ \ {f}]
  /\ IF exists /\ resident
     THEN marked' = marked \cup {f} /\ rec' = completeFinalizeRecovery(rec, f)
     ELSE UNCHANGED <<marked, rec>>
  /\ UNCHANGED <<jobVars, openFiles, trimmed, told, broken, ever, watch, fault, budgets>>

\* A pass over a record that had no files drops the record.
ReevaluateEnd ==
  /\ loop.pc = "deliver" /\ loop.todo = {}
  /\ loop' = LoopRest
  /\ rec' = IF loop.snap = NoFiles THEN NoRecord ELSE rec
  /\ UNCHANGED <<jobVars, files, broken, ever, watch, fault, budgets>>

-----------------------------------------------------------------------------
Watching(f) == WatchStart(f) \/ WatchFinalized(f) \/ WatchComplete(f) \/ WatchRoute(f)
Reevaluating == ReevaluateStart \/ (\E f \in Files : Retry(f) \/ Restall(f) \/ Deliver(f))
                \/ Decide \/ ReevaluateEnd
Looping == CheckpointStart \/ CheckpointEnd \/ CheckpointPark \/ Reevaluating
Ticking == Grant \/ EvictManifest

StallNext ==
  \/ Ticking \/ UserPause \/ UserResume \/ RemoveJob
  \/ Break \/ RepairDevice \/ FaultStep \/ Looping
  \/ \E kind \in {"stall", "fail"} : WriteFault(kind)
  \/ \E f \in Files : OpenFile(f) \/ Watching(f)

\* Every goroutine runs; the tick and the re-evaluation are on timers; the
\* operator repairs the device.
StallFairness ==
  /\ WF_stallVars(Ticking) /\ WF_stallVars(RepairDevice) /\ WF_stallVars(FaultStep)
  /\ WF_stallVars(CheckpointEnd \/ CheckpointPark \/ Reevaluating)
  /\ WF_stallVars(\E f \in Files : Watching(f))

StallSafety == StallInit /\ [][StallNext]_stallVars
StallSpec == StallSafety /\ StallFairness

-----------------------------------------------------------------------------
(* Properties *)

\* A file that was recorded for a retry of its finalize is marked complete only
\* after a finalize has trimmed it, whatever the evictions, pauses and faults
\* between the failure and the delivery (retryFinalize, reevaluateStall).
RetriedIsTrimmed == ever \cap marked \subseteq trimmed

\* A job that has left the queue is forgotten by the stall list in the end,
\* although a stall of it may still be on its way (reevaluateStall).
GoneIsForgotten == ~exists ~> ~rec.on

\* stall.go: "each file is dropped from the recovery set only once the queue has
\* accepted its completion".
PendingIsKept ==
  exists => \A f \in ever : f \in marked \/ rec.files[f] # "none"

\* stall.go: a job parked for a fault moves again once the fault has cleared.
StallClears == exists /\ rec.on /\ rec.parked ~> ~exists \/ intent = "run"

-----------------------------------------------------------------------------
(* The invariant behind RetriedIsTrimmed.                                    *)

FileState == {"none", "pending", "done", "lost"}
StallRecord == [on : BOOLEAN, parked : BOOLEAN, seed : BOOLEAN, files : [Files -> FileState]]

StallTypeOK ==
  /\ rec \in StallRecord
  /\ watch \in [pc : {"idle", "skip", "barrier", "stall", "pause", "note", "complete"}, file : SUBSET Files]
  /\ loop \in [pc : {"idle", "checkpoint", "park", "retry", "restall", "deliver"}, todo : SUBSET Files,
               snap : [Files -> FileState], blocked : BOOLEAN, file : SUBSET Files]
  /\ ever \subseteq Files /\ marked \subseteq Files /\ told \subseteq Files

\* Whatever is recorded, read off the record, retried or marked was reported.
traced(f) == \/ f \in ever \cup marked
            \/ rec.files[f] # "none" \/ loop.snap[f] # "none"

KnownWasTold == \A f \in Files : traced(f) => f \in told

\* The file in the watcher's hands is in nobody else's.
WatchedIsFresh == \A f \in watch.file : f \in told /\ ~traced(f)

\* Of the files that failed once, only a trimmed one counts as finalized.
DoneIsTrimmed ==
  \A f \in ever : rec.files[f] = "done" \/ loop.snap[f] = "done" => f \in trimmed

\* The loop keeps to the files it read, and delivers only when each of them is
\* finalized.
settledFile(f) == loop.snap[f] \in {"none", "done"}

PassIsGood ==
  /\ \A f \in loop.todo \cup loop.file : loop.snap[f] # "none"
  /\ loop.pc \in {"retry", "restall"} /\ ~loop.blocked =>
       \A f \in Files : settledFile(f) \/ (f \in loop.todo /\ loop.snap[f] = "pending")
  /\ loop.pc = "deliver" => \A f \in Files : settledFile(f)

StallIInv ==
  /\ StallTypeOK
  /\ KnownWasTold
  /\ WatchedIsFresh
  /\ DoneIsTrimmed
  /\ PassIsGood
  /\ RetriedIsTrimmed
=============================================================================
