# A formal model of gonzbd

gonzbd downloads binary posts from Usenet: an NZB names the articles of each
file, articles are fetched over NNTP, decoded, and assembled into files at
their offsets, and the finished job is repaired, unpacked and filed. This
directory holds TLA+ models of the parts that are hard to test, the TLC
configurations that check them on small jobs, and TLAPS proofs of what matters
most for jobs of any size.

Run a check with `tlc -config dur_core.cfg MCDurability` or
`tlc -config parts_core.cfg MCParts`, a proof with `tlapm DurabilityProofs.tla`
or `tlapm AssemblerProofs.tla`. `PROJECT.json` lists the runs, the theorems, the
hazards and, under `map`, the lines of Go that each definition models.

## Inventory

| Component | State | Operations | Hard because |
|---|---|---|---|
| Job progress (`internal/job`) | Done, Failed, Emitted bits per article; Complete, filename, counters per file | mark, clear, ack, replace from runs | written by four goroutines; restored from two tables and one file |
| Pipeline (`app/pipeline.go`) | registered files and their part counts | register, route success, retryable or permanent failure | results arrive in any order, and again after a reload |
| Assembler worker (`assembler/assembler.go`) | open files, tombstones, request channel, operation channel | accept, fail, reject late, complete by count, drain, sync, truncate, close | one goroutine serves articles and barrier operations whose callers may give up |
| File writer, write cache (`filewriter.go`, `writecache.go`) | buffered, written, reported, faulted articles; who owns an offset; parts | accept, flush a run, relieve pressure, drain, confirm, roll back | two articles at one offset; a flush that fails half way |
| Durability barrier (`internal/durability`) | none of its own between calls | drain, fsync, stat, commit, ack, confirm; finalize adds truncate | must never acknowledge before it has fsynced and recorded |
| Run store | `durable_runs` rows | commit, delete, read | merging adjacent runs in one transaction |
| Barrier lock (`app/durability.go`) | a mutex per job, its holders, a deferred deletion | lock, release, forget | forgotten from inside the call that holds it |
| Stall recovery (`app/stall.go`) | per job: reason, finalize states, seed flag | note, re-evaluate, retry finalize, resume | the job is parked and evicted meanwhile |
| Checkpointer (`internal/checkpoint`) | dirty set, in-flight batch | mark, prune, flush | marks and prunes during a failing save |
| Assembler life cycle (`assembler/assembler.go`) | request channel, handles, tombstones, cancelled jobs | write, cancel, close handles, forget, stop | control messages queue behind articles; a stop overtakes both |
| Startup sweep (`app/resume_startup.go`) | none | hydrate, stat every file, correct, trim stranded files | a crash anywhere before it, and during it |
| Scheduler, dispatcher (`sched`, `dispatch`) | queue, caps, holds, attempts, workers | add, pause, resume, retry, remove, tick, settle | user commands race workers and ticks |
| Downloader (`downloader`) | in-flight tracker, tried servers, penalties, work channels | plan, dispatch, fetch, emit, reload | exhaustion against a full or penalised server |
| NNTP connection (`nntp`) | pending commands, semaphore | submit, pair, fail, close | pairing by position; cancel and write errors |
| Post-processing (`postproc`), finalizer, history | queue, current job, history rows | push, pop, cancel, stages, persist, remove | cancel against pop; crash between two stores |
| Residency, assessment (`app`) | manifest loaded or not, fetch policies, kept rows of failed jobs | hydrate, evict, release or discard recovery volumes, retry | bits are read and written while the manifest comes and goes |
| Live reload, shutdown (`app/reloader.go`, `app.go`) | downloader generation, channel the pipeline reads, byte account per job | stop, checkpoint, clear, swap, start | results of the old downloader are still on their way |
| Direct unpack (`directunpack`) | volumes seen, sets queued, one wake-up channel | add, extract, abort, wait | volumes arrive during extraction; all waiters share one token |
| Watched folder, ingest (`dirscanner`, `app.AddJob`) | file states, queue, backups | scan, add, remove, rename | files still being written; two adds at once |
| API, UI, configuration, parsers, tools | | | not modelled: input decoding, rendering and external programs |

The pipeline feeds the assembler over a channel and registers each file with
it; the assembler calls back into the application (`OnFileComplete`,
`OnArticlesUnwritten`, `OnArticleRejected`, `OnWriteFault`). A checkpoint
goroutine and the completion watcher run the barrier under the job's lock; the
barrier calls the worker through its operation channel and the job through
`AckDurable`. The checkpointer saves what was marked, on its own cadence, to
the same database the run store commits to, in separate transactions. At
startup the sweep runs before anything is dispatched.

The queue decides which job holds a lease or a slot; the dispatcher's tick walks
the queue, loads manifests, launches workers and saves rows. The downloader
fetches for the jobs that hold a lease. A finished job goes through the runner to
post-processing, whose finalizer files it in history and takes it out of the
queue.

What makes each part correct: an article is Done only if its bytes are on the
platter and its run is in the database (barrier, resume); no truncate removes
anything claimed (barrier, trim); every article emitted has an owner until it
is resolved or returned (pipeline, assembler); a file is Complete only when all
its articles are resolved, and then it is trimmed (assembler, stranded files);
every job's files complete under the process's own scheduling (stall
recovery); two barriers never run for one job (lock); no lease is lost and every
job settles (scheduler); a restart finds every job where it was saved, and a
removed one nowhere (dispatcher); one fetch per article, and none given up
unearned (downloader); a call returns with its own article (connection); nothing
is deleted that is still needed and no job is lost between queue and history
(post-processing).

## Modules

| Module | Contents |
|---|---|
| `Durability` | one job, its files and articles, from dispatch to Complete, with faults, abandoned operations, crashes and restarts |
| `DurabilityInv`, `DurabilityProofs` | the inductive invariant behind its safety properties; the TLAPS proofs |
| `FileWriter` | one file whose articles may share offsets: the worker's bookkeeping, the write cache, retries and reloads |
| `BarrierLock` | the per-job barrier mutex, which may be forgotten while it is held |
| `RunStore` | the rows of `durable_runs`: how a commit subtracts, folds and drops |
| `AssemblerLife` | the assembler's request channel, cancellation, hand-over and stop |
| `StallRecovery` | parking a job for a storage fault, and getting it moving again |
| `Reload` | replacing the downloader while results are in flight; shutdown |
| `JobContent` | the bits and counters of a job, its manifest, its rows, the checkpointer, retries |
| `JobLifecycle` | the doors of a job's work spine, as operators on a job |
| `Sched`, `SchedProofs` | the scheduler: lease and slot pools, gates, grants, parking, settling; what every door of it preserves, proved |
| `SchedWork`, `SchedWorkProofs` | `Sched` with a walk, workers and a user; its proofs |
| `Dispatcher`, `DispatcherProofs` | `Sched` with registry, tick, launches, removal, the store, crash and restore; its proofs |
| `WorkSpine` | abstract: what both promise of every job |
| `Downloader`, `DownloaderProofs` | dispatch passes, servers, connection workers, results, pause, reload; its proofs |
| `NNTPConn` | one pipelined connection |
| `PostStages`, `PostQueue` | the stages of post-processing; its queue, worker and finalizer |
| `DirectUnpack` | extraction during the download |
| `Ingest` | watched folder and `AddJob` |
| `AssemblerProofs` | proofs about `FileWriter` and `AssemblerLife` |
| `AppProofs` | proofs about `BarrierLock`, `NNTPConn`, `Ingest`, `StallRecovery`, `Reload` and `JobContent` |
| `PostProofs` | proofs about `PostQueue`, `PostStages` and `DirectUnpack` |
| `MCDurability`, `MCFileWriter`, `MCSchedWork`, `MCDispatcher`, `MCDownloader`, `MCAssemblerLife`, `MCDirectUnpack` | instances for single components (`StallRecovery` is also run as it is) |
| `MCParts`, `MCMoreParts`, `MCLiveParts` | components that share no state, one to a behaviour |

How they fit. `Dispatcher` and `SchedWork` are two compositions over `Sched`: the
first follows one job through everything the dispatcher does around a scheduler
call, the second lets several jobs compete for leases and slots; both are shown
to implement `WorkSpine`. `Downloader` takes the articles of a job that holds a
lease to the pipeline; `NNTPConn` is what one of its workers calls. `Durability`
takes an article from there to the platter and back after a crash, with one
article to an offset; `FileWriter` looks at colliding articles, `RunStore` at the
rows that `Durability` keeps as a set, `BarrierLock` at the mutex it takes for
granted, `AssemblerLife` at the channel in front of the worker, `StallRecovery`
at the parking and the eviction that follow a failure. `JobContent` holds the
counters beside the bits. `PostQueue` begins where the runner hands a job over, and treats the
stages as a fate; `PostStages` is that fate.

`MCParts`, `MCMoreParts` and `MCLiveParts` put components that share no state in
one specification each: a variable `part`, chosen at the start, says which
component the behaviour plays, and the variables of the others stay as they begin,
in one fixed initial state. A behaviour of the run is a behaviour of one component,
so the run shows exactly what a run per component would; the state spaces add up
instead of multiplying. In `MCLiveParts` the fairness of a component is asked of it
only while it is the one that is played.

## Runs

| Run | Instance | Shows |
|---|---|---|
| `dur_core` | any 1 of 10 kinds of fault, 1 crash, 1 file removed or cut | `DoneIsDurable`, `DoneIsRecorded`, `ClaimedIsNeverCut` |
| `dur_complete` | 2 faults other than a failed write, 1 crash | `CompleteIsResolved`, `CompleteIsTrimmed`, `NoStrandedArticle` |
| `sched_core` | 2 jobs, 2 leases, 1 slot, 1 way back from Assessing, 1 user call, fair | `LeasesConserved`, `EveryJobSettles`, refinement `KeepsTheSpine` |
| `disp_core` | 1 job, 2 removers, 1 call, fault or crash | `RestoreExact`, `NoResurrection`, `ManifestOutlivesWorker`, refinement `KeepsTheSpine` |
| `fetch_core` | 2 articles, 2 servers, 1 call or fault, fair | `OneFetcher`, `EmittedIsInHand`, `GiveUpIsEarned`, `AllResolved` |
| `parts_core` | seven components, one to a behaviour | `PartsCounted`, `ClaimedBytesAreThere`, `CountersAgree`, `MarkedIsKept`, `RowsAreRuns`, `DuplicateIsReported`, `RemovedIsLeftAlone`, `AdmittedIsAccounted`, `RetriedIsTrimmed`, `QueuedBeforeRemoved`, `NeverLost`, `CancelTakes` |
| `parts_more` | barrier lock, reload, stages, Direct Unpack, one to a behaviour | `Exclusion`, `UnackedKeepsItsBit`, `NoneLeftRunning`, `PayloadKept`, `Par2OutlivesNeed`, `HandedIsWhole` |
| `parts_live` | durability, NNTP connection, post-processing queue, one to a behaviour, fair | `JobCompletes`, `BodyIsAsked`, `EveryCallReturns`, `PushedIsTaken` |
| `fw_two_fates` | 3 articles, 1 failed write | violates `OneDisposition` |
| `life_double_release` | 2 files, 1 failed open | violates `BufferHasOneOwner` |
| `stall_never_clears` | 1 file, 1 fault, fair | violates `StallClears` |
| `du_never_posted` | 2 sets, one volume damaged, fair | violates `CollectedIsPosted` |

Deadlock is not checked: jobs finish, connections close and the budgets for
faults and calls run out, so every model may properly stop. What must not stop
is stated as liveness. Faults, crashes and calls of the user are bounded and
never fair: nobody need fail or click. `PROJECT.json` says of every property
which change of the code would break it.

### Durability

State follows the owners in the code. `done`, `failed`, `emitted`, `complete`
and `name` are `job.JobProgress`. `total` is the pipeline's registered part
count (0 before `registerFile`), `flight` the results on their way to the
worker, `fatalq` the `FatalErr` requests of articles that already failed.
`open`, `tomb`, `buf`, `written`, `reported`, `seenDone` and `seenFailed` belong
to the worker and its writers: an article is buffered, then written to the page
cache, then part of a drain report until a confirm. `page`/`size` are what a
file reads as, `plate`/`psize` what is on the platter. `runs` are the articles
covered by `durable_runs`; `dbfailed`, `dbcomplete` and `dbname` what the last
flush saved. `bpc` is the running barrier's phase, `btodo` the files this phase
still has to serve, `bfiles` those still in the barrier, `bgot` the drained
articles. `late` is one operation whose caller stopped waiting. `stall` is the
job's stall record with the pass of the re-evaluation over it. `fin` is a
file's way from its last part to Complete: queued, running, pending (failed,
for the stall re-evaluation), close/rclose (handle to be released), deliver,
done (finalized, completion not delivered), lost (its handle is gone), unread
(its manifest is gone), dropped (its record is gone).

Each action is one handler or one step between two calls that can be
interleaved with other goroutines; `PROJECT.json` maps each to its lines. A
barrier phase serves its files one by one, in any order; the worker runs an
operation as one step, as it does in the code, where no article is accepted
meanwhile. Between the operations everything else may happen. A caller that
gives up has put its operation into the queue or not even that. Releasing a
handle drains it first; the drain may fail half way, the fsync behind it too.

The stall re-evaluation is as many steps as it has phases: it copies the files of
the record (`Reevaluate`), retries the finalize of each (`Finalize` and the
barrier's steps), ends the pass when one could not be finalized (`Blocked`),
replays recorded runs or logs that it could not (`seedFromCommittedRuns`),
delivers one file at a time (`Redeliver`) and drops the record, with whatever was
recorded since the copy when the copy was empty (`clearStall`). A retry that finds
no manifest is refused and stays refused, because the refusal parks the job and a
parked job is not loaded again: `StallRecovery` models that circle, and here the
file is `unread` for the rest of the process.

Abstractions: an article fills one block and has its own offset; a path is a
number, because what matters of a name is whether it is the one saved and
whether a later process would pick another; the CRCs, byte counters and
fetch policies are left out. A fault of kind `k` is possible wherever the code
handles it: `retry` and `article` (server verdicts), `open`, `write`, `sync`
(storage), `timeout` (the wait for the worker ends), `db` (commit), `resident`
(manifest evicted before an ack or a delivery), `evicted` (before a finalize asks
for it), `sweep` (startup). A failed fsync leaves the pages dirty. A
failed pre-allocation is a choice at every open. At a crash every file keeps
what was fsynced and any part of what was not, length and blocks separately.

`unchecked` is a history variable: the files that have runs the startup sweep
could not vouch for, because they had no filename or because the sweep failed
before reaching them. `DoneIsDurable` excepts them, and so says nothing about a
filename that was not yet saved when the process died (see Disagreements).

The runs use one file of two articles, declared one block longer than it is, so
that pre-allocation leaves a tail to trim. Two articles are enough for partial
drains, for a run followed by another, and for one article resolved while the
other is in any other state; one file is enough because the files of a job
share only the barrier and the lock, which serve them one after another.

`dur_complete` leaves out failed writes, a second crash and the eviction of a
manifest during a finalize, `parts_live` leaves out failed opens: with them the
properties do not hold (see Disagreements). `parts_live` has two faults (server,
fsync, time-out, commit, eviction) and no crash; `JobCompletes` (`FilesComplete` of
the module) says that in the end every file is complete or given up (`givenUp`: unread or dropped): a file whose own
finalize failed may wait for the next start, as the code makes it, while a fault
of a checkpoint, of a fetch or of a delivery may not keep a file from completing.

Fairness (`LiveSpec`): weak fairness for the goroutines that always run, that
is dispatch, the worker, the steps of a barrier that holds the lock, release,
delivery, the flush ticker and the steps of a re-evaluation. Strong fairness for
`Finalize` and the start of a re-evaluation, which wait while a checkpoint runs. The
re-evaluation has its own timer in the checkpoint loop. A finalize waits for the
job's lock: it is a `sync.Mutex`, whose starvation mode
hands it to the longest waiter, so a stream of checkpoints cannot keep it out
for ever.

Proved, for every finite set of articles, every assignment to files, offsets and sizes,
every set of faults and every bound:

- `InductiveInvariant`: `Spec => []IInv`. `IInv` is `TypeOK` with eight parts.
  `DoneIsDurable` alone is not inductive: an ack is safe because what the barrier
  drained is on the platter (`BarrierInOrder`), which needs that what a writer
  reports is in the open file (`WriterHoldsPages`), that no truncate, prompt
  (`FinalizeIsAlone`) or late (`LateCutIsSafe`), cuts it away, and that names do
  not change under it (`NamesAgree`). Across a restart it needs that what is
  recorded is on the platter or visibly missing from the file's length
  (`RunsAreOnPlatter`, `DownIsQuiet`), and that what is Done is recorded
  (`DoneHasRuns`).
- `TypeCorrect`, `DoneIsAlwaysRecorded`, `DoneIsAlwaysDurable`: its corollaries.
- `ClaimedBytesSurvive`: the action property `ClaimedIsNeverCut`.

The proofs rest on `ConstantAssumption` only. `boundOver` is defined by CHOOSE;
that it exists is proved from the well-foundedness of the naturals (`BoundOver`).

Three more theorems hold under `NoRollback`, that is while no write fails and no
manifest is missing when a finalize begins (every other fault is allowed), for
every number of those faults:

- `NothingIsStranded`: `NoStrandedArticle`, with any number of crashes.
- `CompleteIsEarned`: `CompleteIsResolved`, up to the second crash.
- `CompleteIsCut`: `CompleteIsTrimmed`, up to the second crash, with any tampering
  while the process is down.

The argument is a count. The worker completes a file when as many parts are
counted as were unresolved when it was registered, and nothing in the code says
that these are the same articles. `Awaits` says it: there is a set of articles
resolved before the count began, which nobody counts, so that the part count is
the number of the others; a file with that many parts counted has them all
(`CountIsWhole`), hence `TombIsWhole`. `StrandInv` follows each article from there: what a
writer holds is accepted, a barrier drains all that its files report and acks it
before the confirm releases it (`DrainIsWhole`), and a handle is released only of
a resolved file (`ClosedIsResolved`). `CompleteInv` carries this to what the
checkpointer saved. `TrimInv` says that a finalize past its truncate has cut the
file at the end of what it is about to record (`FinalizeCuts`), that nothing is
written to a file or recorded of it after that (`OverIsTrimmed`, which needs
`TombIsWhole` again: no result for the file is under way), and that a start
finds it no longer than its record (`SavedIsTrimmed`).

None of the hypotheses can be dropped: TLC finds a counterexample without each of
them (see Disagreements). Liveness is checked by TLC only.

### FileWriter

`w` is the `FileWriter` struct of one file as a record: `seenDone`,
`seenFailed`, `parts` (`partsWritten`), `owner` and `settled` (`acceptedAt` and
its written flag), `buf` (the file's entries in the write cache), `written`,
`reported`, and the faulted list as `rolled` and `displaced`. `file` is what the
file holds at each offset. An operator with the name of a Go method is that
method, from a writer to a writer; a worker request is a composition of them
that ends in `Route` (`releaseFaulted`) and `CompleteOn` (`finalizeFile`), and is
one step, because one goroutine runs it without waiting. `done`, `failed`,
`emitted` and `complete` are the queue's bits. `flight` holds the data requests
and `fatal` the permanent failures on their way to the worker; the two are sets,
with the one order that the channel guarantees and that matters (`Arrives`).

Abstractions: an offset is a slot, so articles collide fully or not at all; a
coalesced run is any contiguous stretch of buffered offsets that holds the
article just buffered, because sizes and the write cursor are left out; whether
a request meets cache pressure is a choice; a failed write leaves nothing in its
range that can be relied on. `Reload(FALSE)` is a job whose checkpoint failed.
A closed file is not opened again in this process.

`parts_core` checks `PartsCounted` and `ClaimedBytesAreThere` for four articles,
two at offset 1, one at 2 and one outside the file, with one failed write and one
reload. Two articles at one offset are the smallest collision; the third lets a
run coalesce and a drain fail half way, with an article before and one after the
failure; the fourth meets the range check.

`FileCompletes`, that every file is completed in the end, does not hold of the code
and is in no run: after two failed writes, and the
sequence of `fw_two_fates`, the part count reaches the total on a retry, which
returns before the count is compared (`assembler.go:1497`), and the file waits for
a request that never comes. A reload breaks it as well: the copy of a displaced
article is then dropped while the article stays emitted (`DuplicateIsRedundant`,
`assembler.go:1708`). It is asked under `LiveSpec`, so that stopping is no excuse: the
downloader dispatches, the worker serves its channel, drains and acknowledgements
go on (weak); closing a finished file waits for the job's lock between two
checkpoints (strong, as for `Finalize` above). `EmittedIsOwned` and
`FullCountCompletes` hold with one failed write and no reload and are in no run.

Proved, for any finite set of articles, any offsets and any bounds, from
`WriterAssumption`:

- `WriterStaysConsistent`: `Spec => []IInv`. The part count and the claim about
  bytes are not inductive alone. `OwnersAgree` relates the three maps over
  offsets: a buffered article owns its offset, which is then not settled; a
  settled offset holds its owner's bytes. With it, a flush can only write to
  offsets that nobody relies on, and what a flush rolls back stood nowhere else
  (`Clean`). Each operator has a lemma that it keeps `WriterInv` and what was
  settled (`Keeps`); each action is the composition of its operators' lemmas.
- `TypesHold`, `PartsAlwaysCounted`, `ClaimedBytesStay`: its corollaries.

Liveness, `EmittedIsOwned` and `FullCountCompletes` are checked by TLC only; the
last two hold up to one failed write, not in general.

### BarrierLock

`entry` is the map `jobBarrierMu`, with each entry's mutex, holder count and
forgotten mark; a goroutine looks a job's entry up, waits for that mutex
(`got`), runs its barrier, unlocks, and releases by job ID in a deferred call.
`forgetJobBarrierState` may come at any moment, also from inside the barrier.
A mutex is a number, so that a second one minted for the same job is told apart
from the first.

`parts_more` checks `Exclusion` with three goroutines, two jobs and three mutexes.
Three goroutines are needed for the case at stake, one in its barrier, one
waiting on the same mutex and one that comes after the job was forgotten. Proved
from `LockAssumption` for any number of goroutines, jobs and mutexes:
`EveryUserIsCounted` (`IInv`), `OneBarrierPerJob` (`Exclusion`), `MapStaysSmall`
(`NoDeadEntry`). Exclusion follows because a goroutine between lookup and release
is counted, so the entry it stands on is not deleted (`OneMutex`), and all
goroutines of one job therefore compete for one mutex (`MutexHeldOnce`).

### The job queue: JobLifecycle, Sched, SchedWork, Dispatcher, WorkSpine

`JobLifecycle` is `internal/job`'s state machine as operators: for each door
`XxxOK` (when it does not return an error) and `Xxx` (the job after it). `Sched`
adds the lease pool (`issued`), the compute slots (`held`, keyed by name), their
capacities, the pause flag and the aborts under way; every method of the Go
`Queue` runs under one mutex and is one step. A lease is drawn from a finite set,
any that is neither issued nor held, because the counter of the code never
repeats one and nothing compares two that are not alive together.

`SchedWork` puts the least around it that makes jobs compete: a walk over the
jobs, workers that record a decision and yield in a later step, a user who pauses,
resumes, cancels, retries or changes the capacities. Two jobs with one slot and
two leases are enough for each to wait for what the other holds. `LeasesConserved`
says that no path through the doors loses a lease or shares it. `EveryJobSettles`
is the liveness of the whole queue, under weak fairness of the walk (the tick is
on a timer and visits every job) and of the workers (a download ends in success
or failure, a stage returns). `SlotsWellHeld` and `ReportedReadyMoves` hold on the
same instance.

`Dispatcher` follows a job through `internal/dispatch` and the worker side of
`internal/app`. `Dispatcher.mu` protects one map operation at a time and is never
held across a call into the scheduler, the store or the residency, so each such
critical section is a step (taking a snapshot and saving it, rendering and evicting,
deleting and deregistering, parking and clearing the launch are merged: nothing that
the model distinguishes can come between): the tick (`tk`) that walks, promotes, hydrates,
launches and saves; removers (`rm`), of which two can be inside `Remove` for one
name; occupancy tokens; the shutdown sweep; a death of the process at any point
and the restore that replays the stored rows. `Scenario` bounds a behaviour to
one call or fault, or to one crash; removers are symmetric. `RestoreExact`: what
would be written for a job rebuilds it, on whatever path it came there.
`NoResurrection`: the tick that was about to save a job when `Remove` deleted its
row does not bring the row back. `ManifestOutlivesWorker`: nobody unloads a
manifest under a running worker. `AloneAtEnd` holds as well.

`WorkSpine` is the abstract specification: a job moves one legal edge at a time,
never back over the boundary into production, holds one of at most `cap` leases
only while it is open and before that boundary, settles where its outcome is
admitted, and after a restart stands where it was last saved. `KeepsTheSpine` is
`INSTANCE WorkSpine WITH` a mapping from the detailed state; both `SchedWork` and
`Dispatcher` are checked to implement it, every step a spine step or a stutter.

Proved for any jobs, leases and capacities, from `IdOfAssumption`,
`LeaseIdAssumption` and `CapsAssumption`. `SchedProofs` shows what both
compositions rest on: every door of the scheduler preserves `SchedInv`, which is
the type invariant, `issued` being finite, `LeasesConserved`, `LeasesWellPlaced`
(only an open job before the boundary holds a lease) and, for each job, `Sound`
(state, next state, outcome and intent are a combination the doors can leave).
The proof brings every door to one shape, `InDoor`: one job changes along one edge
of the spine, and its lease is kept, handed back or newly taken; that shape
preserves the invariant and maps to a step of `WorkSpine`. The refinement needs
the invariant at a grant: holders map one to one into issued leases, so fewer
leases issued than the capacity means fewer holders than the capacity.
`SchedWorkProofs` then has `QueueStaysConsistent`, `LeasesAlwaysConserved` and
`DoorsKeepTheSpine`.

`DispatcherProofs` does the same for the dispatcher, for any number of jobs,
removers, calls and crashes (also from `NoneAssumption`, `RemoverAssumption` and
`ScenarioAssumption`), with an invariant in two parts:

- `DispBase` holds whichever names jobs have: `SchedInv`, the types, and
  `RegistryOK` (the order lists every registered name once, and each object stands
  under its own name). `RowsRebuildTheirJobs`, that is `[]RestoreExact`, follows from
  `Sound`: the row drops fields of the job, and the replay of the doors finds them
  again only because of what `Sound` says of jobs at rest.
- `DispInv` adds, for names that are used once (`NamesAreUnique`): claims, tokens
  and rows belong to known jobs, the mark of a name counts the removers between
  their first and last step (`MarksCount`), a remover at its last step is alone with
  a deleted row, the tick deletes only what is idle, and `NoResurrection`. It gives
  `MarksCountRemovals`, `RemovedRowsStayGone`, `ManifestsOutliveWorkers` (an action
  property) and `DispatcherKeepsTheSpine`, in which a crash maps to the restart of
  the abstract specification. For a job retried under its old name none of the four
  says anything.

`NamesAreUnique` is a hypothesis of those four theorems and not an assumption of
the module, because the code does use a name again, for a job retried from
history; the proof attempt without it is what found the removal of the new job
listed under Disagreements.

### Downloader

One job's articles, the dispatch goroutine (`disp`, with the plan of its pass),
the tracker (`tried`, `inFlight`), per server a bounded channel, penalty and
connections, per connection a loop and its request handlers, the FIFO of results
and the pipeline that takes them, the job's bits, and what the assembler holds
until a barrier. Calls from outside: pause, resume, low disk, options, job pause,
removal, unblocking a server, stop, reload.

Merged steps, each because nothing the model distinguishes can come between:
dialling and publishing the connection; emitting and clearing in-flight; a plan
and the lock it is made under. The `dispatchReady` signals are left out because
the ticker can start a pass at any time; time is `PenaltyExpires` and `Aged`.
`answered` is a history variable: which servers really refused an article.

`MCDownloader` has a primary server that pipelines two commands and an optional
fill server. Its scenarios are one article and two servers with a call or with a
fault, under lax and strict options, and two articles that share a connection
with a fault. `OneFetcher`: the tracker's count is the number of requests, at most
one. `EmittedIsInHand`: an article that dispatch skips because it is claimed is in
somebody's hands. `GiveUpIsEarned`: a pause, a dead connection or a penalised
server is never counted as a refusal. `AllResolved`: while the job is left to run,
every article is resolved. `PausedIsQuiet` holds on the same instance. Fairness:
the goroutines run, a server answers or times out, barriers come round; strong
where a goroutine waits for `contentMu` or for room on the results channel, which
Go hands over in FIFO order.

Proved in `DownloaderProofs`, for any number of articles, servers, connections and
pipeline depth, whatever the calls and faults, from `BoundsAssumption` and
`ServersAssumption`: `ArticlesHaveOneFetcher`, `EmittedArticlesAreInHand` and
`GivingUpIsEarned`. The inductive invariant `FetchInv` has, beside types and the
slots and plans that go with each control point, these parts:

- `OnePlace`, while the job is tracked: an article is in one channel or at one
  handler at most, and the tracker's count says so. `OneFetcher` follows.
- `TriedAnswered`: a server on an article's try list has refused it or is still to
  answer for it. The list alone cannot show that a refusal happened, since it is
  written before the request is sent.
- `GivenUp`: what a pass has planned to give up was refused by every server that
  counts and is asked of nobody. At the moment of the decision this follows from
  the two above, nothing being in flight; it survives to the emission because a
  pass sends nothing it has given up, and only the pass sends.
- `DoneIsNotEmitted` and `EmittedIsInHand`: each handler step is one of five
  outcomes (it goes on, gives the article back, is refused, decodes, or emits), and
  whoever lets go of an article without a result clears its claim.

### NNTPConn

The handshake, callers of `Fetch` and `Stat` (`fetches`), the FIFO of pending
commands and its semaphore, the send lock, the reader that pairs responses by
position, and the three teardowns (reader, failed write, `Close`) that share one
`closeOnce`. The server is external: it answers in order, may send a line nobody
asked for, drop the connection or stay silent. `parts_live` has a BODY and a STAT
for different articles on a connection that pipelines both, and one fault of the
network. `BodyIsAsked` needs the Message-ID check on 222; `EveryCallReturns` needs
that every pending command is woken by whichever teardown wins. Fairness is of
the reader (a read without data times out) and the callers, not of the server.
`SlotsConserved` holds as well; the model's semaphore is a count that does not go
below zero, so that releasing a slot twice would not show. TLS, capabilities and byte framing are left out.

Proved in `AppProofs`, for any commands, pipeline depth and number of faults:
`BodyIsAlwaysAsked`, `NntpSpec => []BodyIsAsked`. What a caller returns was put
into its result channel earlier, and what is put there was read off the wire
before that, so `NntpIInv` carries the check along: every answer stored for a
command, and the one the reader holds for the command it has popped, was compared
with that command (`AnswersChecked`). Nothing is assumed of the position of
responses, which stray lines do shift.

### RunStore

The rows of one file, with first and last article, offset, length and CRC; a CRC
is the sequence of articles it was computed over, so that combining two is
concatenation and a wrong order shows. `cycle` is a barrier between its commit and
its return: the commit of any batch of articles (also ones already covered, also
none), the acknowledgement or its refusal, and the report are separate steps, with
a restart between any two. Posts: a well-formed one of five articles, one with two
articles at its start, one with an article posted twice, one without offsets; two
restarts, truncations or retries. `RowsAreRuns` compares the folding with a
definition of maximal runs.

`DuplicateIsReported` relates what the rows absorbed to what the user was told. The
code looks for an overlap at every report but is allowed to miss it: a refused ack
reports only the collisions of its own commit (`barrier.go:301`), reading the rows
may fail (`375-379`), a crash may come between commit and report, and before the
finalize the size that pre-allocation gave the file hides an overlap. So the
property asks for the report once every article is acknowledged and one finalize
has read the rows since the last commit (`unasked` remembers that none has). That
a file which never gets such a look goes unreported is the code's behaviour, and
outside the property.

### AssemblerLife

The request channel that articles and control messages share, the senders and
callers that may give up waiting, the worker's handles, tombstones and cancelled
jobs, the cache, and the buffers of the pool. `parts_core`: two files of one
article, a channel of two, one failed drain or open; a cancel that keeps files, one
that deletes them, a hand-over and a retry all compete. `RemovedIsLeftAlone`: once
`RemoveJob` was told the handles are closed, no queued or late article opens a
file again. `AdmittedIsAccounted`: what was admitted is cached, written or handed
back. `life_double_release` shows the double release of a buffer.

Proved in `AssemblerProofs`, for any articles, files, channel length and faults:
`RemovedJobIsLeftAlone` and `AdmittedStaysAccounted`, from `LifeIInv`. A retry of
the job lifts the tombstone, so that a confirmed removal would not last if one
could still come behind it. `TombstoneStays` says that no `forget` stands behind
a removal in the channel, which rests on `RemovedOnce`: the application removes
a job once, and sends nothing for it afterwards but that removal.

### StallRecovery

The stall record of one job and the four threads that touch it: completion
watcher, checkpoint loop, the goroutine of a write fault, the API; the tick takes
slot and manifest from a parked job. `parts_core`: two files, one fault, one user
call; `RetriedIsTrimmed`: a file whose finalize was retried is complete only when
trimmed. `stall_never_clears` asks under `StallFairness` (the goroutines run, the
tick and the re-evaluation are on timers, the operator repairs the device) whether
a parked job moves again. `GoneIsForgotten` holds.

Proved in `AppProofs`, for any files and number of faults and user calls:
`RetriedFilesAreTrimmed`, `StallSpec => []RetriedIsTrimmed`. The retry loop works
on a snapshot of the record while the watcher and the fault goroutines write to
it. `StallIInv` therefore speaks of both: a file that once failed is `done` in
the record or in the snapshot only when trimmed (`DoneIsTrimmed`), the loop
delivers only when every file it read is settled (`PassIsGood`), and the file in
the watcher's hands is in nobody else's (`WatchedIsFresh`, from `KnownWasTold`:
the assembler reports a file once).

### Reload

A downloader generation being replaced: its completions channel, the pipeline
that reads one channel at a time, the assembler's requests, the byte account
(`jobBarrierBytes`) that says which jobs still have unacknowledged bytes, three
callers of checkpoints (loop, reload, shutdown) and their failures. A checkpoint
asks the worker four questions: for the open jobs, for the job's open files
(`checkpointJob`), for the open files once more (the barrier's own), and for the
drain. Each operation has a reply channel of its own (`submit`): a question whose
caller stopped waiting stays in the queue and its answer is read by nobody
(`forsaken`). Shutdown stops the downloader within a time limit; one that outlasts
it is `abandoned` and may end later or not at all.

`parts_more`: two articles, one reload, one failed or late operation or stop (two
reloads were checked by themselves). `UnackedKeepsItsBit`: a reload never offers an
article whose bytes are held or on their way, unless the barrier's own listing timed
out; without that exception it is `WrittenKeepsItsBit`, which one time-out violates. `NoneLeftRunning`: a downloader that runs when
Shutdown has returned is an abandoned one, and never one that a reload was
building meanwhile.

Proved in `AppProofs`, for any finite set of articles (`ReloadAssumption`) and any
number of reloads and faults:

- `ReloadKeepsUnacked`: `ReloadSafety => []UnackedKeepsItsBit`. The reload clears
  bits where the byte account says that nothing is left to acknowledge, so
  `ReloadIInv` has to show that the account never says so too early.
  `BytesCover`: the account is at least the number of articles sent or held and
  already counted, also after what a barrier under way will take off for the
  articles it drained; an article that arrives behind the barrier's question is
  not among those. `ReloadProtects`: what the reload's own checkpoint has made
  sure of at each of its steps, which needs that the pipeline has let go of the
  old channel (`OneSource`), that an article is in one place (`InOnePlace`) and
  that a question in the queue is one its caller still waits for
  (`QuestionsAwaited`).
- `ShutdownLeavesNoneRunning`: `ReloadSafety => []NoneLeftRunning`. `StoppedForGood`:
  the shutdown goes past the downloader only with `reloadMu` in hand, having
  stopped or abandoned the one that runs, and no reload begins afterwards
  (`OneRuns`).

The invariant of the first holds until a barrier runs over a listing that never
came (`unlisted`), which is a hypothesis of each of its steps; the second does not
depend on it.

### JobContent

`prog` is `JobProgress` with the bits and every counter kept beside them; the
manifest may be unloaded and is loaded again in three steps; `rows` are the saved
tables, `checkpointer` its dirty flag and the batch in flight. `parts_core`: a data file
of two articles and a deferred recovery volume, with different sizes so that byte
counters cannot agree by chance, and one failing save, lost lease, reload, crash
or retry. `CountersAgree` relates the counters, which are updated incrementally,
to the bits; claims that an eviction dropped are excepted (see Disagreements).
`MarkedIsKept`: a mark made while a save is under way or failing is not lost.

Proved in `AppProofs`, for any articles, files, volumes and number of upsets:
`MarkedStaysKept`, `ContentSpec => []MarkedIsKept`. `ContentIInv` strengthens it in
three ways. `RowsTrailJob`: the rows never say of a file more than the job does,
nor more than the save under way, so no save or hydration takes a completed file
back. `SavedOrSaving`: the property itself, also while the manifest is being
restored. `PrunedOwesNothing`: when the end of a job has pruned a batch whose
save then fails, the batch does not go back; that is right because the next life
of the job begins with no failure and with just the files that were kept. The lemmas under it say
what each operation of `JobProgress` does to failures and completed files, and
that recounting touches neither.

### PostStages, PostQueue

`PostStages` walks one job with two archives, RAR and split, each with its par2
set, through the stages; the outcome of a tool is a choice, an error never stops
the walk, and a crash starts it over on what is left on disk. An extraction is two
steps: the output exists in part before it is whole, because a join and an external
unrar write in place, and an output that exists is taken for the work of an earlier
walk (`filejoin.go:66-78`, unrar's `-o-`). A join asks only that the parts are
numbered without a gap, so damaged parts are joined without an error (`content`
is then `bad`). The cleanup deletes the volumes of one archive after the other, and
a crash may leave some of them (`short`). Directories that cannot be read, a
quick check without a result, a failed move and a failing script are upsets. The
configurations of `parts_more` switch quick check, join, cleanups, levels and
folders, and in one of them the RAR volumes carry names that the sample cleanup
deletes; three upsets are enough for a failure in each of two walks with a crash
between them. `recover-par2-names` and `deobfuscate`, which rename, are left out, and
what `unpack.Scan` cannot recognise is a choice (`hidden`).

- `PayloadKept`: volumes go only once their content was extracted to the end, and
  nothing deletes the content. Excepted are an archive of which a cut-off
  extraction left half a file (`cut`; without this exception one crash in
  mid-join is a counterexample, `CutJoinKeepsParts`), a join that is switched off (`SkippedIsKept` below), and
  names the user has told the program to delete. Content joined from damaged parts
  counts as content here.
- `Par2OutlivesNeed`: no step deletes a par2 set whose archive still needs it: the
  content must be on disk and come from sound volumes. Beyond the exceptions above
  it leaves out an archive that nobody recognised, the levels that do not unpack,
  and a set that a repair passed over without looking (`unseen`), either because
  Direct Unpack had extracted the other archive or because of the verdicts of an
  interrupted walk. The latter is `VerifiedIsSound`: after a crash between two repairs
  `AllVerified` asks only the sets that have a verdict.
- `AlienSurvives` holds on the same instance.

`PostQueue` is around it: the hand-off (which waits for Direct Unpack), the queue
with its one-slot wake-up channel, the worker, the finalizer's stores in order,
removal by the user, stop and restart. `persistAndCommit` begins with the
dispatcher's Cancel and Yielded (`CancelAndYield`), which latch the job's intent; a
tick may save that (`TickSaves`) before the history entry is written. Its jobs are
those the runner hands over at Repairing, Extracting and Finalizing; jobs that
`maybeFinalize` files without post-processing and `evictCancelledNeverRun` are not
modelled. `parts_core`: two jobs, one removal, one refused call, stop or crash.

- `NeverLost`: a job is in the queue's store or in history at every moment. That the
  queue's store still has it does not mean that it will run: a crash right after
  `CancelAndYield` and a tick leaves a row that says cancelled, and the
  restarted process holds the job and never launches it (`ReEnqueued`).
- `CancelTakes`: a job that `Cancel` found in the queue, or with the worker before it
  looks at the contexts a last time, does not reach the finalizer. After that look
  `Cancel` still answers true (`postproc.go:274-282`) and the job is filed.
- `PushedIsTaken`, in `parts_live` with fairness of worker and hand-off: no wake-up
  is lost.

No run checks `FailedKeepsRuns`, which is proved: a job filed as Failed keeps the
rows its retry resumes from, also when a crash leaves it in the queue and the next
life processes it once more, with success.

`PostProofs` proves two theorems about `PostStages`, for any configuration and any
number of upsets, from `StagesIInv`:

- `PayloadIsKept`: `StagesSpec => []PayloadKept`, from `KeepInv`. An archive counts as
  extracted long before its volumes are deleted, and Direct Unpack may have said
  so before the walk began; `ExtractedIsKept` says that the content stays
  meanwhile, `PartIsWritten` that half a file of an archive not cut off is the one
  being written, so that no output found on disk is half a file, and `TodoIsThere`
  that the volumes of what is still to be extracted are all there.
- `Par2SetsOutliveNeed`: `StagesSpec => Par2OutlivesNeed`, an action property. The
  cleanup deletes a set by looking at error flags, so `SeenIsUnpacked` says what
  the absence of an error means: every archive that unpacking saw was extracted.
  `ParNeedsVolume` gives that it sees each archive whose set is still there. That
  the content is sound is `SightInv`: damage is repaired, an error or passed over
  (`DamageIsSeen`), and a verdict on disk is never good for a damaged archive.

It also proves the three safety properties of `PostQueue`, for any set of jobs and
any number of removals and faults; none is inductive alone.

- `NoJobIsLost`: `PostSpec => []NeverLost`. Deleting the queue's row would break
  it in a state where the worker arrived there with nothing filed. `PostIInv` adds
  `FiledBeforeRemoved`: the worker reaches the row only with the history entry
  written or refused.
- `CancelledNeverFiled`: `PostSpec => []CancelTakes`. `CancelIInv` adds that a job
  is appended once in a life of the process (`HandedOnce`: the queue holds no job
  twice, nor the one the worker has), and that what `Cancel` found is out of the
  queue for good, or under the stages with its context cancelled (`CaughtIsOut`,
  which needs that the job under the stages is the current one, the mark set
  under the queue's lock). `Cancel` deletes the first position that matches, so
  without `HandedOnce` it could leave a second one behind.
- `FailedRunsStay`: `PostSpec => []FailedKeepsRuns`. `RunsIInv` adds that an entry
  not refused says what this life's stages ended in (`FiledAsRun`), and that rows
  go only with a success in history, a refused entry or a removal past the
  queue's row (`RunsOutlast`); a job still in the queue's store has no such
  removal, so the restart, which forgets removals, does not break it.

### DirectUnpack

The watcher that feeds volumes, the unpacker's run goroutine with a feed
goroutine per set, all waiting on the one-slot `volumeReady`, the orchestrator
whose lock `Abort` holds while it waits, collection by post-processing, removal,
shutdown. The decoder is a choice; the archive of a set ends in the volume `EndsAt`
says, which may come before the last one named, and a success is then recorded
without the rest (`directunpack.go:554-558`, `659-665`). A volume that cannot be
opened is an error of its feed. `parts_more`: a set of three volumes whose
archive is over with the second, and one of a single damaged volume, which the
decoder may refuse. `HandedIsWhole`: a set handed over as extracted has every volume up to the end of
its archive, none of them damaged, since its volumes are deleted on that word.

Two promises fail, both under the fairness of the goroutines. `du_never_posted`: the
wait for an unpacker that waits for a volume has no end. `AbortReturns`: with two
sets a feed goroutine of a set that is over and the goroutine that `Abort` waits for
are parked on the one-slot channel at once, `Abort`'s one token goes to the feed, and
`Abort` never returns, with the orchestrator's lock in hand. With one set there is
one waiter, and `Abort` returns.

Proved in `PostProofs`, for any sets, volumes, unpackers and orders of the watcher,
the feeds and the aborts: `HandedSetsAreWhole`, `UnpackSafety => []HandedIsWhole`. A
verdict is given by the decoder, which knows of volumes only what its feed passed
on. `UnpackIInv` says that a feed without an error has passed on every volume up to
where it stands, and one that is over every volume there is (`FedIsThere`), that the verdict is about the set of the last feed
(`FeedsCurrent`), and that the watcher marks the damage of a volume before it adds
it (`MarkedThenAdded`, `MarkedIfDamaged`). `VolumeAssumption`: volumes are numbered
from one, a set has a last one, and two files of a set have different numbers. The
names in an NZB do not guarantee the last of these; a job with two files of one
volume number is outside the theorem and outside the runs.

### Ingest

The scanner with its store, the hand-over of every NZB in a file, `AddJob` in its
steps, called by the scanner and by the API at once, the tick that saves a job's
row, and crashes. A duplicate is looked for in the queue, in the history (`past`; a
search that fails finds nothing) and among the backups; a name must be free in the
queue and as a directory (`dirs`). Removing a file, renaming it to `.failed`,
searching the history and saving the scanner's store may each fail; a cancelled
context ends the scan with the file as it is. `parts_core`: an archive of two NZBs
and an upload whose name collides; one failing call, shutdown or crash.
`QueuedBeforeRemoved`: a dropped file goes only when each of its NZBs was
registered.

Proved in `AppProofs`, for any folder of files and archives of any length
(`IngestAssumption`): `DroppedFilesAreQueued`, `IngestSpec => []QueuedBeforeRemoved`.
The scanner compares two counts when it decides what becomes of a file;
`GoodIsMade` says that when they are equal every NZB handed over so far is
registered, and `RegisteredIsMade` that an `AddJob` which answers without an error
has registered the one NZB it was given.

## Disagreements

The four violation runs are disagreements between the code and what its own
documentation says; `PROJECT.json` quotes the lines:

- `fw_two_fates`: an article that was rolled back still owns its offset, so another
  displaces it and marks it failed while its new copy, on its way, is then
  written and reported.
- `life_double_release`: a file that cannot be opened returns its article's buffer
  to the pool twice.
- `stall_never_clears`: a job parked for a failed finalize loses its manifest, and
  every retry then answers that there is none.
- `du_never_posted`: a job collected while a volume is missing waits for its
  unpacker for ever.

Others met on the way. Those with a property in backquotes are defined in their
module and violated when added to a run of it; the rest are outside the instances
above or outside what the models keep.

Durability and assembler:

- `SkippedFileHasNoRuns`: a crash between the commit of runs and the flush of the
  filename leaves runs that the sweep takes on trust (`resume_startup.go:208`).
- `CompleteIsResolved` with two crashes: the sweep's clearing of Complete is not
  saved (`resume_startup.go:178`).
- `StorageFaultNeverFails`: a storage fault in a late drain ends in a failed
  article (`assembler.go:1588`).
- `JobCompletes` with failed opens: the part of a failed article is lost
  (`assembler.go:1439`).
- `CompleteIsTrimmed` with an eviction during the finalize: a missing target is
  said to imply that completion is refused (`durability.go:1043-1061`), but the
  manifest may be back by then. `NoStrandedArticle` falls with it: the handle is
  released, and the writer goes with articles that were never acknowledged.
- `CompleteIsTrimmed` with two crashes and a file cut short between them: the
  second start takes the file for Complete, as it was saved before the first.
- `NoStrandedArticle` with a failed write: a drain rolls back an article of a file
  that is already tombstoned; the article is fetched again, and when it arrives
  after the finalize has closed the file, `handleLateDuplicate` drops it with its
  Emitted bit still set.
- `FileCompletes` (`MCFileWriter` with `LiveSpec` and two failed writes): two articles
  of one offset, each with a failed write. The second displaces the rolled-back
  first, which counts it as failed, and rolls back itself; the first's new copy comes
  as a retry, displaces the second and brings the count to the total, but a retry
  leaves before the comparison (`assembler.go:1497`). Nothing else is fetched, and the
  file stays open, though "when the assembler has written TotalParts distinct
  requests, it closes the file handle" (`assembler.go:143-145`).
- `HandedOverStaysClosed`: a late article can open a file again after
  `CloseJobHandles` (`assembler.go:736-741`, `1106-1122`). `StopDrains`: a request
  accepted during the stop may be left in the channel (`assembler.go:518-522`).
- Run store: dropping a stored run of several articles un-covers the others; a
  crash or a refused ack between commit and report loses the report of an overlap
  until a later finalize reads the rows; the comment at
  `barrier.go:290-297` describes another order than `commitFile`'s.

Stalls, reload, content:

- `PendingIsKept`: a finalize noted while a re-evaluation that began without
  files runs is dropped with the record (`stall.go:451-453`); a user's pause is overridden by the recovery
  (`stall.go:391-397`).
- `WrittenKeepsItsBit`: "a run over NO files claims nothing, and must not be read as a
  barrier" (`durability.go:520`), and `checkpointJob` asks for the open files to tell
  the cases apart; `Barrier.Run` then asks again through `SyncTarget.Files`, which turns
  a time-out into no files (`synctarget.go:283-308`). The run answers nil, the job's
  bytes are settled, and a reload clears the claims of articles that are written.
- The pipeline still holds articles at the shutdown barrier (`app.go:1218-1222`,
  `durability.go:1264-1269`), so that a clean stop does not acknowledge all of them.
- `ClaimIsInHand`: a claim returned to an evicted job stays set
  (`residency.go:132`). `ReleasedIsFetched`: the release of recovery volumes is
  not marked for saving, and a later hydration puts the saved policy over it
  (`app.go:1485-1489`). `RetryFetchesTheRest`:
  a retried job restores Complete for files whose articles are not there
  (`app.go`, about 2086).
- `ClearEmittedForReload` recomputes counters only when an article failed;
  `failed_articles` rows survive a reload that un-fails the article; a crash in
  `RetryHistoryJob` between the add and the deletion of the history entry drops
  the retried job.

Queue and downloader:

- `LeaseNotStranded`: a removal between the tick's grant and its launch claim
  waits for nobody, and the pending abort finds the job gone (`registry.go:532`). A cancel between rendering and
  claiming a launch leaves the claim without a worker. Two removers and a reuse
  of the name can remove the new job: `DeleteJob` and the finalizer are both inside
  `Remove` for one name, the first to finish deregisters the job and drops the mark
  whatever its count, a retry from history adds a new job under the name, and the
  other goes on to cancel it, delete its row and deregister it, after which a row
  that the tick saved in between stays in the store. The comment says that "each
  holds its own removal, and the job stops admitting work until the last of them
  finishes" (`registry.go:275-276`).
- `UnpausedIsLive`: a low-disk pause that meets a resume leaves the downloader
  unpaused with a dead context (`app.go:2433`; `MCOneServer` and `MCLowDisk` are the
  instance).
- A late 430 or CRC result clears the claim of a newer fetch (`pipeline.go:415`); a
  dial may complete across `DisconnectAll`; a stray 430 is not checked for the
  article it belongs to.

Post-processing and ingest:

- `SkippedIsKept`: split parts that are not joined are deleted by the archive
  cleanup (`stage_unpack.go:343-380`). A failed move sets no failure message; a
  crash after the move and before history files the job as Failed; the `_FAILED_`
  rename is never undone; a walk that starts over adopts foreign files.
- `RemovedStaysOut`: a job removed while its hand-off waits is pushed afterwards
  (`app.go:817-822`). With history and removal both refused, the runs of a job
  still queued are deleted.
- `AbortReturns` (`MCDirectUnpack` with `FourVolumes` and `EarlyEnds`, nothing damaged or
  broken): `Abort` sends one token to "unblock" the reader (`directunpack.go:366`); the
  feed of a set that is over takes it, and `Abort` hangs under the orchestrator's lock.
- `CutJoinKeepsParts`: an output that exists is taken for that of "a crash where the
  join completed but source cleanup didn't finish" (`filejoin.go:71-73`), but a join
  writes it in place, so that a crash in mid-join leaves half a file under the final
  name; `stage_unpack.go:361` then deletes the parts.
- `VerifiedIsSound`: "AllVerified reports whether ALL sets are verified"
  (`verified.go:50`), and asks the sets that have a verdict. After a crash between the
  repairs of two sets, repair is skipped (`stage_repair.go:139-143`), the damaged parts
  are joined and the par2 set is deleted.
- `ReEnqueued`: a crash during processing is said to preserve the job "so crash recovery
  re-enqueues it on next startup" (`docs/post-processing-contract.md:50-52`). After
  the finalizer's Cancel and Yielded (`job_finalizer.go:113-116`) and a tick that saves
  the row, a crash before the history entry leaves a cancelled job that is neither
  launched again nor filed.
- `GoneFreesItsSlot`: a watcher that registers an unpacker after the removal leaves
  it there.
- unrar without `-o+` takes a file that a crash cut off for extracted, as a join does;
  without a quick check, Direct Unpack's success on the RAR set alone makes repair
  pass over the par2 set of a split archive (`stage_repair.go:103-110`).
- `NamesAreUnique`: two adds choose the same name. `OneJobPerNzb`: an archive of
  which one NZB failed is handed over whole again. `RemovedIsSaved`: a dropped file
  is removed before the tick has saved its jobs. `FailedWasWhole`: a file that is
  written slowly is renamed `.failed`.

## What is proved and what is only checked

Forty theorems in `DurabilityProofs`, `AssemblerProofs`, `AppProofs`,
`SchedWorkProofs`, `DispatcherProofs`, `DownloaderProofs` and `PostProofs`, described
with their modules, and the lemmas of `SchedProofs`. The inductive invariants were
model-checked on small instances before they were proved.
`CompleteIsResolved`, `CompleteIsTrimmed` and `NoStrandedArticle` do not hold under
every fault; they are proved under the conditions that `dur_complete` checks them
under, named in the theorems. Four theorems about the dispatcher assume names that
are used once; `PayloadIsKept`, `Par2SetsOutliveNeed` and `ReloadKeepsUnacked` have the
exceptions of their properties, each needed (see Disagreements).

Of the properties that the runs check, these stay with TLC:

- everything that holds only under fairness: `JobCompletes`, `EveryJobSettles`,
  `AllResolved`, `EveryCallReturns`, `PushedIsTaken`;
- `CountersAgree`: the byte counters are sums over sets of articles, and how such a
  sum changes with its set is shown by induction over the set;
- `RowsAreRuns` and `DuplicateIsReported`: a commit folds a sorted sequence of rows,
  and what the fold returns is shown by induction over that sequence.

## Not modelled

- Parsers and codecs (NZB, yEnc, par2, RAR and tool output), the errno table of
  storage faults, name clean-up: functions of their input without state of their
  own; their verdicts enter the models as choices.
- The HTTP API and the UI: decoding and rendering over operations that are
  modelled where they change state.
- Loading, validating and migrating the configuration; TLS set-up, address
  resolution, rate limiting; metering, notification, telemetry: nothing modelled
  depends on them.
- Drivers of external programs, and stages that only rename.
- Header fields of a job (priority, category, warnings), display activity, status
  snapshots and time stamps: data that no guard modelled here reads.
