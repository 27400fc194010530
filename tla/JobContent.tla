------------------------------ MODULE JobContent ------------------------------
(***************************************************************************)
(* The content tier of one job (internal/job: content.go, progress.go):    *)
(* which articles are done, failed or handed out, the counters kept beside *)
(* those bits, and which files are fetched.  The manifest is loaded and    *)
(* evicted while the job waits (app/residency.go), the checkpointer saves  *)
(* the file rows and the failed articles (checkpoint/), the assessment     *)
(* releases or discards the recovery volumes (app/app.go), and a failed    *)
(* job is rebuilt from what was kept of it (RetryHistoryJob).              *)
(***************************************************************************)
EXTENDS Integers, FiniteSets, FiniteSetsExt

CONSTANTS
    ArtCfg,      \* ArtCfg[a] = [file |-> its file, bytes |-> its size]
    Deferred,    \* the recovery volumes, deferred at ingest
    Upsets       \* bound on failing saves, lost leases, reloads, crashes and retries, together

ContentArt == DOMAIN ArtCfg
ContentFile == {ArtCfg[a].file : a \in ContentArt}
Of(f) == {a \in ContentArt : ArtCfg[a].file = f}
BytesOf(arts) == MapThenSumSet(LAMBDA a : ArtCfg[a].bytes, arts)
OverFiles(count) == MapThenSumSet(LAMBDA f : count[f], ContentFile)

VARIABLES
    prog,      \* Job.progress
    loaded,    \* Job.manifest # nil
    phase,     \* "fetching" | "assessing" | "post" | "failed" | "kept"
    leased,    \* the job holds what its phase needs
    hydration, \* "none" | "files" | "resolution": how far Hydrate has come
    hand,      \* ContentArt -> where the article is: "none" | "wire" | "written" | "recorded"
    counted,   \* articles the assembler counts although no bit was set
    rows,      \* job_files, failed_articles, durable_runs
    kept,      \* history_job_files of a failed job
    checkpointer, \* [dirty, inFlight, pc, snap]
    toMark,    \* callers between their change and checkpointer.Mark
    needsSeed, \* a stall record that owes the live job its recorded runs
    dropped,   \* history variable: articles whose return found no manifest
    contentUpsets

contentVars == <<prog, loaded, phase, leased, hydration, hand, counted, rows, kept, checkpointer, toMark,
                 needsSeed, dropped, contentUpsets>>

-----------------------------------------------------------------------------
(* JobProgress.                                                              *)
Pend(p, f) == {a \in Of(f) : a \notin p.done /\ a \notin p.emitted}

\* recompute: every counter from the bits.  A file that is not fetched has
\* nothing pending.
recompute(p) ==
    LET pend == [f \in ContentFile |-> IF p.fetch[f] = "always" THEN Cardinality(Pend(p, f)) ELSE 0]
    IN  [p EXCEPT !.pending = pend,
                  !.pendingArticles = OverFiles(pend),
                  !.downloaded = [f \in ContentFile |-> BytesOf(Of(f) \cap (p.done \ p.failed))],
                  !.lost = [f \in ContentFile |-> BytesOf(Of(f) \cap p.failed)],
                  !.failedBytes = BytesOf(p.failed),
                  !.resolved = Cardinality(p.done),
                  !.failedN = Cardinality(p.failed)]

\* newJobProgress: everything is pending, deferred files included.
newJobProgress ==
    [done |-> {}, failed |-> {}, emitted |-> {}, complete |-> {},
     fetch |-> [f \in ContentFile |-> "always"],
     pending |-> [f \in ContentFile |-> Cardinality(Of(f))], pendingArticles |-> Cardinality(ContentArt),
     downloaded |-> [f \in ContentFile |-> 0], lost |-> [f \in ContentFile |-> 0],
     failedBytes |-> 0, resolved |-> 0, failedN |-> 0, recovered |-> FALSE]

fewer(p, a) == [p EXCEPT !.pending[ArtCfg[a].file] = @ - 1, !.pendingArticles = @ - 1]
takenFrom(p, a) == IF a \in p.emitted THEN p ELSE fewer(p, a)

markEmitted(p, a) ==
    IF a \in p.emitted \cup p.done THEN p ELSE [fewer(p, a) EXCEPT !.emitted = @ \cup {a}]

\* Mutant of clearEmitted: the pending count is not given back.
clearEmittedUncounted(p, a) == [p EXCEPT !.emitted = @ \ {a}]

clearEmitted(p, a) ==
    IF a \in p.emitted \ p.done
    THEN [p EXCEPT !.emitted = @ \ {a}, !.pending[ArtCfg[a].file] = @ + 1, !.pendingArticles = @ + 1]
    ELSE [p EXCEPT !.emitted = @ \ {a}]

markDone(p, a) ==
    IF a \in p.done THEN p
    ELSE [takenFrom(p, a) EXCEPT !.done = @ \cup {a}, !.emitted = @ \ {a}, !.resolved = @ + 1,
                             !.downloaded[ArtCfg[a].file] = @ + ArtCfg[a].bytes]

markFailed(p, a) ==
    IF a \in p.done THEN p
    ELSE [takenFrom(p, a) EXCEPT !.done = @ \cup {a}, !.failed = @ \cup {a}, !.emitted = @ \ {a},
                             !.resolved = @ + 1, !.failedN = @ + 1,
                             !.failedBytes = @ + ArtCfg[a].bytes,
                             !.lost[ArtCfg[a].file] = @ + ArtCfg[a].bytes]

\* markDone and markFailed over a set of articles, which may come in any order.
allResolved(p, new) ==
    LET loose == new \ p.emitted
    IN  [p EXCEPT !.done = @ \cup new, !.emitted = @ \ new, !.resolved = @ + Cardinality(new),
                  !.pending = [f \in ContentFile |-> @[f] - Cardinality(Of(f) \cap loose)],
                  !.pendingArticles = @ - Cardinality(loose)]

allDone(p, arts) ==
    LET new == arts \ p.done
    IN  [allResolved(p, new) EXCEPT
           !.downloaded = [f \in ContentFile |-> @[f] + BytesOf(Of(f) \cap new)]]

allFailed(p, arts) ==
    LET new == arts \ p.done
    IN  [allResolved(p, new) EXCEPT
           !.failed = @ \cup new, !.failedN = @ + Cardinality(new),
           !.failedBytes = @ + BytesOf(new),
           !.lost = [f \in ContentFile |-> @[f] + BytesOf(Of(f) \cap new)]]

DeferredRecoveryIndices(p) == {f \in ContentFile : p.fetch[f] = "ifneeded"}
IsComplete(p) == \A f \in ContentFile : p.fetch[f] = "always" => f \in p.complete

undeferRecovery(p) ==
    IF DeferredRecoveryIndices(p) = {} THEN p
    ELSE recompute([p EXCEPT !.recovered = TRUE,
                             !.fetch = [f \in ContentFile |-> IF @[f] = "ifneeded" THEN "always" ELSE @[f]]])

DiscardDeferredPar2(p) ==
    IF DeferredRecoveryIndices(p) = {} THEN p
    ELSE recompute([p EXCEPT !.fetch =
                      [f \in ContentFile |-> IF @[f] = "ifneeded" THEN "never" ELSE @[f]]])

\* A first permanent failure releases the recovery volumes.
MarkArticleFailed(p, a) ==
    LET q == markFailed(p, a)
    IN  IF a \in p.done \/ p.recovered \/ Deferred = {} THEN q ELSE undeferRecovery(q)

\* SeedFromRuns only adds.
SeedFromRuns(p, runs) == allDone(p, runs)

\* markNotDone refuses a failed article.
markNotDone(p, as) == [p EXCEPT !.done = @ \ (as \ p.failed)]

\* ReplaceFromRuns also takes back what no run stands behind.
ReplaceFromRuns(p, runs) ==
    LET gone == p.done \ (p.failed \cup runs)
    IN  recompute([markNotDone(allDone(p, runs), gone) EXCEPT
                     !.complete = {f \in @ : Of(f) \cap gone = {}}])

\* RestoreFileMeta, for every row: complete is only ever set, fetch is overwritten.
RestoreFileMeta(p, r) == [p EXCEPT !.complete = @ \cup r.complete, !.fetch = r.fetch]

\* ApplyResolution: failures first, so that a run never hides one.
ApplyResolution(p, runs, failures) ==
    LET q == allFailed(p, failures) IN recompute(allDone(q, runs \ q.failed))

\* resetForReload, for every article: a failure is taken back while its file
\* is open.
resetForReload(p, skip) ==
    LET back == {a \in p.failed : ArtCfg[a].file \notin p.complete}
    IN  [p EXCEPT !.emitted = IF skip THEN @ ELSE {}, !.done = @ \ back, !.failed = @ \ back]

\* ClearEmittedForReload recounts if any article had failed.
ClearEmittedForReload(p, skip) ==
    IF p.failed = {} THEN resetForReload(p, skip) ELSE recompute(resetForReload(p, skip))

\* ResetForRetry: failures are forgotten, and the volumes are deferred again.
ResetForRetry(p) ==
    recompute([p EXCEPT !.done = @ \ p.failed, !.failed = {}, !.recovered = FALSE,
                        !.complete = {f \in @ : Of(f) \cap p.failed = {}},
                        !.fetch = [f \in ContentFile |-> IF @[f] = "never" THEN "ifneeded" ELSE @[f]]])

\* BuildIngestJob: the recovery volumes are deferred, without a recount.
ingested ==
    [newJobProgress EXCEPT !.fetch = [f \in ContentFile |-> IF f \in Deferred THEN "ifneeded" ELSE "always"]]

ContentInit ==
    /\ prog = ingested /\ loaded = TRUE
    /\ phase = "fetching" /\ leased = TRUE /\ hydration = "none"
    /\ hand = [a \in ContentArt |-> "none"] /\ counted = {}
    /\ rows = [complete |-> {}, fetch |-> [f \in ContentFile |-> "always"], failed |-> {}, runs |-> {}]
    /\ kept = [complete |-> {}, fetch |-> [f \in ContentFile |-> "always"]]
    /\ checkpointer = [dirty |-> FALSE, inFlight |-> FALSE, pc |-> "idle",
             snap |-> [complete |-> {}, fetch |-> [f \in ContentFile |-> "always"], failed |-> {}]]
    /\ toMark = {} /\ needsSeed = FALSE /\ dropped = {}
    /\ contentUpsets = 0

-----------------------------------------------------------------------------
(* The downloader, the pipeline and the barrier.                             *)
live == phase \in {"fetching", "assessing", "post"}

\* ForEachUnfinishedArticle: skips by the counters before it looks at the bits.
Unfinished(p) ==
    IF p.pendingArticles = 0 THEN {}
    ELSE UNION {Pend(p, f) : f \in {g \in ContentFile :
                                      g \notin p.complete /\ p.pending[g] # 0 /\ p.fetch[g] = "always"}}

HandOut(a) ==
    /\ phase = "fetching" /\ leased /\ loaded
    /\ a \in Unfinished(prog) /\ hand[a] = "none"
    /\ prog' = markEmitted(prog, a)
    /\ hand' = [hand EXCEPT ![a] = "wire"]
    /\ UNCHANGED <<loaded, phase, leased, hydration, counted, rows, kept, checkpointer,
                   toMark, needsSeed, dropped, contentUpsets>>

\* ClearArticleEmitted: a retryable error, a refused write, a rolled-back batch.
\* Without a manifest the call fails and the error is discarded.
ReturnArticle(a) ==
    /\ live /\ hand[a] \in {"wire", "written"}
    /\ hand' = [hand EXCEPT ![a] = "none"]
    /\ prog' = IF loaded THEN clearEmitted(prog, a) ELSE prog
    /\ dropped' = IF loaded THEN dropped ELSE dropped \cup {a}
    /\ UNCHANGED <<loaded, phase, leased, hydration, counted, rows, kept, checkpointer,
                   toMark, needsSeed, contentUpsets>>

\* The assembler accepts the bytes; registerFile needs the manifest.
AcceptWrite(a) ==
    /\ live /\ loaded /\ hand[a] = "wire"
    /\ hand' = [hand EXCEPT ![a] = "written"]
    /\ UNCHANGED <<prog, loaded, phase, leased, hydration, counted, rows, kept,
                   checkpointer, toMark, needsSeed, dropped, contentUpsets>>

\* A permanent failure: marked, counted by the assembler, and the job is marked
\* for saving (in that order, and whether or not the mark was taken).
Fail(a) ==
    /\ live /\ hand[a] = "wire" /\ "pipeline" \notin toMark
    /\ hand' = [hand EXCEPT ![a] = "none"]
    /\ prog' = IF loaded THEN MarkArticleFailed(prog, a) ELSE prog
    /\ counted' = IF loaded THEN counted ELSE counted \cup {a}
    /\ dropped' = IF loaded THEN dropped ELSE dropped \cup {a}
    /\ toMark' = toMark \cup {"pipeline"}
    /\ UNCHANGED <<loaded, phase, leased, hydration, rows, kept, checkpointer, needsSeed,
                   contentUpsets>>

\* The barrier: the runs first ...
Record(a) ==
    /\ live /\ hand[a] = "written"
    /\ rows' = [rows EXCEPT !.runs = @ \cup {a}]
    /\ hand' = [hand EXCEPT ![a] = "recorded"]
    /\ UNCHANGED <<prog, loaded, phase, leased, hydration, counted, kept, checkpointer,
                   toMark, needsSeed, dropped, contentUpsets>>

\* ... then the bits; or a note that they are owed.
AckDurable(a) ==
    /\ live /\ hand[a] = "recorded"
    /\ hand' = [hand EXCEPT ![a] = "none"]
    /\ IF loaded THEN /\ prog' = markDone(prog, a) /\ UNCHANGED needsSeed
                      /\ checkpointer' = [checkpointer EXCEPT !.dirty = TRUE]
       ELSE needsSeed' = TRUE /\ UNCHANGED <<prog, checkpointer>>
    /\ UNCHANGED <<loaded, phase, leased, hydration, counted, rows, kept, toMark, dropped,
                   contentUpsets>>

\* The stall pass replays what a barrier recorded; the record is then dropped.
seedFromCommittedRuns ==
    /\ live /\ needsSeed /\ needsSeed' = FALSE
    /\ prog' = IF loaded THEN SeedFromRuns(prog, rows.runs) ELSE prog
    /\ UNCHANGED <<loaded, phase, leased, hydration, hand, counted, rows, kept,
                   checkpointer, toMark, dropped, contentUpsets>>

\* completeFinalizedFile: every part has arrived and the file is trimmed.
CompleteFile(f) ==
    /\ phase = "fetching" /\ loaded /\ f \notin prog.complete /\ "watcher" \notin toMark
    /\ \A a \in Of(f) : a \in prog.done \cup counted /\ hand[a] = "none"
    /\ prog' = [prog EXCEPT !.complete = @ \cup {f}]
    /\ toMark' = toMark \cup {"watcher"}
    /\ phase' = IF IsComplete(prog') THEN "assessing" ELSE phase
    /\ UNCHANGED <<loaded, leased, hydration, hand, counted, rows, kept, checkpointer,
                   needsSeed, dropped, contentUpsets>>

-----------------------------------------------------------------------------
(* The assessment and the end of the job.                                    *)
\* RepairStateFrom on the content that failed, against what the volumes hold.
ContentFailedBytes(p) == BytesOf({a \in p.failed : ArtCfg[a].file \notin Deferred})
RecoveryBytes == BytesOf({a \in ContentArt : ArtCfg[a].file \in Deferred})
Hopeless(p) == ContentFailedBytes(p) > RecoveryBytes

\* runAssess: with volumes to release, what par2 says of the files decides.
Assess ==
    /\ phase = "assessing" /\ leased /\ loaded /\ hydration = "none"
    /\ \E verdict \in {"clean", "unknown", "repair"} :
         LET asked == DeferredRecoveryIndices(prog) # {} /\ ~prog.recovered
         IN  /\ prog' = CASE asked /\ verdict = "clean"  -> DiscardDeferredPar2(prog)
                          [] asked /\ verdict = "repair" -> undeferRecovery(prog)
                          [] OTHER                       -> prog
             /\ phase' = CASE asked /\ verdict = "repair" -> "fetching"
                           [] Hopeless(prog)              -> "failed"
                           [] OTHER                       -> "post"
    /\ UNCHANGED <<loaded, leased, hydration, hand, counted, rows, kept, checkpointer,
                   toMark, needsSeed, dropped, contentUpsets>>

\* Post-processing fails, or has finished with the job.
PostProcess ==
    /\ phase = "post" /\ \A a \in ContentArt : hand[a] = "none"
    /\ phase' \in {"failed", "gone"}
    /\ UNCHANGED <<prog, loaded, leased, hydration, hand, counted, rows, kept,
                   checkpointer, toMark, needsSeed, dropped, contentUpsets>>

\* persistAndCommit of a failed job: its files are kept, its checkpoints pruned.
FinalizeFailed ==
    /\ phase = "failed" /\ toMark = {}
    /\ phase' = "kept" /\ loaded' = FALSE /\ hydration' = "none"
    /\ kept' = [complete |-> prog.complete, fetch |-> prog.fetch]
    /\ checkpointer' = [checkpointer EXCEPT !.dirty = FALSE, !.inFlight = FALSE]
    /\ hand' = [a \in ContentArt |-> "none"] /\ counted' = {} /\ needsSeed' = FALSE /\ dropped' = {}
    /\ UNCHANGED <<prog, leased, rows, toMark, contentUpsets>>

\* RetryHistoryJob: the job as the NZB describes it, the recorded runs, the file
\* rows that were kept; the failed articles are forgotten.
RetryHistoryJob ==
    /\ phase = "kept" /\ contentUpsets < Upsets /\ contentUpsets' = contentUpsets + 1
    /\ prog' = ResetForRetry(RestoreFileMeta(ReplaceFromRuns(ingested, rows.runs), kept))
    /\ rows' = [rows EXCEPT !.failed = {}]
    /\ loaded' = TRUE /\ leased' = TRUE
    /\ phase' = IF IsComplete(prog') THEN "post" ELSE "fetching"
    /\ UNCHANGED <<hydration, hand, counted, kept, checkpointer, toMark, needsSeed, dropped>>

-----------------------------------------------------------------------------
(* Residency.                                                                *)
\* A pause, a stall, or a slot that is not granted.
Park ==
    /\ phase \in {"fetching", "assessing"} /\ leased /\ hydration = "none"
    /\ contentUpsets < Upsets /\ contentUpsets' = contentUpsets + 1
    /\ leased' = FALSE
    /\ UNCHANGED <<prog, loaded, phase, hydration, hand, counted, rows, kept, checkpointer,
                   toMark, needsSeed, dropped>>

GrantLease ==
    /\ ~leased /\ phase \in {"fetching", "assessing"} /\ leased' = TRUE
    /\ UNCHANGED <<prog, loaded, phase, hydration, hand, counted, rows, kept, checkpointer,
                   toMark, needsSeed, dropped, contentUpsets>>

EvictContent ==
    /\ ~leased /\ loaded /\ hydration = "none" /\ phase \in {"fetching", "assessing"}
    /\ loaded' = FALSE
    /\ UNCHANGED <<prog, phase, leased, hydration, hand, counted, rows, kept, checkpointer,
                   toMark, needsSeed, dropped, contentUpsets>>

\* RestoreContent on a copy of the progress that stayed in memory ...
Hydrate ==
    /\ leased /\ ~loaded /\ phase \in {"fetching", "assessing"}
    /\ loaded' = TRUE /\ hydration' = "files"
    /\ prog' = recompute(prog)
    /\ UNCHANGED <<phase, leased, hand, counted, rows, kept, checkpointer, toMark,
                   needsSeed, dropped, contentUpsets>>

\* ... then the rows over it ...
restoreJobFiles ==
    /\ hydration = "files" /\ hydration' = "resolution"
    /\ prog' = RestoreFileMeta(prog, rows)
    /\ UNCHANGED <<loaded, phase, leased, hand, counted, rows, kept, checkpointer, toMark,
                   needsSeed, dropped, contentUpsets>>

\* ... then what is recorded of the articles.
restoreResolution ==
    /\ hydration = "resolution" /\ hydration' = "none"
    /\ prog' = ApplyResolution(prog, rows.runs, rows.failed)
    /\ UNCHANGED <<loaded, phase, leased, hand, counted, rows, kept, checkpointer, toMark,
                   needsSeed, dropped, contentUpsets>>

\* ReloadDownloader, once the old downloader has stopped: a job whose written
\* articles could not be recorded keeps its claims.
ReloadClaims ==
    /\ live /\ contentUpsets < Upsets /\ contentUpsets' = contentUpsets + 1
    /\ \A a \in ContentArt : hand[a] # "wire"
    /\ prog' = IF loaded THEN ClearEmittedForReload(prog, \E a \in ContentArt : hand[a] # "none")
               ELSE prog
    /\ UNCHANGED <<loaded, phase, leased, hydration, hand, counted, rows, kept,
                   checkpointer, toMark, needsSeed, dropped>>

\* A crash, and the start that follows: hydration from the rows and, for a job
\* that was downloading, the sweep.
CrashAndRestart ==
    /\ live /\ contentUpsets < Upsets /\ contentUpsets' = contentUpsets + 1
    /\ prog' = LET h == ApplyResolution(RestoreFileMeta(newJobProgress, rows), rows.runs, rows.failed)
               IN  IF phase = "fetching" THEN ReplaceFromRuns(h, rows.runs) ELSE h
    /\ loaded' = TRUE /\ leased' = TRUE /\ hydration' = "none"
    /\ hand' = [a \in ContentArt |-> "none"] /\ counted' = {} /\ toMark' = {} /\ needsSeed' = FALSE
    /\ checkpointer' = [checkpointer EXCEPT !.dirty = FALSE, !.inFlight = FALSE, !.pc = "idle"]
    /\ dropped' = {}
    /\ UNCHANGED <<phase, rows, kept>>

-----------------------------------------------------------------------------
(* The checkpointer.                                                         *)
Mark(who) ==
    /\ who \in toMark /\ toMark' = toMark \ {who}
    /\ checkpointer' = [checkpointer EXCEPT !.dirty = TRUE]
    /\ UNCHANGED <<prog, loaded, phase, leased, hydration, hand, counted, rows, kept,
                   needsSeed, dropped, contentUpsets>>

\* Flush: take the batch, then look at the job, then save.
TakeBatch ==
    /\ checkpointer.pc = "idle" /\ checkpointer.dirty
    /\ checkpointer' = [checkpointer EXCEPT !.dirty = FALSE, !.inFlight = TRUE, !.pc = "taken"]
    /\ UNCHANGED <<prog, loaded, phase, leased, hydration, hand, counted, rows, kept,
                   toMark, needsSeed, dropped, contentUpsets>>

SnapshotJob ==
    /\ checkpointer.pc = "taken"
    /\ checkpointer' = [checkpointer EXCEPT !.pc = "saving",
                        !.snap = [complete |-> prog.complete, fetch |-> prog.fetch, failed |-> prog.failed]]
    /\ UNCHANGED <<prog, loaded, phase, leased, hydration, hand, counted, rows, kept,
                   toMark, needsSeed, dropped, contentUpsets>>

\* SaveBatch: complete and fetch are overwritten, failed articles are added.
SaveBatch ==
    /\ checkpointer.pc = "saving"
    /\ rows' = [rows EXCEPT !.complete = checkpointer.snap.complete, !.fetch = checkpointer.snap.fetch,
                            !.failed = @ \cup checkpointer.snap.failed]
    /\ checkpointer' = [checkpointer EXCEPT !.pc = "idle", !.inFlight = FALSE]
    /\ UNCHANGED <<prog, loaded, phase, leased, hydration, hand, counted, kept, toMark,
                   needsSeed, dropped, contentUpsets>>

\* Mutant of remerged: the batch that could not be saved is forgotten.
remergedNot(c) == c.dirty
\* The batch goes back, unless the job was pruned meanwhile.
remerged(c) == c.dirty \/ c.inFlight

SaveFails ==
    /\ checkpointer.pc = "saving" /\ contentUpsets < Upsets
    /\ contentUpsets' = contentUpsets + 1
    /\ checkpointer' = [checkpointer EXCEPT !.pc = "idle", !.inFlight = FALSE,
                                            !.dirty = remerged(checkpointer)]
    /\ UNCHANGED <<prog, loaded, phase, leased, hydration, hand, counted, rows, kept,
                   toMark, needsSeed, dropped>>

-----------------------------------------------------------------------------
Checkpointing == (\E who \in toMark : Mark(who)) \/ TakeBatch \/ SnapshotJob \/ SaveBatch \/ SaveFails
Residing == Park \/ GrantLease \/ EvictContent \/ Hydrate \/ restoreJobFiles \/ restoreResolution
JobEnding == Assess \/ PostProcess \/ FinalizeFailed \/ RetryHistoryJob \/ ReloadClaims \/ CrashAndRestart

ContentNext ==
    \/ \E a \in ContentArt : \/ HandOut(a) \/ ReturnArticle(a) \/ AcceptWrite(a)
                            \/ Fail(a) \/ Record(a) \/ AckDurable(a)
    \/ \E f \in ContentFile : CompleteFile(f)
    \/ seedFromCommittedRuns \/ Checkpointing \/ Residing \/ JobEnding

-----------------------------------------------------------------------------
\* The counters that the downloader skips by hide no work: a file that is to be
\* fetched and has an article nobody holds is pending; and the byte figures the
\* user sees are those of the bits.  Claims that an eviction dropped apart.
CountersAgree ==
    loaded /\ hydration = "none" /\ phase # "kept" =>
        /\ \A f \in ContentFile :
             prog.fetch[f] = "always" /\ f \notin prog.complete /\ Of(f) \cap dropped = {} =>
                 /\ prog.pending[f] = Cardinality(Pend(prog, f))
                 /\ Pend(prog, f) # {} => prog.pendingArticles > 0
        /\ \A f \in ContentFile : prog.downloaded[f] + prog.lost[f] = BytesOf(Of(f) \cap prog.done)
        /\ prog.failedBytes = BytesOf(prog.failed)
        /\ prog.resolved = Cardinality(prog.done) /\ prog.failedN = Cardinality(prog.failed)

saving == checkpointer.pc = "saving"

\* A permanent failure or a completed file, once reported to the checkpointer,
\* is saved or still to be saved, whatever saves fail and whoever marks the job
\* while one is under way.  (A retry restores files from its own rows.)
MarkedIsKept ==
    live /\ toMark = {} /\ hydration = "none" =>
        \/ checkpointer.dirty \/ checkpointer.pc = "taken"
        \/ /\ prog.failed \subseteq rows.failed \cup (IF saving THEN checkpointer.snap.failed ELSE {})
           /\ prog.complete \ kept.complete \subseteq
                IF saving THEN checkpointer.snap.complete ELSE rows.complete

-----------------------------------------------------------------------------
ContentSpec == ContentInit /\ [][ContentNext]_contentVars

(* The invariant behind MarkedIsKept.                                        *)
ProgressFields == {"done", "failed", "emitted", "complete", "fetch", "pending", "pendingArticles",
                   "downloaded", "lost", "failedBytes", "resolved", "failedN", "recovered"}

ContentShape ==
    /\ DOMAIN prog = ProgressFields /\ DOMAIN rows = {"complete", "fetch", "failed", "runs"}
    /\ DOMAIN checkpointer = {"dirty", "inFlight", "pc", "snap"}
    /\ checkpointer.dirty \in BOOLEAN /\ checkpointer.inFlight \in BOOLEAN
    /\ checkpointer.pc \in {"idle", "taken", "saving"}

\* The rows say no more than the job, and a save under way takes nothing away.
RowsTrailJob ==
    /\ rows.complete \subseteq prog.complete
    /\ saving => rows.complete \subseteq checkpointer.snap.complete
                 /\ checkpointer.snap.complete \subseteq prog.complete
    /\ phase = "kept" => kept.complete = prog.complete

\* Who is up to date, now or once the save under way is done; a batch that the
\* end of an earlier life pruned does not go back when its save fails.
Unmarked == live /\ toMark = {} /\ ~checkpointer.dirty

SavedOrSaving ==
    Unmarked /\ checkpointer.pc # "taken" =>
        /\ prog.failed \subseteq rows.failed \cup (IF saving THEN checkpointer.snap.failed ELSE {})
        /\ prog.complete \ kept.complete \subseteq
             IF saving THEN checkpointer.snap.complete ELSE rows.complete

PrunedOwesNothing ==
    Unmarked /\ checkpointer.pc # "idle" /\ ~checkpointer.inFlight =>
        prog.failed \subseteq rows.failed /\ prog.complete \ kept.complete \subseteq rows.complete

ContentIInv == ContentShape /\ RowsTrailJob /\ SavedOrSaving /\ PrunedOwesNothing

-----------------------------------------------------------------------------
\* An article is claimed only while somebody holds it (app/durability.go: "the
\* next dispatch cycle will pick them up again").
ClaimIsInHand == loaded => \A a \in prog.emitted : hand[a] # "none" \/ a \in counted

\* A job whose recovery volumes were released fetches them (app/app.go: "the
\* downloader will fetch the volumes and trigger another completion event").
ReleasedIsFetched == prog.recovered /\ hydration = "none" => DeferredRecoveryIndices(prog) = {}

\* A retry fetches what did not succeed: no file counts as complete while one
\* of its articles is neither done nor counted (RetryHistoryJob: "only the
\* articles that did not succeed are refetched").
RetryFetchesTheRest ==
    live => \A f \in prog.complete :
                prog.fetch[f] = "always" => Of(f) \subseteq prog.done \cup counted \cup dropped
=============================================================================
