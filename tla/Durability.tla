----------------------------- MODULE Durability -----------------------------
(***************************************************************************)
(* How one job's articles become Done, and what a crash leaves of that.    *)
(*                                                                         *)
(* Actors: the pipeline and the assembler worker (internal/assembler), the *)
(* checkpoint goroutine and the completion watcher, which both run the     *)
(* durability barrier under the job's barrier lock (internal/durability),  *)
(* the checkpointer (internal/checkpoint) that saves file metadata to the  *)
(* database on its own cadence, and the next process's startup sweep       *)
(* (app.resumeAllJobs).  Storage is a page cache over a platter: a write   *)
(* reaches the platter at the next fsync, or, at a crash, or not at all.   *)
(*                                                                         *)
(* Articles of one file have distinct offsets here; equal offsets are      *)
(* module FileWriter's subject.  An article fills one block, and End[a] is *)
(* the block number it ends at, so that offsets, lengths and file sizes    *)
(* are counted in blocks.                                                  *)
(***************************************************************************)
EXTENDS Integers, FiniteSets

CONSTANTS
  File,          \* the job's files
  Article,       \* the job's articles
  FileOf,        \* the file an article belongs to
  End,           \* the block an article ends at: Offset + Length
  MaxEnd,        \* bound of End and of every file size
  ExpectedSize,  \* FileInfo.ExpectedSize, the encoded size the NZB declares
  NoFile,        \* "no file"
  FaultKinds,    \* the failures the environment may inject
  MaxFault,      \* how many of them
  MaxCrash,      \* how often the process may be killed
  MaxTamper      \* how often a partial file is removed or cut while it is down

ASSUME ConstantAssumption ==
  /\ IsFiniteSet(Article)
  /\ FileOf \in [Article -> File]
  /\ MaxEnd \in Nat
  /\ End \in [Article -> 1..MaxEnd]
  /\ ExpectedSize \in [File -> 1..MaxEnd]
  /\ NoFile \notin File
  /\ MaxFault \in Nat /\ MaxCrash \in Nat /\ MaxTamper \in Nat

\* A path is a number: 1 is the name the subject suggests, 2 the ".1" that
\* GetUniqueFilename tries next, and so on.  0 is the empty filename.
Path == 1..(MaxCrash + 1)
Absent == -1

VARIABLES
  done, failed, emitted, complete, name,             \* job.JobProgress
  total, flight, fatalq,                             \* pipeline, its channel
  open, tomb, buf, written, reported,                \* assembler worker
  seenDone, seenFailed,
  page, plate, size, psize,                          \* page cache and platter
  runs, dbfailed, dbcomplete, dbname, dirty,         \* database, checkpointer
  bpc, bfin, bretry, btodo, bfiles, bgot,            \* the running barrier
  late,                                              \* op whose caller gave up
  stall, fin,                                        \* the job's stall record
  phase, swept, sweepfault, unchecked,               \* process life cycle
  crashes, faults, tampers

progress == <<done, failed, emitted, complete, name>>
pipe == <<total, flight, fatalq>>
cache == <<open, tomb, buf, seenDone, seenFailed>>
report == <<written, reported>>
disk == <<page, plate, size, psize>>
db == <<runs, dbfailed, dbcomplete, dbname>>
barrier == <<bpc, bfin, bretry, btodo, bfiles, bgot>>
life == <<phase, swept, sweepfault, unchecked, crashes, tampers>>
vars == <<progress, pipe, cache, report, disk, db, dirty, barrier, late,
          stall, fin, life, faults>>

-----------------------------------------------------------------------------
(* Helpers *)

Of(S, f) == {a \in S : FileOf[a] = f}
Arts(f) == Of(Article, f)

\* boundOver: the highest end over a set of articles, 0 for none.
boundOver(S) ==
  CHOOSE n \in 0..MaxEnd : /\ \A a \in S : End[a] <= n
                           /\ n = 0 \/ \E a \in S : End[a] = n

\* A file of size s after a write of the articles in S.
Grown(s, S) == IF s >= boundOver(S) THEN s ELSE boundOver(S)

\* The articles of f that a file cut at n no longer holds.
Beyond(f, n) == {a \in Article : FileOf[a] = f /\ End[a] > n}

\* Image img (page cache or platter) holds a's bytes in the file of its job.
Holds(img, a) == name[FileOf[a]] # 0 /\ a \in img[name[FileOf[a]]]

Up == phase = "up"

\* One injected failure of kind k.
Fault(k) == /\ k \in FaultKinds
            /\ faults < MaxFault
            /\ faults' = faults + 1

-----------------------------------------------------------------------------
(* Fetching: dispatch, the pipeline's registerFile, the two result paths *)

\* The downloader emits a's result: only an article that is neither Done nor
\* Emitted, of a file that is not Complete, is dispatched.
Emit(a) ==
  /\ Up
  /\ a \notin done \cup emitted
  /\ FileOf[a] \notin complete
  /\ emitted' = emitted \cup {a}
  /\ flight' = flight \cup {a}
  /\ UNCHANGED <<done, failed, complete, name, total, fatalq, cache, report,
                 disk, db, dirty, barrier, late, stall, fin, life, faults>>

\* GetUniqueFilename: the first candidate no file on disk has.
FreshPath(f, p) == /\ size[f][p] = Absent
                   /\ \A q \in Path : q < p => size[f][q] # Absent

\* registerFile: on the file's first result, fix its path and its part count.
\* A filename resolved now is only marked for the checkpointer (Newly).
Register(f) ==
  IF total[f] # 0 THEN UNCHANGED <<name, total>>
  ELSE /\ \E p \in Path :
            /\ IF name[f] = 0 THEN FreshPath(f, p) ELSE p = name[f]
            /\ name' = [name EXCEPT ![f] = p]
       /\ total' = [total EXCEPT ![f] = Cardinality(Arts(f) \ done)]

Newly(f) == total[f] = 0 /\ name[f] = 0

\* A result with a retryable error returns the article to the dispatch pool.
RetryableFailure(a) ==
  /\ Up /\ a \in flight /\ Fault("retry")
  /\ flight' = flight \ {a}
  /\ emitted' = emitted \ {a}
  /\ UNCHANGED <<done, failed, complete, name, total, fatalq, cache, report,
                 disk, db, dirty, barrier, late, stall, fin, life>>

\* A result with a permanent error: the article is Failed at once, and a
\* FatalErr request is queued so that the worker counts its part.
PermanentFailure(a) ==
  /\ Up /\ a \in flight /\ Fault("article")
  /\ Register(FileOf[a])
  /\ dirty' = TRUE
  /\ flight' = flight \ {a}
  /\ fatalq' = fatalq \cup {a}
  /\ IF a \in done THEN UNCHANGED <<done, failed, emitted>>
     ELSE /\ done' = done \cup {a}
          /\ failed' = failed \cup {a}
          /\ emitted' = emitted \ {a}
  /\ UNCHANGED <<complete, cache, report, disk, db, barrier, late, stall,
                 fin, life>>

-----------------------------------------------------------------------------
(* The assembler worker: processRequest *)

\* partsWritten, which module FileWriter shows to be this count.
Parts(f, sd, sf) == Cardinality(Of(sd \cup sf, f))

\* openTargetFile: create the file if it is missing and pre-allocate it; a
\* failed pre-allocation is logged and leaves the size alone.
Opened(f, p, pre) ==
  IF f \in open THEN size[f][p]
  ELSE IF pre /\ size[f][p] < ExpectedSize[f] THEN ExpectedSize[f]
  ELSE IF size[f][p] = Absent THEN 0
  ELSE size[f][p]

\* finalizeFile: the last part tombstones the file and reports it complete.
\* The file completes on the count alone, whether or not the parts are on disk.
CompleteOn(f, sd, sf) ==
  IF total[f]' > 0 /\ Parts(f, sd, sf) >= total[f]'
  THEN /\ tomb' = tomb \cup {f}
       /\ fin' = [fin EXCEPT ![f] = "queued"]
  ELSE UNCHANGED <<tomb, fin>>

\* A decoded article reaches a file that is still being assembled.  ok is what
\* the write cache writes now (nothing, this article, a contiguous run, or
\* what relievePressure evicts), bad what it tried and failed to write: those
\* parts are rolled back and the articles return to Outstanding.
AcceptArticle(a, ok, bad, pre) ==
  LET f == FileOf[a]
      sd == (seenDone \cup {a}) \ bad
  IN /\ Up /\ a \in flight
     /\ f \notin tomb
     /\ a \notin seenDone \cup seenFailed
     /\ ok \cup bad \subseteq buf \cup {a} /\ ok \cap bad = {}
     /\ IF bad = {} THEN UNCHANGED faults ELSE Fault("write")
     /\ flight' = flight \ {a}
     /\ Register(f)
     /\ dirty' = (dirty \/ Newly(f))
     /\ open' = open \cup {f}
     /\ size' = [g \in File |-> [p \in Path |->
          LET s == IF g = f /\ p = name'[f] THEN Opened(f, p, pre)
                   ELSE size[g][p]
          IN IF p = name'[g] THEN Grown(s, Of(ok, g)) ELSE s]]
     /\ page' = [p \in Path |-> page[p] \cup {b \in ok : name'[FileOf[b]] = p}]
     /\ written' = written \cup ok
     /\ buf' = (buf \cup {a}) \ (ok \cup bad)
     /\ emitted' = emitted \ bad
     /\ seenDone' = sd
     /\ UNCHANGED seenFailed
     /\ CompleteOn(f, sd, seenFailed)
     /\ UNCHANGED <<done, failed, complete, fatalq, reported, plate, psize, db,
                    barrier, late, stall, life>>

\* Mutant of OpenFault: the failed open is only logged.
OpenFaultSilent(a) ==
  /\ Up /\ a \in flight \cup fatalq
  /\ FileOf[a] \notin tomb \cup open
  /\ Fault("open")
  /\ flight' = flight \ {a}
  /\ fatalq' = fatalq \ {a}
  /\ Register(FileOf[a])
  /\ dirty' = (dirty \/ Newly(FileOf[a]))
  /\ UNCHANGED <<done, failed, emitted, complete, cache, report, disk, db,
                 barrier, late, stall, fin, life>>

\* Opening the target file fails: the article returns to Outstanding, unless
\* it is the FatalErr request of one already Failed, whose part is dropped.
OpenFault(a) ==
  /\ Up /\ a \in flight \cup fatalq
  /\ FileOf[a] \notin tomb \cup open
  /\ Fault("open")
  /\ flight' = flight \ {a}
  /\ fatalq' = fatalq \ {a}
  /\ emitted' = emitted \ {a}
  /\ Register(FileOf[a])
  /\ dirty' = (dirty \/ Newly(FileOf[a]))
  /\ UNCHANGED <<done, failed, complete, cache, report, disk, db, barrier,
                 late, stall, fin, life>>

\* handleLateDuplicate: an article for a tombstoned file.  One this open
\* writer never accepted is recorded as permanently failed.
LateDuplicate(a) ==
  LET f == FileOf[a]
      reject == /\ f \in open
                /\ a \notin seenDone \cup seenFailed
                /\ a \notin done
  IN /\ Up /\ a \in flight \cup fatalq
     /\ f \in tomb
     /\ flight' = flight \ {a}
     /\ fatalq' = fatalq \ {a}
     /\ IF reject
        THEN /\ done' = done \cup {a}
             /\ failed' = failed \cup {a}
             /\ emitted' = emitted \ {a}
             /\ dirty' = TRUE
        ELSE UNCHANGED <<done, failed, emitted, dirty>>
     /\ UNCHANGED <<complete, name, total, cache, report, disk, db, barrier,
                    late, stall, fin, life, faults>>

\* handleFatalArticle: count the failed article's part, opening the file first.
FatalArticle(a, pre) ==
  LET f == FileOf[a]
      sf == seenFailed \cup {a}
  IN /\ Up /\ a \in fatalq
     /\ f \notin tomb
     /\ fatalq' = fatalq \ {a}
     /\ open' = open \cup {f}
     /\ size' = [size EXCEPT ![f][name[f]] = Opened(f, name[f], pre)]
     /\ seenFailed' = sf
     /\ UNCHANGED <<name, total>>
     /\ IF a \in seenDone \cup seenFailed THEN UNCHANGED <<tomb, fin>>
        ELSE CompleteOn(f, seenDone, sf)
     /\ UNCHANGED <<done, failed, emitted, complete, flight, buf, seenDone,
                    report, page, plate, psize, db, dirty, barrier, late,
                    stall, life, faults>>

-----------------------------------------------------------------------------
(* The worker's side of the barrier's operations: handleSyncOp *)

\* FileWriter.Drain: write the file's buffered articles in offset order, ok of
\* them, stop at the first error and roll the rest back; then take() reports
\* everything written and not yet confirmed.
DrainFile(f, ok) ==
  LET bad == Of(buf, f) \ ok
  IN /\ ok \subseteq Of(buf, f)
     /\ \A a \in ok, b \in bad : End[a] < End[b]
     /\ page' = [page EXCEPT ![name[f]] = @ \cup ok]
     /\ size' = [size EXCEPT ![f][name[f]] = Grown(@, ok)]
     /\ reported' = reported \cup Of(written, f) \cup ok
     /\ written' = written \ Arts(f)
     /\ buf' = buf \ Arts(f)
     /\ seenDone' = seenDone \ bad
     /\ emitted' = emitted \ bad

\* FileWriter.Sync: the file's pages reach the platter.
SyncFile(f) ==
  /\ plate' = [plate EXCEPT ![name[f]] =
                 (@ \ Arts(f)) \cup Of(page[name[f]], f)]
  /\ psize' = [psize EXCEPT ![f][name[f]] = size[f][name[f]]]

\* FileWriter.Truncate: never grows the file.
TruncateFile(f, bound) ==
  IF bound >= size[f][name[f]] THEN UNCHANGED <<page, size>>
  ELSE /\ size' = [size EXCEPT ![f][name[f]] = bound]
       /\ page' = [page EXCEPT ![name[f]] = @ \ Beyond(f, bound)]

\* FileWriter.Confirm: the drain report is released.
ConfirmFile(f) == reported' = reported \ Arts(f)

\* drainAndClose: drain what can be written, roll the rest back, fsync (failing
\* it is only logged), drop the writer.  Articles written and never confirmed
\* leave with it.
CloseFile(f, ok, synced) ==
  LET bad == Of(buf, f) \ ok
  IN /\ ok \subseteq Of(buf, f)
     /\ \A a \in ok, b \in bad : End[a] < End[b]
     /\ page' = [page EXCEPT ![name[f]] = @ \cup ok]
     /\ size' = [size EXCEPT ![f][name[f]] = Grown(@, ok)]
     /\ IF synced
        THEN /\ plate' = [plate EXCEPT ![name[f]] =
                            (@ \ Arts(f)) \cup Of(page'[name[f]], f)]
             /\ psize' = [psize EXCEPT ![f][name[f]] = size'[f][name[f]]]
        ELSE UNCHANGED <<plate, psize>>
     /\ open' = open \ {f}
     /\ written' = written \ Arts(f)
     /\ reported' = reported \ Arts(f)
     /\ buf' = buf \ Arts(f)
     /\ emitted' = emitted \ bad

-----------------------------------------------------------------------------
(* The barrier: Run over the open files, FinalizeFile over one of them.    *)
(* bfin is the file being finalized, NoFile for a checkpoint; bretry says  *)
(* that the finalize is a stall re-evaluation's retry.  One runs at a time *)
(* (the job's barrier lock).  A worker operation is queued behind the ones *)
(* before it, so none starts while an abandoned one is outstanding (late). *)

Idle == bpc = "idle"

NoOp == [op |-> "none", file |-> NoFile, bound |-> 0]

\* on: the job has a stall record; seed: recorded runs are to be replayed; at and
\* pass: how far the running re-evaluation has come, and the files it read off
\* the record.
StallRecord == [on : BOOLEAN, seed : BOOLEAN,
                at : {"idle", "retry", "deliver", "clear"}, pass : SUBSET File]

NoStall == [on |-> FALSE, seed |-> FALSE, at |-> "idle", pass |-> {}]

StartBarrier(f, retry, todo) ==
  /\ bpc' = "drain"
  /\ bfin' = f /\ bretry' = retry
  /\ btodo' = todo /\ bfiles' = {} /\ bgot' = {}

\* checkpointJob: Barrier.Run over the files the worker has open.
Checkpoint ==
  /\ Up /\ Idle /\ late.op = "none" /\ open # {}
  /\ stall.at = "idle"
  /\ StartBarrier(NoFile, FALSE, open)
  /\ UNCHANGED <<progress, pipe, cache, report, disk, db, dirty, late,
                 stall, fin, life, faults>>

\* handleFileComplete, and retryFinalize for a file of the running
\* re-evaluation.  A completed file that is no longer open has nothing to
\* finalize; a retry that finds its handle gone is lost until the next start.
\* A first attempt for a job whose manifest is evicted has no target, and passes
\* for done; a retry is refused then, which parks the job without its manifest,
\* so that every later retry is refused too (module StallRecovery).
Finalize(f) ==
  /\ Up /\ Idle /\ late.op = "none"
  /\ \/ fin[f] = "queued"
     \/ fin[f] = "pending" /\ stall.at = "retry" /\ f \in stall.pass
  /\ \/ /\ IF f \in open
           THEN /\ StartBarrier(f, fin[f] = "pending", {f})
                /\ fin' = [fin EXCEPT ![f] = "running"]
           ELSE /\ fin' = [fin EXCEPT ![f] = IF @ = "queued" THEN "close" ELSE "lost"]
                /\ UNCHANGED barrier
        /\ UNCHANGED faults
     \/ /\ fin[f] = "queued" /\ Fault("evicted")
        /\ fin' = [fin EXCEPT ![f] = "close"]
        /\ UNCHANGED barrier
     \/ /\ fin[f] = "pending" /\ f \in open
        /\ fin' = [fin EXCEPT ![f] = "unread"]
        /\ UNCHANGED <<barrier, faults>>
  /\ UNCHANGED <<progress, pipe, cache, report, disk, db, dirty, late,
                 stall, life>>

Reset == /\ bpc' = "idle" /\ bfin' = NoFile /\ bretry' = FALSE
         /\ btodo' = {} /\ bfiles' = {} /\ bgot' = {}

\* The failure creates the job's stall record; runs that a checkpoint could not
\* acknowledge are to be replayed.
noteFailure ==
  stall' = [stall EXCEPT !.on = TRUE,
                         !.seed = @ \/ (bpc = "ack" /\ bfin = NoFile)]

\* Mutants of Abort: the file is completed although its finalize failed; the
\* failed finalize is not recorded for a retry.
AbortCompletes ==
  /\ Reset /\ noteFailure
  /\ fin' = IF bfin = NoFile THEN fin ELSE [fin EXCEPT ![bfin] = "close"]

AbortForgets ==
  /\ Reset /\ noteFailure
  /\ fin' = IF bfin = NoFile THEN fin ELSE [fin EXCEPT ![bfin] = "running"]

\* An operation failed, or its caller stopped waiting: nothing is claimed, and
\* an interrupted finalize is recorded for the stall re-evaluation.
Abort ==
  /\ Reset /\ noteFailure
  /\ fin' = IF bfin = NoFile THEN fin ELSE [fin EXCEPT ![bfin] = "pending"]

\* The finalize is over and the handle is to be released.
FinalizeReturns ==
  /\ Reset
  /\ fin' = [fin EXCEPT ![bfin] = IF bretry THEN "rclose" ELSE "close"]

\* ErrFileNotOpen: a checkpoint drops the file and what it drained from it, a
\* finalize has nothing left to do.
FileGone(f) ==
  IF bfin = NoFile
  THEN /\ btodo' = btodo \ {f}
       /\ bfiles' = bfiles \ {f}
       /\ bgot' = bgot \ Arts(f)
       /\ UNCHANGED <<bpc, bfin, bretry, fin>>
  ELSE FinalizeReturns

Drain(f, ok) ==
  /\ Up /\ bpc = "drain" /\ f \in btodo /\ late.op = "none"
  /\ \/ /\ f \notin open
        /\ ok = {}
        /\ FileGone(f)
        /\ UNCHANGED <<emitted, buf, seenDone, report, page, size, stall, faults>>
     \/ /\ f \in open
        /\ DrainFile(f, ok)
        /\ IF ok = Of(buf, f)
           THEN /\ btodo' = btodo \ {f}
                /\ bfiles' = bfiles \cup {f}
                /\ bgot' = bgot \cup Of(reported', f)
                /\ UNCHANGED <<bpc, bfin, bretry, fin, stall, faults>>
           ELSE Fault("write") /\ Abort
  /\ UNCHANGED <<done, failed, complete, name, pipe, open, tomb, seenFailed,
                 plate, psize, db, dirty, late, life>>

Sync(f) ==
  /\ Up /\ bpc \in {"sync", "sync2"} /\ f \in btodo /\ late.op = "none"
  /\ \/ f \notin open /\ FileGone(f) /\ UNCHANGED <<plate, psize, stall, faults>>
     \/ /\ f \in open
        /\ SyncFile(f)
        /\ btodo' = btodo \ {f}
        /\ UNCHANGED <<bpc, bfin, bretry, bfiles, bgot, fin, stall, faults>>
     \/ f \in open /\ Fault("sync") /\ Abort /\ UNCHANGED <<plate, psize>>
  /\ UNCHANGED <<progress, pipe, cache, report, page, size, db, dirty, late, life>>

\* Mutant of Bound: the cut forgets the runs that are recorded already.
BoundOfReport(f) == boundOver(bgot)

\* FinalizeFile: cut the file at the end of what is, or is about to be,
\* recorded for it; with nothing recorded there is no bound to cut at.
Bound(f) == boundOver(Of(runs, f) \cup bgot)

Truncate(f) ==
  /\ Up /\ bpc = "truncate" /\ f \in btodo /\ late.op = "none"
  /\ \/ f \notin open /\ FileGone(f) /\ UNCHANGED <<page, size, stall, faults>>
     \/ /\ f \in open
        /\ TruncateFile(f, Bound(f))
        /\ btodo' = btodo \ {f}
        /\ UNCHANGED <<bpc, bfin, bretry, bfiles, bgot, fin, stall, faults>>
     \/ f \in open /\ Fault("sync") /\ Abort /\ UNCHANGED <<page, size>>
  /\ UNCHANGED <<progress, pipe, cache, report, plate, psize, db, dirty, late, life>>

Stat(f) ==
  /\ Up /\ bpc = "stat" /\ f \in btodo /\ late.op = "none"
  /\ \/ f \notin open /\ FileGone(f) /\ UNCHANGED <<stall, faults>>
     \/ /\ f \in open
        /\ btodo' = btodo \ {f}
        /\ UNCHANGED <<bpc, bfin, bretry, bfiles, bgot, fin, stall, faults>>
     \/ f \in open /\ Fault("sync") /\ Abort
  /\ UNCHANGED <<progress, pipe, cache, report, disk, db, dirty, late, life>>

\* Mutants of NextPhase: no fsync before the commit; no truncate.
NextPhaseNoSync ==
  CASE bpc = "drain" -> "stat"
    [] bpc = "sync" -> "stat"
    [] bpc = "truncate" -> "sync2"
    [] bpc = "sync2" -> "stat"
    [] bpc = "stat" -> "commit"

NextPhaseNoTrim ==
  CASE bpc = "drain" -> "sync"
    [] bpc = "sync" -> "stat"
    [] bpc = "truncate" -> "sync2"
    [] bpc = "sync2" -> "stat"
    [] bpc = "stat" -> "commit"

\* The next phase, over the files still in the barrier, once every file of
\* this one has been served.
NextPhase ==
  CASE bpc = "drain" -> "sync"
    [] bpc = "sync" -> IF bfin = NoFile \/ Bound(bfin) = 0 THEN "stat"
                       ELSE "truncate"
    [] bpc = "truncate" -> "sync2"
    [] bpc = "sync2" -> "stat"
    [] bpc = "stat" -> "commit"

Advance ==
  /\ Up /\ bpc \in {"drain", "sync", "truncate", "sync2", "stat"}
  /\ btodo = {}
  /\ bpc' = NextPhase
  /\ btodo' = bfiles
  /\ UNCHANGED <<bfin, bretry, bfiles, bgot>>
  /\ UNCHANGED <<progress, pipe, cache, report, disk, db, dirty, late,
                 stall, fin, life, faults>>

\* Mutant of Commit: the articles are acknowledged although it failed.
CommitUnchecked ==
  /\ Up /\ bpc = "commit"
  /\ bpc' = "ack"
  /\ \/ runs' = runs \cup bgot /\ UNCHANGED faults
     \/ Fault("db") /\ UNCHANGED runs
  /\ UNCHANGED <<bfin, bretry, btodo, bfiles, bgot, fin>>
  /\ UNCHANGED <<progress, pipe, cache, report, disk, dbfailed, dbcomplete,
                 dbname, dirty, late, stall, life>>

\* RunStore.Commit: one transaction; a failed one leaves the record as it was.
Commit ==
  /\ Up /\ bpc = "commit"
  /\ \/ /\ runs' = runs \cup bgot
        /\ bpc' = "ack"
        /\ UNCHANGED <<bfin, bretry, btodo, bfiles, bgot, fin, stall, faults>>
     \/ Fault("db") /\ Abort /\ UNCHANGED runs
  /\ UNCHANGED <<progress, pipe, cache, report, disk, dbfailed, dbcomplete,
                 dbname, dirty, late, life>>

\* Job.AckDurable: refused while the job's manifest is evicted.
Ack ==
  /\ Up /\ bpc = "ack"
  /\ \/ /\ done' = done \cup bgot
        /\ emitted' = emitted \ (bgot \ done)
        /\ dirty' = (dirty \/ bgot # {})
        /\ bpc' = "confirm"
        /\ UNCHANGED <<bfin, bretry, btodo, bfiles, bgot, stall, fin,
                       faults>>
     \/ /\ bgot # {}
        /\ Fault("resident") /\ Abort
        /\ UNCHANGED <<done, emitted, dirty>>
  /\ UNCHANGED <<failed, complete, name, pipe, cache, report, disk, db, late,
                 life>>

\* Confirm: swallows every failure; the report then stays for the next drain.
Confirm(f) ==
  /\ Up /\ bpc = "confirm" /\ f \in btodo /\ late.op = "none"
  /\ btodo' = btodo \ {f}
  /\ IF f \in open THEN ConfirmFile(f) ELSE UNCHANGED reported
  /\ UNCHANGED <<bpc, bfin, bretry, bfiles, bgot>>
  /\ UNCHANGED <<progress, pipe, cache, written, disk, db, dirty, late,
                 stall, fin, life, faults>>

BarrierReturns ==
  /\ Up /\ bpc = "confirm" /\ btodo = {}
  /\ IF bfin = NoFile
     THEN Reset /\ UNCHANGED fin
     ELSE FinalizeReturns
  /\ UNCHANGED <<progress, pipe, cache, report, disk, db, dirty, late,
                 stall, life, faults>>

\* The caller's wait ends while the worker is busy: the operation stays queued
\* and runs later, with no one to read its answer, unless even the queue had no
\* room for it.  A confirm's caller goes on without it; any other abandons the
\* barrier.
Timeout(f) ==
  /\ Up /\ f \in btodo /\ late.op = "none"
  /\ bpc \in {"drain", "sync", "truncate", "sync2", "confirm"}
  /\ Fault("timeout")
  /\ \/ late' = [op |-> bpc, file |-> f,
                  bound |-> IF bpc = "truncate" THEN Bound(f) ELSE 0]
     \/ UNCHANGED late
  /\ IF bpc = "confirm"
     THEN /\ btodo' = btodo \ {f}
          /\ UNCHANGED <<bpc, bfin, bretry, bfiles, bgot, fin, stall>>
     ELSE Abort
  /\ UNCHANGED <<progress, pipe, cache, report, disk, db, dirty, life>>

\* CloseFile, after the barrier lock is released: its answer is only logged,
\* and so is the end of its wait.
Release(f) ==
  /\ Up /\ fin[f] \in {"close", "rclose"} /\ late.op = "none"
  /\ \/ /\ f \notin open
        /\ UNCHANGED <<emitted, open, buf, report, disk, late, faults>>
     \/ /\ f \in open /\ UNCHANGED late
        /\ \E ok \in SUBSET Article :
             /\ CloseFile(f, ok, TRUE)
             /\ IF ok = Of(buf, f) THEN UNCHANGED faults ELSE Fault("write")
     \/ /\ f \in open /\ UNCHANGED late
        /\ CloseFile(f, Of(buf, f), FALSE) /\ Fault("sync")
     \/ /\ f \in open /\ Fault("timeout")
        /\ late' \in {late, [op |-> "close", file |-> f, bound |-> 0]}
        /\ UNCHANGED <<emitted, open, buf, report, disk>>
  /\ fin' = [fin EXCEPT ![f] = IF @ = "close" THEN "deliver" ELSE "done"]
  /\ UNCHANGED <<done, failed, complete, name, pipe, tomb, seenDone, seenFailed, db, dirty,
                 barrier, stall, life>>

\* The worker reaches an operation nobody waits for any more.
LateOp(ok) ==
  /\ Up /\ late.op # "none"
  /\ late' = NoOp
  /\ LET f == late.file IN
     \/ /\ f \notin open /\ ok = {}
        /\ UNCHANGED <<emitted, open, buf, seenDone, report, disk, faults>>
     \/ /\ f \in open /\ late.op = "drain"
        /\ DrainFile(f, ok)
        /\ IF ok = Of(buf, f) THEN UNCHANGED faults ELSE Fault("write")
        /\ UNCHANGED <<open, plate, psize>>
     \/ /\ f \in open /\ late.op \in {"sync", "sync2"} /\ ok = {}
        /\ SyncFile(f)
        /\ UNCHANGED <<emitted, open, buf, seenDone, report, page, size,
                       faults>>
     \/ /\ f \in open /\ late.op = "truncate" /\ ok = {}
        /\ TruncateFile(f, late.bound)
        /\ UNCHANGED <<emitted, open, buf, seenDone, report, plate, psize,
                       faults>>
     \/ /\ f \in open /\ late.op = "confirm" /\ ok = {}
        /\ ConfirmFile(f)
        /\ UNCHANGED <<emitted, open, buf, seenDone, written, disk, faults>>
     \/ /\ f \in open /\ late.op = "close"
        /\ CloseFile(f, ok, TRUE)
        /\ IF ok = Of(buf, f) THEN UNCHANGED faults ELSE Fault("write")
        /\ UNCHANGED seenDone
  /\ UNCHANGED <<done, failed, complete, name, pipe, tomb, seenFailed, db,
                 dirty, barrier, stall, fin, life>>

-----------------------------------------------------------------------------
(* Completion, stall re-evaluation, checkpointer *)

\* completeFinalizedFile: refused while the job's manifest is evicted, and
\* then recorded for the stall re-evaluation as a finalize that is done.
Deliver(f) ==
  /\ Up /\ fin[f] = "deliver"
  /\ \/ /\ complete' = complete \cup {f}
        /\ dirty' = TRUE
        /\ fin' = [fin EXCEPT ![f] = "none"]
        /\ UNCHANGED <<stall, faults>>
     \/ /\ Fault("resident")
        /\ fin' = [fin EXCEPT ![f] = "done"]
        /\ stall' = [stall EXCEPT !.on = TRUE]
        /\ UNCHANGED <<complete, dirty>>
  /\ UNCHANGED <<done, failed, emitted, name, pipe, cache, report, disk, db,
                 barrier, late, life>>

\* reevaluateStall works on a copy of the recovery set (recoveryFiles).  It runs
\* in the checkpoint loop, so that no checkpoint, and no other pass, is under way.
recorded == {f \in File : fin[f] \in {"pending", "unread", "lost", "done"}}

Reevaluate ==
  /\ Up /\ stall.at = "idle"
  /\ Idle \/ (bfin # NoFile /\ ~bretry)
  /\ stall.on
  /\ stall' = [stall EXCEPT !.at = "retry", !.pass = recorded]
  /\ UNCHANGED <<progress, pipe, cache, report, disk, db, dirty, barrier, late,
                 fin, life, faults>>

\* Phase 1: a file that could not be finalized ends the pass.
Blocked ==
  /\ Up /\ stall.at = "retry"
  /\ \E f \in stall.pass : fin[f] \in {"pending", "unread", "lost"}
  /\ \A f \in stall.pass : fin[f] \notin {"running", "rclose"}
  /\ stall' = [stall EXCEPT !.at = "idle", !.pass = {}]
  /\ UNCHANGED <<progress, pipe, cache, report, disk, db, dirty, barrier, late,
                 fin, life, faults>>

\* Phases 2 and 3: the committed runs are replayed (SeedFromRuns only adds); a
\* failure to read them, or to seed an evicted job, is logged.
seedFromCommittedRuns ==
  /\ Up /\ stall.at = "retry"
  /\ \A f \in stall.pass : fin[f] = "done"
  /\ stall' = [stall EXCEPT !.at = IF stall.pass = {} THEN "clear" ELSE "deliver"]
  /\ \/ /\ stall.pass # {} \/ stall.seed
        /\ done' = done \cup runs
        /\ emitted' = emitted \ (runs \ done)
        /\ UNCHANGED faults
     \/ stall.pass = {} /\ ~stall.seed /\ UNCHANGED <<done, emitted, faults>>
     \/ (Fault("db") \/ Fault("resident")) /\ UNCHANGED <<done, emitted>>
  /\ UNCHANGED <<failed, complete, name, pipe, cache, report, disk, db, dirty,
                 barrier, late, fin, life>>

\* Phase 4: the completion of one finalized file is delivered, or kept for the next pass;
\* the record goes with its last file, whatever else it says.
Redeliver(f) ==
  /\ Up /\ stall.at = "deliver" /\ f \in stall.pass /\ fin[f] = "done"
  /\ \/ /\ complete' = complete \cup {f}
        /\ dirty' = TRUE
        /\ fin' = [fin EXCEPT ![f] = "none"]
        /\ stall' = [stall EXCEPT !.pass = @ \ {f},
                                  !.on = @ /\ recorded # {f},
                                  !.seed = @ /\ recorded # {f}]
        /\ UNCHANGED faults
     \/ /\ Fault("resident")
        /\ stall' = [stall EXCEPT !.pass = @ \ {f}]
        /\ UNCHANGED <<complete, dirty, fin>>
  /\ UNCHANGED <<done, failed, emitted, name, pipe, cache, report, disk, db,
                 barrier, late, life>>

\* A pass that began without files drops the record, and with it the files that
\* were recorded since it began.
clearStall ==
  /\ Up
  /\ \/ stall.at = "deliver" /\ stall.pass = {} /\ UNCHANGED fin
        /\ stall' = [stall EXCEPT !.at = "idle"]
     \/ /\ stall.at = "clear"
        /\ fin' = [f \in File |-> IF f \in recorded THEN "dropped" ELSE fin[f]]
        /\ stall' = [stall EXCEPT !.at = "idle", !.on = FALSE, !.seed = FALSE]
  /\ UNCHANGED <<progress, pipe, cache, report, disk, db, dirty, barrier, late,
                 life, faults>>

\* Checkpointer.Flush: one transaction; failed_articles rows are only added.
Flush ==
  /\ Up /\ dirty
  /\ dirty' = FALSE
  /\ dbfailed' = dbfailed \cup failed
  /\ dbcomplete' = complete
  /\ dbname' = name
  /\ UNCHANGED <<progress, pipe, cache, report, disk, runs, barrier, late,
                 stall, fin, life, faults>>

-----------------------------------------------------------------------------
(* Crash and restart *)

\* The process dies.  Every file keeps what was fsynced and any part of what
\* was not; memory is gone, and the next process will read back the names the
\* checkpointer saved.
Crash ==
  /\ crashes < MaxCrash
  /\ crashes' = crashes + 1
  /\ phase' = "down"
  /\ \E keep \in SUBSET {x \in Article \X Path :
                            x[1] \in page[x[2]] \ plate[x[2]]},
        lost \in SUBSET {x \in File \X Path :
                            size[x[1]][x[2]] # psize[x[1]][x[2]]} :
       /\ size' = [f \in File |-> [p \in Path |->
                     IF <<f, p>> \in lost THEN psize[f][p] ELSE size[f][p]]]
       /\ page' = [p \in Path |->
                     {a \in Article : /\ a \in plate[p] \/ <<a, p>> \in keep
                                      /\ End[a] <= size'[FileOf[a]][p]}]
  /\ psize' = size' /\ plate' = page'
  /\ done' = {} /\ failed' = {} /\ emitted' = {} /\ complete' = {}
  /\ name' = dbname
  /\ total' = [f \in File |-> 0] /\ flight' = {} /\ fatalq' = {}
  /\ open' = {} /\ tomb' = {} /\ buf' = {} /\ written' = {} /\ reported' = {}
  /\ seenDone' = {} /\ seenFailed' = {}
  /\ dirty' = FALSE
  /\ Reset
  /\ late' = NoOp
  /\ stall' = NoStall
  /\ fin' = [f \in File |-> "none"]
  /\ swept' = {} /\ sweepfault' = FALSE
  /\ UNCHANGED <<db, unchecked, tampers, faults>>

\* While the process is down a partial file is removed, or cut short.
Tamper(f, p, n) ==
  /\ phase = "down" /\ tampers < MaxTamper
  /\ n < size[f][p]
  /\ tampers' = tampers + 1
  /\ size' = [size EXCEPT ![f][p] = n]
  /\ page' = [page EXCEPT ![p] = @ \ Beyond(f, n)]
  /\ psize' = size' /\ plate' = page'
  /\ UNCHANGED <<progress, pipe, cache, report, db, dirty, barrier, late,
                 stall, fin, phase, swept, sweepfault, unchecked, crashes,
                 faults>>

\* Start: residency.Hydrate restores the file metadata and resolves articles
\* from failed_articles and durable_runs.
Hydrate ==
  /\ phase = "down"
  /\ phase' = "sweep"
  /\ failed' = dbfailed
  /\ done' = dbfailed \cup runs
  /\ complete' = dbcomplete
  /\ UNCHANGED <<emitted, name, pipe, cache, report, disk, db, dirty, barrier,
                 late, stall, fin, swept, sweepfault, unchecked, crashes,
                 tampers, faults>>

\* Resumer.Resume: one stat; a missing file, or one shorter than its runs
\* claim, has its runs deleted, in the database, before the call returns.
ResumeFile(f) ==
  LET s == size[f][name[f]]
  IN /\ phase = "sweep" /\ ~sweepfault
     /\ f \notin swept /\ name[f] # 0
     /\ swept' = swept \cup {f}
     /\ IF s = Absent \/ s < boundOver(Of(runs, f))
        THEN runs' = runs \ Arts(f) /\ unchecked' = unchecked \ {f}
        ELSE UNCHANGED <<runs, unchecked>>
     /\ UNCHANGED <<progress, pipe, cache, report, disk, dbfailed, dbcomplete,
                    dbname, dirty, barrier, late, stall, fin, phase,
                    sweepfault, crashes, tampers, faults>>

\* A stat or a query fails: the files not reached yet are left as they are.
ResumeFault ==
  /\ phase = "sweep" /\ ~sweepfault
  /\ \E f \in File : f \notin swept /\ name[f] # 0
  /\ Fault("sweep")
  /\ sweepfault' = TRUE
  /\ UNCHANGED <<progress, pipe, cache, report, disk, db, dirty, barrier, late,
                 stall, fin, phase, swept, unchecked, crashes, tampers>>

\* Job.ReplaceFromRuns over the swept files: an article no surviving run
\* covers is Outstanding again, unless it failed permanently, and a file that
\* lost one is no longer Complete.  The flush that follows saves nothing,
\* because nothing marked the job.  unchecked records the files with runs that
\* no stat has vouched for since they were last skipped.
ReplaceFromRuns ==
  LET cleared == {a \in done \ (failed \cup runs) : FileOf[a] \in swept}
  IN /\ phase = "sweep"
     /\ sweepfault \/ \A f \in File : f \in swept \/ name[f] = 0
     /\ phase' = "strand"
     /\ done' = (done \ cleared) \cup {a \in runs : FileOf[a] \in swept}
     /\ complete' = complete \ {FileOf[a] : a \in cleared}
     /\ unchecked' = unchecked \cup {f \in File \ swept : Of(runs, f) # {}}
     /\ UNCHANGED <<failed, emitted, name, pipe, cache, report, disk, db,
                    dirty, barrier, late, stall, fin, swept, sweepfault,
                    crashes, tampers, faults>>

\* completeStrandedFiles on one swept file whose articles are all resolved and
\* that is not Complete: trim it, fsync it, mark it Complete.
Strand(f) ==
  /\ phase = "strand" /\ ~sweepfault
  /\ f \in swept \ complete /\ Arts(f) # {} /\ Arts(f) \subseteq done
  /\ LET bound == boundOver(Of(runs, f)) IN
     IF bound > 0 /\ size[f][name[f]] > bound
     THEN /\ TruncateFile(f, bound)
          /\ plate' = [plate EXCEPT ![name[f]] = @ \ Beyond(f, bound)]
          /\ psize' = [psize EXCEPT ![f][name[f]] = bound]
     ELSE UNCHANGED disk
  /\ complete' = complete \cup {f}
  /\ dirty' = TRUE
  /\ UNCHANGED <<done, failed, emitted, name, pipe, cache, report, db, barrier,
                 late, stall, fin, life, faults>>

\* A trim that fails withholds the flag; the file stays stranded.
StrandFault(f) ==
  /\ phase = "strand" /\ ~sweepfault
  /\ f \in swept \ complete /\ Arts(f) # {} /\ Arts(f) \subseteq done
  /\ Fault("sweep")
  /\ swept' = swept \ {f}
  /\ UNCHANGED <<progress, pipe, cache, report, disk, db, dirty, barrier, late,
                 stall, fin, phase, sweepfault, unchecked, crashes,
                 tampers>>

\* The sweep is over; the downloader may dispatch.
Started ==
  /\ phase = "strand"
  /\ \/ sweepfault
     \/ \A f \in swept \ complete : Arts(f) = {} \/ ~(Arts(f) \subseteq done)
  /\ phase' = "up"
  /\ swept' = {} /\ sweepfault' = FALSE
  /\ UNCHANGED <<progress, pipe, cache, report, disk, db, dirty, barrier, late,
                 stall, fin, unchecked, crashes, tampers, faults>>

-----------------------------------------------------------------------------

\* A freshly ingested job, in a process that has finished starting.
Init ==
  /\ done = {} /\ failed = {} /\ emitted = {} /\ complete = {}
  /\ name = [f \in File |-> 0]
  /\ total = [f \in File |-> 0] /\ flight = {} /\ fatalq = {}
  /\ open = {} /\ tomb = {} /\ buf = {} /\ written = {} /\ reported = {}
  /\ seenDone = {} /\ seenFailed = {}
  /\ page = [p \in Path |-> {}] /\ plate = page
  /\ size = [f \in File |-> [p \in Path |-> Absent]] /\ psize = size
  /\ runs = {} /\ dbfailed = {} /\ dbcomplete = {} /\ dbname = name
  /\ dirty = FALSE
  /\ bpc = "idle" /\ bfin = NoFile /\ bretry = FALSE
  /\ btodo = {} /\ bfiles = {} /\ bgot = {} /\ late = NoOp
  /\ stall = NoStall
  /\ fin = [f \in File |-> "none"]
  /\ phase = "up" /\ swept = {} /\ sweepfault = FALSE /\ unchecked = {}
  /\ crashes = 0 /\ faults = 0 /\ tampers = 0

Fetching ==
  \E a \in Article : Emit(a) \/ RetryableFailure(a) \/ PermanentFailure(a)

Assembling ==
  \/ \E a \in Article, ok, bad \in SUBSET Article, pre \in BOOLEAN :
       AcceptArticle(a, ok, bad, pre)
  \/ \E a \in Article : OpenFault(a) \/ LateDuplicate(a)
  \/ \E a \in Article, pre \in BOOLEAN : FatalArticle(a, pre)

Syncing ==
  \/ Checkpoint \/ Advance \/ Commit \/ Ack \/ BarrierReturns
  \/ \E f \in File : \/ Finalize(f) \/ Sync(f) \/ Truncate(f) \/ Stat(f)
                     \/ Confirm(f) \/ Timeout(f) \/ Release(f)
  \/ \E f \in File, ok \in SUBSET Article : Drain(f, ok)
  \/ \E ok \in SUBSET Article : LateOp(ok)

Reevaluating ==
  \/ Reevaluate \/ Blocked \/ seedFromCommittedRuns \/ clearStall
  \/ \E f \in File : Redeliver(f)

Completing == Reevaluating \/ Flush \/ \E f \in File : Deliver(f)

Restarting ==
  \/ Crash \/ Hydrate \/ ResumeFault \/ ReplaceFromRuns \/ Started
  \/ \E f \in File : ResumeFile(f) \/ Strand(f) \/ StrandFault(f)
  \/ \E f \in File, p \in Path, n \in Absent..MaxEnd : Tamper(f, p, n)

Next == Fetching \/ Assembling \/ Syncing \/ Completing \/ Restarting

Spec == Init /\ [][Next]_vars

\* An operation of the running barrier on one of its files.
Serving(f) ==
  \/ Sync(f) \/ Truncate(f) \/ Stat(f) \/ Confirm(f)
  \/ \E ok \in SUBSET Article : Drain(f, ok)

(* What the process keeps doing while it runs: the downloader dispatches,  *)
(* the worker serves its queue, a barrier that holds the lock goes on, and *)
(* the checkpoint loop, the stall ticker and the flush ticker fire.  The   *)
(* lock is a sync.Mutex, which hands itself over to a waiter that has      *)
(* waited too long, so a finalize is not passed over for ever.             *)
Fairness ==
  /\ WF_vars(\E a \in Article : Emit(a))
  /\ WF_vars(Assembling)
  /\ WF_vars(Advance \/ Commit \/ Ack \/ BarrierReturns)
  /\ \A f \in File :
       /\ WF_vars(Serving(f))
       /\ WF_vars(Release(f))
       /\ SF_vars(Finalize(f))
       /\ WF_vars(Deliver(f))
  /\ WF_vars(\E ok \in SUBSET Article : LateOp(ok))
  /\ SF_vars(Reevaluate)
  /\ WF_vars(Reevaluating)
  /\ WF_vars(Flush)

LiveSpec == Spec /\ Fairness

-----------------------------------------------------------------------------
(* Properties *)

Phases == {"idle", "drain", "sync", "truncate", "sync2", "stat", "commit",
           "ack", "confirm"}
FinStates == {"none", "queued", "running", "pending", "close", "rclose",
              "deliver", "done", "lost", "unread", "dropped"}

TypeProgress ==
  /\ done \subseteq Article /\ failed \subseteq Article
  /\ emitted \subseteq Article /\ complete \subseteq File
  /\ name \in [File -> {0} \cup Path]
  /\ total \in [File -> Nat]
  /\ flight \subseteq Article /\ fatalq \subseteq Article

TypeWriter ==
  /\ open \subseteq File /\ tomb \subseteq File
  /\ buf \subseteq Article /\ written \subseteq Article
  /\ reported \subseteq Article
  /\ seenDone \subseteq Article /\ seenFailed \subseteq Article

TypeDisk ==
  /\ page \in [Path -> SUBSET Article] /\ plate \in [Path -> SUBSET Article]
  /\ size \in [File -> [Path -> Absent..MaxEnd]]
  /\ psize \in [File -> [Path -> Absent..MaxEnd]]

TypeDatabase ==
  /\ runs \subseteq Article /\ dbfailed \subseteq Article
  /\ dbcomplete \subseteq File /\ dbname \in [File -> {0} \cup Path]
  /\ dirty \in BOOLEAN

TypeBarrier ==
  /\ bpc \in Phases /\ bfin \in File \cup {NoFile} /\ bretry \in BOOLEAN
  /\ btodo \subseteq File /\ bfiles \subseteq File /\ bgot \subseteq Article
  /\ late \in [op : Phases \cup {"close", "none"}, file : File \cup {NoFile},
               bound : 0..MaxEnd]
  /\ fin \in [File -> FinStates]

TypeLife ==
  /\ phase \in {"up", "down", "sweep", "strand"}
  /\ stall \in StallRecord
  /\ swept \subseteq File /\ unchecked \subseteq File /\ sweepfault \in BOOLEAN
  /\ crashes \in Nat /\ faults \in Nat /\ tampers \in Nat

\* Every variable holds a value of its kind.
TypeOK == /\ TypeProgress /\ TypeWriter /\ TypeDisk
          /\ TypeDatabase /\ TypeBarrier /\ TypeLife

\* S1: an article the running process counts as Done, and not as Failed, has
\* its bytes on the platter, in the file the job will ship, unless the file is
\* one the startup sweep had to skip.  No order of writes, faults, timeouts,
\* crashes and restarts gets an article acknowledged before its fsync.
DoneIsDurable ==
  Up => \A a \in done \ failed :
          FileOf[a] \notin unchecked => Holds(plate, a)

\* What the process believes Done, a restart would restore: the commit of the
\* runs comes before the ack, always.
DoneIsRecorded == Up => done \ failed \subseteq runs

\* No article is left Emitted with nobody in charge of it: it is on its way to
\* the worker, or in the hands of a writer that will report it to a barrier or
\* roll it back.  ForEachUnfinishedArticle skips an Emitted article, so one
\* that nobody owns is never fetched again and the job never finishes.
NoStrandedArticle ==
  \A a \in emitted : a \in flight \/ (/\ FileOf[a] \in open
                                      /\ a \in buf \cup written \cup reported)

CutsNothingClaimed ==
  phase # "down" /\ phase = phase' =>
    \A p \in Path, a \in runs \cup written \cup reported :
      a \in page[p] => a \in page'[p]

\* A file is cut only beyond everything anyone relies on: no truncate, late or
\* repeated, removes bytes that are recorded or that a writer still reports.
ClaimedIsNeverCut == [][CutsNothingClaimed]_vars

\* A file is marked Complete only when each of its articles is resolved: the
\* part count the worker completes on does stand for the articles themselves.
CompleteIsResolved == Up => \A f \in complete : Arts(f) \subseteq done

\* A Complete file was trimmed: no pre-allocated tail is left on the platter.
CompleteIsTrimmed ==
  Up => \A f \in complete \ unchecked :
          Of(runs, f) # {} => psize[f][name[f]] = boundOver(Of(runs, f))

\* A startup sweep that skips a file for want of a filename skips nothing: a
\* file no process ever opened a path for has no runs recorded.
SkippedFileHasNoRuns ==
  phase = "strand" => \A f \in File : name[f] = 0 => Of(runs, f) = {}

\* A storage fault never marks an article failed: an article fails only by
\* the verdict of a server.
StorageFaultNeverFails == "article" \notin FaultKinds => failed = {}

\* A file whose finalize failed, and which the stall recovery of this process
\* will not finalize: the job is parked without its manifest, or the record of
\* the failure was dropped.
givenUp(f) == fin[f] \in {"unread", "dropped"}

\* Every file of the job is completed in the end, whatever becomes of its articles
\* and of the checkpoints; only a finalize that failed itself may leave its file
\* to the next start.
FilesComplete == <>[](\A f \in File : f \in complete \/ givenUp(f))

=============================================================================
