------------------------------- MODULE Ingest -------------------------------
(***************************************************************************)
(* How an NZB becomes a job: the watched folder (internal/dirscanner), an  *)
(* upload through the API, and AddJob of internal/app, which both call.    *)
(*                                                                         *)
(* Nothing serialises two AddJobs: each looks at the queue, chooses a name *)
(* and registers in steps of its own.  A registered job reaches the        *)
(* database with the dispatcher's next tick.                               *)
(***************************************************************************)
EXTENDS Integers, Sequences, FiniteSets, FiniteSetsExt

CONSTANTS Content,   \* dropped file -> its NZBs, each [nzb, file, base]
          Upload,    \* the NZB the API is given
          MaxIngestUpsets,  \* failing writes and crashes
          MaxJobs    \* bounds the queue

VARIABLES whereabouts,     \* out, in, failed or gone: where a dropped file is
          size,      \* 1 while it is being written, 2 when whole
          states,    \* the store: the size each file had when last looked at
          saved,     \* dirscan.json
          scan,      \* the scanner
          adder,     \* an AddJob of the scanner and one of the API
          jobs,      \* the queue
          backups,   \* admin/nzb
          made,      \* NZBs a job was ever registered for
          past,      \* the MD5 sums in the history
          dirs,      \* names with a directory in the download or complete one
          lastErr,   \* of handleStableFile: none, error or cancelled
          ctxDone,   \* the scanner's context is cancelled: a shutdown
          ingestUpsets

ingestVars ==
  <<whereabouts, size, states, saved, scan, adder, jobs, backups, made, past,
    dirs, lastErr, ctxDone, ingestUpsets>>

DroppedFiles == DOMAIN Content

\* What is extracted from a dropped file is a list.
ASSUME IngestAssumption == \A f \in DroppedFiles : Len(Content[f]) \in Nat

Adders == {"scan", "api"}
Nothing == [pc |-> "idle", todo |-> {}, file |-> {}, item |-> 0, good |-> 0, seen |-> {}]
Free == [pc |-> "idle", nzb |-> {}, name |-> <<>>, dup |-> FALSE]

IngestInit ==
  /\ whereabouts = [f \in DroppedFiles |-> "out"] /\ size = [f \in DroppedFiles |-> 0]
  /\ states = [f \in DroppedFiles |-> 0] /\ saved = states
  /\ scan = Nothing /\ adder = [a \in Adders |-> Free]
  /\ jobs = {} /\ backups = {} /\ made = {} /\ past = {} /\ dirs = {}
  /\ lastErr = "none" /\ ctxDone = FALSE /\ ingestUpsets = 0

-----------------------------------------------------------------------------
(* AddJob *)

folder == <<whereabouts, size, states, saved, scan, lastErr, ctxDone>>
archive == <<past, dirs>>
mishap == ingestUpsets < MaxIngestUpsets /\ ingestUpsets' = ingestUpsets + 1
beginsAdd(a, n) == adder' = [adder EXCEPT ![a] = [Free EXCEPT !.pc = "dup", !.nzb = {n}]]
steps(a, pc) == adder' = [adder EXCEPT ![a].pc = pc]

\* detectDuplicateNZB: the same content in the queue or the history, or the
\* same file name in the backup directory.  A duplicate is added paused.
isDuplicate(n, sums) == \/ \E j \in jobs : j.nzb = n.nzb
                        \/ n.nzb \in sums
                        \/ \E b \in backups : b.file = n.file

\* The database calls of the scanner's AddJob heed the scanner's context.
refused(a) == ctxDone /\ a = "scan"

\* A search of the history that fails finds nothing.
Detect(a) ==
  /\ adder[a].pc = "dup"
  /\ \E sums \in IF refused(a) THEN {{}} ELSE {past, {}} :
       /\ IF refused(a) \/ sums = past THEN UNCHANGED ingestUpsets ELSE mishap
       /\ \E n \in adder[a].nzb :
            adder' = [adder EXCEPT ![a].pc = "name", ![a].dup = isDuplicate(n, sums)]
  /\ UNCHANGED <<folder, jobs, backups, made, archive>>

\* uniqueName: the first suffix that names no job of the queue and no directory.
freeSuffix(base) ==
  Min({k \in 0..(Cardinality(jobs) + Cardinality(dirs)) :
         <<base, k>> \notin dirs \cup {j.name : j \in jobs}})

Name(a) ==
  /\ adder[a].pc = "name"
  /\ \E n \in adder[a].nzb :
       adder' = [adder EXCEPT ![a].pc = "backup", ![a].name = <<n.base, freeSuffix(n.base)>>]
  /\ UNCHANGED <<folder, jobs, backups, made, archive, ingestUpsets>>

\* writeNZBBackup, whose failure is only logged.
Backup(a) ==
  /\ adder[a].pc = "backup" /\ steps(a, "manifest")
  /\ \/ \E n \in adder[a].nzb : backups' = backups \cup {n} /\ UNCHANGED ingestUpsets
     \/ mishap /\ UNCHANGED backups
  /\ UNCHANGED <<folder, jobs, made, archive>>

\* The manifest is on disk before the job is in the queue.
WriteManifest(a) ==
  /\ adder[a].pc = "manifest"
  /\ \/ steps(a, "register") /\ UNCHANGED ingestUpsets
     \/ mishap /\ steps(a, "failed")
  /\ UNCHANGED <<folder, jobs, backups, made, archive>>

\* dispatcher.Add.
Register(a) ==
  /\ adder[a].pc = "register" /\ Cardinality(jobs) < MaxJobs
  /\ \E n \in adder[a].nzb :
       /\ jobs' = jobs \cup {[id |-> Min((1..MaxJobs) \ {j.id : j \in jobs}), nzb |-> n.nzb,
                              name |-> adder[a].name, paused |-> adder[a].dup, row |-> FALSE]}
       /\ made' = made \cup {n.nzb}
  /\ steps(a, "rows")
  /\ UNCHANGED <<folder, backups, archive, ingestUpsets>>

\* The job_files rows; an error here leaves the job in the queue.
InsertRows(a) ==
  /\ adder[a].pc = "rows"
  /\ \/ /\ steps(a, IF refused(a) THEN "cancelled" ELSE "added")
        /\ UNCHANGED ingestUpsets
     \/ mishap /\ steps(a, "failed")
  /\ UNCHANGED <<folder, jobs, backups, made, archive>>

\* The dispatcher's tick saves every new row.
Tick ==
  /\ \E j \in jobs : ~j.row
  /\ jobs' = {[j EXCEPT !.row = TRUE] : j \in jobs}
  /\ UNCHANGED <<folder, adder, backups, made, archive, ingestUpsets>>

\* A job that runs makes its directory ...
MakeDirectory(j) ==
  /\ ~j.paused /\ j.name \notin dirs
  /\ dirs' = dirs \cup {j.name}
  /\ UNCHANGED <<folder, adder, jobs, backups, made, past, ingestUpsets>>

\* ... and goes from the queue into the history.
FileJob(j) ==
  /\ ~j.paused /\ j.name \in dirs
  /\ past' = past \cup {j.nzb} /\ jobs' = jobs \ {j}
  /\ UNCHANGED <<folder, adder, backups, made, dirs, ingestUpsets>>

\* enqueueNZBData of the API: one upload.
ApiAdd ==
  /\ adder["api"] = Free /\ beginsAdd("api", Upload)
  /\ UNCHANGED <<folder, jobs, backups, made, archive, ingestUpsets>>

-----------------------------------------------------------------------------
(* The watched folder *)

queueVars == <<jobs, backups, made, archive>>
goesOn == UNCHANGED <<adder, queueVars, ctxDone>>
quietly == goesOn /\ UNCHANGED <<lastErr, ingestUpsets>>

\* Somebody writes a file into the folder, in two writes.
Drop(f) == /\ whereabouts[f] = "out" /\ whereabouts' = [whereabouts EXCEPT ![f] = "in"]
           /\ size' = [size EXCEPT ![f] = 1]
           /\ UNCHANGED <<states, saved, scan>> /\ quietly

FinishDrop(f) == /\ size[f] = 1 /\ whereabouts[f] # "gone"
             /\ size' = [size EXCEPT ![f] = 2]
             /\ UNCHANGED <<whereabouts, states, saved, scan>> /\ quietly

\* ScanOnce reads the directory, unless its context is cancelled ...
ScanStart ==
  /\ scan.pc = "idle" /\ ~ctxDone
  /\ scan' = [Nothing EXCEPT !.pc = "file", !.todo = {f \in DroppedFiles : whereabouts[f] = "in"}]
  /\ UNCHANGED <<whereabouts, size, states, saved>> /\ quietly

\* A file seen for the first time, or changed, is looked at again next time.
remembers(f) == states' = [states EXCEPT ![f] = size[f]]

\* ... and processScannedFile takes a file whose size did not change.
ScanFile(f) ==
  /\ scan.pc = "file" /\ f \in scan.todo
  /\ IF states[f] = size[f]
     THEN /\ scan' = [scan EXCEPT !.pc = "open", !.todo = @ \ {f}, !.file = {f}, !.seen = @ \cup {f},
                                  !.item = 1, !.good = 0]
          /\ UNCHANGED states
     ELSE /\ scan' = [scan EXCEPT !.todo = @ \ {f}, !.seen = @ \cup {f}]
          /\ remembers(f)
  /\ lastErr' = "none"
  /\ UNCHANGED <<whereabouts, size, saved, ingestUpsets>> /\ goesOn

\* ExtractNZBs and the parser refuse a file that is not whole.
OpenDropped(f) ==
  /\ scan.pc = "open" /\ scan.file = {f}
  /\ scan' = [scan EXCEPT !.pc = IF size[f] = 2 THEN "next" ELSE "settle"]
  /\ UNCHANGED <<whereabouts, size, states, saved>> /\ quietly

\* handleStableFile hands over one NZB after another.
HandleNext(f) ==
  /\ scan.pc = "next" /\ scan.file = {f}
  /\ IF scan.item <= Len(Content[f])
     THEN scan' = [scan EXCEPT !.pc = "adding"] /\ beginsAdd("scan", Content[f][scan.item])
     ELSE scan' = [scan EXCEPT !.pc = "settle"] /\ UNCHANGED adder
  /\ UNCHANGED <<whereabouts, size, states, saved, lastErr, ctxDone, queueVars, ingestUpsets>>

Handled ==
  /\ scan.pc = "adding" /\ adder["scan"].pc \in {"added", "failed", "cancelled"}
  /\ scan' = [scan EXCEPT !.pc = "next", !.item = @ + 1,
                          !.good = IF adder["scan"].pc = "added" THEN @ + 1 ELSE @]
  /\ lastErr' = CASE adder["scan"].pc = "added" -> lastErr
                  [] adder["scan"].pc = "failed" -> "error"
                  [] adder["scan"].pc = "cancelled" -> "cancelled"
  /\ adder' = [adder EXCEPT !["scan"] = Free]
  /\ UNCHANGED <<whereabouts, size, states, saved, ctxDone, queueVars, ingestUpsets>>

\* Mutant: one NZB that was added is enough.
outcomeOfAny(f) == IF scan.good > 0 THEN "all" ELSE "none"

\* All added, some (a PartialError), or none.
outcome(f) == CASE scan.good = 0 -> "none"
                [] scan.good # 0 /\ scan.good = Len(Content[f]) -> "all"
                [] OTHER -> "some"

\* All: the file is removed.  None: it is renamed and forgotten.  Some: it
\* stays, and the next scan hands over all of it again.  A removal or a rename
\* that fails is logged.
SettleFile(f) ==
  /\ scan.pc = "settle" /\ scan.file = {f} /\ lastErr # "cancelled"
  /\ scan' = [scan EXCEPT !.pc = "file", !.file = {}]
  /\ states' = IF outcome(f) = "none" THEN [states EXCEPT ![f] = 0] ELSE states
  /\ \/ /\ outcome(f) = "all" /\ whereabouts' = [whereabouts EXCEPT ![f] = "gone"]
        /\ UNCHANGED ingestUpsets
     \/ /\ outcome(f) = "none" /\ whereabouts' = [whereabouts EXCEPT ![f] = "failed"]
        /\ UNCHANGED ingestUpsets
     \/ outcome(f) = "some" /\ UNCHANGED <<whereabouts, ingestUpsets>>
     \/ outcome(f) \in {"all", "none"} /\ mishap /\ UNCHANGED whereabouts
  /\ UNCHANGED <<size, saved, adder, lastErr, ctxDone, queueVars>>

\* An NZB was refused because the context is cancelled: the file stays as it is
\* and the scan returns, with nothing pruned or saved.
ScanCancelled ==
  /\ scan.pc = "settle" /\ lastErr = "cancelled"
  /\ scan' = Nothing
  /\ UNCHANGED <<whereabouts, size, states, saved>> /\ quietly

\* pruneRemovedFiles, then the store is saved; a save that fails is logged.
ScanEnd ==
  /\ scan.pc = "file" /\ scan.todo = {}
  /\ states' = [f \in DroppedFiles |-> IF f \in scan.seen THEN states[f] ELSE 0]
  /\ \/ saved' = states' /\ UNCHANGED ingestUpsets
     \/ mishap /\ UNCHANGED saved
  /\ scan' = Nothing
  /\ UNCHANGED <<whereabouts, size, lastErr>> /\ goesOn

\* The program is told to stop.
CancelScan ==
  /\ ~ctxDone /\ mishap /\ ctxDone' = TRUE
  /\ UNCHANGED <<whereabouts, size, states, saved, scan, adder, queueVars, lastErr>>

\* The process ends, of itself or told to, and starts again: what was not
\* written is gone.
Crash ==
  /\ IF ctxDone THEN UNCHANGED ingestUpsets ELSE mishap
  /\ scan' = Nothing /\ adder' = [a \in Adders |-> IF a = "api" THEN [Free EXCEPT !.pc = "over"] ELSE Free]
  /\ states' = saved /\ jobs' = {j \in jobs : j.row}
  /\ lastErr' = "none" /\ ctxDone' = FALSE
  /\ UNCHANGED <<whereabouts, size, saved, backups, made, archive>>

-----------------------------------------------------------------------------
AddSteps(a) == Detect(a) \/ Name(a) \/ Backup(a) \/ WriteManifest(a) \/ Register(a) \/ InsertRows(a)
ScanSteps == \/ ScanStart \/ Handled \/ ScanCancelled \/ ScanEnd
             \/ \E f \in DroppedFiles : ScanFile(f) \/ OpenDropped(f) \/ HandleNext(f) \/ SettleFile(f)

IngestNext ==
  \/ \E a \in Adders : AddSteps(a)
  \/ Tick \/ ApiAdd \/ CancelScan \/ Crash
  \/ \E j \in jobs : MakeDirectory(j) \/ FileJob(j)
  \/ \E f \in DroppedFiles : Drop(f) \/ FinishDrop(f)
  \/ ScanSteps

-----------------------------------------------------------------------------
\* The scanner removes a dropped file only when every NZB in it has been
\* registered, through failing writes, retried archives and restarts.
QueuedBeforeRemoved ==
  \A f \in DroppedFiles : whereabouts[f] = "gone" => \A i \in 1..Len(Content[f]) : Content[f][i].nzb \in made

\* No two jobs of the queue share a name, which is also their directory.
NamesAreUnique == \A j, k \in jobs : j.name = k.name => j.id = k.id

\* An NZB the scanner takes becomes one job.
OneJobPerNzb == \A j, k \in jobs : j.nzb = k.nzb => j.id = k.id

\* A removed file's jobs are in the database.
RemovedIsSaved ==
  \A f \in DroppedFiles : whereabouts[f] = "gone" =>
    \A i \in 1..Len(Content[f]) : \E j \in jobs : j.nzb = Content[f][i].nzb

\* Only a file that was whole is given up as failed.
FailedWasWhole == \A f \in DroppedFiles : whereabouts[f] = "failed" => size[f] = 2

IngestSpec == IngestInit /\ [][IngestNext]_ingestVars

-----------------------------------------------------------------------------
(* The invariant behind QueuedBeforeRemoved.                                 *)

\* An AddJob is given one NZB, and past the registration that is registered.
RegisteredIsMade ==
  /\ adder = [a \in Adders |-> adder[a]]
  /\ \A a \in Adders : adder[a] = [pc |-> adder[a].pc, nzb |-> adder[a].nzb,
                                   name |-> adder[a].name, dup |-> adder[a].dup]
  /\ \A a \in Adders : \A n, o \in adder[a].nzb : n = o
  /\ \A a \in Adders : adder[a].pc \in {"rows", "added"} => \A n \in adder[a].nzb : n.nzb \in made

\* While a file is handed over, the scanner counts no NZB it did not hand
\* over, and none as good whose job was not registered.
GoodIsMade ==
  \A f \in scan.file :
    /\ f \in DroppedFiles /\ scan.item \in Nat \ {0} /\ scan.good \in Nat
    /\ scan.good <= scan.item - 1 /\ scan.item - 1 <= Len(Content[f])
    /\ scan.good = scan.item - 1 => \A i \in 1..(scan.item - 1) : Content[f][i].nzb \in made
    /\ scan.pc = "adding" => /\ scan.item <= Len(Content[f])
                            /\ adder["scan"].nzb = {Content[f][scan.item]}

IngestIInv ==
  /\ whereabouts = [f \in DroppedFiles |-> whereabouts[f]]
  /\ scan = [pc |-> scan.pc, todo |-> scan.todo, file |-> scan.file, item |-> scan.item,
             good |-> scan.good, seen |-> scan.seen]
  /\ RegisteredIsMade
  /\ GoodIsMade
  /\ QueuedBeforeRemoved
=============================================================================
