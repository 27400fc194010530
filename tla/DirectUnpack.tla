---------------------------- MODULE DirectUnpack ----------------------------
(***************************************************************************)
(* Extracting RAR sets while the job still downloads                       *)
(* (internal/directunpack, with the orchestrator and the hand-over to      *)
(* post-processing of internal/app).                                       *)
(*                                                                         *)
(* One job.  The completion watcher feeds finished volumes to the job's    *)
(* unpacker; the unpacker's run goroutine extracts one set at a time, each *)
(* through a feed goroutine of its own; post-processing collects the       *)
(* unpacker and waits for it; a removal or the shutdown aborts it.  All    *)
(* the waiters of an unpacker share its one-slot volumeReady channel.      *)
(***************************************************************************)
EXTENDS Integers, Sequences, SequencesExt, FiniteSets, FiniteSetsExt

CONSTANTS Volume,     \* file -> [set, vol]: what AnalyzeRarFilename answers
          Damaged,    \* files completed with failed articles
          EndsAt,     \* set -> the volume in which the archive itself ends
          Broken,     \* sets the decoder may refuse, or a volume of which may not open
          NotRar,     \* sets whose first volume has no RAR header
          MaxUnpackers

VARIABLES left,       \* files not complete yet
          watcher,    \* the completion watcher
          units,      \* every unpacker ever made
          registered, \* orchestrator.unpackers[jobID], 0 for none
          crowded,    \* the other jobs fill DirectUnpackThreads
          present,    \* the job is in the dispatcher
          post,       \* enqueuePostProc and the goroutine it starts
          aborter,    \* the call that aborts under the orchestrator's lock
          closing     \* app.ctx is cancelled

unpackVars == <<left, watcher, units, registered, crowded, present, post, aborter, closing>>

RarFiles == DOMAIN Volume
RarSets == {Volume[f].set : f \in RarFiles}
volumesOf(s) == {Volume[f].vol : f \in {g \in RarFiles : Volume[g].set = s}}

\* No two files are the same volume of a set, and a set has a last volume.
ASSUME VolumeAssumption ==
  /\ \A f \in RarFiles : Volume[f].vol \in Nat \ {0}
  /\ \A f, g \in RarFiles : Volume[f].set = Volume[g].set /\ Volume[f].vol = Volume[g].vol => f = g
  /\ \A s \in RarSets : \E v \in volumesOf(s) : \A w \in volumesOf(s) : w <= v
  /\ EndsAt \in [RarSets -> Nat \ {0}]

\* buildVolumeMap, over every name of the job.
totalVolumes(s) == Max(volumesOf(s))

New == [killed |-> FALSE, started |-> FALSE, cur |-> "none", next |-> <<>>,
        have |-> [s \in RarSets |-> {}], corrupt |-> {}, won |-> {}, failed |-> {},
        skipped |-> {}, ready |-> FALSE, done |-> FALSE, run |-> "off", feeds |-> <<>>]

UnpackInit ==
  /\ left = RarFiles /\ watcher = [pc |-> "idle", file |-> {}, unit |-> 0]
  /\ units = <<>> /\ registered = 0 /\ crowded = FALSE /\ present = TRUE
  /\ post = [pc |-> "none", unit |-> 0, sets |-> {}]
  /\ aborter = [pc |-> "idle", by |-> "none"] /\ closing = FALSE

Unlocked == aborter.pc = "idle"
becomes(i, d) == units' = [units EXCEPT ![i] = d]

-----------------------------------------------------------------------------
(* The completion watcher: completeFinalizedFile and maybeStart *)

\* MarkFileComplete; the last file sends the job on before maybeStart runs.
FileDone(f) ==
  /\ watcher.pc = "idle" /\ f \in left /\ present
  /\ left' = left \ {f}
  /\ watcher' = [pc |-> "look", file |-> {f}, unit |-> 0]
  /\ post' = IF left' = {} /\ post.pc = "none" THEN [post EXCEPT !.pc = "due"] ELSE post
  /\ UNCHANGED <<units, registered, crowded, present, aborter, closing>>

WatcherRests == watcher' = [pc |-> "idle", file |-> {}, unit |-> 0]

\* maybeStart's checks; the manifest of a job that was sent on may be gone.
Looks ==
  /\ watcher.pc = "look"
  /\ \/ present /\ watcher' = [watcher EXCEPT !.pc = "admit"]
     \/ (~present \/ post.pc # "none") /\ WatcherRests
  /\ UNCHANGED <<left, units, registered, crowded, present, post, aborter, closing>>

\* The map lookup under the orchestrator's lock.
Admit ==
  /\ watcher.pc = "admit" /\ Unlocked
  /\ \/ /\ registered # 0
        /\ watcher' = [watcher EXCEPT !.pc = "mark", !.unit = registered]
        /\ UNCHANGED <<units, registered>>
     \/ /\ registered = 0 /\ ~crowded /\ Len(units) < MaxUnpackers
        /\ units' = Append(units, New) /\ registered' = Len(units) + 1
        /\ watcher' = [watcher EXCEPT !.pc = "mark", !.unit = registered']
     \/ /\ registered = 0 /\ (crowded \/ Len(units) = MaxUnpackers)
        /\ WatcherRests
        /\ UNCHANGED <<units, registered>>
  /\ UNCHANGED <<left, crowded, present, post, aborter, closing>>

MarkCorrupt(d, s) == [d EXCEPT !.corrupt = @ \cup {s}, !.ready = TRUE]

\* hasFailedArticle is asked before the volume is added.
Marks ==
  /\ watcher.pc = "mark"
  /\ watcher' = [watcher EXCEPT !.pc = "add"]
  /\ \E f \in watcher.file :
       IF f \in Damaged THEN becomes(watcher.unit, MarkCorrupt(units[watcher.unit], Volume[f].set))
                        ELSE UNCHANGED units
  /\ UNCHANGED <<left, registered, crowded, present, post, aborter, closing>>

setQueued(d, s) == s = d.cur \/ Contains(d.next, s)

\* Add: the first volume 1 starts the unpacker, any other new set queues.
Add(d, s, v) ==
  LET kept == [d EXCEPT !.have[s] = @ \cup {v}] IN
  CASE ~d.started /\ v = 1 -> [kept EXCEPT !.cur = s, !.started = TRUE]
    [] (d.started \/ v # 1) /\ ~setQueued(d, s) -> [kept EXCEPT !.next = Append(@, s)]
    [] OTHER -> kept

Adds ==
  /\ watcher.pc = "add"
  /\ IF units[watcher.unit].killed
     THEN WatcherRests /\ UNCHANGED units
     ELSE /\ watcher' = [watcher EXCEPT !.pc = "signal"]
          /\ \E f \in watcher.file :
               becomes(watcher.unit, Add(units[watcher.unit], Volume[f].set, Volume[f].vol))
  /\ UNCHANGED <<left, registered, crowded, present, post, aborter, closing>>

\* Add's tail, with no lock: the goroutine starts and a waiter is woken.
Signals ==
  /\ watcher.pc = "signal"
  /\ WatcherRests
  /\ LET d == units[watcher.unit] IN
       becomes(watcher.unit, [d EXCEPT !.ready = TRUE,
                                       !.run = IF @ = "off" /\ d.started THEN "top" ELSE @])
  /\ UNCHANGED <<left, registered, crowded, present, post, aborter, closing>>

-----------------------------------------------------------------------------
(* The unpacker's goroutines *)

others == <<left, watcher, registered, crowded, present, post, aborter, closing>>

\* waitForVolume's look under the lock.
volumeState(d, s, v) == CASE d.killed         -> "stop"
                          [] s \in d.corrupt  -> "stop"
                          [] v \in d.have[s]  -> "ready"
                          [] OTHER            -> "absent"

\* The loop of run.
RunTop(i) ==
  /\ units[i].run = "top"
  /\ becomes(i, [units[i] EXCEPT !.run = IF units[i].killed THEN "ended" ELSE "first",
                                 !.done = units[i].killed])
  /\ UNCHANGED others

\* extractSet waits for volume 1; between the look and the select anything
\* may take the token.
RunFirst(i) ==
  /\ units[i].run = "first"
  /\ LET seen == volumeState(units[i], units[i].cur, 1) IN
       becomes(i, [units[i] EXCEPT !.run = CASE seen = "ready"  -> "header"
                                             [] seen = "absent" -> "parked"
                                             [] OTHER           -> "lost"])
  /\ UNCHANGED others

\* The select of waitForVolume.
wakes(i) == units[i].ready

RunWakes(i) ==
  /\ units[i].run = "parked"
  /\ \/ wakes(i) /\ becomes(i, [units[i] EXCEPT !.ready = FALSE, !.run = "first"])
     \/ closing /\ becomes(i, [units[i] EXCEPT !.run = "lost"])
  /\ UNCHANGED others

\* rarheader.Version, then startVolumeFeed.
OpenSet(i) ==
  /\ units[i].run = "header"
  /\ becomes(i, IF units[i].cur \in NotRar
                THEN [units[i] EXCEPT !.run = "skip"]
                ELSE [units[i] EXCEPT !.run = "entry",
                                      !.feeds = Append(@, [set |-> units[i].cur, vol |-> 1,
                                                           pc |-> "look", err |-> FALSE])])
  /\ UNCHANGED others

\* extractEntries looks at the context and at killed before every entry.
NextEntry(i) ==
  /\ units[i].run = "entry"
  /\ becomes(i, [units[i] EXCEPT !.run = IF closing \/ units[i].killed THEN "lost" ELSE "read"])
  /\ UNCHANGED others

\* Where the decoder is after a volume: at the end of the archive, which may
\* come before the last named volume and never within them, or in or behind an
\* entry.  A damaged set may seem to end anywhere, and it or a broken one may
\* be refused.
decoded(d, f) ==
  (IF f.vol = EndsAt[f.set] THEN {"verdict"} ELSE {"entry", "read"})
  \cup (IF f.set \in d.corrupt THEN {"verdict"} ELSE {})
  \cup (IF f.set \in Broken \cup d.corrupt THEN {"lost"} ELSE {})

TakeVolume(i) ==
  LET g == Len(units[i].feeds)
      f == units[i].feeds[g] IN
  /\ units[i].run = "read" /\ f.pc = "send"
  /\ \E r \in decoded(units[i], f) :
       becomes(i, [units[i] EXCEPT !.run = r,
                                   !.feeds[g] = [f EXCEPT !.pc = IF f.vol = totalVolumes(f.set) THEN "over" ELSE "look",
                                                          !.vol = @ + 1]])
  /\ UNCHANGED others

\* The feed has closed its channel: ErrNoNextVolume ends the loop as EOF
\* does, and inside an entry it is an error.
NoVolume(i) ==
  /\ units[i].run = "read" /\ Last(units[i].feeds).pc = "over"
  /\ \E r \in {"verdict", "lost"} : becomes(i, [units[i] EXCEPT !.run = r])
  /\ UNCHANGED others

\* Mutant: the end of the stream is taken for the end of the archive.
succeedsOnEof(d) == d.cur \in RarSets

\* A feed error and the corrupt mark both overrule the decoder.
succeeds(d) == ~Last(d.feeds).err /\ d.cur \notin d.corrupt

Verdict(i) ==
  /\ units[i].run = "verdict"
  /\ becomes(i, IF succeeds(units[i])
                THEN [units[i] EXCEPT !.won = @ \cup {units[i].cur}, !.run = "next"]
                ELSE [units[i] EXCEPT !.run = "lost"])
  /\ UNCHANGED others

\* run records what became of the set, unless an abort already did.
SetLost(i) ==
  /\ units[i].run \in {"lost", "skip"}
  /\ LET d == units[i] IN
       becomes(i, [d EXCEPT !.run = "next",
                     !.failed  = IF ~d.killed /\ d.run = "lost" THEN @ \cup {d.cur} ELSE @,
                     !.skipped = IF ~d.killed /\ d.run = "skip" THEN @ \cup {d.cur} ELSE @])
  /\ UNCHANGED others

\* The next queued set, or the end of the goroutine.
NextSet(i) ==
  /\ units[i].run = "next"
  /\ becomes(i, IF units[i].killed \/ units[i].next = <<>>
                THEN [units[i] EXCEPT !.run = "ended", !.done = TRUE]
                ELSE [units[i] EXCEPT !.run = "top", !.cur = Head(units[i].next), !.next = Tail(@)])
  /\ UNCHANGED others

\* A feed's context ends with its extractSet, or with the program.
feedCancelled(i, g) == \/ closing \/ g < Len(units[i].feeds)
                   \/ units[i].run \notin {"entry", "read", "verdict"}

\* The feed goroutine; an error is sent before the channel is closed, that of
\* a volume which does not open included.
FeedStep(i, g) ==
  LET f == units[i].feeds[g]
      moves(pc, e) == becomes(i, [units[i] EXCEPT !.feeds[g] = [@ EXCEPT !.pc = pc, !.err = e]]) IN
  /\ \/ f.pc = "look" /\ moves(CASE volumeState(units[i], f.set, f.vol) = "ready"  -> "send"
                                 [] volumeState(units[i], f.set, f.vol) = "absent" -> "parked"
                                 [] OTHER -> "over",
                               volumeState(units[i], f.set, f.vol) = "stop")
     \/ /\ f.pc = "look" /\ volumeState(units[i], f.set, f.vol) = "ready" /\ f.set \in Broken
        /\ moves("over", TRUE)
     \/ /\ f.pc = "parked" /\ wakes(i)
        /\ becomes(i, [units[i] EXCEPT !.ready = FALSE, !.feeds[g].pc = "look"])
     \/ f.pc \in {"parked", "send"} /\ feedCancelled(i, g) /\ moves("over", TRUE)
  /\ UNCHANGED others

-----------------------------------------------------------------------------
(* Post-processing, removal and shutdown *)

\* Abort, up to its wait: the results are cleared and one waiter is woken.
Abort(d) ==
  IF d.killed THEN d
  ELSE [d EXCEPT !.killed = TRUE, !.won = {}, !.next = <<>>,
                 !.failed = @ \cup Range(d.next) \cup ({d.cur} \ {"none"}),
                 !.done = @ \/ ~d.started, !.ready = @ \/ d.started]

\* enqueuePostProc: for a finished job, or for one given up as hopeless.
Collect ==
  /\ present /\ post.pc \in {"none", "due"} /\ Unlocked /\ ~closing
  /\ post' = [post EXCEPT !.pc = IF registered = 0 THEN "posted" ELSE "wait", !.unit = registered]
  /\ registered' = 0
  /\ UNCHANGED <<left, watcher, units, crowded, present, aborter, closing>>

\* du.Wait reads started once ...
WaitBegins ==
  /\ post.pc = "wait"
  /\ post' = [post EXCEPT !.pc = IF units[post.unit].started THEN "blocked" ELSE "posted",
                          !.sets = IF units[post.unit].started THEN @ ELSE units[post.unit].won]
  /\ UNCHANGED <<left, watcher, units, registered, crowded, present, aborter, closing>>

\* ... and then waits for the end, or for the shutdown to abort.
WaitEnds ==
  /\ post.pc \in {"blocked", "aborted"}
  /\ \/ /\ units[post.unit].done
        /\ post' = IF post.pc = "blocked"
                   THEN [post EXCEPT !.pc = "posted", !.sets = units[post.unit].won]
                   ELSE [post EXCEPT !.pc = "dropped"]
        /\ UNCHANGED units
     \/ /\ post.pc = "blocked" /\ closing
        /\ post' = [post EXCEPT !.pc = "aborted"]
        /\ becomes(post.unit, Abort(units[post.unit]))
  /\ UNCHANGED <<left, watcher, registered, crowded, present, aborter, closing>>

\* abortJob and abortAll hold the orchestrator's lock while they wait.
AbortStart(by) ==
  /\ Unlocked /\ present /\ ~closing /\ aborter.by = "none"
  /\ aborter' = [pc |-> IF registered = 0 THEN "idle" ELSE "waiting", by |-> by]
  /\ IF registered = 0 THEN UNCHANGED units ELSE becomes(registered, Abort(units[registered]))
  /\ UNCHANGED <<left, watcher, registered, crowded, present, post, closing>>

AbortEnd ==
  /\ aborter.pc = "waiting" /\ units[registered].done
  /\ aborter' = [aborter EXCEPT !.pc = "idle"] /\ registered' = 0
  /\ UNCHANGED <<left, watcher, units, crowded, present, post, closing>>

\* RemoveJob goes on to take the job out, Shutdown to cancel the context.
AfterAbort ==
  /\ aborter.pc = "idle"
  /\ \/ aborter.by = "remove" /\ present /\ present' = FALSE /\ UNCHANGED closing
     \/ aborter.by = "shutdown" /\ ~closing /\ closing' = TRUE /\ UNCHANGED present
  /\ UNCHANGED <<left, watcher, units, registered, crowded, post, aborter>>

\* Another job's unpacker takes or frees the last slot.
Crowd == /\ registered = 0 /\ crowded' = ~crowded
         /\ UNCHANGED <<left, watcher, units, registered, present, post, aborter, closing>>

-----------------------------------------------------------------------------
RunSteps(i) == \/ RunTop(i) \/ RunFirst(i) \/ RunWakes(i) \/ OpenSet(i) \/ NextEntry(i)
               \/ TakeVolume(i) \/ NoVolume(i) \/ Verdict(i) \/ SetLost(i) \/ NextSet(i)
WatcherSteps == Looks \/ Admit \/ Marks \/ Adds \/ Signals

UnpackNext ==
  \/ \E f \in RarFiles : FileDone(f)
  \/ WatcherSteps
  \/ \E i \in 1..Len(units) : RunSteps(i)
  \/ \E i \in 1..Len(units) : \E g \in 1..Len(units[i].feeds) : FeedStep(i, g)
  \/ Collect \/ WaitBegins \/ WaitEnds
  \/ \E by \in {"remove", "shutdown"} : AbortStart(by)
  \/ AbortEnd \/ AfterAbort \/ Crowd

-----------------------------------------------------------------------------
\* A set handed to post-processing as extracted had every volume up to the end
\* of its archive on disk with no failed article, whatever order the volumes
\* finished in and whichever of the feed, the decoder and the watcher moved
\* last: the volumes of such a set are deleted and never unpacked again.
archiveOf(s) == {f \in RarFiles : Volume[f].set = s /\ Volume[f].vol <= EndsAt[s]}

HandedIsWhole ==
  \A s \in post.sets : \A f \in archiveOf(s) : Volume[f].vol \in units[post.unit].have[s] /\ f \notin Damaged

\* Abort, which a removal and the shutdown call under the orchestrator's
\* lock, comes back: the goroutine it waits for is always woken.
AbortReturns == (aborter.pc = "waiting") ~> (aborter.pc = "idle")

\* A job collected for post-processing reaches it, or is dropped by a
\* shutdown that aborts its unpacker.
CollectedIsPosted == (post.pc = "wait") ~> (post.pc \in {"posted", "dropped"})

\* A job that is gone leaves no unpacker behind to occupy a slot.
GoneFreesItsSlot ==
  (~present /\ watcher.pc = "idle") => registered = 0

UnpackSafety == UnpackInit /\ [][UnpackNext]_unpackVars

-----------------------------------------------------------------------------
(* The invariant behind HandedIsWhole.                                       *)

RunPc == {"off", "top", "first", "parked", "header", "entry", "read", "verdict", "lost", "skip",
          "next", "ended"}
Feed == [set : RarSets, vol : Nat \ {0}, pc : {"look", "send", "parked", "over"}, err : BOOLEAN]
Unit == [killed : BOOLEAN, started : BOOLEAN, cur : RarSets \cup {"none"}, next : Seq(RarSets),
         have : [RarSets -> SUBSET Nat], corrupt : SUBSET RarSets, won : SUBSET RarSets,
         failed : SUBSET RarSets, skipped : SUBSET RarSets, ready : BOOLEAN, done : BOOLEAN,
         run : RunPc, feeds : Seq(Feed)]

UnpackTypeOK ==
  /\ units \in Seq(Unit) /\ registered \in 0..Len(units)
  /\ watcher \in [pc : {"idle", "look", "admit", "mark", "add", "signal"},
                  file : SUBSET RarFiles, unit : 0..Len(units)]
  /\ post \in [pc : {"none", "due", "wait", "blocked", "aborted", "posted", "dropped"},
               unit : 0..Len(units), sets : SUBSET RarSets]

whole(d, s) == \A f \in archiveOf(s) : Volume[f].vol \in d.have[s] /\ f \notin Damaged

\* What an unpacker has are volumes of the set, and one that is damaged has
\* marked it.
MarkedIfDamaged(d) ==
  /\ \A s \in RarSets : d.have[s] \subseteq volumesOf(s)
  /\ \A f \in RarFiles \cap Damaged : Volume[f].vol \in d.have[Volume[f].set] => Volume[f].set \in d.corrupt

\* A feed has passed on only volumes that are there, and it is over without an
\* error only behind the last one.
FedIsThere(d, f) ==
  /\ 1..(f.vol - 1) \subseteq d.have[f.set]
  /\ f.pc = "send" => f.vol \in d.have[f.set]
  /\ f.pc = "over" /\ ~f.err => f.vol - 1 = totalVolumes(f.set)

\* The decoder has met the end of the archive, or of what the feed had to give,
\* or something in a damaged volume that looks like one.
EndReached(d, f) == f.vol > EndsAt[f.set] \/ f.pc = "over" \/ f.set \in d.corrupt

\* The goroutine extracts the current set from the last feed it started.
FeedsCurrent(d) ==
  /\ d.run # "off" => d.started
  /\ d.started => d.cur \in RarSets
  /\ d.run \in {"entry", "read", "verdict"} => Len(d.feeds) > 0 /\ d.feeds[Len(d.feeds)].set = d.cur
  /\ d.run = "verdict" => EndReached(d, d.feeds[Len(d.feeds)])

SoundUnit(d) ==
  /\ MarkedIfDamaged(d)
  /\ \A s \in d.won : whole(d, s)
  /\ \A g \in 1..Len(d.feeds) : FedIsThere(d, d.feeds[g])
  /\ FeedsCurrent(d)

\* The watcher adds one file at a time, after it marked its damage.
MarkedThenAdded ==
  /\ \A f, g \in watcher.file : f = g
  /\ watcher.pc \in {"mark", "add", "signal"} => watcher.unit # 0
  /\ watcher.pc = "add" =>
       \A f \in watcher.file \cap Damaged : Volume[f].set \in units[watcher.unit].corrupt

\* Post-processing keeps to the unpacker it collected.
KeepsToItsUnit ==
  /\ post.pc \in {"none", "due"} => post.sets = {}
  /\ post.pc \in {"wait", "blocked", "aborted"} => post.unit # 0
  /\ post.sets # {} => post.unit # 0

UnpackIInv ==
  /\ UnpackTypeOK
  /\ \A i \in 1..Len(units) : SoundUnit(units[i])
  /\ MarkedThenAdded
  /\ KeepsToItsUnit
  /\ HandedIsWhole
=============================================================================
