----------------------------- MODULE FileWriter -----------------------------
(***************************************************************************)
(* One file being assembled: the worker's FileWriter with its share of the *)
(* write cache, and the queue's bits for the file's articles.              *)
(*                                                                         *)
(* Articles may claim the same offset.  The later one displaces the        *)
(* earlier, unless the earlier is already written, and the loser fails for *)
(* good.  A file completes on a count of parts, so every article must be   *)
(* counted once, whatever order it is accepted, displaced, rolled back,    *)
(* rejected, failed and fetched again in.                                  *)
(*                                                                         *)
(* The worker handles one request at a time, callbacks to the queue        *)
(* included, so a request is one step.  What the barrier does with a drain *)
(* report between Drain and Ack, and crashes, are module Durability's.     *)
(***************************************************************************)
EXTENDS Integers, FiniteSets

CONSTANTS
  Article,     \* the articles of the file
  NoArticle,   \* "nobody": an offset without an owner, bytes of no article
  MaxOffset,   \* offsets are counted in articles: 1..MaxOffset
  Off,         \* the offset an article claims
  OutOfRange,  \* the articles whose offset lies outside the declared file
  MaxFault,    \* how often a write may fail
  MaxReload    \* how often the servers are reconfigured

Offset == 1..MaxOffset

ASSUME WriterAssumption ==
  /\ IsFiniteSet(Article)
  /\ NoArticle \notin Article
  /\ MaxOffset \in Nat
  /\ Off \in [Article -> Offset]
  /\ OutOfRange \subseteq Article
  /\ MaxFault \in Nat /\ MaxReload \in Nat

VARIABLES
  done, failed, emitted, complete,  \* the queue's bits: job.JobProgress
  flight, fatal,                    \* requests to the worker: data, FatalErr
  w,                                \* the FileWriter, see Writer below
  tomb, open, drained,              \* completed set, handle, barrier's report
  faults, reloads

queue == <<done, failed, emitted, complete>>
vars == <<queue, flight, fatal, w, tomb, open, drained, faults, reloads>>

TotalParts == Cardinality(Article)

\* A FileWriter.  owner and settled are acceptedAt with its written flag; buf
\* is the file's part of the write cache, keyed by offset; file is what the
\* file holds at an offset; rolled and displaced are the faulted list.
Writer ==
  [seenDone : SUBSET Article, seenFailed : SUBSET Article, parts : Nat,
   owner : [Offset -> Article \cup {NoArticle}], settled : SUBSET Offset,
   buf : [Offset -> Article \cup {NoArticle}],
   written : SUBSET Article, reported : SUBSET Article,
   file : [Offset -> Article \cup {NoArticle}],
   rolled : SUBSET Article, displaced : SUBSET Article]

newFileWriter ==
  [seenDone |-> {}, seenFailed |-> {}, parts |-> 0,
   owner |-> [o \in Offset |-> NoArticle], settled |-> {},
   buf |-> [o \in Offset |-> NoArticle],
   written |-> {}, reported |-> {},
   file |-> [o \in Offset |-> NoArticle],
   rolled |-> {}, displaced |-> {}]

-----------------------------------------------------------------------------
(* The writer's bookkeeping: each operator is the method of its name *)

Seen(v) == v.seenDone \cup v.seenFailed

admitAccepted(v, a) == [v EXCEPT !.seenDone = @ \cup {a}, !.parts = @ + 1]

\* Mutant: a retry of a failed article is counted a second time.
admitRetryCounted(v, a) == [v EXCEPT !.seenDone = @ \cup {a}, !.parts = @ + 1]

\* The part of an article that failed before is counted already.
admitRetryOfFailed(v, a) == [v EXCEPT !.seenDone = @ \cup {a}]

admitPermanentFailure(v, a) ==
  [v EXCEPT !.seenFailed = @ \cup {a},
            !.parts = IF a \in Seen(v) THEN @ ELSE @ + 1]

\* An article rejected just after it was admitted keeps its part.
failPermanent(v, a) ==
  [v EXCEPT !.seenDone = @ \ {a}, !.seenFailed = @ \cup {a}]

\* fail, for every article of A: the part is given back unless the article
\* has it as a failed one, and the article is to return to Outstanding.
fail(v, A) ==
  [v EXCEPT !.seenDone = @ \ A,
            !.parts = @ - Cardinality((A \cap v.seenDone) \ v.seenFailed),
            !.rolled = @ \cup A]

\* A displaced article is failed for good and must be counted, also when a
\* failed write took its part from it before.
failDisplaced(v, a) ==
  [admitPermanentFailure(v, a) EXCEPT !.displaced = @ \cup {a}]

noteWritten(v, A) ==
  [v EXCEPT !.written = @ \cup A,
            !.settled = @ \cup {o \in Offset : v.owner[o] \in A},
            !.file = [o \in Offset |-> IF v.owner[o] \in A THEN v.owner[o]
                                       ELSE @[o]]]

\* Mutant: an offset is never settled.
settledByNobody(v, a) == FALSE

\* offsetSettledBy: another article's bytes are written at a's offset.
offsetSettledBy(v, a) ==
  /\ v.owner[Off[a]] \notin {NoArticle, a}
  /\ Off[a] \in v.settled

\* Accept, up to the cache: displace an owner that was not written yet, take
\* the offset, buffer the bytes.
Accept(v, a) ==
  LET o == Off[a]
      x == v.owner[o]
      u == IF x \in {NoArticle, a} THEN v ELSE failDisplaced(v, x)
  IN [u EXCEPT !.owner = [@ EXCEPT ![o] = a],
               !.settled = IF x = a THEN @ ELSE @ \ {o},
               !.buf = [@ EXCEPT ![o] = a]]

-----------------------------------------------------------------------------
(* The write cache *)

Buffered(v) == {o \in Offset : v.buf[o] # NoArticle}
At(v, O) == {v.buf[o] : o \in O \cap Buffered(v)}

taken(v, O) ==
  [v EXCEPT !.buf = [o \in Offset |-> IF o \in O THEN NoArticle ELSE @[o]]]

\* A write that fails may leave anything in its range.
torn(v, O) ==
  [v EXCEPT !.file = [o \in Offset |-> IF o \in O THEN NoArticle ELSE @[o]]]

\* The contiguous runs a flush may write once a has been buffered.
Runs(v, a) ==
  {O \in {p..q : p, q \in Offset} : Off[a] \in O /\ O \subseteq Buffered(v)}

\* flushRun, and writeOne for a run of one: all of it or nothing.
flushRun(v, O) == noteWritten(taken(v, O), At(v, O))
flushFault(v, O) == torn(fail(taken(v, O), At(v, O)), O)

\* drainFile and the loop over it, in Drain and relievePressure: articles are
\* written in offset order up to the first failure, at n; the rest is failed.
flushUpTo(v, n) ==
  LET good == {o \in Buffered(v) : o < n}
      bad == Buffered(v) \ good
  IN torn(fail(noteWritten(taken(v, Offset), At(v, good)), At(v, bad)),
          {n} \cap Offset)

NoFault == MaxOffset + 1

-----------------------------------------------------------------------------
(* The worker's requests *)

\* acceptArticle: the writer afterwards, and whether a was taken in, refused
\* for good or rolled back.
acceptArticle(v, a) ==
  IF a \in OutOfRange \/ offsetSettledBy(v, a)
  THEN {[w |-> failPermanent(v, a), is |-> "rejected"]}
  ELSE LET u == Accept(v, a)
       IN {[w |-> u, is |-> "ok"]}
          \cup {[w |-> flushRun(u, O), is |-> "ok"] : O \in Runs(u, a)}
          \cup {[w |-> flushFault(u, O), is |-> "fault"] : O \in Runs(u, a)}

\* relievePressure: nothing, or the file's buffer is flushed; n is where.
pressure(v) ==
  {[w |-> v, n |-> NoFault]}
  \cup {[w |-> flushUpTo(v, n), n |-> n] : n \in Buffered(v) \cup {NoFault}}

Spend(n) == /\ faults + n <= MaxFault
            /\ faults' = faults + n

\* releaseFaulted and routeFaulted: displaced and rejected articles are marked
\* failed, rolled-back ones return to Outstanding.
Route(v, rejected) ==
  LET lost == (v.displaced \cup rejected) \ done
  IN /\ w' = [v EXCEPT !.rolled = {}, !.displaced = {}]
     /\ done' = done \cup lost
     /\ failed' = failed \cup lost
     /\ emitted' = emitted \ (lost \cup v.rolled)

\* finalizeFile, for a request that was admitted.
CompleteOn(admitted) ==
  tomb' = (tomb \/ (admitted /\ w'.parts >= TotalParts /\ TotalParts > 0))

\* The rest of processRequest: pressure and completion, if a was admitted.
Finish(v, rejected, admitted, spent) ==
  \E p \in IF admitted THEN pressure(v) ELSE {[w |-> v, n |-> NoFault]} :
    /\ Spend(spent + IF p.n = NoFault THEN 0 ELSE 1)
    /\ Route(p.w, rejected)
    /\ CompleteOn(admitted)

\* The worker's channel is first in, first out: an earlier failure of the same
\* article, left over from before a reload, is served before its data.
Arrives(a) == a \in flight /\ a \notin fatal

\* A copy of an article the writer has accepted: dropped.
Duplicate(a) ==
  /\ ~tomb /\ Arrives(a)
  /\ a \in w.seenDone
  /\ flight' = flight \ {a}
  /\ UNCHANGED <<queue, fatal, w, tomb, open, drained, faults, reloads>>

\* handleSuccessArticle.  A retry of an article that failed is written but not
\* counted, and does not complete the file.
Success(a) ==
  LET retry == a \in w.seenFailed
      v == IF retry THEN admitRetryOfFailed(w, a) ELSE admitAccepted(w, a)
  IN /\ ~tomb /\ Arrives(a)
     /\ a \notin w.seenDone
     /\ flight' = flight \ {a}
     /\ \E r \in acceptArticle(v, a) :
          Finish(r.w, IF r.is = "rejected" THEN {a} ELSE {},
                 ~retry /\ r.is # "fault", IF r.is = "fault" THEN 1 ELSE 0)
     /\ UNCHANGED <<complete, fatal, open, drained, reloads>>

\* handleFatalArticle.
Fatal(a) ==
  /\ ~tomb /\ a \in fatal
  /\ fatal' = fatal \ {a}
  /\ Finish(admitPermanentFailure(w, a), {}, a \notin Seen(w), 0)
  /\ UNCHANGED <<complete, flight, open, drained, reloads>>

\* handleLateDuplicate: an article of a completed file.
LateDuplicate(a) ==
  /\ tomb /\ a \in flight \cup fatal
  /\ flight' = IF Arrives(a) THEN flight \ {a} ELSE flight
  /\ fatal' = fatal \ {a}
  /\ Route(w, IF open /\ a \notin Seen(w) THEN {a} ELSE {})
  /\ UNCHANGED <<complete, tomb, open, drained, faults, reloads>>

\* relievePressure, on behalf of another file's article.
Evict(n) ==
  /\ open /\ n \in Buffered(w) \cup {NoFault}
  /\ Buffered(w) # {}
  /\ Spend(IF n = NoFault THEN 0 ELSE 1)
  /\ Route(flushUpTo(w, n), {})
  /\ UNCHANGED <<complete, flight, fatal, tomb, open, drained, reloads>>

\* The barrier's drain: the buffer is written, and everything written and not
\* yet confirmed is reported.  A drain that fails is reported to nobody.
Drain(n) ==
  /\ open /\ ~drained /\ n \in Buffered(w) \cup {NoFault}
  /\ Spend(IF n = NoFault THEN 0 ELSE 1)
  /\ LET v == flushUpTo(w, n)
     IN Route([v EXCEPT !.reported = @ \cup v.written, !.written = {}], {})
  /\ drained' = (n = NoFault)
  /\ UNCHANGED <<complete, flight, fatal, tomb, open, reloads>>

\* The barrier acknowledges the report and confirms it.
Ack ==
  /\ open /\ drained
  /\ done' = done \cup w.reported
  /\ emitted' = emitted \ (w.reported \ done)
  /\ w' = [w EXCEPT !.reported = {}]
  /\ drained' = FALSE
  /\ UNCHANGED <<failed, complete, flight, fatal, tomb, open, faults, reloads>>

-----------------------------------------------------------------------------
(* The queue's side *)

\* The downloader emits an article's result.
Emit(a) ==
  /\ a \notin done \cup emitted /\ ~complete
  /\ emitted' = emitted \cup {a}
  /\ flight' = flight \cup {a}
  /\ UNCHANGED <<done, failed, complete, fatal, w, tomb, open, drained, faults,
                 reloads>>

\* The result is a permanent failure.
FetchFails(a) ==
  /\ a \in flight
  /\ flight' = flight \ {a}
  /\ fatal' = fatal \cup {a}
  /\ IF a \in done THEN UNCHANGED <<done, failed, emitted>>
     ELSE /\ done' = done \cup {a}
          /\ failed' = failed \cup {a}
          /\ emitted' = emitted \ {a}
  /\ UNCHANGED <<complete, w, tomb, open, drained, faults, reloads>>

\* The finalize of a completed file ends: all is acknowledged and the handle
\* is closed; later the queue is told that the file is complete.
Close ==
  /\ tomb /\ open /\ ~drained
  /\ Buffered(w) = {} /\ w.written = {} /\ w.reported = {}
  /\ open' = FALSE
  /\ UNCHANGED <<queue, flight, fatal, w, tomb, drained, faults, reloads>>

MarkFileComplete ==
  /\ ~open /\ ~complete
  /\ complete' = TRUE
  /\ UNCHANGED <<done, failed, emitted, flight, fatal, w, tomb, open, drained,
                 faults, reloads>>

\* ReloadDownloader: the old downloader's results are handed to the worker, a
\* checkpoint queued behind them acknowledges what is written, and
\* ClearEmittedForReload returns failed and emitted articles to the pool.  A
\* job whose checkpoint fails (protected = FALSE) keeps its Emitted bits.
Reload(protected) ==
  /\ reloads < MaxReload
  /\ reloads' = reloads + 1
  /\ protected => /\ flight = {} /\ fatal = {} /\ ~drained
                  /\ Buffered(w) = {} /\ w.written = {} /\ w.reported = {}
  /\ emitted' = IF protected THEN {} ELSE emitted
  /\ IF complete THEN UNCHANGED <<done, failed>>
     ELSE done' = done \ failed /\ failed' = {}
  /\ UNCHANGED <<complete, flight, fatal, w, tomb, open, drained, faults>>

-----------------------------------------------------------------------------

Init ==
  /\ done = {} /\ failed = {} /\ emitted = {} /\ complete = FALSE
  /\ flight = {} /\ fatal = {}
  /\ w = newFileWriter
  /\ tomb = FALSE /\ open = TRUE /\ drained = FALSE
  /\ faults = 0 /\ reloads = 0

Working ==
  \/ \E a \in Article : \/ Duplicate(a) \/ Success(a) \/ Fatal(a)
                        \/ LateDuplicate(a)

Next ==
  \/ Working
  \/ \E n \in 1..NoFault : Evict(n) \/ Drain(n)
  \/ Ack \/ Close \/ MarkFileComplete
  \/ \E a \in Article : Emit(a) \/ FetchFails(a)
  \/ \E p \in BOOLEAN : Reload(p)

Spec == Init /\ [][Next]_vars

\* The downloader dispatches, the worker serves its queue, and the checkpoint
\* loop drains and acknowledges.  Between its rounds the finalize gets the
\* job's barrier lock, a sync.Mutex, which does not pass a waiter over for ever.
Fairness ==
  /\ \A a \in Article : WF_vars(Emit(a))
  /\ WF_vars(Working)
  /\ WF_vars(\E n \in 1..NoFault : Drain(n))
  /\ WF_vars(Ack) /\ SF_vars(Close) /\ WF_vars(MarkFileComplete)

LiveSpec == Spec /\ Fairness

-----------------------------------------------------------------------------
(* Properties *)

\* Every variable holds a value of its kind.
TypeOK ==
  /\ done \subseteq Article /\ failed \subseteq Article
  /\ emitted \subseteq Article /\ complete \in BOOLEAN
  /\ flight \subseteq Article /\ fatal \subseteq Article
  /\ w \in Writer
  /\ tomb \in BOOLEAN /\ open \in BOOLEAN /\ drained \in BOOLEAN
  /\ faults \in Nat /\ reloads \in Nat

\* What the writer will report, or has reported, or the barrier acknowledged.
Claimed == w.written \cup w.reported \cup (done \ failed)

\* partsWritten counts each article the writer has accepted or failed once,
\* whatever was displaced, rolled back, rejected or retried.
PartsCounted == w.parts = Cardinality(Seen(w))

\* The bytes of an article that is reported written, or was acknowledged, are
\* in the file: no article that claims its offset is written over it.
ClaimedBytesAreThere == \A a \in Claimed : w.file[Off[a]] = a

\* No article has two dispositions: one the barrier acknowledges, or is going
\* to, is not failed as well.
OneDisposition == (w.written \cup w.reported) \cap failed = {}

\* An emitted article is on its way or in the writer's hands: one that nobody
\* holds is never fetched again.
EmittedIsOwned ==
  open => emitted \subseteq flight \cup At(w, Offset) \cup w.written
                            \cup w.reported

\* A file whose every part is counted is complete, or about to be finished.
FullCountCompletes == w.parts >= TotalParts /\ TotalParts > 0 => tomb

DropsOnlyRedundant ==
  \A a \in Article : Duplicate(a) =>
    a \in At(w, Offset) \cup Claimed

\* A copy dropped as a duplicate is redundant: the first one is buffered or
\* written.
DuplicateIsRedundant == [][DropsOnlyRedundant]_vars

\* The file is completed in the end, whichever articles share offsets and
\* whatever fails.
FileCompletes == <>complete

-----------------------------------------------------------------------------
(* The inductive invariant *)

\* Article a's bytes are at its offset for good.
Settled(v, a) == Off[a] \in v.settled /\ v.owner[Off[a]] = a

\* An offset's owner claims that offset; while its bytes are buffered it is not
\* settled, and once it is settled the file holds them.
OwnersAgree(v) ==
  \A o \in Offset :
    /\ v.owner[o] # NoArticle => Off[v.owner[o]] = o
    /\ v.buf[o] # NoArticle => /\ v.owner[o] = v.buf[o]
                               /\ o \notin v.settled
                               /\ v.buf[o] \in v.seenDone
    /\ o \in v.settled => /\ v.owner[o] # NoArticle
                          /\ v.file[o] = v.owner[o]
                          /\ v.owner[o] \in v.seenDone

WriterInv(v) ==
  /\ v \in Writer
  /\ v.parts = Cardinality(Seen(v))
  /\ OwnersAgree(v)
  /\ \A a \in v.written \cup v.reported : Settled(v, a)

IInv ==
  /\ TypeOK
  /\ WriterInv(w)
  /\ w.rolled = {} /\ w.displaced = {}
  /\ \A a \in done \ failed : Settled(w, a)

=============================================================================
