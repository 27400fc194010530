------------------------------- MODULE Reload -------------------------------
(***************************************************************************)
(* Replacing the downloader while the application runs, and stopping the   *)
(* application (internal/app: reloader.go, pipeline.go's run loop, the     *)
(* checkpoints of durability.go, Start and Shutdown of app.go).            *)
(*                                                                         *)
(* One job.  An article is fetched by a downloader, buffered on that       *)
(* downloader's completions channel, taken by the pipeline, sent to the    *)
(* assembler's request channel, held there as written, and acknowledged by *)
(* a barrier.  Three callers run checkpoints: the checkpoint loop, a       *)
(* reload and the shutdown.  The barrier itself is module Durability; here *)
(* it drains, then acknowledges or fails.                                  *)
(***************************************************************************)
EXTENDS Naturals, Sequences, FiniteSets

CONSTANTS Articles,   \* the articles of the job
          MaxReloads, \* how many reloads are asked for
          MaxUpset    \* how many operations fail or time out

ASSUME ReloadAssumption == IsFiniteSet(Articles)

Gens == 0..MaxReloads            \* downloaders, in the order they are built
Caller == {"loop", "reload", "stop"}

VARIABLES claimed, acknowledged, \* the article bits of the job
          running,          \* downloaders started and not stopped
          serving,          \* app.downloader
          wire, chan,       \* what each downloader fetches; its completions
          source,           \* the channel the pipeline reads: {} or {gen}
          swap,             \* the request on updateCh: <<>> or <<source>>
          work, noting,     \* in flight: before its write; before its count
          requests,         \* the assembler's request channel
          held,             \* written, not acknowledged
          opened,           \* the assembler holds a file of the job
          bytes,            \* jobBarrierBytes
          hydrated,         \* the manifest is loaded
          lock,             \* the job's barrier mutex
          cp,               \* each caller's checkpoint
          reload, stop,     \* where ReloadDownloader and Shutdown are
          reloadMu,
          reloadsAsked, upsets, \* budgets
          unlisted,         \* a barrier ran over a listing that never came
          abandoned         \* downloaders whose Stop outlasted the shutdown's patience

bits == <<claimed, acknowledged>>
fetch == <<running, serving, wire, chan>>
pipe == <<source, swap, work, noting>>
assembly == <<requests, held, opened>>
threads == <<reload, stop, reloadMu>>
mishaps == <<unlisted, abandoned>>
budget == <<reloadsAsked, upsets, mishaps>>
reloadVars == <<bits, fetch, pipe, assembly, bytes, hydrated, lock, cp, threads, budget>>

NoCheckpoint == [pc |-> "idle", pending |-> 0, got |-> {}, unsafe |-> FALSE]

\* Start: the downloader runs before the pipeline that reads from it.
ReloadInit ==
  /\ claimed = {} /\ acknowledged = {}
  /\ running = {0} /\ serving = 0 /\ wire = {} /\ chan = {}
  /\ source = {0} /\ swap = <<>> /\ work = {} /\ noting = {}
  /\ requests = <<>> /\ held = {} /\ opened = FALSE /\ bytes = 0
  /\ hydrated = TRUE /\ lock = {}
  /\ cp = [c \in Caller |-> NoCheckpoint]
  /\ reload = "idle" /\ stop = "idle" /\ reloadMu = {}
  /\ reloadsAsked = 0 /\ upsets = 0 /\ unlisted = FALSE /\ abandoned = {}

Upset == upsets < MaxUpset /\ upsets' = upsets + 1
Stopping == stop # "idle"
Cancelled == stop \in {"join", "end"}

-----------------------------------------------------------------------------
(* Downloaders *)

\* Shutdown pauses the dispatcher first: nothing is handed out after that.
Dispatch(g, a) ==
  /\ g \in running /\ ~Stopping /\ hydrated /\ a \notin claimed \cup acknowledged
  /\ claimed' = claimed \cup {a} /\ wire' = wire \cup {<<g, a>>}
  /\ UNCHANGED <<acknowledged, running, serving, chan, pipe, assembly, bytes, hydrated, lock, cp,
                 threads, budget>>

Fetched(g, a) ==
  /\ <<g, a>> \in wire
  /\ wire' = wire \ {<<g, a>>} /\ chan' = chan \cup {<<g, a>>}
  /\ UNCHANGED <<bits, running, serving, pipe, assembly, bytes, hydrated, lock, cp,
                 threads, budget>>

\* Stop waits for the workers: a result that could not be emitted gives its
\* bit back.  What is buffered on the closed channel can still be read.
stops(g) ==
  /\ running' = running \ {g}
  /\ wire' = {x \in wire : x[1] # g}
  /\ claimed' = claimed \ {x[2] : x \in {y \in wire : y[1] = g}}

-----------------------------------------------------------------------------
(* pipeline.run and its workers *)

Take(a) ==
  /\ ~Cancelled
  /\ \E g \in source : /\ <<g, a>> \in chan /\ chan' = chan \ {<<g, a>>}
  /\ work' = work \cup {a}
  /\ UNCHANGED <<bits, running, serving, wire, source, swap, noting, assembly, bytes,
                 hydrated, lock, cp, threads, budget>>

\* The channel is closed and empty.
Closed ==
  /\ ~Cancelled /\ \E g \in source : g \notin running /\ \A a \in Articles : <<g, a>> \notin chan
  /\ source' = {}
  /\ UNCHANGED <<bits, fetch, swap, work, noting, assembly, bytes, hydrated, lock, cp,
                 threads, budget>>

\* handleSuccessResult sends the article, then counts its bytes.
Write(a) ==
  /\ a \in work
  /\ work' = work \ {a} /\ noting' = noting \cup {a}
  /\ requests' = Append(requests, <<"article", a>>)
  /\ UNCHANGED <<bits, fetch, source, swap, held, opened, bytes, hydrated, lock, cp,
                 threads, budget>>

noteJobBytes(a) ==
  /\ a \in noting /\ noting' = noting \ {a}
  /\ bytes' = bytes + 1
  /\ UNCHANGED <<bits, fetch, source, swap, work, assembly, hydrated, lock, cp, threads, budget>>

\* Mutant: the swap is acknowledged with results still in flight.
awaitNothing == TRUE

awaitInFlight == work = {} /\ noting = {}

drainsSource == \A g \in source, a \in Articles : <<g, a>> \notin chan

\* The run loop's swap: the old channel is drained (by Take, which the swap
\* does not hold up), then everything in flight is written.
Swap ==
  /\ swap # <<>> /\ ~Cancelled
  /\ drainsSource /\ awaitInFlight
  /\ source' = swap[1] /\ swap' = <<>>
  /\ UNCHANGED <<bits, fetch, work, noting, assembly, bytes, hydrated, lock, cp, threads, budget>>

-----------------------------------------------------------------------------
(* The assembler's worker: requests in order *)

\* An article is held as written, or its write fails and it is given back.
ServeArticle ==
  /\ requests # <<>> /\ Head(requests)[1] = "article"
  /\ LET a == Head(requests)[2] IN
       \/ /\ held' = held \cup {a} /\ opened' = TRUE /\ UNCHANGED <<claimed, upsets>>
       \/ /\ Upset /\ claimed' = claimed \ {a} /\ UNCHANGED <<held, opened>>
  /\ requests' = Tail(requests)
  /\ UNCHANGED <<acknowledged, fetch, pipe, bytes, hydrated, lock, cp, threads, reloadsAsked, mishaps>>

\* submit makes a reply channel for every question: who stops waiting leaves
\* his answer to nobody.
forsaken(q, c) ==
  [i \in 1..Len(q) |-> IF q[i][1] # "article" /\ q[i][2] = c THEN <<"unread", c>> ELSE q[i]]

\* OpenJobIDs, OpenFiles for checkpointJob, OpenFiles for the barrier, Drain.
\* A job without open files is skipped, and the mutex given back.
ServeQuestion ==
  /\ requests # <<>> /\ Head(requests)[1] # "article"
  /\ LET q == Head(requests)[1]
         c == Head(requests)[2]
     IN  /\ cp' = CASE q = "list"  -> [cp EXCEPT ![c].pc = IF opened THEN "lock" ELSE "end"]
                    [] q = "files" -> [cp EXCEPT ![c].pc = IF opened THEN "count" ELSE "end"]
                    [] q = "open"  -> [cp EXCEPT ![c].pc = "flush"]
                    [] q = "drain" -> [cp EXCEPT ![c].pc = "ack", ![c].got = held]
                    [] OTHER       -> cp
         /\ lock' = IF q = "files" /\ ~opened THEN {} ELSE lock
  /\ requests' = Tail(requests)
  /\ UNCHANGED <<bits, fetch, pipe, held, opened, bytes, hydrated, threads, budget>>

-----------------------------------------------------------------------------
(* checkpointAllWithBudget and checkpointJob, for one caller *)

begins(c) == cp[c].pc = "idle" /\ cp' = [cp EXCEPT ![c] = [NoCheckpoint EXCEPT !.pc = "ask"]]

nothingAtRisk == bytes = 0

\* The caller sends the question k, and waits.
asks(c, k) == requests' = Append(requests, <<k, c>>)

\* The caller gives up: the accumulator says whether the job is at risk.
givesUp(c) ==
  /\ cp' = [cp EXCEPT ![c] = [@ EXCEPT !.pc = "end", !.unsafe = ~nothingAtRisk]]
  /\ requests' = forsaken(requests, c)

\* OpenJobIDs is a request like any other; it may time out before or after it
\* is sent.
List(c) ==
  /\ cp[c].pc = "ask" /\ asks(c, "list")
  /\ cp' = [cp EXCEPT ![c].pc = "list"]
  /\ UNCHANGED <<bits, fetch, pipe, held, opened, bytes, hydrated, lock, threads, budget>>

ListTimesOut(c) ==
  /\ cp[c].pc = "list" /\ Upset /\ givesUp(c)
  /\ UNCHANGED <<bits, fetch, pipe, held, opened, bytes, hydrated, lock, threads, reloadsAsked, mishaps>>

\* The barrier mutex; a job with no manifest has no target, and one with a
\* target is asked for its open files.
LockBarrier(c) ==
  /\ cp[c].pc = "lock" /\ lock = {}
  /\ IF hydrated
     THEN /\ lock' = {c} /\ asks(c, "files")
          /\ cp' = [cp EXCEPT ![c].pc = "files"]
     ELSE givesUp(c) /\ UNCHANGED lock
  /\ UNCHANGED <<bits, fetch, pipe, held, opened, bytes, hydrated, threads, budget>>

\* The bytes are read before the barrier runs, and its Run begins by asking
\* for the open files once more.
RunBarrier(c) ==
  /\ cp[c].pc = "count" /\ asks(c, "open")
  /\ cp' = [cp EXCEPT ![c] = [@ EXCEPT !.pc = "open", !.pending = bytes]]
  /\ UNCHANGED <<bits, fetch, pipe, held, opened, bytes, hydrated, lock, threads, budget>>

DrainFiles(c) ==
  /\ cp[c].pc = "flush" /\ asks(c, "drain")
  /\ cp' = [cp EXCEPT ![c].pc = "drain"]
  /\ UNCHANGED <<bits, fetch, pipe, held, opened, bytes, hydrated, lock, threads, budget>>

settleJobBytes(n) == IF bytes > n THEN bytes - n ELSE 0

\* The Files of the sync target turns a time-out into "no files": the run
\* drains nothing, answers nil, and counts as a barrier.
RunsOverNothing(c) ==
  /\ cp[c].pc = "open" /\ Upset
  /\ bytes' = settleJobBytes(cp[c].pending)
  /\ lock' = {} /\ unlisted' = TRUE
  /\ cp' = [cp EXCEPT ![c] = [@ EXCEPT !.pc = "end", !.unsafe = FALSE]]
  /\ requests' = forsaken(requests, c)
  /\ UNCHANGED <<bits, fetch, pipe, held, opened, hydrated, threads, reloadsAsked, abandoned>>

\* No answer to checkpointJob's own question, or the barrier fails at the
\* drain or at the sync: nothing is claimed.  Its acknowledgement fails when
\* the manifest has gone.
BarrierFails(c) ==
  /\ cp[c].pc \in {"files", "drain", "ack"}
  /\ \/ Upset
     \/ cp[c].pc = "ack" /\ ~hydrated /\ UNCHANGED upsets
  /\ lock' = {} /\ givesUp(c)
  /\ UNCHANGED <<bits, fetch, pipe, held, opened, bytes, hydrated, threads, reloadsAsked, mishaps>>

\* submit answers ErrAssemblerStopped once the assembler has stopped; only the
\* loop can still be asking.
LoopIsRefused ==
  /\ Cancelled /\ cp["loop"].pc \notin {"idle", "end"}
  /\ lock' = lock \ {"loop"}
  /\ cp' = [cp EXCEPT !["loop"].pc = "end"]
  /\ requests' = forsaken(requests, "loop")
  /\ UNCHANGED <<bits, fetch, pipe, held, opened, bytes, hydrated, threads, budget>>

BarrierAcks(c) ==
  /\ cp[c].pc = "ack" /\ hydrated
  /\ acknowledged' = acknowledged \cup cp[c].got /\ claimed' = claimed \ cp[c].got
  /\ held' = held \ cp[c].got
  /\ bytes' = settleJobBytes(cp[c].pending)
  /\ lock' = {}
  /\ cp' = [cp EXCEPT ![c] = [@ EXCEPT !.pc = "end", !.unsafe = FALSE]]
  /\ UNCHANGED <<fetch, pipe, requests, opened, hydrated, threads, budget>>

\* runCheckpoint: the interval, or the byte bound noteJobBytes kicks.
LoopBegins ==
  /\ ~Cancelled /\ begins("loop")
  /\ UNCHANGED <<bits, fetch, pipe, assembly, bytes, hydrated, lock, threads, budget>>

LoopEnds ==
  /\ cp["loop"].pc = "end" /\ cp' = [cp EXCEPT !["loop"] = NoCheckpoint]
  /\ UNCHANGED <<bits, fetch, pipe, assembly, bytes, hydrated, lock, threads, budget>>

-----------------------------------------------------------------------------
(* ReloadDownloader, under reloadMu *)

ReloadBegins ==
  /\ reload = "idle" /\ reloadsAsked < MaxReloads /\ reloadMu = {} /\ ~Stopping
  /\ reloadMu' = {"reload"} /\ reload' = "halt" /\ reloadsAsked' = reloadsAsked + 1
  /\ UNCHANGED <<bits, fetch, pipe, assembly, bytes, hydrated, lock, cp, stop, upsets, mishaps>>

ReloadStops ==
  /\ reload = "halt" /\ stops(serving) /\ reload' = "quiesce"
  /\ swap' = <<{}>>
  /\ UNCHANGED <<acknowledged, serving, chan, source, work, noting, assembly, bytes, hydrated, lock,
                 cp, stop, reloadMu, budget>>

\* setCompletions(nil) has returned: checkpoint.
ReloadCheckpoints ==
  /\ reload = "quiesce" /\ swap = <<>> /\ reload' = "checkpoint"
  /\ begins("reload")
  /\ UNCHANGED <<bits, fetch, pipe, assembly, bytes, hydrated, lock, stop, reloadMu, budget>>

\* ClearEmittedForReload, unless the checkpoint could not protect the job; a
\* job that is not resident has no bits.
ReloadClears ==
  /\ reload = "checkpoint" /\ cp["reload"].pc = "end"
  /\ claimed' = IF cp["reload"].unsafe \/ ~hydrated THEN claimed ELSE {}
  /\ cp' = [cp EXCEPT !["reload"] = NoCheckpoint]
  /\ reload' = "start"
  /\ UNCHANGED <<acknowledged, fetch, pipe, assembly, bytes, hydrated, lock, stop, reloadMu, budget>>

ReloadStarts ==
  /\ reload = "start" /\ reload' = "publish"
  /\ running' = running \cup {reloadsAsked}
  /\ UNCHANGED <<bits, serving, wire, chan, pipe, assembly, bytes, hydrated, lock, cp, stop,
                 reloadMu, budget>>

ReloadPublishes ==
  /\ reload = "publish" /\ reload' = "switch"
  /\ serving' = reloadsAsked /\ swap' = <<{reloadsAsked}>>
  /\ UNCHANGED <<bits, running, wire, chan, source, work, noting, assembly, bytes, hydrated,
                 lock, cp, stop, reloadMu, budget>>

ReloadEnds ==
  /\ reload = "switch" /\ swap = <<>>
  /\ reload' = "idle" /\ reloadMu' = {}
  /\ UNCHANGED <<bits, fetch, pipe, assembly, bytes, hydrated, lock, cp, stop, budget>>

-----------------------------------------------------------------------------
(* Shutdown *)

ShutdownBegins ==
  /\ stop = "idle" /\ stop' = "snapshot"
  /\ UNCHANGED <<bits, fetch, pipe, assembly, bytes, hydrated, lock, cp, reload, reloadMu, budget>>

\* Mutant: the downloader is looked up while a reload may be building another.
snapshotsAtOnce == TRUE

\* stopWorkers waits for a reload in progress before it looks.
snapshots == reloadMu = {}

StopDownloader ==
  /\ stop = "snapshot" /\ snapshots
  /\ stops(serving) /\ stop' = "barrier"
  /\ begins("stop")
  /\ UNCHANGED <<acknowledged, serving, chan, pipe, assembly, bytes, hydrated, lock, reload, reloadMu, budget>>

\* waitBounded gives the Stop up and the shutdown goes on; the downloader's
\* workers end when they can, and the fetching jobs are not yielded.
StopTimesOut ==
  /\ stop = "snapshot" /\ snapshots /\ Upset
  /\ abandoned' = abandoned \cup {serving} /\ stop' = "barrier"
  /\ begins("stop")
  /\ UNCHANGED <<bits, fetch, pipe, assembly, bytes, hydrated, lock, reload, reloadMu,
                 reloadsAsked, unlisted>>

StopReturns ==
  /\ serving \in abandoned \cap running /\ reload = "idle"
  /\ stops(serving)
  /\ UNCHANGED <<acknowledged, serving, chan, pipe, assembly, bytes, hydrated, lock, cp, threads, budget>>

\* The fetching jobs are yielded, and a tick evicts a job that holds nothing.
Evicted ==
  /\ stop = "barrier" /\ abandoned = {} /\ hydrated /\ hydrated' = FALSE
  /\ UNCHANGED <<bits, fetch, pipe, assembly, bytes, lock, cp, threads, budget>>

\* shutdownCheckpoint has returned: stop the assembler, which finishes the
\* requests it has, and cancel.
StopAssembler ==
  /\ stop = "barrier" /\ cp["stop"].pc = "end" /\ requests = <<>>
  /\ cp' = [cp EXCEPT !["stop"] = NoCheckpoint]
  /\ stop' = "join"
  /\ UNCHANGED <<bits, fetch, pipe, assembly, bytes, hydrated, lock, reload, reloadMu, budget>>

\* The pipeline's workers and the loop have returned.
ShutdownEnds ==
  /\ stop = "join" /\ work = {} /\ noting = {} /\ cp["loop"].pc = "idle"
  /\ stop' = "end"
  /\ UNCHANGED <<bits, fetch, pipe, assembly, bytes, hydrated, lock, cp, reload, reloadMu, budget>>

-----------------------------------------------------------------------------
Fetching == \E g \in Gens, a \in Articles : Dispatch(g, a) \/ Fetched(g, a)
Piping == Closed \/ \E a \in Articles : Take(a) \/ Write(a) \/ noteJobBytes(a)
Serving == ServeArticle \/ ServeQuestion
Asking(c) == List(c) \/ LockBarrier(c) \/ RunBarrier(c) \/ DrainFiles(c) \/ BarrierAcks(c) \/ BarrierFails(c)
LoopSteps == LoopBegins \/ Asking("loop") \/ LoopIsRefused \/ LoopEnds
Reloading == ReloadStops \/ Asking("reload") \/ ReloadCheckpoints \/ ReloadClears \/ ReloadStarts
             \/ ReloadPublishes \/ ReloadEnds
Ending == StopDownloader \/ Asking("stop") \/ StopAssembler \/ ShutdownEnds

ReloadNext ==
  \/ Fetching \/ Piping \/ Swap \/ Serving \/ LoopSteps \/ Reloading \/ Ending
  \/ ReloadBegins \/ ShutdownBegins \/ StopTimesOut \/ StopReturns \/ Evicted
  \/ \E c \in Caller : ListTimesOut(c) \/ RunsOverNothing(c)

-----------------------------------------------------------------------------
(* Properties *)

\* A request of kind k from, or for, x stands in the queue q.
stands(q, k, x) == \E i \in 1..Len(q) : q[i][1] = k /\ q[i][2] = x

Sent == {a \in Articles : stands(requests, "article", a)}

\* durability.go:520: "A run over NO files claims nothing, and must not be read
\* as a barrier."  So bytes the assembler holds, and no barrier acknowledged,
\* belong to an article that is not on offer: a reload never clears its bit.
WrittenKeepsItsBit ==
  \A a \in (work \cup Sent \cup held) \ acknowledged : a \in claimed

\* Short of that one case, a reload never clears the bit of an article that is
\* written, or on its way to being written, whatever else fails or times out
\* (ReloadDownloader, setCompletions, settleJobBytes, jobsAtRisk).
UnackedKeepsItsBit == ~unlisted => WrittenKeepsItsBit

\* A downloader that runs once Shutdown has returned is one it asked to stop
\* and stopped waiting for: never one that a reload built behind its back
\* (stopWorkers, ReloadDownloader).
NoneLeftRunning == stop = "end" => running \subseteq abandoned

ReloadSafety == ReloadInit /\ [][ReloadNext]_reloadVars

-----------------------------------------------------------------------------
(* The invariant behind UnackedKeepsItsBit.                                  *)

QueuedRequest == ({"article"} \X Articles) \cup ({"list", "files", "open", "drain", "unread"} \X Caller)
Checkpoint == [pc : {"idle", "ask", "list", "lock", "files", "count", "open", "flush", "drain", "ack",
                     "end"},
               pending : Nat, got : SUBSET Articles, unsafe : BOOLEAN]

ReloadTypeOK ==
  /\ wire \subseteq Gens \X Articles /\ chan \subseteq Gens \X Articles
  /\ work \subseteq Articles /\ noting \subseteq Articles /\ held \subseteq Articles
  /\ requests \in Seq(QueuedRequest) /\ bytes \in Nat
  /\ cp \in [Caller -> Checkpoint]

\* An article that is anywhere between its downloader and its acknowledgement
\* is claimed ...
onWire == {x[2] : x \in wire}
buffered == {x[2] : x \in chan}
underway == onWire \cup buffered \cup work \cup Sent \cup held

UnderwayIsClaimed == underway \ acknowledged \subseteq claimed

\* ... and in one place.
InOnePlace ==
  /\ \A x, y \in wire : x[2] = y[2] => x = y
  /\ \A x, y \in chan : x[2] = y[2] => x = y
  /\ onWire \cap buffered = {}
  /\ (onWire \cup buffered) \cap (work \cup Sent \cup held) = {}
  /\ work \cap (Sent \cup held) = {} /\ Sent \cap held = {}

\* One downloader runs at a time, and the pipeline reads from it or is about
\* to; while a reload is quiet nothing is in flight.
reaches(g) == \/ g \in source
              \/ g = reloadsAsked /\ (reload = "publish" \/ (reload = "switch" /\ swap # <<>>))

quiet == \/ reload \in {"checkpoint", "start", "publish"}
         \/ reload = "quiesce" /\ swap = <<>>
         \/ reload = "switch" /\ swap # <<>>

OneSource ==
  /\ (reload = "idle") <=> (reloadMu = {})
  /\ \A x \in wire : x[1] \in running
  /\ reload \in {"quiesce", "checkpoint", "start"} => running = {}
  /\ reload = "publish" => running \subseteq {reloadsAsked}
  /\ reload \in {"idle", "halt", "switch"} => running \subseteq {serving}
  /\ \/ swap = <<>>
     \/ reload = "quiesce" /\ swap = <<{}>>
     \/ reload = "switch" /\ swap = <<{reloadsAsked}>>
  /\ reload = "switch" => serving = reloadsAsked
  /\ \A x \in chan : reaches(x[1])
  /\ \A g \in running : reaches(g)
  /\ \A g, h \in source : g = h
  /\ quiet => source = {} /\ work = {} /\ noting = {}
  /\ cp["reload"].pc # "idle" => reload = "checkpoint"

\* A request stands in the queue once, and a question only while its caller
\* waits for the answer.
Questions == {"list", "files", "open", "drain"}

asksOnce(q) ==
  \A i, j \in 1..Len(q) : q[i][1] # "unread" /\ q[i][1] = q[j][1] /\ q[i][2] = q[j][2] => i = j

QuestionsAwaited ==
  /\ asksOnce(requests)
  /\ \A c \in Caller, k \in Questions : stands(requests, k, c) => cp[c].pc = k

\* The articles that stand behind the question k of the caller c.
behind(q, k, c) ==
  {a \in Articles : \E i, j \in 1..Len(q) : /\ i < j /\ q[i][1] = k /\ q[i][2] = c
                                           /\ q[j][1] = "article" /\ q[j][2] = a}

\* jobBarrierBytes covers what is sent or held and has been counted; with what
\* a barrier will settle taken off, it still covers what that barrier misses.
missed(c) == IF cp[c].pc = "drain" THEN behind(requests, "drain", c)
             ELSE IF cp[c].pc = "ack" THEN (Sent \cup held) \ cp[c].got ELSE {}

Locked == {"files", "count", "open", "flush", "drain", "ack"}
Counted == {"open", "flush", "drain", "ack"}

BytesCover ==
  /\ Cardinality((Sent \cup held) \ noting) <= bytes
  /\ \A c \in Caller : cp[c].pc \in Locked => lock = {c}
  /\ \A c \in Caller : cp[c].pc \in Counted =>
       Cardinality(missed(c) \ noting) + cp[c].pending <= bytes
  /\ \A c \in Caller : cp[c].pc = "ack" => cp[c].got \subseteq held
  /\ held # {} => opened

\* What the checkpoint of a reload has made sure of: nothing is sent while it
\* runs, and where it ends safely nothing is left to acknowledge.
ReloadProtects ==
  LET r == cp["reload"] IN
  /\ r.pc = "list" => behind(requests, "list", "reload") = {}
  /\ r.pc \in Locked \cup {"lock"} => Sent = {}
  /\ r.pc = "ack" => held \subseteq r.got
  /\ r.pc = "end" /\ ~r.unsafe => Sent = {} /\ held \subseteq acknowledged

\* One downloader runs at a time, and what was stopped stays stopped: once the
\* shutdown has looked no reload is under way, and none begins.
OneRuns ==
  /\ (reload = "idle") <=> (reloadMu = {})
  /\ reload \in {"quiesce", "checkpoint", "start"} => running = {}
  /\ reload = "publish" => running \subseteq {reloadsAsked}
  /\ reload \in {"idle", "halt", "switch"} => running \subseteq {serving}

StoppedForGood == stop \in {"barrier", "join", "end"} => running \subseteq abandoned /\ reload = "idle"

ReloadIInv ==
  /\ ReloadTypeOK
  /\ UnderwayIsClaimed /\ InOnePlace
  /\ OneSource
  /\ QuestionsAwaited /\ BytesCover /\ ReloadProtects
=============================================================================
