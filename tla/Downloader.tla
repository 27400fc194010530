------------------------------ MODULE Downloader ------------------------------
(***************************************************************************)
(* The article downloader (internal/downloader) with the two ends it is    *)
(* wired to: the articles of one job (internal/job) and the result         *)
(* pipeline (internal/app/pipeline.go).                                    *)
(*                                                                         *)
(* One goroutine runs dispatch passes; every connection worker is a loop   *)
(* that takes requests off its server's channel and starts a handler per   *)
(* request; results leave through a bounded FIFO channel that the pipeline *)
(* drains.  The tracker (tried, inFlight) is shared by all of them.        *)
(*                                                                         *)
(* The ticker of run() can start a pass at any time, so the dispatchReady  *)
(* and Notify() signals, which only make a pass start sooner, are left out.*)
(* Wall-clock time appears as PenaltyExpires and Aged.                     *)
(***************************************************************************)
EXTENDS Integers, Sequences, FiniteSets, FiniteSetsExt

CONSTANTS
    NArticles,    \* articles of the job, numbered in manifest order
    ServerCfg,    \* the configured servers, in configuration order
    Options,      \* dispatch options that SetDispatchOptions may install
    Recovery,     \* failed articles the job's recovery volumes can repair
    EarlySample,  \* earlyAbortSample
    QueueCap,     \* opts.PerServerQueue
    ResultCap,    \* opts.CompletionsBuffer
    Scenario      \* what a behaviour starts from and its bounds:
                  \*   on     the enabled servers
                  \*   done   the articles already durable, after a restart
                  \*   opts   the configured dispatch options
                  \*   stat   opts.PreCheck: STAT before BODY
                  \*   faults how many connection and storage faults may happen
                  \*   calls  how many calls from outside (pause, reload, options, ...)

ASSUME BoundsAssumption ==
    /\ NArticles \in Nat \ {0} /\ QueueCap \in Nat \ {0} /\ ResultCap \in Nat \ {0}
    /\ Recovery \in Nat /\ EarlySample \in Nat \ {0}
    /\ \A x \in Scenario : /\ x.on \subseteq DOMAIN ServerCfg /\ x.on # {}
                           /\ x.done \subseteq 1..NArticles /\ x.opts \in Options
                           /\ x.stat \in BOOLEAN /\ x.faults \in Nat /\ x.calls \in Nat

ASSUME ServersAssumption ==
    /\ ServerCfg \in Seq([optional : BOOLEAN, required : BOOLEAN, priority : Nat,
                          conns : Nat, depth : Nat])
    /\ Options \subseteq [maxArtTries : Nat, maxArtOpt : Nat, topOnly : BOOLEAN]

Article == 1..NArticles
Server  == DOMAIN ServerCfg
Worker  == UNION {{s} \X (1..ServerCfg[s].conns) : s \in Server}
srvOf(w) == w[1]
Depth(w) == ServerCfg[srvOf(w)].depth
Slot(w)  == 1..(2 * Depth(w))

VARIABLES
    scn,       \* the scenario of this behaviour
    bits,      \* Article -> [done, failed, emitted]: the job's article bitsets
    job,       \* "young" (propagation delay) | "run" | "paused" | "cancelled" | "left" | "gone"
    tried,     \* Article -> set of servers: dispatchTracker.tryList
    inFlight,  \* Article -> Nat: dispatchTracker.inFlight
    work,      \* Server -> sequence of articles: d.workCh
    conn,      \* Worker -> BOOLEAN: managedConn holds an open connection
    loop,      \* Worker -> [mode, snap]: the connWorker goroutine
    hnd,       \* Worker -> Slot -> handler: the handleRequest goroutines
    results,   \* sequence of [art, kind]: d.completions
    held,      \* articles the assembler has accepted and not yet made durable
    disp,      \* the dispatch goroutine: [pc, i, ex, any, hop, opts]
    opts,      \* the installed dispatch options
    srv,       \* Server -> [pen, bad, deact]: penalties
    pause,     \* [queue, flag, live, low]: pause flags, pauseCtx, a low-disk Pause under way
    disc,      \* the current disconnect channel is closed
    phase,     \* "run" | "stop": the downloader's context
    faults, calls,
    answered   \* Article -> servers that refused it since its try list was last cleared

prog   == <<bits, job>>
track  == <<tried, inFlight>>
net    == <<work, conn, loop, hnd>>
ctl    == <<opts, pause, disc, phase>>
moving == <<prog, track, net, results, held, disp, ctl, srv, faults, calls, answered>>
vars   == <<scn, moving>>

Idle == [pc |-> "idle", i |-> 1, ex |-> <<>>, any |-> FALSE, hop |-> FALSE, opts |-> scn.opts]
Free == [pc |-> "free", art |-> 0, live |-> FALSE, c |-> "none", kind |-> "none"]
FreshServer == [pen |-> "none", bad |-> 0, deact |-> FALSE]

\* Start creates workers for the enabled servers only.
loopsAtStart == [w \in Worker |-> [mode |-> IF srvOf(w) \in scn.on THEN "acquire" ELSE "exit", snap |-> "nil"]]

Init ==
    /\ scn \in Scenario
    /\ bits = [a \in Article |-> [done |-> a \in scn.done, failed |-> FALSE, emitted |-> FALSE]]
    /\ job = "young"
    /\ tried = [a \in Article |-> {}] /\ inFlight = [a \in Article |-> 0]
    /\ work = [s \in Server |-> <<>>]
    /\ conn = [w \in Worker |-> FALSE]
    /\ loop = loopsAtStart
    /\ hnd = [w \in Worker |-> [k \in Slot(w) |-> Free]]
    /\ results = <<>> /\ held = {}
    /\ disp = Idle
    /\ opts = scn.opts
    /\ srv = [s \in Server |-> FreshServer]
    /\ pause = [queue |-> FALSE, flag |-> FALSE, live |-> TRUE, low |-> FALSE]
    /\ disc = FALSE /\ phase = "run"
    /\ faults = 0 /\ calls = 0
    /\ answered = [a \in Article |-> {}]

-----------------------------------------------------------------------------
(* The job's bitsets.  contentMu is held for reading through the whole walk  *)
(* of ForEachUnfinishedArticle, so no bit changes while a plan is built.     *)
contentFree == disp.pc # "build"
exists == job # "gone"

markEmitted(b, a) ==
    IF b[a].emitted \/ b[a].done THEN b ELSE [b EXCEPT ![a].emitted = TRUE]
clearEmitted(b, a) == [b EXCEPT ![a].emitted = FALSE]
markDone(b, a) ==
    IF b[a].done THEN b ELSE [b EXCEPT ![a].done = TRUE, ![a].emitted = FALSE]
markFailed(b, a) ==
    IF b[a].done THEN b
    ELSE [b EXCEPT ![a] = [done |-> TRUE, failed |-> TRUE, emitted |-> FALSE]]

Unfinished(a) == ~bits[a].done /\ ~bits[a].emitted
FailedArticles(b) == {a \in Article : b[a].failed}
Hopeless(b) == Cardinality(FailedArticles(b)) > Recovery
isEarlyAbort(b) ==
    LET resolved == {a \in Article : b[a].done}
    IN  /\ Cardinality(resolved) >= EarlySample
        /\ 10 * Cardinality(FailedArticles(b)) >= 8 * Cardinality(resolved)

-----------------------------------------------------------------------------
(* Servers and penalties. *)
activeIn(sv, s) ==
    /\ s \in scn.on
    /\ IF sv[s].deact THEN sv[s].pen = "past" ELSE sv[s].pen # "future"
Active(s) == activeIn(srv, s)

shouldDeactivateOptional(s, bad) ==
    /\ ServerCfg[s].optional /\ ~ServerCfg[s].required
    /\ 10 * bad > 3 * ServerCfg[s].conns

\* badConns only matters through the 30 % ratio: it saturates at conns.
recordBadAndPenalise(s) ==
    LET bad == Min({srv[s].bad + 1, ServerCfg[s].conns})
    IN  [srv EXCEPT ![s] = [pen |-> "future", bad |-> bad,
                            deact |-> srv[s].deact \/ shouldDeactivateOptional(s, bad)]]
recordGood(s) == [srv EXCEPT ![s].bad = 0]
clearDeactivation(s) == [srv[s] EXCEPT !.pen = "none", !.deact = FALSE]

PenaltyExpires(s) ==
    /\ srv[s].pen = "future"
    /\ srv' = [srv EXCEPT ![s].pen = "past"]
    /\ UNCHANGED <<prog, track, net, results, held, disp, ctl, faults, calls, answered>>

-----------------------------------------------------------------------------
(* Server selection. *)
HasRoom(s) == Len(work[s]) < QueueCap

getMinServerPriority == Min({ServerCfg[s].priority : s \in scn.on})

isServerCandidate(s, a, o) ==
    /\ s \notin tried[a]
    /\ s \in scn.on
    /\ o.topOnly => ServerCfg[s].priority <= getMinServerPriority
    /\ (ServerCfg[s].optional /\ o.maxArtOpt > 0) =>
            Cardinality({t \in tried[a] : ServerCfg[t].optional}) < o.maxArtOpt

Candidates(a, o) == {s \in Server : isServerCandidate(s, a, o)}

\* The first candidate, in configuration order, that is active and has room.
Selectable(a, o) == {s \in Candidates(a, o) : Active(s) /\ HasRoom(s)}
\* Mutant of Exhausted: servers that are switched off count as untried.
exhaustedByAll(a, o) == tried[a] = Server
\* -1 of selectServerForArticle: no candidate is left, not even a penalised one.
Exhausted(a, o) == Candidates(a, o) = {}

allServersFull(sv, wk) ==
    LET act == {s \in Server : activeIn(sv, s)}
    IN  act # {} /\ \A s \in act : Len(wk[s]) >= QueueCap

-----------------------------------------------------------------------------
(* DisconnectAll closes the current channel; a worker that sleeps on it      *)
(* wakes.  ensureDisconnectChan, on a successful dial, installs a new one.   *)
signalled(lp) == [w \in Worker |-> [lp[w] EXCEPT !.snap = IF @ = "live" THEN "fired" ELSE @]]

hasDownloadableJobs(j) == ~pause.queue /\ j \in {"young", "run"}

-----------------------------------------------------------------------------
(* The dispatch goroutine.                                                   *)

\* The idle disconnect at the end of applyDispatchPlan.
idleDisconnect(any, j) == ~any /\ ~hasDownloadableJobs(j) /\ \E w \in Worker : conn[w]

\* What is left to do of a plan: nothing, or its application.
rest(d) == IF d.ex # <<>> \/ d.hop \/ idleDisconnect(d.any, job) THEN [d EXCEPT !.pc = "apply"] ELSE Idle

\* run(): checkExpiredPenalties, then dispatchPass up to the walk.
StartPass ==
    /\ disp.pc = "idle" /\ phase = "run"
    /\ srv' = [s \in Server |-> IF Active(s) THEN clearDeactivation(s) ELSE srv[s]]
    /\ UNCHANGED <<prog, track, net, results, held, ctl, faults, calls, answered>>
    /\ LET plan == [Idle EXCEPT !.opts = opts]
           served == ~allServersFull(srv', work') /\ job = "run"
       IN  disp' = IF pause.flag \/ pause.queue THEN disp
                   ELSE IF served /\ Hopeless(bits) THEN rest([plan EXCEPT !.hop = TRUE])
                   ELSE IF served /\ \E a \in Article : Unfinished(a) THEN [plan EXCEPT !.pc = "build"]
                   ELSE rest(plan)

\* tryDispatch, under the tracker lock: the server the article goes to, or
\* giveUp (exhausted, or maxArtTries reached), or later.
giveUp == -1
later == -2

\* Mutant of tryDispatch: the in-flight check is dropped.
tryDispatchAgain(a) ==
    LET o == disp.opts
    IN  IF o.maxArtTries > 0 /\ Cardinality(tried[a]) >= o.maxArtTries THEN giveUp
        ELSE IF Selectable(a, o) # {} THEN Min(Selectable(a, o))
        ELSE IF Exhausted(a, o) THEN giveUp ELSE later


tryDispatch(a) ==
    LET o == disp.opts
    IN  IF inFlight[a] > 0 THEN later
        ELSE IF o.maxArtTries > 0 /\ Cardinality(tried[a]) >= o.maxArtTries THEN giveUp
        ELSE IF Selectable(a, o) # {} THEN Min(Selectable(a, o))
        ELSE IF Exhausted(a, o) THEN giveUp ELSE later

\* One article of the walk of buildDispatchPlan.
BuildPlan ==
    /\ disp.pc = "build" /\ phase = "run"
    /\ UNCHANGED <<prog, conn, loop, hnd, results, held, ctl, srv, faults, calls, answered>>
    /\ \E a \in {b \in Article : b >= disp.i /\ Unfinished(b)} :
        /\ \A b \in disp.i..(a - 1) : ~Unfinished(b)
        /\ LET v == tryDispatch(a) IN
            /\ IF v \in Server
               THEN /\ work' = [work EXCEPT ![v] = Append(@, a)]
                    /\ tried' = [tried EXCEPT ![a] = @ \cup {v}]
                    /\ inFlight' = [inFlight EXCEPT ![a] = @ + 1]
               ELSE UNCHANGED <<work, tried, inFlight>>
            /\ LET d == [disp EXCEPT !.i = a + 1,
                                     !.any = @ \/ v # later,
                                     !.ex = IF v = giveUp THEN Append(@, a) ELSE @]
               IN  disp' = IF allServersFull(srv', work') \/ \A b \in (a + 1)..NArticles : ~Unfinished(b)
                           THEN rest(d) ELSE d

\* The context is cancelled in the middle of the walk.
WalkCut ==
    /\ disp.pc = "build" /\ phase = "stop"
    /\ disp' = rest(disp)
    /\ UNCHANGED <<prog, track, net, results, held, ctl, srv, faults, calls, answered>>

\* applyDispatchPlan: claim the next exhausted article ...
GiveUp ==
    /\ disp.pc = "apply" /\ disp.ex # <<>>
    /\ LET a == Head(disp.ex) IN
        /\ bits' = IF exists THEN markEmitted(bits, a) ELSE bits
        /\ tried' = [tried EXCEPT ![a] = {}]
        /\ answered' = [answered EXCEPT ![a] = {}]
    /\ disp' = [disp EXCEPT !.pc = "emit"]
    /\ UNCHANGED <<job, inFlight, net, results, held, ctl, srv, faults, calls>>

\* ... and emit its ErrNoServersLeft result, or drop it at shutdown.
EmitGivenUp ==
    /\ disp.pc = "emit"
    /\ \/ /\ Len(results) < ResultCap
          /\ results' = Append(results, [art |-> Head(disp.ex), kind |-> "exhausted"])
          /\ UNCHANGED bits
       \/ /\ phase = "stop"
          /\ bits' = IF exists THEN clearEmitted(bits, Head(disp.ex)) ELSE bits
          /\ UNCHANGED results
    /\ disp' = rest([disp EXCEPT !.ex = Tail(@)])
    /\ UNCHANGED <<job, track, net, held, ctl, srv, faults, calls, answered>>

\* The end of applyDispatchPlan: the hopeless callback, the idle disconnect.
EndPass ==
    /\ disp.pc = "apply" /\ disp.ex = <<>>
    /\ job' = IF disp.hop /\ job = "run" THEN "left" ELSE job
    /\ LET idle == idleDisconnect(disp.any, job')
       IN  /\ disc' = (disc \/ idle)
           /\ loop' = IF idle /\ ~disc THEN signalled(loop) ELSE loop
    /\ disp' = Idle
    /\ UNCHANGED <<bits, track, work, conn, hnd, results, held, opts, pause, phase,
                   srv, faults, calls, answered>>

DispatcherExits ==
    /\ disp.pc = "idle" /\ phase = "stop"
    /\ disp' = [disp EXCEPT !.pc = "exit"]
    /\ UNCHANGED <<prog, track, net, results, held, ctl, srv, faults, calls, answered>>

-----------------------------------------------------------------------------
(* The connection worker's loop.                                             *)
Busy(w) == {k \in Slot(w) : hnd[w][k].pc # "free"}
OnWire  == {"start", "stat", "wire", "dead", "emitNo"}

\* Both semaphores acquired: snapshot the disconnect channel and wait.
Arm(w) ==
    /\ loop[w].mode = "acquire"
    /\ Cardinality(Busy(w)) < 2 * Depth(w)
    /\ Cardinality({k \in Slot(w) : hnd[w][k].pc \in OnWire}) < Depth(w)
    /\ loop' = [loop EXCEPT ![w] =
                  [mode |-> "select",
                   snap |-> IF ~conn[w] /\ Busy(w) = {} THEN "nil"
                            ELSE IF disc THEN "fired" ELSE "live"]]
    /\ UNCHANGED <<prog, track, work, conn, hnd, results, held, disp, ctl, srv, faults, calls, answered>>

Take(w) ==
    LET s == srvOf(w) IN
    /\ loop[w].mode = "select" /\ work[s] # <<>>
    /\ hnd' = [hnd EXCEPT ![w][Min(Slot(w) \ Busy(w))] =
                  [Free EXCEPT !.pc = "start", !.art = Head(work[s]),
                                !.live = pause.live /\ phase = "run"]]
    /\ work' = [work EXCEPT ![s] = Tail(@)]
    /\ loop' = [loop EXCEPT ![w] = [mode |-> "acquire", snap |-> "nil"]]
    /\ UNCHANGED <<prog, track, conn, results, held, disp, ctl, srv, faults, calls, answered>>

Disconnect(w) ==
    /\ loop[w].mode = "select" /\ loop[w].snap = "fired" /\ work[srvOf(w)] = <<>>
    /\ loop' = [loop EXCEPT ![w] = [mode |-> "drain", snap |-> "nil"]]
    /\ UNCHANGED <<prog, track, work, conn, hnd, results, held, disp, ctl, srv, faults, calls, answered>>

\* workerWg.Wait, then managedConn.Close: after a disconnect, and on the way out.
Drained(w) ==
    /\ loop[w].mode \in {"drain", "exiting"} /\ Busy(w) = {}
    /\ conn' = [conn EXCEPT ![w] = FALSE]
    /\ loop' = [loop EXCEPT ![w].mode = IF @ = "drain" THEN "acquire" ELSE "exit"]
    /\ UNCHANGED <<prog, track, work, hnd, results, held, disp, ctl, srv, faults, calls, answered>>

WorkerStops(w) ==
    /\ phase = "stop" /\ loop[w].mode \in {"acquire", "select"}
    /\ loop' = [loop EXCEPT ![w] = [mode |-> "exiting", snap |-> "nil"]]
    /\ UNCHANGED <<prog, track, work, conn, hnd, results, held, disp, ctl, srv, faults, calls, answered>>

-----------------------------------------------------------------------------
(* handleRequest: one goroutine per request.                                 *)
at(w, k, pc) == hnd[w][k].pc = pc
sending(w, k, pc, kind) == [hnd EXCEPT ![w][k].pc = pc, ![w][k].kind = kind]
cleared(a) == [inFlight EXCEPT ![a] = IF @ <= 1 THEN 0 ELSE @ - 1]
\* Closing w's connection leaves every handler that holds it with a dead one.
dropConn(h, w) == [h EXCEPT ![w] = [k \in Slot(w) |->
                      [h[w][k] EXCEPT !.c = IF @ = "current" THEN "stale" ELSE @]]]

\* Mutant of giveBack: the server stays on the try list.
giveBackTried(w, k) == UNCHANGED tried /\ inFlight' = cleared(hnd[w][k].art)

\* The end of a request that produced no result: unmarkTried, clearInFlight.
giveBack(w, k) ==
    /\ tried' = [tried EXCEPT ![hnd[w][k].art] = @ \ {srvOf(w)}]
    /\ inFlight' = cleared(hnd[w][k].art)

\* Fetch failed.  Only the first handler to notice drops the connection and is
\* charged, and nobody is while the context is cancelled.
fetchError(w, k) ==
    LET first == hnd[w][k].c = "current"
    IN  /\ giveBack(w, k)
        /\ conn' = IF first THEN [conn EXCEPT ![w] = FALSE] ELSE conn
        /\ srv' = IF first /\ phase = "run" /\ hnd[w][k].live THEN recordBadAndPenalise(srvOf(w)) ELSE srv
        /\ hnd' = [(IF first THEN dropConn(hnd, w) ELSE hnd) EXCEPT ![w][k] = Free]

\* fetchArticle up to managedConn.Get.  A job that no longer runs, or a paused
\* downloader, gives the article back.
Refrain(w, k) ==
    /\ at(w, k, "start") /\ contentFree
    /\ job \notin {"run", "left"} \/ pause.flag \/ pause.queue
    /\ giveBack(w, k)
    /\ bits' = IF exists THEN clearEmitted(bits, hnd[w][k].art) ELSE bits
    /\ hnd' = [hnd EXCEPT ![w][k] = Free]
    /\ UNCHANGED <<job, work, conn, loop, results, held, disp, ctl, srv, faults, calls, answered>>

mayFetch(w, k) ==
    at(w, k, "start") /\ job \in {"run", "left"} /\ ~pause.flag /\ ~pause.queue

\* The next command of a handler: Fetch refuses a dead context on entry.
next(w, k, h) == [hnd EXCEPT ![w][k] = h,
                             ![w][k].pc = IF hnd[w][k].live THEN "wire" ELSE "dead"]

\* The first command on the connection Get returned.
command(w, k) ==
    LET h == [hnd[w][k] EXCEPT !.c = "current"] IN
    /\ hnd' = IF scn.stat THEN [hnd EXCEPT ![w][k] = [h EXCEPT !.pc = "stat"]] ELSE next(w, k, h)
    /\ UNCHANGED <<tried, inFlight, srv>>

\* managedConn.Get finds the worker's connection open.
GetOpen(w, k) ==
    /\ mayFetch(w, k) /\ conn[w]
    /\ command(w, k)
    /\ UNCHANGED <<prog, work, conn, loop, results, held, disp, ctl, faults, calls, answered>>

\* managedConn.Get dials, under managedConn.mu: the server is penalised, the
\* context is dead, the dial fails, or it succeeds and ensureDisconnectChan runs.
Dial(w, k) ==
    LET s == srvOf(w)
        h == hnd[w][k]
    IN
    /\ mayFetch(w, k) /\ ~conn[w]
    /\ \/ /\ Active(s) /\ h.live
          /\ conn' = [conn EXCEPT ![w] = TRUE]
          /\ disc' = FALSE
          /\ command(w, k)
          /\ UNCHANGED faults
       \/ /\ ~Active(s) \/ ~h.live
          /\ giveBack(w, k)
          /\ hnd' = [hnd EXCEPT ![w][k] = Free]
          /\ UNCHANGED <<conn, disc, srv, faults>>
       \/ /\ Active(s) /\ h.live /\ faults < scn.faults
          /\ faults' = faults + 1
          /\ giveBack(w, k)
          /\ srv' = recordBadAndPenalise(s)
          /\ hnd' = [hnd EXCEPT ![w][k] = Free]
          /\ UNCHANGED <<conn, disc>>
    /\ UNCHANGED <<prog, work, loop, results, held, disp, opts, pause, phase, calls, answered>>

\* The server does not have the article: STAT or BODY answered 430.
refused(w, k) ==
    /\ srv' = recordGood(srvOf(w))
    /\ hnd' = sending(w, k, "emitNo", "no")
    /\ answered' = [answered EXCEPT ![hnd[w][k].art] = @ \cup {srvOf(w)}]

\* STAT: any other outcome, an error included, goes on to BODY.
Stat(w, k) ==
    /\ at(w, k, "stat")
    /\ \/ hnd[w][k].live /\ refused(w, k)
       \/ hnd' = next(w, k, hnd[w][k]) /\ UNCHANGED <<srv, answered>>
    /\ UNCHANGED <<prog, track, work, conn, loop, results, held, disp, ctl, faults, calls>>

\* BODY is answered "no such article" ...
NoArticle(w, k) ==
    /\ at(w, k, "wire") /\ refused(w, k)
    /\ UNCHANGED <<prog, track, work, conn, loop, results, held, disp, ctl, faults, calls>>

\* ... or with a body whose CRC is wrong, which keeps the try list ...
CRCMismatch(w, k) ==
    /\ at(w, k, "wire")
    /\ srv' = recordGood(srvOf(w))
    /\ hnd' = sending(w, k, "emit", "crc")
    /\ answered' = [answered EXCEPT ![hnd[w][k].art] = @ \cup {srvOf(w)}]
    /\ UNCHANGED <<prog, track, work, conn, loop, results, held, disp, ctl, faults, calls>>

\* ... or with one that decodes, or never will: claim the article, forget its tries.
Decoded(w, k) ==
    LET a == hnd[w][k].art IN
    /\ at(w, k, "wire") /\ contentFree
    /\ srv' = recordGood(srvOf(w))
    /\ \E kind \in {"fatal", "good"} : hnd' = sending(w, k, "emit", kind)
    /\ bits' = IF exists THEN markEmitted(bits, a) ELSE bits
    /\ tried' = [tried EXCEPT ![a] = {}]
    /\ answered' = [answered EXCEPT ![a] = {}]
    /\ UNCHANGED <<job, inFlight, work, conn, loop, results, held, disp, ctl, faults, calls>>

\* ... or the connection fails, or is cancelled or closed under the command.
Broken(w, k) ==
    LET cut == ~hnd[w][k].live \/ hnd[w][k].c = "stale" IN
    /\ hnd[w][k].pc \in {"wire", "dead"}
    /\ cut \/ faults < scn.faults
    /\ faults' = IF cut THEN faults ELSE faults + 1
    /\ fetchError(w, k)
    /\ UNCHANGED <<prog, work, loop, results, held, disp, ctl, calls, answered>>

\* Mutant of Emit: a result dropped at shutdown keeps its claim.
EmitOrForget(w, k) ==
    LET h == hnd[w][k] IN
    /\ h.pc \in {"emit", "emitNo"}
    /\ \/ Len(results) < ResultCap /\ results' = Append(results, [art |-> h.art, kind |-> h.kind])
       \/ phase = "stop" /\ UNCHANGED results
    /\ inFlight' = cleared(h.art)
    /\ hnd' = [hnd EXCEPT ![w][k] = Free]
    /\ UNCHANGED <<prog, tried, work, conn, loop, held, disp, ctl, srv, faults, calls, answered>>

\* emitResult: the result is queued, or dropped at shutdown and its claim
\* undone; then the deferred clearInFlight.
Emit(w, k) ==
    LET h == hnd[w][k] IN
    /\ h.pc \in {"emit", "emitNo"}
    /\ \/ /\ Len(results) < ResultCap
          /\ results' = Append(results, [art |-> h.art, kind |-> h.kind])
          /\ UNCHANGED bits
       \/ /\ phase = "stop" /\ contentFree
          /\ bits' = IF exists THEN clearEmitted(bits, h.art) ELSE bits
          /\ UNCHANGED results
    /\ inFlight' = cleared(h.art)
    /\ hnd' = [hnd EXCEPT ![w][k] = Free]
    /\ UNCHANGED <<job, tried, work, conn, loop, held, disp, ctl, srv, faults, calls, answered>>

-----------------------------------------------------------------------------
(* The pipeline and the assembler behind it.                                 *)
Retryable == {"no", "crc"}

HandleRetry ==
    /\ results # <<>> /\ Head(results).kind \in Retryable /\ contentFree
    /\ results' = Tail(results)
    /\ bits' = IF exists THEN clearEmitted(bits, Head(results).art) ELSE bits
    /\ UNCHANGED <<job, track, net, held, disp, ctl, srv, faults, calls, answered>>

\* MarkArticleFailed, then the fatal part to the assembler, then CheckEarlyAbort.
HandleFatal ==
    /\ results # <<>> /\ Head(results).kind \in {"fatal", "exhausted"} /\ contentFree
    /\ results' = Tail(results)
    /\ bits' = IF exists THEN markFailed(bits, Head(results).art) ELSE bits
    /\ job' = IF job = "run" /\ isEarlyAbort(bits') THEN "left" ELSE job
    /\ UNCHANGED <<track, net, held, disp, ctl, srv, faults, calls, answered>>

\* A good article is handed to the assembler; a refusal puts it back.
HandleGood ==
    /\ results # <<>> /\ Head(results).kind = "good" /\ contentFree
    /\ results' = Tail(results)
    /\ \/ /\ exists
          /\ held' = held \cup {Head(results).art}
          /\ UNCHANGED <<bits, faults>>
       \/ /\ exists => faults < scn.faults
          /\ faults' = IF exists THEN faults + 1 ELSE faults
          /\ bits' = IF exists THEN clearEmitted(bits, Head(results).art) ELSE bits
          /\ UNCHANGED held
    /\ UNCHANGED <<job, track, net, disp, ctl, srv, calls, answered>>

\* A durability barrier acknowledges the article.
AckDurable(a) ==
    /\ a \in held /\ contentFree
    /\ bits' = IF exists THEN markDone(bits, a) ELSE bits
    /\ held' = held \ {a}
    /\ UNCHANGED <<job, track, net, results, disp, ctl, srv, faults, calls, answered>>

-----------------------------------------------------------------------------
(* Calls from outside.                                                       *)
cutAll == [w \in Worker |-> [k \in Slot(w) |-> [hnd[w][k] EXCEPT !.live = FALSE]]]
call == calls < scn.calls /\ calls' = calls + 1

\* Pause's second half: swap in a cancelled context, DisconnectAll.
cutOff ==
    /\ hnd' = cutAll
    /\ disc' = TRUE
    /\ loop' = IF disc THEN loop ELSE signalled(loop)

\* The API's pause: the queue's flag, then Downloader.Pause under app.mu.
Pause ==
    /\ call /\ phase = "run" /\ ~pause.queue
    /\ pause' = [pause EXCEPT !.queue = TRUE, !.flag = TRUE, !.live = FALSE]
    /\ cutOff
    /\ UNCHANGED <<prog, track, work, conn, results, held, disp, opts, phase, srv, faults, answered>>

Resume ==
    /\ phase = "run" /\ pause.flag
    /\ pause' = [pause EXCEPT !.queue = FALSE, !.flag = FALSE, !.live = TRUE]
    /\ hnd' = cutAll
    /\ UNCHANGED <<prog, track, work, conn, loop, results, held, disp, opts, disc, phase, srv, faults, calls, answered>>

\* handleLowDisk pauses without app.mu: a Resume may fall between its halves.
LowDisk ==
    /\ call /\ phase = "run" /\ ~pause.low
    /\ pause' = [pause EXCEPT !.flag = TRUE, !.low = TRUE]
    /\ UNCHANGED <<prog, track, net, results, held, disp, opts, disc, phase, srv, faults, answered>>

LowDiskCut ==
    /\ pause.low
    /\ pause' = [pause EXCEPT !.live = FALSE, !.low = FALSE]
    /\ cutOff
    /\ UNCHANGED <<prog, track, work, conn, results, held, disp, opts, phase, srv, faults, calls, answered>>

SetDispatchOptions ==
    /\ call
    /\ \E o \in Options \ {opts} : opts' = o
    /\ UNCHANGED <<prog, track, net, results, held, disp, pause, disc, phase, srv, faults, answered>>

UnblockServer(s) ==
    /\ srv[s].pen = "future"
    /\ srv' = [srv EXCEPT ![s] = clearDeactivation(s)]
    /\ UNCHANGED <<prog, track, net, results, held, disp, ctl, faults, calls, answered>>

PauseJob ==
    /\ call /\ job \in {"run", "paused"}
    /\ job' = IF job = "run" THEN "paused" ELSE "run"
    /\ UNCHANGED <<bits, track, net, results, held, disp, ctl, srv, faults, answered>>

\* appWorkers.Abort: the tracker forgets the job while its handlers still run.
CancelJob ==
    /\ call /\ job \in {"run", "paused"}
    /\ job' = "cancelled"
    /\ tried' = [a \in Article |-> {}] /\ inFlight' = [a \in Article |-> 0]
    /\ answered' = [a \in Article |-> {}]
    /\ UNCHANGED <<bits, net, results, held, disp, ctl, srv, faults>>

RemoveJob ==
    /\ job \in {"cancelled", "left"} /\ contentFree
    /\ job' = "gone"
    /\ UNCHANGED <<bits, track, net, results, held, disp, ctl, srv, faults, calls, answered>>

Aged ==
    /\ job = "young" /\ job' = "run"
    /\ UNCHANGED <<bits, track, net, results, held, disp, ctl, srv, faults, calls, answered>>

\* ReloadDownloader: Stop the old downloader ...
Stop ==
    /\ call /\ phase = "run" /\ ~pause.low
    /\ phase' = "stop"
    /\ hnd' = cutAll
    /\ UNCHANGED <<prog, track, work, conn, loop, results, held, disp, opts, pause, disc, srv, faults, answered>>

\* ... and, once it has wound down and the pipeline has drained its channel,
\* checkpoint, clear the emitted bits of a protected job, and start a new one.
Reload ==
    /\ phase = "stop" /\ disp.pc = "exit" /\ results = <<>>
    /\ \A w \in Worker : loop[w].mode = "exit"
    /\ \E protected, complete \in BOOLEAN :
        LET acked == [a \in Article |-> IF protected /\ a \in held /\ exists
                                        THEN markDone(bits, a)[a] ELSE bits[a]]
            reset(b) == IF b.failed /\ ~complete THEN [done |-> FALSE, failed |-> FALSE, emitted |-> FALSE]
                        ELSE [b EXCEPT !.emitted = @ /\ ~protected]
        IN  /\ complete => \A a \in Article : bits[a].done
            /\ ~protected => held # {}
            /\ bits' = IF exists THEN [a \in Article |-> reset(acked[a])] ELSE bits
            /\ held' = IF protected THEN {} ELSE held
    /\ phase' = "run" /\ disp' = Idle
    /\ tried' = [a \in Article |-> {}] /\ inFlight' = [a \in Article |-> 0]
    /\ answered' = [a \in Article |-> {}]
    /\ work' = [s \in Server |-> <<>>]
    /\ loop' = loopsAtStart
    /\ srv' = [s \in Server |-> FreshServer]
    /\ pause' = [pause EXCEPT !.flag = FALSE, !.live = TRUE]
    /\ disc' = FALSE
    /\ UNCHANGED <<job, conn, hnd, results, opts, faults, calls>>

-----------------------------------------------------------------------------
Dispatching == StartPass \/ BuildPlan \/ WalkCut \/ GiveUp \/ EmitGivenUp \/ EndPass \/ DispatcherExits
Looping(w)  == Arm(w) \/ Take(w) \/ Disconnect(w) \/ Drained(w) \/ WorkerStops(w)
Handling(w, k) ==
    \/ Refrain(w, k) \/ GetOpen(w, k) \/ Dial(w, k) \/ Stat(w, k)
    \/ NoArticle(w, k) \/ CRCMismatch(w, k) \/ Decoded(w, k) \/ Broken(w, k) \/ Emit(w, k)
Piping == HandleRetry \/ HandleFatal \/ HandleGood
Calling ==
    \/ Pause \/ Resume \/ LowDisk \/ SetDispatchOptions \/ PauseJob \/ CancelJob \/ RemoveJob \/ Stop
    \/ \E s \in Server : UnblockServer(s)

Timed == LowDiskCut \/ Reload \/ Aged \/ \E s \in Server : PenaltyExpires(s)

Next ==
    \/ Dispatching \/ Piping \/ Calling \/ Timed
    \/ \E w \in Worker : Looping(w) \/ \E k \in Slot(w) : Handling(w, k)
    \/ \E a \in Article : AckDurable(a)

\* The goroutines run, a server answers or times out, barriers come round.
\* contentMu and the results channel hand over in FIFO order, hence SF.
Request(a) == \E w \in Worker : \E k \in Slot(w) : hnd[w][k].art = a /\ Handling(w, k)

Fairness ==
    /\ WF_moving(Dispatching) /\ SF_moving(Piping) /\ WF_moving(Timed)
    /\ \A w \in Worker : WF_moving(Looping(w))
    /\ \A a \in Article : SF_moving(Request(a))
    /\ SF_moving(\E a \in Article : AckDurable(a))

Spec == Init /\ [][UNCHANGED scn /\ Next]_vars /\ Fairness

-----------------------------------------------------------------------------
(* Properties.                                                               *)
Queued(a)  == {p \in UNION {{s} \X DOMAIN work[s] : s \in Server} : work[p[1]][p[2]] = a}
Handled(a) == {p \in UNION {{w} \X Slot(w) : w \in Worker} : hnd[p[1]][p[2]].art = a}
Requests(a) == Cardinality(Queued(a)) + Cardinality(Handled(a))

\* No article is ever being fetched twice at a time, whatever pauses, connection
\* faults and late results do to it: the tracker's count is the number of
\* requests for the article that are queued or being handled, and is at most one.
OneFetcher ==
    job \in {"run", "paused", "left"} /\ phase = "run" =>
        \A a \in Article : inFlight[a] = Requests(a) /\ Requests(a) <= 1

Terminal == {"good", "fatal", "exhausted"}
\* An article that dispatch skips because it is "emitted" is in somebody's
\* hands: a result under way, or the assembler.  Were it in nobody's, nothing
\* would ever fetch it again and the job would wait for it for ever.
EmittedIsInHand ==
    exists => \A a \in Article : bits[a].emitted =>
        \/ a \in held
        \/ \E i \in DOMAIN results : results[i].art = a /\ results[i].kind \in Terminal
        \/ \E w \in Worker : \E k \in Slot(w) :
              hnd[w][k].art = a /\ hnd[w][k].pc = "emit" /\ hnd[w][k].kind \in Terminal
        \/ disp.pc = "emit" /\ Head(disp.ex) = a

\* As many servers as the options of the pass ask for have refused the article.
Refused(a) ==
    LET o == disp.opts
        optional == {s \in answered[a] : ServerCfg[s].optional}
    IN  \/ o.maxArtTries > 0 /\ Cardinality(answered[a]) >= o.maxArtTries
        \/ \A s \in Server :
              \/ s \in answered[a] \/ s \notin scn.on
              \/ o.topOnly /\ ServerCfg[s].priority > getMinServerPriority
              \/ ServerCfg[s].optional /\ o.maxArtOpt > 0 /\ Cardinality(optional) >= o.maxArtOpt

\* An article is given up only after enough servers have themselves refused it:
\* a connection that failed, a pause or a penalised server is never counted as
\* a refusal.
GiveUpIsEarned ==
    job \in {"run", "paused", "left"} =>
        \A i \in DOMAIN disp.ex : (disp.pc = "emit" /\ i = 1) \/ Refused(disp.ex[i])

\* Once a pause has taken hold no handler can still open a connection or
\* send a command: every captured context is dead.
PausedIsQuiet ==
    pause.flag /\ ~pause.low => \A w \in Worker : \A k \in Slot(w) : ~hnd[w][k].live

\* A downloader that is not paused can fetch: its pause context is alive.
UnpausedIsLive == ~pause.flag => pause.live

\* While the job runs and the downloader is neither paused nor stopped, every
\* article is resolved in the end.
Settled == job = "run" /\ phase = "run" /\ ~pause.flag /\ ~pause.queue /\ pause.live
AllResolved == <>[]Settled => <>(\A a \in Article : bits[a].done)

-----------------------------------------------------------------------------
(* The invariant behind the three safety properties.                         *)

Kind == {"none", "no", "crc", "good", "fatal", "exhausted"}
Asking == {"start", "stat", "wire", "dead"}
Handler == [pc : Asking \cup {"free", "emit", "emitNo"}, art : Article \cup {0}, live : BOOLEAN,
            c : {"none", "current", "stale"}, kind : Kind]

FetchTypeOK ==
    /\ scn \in Scenario
    /\ bits \in [Article -> [done : BOOLEAN, failed : BOOLEAN, emitted : BOOLEAN]]
    /\ job \in {"young", "run", "paused", "cancelled", "left", "gone"}
    /\ tried \in [Article -> SUBSET Server] /\ answered \in [Article -> SUBSET Server]
    /\ inFlight \in [Article -> Nat]
    /\ work \in [Server -> Seq(Article)]
    /\ loop \in [Worker -> [mode : {"acquire", "select", "drain", "exiting", "exit"},
                            snap : {"nil", "live", "fired"}]]
    /\ DOMAIN hnd = Worker /\ \A w \in Worker : hnd[w] \in [Slot(w) -> Handler]
    /\ results \in Seq([art : Article, kind : Kind])
    /\ held \subseteq Article
    /\ disp \in [pc : {"idle", "build", "apply", "emit", "exit"}, i : Nat, ex : Seq(Article),
                 any : BOOLEAN, hop : BOOLEAN, opts : Options]
    /\ opts \in Options
    /\ pause \in [queue : BOOLEAN, flag : BOOLEAN, live : BOOLEAN, low : BOOLEAN]
    /\ phase \in {"run", "stop"}

\* A worker that waits for a request has a slot for it, and one that has left
\* has nothing to do.
SlotsOK ==
    \A w \in Worker :
        /\ \A k \in Slot(w) : hnd[w][k].pc = "free" <=> hnd[w][k].art = 0
        /\ loop[w].mode = "select" => \E k \in Slot(w) : hnd[w][k].pc = "free"
        /\ loop[w].mode = "exit" => \A k \in Slot(w) : hnd[w][k].pc = "free"

\* The articles a plan gives up are those it has passed, each once.
PlanOK ==
    /\ disp.pc \in {"idle", "exit"} => disp.ex = <<>>
    /\ disp.pc = "emit" => disp.ex # <<>>
    /\ \A i \in DOMAIN disp.ex : disp.ex[i] < disp.i
    /\ \A i, k \in DOMAIN disp.ex : disp.ex[i] = disp.ex[k] => i = k

Asked(a) ==
    \/ \E s \in Server : \E i \in DOMAIN work[s] : work[s][i] = a
    \/ \E w \in Worker : \E k \in Slot(w) : hnd[w][k].art = a

\* Until the job is cancelled and the tracker forgets it, every article is
\* queued or handled in at most one place, and the tracker knows.
Tracked == {"young", "run", "paused", "left"}

OnePlace ==
    /\ \A s, t \in Server : \A i \in DOMAIN work[s], k \in DOMAIN work[t] :
          work[s][i] = work[t][k] => s = t /\ i = k
    /\ \A w, x \in Worker : \A k \in Slot(w), m \in Slot(x) :
          hnd[w][k].art = hnd[x][m].art /\ hnd[w][k].art # 0 => w = x /\ k = m
    /\ \A s \in Server : \A i \in DOMAIN work[s] : \A w \in Worker : \A k \in Slot(w) :
          work[s][i] # hnd[w][k].art
    /\ \A a \in Article : inFlight[a] = IF Asked(a) THEN 1 ELSE 0

\* A server on the try list has refused the article or is still to answer.
AskedOf(a, s) ==
    \/ \E i \in DOMAIN work[s] : work[s][i] = a
    \/ \E w \in Worker : \E k \in Slot(w) :
          srvOf(w) = s /\ hnd[w][k].art = a /\ hnd[w][k].pc \in Asking

TriedAnswered == \A a \in Article : \A s \in tried[a] : s \in answered[a] \/ AskedOf(a, s)

\* Nobody is asked any more for an article that is given up.
GivenUp ==
    \A i \in DOMAIN disp.ex :
        (disp.pc = "emit" /\ i = 1) \/ (Refused(disp.ex[i]) /\ ~Asked(disp.ex[i]))

DoneIsNotEmitted == \A a \in Article : bits[a].done => ~bits[a].emitted

FetchInv ==
    /\ FetchTypeOK /\ SlotsOK /\ PlanOK
    /\ job \in Tracked => OnePlace
    /\ TriedAnswered
    /\ job \in Tracked => GivenUp
    /\ DoneIsNotEmitted /\ EmittedIsInHand
=============================================================================
