----------------------------- MODULE AssemblerLife -----------------------------
(***************************************************************************)
(* The life of the assembler's worker (assembler/assembler.go): articles   *)
(* and control messages share one request channel, and one goroutine owns  *)
(* every handle.  One job is followed through the calls that end it        *)
(* (RemoveJob's CancelJob, post-processing's CloseJobHandles), bring it    *)
(* back (a retry's ForgetJob) and stop the worker.  What the bytes of a    *)
(* file go through is Durability's and FileWriter's subject; here an       *)
(* article has a buffer, and is cached, written or given back.             *)
(***************************************************************************)
EXTENDS Naturals, Sequences, FiniteSets, SequencesExt

CONSTANTS
    FileOf,       \* FileOf[a]: the file of an article
    QueueSize,    \* capacity of the request channel
    MaxLifeFaults     \* bound on failed drains and opens

VARIABLES
    sender,     \* what WriteArticle does for each article
    call,       \* what each control call does
    reqs,       \* the request channel
    workerState,     \* "loop", "draining" or "exited"
    stopping,   \* "no", "stopped" (stopCh closed), "joined" (Stop returned)
    handles,       \* the worker's open map
    completed,  \* its tombstones of finished files
    cancelled,  \* the job is in cancelledJobs
    cached,     \* articles the write cache holds
    written,    \* articles whose bytes are in their file
    accepted,   \* articles admitted by their file in this attempt (history variable)
    returned,   \* articles handed back by OnArticlesUnwritten
    disk,       \* files that exist
    pooled,     \* how often the buffer of each article went to the pool
    job,        \* "fetching", "post" or "removed"
    known,      \* the pipeline can resolve the job's files
    lifeFaults

lifeVars == <<sender, call, reqs, workerState, stopping, handles, completed, cancelled, cached,
              written, accepted, returned, disk, pooled, job, known, lifeFaults>>

Art == DOMAIN FileOf
LifeFile == {FileOf[a] : a \in Art}
Disposition == {"cancelKeep", "cancelDelete"}
Control == Disposition \cup {"close", "forget"}
artsOf(fs) == {a \in Art : FileOf[a] \in fs}
\* TotalParts: the articles of the file.
parts(f, as) == Cardinality(as \cap artsOf({f}))

LifeInit ==
    /\ sender = [a \in Art |-> "out"] /\ call = [c \in Control |-> "no"]
    /\ reqs = <<>> /\ workerState = "loop" /\ stopping = "no"
    /\ handles = {} /\ completed = {} /\ cancelled = FALSE
    /\ cached = {} /\ written = {} /\ accepted = {} /\ returned = {} /\ disk = {}
    /\ pooled = [a \in Art |-> 0] /\ job = "fetching" /\ known = TRUE /\ lifeFaults = 0

releaseBuffer(as) == pooled' = [a \in Art |-> IF a \in as THEN pooled[a] + 1 ELSE pooled[a]]

-----------------------------------------------------------------------------
queued(a) == \E i \in DOMAIN reqs : reqs[i].kind = "write" /\ reqs[i].art = a

\* Callers.  An article is sent once, and once more after a retry, in a new
\* buffer.  registerFile needs the job, or an earlier registration; past the
\* check of stopped, Stop waits for the sender.
Enter(a) ==
    /\ \/ sender[a] = "out"
       \/ sender[a] \in {"sent", "refused"} /\ call["forget"] = "returned"
          /\ a \notin cached /\ ~queued(a)
    /\ known \/ job # "removed"
    /\ known' = TRUE
    /\ sender' = [sender EXCEPT ![a] = IF stopping = "no" THEN "sending" ELSE "refused"]
    /\ pooled' = [pooled EXCEPT ![a] = IF stopping = "no" THEN 0 ELSE 1]
    /\ UNCHANGED <<call, reqs, workerState, stopping, handles, completed, cancelled, cached, written,
                   accepted, returned, disk, job, lifeFaults>>

\* The select: the channel and stopCh may both be ready.
WriteArticle(a) ==
    /\ sender[a] = "sending"
    /\ \/ /\ Len(reqs) < QueueSize
          /\ reqs' = Append(reqs, [kind |-> "write", art |-> a])
          /\ sender' = [sender EXCEPT ![a] = "sent"] /\ pooled' = pooled
       \/ /\ stopping # "no" /\ reqs' = reqs
          /\ sender' = [sender EXCEPT ![a] = "refused"] /\ releaseBuffer({a})
    /\ UNCHANGED <<call, workerState, stopping, handles, completed, cancelled, cached, written,
                   accepted, returned, disk, job, known, lifeFaults>>

callVars == <<sender, workerState, handles, completed, cancelled, cached, written, accepted,
              returned, pooled, lifeFaults>>

\* A control call: refused by a stopped assembler, else it waits for room.
send(c) ==
    /\ call[c] = "no"
    /\ IF stopping = "no"
       THEN /\ Len(reqs) < QueueSize
            /\ reqs' = Append(reqs, [kind |-> c]) /\ call' = [call EXCEPT ![c] = "queued"]
       ELSE reqs' = reqs /\ call' = [call EXCEPT ![c] = "gaveUp"]
    /\ UNCHANGED <<callVars, stopping, disk, known>>

\* It gives up at its time limit, or when the assembler stops.
GiveUp(c) ==
    /\ call[c] = "queued" /\ call' = [call EXCEPT ![c] = "gaveUp"]
    /\ UNCHANGED <<callVars, reqs, stopping, disk, job, known>>

\* By RemoveJob, once the job has left the queue.
CancelJob(c) == c \in Disposition /\ job # "removed" /\ job' = "removed" /\ send(c)
\* By enqueuePostProc.
CloseJobHandles(c) == c = "close" /\ job = "fetching" /\ job' = "post" /\ send(c)
\* By RetryHistoryJob.
ForgetJob(c) == c = "forget" /\ job = "post" /\ call["close"] = "returned" /\ job' = job /\ send(c)

\* What the caller does next, confirmed or not: pipeline.forgetJob, and for a
\* removal that deletes also safeDeleteDir.  A retry registers the job again.
Return(c) ==
    /\ call[c] \in {"acked", "gaveUp"}
    /\ call' = [call EXCEPT ![c] = IF @ = "acked" THEN "returned" ELSE "unconfirmed"]
    /\ known' = (c = "forget")
    /\ disk' = IF c = "cancelDelete" THEN {} ELSE disk
    /\ job' = IF c = "forget" /\ job = "post" THEN "fetching" ELSE job
    /\ UNCHANGED <<callVars, reqs, stopping>>

StopWorker ==
    /\ stopping = "no" /\ stopping' = "stopped"
    /\ UNCHANGED <<callVars, call, reqs, disk, job, known>>

\* wg.Wait: the worker and every sender that got past the check.
Joined ==
    /\ stopping = "stopped" /\ stopping' = "joined"
    /\ workerState = "exited" /\ \A a \in Art : sender[a] # "sending"
    /\ \A c \in Control : call[c] # "queued"
    /\ UNCHANGED <<callVars, call, reqs, disk, job, known>>

-----------------------------------------------------------------------------
\* The worker.  Draining an open file writes what it cached; a failed drain
\* writes part of it and leaves the rest faulted.
drainHandles(fs, lost) ==
    /\ lost \subseteq cached \cap artsOf(fs)
    /\ lost # {} => lifeFaults < MaxLifeFaults
    /\ lifeFaults' = lifeFaults + (IF lost # {} THEN 1 ELSE 0)
    /\ written' = written \cup ((cached \cap artsOf(fs)) \ lost)
    /\ cached' = cached \ artsOf(fs)
    /\ releaseBuffer(cached \cap artsOf(fs))

\* Mutant of drainAndClose: the faulted set is not released.
drainAndCloseOnly(lost) == drainHandles(handles, lost) /\ returned' = returned
\* drainAndClose: what could not be written is given back.
drainAndClose(lost) == drainHandles(handles, lost) /\ returned' = returned \cup lost

\* closeCancelledFile, then wc.forget: nothing is given back.
closeCancelledFile(keep, lost) ==
    /\ returned' = returned
    /\ IF keep
       THEN drainHandles(handles, lost) /\ disk' = disk
       ELSE /\ lost = {} /\ cached' = cached \ artsOf(handles) /\ disk' = disk \ handles
            /\ releaseBuffer(cached \cap artsOf(handles)) /\ UNCHANGED <<written, lifeFaults>>

ack(c) == call' = [call EXCEPT ![c] = IF @ = "queued" THEN "acked" ELSE @]

\* Mutant of tombstoneJob: only the files that were open are refused from now on.
tombstoneNothing == cancelled' = cancelled
tombstoneJob == cancelled' = TRUE

CancelArm(c) ==
    /\ c \in Disposition
    /\ \E lost \in SUBSET cached : closeCancelledFile(c = "cancelKeep", lost)
    /\ tombstoneJob
    /\ completed' = completed \cup handles /\ handles' = {} /\ ack(c)
    /\ UNCHANGED accepted

CloseArm(c) ==
    /\ c = "close"
    /\ \E lost \in SUBSET cached : drainAndClose(lost)
    /\ completed' = completed \cup handles /\ handles' = {} /\ ack(c)
    /\ UNCHANGED <<cancelled, disk, accepted>>

\* The open map is left alone.
ForgetArm(c) ==
    /\ c = "forget"
    /\ completed' = {} /\ cancelled' = FALSE /\ ack(c) /\ accepted' = accepted \cap artsOf(handles)
    /\ UNCHANGED <<handles, cached, written, returned, disk, pooled, lifeFaults>>

\* An article: dropped, late, refused for want of its file, or admitted.
Dropped(a) == cancelled /\ releaseBuffer({a}) /\ UNCHANGED <<handles, cached, completed, accepted, returned, disk, lifeFaults>>
Late(a) ==
    /\ ~cancelled /\ FileOf[a] \in completed /\ releaseBuffer({a})
    /\ UNCHANGED <<handles, cached, completed, accepted, returned, disk, lifeFaults>>
\* openTargetFile releases the buffer of a file it cannot open, and so does
\* processRequest when it sees the error.
openFails(a) ==
    /\ ~cancelled /\ FileOf[a] \notin completed \cup handles
    /\ ~known \/ lifeFaults < MaxLifeFaults
    /\ lifeFaults' = lifeFaults + (IF known THEN 1 ELSE 0)
    /\ pooled' = [pooled EXCEPT ![a] = @ + 2] /\ returned' = returned \cup {a}
    /\ UNCHANGED <<handles, cached, completed, accepted, disk>>
Admitted(a) ==
    /\ ~cancelled /\ FileOf[a] \notin completed /\ (FileOf[a] \in handles \/ known)
    /\ handles' = handles \cup {FileOf[a]} /\ disk' = disk \cup {FileOf[a]}
    /\ cached' = cached \cup {a} /\ accepted' = accepted \cup {a}
    /\ completed' = IF parts(FileOf[a], accepted \cup {a}) = parts(FileOf[a], Art)
                    THEN completed \cup {FileOf[a]} ELSE completed
    /\ UNCHANGED <<returned, pooled, lifeFaults>>

processRequest(req) ==
    /\ req.kind = "write"
    /\ Dropped(req.art) \/ Late(req.art) \/ openFails(req.art) \/ Admitted(req.art)
    /\ UNCHANGED <<call, cancelled, written>>

dispatchRequest ==
    /\ workerState # "exited" /\ reqs # <<>> /\ reqs' = Tail(reqs)
    /\ LET c == Head(reqs).kind
       IN  processRequest(Head(reqs)) \/ CancelArm(c) \/ CloseArm(c) \/ ForgetArm(c)
    /\ UNCHANGED <<sender, workerState, stopping, job, known>>

\* The cache is relieved, or a barrier drains: the article reaches the file.
Flush(a) ==
    /\ workerState # "exited" /\ a \in cached /\ cached' = cached \ {a}
    /\ written' = written \cup {a} /\ releaseBuffer({a})
    /\ UNCHANGED <<sender, call, reqs, workerState, stopping, handles, completed, cancelled,
                   accepted, returned, disk, job, known, lifeFaults>>

SeesStop ==
    /\ workerState = "loop" /\ stopping # "no" /\ workerState' = "draining"
    /\ UNCHANGED <<sender, call, reqs, stopping, handles, completed, cancelled, cached, written,
                   accepted, returned, disk, pooled, job, known, lifeFaults>>

\* The channel is empty: drainAndCloseAll, and the goroutine ends.
Exit ==
    /\ workerState = "draining" /\ reqs = <<>> /\ workerState' = "exited" /\ handles' = {}
    /\ \E lost \in SUBSET cached : drainAndClose(lost)
    /\ UNCHANGED <<sender, call, reqs, stopping, completed, cancelled, accepted, disk, job, known>>

LifeNext ==
    \/ \E a \in Art : Enter(a) \/ WriteArticle(a) \/ Flush(a)
    \/ \E c \in Control : CancelJob(c) \/ CloseJobHandles(c) \/ ForgetJob(c) \/ GiveUp(c) \/ Return(c)
    \/ dispatchRequest \/ StopWorker \/ SeesStop \/ Exit \/ Joined

-----------------------------------------------------------------------------
\* Once RemoveJob has been told that the handles are closed, the worker never
\* touches the job again: no article still queued, or sent late, opens one of
\* its files or creates it anew in a directory that is being deleted.
RemovedIsLeftAlone ==
    /\ call["cancelKeep"] \in {"acked", "returned"} => handles = {}
    /\ call["cancelDelete"] = "returned" => disk = {} /\ handles = {}

\* An article that was admitted is never silently gone: whatever closes its
\* file, it is cached under an open handle, in the file, or given back, unless
\* the job was cancelled and its files deleted or their drain failed.
AdmittedIsAccounted ==
    \A a \in accepted : \/ a \in written \cup returned
                        \/ a \in cached /\ FileOf[a] \in handles
                        \/ cancelled /\ (lifeFaults > 0 \/ call["cancelDelete"] # "no")

\* A buffer has one owner: it is pooled at most once, and never while a
\* request or the cache still refers to it.
BufferHasOneOwner ==
    \A a \in Art :
        pooled[a] + (IF a \in cached THEN 1 ELSE 0)
          + Cardinality({i \in DOMAIN reqs : reqs[i].kind = "write" /\ reqs[i].art = a}) <= 1

\* Post-processing works on the files of a job whose handles are closed and
\* stay closed.
HandedOverStaysClosed ==
    (job = "post" /\ call["close"] = "returned" /\ call["forget"] = "no") => handles = {}

\* What a sender was told is queued is processed before Stop returns.
StopDrains == stopping = "joined" => reqs = <<>>

LifeSpec == LifeInit /\ [][LifeNext]_lifeVars

-----------------------------------------------------------------------------
(* The invariants behind RemovedIsLeftAlone and AdmittedIsAccounted.         *)
Told(c) == call[c] \in {"acked", "returned"}

\* A job is removed once, after which nothing is sent for it but that removal.
RemovedOnce ==
    /\ \A c \in Disposition : call[c] # "no" => job = "removed"
    /\ \A c, d \in Disposition : call[c] # "no" /\ call[d] # "no" => c = d
    /\ \A i \in DOMAIN reqs : reqs[i].kind \in Control => call[reqs[i].kind] # "no"

\* No retry follows a removal through the channel, so that the tombstone of a
\* confirmed one is never lifted.
TombstoneStays ==
    /\ \A i, k \in DOMAIN reqs : i < k /\ reqs[i].kind \in Disposition => reqs[k].kind # "forget"
    /\ \A c \in Disposition : Told(c) => cancelled /\ \A i \in DOMAIN reqs : reqs[i].kind # "forget"

Request == [kind : {"write"}, art : Art] \cup [kind : Control]

LifeIInv ==
    /\ call = [c \in Control |-> call[c]]
    /\ reqs \in Seq(Request)
    /\ cached \subseteq Art /\ accepted \subseteq Art /\ lifeFaults \in Nat
    /\ cancelled \in BOOLEAN
    /\ cancelled => handles = {}
    /\ RemovedOnce
    /\ TombstoneStays
    /\ call["cancelDelete"] = "returned" => disk = {}
    /\ AdmittedIsAccounted
=============================================================================
