------------------------------- MODULE RunStore -------------------------------
(***************************************************************************)
(* How durable_runs holds one file (durability/runstore_sqlite.go): every  *)
(* commit subtracts what the rows already cover, folds the rest into them, *)
(* and drops the shorter of two entries at one offset.  Around it: the     *)
(* cycle of a barrier from its commit to the report of what is             *)
(* structurally wrong with the post (barrier.go, postanomaly.go), the      *)
(* whole-file CRC taken from a single row, and the deletions.  A CRC is    *)
(* the sequence of the articles it was computed over, so crc32util.Combine *)
(* is concatenation.                                                       *)
(***************************************************************************)
EXTENDS Integers, Sequences, FiniteSets, FiniteSetsExt, SequencesExt

CONSTANTS
    Posts,      \* the posts: Posts[p] = <<[off, len], ...>>, one record per article
    MaxLives    \* bound on restarts and retries

VARIABLES
    post,      \* which post this file is
    runs,      \* durable_runs: the set of rows
    acked,     \* articles committed and acknowledged
    cycle,     \* the barrier between its commit and its return
    latch,     \* Barrier.reported holds this file
    raised,    \* the user has been told (history variable)
    unasked,   \* no overlap check of the whole file since a commit (history variable)
    crc,       \* the file's AssembledCRC32, <<>> while there is none
    lives

runVars == <<post, runs, acked, cycle, latch, raised, unasked, crc, lives>>

\* found: the commit met a collision; final: this is FinalizeFile.
NoCycle == [at |-> "idle", batch |-> {}, found |-> FALSE, final |-> FALSE]

Seg == DOMAIN Posts[post]
off(a) == Posts[post][a].off
len(a) == Posts[post][a].len
Single(a) == [first |-> a, last |-> a, off |-> off(a), len |-> len(a), crc |-> <<a>>]
end(r) == r.off + r.len
SumLen(rs) == MapThenSumSet(LAMBDA r : r.len, rs)

RunInit ==
    /\ post \in DOMAIN Posts
    /\ runs = {} /\ acked = {} /\ cycle = NoCycle /\ latch = FALSE /\ raised = FALSE
    /\ unasked = FALSE /\ crc = <<>> /\ lives = 0

-----------------------------------------------------------------------------
covered(rs) == {a \in Seg : \E r \in rs : r.first <= a /\ a <= r.last}

\* Mutant of queryBracketing: a row that begins where the batch ends is not read.
queryBefore(maxEnd) == {r \in runs : r.off < maxEnd}
\* No lower bound: a run that begins far below may cover the batch's articles.
queryBracketing(maxEnd) == {r \in runs : r.off <= maxEnd}

\* Offset, then the longer first, then the lower index.
before(r, s) ==
    \/ r.off < s.off
    \/ r.off = s.off /\ r.len > s.len
    \/ r.off = s.off /\ r.len = s.len /\ r.first < s.first

abuts(cur, r) == r.off = end(cur) /\ r.first = cur.last + 1

merge(cur, r) == [cur EXCEPT !.crc = @ \o r.crc, !.len = @ + r.len, !.last = r.last]

\* One step of the fold: drop, merge, or begin a new run.
fold(acc, r) ==
    LET cur == Last(acc.out)
    IN  IF r.off = cur.off THEN [acc EXCEPT !.collisions = @ + 1]
        ELSE IF abuts(cur, r) THEN [acc EXCEPT !.out = Front(@) \o <<merge(cur, r)>>]
        ELSE [acc EXCEPT !.out = Append(@, r)]

mergeAdjacentRuns(entries) ==
    LET sorted == SetToSortSeq(entries, before)
    IN  FoldLeft(fold, [out |-> <<Head(sorted)>>, collisions |-> 0], Tail(sorted))

\* commitFile: subtract first, then merge; every row that was read is rewritten.
commitFile(batch) ==
    LET stored == queryBracketing(Max({off(a) + len(a) : a \in batch}))
        kept == batch \ covered(stored)
        merged == mergeAdjacentRuns(stored \cup {Single(a) : a \in kept})
    IN  IF kept = {} THEN [rows |-> runs, collisions |-> 0]
        ELSE [rows |-> (runs \ stored) \cup ToSet(merged.out), collisions |-> merged.collisions]

\* The file as finalize leaves it: trimmed to the highest byte that is claimed.
size(rs) == Max({0} \cup {end(r) : r \in rs})

overlapFrom(rs) == SumLen(rs) > size(rs)

collisionFindings(c) == c.collisions > 0

\* One finding per file gets through, and spends the latch.
admit(found) == raised' = (raised \/ (found /\ ~latch)) /\ latch' = (latch \/ found)

\* Run or FinalizeFile commits what it drained, redelivered articles included;
\* a file that is all durable already is committed with nothing.
Commit(batch, final) ==
    /\ cycle.at = "idle"
    /\ LET c == IF batch = {} THEN [rows |-> runs, collisions |-> 0] ELSE commitFile(batch)
       IN  /\ runs' = c.rows
           /\ cycle' = [at |-> "ack", batch |-> batch, found |-> collisionFindings(c), final |-> final]
    /\ unasked' = TRUE
    /\ UNCHANGED <<post, acked, latch, raised, crc, lives>>

AckDurable ==
    /\ cycle.at = "ack"
    /\ acked' = acked \cup cycle.batch
    /\ cycle' = [cycle EXCEPT !.at = "report"]
    /\ UNCHANGED <<post, runs, latch, raised, unasked, crc, lives>>

\* Mutant of ackFailed: the collisions are dropped with the failed cycle.
ackFailedSilent == cycle.batch # {} /\ UNCHANGED <<raised, latch>>
\* The ack is refused: the collisions travel with the error, the overlap is not looked for.
ackFailed == cycle.batch # {} /\ admit(cycle.found)

AckRefused ==
    /\ cycle.at = "ack" /\ ackFailed
    /\ cycle' = NoCycle
    /\ UNCHANGED <<post, runs, acked, unasked, crc, lives>>

\* overlapFindings: a failure to read the rows is logged; and a checkpoint's file may
\* still have its pre-allocated size, which hides an overlap.
Report ==
    /\ cycle.at = "report" /\ cycle' = NoCycle
    /\ \/ admit(cycle.found \/ overlapFrom(runs)) /\ unasked' = (unasked /\ ~cycle.final)
       \/ admit(cycle.found) /\ UNCHANGED unasked
    /\ UNCHANGED <<post, runs, acked, crc, lives>>

\* SetFileCRC32FromRuns: a single run, from the first byte, over every article.
provesCRC(rs) == \E r \in rs : rs = {r} /\ r.off = 0 /\ r.first = 1 /\ r.last = Len(Posts[post])

recordAssembledCRC ==
    /\ provesCRC(runs) /\ crc = <<>>
    /\ crc' = (CHOOSE r \in runs : TRUE).crc
    /\ UNCHANGED <<post, runs, acked, cycle, latch, raised, unasked, lives>>

\* A restart, in the middle of a cycle or not, forgets the latch, and takes from the rows what is done.
Restart ==
    /\ lives < MaxLives /\ lives' = lives + 1
    /\ acked' = covered(runs) /\ latch' = FALSE /\ cycle' = NoCycle
    /\ UNCHANGED <<post, runs, raised, unasked, crc>>

\* The resume finds the file shorter than its runs: they are deleted.
DeleteFile ==
    /\ lives < MaxLives /\ lives' = lives + 1 /\ runs # {}
    /\ runs' = {} /\ acked' = {} /\ latch' = FALSE /\ crc' = <<>> /\ cycle' = NoCycle
    /\ UNCHANGED <<post, raised, unasked>>

\* A retry keeps the rows and lets the file be reported again.
ForgetJob ==
    /\ lives < MaxLives /\ lives' = lives + 1 /\ latch /\ cycle.at = "idle"
    /\ latch' = FALSE /\ acked' = covered(runs)
    /\ UNCHANGED <<post, runs, cycle, raised, unasked, crc>>

RunNext ==
    \/ \E batch \in SUBSET Seg, final \in BOOLEAN : Commit(batch, final)
    \/ AckDurable \/ AckRefused \/ Report \/ recordAssembledCRC \/ Restart \/ DeleteFile \/ ForgetJob

-----------------------------------------------------------------------------
contiguous(a, b) == \A i \in a..(b - 1) : off(i + 1) = off(i) + len(i)
healthy == off(1) = 0 /\ contiguous(1, Len(Posts[post]))

\* The maximal runs of a set of articles, by definition rather than by folding.
MaximalRuns(arts) ==
    LET spans == {<<a, b>> \in arts \X arts : a <= b /\ a..b \subseteq arts}
    IN  {s \in spans : \A t \in spans : s[1] \in t[1]..t[2] => t[2] - t[1] <= s[2] - s[1]}

\* Whatever the order, the batching, the redeliveries and the refused acks: a row
\* is exactly its articles, laid end to end; the rows of a well-formed post are
\* maximal runs and hold all that is acknowledged or about to be; and a whole-file
\* CRC that is published is that of such a post.
RowsAreRuns ==
    /\ \A r \in runs : /\ r.off = off(r.first) /\ contiguous(r.first, r.last)
                       /\ r.len = off(r.last) + len(r.last) - r.off
                       /\ r.crc = [i \in 1..(r.last - r.first + 1) |-> r.first + i - 1]
    /\ healthy => /\ {<<r.first, r.last>> : r \in runs} = MaximalRuns(covered(runs))
                  /\ acked \cup cycle.batch \subseteq covered(runs)
    /\ crc # <<>> => healthy /\ crc = [i \in 1..Len(Posts[post]) |-> i]

\* Two articles of one offset do not pass unnoticed: once every article of a file
\* is acknowledged, and a finalize has looked at the file since the last commit,
\* the user has been told, though acks were refused, the rival's row was dropped
\* or kept, and the process restarted between a commit and its report.
DuplicateIsReported ==
    (acked = Seg /\ ~unasked /\ \E a, b \in Seg : a # b /\ off(a) = off(b)) => raised

=============================================================================
