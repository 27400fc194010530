------------------------------ MODULE MCParts ------------------------------
(***************************************************************************)
(* Small instances of the components that meet the rest of the program     *)
(* only through their callers, model-checked in one run.  A behaviour      *)
(* plays one part, chosen at the start; the others stay as they begin.     *)
(***************************************************************************)
EXTENDS FileWriter, AssemblerLife, StallRecovery, Ingest, JobContent, PostQueue,
        TLC

VARIABLES
  part,
  postKind, runs, acked, cycle, latch, raised, unasked, crc, lives

NotPlayed == "not played"

\* Two articles claim the first offset, a third follows them, a fourth lies
\* outside the declared size.
FourArticles == {"a1", "a2", "b1", "c1"}
CollidingAndStray == [a \in FourArticles |-> IF a \in {"b1", "c1"} THEN 2 ELSE 1]

\* A data file of two articles and a recovery volume.
A(f, b) == [file |-> f, bytes |-> b]
MCArticles == <<A("data", 1), A("data", 2), A("vol", 4)>>

\* A well-formed post, one with two articles at its start, one with an article
\* posted twice, and one whose articles carry no offsets.
S(o, l) == [off |-> o, len |-> l]
MCPosts ==
  [good  |-> <<S(0, 2), S(2, 1), S(3, 2), S(5, 1), S(6, 1)>>,
   first |-> <<S(0, 1), S(1, 1), S(0, 2), S(2, 2)>>,
   twin  |-> <<S(0, 2), S(2, 1), S(2, 1), S(3, 1)>>,
   uu    |-> <<S(0, 1), S(0, 3), S(0, 2)>>]

\* Two files of one article.
MCFileOf == 1 :> "f" @@ 2 :> "g"

\* An archive of two NZBs, and an upload that shares a name with one of them.
N(x, f, b) == [nzb |-> x, file |-> f, base |-> b]
MCDropped == "zip" :> <<N("n1", "zip1", "a"), N("n2", "zip2", "b")>>
MCUpload == N("n3", "up", "a")

Store == INSTANCE RunStore WITH
  Posts <- MCPosts, MaxLives <- 2, post <- postKind
-----------------------------------------------------------------------------
runsVars == <<postKind, runs, acked, cycle, latch, raised, unasked, crc, lives>>

runsRest ==
  /\ postKind = NotPlayed /\ runs = NotPlayed /\ acked = NotPlayed
  /\ latch = NotPlayed /\ raised = NotPlayed /\ crc = NotPlayed
  /\ lives = NotPlayed /\ cycle = NotPlayed /\ unasked = NotPlayed

MCInit ==
  /\ part \in {"writer", "content", "runs", "life", "stall", "ingest",
              "post"}
  /\ Init /\ LifeInit /\ StallInit /\ IngestInit /\ PostInit /\ ContentInit
  /\ IF part = "runs" THEN Store!RunInit ELSE runsRest

MCNext ==
  /\ UNCHANGED part
  /\ IF part = "writer" THEN Next ELSE UNCHANGED vars
  /\ IF part = "life" THEN LifeNext ELSE UNCHANGED lifeVars
  /\ IF part = "stall" THEN StallNext ELSE UNCHANGED stallVars
  /\ IF part = "ingest" THEN IngestNext ELSE UNCHANGED ingestVars
  /\ IF part = "post" THEN PostNext ELSE UNCHANGED postVars
  /\ IF part = "content" THEN ContentNext ELSE UNCHANGED contentVars
  /\ IF part = "runs" THEN Store!RunNext ELSE UNCHANGED runsVars

allVars ==
  <<part, vars, lifeVars, stallVars, ingestVars, postVars, contentVars, runsVars>>

MCSpec == MCInit /\ [][MCNext]_allVars
-----------------------------------------------------------------------------
\* RunStore: a row of durable_runs is its articles end to end, maximal in a
\* well-formed post, and a published CRC is that of a whole one.
RowsAreRuns == part = "runs" => Store!RowsAreRuns

\* RunStore: two articles of one offset are reported to the user by the time a
\* finalize has looked at the whole file.
DuplicateIsReported == part = "runs" => Store!DuplicateIsReported
=============================================================================
