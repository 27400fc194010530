---------------------------- MODULE DurabilityInv ----------------------------
(***************************************************************************)
(* The inductive invariant behind Durability's safety properties.  It is   *)
(* an invariant of the model-checking runs and the subject of the proofs.  *)
(***************************************************************************)
EXTENDS Durability

\* The open file, and the platter, hold all of a's bytes.
InPage(a) == /\ Holds(page, a)
             /\ End[a] <= size[FileOf[a]][name[FileOf[a]]]
InPlate(a) == /\ Holds(plate, a)
              /\ End[a] <= psize[FileOf[a]][name[FileOf[a]]]

\* Outside a running process nothing is cached and nobody is at work.
DownIsQuiet ==
  phase # "up" =>
    /\ page = plate /\ size = psize
    /\ open = {} /\ buf = {} /\ written = {} /\ reported = {} /\ fatalq = {}
    /\ bpc = "idle" /\ late = NoOp
    /\ total = [f \in File |-> 0]
    /\ fin = [f \in File |-> "none"]
    /\ phase = "down" => swept = {}

\* A saved filename is the filename in use, and work on a file has a name.
NamesAgree ==
  /\ \A f \in File : dbname[f] # 0 => name[f] = dbname[f]
  /\ phase \in {"down", "sweep"} => name = dbname
  /\ \A f \in File : f \in open \cup swept \/ total[f] # 0 => name[f] # 0
  /\ \A a \in fatalq : name[FileOf[a]] # 0

\* What a writer reports, or will report, is in the file it holds open.
WriterHoldsPages ==
  /\ \A a \in buf \cup written \cup reported : FileOf[a] \in open
  /\ \A a \in written \cup reported : InPage(a)

\* A recorded article is on the platter of a running process; of a process
\* that is down, the same follows from the file's length.
Vouched(f) == \/ phase \in {"up", "strand"}
              \/ phase = "sweep" /\ f \in swept

RunsAreOnPlatter ==
  \A a \in runs :
    FileOf[a] \notin unchecked =>
      /\ Vouched(FileOf[a]) => InPage(a) /\ InPlate(a)
      /\ phase \in {"down", "sweep"} =>
           LET f == FileOf[a]
           IN name[f] # 0 /\ End[a] <= size[f][name[f]] => a \in page[name[f]]

\* What a barrier has drained is in the file, once synced on the platter,
\* once committed in the record.
Synced(f) ==
  \/ bpc \in {"truncate", "sync2", "stat", "commit", "ack", "confirm"}
  \/ bpc = "sync" /\ f \notin btodo

BarrierInOrder ==
  /\ bpc = "idle" => bfin = NoFile /\ bgot = {}
  /\ \A a \in bgot : /\ FileOf[a] \in bfiles
                     /\ InPage(a)
                     /\ Synced(FileOf[a]) => InPlate(a)
  /\ bpc \in {"ack", "confirm"} => bgot \subseteq runs

\* A finalize works on a tombstoned file of which nothing is buffered after
\* the drain, and everything written is in the drain's report.
FinalizeIsAlone ==
  /\ \A f \in File : fin[f] # "none" => f \in tomb
  /\ bfin # NoFile =>
       /\ bfin \in tomb /\ btodo \cup bfiles \subseteq {bfin}
       /\ bpc # "drain" \/ btodo = {} =>
            Of(buf \cup written, bfin) = {} /\ Of(reported, bfin) \subseteq bgot
  /\ bpc \in {"truncate", "sync2"} => bfin # NoFile

\* An abandoned truncate still cuts beyond everything relied on when it runs.
LateCutIsSafe ==
  late.op = "truncate" =>
    /\ Idle /\ late.file \in tomb
    /\ Of(buf, late.file) = {}
    /\ \A a \in Of(written \cup reported \cup runs, late.file) :
         End[a] <= late.bound

\* Done without Failed is recorded; during the sweep, or about to be cleared.
DoneHasRuns ==
  /\ phase \in {"up", "strand"} => done \ failed \subseteq runs
  /\ phase = "sweep" =>
       \A a \in done \ failed : a \in runs \/ FileOf[a] \in swept

IInv ==
  /\ TypeOK
  /\ DownIsQuiet
  /\ NamesAgree
  /\ WriterHoldsPages
  /\ RunsAreOnPlatter
  /\ BarrierInOrder
  /\ FinalizeIsAlone
  /\ LateCutIsSafe
  /\ DoneHasRuns

-----------------------------------------------------------------------------
(* What becomes of every article, while no write fails and no manifest is  *)
(* evicted under a finalize: no part is rolled back then, so the part count *)
(* the worker completes a file on does stand for the file's articles.      *)

NoRollback == "write" \notin FaultKinds /\ "evicted" \notin FaultKinds

Seen == seenDone \cup seenFailed

\* An article is on its way, or accepted, or resolved, and Emitted until it is
\* resolved.
ArticlesInOrder ==
  /\ flight \subseteq emitted /\ flight \cap (done \cup Seen) = {}
  /\ emitted \cap done = {}
  /\ seenDone \subseteq emitted \cup done
  /\ seenFailed \cup fatalq \subseteq done

\* A registered file waits for the parts of all articles but those that were
\* resolved before, and these are counted by nobody.
Awaits(f) ==
  IF total[f] = 0 THEN Of(fatalq \cup Seen, f) = {}
  ELSE \E D \in SUBSET done : /\ total[f] = Cardinality(Arts(f) \ D)
                              /\ D \cap (flight \cup fatalq \cup Seen) = {}

\* A tombstoned file has every article accepted or resolved.
TombIsWhole == \A f \in tomb : Arts(f) \subseteq done \cup seenDone

\* What a writer holds is accepted; what a barrier has drained is all that its
\* files report, and is resolved before it is confirmed, by a late confirm too.
DrainIsWhole ==
  /\ bgot \cup buf \cup written \cup reported \subseteq seenDone
  /\ bpc = "confirm" => bgot \subseteq done
  /\ \A f \in bfiles : Of(reported, f) \subseteq bgot
  /\ bpc # "drain" => btodo \subseteq bfiles
  /\ Idle => bfiles = {}
  /\ late.op = "confirm" => Of(reported, late.file) \subseteq done
  /\ late.op # "none" => late.op \in {"confirm", "close"} \/ Idle
  /\ late.op = "confirm" => bpc \in {"idle", "confirm"}

\* A file whose handle is released, or was, is resolved.
ClosedIsResolved ==
  /\ \A f \in File : fin[f] \in {"close", "rclose", "deliver", "done"} => Arts(f) \subseteq done
  /\ late.op = "close" => Arts(late.file) \subseteq done

\* The record is of accepted or resolved articles.
RunsAreKnown ==
  /\ phase = "up" => runs \subseteq done \cup seenDone
  /\ phase \in {"sweep", "strand"} => runs \subseteq done
  /\ phase # "up" => emitted = {} /\ flight = {} /\ seenDone = {} /\ seenFailed = {} /\ tomb = {}

StrandInv ==
  /\ ArticlesInOrder
  /\ \A f \in File : Awaits(f)
  /\ TombIsWhole
  /\ DrainIsWhole
  /\ ClosedIsResolved
  /\ RunsAreKnown
  /\ NoStrandedArticle

\* Up to the first crash and its start, a saved Complete is of a file that the
\* saved rows resolve.
SavedIsResolved ==
  /\ phase # "up" => crashes > 0
  /\ crashes = 0 \/ phase = "down" =>
       \A f \in dbcomplete : Arts(f) \subseteq runs \cup dbfailed

CompleteInv ==
  /\ \A f \in complete : Arts(f) \subseteq done
  /\ SavedIsResolved

-----------------------------------------------------------------------------
(* What a finalize leaves of a file, under the same conditions *)

Recorded(f) == Of(runs, f)

\* The file ends, on disk and platter, where its last recorded article does.
Trimmed(f) ==
  Recorded(f) # {} => /\ size[f][name[f]] = boundOver(Recorded(f))
                      /\ psize[f][name[f]] = boundOver(Recorded(f))

\* A file that a finalize has been through, in this process or before it.
Over(f) == f \in complete \/ fin[f] \in {"close", "rclose", "deliver", "done"}

\* Nothing more will be written to it, nor recorded of it.
OverIsTrimmed ==
  phase \in {"up", "strand"} =>
    \A f \in File : Over(f) =>
      /\ Of(buf \cup written, f) = {}
      /\ Of(reported \cup bgot, f) \subseteq runs
      /\ f \notin unchecked => Trimmed(f)

\* A Complete file is finalized no more, and a file that will be is open.
FinalizeOnce ==
  /\ \A f \in complete : fin[f] = "none" /\ (f \in tomb \/ total[f] = 0)
  /\ \A f \in File : fin[f] \in {"queued", "running", "pending"} => f \in open
  /\ late.op = "truncate" => fin[late.file] \in {"pending", "dropped"}
  /\ late.op = "close" => late.file \in tomb /\ fin[late.file] \in {"deliver", "done", "none", "dropped"}

\* A finalize past its truncate has cut the file, and past its second fsync
\* the platter, at the end of what it is about to record.
HasCut(f) ==
  \/ bpc \in {"sync2", "stat", "commit", "ack", "confirm"}
  \/ bpc = "truncate" /\ f \notin btodo
HasSynced(f) ==
  \/ bpc \in {"stat", "commit", "ack", "confirm"}
  \/ bpc = "sync2" /\ f \notin btodo

FinalizeCuts ==
  bfin # NoFile =>
    /\ fin[bfin] = "running" /\ bfin \in btodo \cup bfiles
    /\ bpc # "drain" => bfin \in bfiles
    /\ bfin \notin unchecked /\ Recorded(bfin) \cup bgot # {} =>
         /\ HasCut(bfin) => size[bfin][name[bfin]] = Bound(bfin)
         /\ HasSynced(bfin) => psize[bfin][name[bfin]] = Bound(bfin)

\* What the first start finds of a file that was saved Complete is no longer
\* than its record; what the sweep has looked at is no shorter.
SavedIsTrimmed ==
  /\ crashes = 0 => dbcomplete \subseteq complete /\ unchecked = {}
  /\ phase = "down" => \A f \in dbcomplete :
       name[f] # 0 /\ Recorded(f) # {} => size[f][name[f]] <= boundOver(Recorded(f))
  /\ phase = "sweep" => \A f \in complete :
       name[f] # 0 /\ Recorded(f) # {} =>
         /\ size[f][name[f]] <= boundOver(Recorded(f))
         /\ f \in swept => size[f][name[f]] = boundOver(Recorded(f))

TrimInv == OverIsTrimmed /\ FinalizeOnce /\ FinalizeCuts /\ SavedIsTrimmed

=============================================================================
