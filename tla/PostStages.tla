------------------------------ MODULE PostStages ------------------------------
(***************************************************************************)
(* One job's walk through the post-processing stages (internal/postproc):  *)
(* what each stage does to the files of the job's directory, and the flags *)
(* by which the stages gate each other, since an error never stops the     *)
(* walk.  The stages start over after a crash, on whatever the interrupted *)
(* walk has left on disk.  par2, the extractors, the user's script and the *)
(* file system's faults are external.                                      *)
(***************************************************************************)
EXTENDS Integers, Sequences, FiniteSets

CONSTANTS
    Configs,     \* records [pp, quick, join, clean, junk, folder] the job may be processed under
    MaxUpsets    \* bound on crashes, tool failures and failed moves

\* Two archives, each with its par2 set: RAR volumes, and split parts that are joined.
\* config.junk holds the files that match the sample pattern or an unwanted
\* extension; the two cleanups that look for them are off when it is empty.
Arc == {"rar", "split"}
Vol(a) == <<a, "vol">>
Par(a) == <<a, "par2">>
Out(a) == <<a, "out">>
Sample == <<"own", "sample">>
Alien == <<"alien", "sample">>    \* put there by somebody else
File == {Vol(a) : a \in Arc} \cup {Par(a) : a \in Arc} \cup {Out(a) : a \in Arc} \cup {Sample, Alien}

VARIABLES
    config,
    place,      \* File -> "none" (never written) | "dl" | "failed" | "unpack" | "final" | "gone"
    content,    \* what Out(a) holds: "none" | "part" | "bad" (joined from damaged parts) | "whole"
    damaged,    \* archives whose volumes do not match their par2 set
    short,      \* archives of which some volumes have been deleted
    fixable,    \* archives whose par2 set holds enough blocks
    hidden,     \* archives that unpack.Scan does not recognise by name
    verdicts,   \* __verified__: Arc -> "none" | "ok" | "bad"
    walk,       \* postproc.Job and the stage it is in
    filed,      \* the history entry: "none" | "Completed" | "Failed"
    cut,        \* history: archives of which an extraction was cut off and left a part of a file
    unseen,     \* history: archives whose par2 set a repair has passed over without looking
    postUpsets

stageVars == <<config, place, content, damaged, short, fixable, hidden, verdicts, walk, filed,
               cut, unseen, postUpsets>>
inputs == <<config, fixable>>
kept == <<content, short, cut>>

Stages == <<"quickcheck", "repair", "rar_volume_recovery", "unpack", "sample_cleanup", "par2_cleanup",
            "extension_cleanup", "finalize", "cleanup", "script">>

\* A postproc.Job as enqueuePostProc builds it: du is what Direct Unpack extracted;
\* met says that the walk began with Alien in the directory (a history variable).
Fresh(du) == [stage |-> "queued", parError |-> FALSE, unpackError |-> FALSE, failMsg |-> FALSE,
              quick |-> "NotRun", owned |-> {}, todo |-> {}, ready |-> {}, du |-> du,
              met |-> FALSE]

inDir == {f \in File : place[f] = "dl"}
here(fs) == {f \in fs : place[f] = "dl"}
moved(fs, where) == [f \in File |-> IF f \in fs THEN where ELSE place[f]]
failedJob == walk.parError \/ walk.unpackError \/ walk.failMsg

\* The stage after s; the walk ends after the last one.
after(s) ==
    LET i == CHOOSE i \in DOMAIN Stages : Stages[i] = s
    IN  IF i = Len(Stages) THEN "done" ELSE Stages[i + 1]

StagesInit ==
    /\ config \in Configs
    /\ damaged \in SUBSET Arc /\ fixable \in SUBSET Arc /\ hidden \in SUBSET {"rar"}
    /\ \E du \in SUBSET ({"rar"} \ (damaged \cup hidden)) :
         /\ walk = Fresh(du)
         /\ place = [f \in File |-> CASE f = Alien -> "none"
                                      [] \E a \in Arc : f = Out(a) /\ a \notin du -> "none"
                                      [] OTHER -> "dl"]
         /\ content = [a \in Arc |-> IF a \in du THEN "whole" ELSE "none"]
    /\ short = {} /\ cut = {} /\ unseen = {}
    /\ verdicts = [a \in Arc |-> "none"]
    /\ filed = "none" /\ postUpsets = 0

upset == postUpsets < MaxUpsets /\ postUpsets' = postUpsets + 1
in(s) == walk.stage = s
leaves(w) == [w EXCEPT !.stage = after(walk.stage)]

-----------------------------------------------------------------------------
\* processJob: a job that failed before, or has nothing on disk, skips the stages.
Begin ==
    /\ in("queued")
    /\ walk' = IF inDir = {} THEN [walk EXCEPT !.failMsg = TRUE, !.stage = "done"]
               ELSE [walk EXCEPT !.owned = inDir, !.met = Alien \in inDir, !.stage = Stages[1]]
    /\ UNCHANGED <<inputs, kept, place, damaged, hidden, verdicts, filed, unseen, postUpsets>>

\* shouldSkipForPP, and the stages switched off by configuration.
skipped(s) ==
    \/ s \in {"quickcheck", "repair"} /\ config.pp < 1
    \/ s = "unpack" /\ config.pp < 2
    \/ s = "quickcheck" /\ ~config.quick
    \/ s \in {"sample_cleanup", "extension_cleanup"} /\ config.junk = {}
    \/ s = "par2_cleanup" /\ ~config.clean

Skip ==
    /\ skipped(walk.stage)
    /\ walk' = leaves(walk)
    /\ UNCHANGED <<inputs, kept, place, damaged, hidden, verdicts, filed, unseen, postUpsets>>

Entering(s) == in(s) /\ ~skipped(s)

sets == {a \in Arc : place[Par(a)] = "dl"}
intact(a) == place[Vol(a)] = "dl" /\ a \notin damaged \cup short

\* recordVerdict: clean only if every set is.
recordVerdict == IF sets = {} THEN "NotRun" ELSE IF \A a \in sets : intact(a) THEN "Clean" ELSE "Damaged"

\* A scan or an assessment that fails is inconclusive: repair then runs.
QuickCheck ==
    /\ Entering("quickcheck")
    /\ \/ walk' = leaves([walk EXCEPT !.quick = recordVerdict]) /\ UNCHANGED postUpsets
       \/ upset /\ walk' = leaves([walk EXCEPT !.quick = "Inconclusive"])
    /\ UNCHANGED <<inputs, kept, place, damaged, hidden, verdicts, filed, unseen>>

\* The sets that have a verdict, and no others, are asked.
AllVerified == (\E a \in Arc : verdicts[a] # "none") /\ \A a \in Arc : verdicts[a] # "bad"

\* Of two archives Direct Unpack knows only the RAR set, so it is clean when that
\* one was extracted.
directUnpackClean == walk.quick = "NotRun" /\ walk.du # {}

\* RepairStage.Run, up to its loop over the sets; a directory that cannot be read
\* is a par2 error.
Repair ==
    /\ Entering("repair")
    /\ \/ /\ directUnpackClean \/ (walk.quick # "Clean" /\ AllVerified)
          /\ walk' = leaves(walk)
          /\ unseen' = unseen \cup {a \in sets : verdicts[a] # "ok"}
          /\ UNCHANGED postUpsets
       \/ walk.quick = "Clean" /\ walk' = leaves(walk) /\ UNCHANGED <<unseen, postUpsets>>
       \/ /\ ~directUnpackClean /\ walk.quick # "Clean" /\ ~AllVerified
          /\ walk' = [walk EXCEPT !.stage = "sets", !.todo = sets]
          /\ UNCHANGED <<unseen, postUpsets>>
       \/ /\ ~directUnpackClean /\ walk.quick # "Clean" /\ upset
          /\ walk' = leaves([walk EXCEPT !.parError = TRUE])
          /\ UNCHANGED unseen
    /\ UNCHANGED <<inputs, kept, place, damaged, hidden, verdicts, filed>>

\* dispatchRepairTool, the native tool or the external one: the files verify, or
\* the set holds enough blocks.
repairable(a) == place[Vol(a)] = "dl" /\ (a \in damaged \cup short => a \in fixable)

handleRepairResult(a, ok) ==
    /\ damaged' = IF ok THEN damaged \ {a} ELSE damaged
    /\ short' = IF ok THEN short \ {a} ELSE short
    /\ verdicts' = [verdicts EXCEPT ![a] = IF ok THEN "ok" ELSE "bad"]
    /\ walk' = [walk EXCEPT !.todo = @ \ {a}, !.parError = @ \/ ~ok]

\* processPar2Set: the verdict is on disk before the next set.
RepairSet(a) ==
    /\ in("sets") /\ a \in walk.todo
    /\ \/ /\ verdicts[a] = "ok"
          /\ walk' = [walk EXCEPT !.todo = @ \ {a}] /\ UNCHANGED <<damaged, short, verdicts, postUpsets>>
       \/ verdicts[a] # "ok" /\ repairable(a) /\ handleRepairResult(a, TRUE) /\ UNCHANGED postUpsets
       \/ /\ verdicts[a] # "ok" /\ (IF repairable(a) THEN upset ELSE UNCHANGED postUpsets)
          /\ handleRepairResult(a, FALSE)
    /\ UNCHANGED <<inputs, place, content, hidden, filed, cut, unseen>>

Repaired ==
    /\ in("sets") /\ walk.todo = {}
    /\ walk' = [walk EXCEPT !.stage = after("repair")]
    /\ UNCHANGED <<inputs, kept, place, damaged, hidden, verdicts, filed, unseen, postUpsets>>

\* unpack.Scan.
visible == {a \in Arc \ hidden : place[Vol(a)] = "dl"}

\* Only when no archive is recognised by name are RAR headers consulted.
RarVolumeRecovery ==
    /\ Entering("rar_volume_recovery")
    /\ hidden' = IF visible = {} THEN {} ELSE hidden
    /\ walk' = leaves(walk)
    /\ UNCHANGED <<inputs, kept, place, damaged, verdicts, filed, unseen, postUpsets>>

\* UnpackStage.Run: what Direct Unpack extracted counts as done; a directory that
\* cannot be scanned is an unpack error.
Unpack ==
    /\ Entering("unpack")
    /\ LET adopted == walk.owned \cup {Out(a) : a \in walk.du}
       IN  \/ walk.parError /\ walk' = leaves(walk) /\ UNCHANGED postUpsets
           \/ /\ ~walk.parError
              /\ walk' = [walk EXCEPT !.stage = "extract", !.todo = visible \ walk.du, !.ready = walk.du,
                                      !.owned = adopted]
              /\ UNCHANGED postUpsets
           \/ ~walk.parError /\ upset /\ walk' = leaves([walk EXCEPT !.owned = adopted, !.unpackError = TRUE])
    /\ UNCHANGED <<inputs, kept, place, damaged, hidden, verdicts, filed, unseen>>

\* Mutant of extracts: a failed archive is counted with the good ones.
extractsAll(a) == [walk EXCEPT !.stage = "extract", !.todo = @ \ {a}, !.ready = @ \cup {a}, !.unpackError = TRUE]
\* recordUnpackFailure.
extracts(a) == [walk EXCEPT !.stage = "extract", !.todo = @ \ {a}, !.unpackError = TRUE]

\* extractPendingArchives: what returned no error counts as extracted.
counts(a, files) == [walk EXCEPT !.stage = "extract", !.todo = @ \ {a}, !.ready = @ \cup {a}, !.owned = @ \cup files]

\* extractArchive of a join that is disabled: no error and no output.  (A tar
\* that is disabled goes the same way.)
joinDisabled(a) == a = "split" /\ ~config.join

\* Split parts are joined before RAR volumes are extracted.
turnOf(a) == a \in walk.todo /\ (a = "rar" => "split" \notin walk.todo)

\* An archive's turn.  FileJoin takes an output that exists as its own work; so do
\* the RAR extractors, unless they overwrite or rename.  A set that lacks volumes
\* fails at once.  An external unrar and a join write in place, the native
\* extractor into a temporary file.
Extract(a) ==
    /\ in("extract") /\ turnOf(a)
    /\ \/ joinDisabled(a) /\ walk' = counts(a, {}) /\ UNCHANGED <<place, content>>
       \/ /\ ~joinDisabled(a) /\ a \notin short /\ place[Out(a)] = "dl"
          /\ walk' = counts(a, {Out(a)}) /\ UNCHANGED <<place, content>>
       \/ ~joinDisabled(a) /\ a \in short /\ walk' = extracts(a) /\ UNCHANGED <<place, content>>
       \/ /\ ~joinDisabled(a) /\ a \notin short /\ (a = "split" => place[Out(a)] # "dl")
          /\ walk' = [walk EXCEPT !.stage = "write"]
          /\ \/ place' = moved({Out(a)}, "dl") /\ content' = [content EXCEPT ![a] = "part"]
             \/ a = "rar" /\ UNCHANGED <<place, content>>
    /\ UNCHANGED <<inputs, damaged, short, hidden, verdicts, filed, cut, unseen, postUpsets>>

\* FileJoin only asks that the parts are numbered without a gap: damaged ones are
\* joined like good ones.  A RAR extractor finds the damage.
extractWithDriver(a) ==
    /\ a \in damaged => a = "split"
    /\ place' = moved({Out(a)}, "dl")
    /\ content' = [content EXCEPT ![a] = IF a \in damaged THEN "bad" ELSE "whole"]
    /\ walk' = counts(a, {Out(a)})
    /\ UNCHANGED <<cut, postUpsets>>

\* The part that was written is removed; a RAR tool may also leave it there.
extractFails(a) ==
    /\ IF a = "rar" /\ a \in damaged THEN UNCHANGED postUpsets ELSE upset
    /\ walk' = extracts(a)
    /\ \/ content[a] = "part" /\ place' = moved({Out(a)}, "none") /\ content' = [content EXCEPT ![a] = "none"]
          /\ UNCHANGED cut
       \/ content[a] = "part" /\ a = "rar" /\ cut' = cut \cup {a} /\ UNCHANGED <<place, content>>
       \/ content[a] # "part" /\ UNCHANGED <<place, content, cut>>

Extracted(a) ==
    /\ in("write") /\ turnOf(a)
    /\ extractWithDriver(a) \/ extractFails(a)
    /\ UNCHANGED <<inputs, damaged, short, hidden, verdicts, filed, unseen>>

\* cleanupArchives: the volumes of every archive that counts as extracted, one
\* archive after the other.
CleanupArchives ==
    /\ in("extract") /\ walk.todo = {}
    /\ walk' = [walk EXCEPT !.stage = "delete", !.todo = IF config.clean THEN walk.ready ELSE {}]
    /\ UNCHANGED <<inputs, kept, place, damaged, hidden, verdicts, filed, unseen, postUpsets>>

DeleteVolumes(a) ==
    /\ in("delete") /\ a \in walk.todo
    /\ place' = moved(here({Vol(a)}), "gone")
    /\ walk' = [walk EXCEPT !.todo = @ \ {a}]
    /\ UNCHANGED <<inputs, kept, damaged, hidden, verdicts, filed, unseen, postUpsets>>

Unpacked ==
    /\ in("delete") /\ walk.todo = {}
    /\ walk' = [walk EXCEPT !.stage = after("unpack")]
    /\ UNCHANGED <<inputs, kept, place, damaged, hidden, verdicts, filed, unseen, postUpsets>>

\* The name decides, whatever the file holds and whether or not unpacking failed.
junk == here(config.junk)
\* Cleanup is restricted to OwnedFiles.
mine(fs) == fs \cap walk.owned

\* A directory that holds nothing but samples is left alone.
SampleCleanup ==
    /\ Entering("sample_cleanup")
    /\ place' = IF junk = inDir THEN place ELSE moved(mine(junk), "gone")
    /\ walk' = leaves(walk)
    /\ UNCHANGED <<inputs, kept, damaged, hidden, verdicts, filed, unseen, postUpsets>>

\* Mutant of keepsPar2: only the repair is asked.
keepsPar2AfterRepair == walk.parError
keepsPar2 == walk.parError \/ walk.unpackError

Par2Cleanup ==
    /\ Entering("par2_cleanup")
    /\ place' = IF keepsPar2 THEN place ELSE moved(here({Par(a) : a \in Arc}), "gone")
    /\ walk' = leaves(walk)
    /\ UNCHANGED <<inputs, kept, damaged, hidden, verdicts, filed, unseen, postUpsets>>

ExtensionCleanup ==
    /\ Entering("extension_cleanup")
    /\ place' = moved(mine(junk), "gone")
    /\ walk' = leaves(walk)
    /\ UNCHANGED <<inputs, kept, damaged, hidden, verdicts, filed, unseen, postUpsets>>

dest == IF config.folder THEN "unpack" ELSE "final"

\* A failed job stays where it is, under _FAILED_ if so configured.
handleFailure ==
    /\ place' = IF config.folder THEN moved(inDir, "failed") ELSE place
    /\ walk' = leaves(walk)

\* One rename, or file by file without an error.
moveToDest ==
    /\ place' = moved(inDir, dest)
    /\ walk' = IF config.folder THEN [walk EXCEPT !.stage = "strip"] ELSE leaves(walk)

\* Some files stay behind, or all of them.  The stage's error fails nothing.
moveFails ==
    /\ \E part \in {{}, {Out(a) : a \in Arc}} : place' = moved(here(part), dest)
    /\ walk' = leaves(walk)

Finalize ==
    /\ Entering("finalize")
    /\ \/ failedJob /\ handleFailure /\ UNCHANGED postUpsets
       \/ ~failedJob /\ moveToDest /\ UNCHANGED postUpsets
       \/ ~failedJob /\ upset /\ moveFails
    /\ UNCHANGED <<inputs, kept, damaged, hidden, verdicts, filed, unseen>>

\* The _UNPACK_ prefix is stripped by a rename of its own.
StripPrefix ==
    /\ in("strip")
    /\ \/ place' = [f \in File |-> IF place[f] = "unpack" THEN "final" ELSE place[f]] /\ UNCHANGED postUpsets
       \/ upset /\ UNCHANGED place
    /\ walk' = [walk EXCEPT !.stage = after("finalize")]
    /\ UNCHANGED <<inputs, kept, damaged, hidden, verdicts, filed, unseen>>

\* CleanupStage: the admin directory, with the verdicts in it.
Cleanup ==
    /\ Entering("cleanup")
    /\ verdicts' = IF failedJob THEN verdicts ELSE [a \in Arc |-> "none"]
    /\ walk' = leaves(walk)
    /\ UNCHANGED <<inputs, kept, place, damaged, hidden, filed, unseen, postUpsets>>

\* The script runs for failed jobs too, and may fail the job itself.
Script ==
    /\ Entering("script")
    /\ \/ walk' = leaves(walk) /\ UNCHANGED postUpsets
       \/ upset /\ walk' = leaves([walk EXCEPT !.failMsg = TRUE])
    /\ UNCHANGED <<inputs, kept, place, damaged, hidden, verdicts, filed, unseen>>

\* buildHistoryEntry.
FileJob ==
    /\ in("done") /\ filed = "none"
    /\ filed' = IF failedJob THEN "Failed" ELSE "Completed"
    /\ UNCHANGED <<inputs, kept, place, damaged, hidden, verdicts, walk, unseen, postUpsets>>

\* The process dies, or a stop aborts the walk: it starts over, and Direct
\* Unpack's results died with the process.  A file that is being written stays as
\* it is, except that a stop lets a join remove its output; a deletion stops
\* between two volumes.
Interrupted ==
    /\ walk.stage # "queued" /\ filed = "none" /\ upset
    /\ walk' = Fresh({})
    /\ \/ cut' = cut \cup {a \in Arc : content[a] = "part"} /\ UNCHANGED <<place, content>>
       \/ /\ in("write") /\ turnOf("split")
          /\ place' = moved({Out("split")}, "none") /\ content' = [content EXCEPT !["split"] = "none"]
          /\ UNCHANGED cut
    /\ \/ UNCHANGED short
       \/ in("delete") /\ \E a \in walk.todo : place[Vol(a)] = "dl" /\ short' = short \cup {a}
    /\ UNCHANGED <<inputs, damaged, hidden, verdicts, filed, unseen>>

AlienArrives ==
    /\ place[Alien] = "none" /\ inDir # {} /\ walk.stage # "queued"
    /\ place' = moved({Alien}, "dl")
    /\ UNCHANGED <<inputs, kept, damaged, hidden, verdicts, walk, filed, unseen, postUpsets>>

StagesNext ==
    \/ Begin \/ Skip \/ QuickCheck \/ Repair \/ (\E a \in Arc : RepairSet(a)) \/ Repaired
    \/ RarVolumeRecovery \/ Unpack \/ (\E a \in Arc : Extract(a) \/ Extracted(a))
    \/ CleanupArchives \/ (\E a \in Arc : DeleteVolumes(a)) \/ Unpacked
    \/ SampleCleanup \/ Par2Cleanup \/ ExtensionCleanup \/ Finalize \/ StripPrefix
    \/ Cleanup \/ Script \/ FileJob \/ Interrupted \/ AlienArrives

-----------------------------------------------------------------------------
\* The levels of processing that leave the archives as they are.
asIs(c) == c.pp < 1 \/ c.pp < 2

onDisk(f) == place[f] \notin {"none", "gone"}

\* What the stages owe the user: not the archives that they are told to skip, or
\* whose files carry a name they are told to delete, nor one whose extraction was
\* cut off and has left a part of a file, which the next walk takes for the whole.
owed ==
    {a \in Arc \ cut : ~joinDisabled(a) /\ {Vol(a), Par(a), Out(a)} \cap config.junk = {}}

volumesKept(a) == onDisk(Vol(a)) /\ a \notin short
outputKept(a) == onDisk(Out(a)) /\ content[a] \in {"bad", "whole"}

\* Whatever fails, crashes or starts over, the payload of an archive stays on
\* disk: its volumes are deleted only once their content has been extracted to the
\* end, and nothing deletes the content.
PayloadKept == \A a \in owed : volumesKept(a) \/ outputKept(a)

\* What a step owes the par2 sets that are still needed.
keepsNeededPar2 ==
    \A a \in owed : place[Par(a)] # "gone" /\ place'[Par(a)] = "gone" =>
        \/ onDisk(Out(a)) /\ content[a] = "whole"
        \/ a \in hidden \/ a \in unseen \/ asIs(config)

\* A par2 set is deleted only when its archive no longer needs it: the content,
\* extracted from sound volumes, is on disk, in this walk or from one that was
\* interrupted.  Excepted are an archive nobody recognised, the levels that do not
\* unpack, and a set that a repair passed over without looking.
Par2OutlivesNeed == [][keepsNeededPar2]_stageVars

\* An output that already exists is the work of a join that completed, and only
\* its sources were left to clean up (unpack/filejoin.go:72): volumes are not
\* deleted for a part of a file.
CutJoinKeepsParts ==
    place[Vol("split")] = "gone" => joinDisabled("split") \/ content["split"] # "part"

\* The verdicts on disk let a restart skip the sets that are verified, and those
\* only (verified.go:16, 50): after a repair, no damaged parts are joined.
VerifiedIsSound == filed = "Completed" => content["split"] # "bad"

\* A configuration that skips split archives leaves them alone.
SkippedIsKept == \A a \in Arc : onDisk(Vol(a)) \/ onDisk(Out(a))

\* Somebody else's file in the job's directory outlives the cleanup stages, unless
\* it was there when the walk began: a walk that starts over adopts what it finds.
AlienSurvives == [][place'[Alien] = "gone" => place[Alien] = "gone" \/ walk.met]_stageVars

StagesSpec == StagesInit /\ [][StagesNext]_stageVars

-----------------------------------------------------------------------------
(* The invariants behind PayloadKept and Par2OutlivesNeed.                   *)

isWalk(w) ==
    w = [stage |-> w.stage, parError |-> w.parError, unpackError |-> w.unpackError, failMsg |-> w.failMsg,
         quick |-> w.quick, owned |-> w.owned, todo |-> w.todo, ready |-> w.ready, du |-> w.du, met |-> w.met]

\* What counts as extracted, here or by Direct Unpack, has its content on disk,
\* and no output is there without content.
ExtractedIsKept ==
    /\ walk.du \subseteq Arc /\ walk.ready \subseteq Arc /\ walk.todo \subseteq Arc
    /\ \A a \in owed \cap (walk.du \cup walk.ready) : outputKept(a)
    /\ \A a \in owed : onDisk(Out(a)) => content[a] \in {"part", "bad", "whole"}

\* Half a file is the one that is being written.
PartIsWritten == \A a \in owed : content[a] = "part" => in("write") /\ turnOf(a)

\* What is still to be extracted is there, and what is to be deleted was extracted.
TodoIsThere ==
    /\ walk.stage \in {"extract", "write"} =>
         \A a \in walk.todo : place[Vol(a)] = "dl" /\ a \notin walk.du \cup walk.ready
    /\ in("write") => \A a \in walk.todo : turnOf(a) => a \notin short
    /\ in("delete") => walk.todo \subseteq walk.ready

\* A par2 set and its volumes move together: as long as the set is in the
\* directory, the volumes are there too or were deleted.
ParNeedsVolume == \A a \in owed : place[Par(a)] = "dl" => place[Vol(a)] \in {"dl", "gone"}

\* Every archive that unpacking sees is to be extracted, extracted or an error;
\* the par2 cleanup finds an error or the content of each set it can delete.
SeenIsUnpacked ==
    /\ walk.stage \in {"extract", "write"} =>
         \A a \in visible \cap owed : a \in walk.todo \cup walk.ready \/ walk.unpackError
    /\ walk.stage \in {"delete", "sample_cleanup", "par2_cleanup"} =>
         \A a \in owed : place[Par(a)] = "dl" =>
             walk.parError \/ walk.unpackError \/ outputKept(a) \/ a \in hidden \/ asIs(config)

KeepInv ==
    /\ place = [f \in File |-> place[f]] /\ content = [a \in Arc |-> content[a]]
    /\ isWalk(walk)
    /\ ExtractedIsKept
    /\ PartIsWritten
    /\ TodoIsThere
    /\ ParNeedsVolume
    /\ SeenIsUnpacked
    /\ PayloadKept

\* Damage is repaired, an error, or was passed over: what is joined from damaged
\* parts belongs to a set that no repair of the walk has looked at.
DamageIsSeen ==
    /\ \A a \in Arc : verdicts[a] = "ok" => a \notin damaged
    /\ walk.stage \in {"queued", "quickcheck"} => walk.quick = "NotRun"
    /\ in("repair") /\ walk.quick = "Clean" => \A a \in sets : a \notin damaged
    /\ in("sets") => \A a \in sets \cap damaged : a \in walk.todo \/ walk.parError
    /\ walk.stage \in {"rar_volume_recovery", "unpack", "extract", "write"} =>
         \A a \in sets \cap damaged : a \in unseen \/ walk.parError \/ asIs(config)
    /\ walk.stage \in {"extract", "write"} => ~walk.parError
    /\ \A a \in sets : content[a] = "bad" => a \in unseen \/ asIs(config)

SightInv ==
    /\ isWalk(walk) /\ content = [a \in Arc |-> content[a]] /\ verdicts = [a \in Arc |-> verdicts[a]]
    /\ DamageIsSeen

StagesIInv == KeepInv /\ SightInv
=============================================================================
