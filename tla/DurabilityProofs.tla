--------------------------- MODULE DurabilityProofs ---------------------------
(***************************************************************************)
(* Durability's safety properties, proved for every set of files and       *)
(* articles and every bound on faults, crashes and tampering.              *)
(***************************************************************************)
EXTENDS DurabilityInv, FiniteSetTheorems, WellFoundedInduction, TLAPS

-----------------------------------------------------------------------------
(* The operators the model is built from *)

\* A non-empty set of naturals has a least element.
LEMMA LeastElement ==
  ASSUME NEW T \in SUBSET Nat, T # {}
  PROVE  \E m \in T : \A k \in T : m <= k
<1> DEFINE R == {ss \in Nat \X Nat : ss[1] < ss[2]}
<1>1. IsWellFoundedOn(R, Nat)
  BY NatLessThanWellFounded DEF OpToRel
<1> HIDE DEF R
<1>2. PICK x \in T : \A y \in T : <<y, x>> \notin R
  BY <1>1, WFMin
<1>3. \A y \in T : ~(y < x)
  BY <1>2 DEF R
<1> QED BY <1>3

\* boundOver is the highest end over a set of articles, and 0 only for none.
LEMMA BoundAttained ==
  ASSUME NEW S \in SUBSET Article
  PROVE  /\ boundOver(S) \in 0..MaxEnd
         /\ \A a \in S : End[a] <= boundOver(S)
         /\ boundOver(S) = 0 <=> S = {}
         /\ S # {} => \E a \in S : End[a] = boundOver(S)
<1> DEFINE U == {n \in 0..MaxEnd : \A a \in S : End[a] <= n}
           P(n) == /\ \A a \in S : End[a] <= n
                   /\ n = 0 \/ \E a \in S : End[a] = n
<1>1. \A a \in S : End[a] \in 1..MaxEnd
  BY ConstantAssumption
<1>2. MaxEnd \in U
  BY <1>1, ConstantAssumption
<1>3. PICK m \in U : \A k \in U : m <= k
  <2>1. U \in SUBSET Nat
    OBVIOUS
  <2> HIDE DEF U
  <2> QED BY <1>2, <2>1, LeastElement
<1>4. P(m)
  <2>1. SUFFICES ASSUME m # 0, \A a \in S : End[a] # m PROVE FALSE
    OBVIOUS
  <2>2. m - 1 \in U
    BY <1>1, <2>1, ConstantAssumption
  <2> QED BY <1>3, <2>2, ConstantAssumption
<1>5. \E n \in 0..MaxEnd : P(n)
  BY <1>4
<1>6. boundOver(S) \in 0..MaxEnd /\ P(boundOver(S))
  <2> HIDE DEF P
  <2>1. boundOver(S) = CHOOSE n \in 0..MaxEnd : P(n)
    BY DEF boundOver, P
  <2> QED BY <1>5, <2>1
<1> QED BY <1>1, <1>6

\* No article of the set ends beyond it, so a file cut at it keeps them all.
LEMMA BoundOver ==
  ASSUME NEW S \in SUBSET Article
  PROVE  /\ boundOver(S) \in 0..MaxEnd
         /\ \A a \in S : End[a] <= boundOver(S)
BY BoundAttained

\* Writing articles to a file never shortens it and makes room for them all.
LEMMA GrownBound ==
  ASSUME NEW s \in Absent..MaxEnd, NEW S \in SUBSET Article
  PROVE  /\ Grown(s, S) \in Absent..MaxEnd
         /\ s <= Grown(s, S)
         /\ \A a \in S : End[a] <= Grown(s, S)
BY BoundOver, ConstantAssumption DEF Grown, Absent

\* The number of a file's unresolved articles is a natural number.
LEMMA PartCount ==
  ASSUME NEW S \in SUBSET Article
  PROVE  Cardinality(S) \in Nat
BY FS_Subset, FS_CardinalityType, ConstantAssumption

-----------------------------------------------------------------------------
(* Type correctness *)

\* registerFile keeps names and part counts within their types.
LEMMA RegisterType ==
  ASSUME TypeProgress, NEW f \in File, Register(f)
  PROVE  name' \in [File -> {0} \cup Path] /\ total' \in [File -> Nat]
<1>1. Cardinality(Arts(f) \ done) \in Nat
  BY PartCount DEF Arts, Of
<1> QED BY <1>1 DEF Register, TypeProgress

\* An injected fault only moves its counter.
LEMMA FaultType ==
  ASSUME TypeLife, NEW k, Fault(k) \/ UNCHANGED faults
  PROVE  faults' \in Nat
BY DEF TypeLife, Fault

\* The fields of a stall record, one by one.
LEMMA StallFields ==
  ASSUME NEW r \in StallRecord
  PROVE  /\ r.on \in BOOLEAN /\ r.seed \in BOOLEAN
         /\ r.at \in {"idle", "retry", "deliver", "clear"} /\ r.pass \in SUBSET File
         /\ r = [on |-> r.on, seed |-> r.seed, at |-> r.at, pass |-> r.pass]
BY DEF StallRecord

\* Whatever is written to its fields, a stall record stays one.
LEMMA StallUpdate ==
  ASSUME NEW on \in BOOLEAN, NEW seed \in BOOLEAN, NEW pass \in SUBSET File,
         NEW at \in {"idle", "retry", "deliver", "clear"}
  PROVE  [on |-> on, seed |-> seed, at |-> at, pass |-> pass] \in StallRecord
BY DEF StallRecord

\* A failure that is noted leaves a stall record.
LEMMA NoteFailureType ==
  ASSUME TypeLife, noteFailure
  PROVE  stall' \in StallRecord
<1>1. stall \in StallRecord
  BY DEF TypeLife
<1> DEFINE seed == stall.seed \/ (bpc = "ack" /\ bfin = NoFile)
<1>2. seed \in BOOLEAN
  BY Zenon
<1>3. stall' = [on |-> TRUE, seed |-> seed, at |-> stall.at, pass |-> stall.pass]
  BY <1>1, Zenon DEF noteFailure, StallRecord
<1> HIDE DEF seed
<1>4. stall.at \in {"idle", "retry", "deliver", "clear"} /\ stall.pass \in SUBSET File
  BY <1>1, StallFields
<1> QED BY <1>2, <1>3, <1>4, StallUpdate

\* What a step of the stall re-evaluation changes: it resolves recorded runs,
\* delivers a finalized file or drops the files on record.
LEMMA ReevaluatingFrame ==
  ASSUME TypeOK, Reevaluating
  PROVE  /\ Up /\ UNCHANGED <<failed, name, pipe, cache, report, disk, db, barrier, late, life>>
         /\ UNCHANGED <<done, emitted>> \/ (done' = done \cup runs /\ emitted' = emitted \ (runs \ done))
         /\ \A g \in File : \/ fin'[g] = fin[g]
                            \/ fin[g] = "done" /\ fin'[g] = "none" /\ g \in complete'
                            \/ fin[g] \in {"pending", "unread", "lost", "done"} /\ fin'[g] = "dropped"
         /\ complete \subseteq complete'
         /\ \A g \in complete' \ complete : g \in File /\ fin[g] = "done" /\ fin'[g] = "none"
         /\ fin' \in [File -> FinStates]
<1> USE DEF progress, pipe, cache, report, disk, db, barrier, life
<1>0. fin \in [File -> FinStates] /\ "none" \in FinStates /\ "dropped" \in FinStates
  BY DEF TypeOK, TypeBarrier, FinStates
<1>1. CASE Reevaluate
  BY <1>0, <1>1 DEF Reevaluate
<1>2. CASE Blocked
  BY <1>0, <1>2 DEF Blocked
<1>3. CASE seedFromCommittedRuns
  BY <1>0, <1>3 DEF seedFromCommittedRuns
<1>4. ASSUME NEW f \in File, Redeliver(f)
      PROVE  /\ Up /\ UNCHANGED <<failed, name, pipe, cache, report, disk, db, barrier, late, life>>
             /\ UNCHANGED <<done, emitted>> /\ fin[f] = "done"
             /\ \/ complete' = complete \cup {f} /\ fin' = [fin EXCEPT ![f] = "none"]
                \/ UNCHANGED <<complete, fin>>
  BY <1>4 DEF Redeliver
<1>5. CASE clearStall
  BY <1>0, <1>5 DEF clearStall, recorded
<1> QED BY <1>0, <1>1, <1>2, <1>3, <1>4, <1>5 DEF Reevaluating

\* A step of the re-evaluation keeps the stall record a record.
LEMMA ReevaluatingStall ==
  ASSUME TypeOK, Reevaluating
  PROVE  stall' \in StallRecord
<1>1. stall \in StallRecord
  BY DEF TypeOK, TypeLife
<1>2. recorded \in SUBSET File
  BY DEF recorded
<1>3. CASE Reevaluate
  <2>1. stall' = [on |-> stall.on, seed |-> stall.seed, at |-> "retry", pass |-> recorded]
    BY <1>1, <1>3 DEF Reevaluate, StallRecord
  <2> QED BY <1>1, <1>2, <2>1, StallFields, StallUpdate
<1>4. CASE Blocked
  <2>1. stall' = [on |-> stall.on, seed |-> stall.seed, at |-> "idle", pass |-> {}]
    BY <1>1, <1>4 DEF Blocked, StallRecord
  <2> QED BY <1>1, <2>1, StallFields, StallUpdate
<1>5. CASE seedFromCommittedRuns
  <2> DEFINE at == IF stall.pass = {} THEN "clear" ELSE "deliver"
  <2>1. stall' = [on |-> stall.on, seed |-> stall.seed, at |-> at, pass |-> stall.pass]
    BY <1>1, <1>5 DEF seedFromCommittedRuns, StallRecord
  <2>2. at \in {"idle", "retry", "deliver", "clear"}
    OBVIOUS
  <2> HIDE DEF at
  <2> QED BY <1>1, <2>1, <2>2, StallFields, StallUpdate
<1>6. ASSUME NEW f \in File, Redeliver(f) PROVE stall' \in StallRecord
  <2> DEFINE on == stall.on /\ recorded # {f}
             seed == stall.seed /\ recorded # {f}
             pass == stall.pass \ {f}
  <2>1. \/ stall' = [stall EXCEPT !.pass = @ \ {f}, !.on = @ /\ recorded # {f},
                                  !.seed = @ /\ recorded # {f}]
        \/ stall' = [stall EXCEPT !.pass = @ \ {f}]
    BY <1>6, Zenon DEF Redeliver
  <2>2. \/ stall' = [on |-> on, seed |-> seed, at |-> stall.at, pass |-> pass]
        \/ stall' = [on |-> stall.on, seed |-> stall.seed, at |-> stall.at, pass |-> pass]
    BY <1>1, <2>1, Zenon DEF StallRecord
  <2>3. on \in BOOLEAN /\ seed \in BOOLEAN
    BY Zenon
  <2>4. pass \in SUBSET File /\ stall.at \in {"idle", "retry", "deliver", "clear"}
        /\ stall.on \in BOOLEAN /\ stall.seed \in BOOLEAN
    BY <1>1, StallFields
  <2> HIDE DEF on, seed, pass
  <2>5. [on |-> on, seed |-> seed, at |-> stall.at, pass |-> pass] \in StallRecord
    BY <2>3, <2>4, StallUpdate, Zenon
  <2>6. [on |-> stall.on, seed |-> stall.seed, at |-> stall.at, pass |-> pass] \in StallRecord
    BY <2>4, StallUpdate, Zenon
  <2> QED BY <2>2, <2>5, <2>6, Zenon
<1>7. CASE clearStall
  <2>1. \/ stall' = [on |-> stall.on, seed |-> stall.seed, at |-> "idle", pass |-> stall.pass]
        \/ stall' = [on |-> FALSE, seed |-> FALSE, at |-> "idle", pass |-> stall.pass]
    BY <1>1, <1>7 DEF clearStall, StallRecord
  <2>2. stall.pass \in SUBSET File /\ stall.on \in BOOLEAN /\ stall.seed \in BOOLEAN
        /\ FALSE \in BOOLEAN /\ "idle" \in {"idle", "retry", "deliver", "clear"}
    BY <1>1, StallFields
  <2>3. [on |-> stall.on, seed |-> stall.seed, at |-> "idle", pass |-> stall.pass] \in StallRecord
    BY <2>2, StallUpdate, Zenon
  <2>4. [on |-> FALSE, seed |-> FALSE, at |-> "idle", pass |-> stall.pass] \in StallRecord
    BY <2>2, StallUpdate, Zenon
  <2> QED BY <2>1, <2>3, <2>4, Zenon
<1> QED BY <1>3, <1>4, <1>5, <1>6, <1>7 DEF Reevaluating

\* A step of the re-evaluation keeps every variable within its type.
LEMMA ReevaluatingType ==
  ASSUME TypeOK, Reevaluating
  PROVE  TypeOK'
<1> USE DEF progress, pipe, cache, report, disk, db, barrier, life
<1>1. faults' \in Nat
  BY FaultType DEF TypeOK, TypeLife, Reevaluating, Reevaluate, Blocked, seedFromCommittedRuns,
     Redeliver, clearStall
<1>2. dirty' \in BOOLEAN
  BY DEF TypeOK, TypeDatabase, Reevaluating, Reevaluate, Blocked, seedFromCommittedRuns,
     Redeliver, clearStall
<1>3. complete' \subseteq File
  BY DEF TypeOK, TypeProgress, Reevaluating, Reevaluate, Blocked, seedFromCommittedRuns,
     Redeliver, clearStall
<1>4. TypeProgress' /\ TypeWriter' /\ TypeDisk' /\ TypeDatabase'
  BY <1>2, <1>3, ReevaluatingFrame
     DEF TypeOK, TypeProgress, TypeWriter, TypeDisk, TypeDatabase
<1>5. TypeBarrier' /\ TypeLife'
  BY <1>1, ReevaluatingFrame, ReevaluatingStall DEF TypeOK, TypeBarrier, TypeLife
<1> QED BY <1>4, <1>5 DEF TypeOK

\* An aborted barrier leaves barrier and stall record well typed.
LEMMA AbortType ==
  ASSUME TypeBarrier, Abort, UNCHANGED late
  PROVE  TypeBarrier'
BY DEF Abort, Reset, TypeBarrier, Phases, FinStates

\* So does a finalize that returns.
LEMMA FinalizeReturnsType ==
  ASSUME TypeBarrier, FinalizeReturns, UNCHANGED late
  PROVE  TypeBarrier'
BY DEF FinalizeReturns, Reset, TypeBarrier, Phases, FinStates

\* So does a barrier that finds a file closed under it.
LEMMA FileGoneType ==
  ASSUME TypeBarrier, NEW f \in File, FileGone(f), UNCHANGED late
  PROVE  TypeBarrier'
BY FinalizeReturnsType DEF FileGone, TypeBarrier

\* A drain keeps the file and the writer's sets within their types.
LEMMA DrainFileType ==
  ASSUME TypeProgress, TypeWriter, TypeDisk,
         NEW f \in File, NEW ok \in SUBSET Article, DrainFile(f, ok),
         UNCHANGED <<open, tomb, seenFailed, plate, psize>>
  PROVE  TypeWriter' /\ TypeDisk' /\ emitted' \subseteq Article
<1>1. size' \in [File -> [Path -> Absent..MaxEnd]]
  BY GrownBound DEF DrainFile, TypeDisk
<1> QED
  BY <1>1 DEF DrainFile, TypeDisk, TypeWriter, TypeProgress, Of

\* An fsync keeps the platter within its type.
LEMMA SyncFileType ==
  ASSUME TypeDisk, NEW f \in File, SyncFile(f), UNCHANGED <<page, size>>
  PROVE  TypeDisk'
BY DEF SyncFile, TypeDisk, Of

\* A truncate keeps the open file within its type.
LEMMA TruncateFileType ==
  ASSUME TypeDisk, NEW f \in File, NEW n \in 0..MaxEnd, TruncateFile(f, n)
  PROVE  /\ page' \in [Path -> SUBSET Article]
         /\ size' \in [File -> [Path -> Absent..MaxEnd]]
<1>1. n \in Absent..MaxEnd
  BY ConstantAssumption DEF Absent
<1>2. CASE n >= size[f][name[f]]
  BY <1>2 DEF TruncateFile, TypeDisk
<1>3. CASE ~(n >= size[f][name[f]])
  <2>1. size' = [size EXCEPT ![f][name[f]] = n]
    BY <1>3 DEF TruncateFile
  <2>2. size' \in [File -> [Path -> Absent..MaxEnd]]
    BY <1>1, <2>1 DEF TypeDisk
  <2>3. page' \in [Path -> SUBSET Article]
    BY <1>3 DEF TruncateFile, TypeDisk
  <2> QED BY <2>2, <2>3
<1> QED BY <1>2, <1>3

\* Closing a file keeps disk and writer within their types.
LEMMA CloseFileType ==
  ASSUME TypeWriter, TypeDisk, NEW f \in File, NEW synced \in BOOLEAN,
         NEW ok \in SUBSET Article, CloseFile(f, ok, synced),
         UNCHANGED <<tomb, seenDone, seenFailed>>
  PROVE  TypeWriter' /\ TypeDisk'
<1>1. TypeWriter'
  BY DEF CloseFile, TypeWriter
<1>2. page' \in [Path -> SUBSET Article]
  BY DEF CloseFile, TypeDisk, TypeWriter, Of
<1>3. size' \in [File -> [Path -> Absent..MaxEnd]]
  BY GrownBound DEF CloseFile, TypeDisk
<1>4. plate' \in [Path -> SUBSET Article]
  BY <1>2 DEF CloseFile, TypeDisk, Of
<1>5. psize' \in [File -> [Path -> Absent..MaxEnd]]
  <2>1. CASE synced
    <3>1. psize' = [psize EXCEPT ![f][name[f]] = size'[f][name[f]]]
      BY <2>1 DEF CloseFile
    <3> QED BY <1>3, <3>1 DEF TypeDisk
  <2>2. CASE ~synced
    BY <2>2 DEF CloseFile, TypeDisk
  <2> QED BY <2>1, <2>2
<1> QED BY <1>1, <1>2, <1>3, <1>4, <1>5 DEF TypeDisk

\* A handle that is released is closed, or its worker is not reached.
LEMMA ReleaseCloses ==
  ASSUME TypeOK, NEW f \in File, Release(f)
  PROVE  \/ UNCHANGED <<emitted, open, buf, report, disk>>
         \/ f \in open /\ \E ok \in SUBSET Article, synced \in BOOLEAN : CloseFile(f, ok, synced)
<1>1. Of(buf, f) \in SUBSET Article
  BY DEF Of, TypeOK, TypeWriter
<1> QED BY <1>1, Zenon DEF Release

\* Completing a file on its part count keeps the types.
LEMMA CompleteOnType ==
  ASSUME TypeBarrier, TypeWriter, NEW f \in File, NEW sd, NEW sf,
         CompleteOn(f, sd, sf) \/ UNCHANGED <<tomb, fin>>
  PROVE  fin' \in [File -> FinStates] /\ tomb' \subseteq File
<1>1. "queued" \in FinStates
  BY DEF FinStates
<1> QED BY <1>1 DEF CompleteOn, TypeBarrier, TypeWriter

\* An abandoned operation is a well-typed record.
LEMMA LateType ==
  ASSUME TypeBarrier
  PROVE  NoOp \in [op : Phases \cup {"close", "none"},
                   file : File \cup {NoFile}, bound : 0..MaxEnd]
BY ConstantAssumption DEF NoOp, TypeBarrier

\* Every step keeps every variable within its type.
LEMMA TypeStep == TypeOK /\ [Next]_vars => TypeOK'
<1> SUFFICES ASSUME TypeOK, [Next]_vars
             PROVE  TypeOK'
  OBVIOUS
<1> USE ConstantAssumption
<1> USE DEF progress, pipe, cache, report, disk, db, barrier, life
<1>1. ASSUME NEW a \in Article, Emit(a) PROVE TypeOK'
  BY <1>1 DEF Emit, TypeOK, TypeProgress, TypeWriter, TypeDisk, TypeDatabase,
     TypeBarrier, TypeLife
<1>2. ASSUME NEW a \in Article, RetryableFailure(a) PROVE TypeOK'
  BY <1>2 DEF RetryableFailure, Fault, TypeOK, TypeProgress, TypeWriter,
     TypeDisk, TypeDatabase, TypeBarrier, TypeLife
<1>3. ASSUME NEW a \in Article, PermanentFailure(a) PROVE TypeOK'
  <2>1. name' \in [File -> {0} \cup Path] /\ total' \in [File -> Nat]
    BY <1>3, RegisterType DEF PermanentFailure, TypeOK
  <2> QED
    BY <1>3, <2>1 DEF PermanentFailure, Fault, TypeOK, TypeProgress,
       TypeWriter, TypeDisk, TypeDatabase, TypeBarrier, TypeLife
<1>4. ASSUME NEW a \in Article, NEW ok \in SUBSET Article,
             NEW bad \in SUBSET Article, NEW pre \in BOOLEAN,
             AcceptArticle(a, ok, bad, pre)
      PROVE  TypeOK'
  <2>1. name' \in [File -> {0} \cup Path] /\ total' \in [File -> Nat]
    BY <1>4, RegisterType DEF AcceptArticle, TypeOK
  <2>2. fin' \in [File -> FinStates] /\ tomb' \subseteq File
    BY <1>4, CompleteOnType DEF AcceptArticle, TypeOK
  <2>3. page' \in [Path -> SUBSET Article]
    BY <1>4 DEF AcceptArticle, TypeOK, TypeDisk
  <2>4. size' \in [File -> [Path -> Absent..MaxEnd]]
    <3>1. \A p \in Path : Opened(FileOf[a], p, pre) \in Absent..MaxEnd
      BY DEF Opened, TypeOK, TypeDisk, Absent
    <3>2. \A g \in File : Of(ok, g) \in SUBSET Article
      BY DEF Of
    <3>3. \A g \in File, s \in Absent..MaxEnd :
             Grown(s, Of(ok, g)) \in Absent..MaxEnd
      BY <3>2, GrownBound
    <3> QED BY <1>4, <3>1, <3>3 DEF AcceptArticle, TypeOK, TypeDisk
  <2>5. TypeProgress' /\ TypeWriter'
    BY <1>4, <2>1, <2>2 DEF AcceptArticle, TypeOK, TypeProgress, TypeWriter
  <2>6. TypeDisk' /\ TypeDatabase'
    BY <1>4, <2>3, <2>4 DEF AcceptArticle, Newly, TypeOK, TypeDisk, TypeDatabase
  <2>7. TypeBarrier' /\ TypeLife'
    BY <1>4, <2>2 DEF AcceptArticle, Fault, TypeOK, TypeBarrier, TypeLife
  <2> QED BY <2>5, <2>6, <2>7 DEF TypeOK
<1>5. ASSUME NEW a \in Article, OpenFault(a) PROVE TypeOK'
  <2>1. name' \in [File -> {0} \cup Path] /\ total' \in [File -> Nat]
    BY <1>5, RegisterType DEF OpenFault, TypeOK
  <2> QED
    BY <1>5, <2>1 DEF OpenFault, Newly, Fault, TypeOK, TypeProgress,
       TypeWriter, TypeDisk, TypeDatabase, TypeBarrier, TypeLife
<1>6. ASSUME NEW a \in Article, LateDuplicate(a) PROVE TypeOK'
  <2>0. /\ done' \subseteq done \cup {a} /\ failed' \subseteq failed \cup {a} /\ emitted' \subseteq emitted
        /\ flight' \subseteq flight /\ fatalq' \subseteq fatalq /\ UNCHANGED <<complete, name, total>>
        /\ dirty' \in {dirty, TRUE}
    BY <1>6, ZenonT(30) DEF LateDuplicate
  <2>1. TypeProgress' /\ dirty' \in BOOLEAN
    BY <2>0 DEF TypeOK, TypeProgress, TypeDatabase
  <2> QED BY <1>6, <2>1 DEF LateDuplicate, TypeOK, TypeWriter, TypeDisk, TypeDatabase, TypeBarrier, TypeLife
<1>7. ASSUME NEW a \in Article, NEW pre \in BOOLEAN, FatalArticle(a, pre)
      PROVE  TypeOK'
  <2>1. fin' \in [File -> FinStates] /\ tomb' \subseteq File
    BY <1>7, CompleteOnType DEF FatalArticle, TypeOK
  <2>2. size' \in [File -> [Path -> Absent..MaxEnd]]
    <3>1. \A p \in Path : Opened(FileOf[a], p, pre) \in Absent..MaxEnd
      BY DEF Opened, TypeOK, TypeDisk, Absent
    <3> QED BY <1>7, <3>1 DEF FatalArticle, TypeOK, TypeDisk
  <2>3. TypeProgress' /\ TypeDisk' /\ TypeDatabase' /\ TypeLife'
    BY <1>7, <2>2 DEF FatalArticle, TypeOK, TypeProgress, TypeDisk,
       TypeDatabase, TypeLife
  <2>4. TypeWriter' /\ TypeBarrier'
    BY <1>7, <2>1 DEF FatalArticle, TypeOK, TypeWriter, TypeBarrier
  <2> QED BY <2>3, <2>4 DEF TypeOK
<1>8. CASE Checkpoint
  BY <1>8 DEF Checkpoint, StartBarrier, Phases, TypeOK, TypeProgress,
     TypeWriter, TypeDisk, TypeDatabase, TypeBarrier, TypeLife
<1>9. ASSUME NEW f \in File, Finalize(f) PROVE TypeOK'
  <2>1. TypeBarrier'
    <3>1. \A s \in {"running", "close", "lost", "unread"} : s \in FinStates
      BY DEF FinStates
    <3>2. fin' \in [File -> FinStates]
      BY <1>9, <3>1 DEF Finalize, TypeOK, TypeBarrier
    <3>3. CASE /\ f \in open
               /\ StartBarrier(f, fin[f] = "pending", {f})
      <4>1. bretry' = (fin[f] = "pending")
        BY <3>3 DEF StartBarrier
      <4>2. (fin[f] = "pending") \in BOOLEAN
        OBVIOUS
      <4>3. bretry' \in BOOLEAN
        BY <4>1, <4>2, Zenon
      <4>4. bpc' \in Phases /\ bfin' \in File \cup {NoFile}
        BY <3>3 DEF StartBarrier, Phases
      <4>5. btodo' \subseteq File /\ bfiles' \subseteq File /\ bgot' \subseteq Article
        BY <1>9, <3>3 DEF StartBarrier
      <4>6. late' = late
        BY <1>9 DEF Finalize
      <4>7. late' \in [op : Phases \cup {"close", "none"},
                       file : File \cup {NoFile}, bound : 0..MaxEnd]
        BY <4>6 DEF TypeOK, TypeBarrier
      <4> QED BY <3>2, <4>3, <4>4, <4>5, <4>7, Zenon DEF TypeBarrier
    <3>4. CASE UNCHANGED barrier
      BY <1>9, <3>2, <3>4 DEF Finalize, TypeOK, TypeBarrier, barrier
    <3> QED BY <1>9, <3>3, <3>4 DEF Finalize
  <2>2. faults' \in Nat
    BY <1>9 DEF Finalize, Fault, TypeOK, TypeLife
  <2> QED
    BY <1>9, <2>1, <2>2 DEF Finalize, TypeOK, TypeProgress, TypeWriter,
       TypeDisk, TypeDatabase, TypeLife
<1>10. ASSUME NEW f \in File, NEW ok \in SUBSET Article, Drain(f, ok)
       PROVE  TypeOK'
  <2>1. CASE f \notin open
    <3>1. TypeBarrier'
      BY <1>10, <2>1, FileGoneType DEF Drain, TypeOK
    <3> QED
      BY <1>10, <2>1, <3>1 DEF Drain, TypeOK, TypeProgress, TypeWriter,
         TypeDisk, TypeDatabase, TypeLife
  <2>2. CASE f \in open
    <3>1. TypeWriter' /\ TypeDisk' /\ emitted' \subseteq Article
      BY <1>10, <2>2, DrainFileType DEF Drain, TypeOK
    <3>2. TypeBarrier'
      <4>1. CASE ok = Of(buf, f)
        BY <1>10, <2>2, <4>1, <3>1 DEF Drain, Of, TypeOK, TypeBarrier,
           TypeWriter
      <4>2. CASE ok # Of(buf, f)
        BY <1>10, <2>2, <4>2, AbortType DEF Drain, TypeOK
      <4> QED BY <4>1, <4>2
    <3>3. stall' \in StallRecord
      BY <1>10, <2>2, NoteFailureType DEF Drain, Abort, TypeOK, TypeLife
    <3> QED
      BY <1>10, <2>2, <3>1, <3>2, <3>3 DEF Drain, Fault, TypeOK, TypeProgress,
         TypeDatabase, TypeLife
  <2> QED BY <2>1, <2>2
<1>11. ASSUME NEW f \in File, Sync(f) PROVE TypeOK'
  <2>1. TypeDisk'
    BY <1>11, SyncFileType DEF Sync, TypeOK, TypeDisk
  <2>2. TypeBarrier'
    BY <1>11, FileGoneType, AbortType DEF Sync, TypeOK, TypeBarrier
  <2>3. stall' \in StallRecord
    BY <1>11, NoteFailureType DEF Sync, Abort, TypeOK, TypeLife
  <2> QED
    BY <1>11, <2>1, <2>2, <2>3 DEF Sync, Fault, TypeOK, TypeProgress, TypeWriter,
       TypeDatabase, TypeLife
<1>12. ASSUME NEW f \in File, Truncate(f) PROVE TypeOK'
  <2>1. Bound(f) \in 0..MaxEnd
    BY BoundOver DEF Bound, Of, TypeOK, TypeDatabase, TypeBarrier
  <2>2. TypeDisk'
    BY <1>12, <2>1, TruncateFileType DEF Truncate, TypeOK, TypeDisk
  <2>3. TypeBarrier'
    BY <1>12, FileGoneType, AbortType DEF Truncate, TypeOK, TypeBarrier
  <2>4. stall' \in StallRecord
    BY <1>12, NoteFailureType DEF Truncate, Abort, TypeOK, TypeLife
  <2> QED
    BY <1>12, <2>2, <2>3, <2>4 DEF Truncate, Fault, TypeOK, TypeProgress,
       TypeWriter, TypeDatabase, TypeLife
<1>13. ASSUME NEW f \in File, Stat(f) PROVE TypeOK'
  <2>1. TypeBarrier'
    BY <1>13, FileGoneType, AbortType DEF Stat, TypeOK, TypeBarrier
  <2>2. stall' \in StallRecord
    BY <1>13, NoteFailureType DEF Stat, Abort, TypeOK, TypeLife
  <2> QED
    BY <1>13, <2>1, <2>2 DEF Stat, Fault, TypeOK, TypeProgress, TypeWriter,
       TypeDisk, TypeDatabase, TypeLife
<1>14. CASE Advance
  <2>1. bpc' \in Phases
    BY <1>14 DEF Advance, NextPhase, Phases
  <2> QED
    BY <1>14, <2>1 DEF Advance, TypeOK, TypeProgress, TypeWriter, TypeDisk,
       TypeDatabase, TypeBarrier, TypeLife
<1>15. CASE Commit
  <2>1. TypeBarrier'
    BY <1>15, AbortType DEF Commit, Phases, TypeOK, TypeBarrier
  <2>2. stall' \in StallRecord
    BY <1>15, NoteFailureType DEF Commit, Abort, TypeOK, TypeLife
  <2> QED
    BY <1>15, <2>1, <2>2 DEF Commit, Fault, TypeOK, TypeProgress, TypeWriter,
       TypeDisk, TypeDatabase, TypeBarrier, TypeLife
<1>16. CASE Ack
  <2>1. TypeBarrier'
    BY <1>16, AbortType DEF Ack, Phases, TypeOK, TypeBarrier
  <2>2. faults' \in Nat
    BY <1>16, FaultType DEF Ack, TypeOK
  <2>5. stall' \in StallRecord
    BY <1>16, NoteFailureType DEF Ack, Abort, TypeOK, TypeLife
  <2>3. TypeLife'
    BY <1>16, <2>2, <2>5 DEF Ack, TypeOK, TypeLife
  <2>4. TypeProgress' /\ TypeDatabase'
    BY <1>16 DEF Ack, TypeOK, TypeProgress, TypeDatabase, TypeBarrier
  <2> QED
    BY <1>16, <2>1, <2>3, <2>4 DEF Ack, TypeOK, TypeWriter, TypeDisk
<1>17. ASSUME NEW f \in File, Confirm(f) PROVE TypeOK'
  BY <1>17 DEF Confirm, ConfirmFile, TypeOK, TypeProgress, TypeWriter,
     TypeDisk, TypeDatabase, TypeBarrier, TypeLife
<1>18. CASE BarrierReturns
  <2>1. TypeBarrier'
    BY <1>18, FinalizeReturnsType DEF BarrierReturns, Reset, Phases, TypeOK,
       TypeBarrier
  <2> QED
    BY <1>18, <2>1 DEF BarrierReturns, TypeOK, TypeProgress, TypeWriter,
       TypeDisk, TypeDatabase, TypeLife
<1>19. ASSUME NEW f \in File, Timeout(f) PROVE TypeOK'
  <2>1. Bound(f) \in 0..MaxEnd
    BY BoundOver DEF Bound, Of, TypeOK, TypeDatabase, TypeBarrier
  <2>2. late' \in [op : Phases \cup {"close", "none"},
                   file : File \cup {NoFile}, bound : 0..MaxEnd]
    <3>1. CASE late' = late
      BY <3>1 DEF TypeOK, TypeBarrier
    <3>2. CASE late' = [op |-> bpc, file |-> f, bound |-> IF bpc = "truncate" THEN Bound(f) ELSE 0]
      <4>1. (IF bpc = "truncate" THEN Bound(f) ELSE 0) \in 0..MaxEnd
        BY <2>1, ConstantAssumption
      <4> QED BY <3>2, <4>1 DEF TypeOK, TypeBarrier
    <3> QED BY <1>19, <3>1, <3>2 DEF Timeout
  <2>3. TypeBarrier'
    <3>1. CASE bpc = "confirm"
      BY <1>19, <2>2, <3>1 DEF Timeout, TypeOK, TypeBarrier
    <3>2. CASE bpc # "confirm"
      BY <1>19, <2>2, <3>2 DEF Timeout, Abort, Reset, Phases, FinStates,
         TypeOK, TypeBarrier
    <3> QED BY <3>1, <3>2
  <2>4. stall' \in StallRecord
    BY <1>19, NoteFailureType DEF Timeout, Abort, TypeOK, TypeLife
  <2> QED
    BY <1>19, <2>3, <2>4 DEF Timeout, Fault, TypeOK, TypeProgress, TypeWriter,
       TypeDisk, TypeDatabase, TypeLife
<1>20. ASSUME NEW f \in File, Release(f) PROVE TypeOK'
  <2>1. TypeWriter' /\ TypeDisk' /\ emitted' \subseteq Article
    <3>1. CASE UNCHANGED <<emitted, open, buf, report, disk>>
      BY <1>20, <3>1 DEF Release, TypeOK, TypeWriter, TypeDisk, TypeProgress
    <3>2. ASSUME NEW ok \in SUBSET Article, NEW synced \in BOOLEAN, CloseFile(f, ok, synced)
          PROVE  TypeWriter' /\ TypeDisk' /\ emitted' \subseteq Article
      <4>1. TypeWriter' /\ TypeDisk'
        BY <1>20, <3>2, CloseFileType DEF Release, TypeOK
      <4>2. emitted' \subseteq Article
        BY <3>2 DEF CloseFile, TypeOK, TypeProgress
      <4> QED BY <4>1, <4>2
    <3> QED BY <1>20, <3>1, <3>2, ReleaseCloses
  <2>2. TypeBarrier'
    <3>1. "deliver" \in FinStates /\ "done" \in FinStates
      BY DEF FinStates
    <3>2. fin' \in [File -> FinStates]
      BY <1>20, <3>1 DEF Release, TypeOK, TypeBarrier
    <3>3. late' \in [op : Phases \cup {"close", "none"},
                     file : File \cup {NoFile}, bound : 0..MaxEnd]
      <4>1. CASE late' = late
        BY <4>1 DEF TypeOK, TypeBarrier
      <4>2. CASE late' = [op |-> "close", file |-> f, bound |-> 0]
        BY <4>2
      <4> QED BY <1>20, <4>1, <4>2 DEF Release
    <3> QED BY <1>20, <3>2, <3>3 DEF Release, TypeOK, TypeBarrier
  <2>3. faults' \in Nat
    BY <1>20, FaultType DEF Release, TypeOK
  <2> QED
    BY <1>20, <2>1, <2>2, <2>3 DEF Release, TypeOK, TypeProgress,
       TypeDatabase, TypeLife
<1>21. ASSUME NEW ok \in SUBSET Article, LateOp(ok) PROVE TypeOK'
  <2>1. TypeBarrier'
    BY <1>21, LateType DEF LateOp, TypeOK, TypeBarrier
  <2>2. TypeWriter' /\ TypeDisk' /\ emitted' \subseteq Article
    <3>1. CASE late.file \notin open
      BY <1>21, <3>1 DEF LateOp, TypeOK, TypeWriter, TypeDisk, TypeProgress
    <3>2. CASE late.file \in open
      <4>1. late.file \in File /\ late.bound \in 0..MaxEnd
        BY <3>2 DEF TypeOK, TypeBarrier, TypeWriter
      <4>2. CASE late.op = "drain"
        BY <1>21, <3>2, <4>1, <4>2, DrainFileType DEF LateOp, TypeOK
      <4>3. CASE late.op \in {"sync", "sync2"}
        BY <1>21, <3>2, <4>1, <4>3, SyncFileType
           DEF LateOp, TypeOK, TypeWriter, TypeProgress
      <4>4. CASE late.op = "truncate"
        BY <1>21, <3>2, <4>1, <4>4, TruncateFileType
           DEF LateOp, TypeOK, TypeWriter, TypeDisk, TypeProgress
      <4>5. CASE late.op = "confirm"
        BY <1>21, <3>2, <4>5 DEF LateOp, ConfirmFile, TypeOK, TypeWriter,
           TypeDisk, TypeProgress
      <4>6. CASE late.op = "close"
        <5>1. CloseFile(late.file, ok, TRUE) /\ UNCHANGED <<tomb, seenDone, seenFailed>>
          BY <1>21, <3>2, <4>6 DEF LateOp
        <5>2. emitted' \subseteq Article
          BY <5>1 DEF CloseFile, TypeOK, TypeProgress
        <5> QED BY <4>1, <5>1, <5>2, CloseFileType DEF TypeOK
      <4> QED BY <1>21, <3>2, <4>2, <4>3, <4>4, <4>5, <4>6 DEF LateOp
    <3> QED BY <3>1, <3>2
  <2>3. TypeDatabase' /\ TypeLife'
    <3>1. faults' \in Nat
      BY <1>21, FaultType DEF LateOp, TypeOK
    <3> QED BY <1>21, <3>1 DEF LateOp, TypeOK, TypeDatabase, TypeLife
  <2> QED BY <1>21, <2>1, <2>2, <2>3 DEF LateOp, TypeOK, TypeProgress
<1>22. ASSUME NEW f \in File, Deliver(f) PROVE TypeOK'
  <2>1. fin' \in [File -> FinStates]
    BY <1>22 DEF Deliver, TypeOK, TypeBarrier, FinStates
  <2>2. faults' \in Nat
    BY <1>22, FaultType DEF Deliver, TypeOK
  <2>3. TypeProgress' /\ dirty' \in BOOLEAN
    BY <1>22 DEF Deliver, TypeOK, TypeProgress, TypeDatabase
  <2>4. stall' \in StallRecord
    <3>1. stall \in StallRecord
      BY DEF TypeOK, TypeLife
    <3>2. stall' = stall \/ stall' = [on |-> TRUE, seed |-> stall.seed, at |-> stall.at, pass |-> stall.pass]
      BY <1>22, <3>1 DEF Deliver, StallRecord
    <3>3. stall.pass \in SUBSET File /\ stall.at \in {"idle", "retry", "deliver", "clear"}
          /\ TRUE \in BOOLEAN /\ stall.seed \in BOOLEAN
      BY <3>1, StallFields
    <3>4. [on |-> TRUE, seed |-> stall.seed, at |-> stall.at, pass |-> stall.pass] \in StallRecord
      BY <3>3, StallUpdate, Zenon
    <3> QED BY <3>1, <3>2, <3>4, Zenon
  <2> QED
    BY <1>22, <2>1, <2>2, <2>3, <2>4 DEF Deliver, TypeOK, TypeWriter,
       TypeDisk, TypeDatabase, TypeBarrier, TypeLife
<1>23. CASE Reevaluating
  BY <1>23, ReevaluatingType
<1>24. CASE Flush
  BY <1>24 DEF Flush, TypeOK, TypeProgress, TypeWriter, TypeDisk,
     TypeDatabase, TypeBarrier, TypeLife
<1>25. CASE Crash
  <2>1. size' \in [File -> [Path -> Absent..MaxEnd]]
    BY <1>25 DEF Crash, TypeOK, TypeDisk
  <2>2. page' \in [Path -> SUBSET Article]
    BY <1>25 DEF Crash
  <2>3. TypeDisk'
    BY <1>25, <2>1, <2>2 DEF Crash, TypeDisk
  <2>4. TypeProgress' /\ TypeWriter'
    BY <1>25 DEF Crash, TypeOK, TypeProgress, TypeWriter, TypeDatabase
  <2>5. TypeBarrier'
    BY <1>25, LateType DEF Crash, Reset, TypeOK, TypeBarrier, Phases,
       FinStates
  <2>6. TypeDatabase'
    BY <1>25 DEF Crash, TypeOK, TypeDatabase
  <2>7. TypeLife'
    <3>1. crashes' \in Nat
      BY <1>25 DEF Crash, TypeOK, TypeLife
    <3>2. stall' \in StallRecord
      BY <1>25, StallUpdate DEF Crash, NoStall
    <3> QED BY <1>25, <3>1, <3>2 DEF Crash, Reset, TypeOK, TypeLife
  <2> QED BY <2>3, <2>4, <2>5, <2>6, <2>7 DEF TypeOK
<1>26. ASSUME NEW f \in File, NEW p \in Path, NEW n \in Absent..MaxEnd,
              Tamper(f, p, n)
       PROVE  TypeOK'
  <2>1. TypeDisk'
    BY <1>26 DEF Tamper, TypeOK, TypeDisk
  <2> QED
    BY <1>26, <2>1 DEF Tamper, TypeOK, TypeProgress, TypeWriter,
       TypeDatabase, TypeBarrier, TypeLife
<1>27. CASE Hydrate
  BY <1>27 DEF Hydrate, TypeOK, TypeProgress, TypeWriter, TypeDisk,
     TypeDatabase, TypeBarrier, TypeLife
<1>28. ASSUME NEW f \in File, ResumeFile(f) PROVE TypeOK'
  BY <1>28 DEF ResumeFile, TypeOK, TypeProgress, TypeWriter, TypeDisk,
     TypeDatabase, TypeBarrier, TypeLife
<1>29. CASE ResumeFault
  BY <1>29 DEF ResumeFault, Fault, TypeOK, TypeProgress, TypeWriter, TypeDisk,
     TypeDatabase, TypeBarrier, TypeLife
<1>30. CASE ReplaceFromRuns
  BY <1>30 DEF ReplaceFromRuns, TypeOK, TypeProgress, TypeWriter, TypeDisk,
     TypeDatabase, TypeBarrier, TypeLife
<1>31. ASSUME NEW f \in File, Strand(f) PROVE TypeOK'
  <2> DEFINE n == boundOver(Of(runs, f))
  <2>1. n \in 0..MaxEnd /\ n \in Absent..MaxEnd
    BY BoundOver DEF Of, TypeOK, TypeDatabase, Absent
  <2> HIDE DEF n
  <2>2. TypeDisk'
    <3>1. CASE n > 0 /\ size[f][name[f]] > n
      <4>1. /\ page' \in [Path -> SUBSET Article]
            /\ size' \in [File -> [Path -> Absent..MaxEnd]]
        BY <1>31, <2>1, <3>1, TruncateFileType DEF Strand, TypeOK, n
      <4>2. plate' \in [Path -> SUBSET Article]
        BY <1>31, <3>1 DEF Strand, TypeOK, TypeDisk, n
      <4>3. psize' = [psize EXCEPT ![f][name[f]] = n]
        BY <1>31, <3>1 DEF Strand, n
      <4>4. psize' \in [File -> [Path -> Absent..MaxEnd]]
        BY <2>1, <4>3 DEF TypeOK, TypeDisk
      <4> QED BY <4>1, <4>2, <4>4 DEF TypeDisk
    <3>2. CASE ~(n > 0 /\ size[f][name[f]] > n)
      BY <1>31, <3>2 DEF Strand, TypeOK, TypeDisk, n
    <3> QED BY <3>1, <3>2
  <2> QED
    BY <1>31, <2>2 DEF Strand, TypeOK, TypeProgress, TypeWriter,
       TypeDatabase, TypeBarrier, TypeLife
<1>32. ASSUME NEW f \in File, StrandFault(f) PROVE TypeOK'
  BY <1>32 DEF StrandFault, Fault, TypeOK, TypeProgress, TypeWriter, TypeDisk,
     TypeDatabase, TypeBarrier, TypeLife
<1>33. CASE Started
  BY <1>33 DEF Started, TypeOK, TypeProgress, TypeWriter, TypeDisk,
     TypeDatabase, TypeBarrier, TypeLife
<1>34. CASE UNCHANGED vars
  BY <1>34 DEF vars, TypeOK, TypeProgress, TypeWriter, TypeDisk,
     TypeDatabase, TypeBarrier, TypeLife
<1> QED
  BY <1>1, <1>2, <1>3, <1>4, <1>5, <1>6, <1>7, <1>8, <1>9, <1>10, <1>11,
     <1>12, <1>13, <1>14, <1>15, <1>16, <1>17, <1>18, <1>19, <1>20, <1>21,
     <1>22, <1>23, <1>24, <1>25, <1>26, <1>27, <1>28, <1>29, <1>30, <1>31,
     <1>32, <1>33, <1>34
     DEF Next, Fetching, Assembling, Syncing, Completing, Restarting

-----------------------------------------------------------------------------
(* What each kind of step does to an article's bytes *)

\* A filename, once resolved, is never replaced while the process lives.
LEMMA RegisterKeepsName ==
  ASSUME TypeOK, NEW f \in File, Register(f)
  PROVE  /\ \A g \in File : name[g] # 0 => name'[g] = name[g]
         /\ total[f] = 0 => name'[f] # 0
         /\ \A g \in File : g # f => name'[g] = name[g] /\ total'[g] = total[g]
         /\ total[f] # 0 => name'[f] = name[f] /\ total'[f] = total[f]
BY DEF Register, TypeOK, TypeProgress, Path

\* Resolving a filename moves no article's bytes.
LEMMA RegisterKeepsBytes ==
  ASSUME TypeOK, NEW f \in File, Register(f), UNCHANGED disk, NEW a \in Article
  PROVE  (InPage(a) => InPage(a)') /\ (InPlate(a) => InPlate(a)')
<1>1. FileOf[a] \in File
  BY ConstantAssumption
<1>2. CASE name[FileOf[a]] # 0
  <2>1. name'[FileOf[a]] = name[FileOf[a]]
    BY <1>1, <1>2, RegisterKeepsName
  <2> QED BY <2>1 DEF InPage, InPlate, Holds, disk
<1>3. CASE name[FileOf[a]] = 0
  BY <1>3 DEF InPage, InPlate, Holds
<1> QED BY <1>2, <1>3

\* An fsync takes nothing from the file and puts its pages on the platter.
LEMMA SyncKeepsBytes ==
  ASSUME TypeOK, NEW f \in File, SyncFile(f), UNCHANGED <<page, size, name>>,
         NEW a \in Article, InPage(a), InPlate(a) \/ FileOf[a] = f
  PROVE  InPage(a)' /\ InPlate(a)'
<1>1. FileOf[a] \in File /\ name[FileOf[a]] \in Path
  BY ConstantAssumption DEF InPage, Holds, TypeOK, TypeProgress
<1>2. InPage(a)'
  BY DEF InPage, Holds
<1>3. a \in plate'[name[FileOf[a]]]
  BY <1>1 DEF SyncFile, InPage, InPlate, Holds, Of, Arts, TypeOK, TypeDisk
<1>4. End[a] <= psize'[FileOf[a]][name[FileOf[a]]]
  BY <1>1 DEF SyncFile, InPage, InPlate, TypeOK, TypeDisk
<1> QED BY <1>1, <1>2, <1>3, <1>4 DEF InPlate, InPage, Holds

\* A truncate keeps every article that ends within its bound.
LEMMA TruncateKeepsBytes ==
  ASSUME TypeOK, NEW f \in File, NEW n \in 0..MaxEnd, TruncateFile(f, n),
         UNCHANGED name, NEW a \in Article, InPage(a),
         FileOf[a] = f => End[a] <= n
  PROVE  InPage(a)'
<1>1. FileOf[a] \in File /\ name[FileOf[a]] \in Path
  BY ConstantAssumption DEF InPage, Holds, TypeOK, TypeProgress
<1>2. CASE n >= size[f][name[f]]
  BY <1>2 DEF TruncateFile, InPage, Holds
<1>3. CASE ~(n >= size[f][name[f]])
  <2>1. a \notin Beyond(f, n)
    BY ConstantAssumption DEF Beyond
  <2>2. a \in page'[name[FileOf[a]]]
    BY <1>1, <1>3, <2>1 DEF TruncateFile, InPage, Holds, TypeOK, TypeDisk
  <2>3. End[a] <= size'[FileOf[a]][name[FileOf[a]]]
    BY <1>1, <1>3 DEF TruncateFile, InPage, TypeOK, TypeDisk
  <2> QED BY <1>1, <2>2, <2>3 DEF InPage, Holds
<1> QED BY <1>2, <1>3

\* A drain only adds bytes, and what it reports is in the file.
LEMMA DrainKeepsBytes ==
  ASSUME TypeOK, NEW f \in File, name[f] # 0, NEW ok \in SUBSET Article,
         DrainFile(f, ok), UNCHANGED name, NEW a \in Article,
         InPage(a) \/ a \in ok
  PROVE  InPage(a)'
<1>1. FileOf[a] \in File /\ name[FileOf[a]] \in Path
  BY ConstantAssumption DEF DrainFile, Of, InPage, Holds, TypeOK, TypeProgress
<1>2. a \in ok => FileOf[a] = f
  BY DEF DrainFile, Of
<1>3. a \in page'[name[FileOf[a]]]
  BY <1>1, <1>2 DEF DrainFile, InPage, Holds, TypeOK, TypeDisk
<1>4. /\ size[f][name[f]] <= Grown(size[f][name[f]], ok)
      /\ \A b \in ok : End[b] <= Grown(size[f][name[f]], ok)
      /\ Grown(size[f][name[f]], ok) \in Absent..MaxEnd
      /\ size[f][name[f]] \in Absent..MaxEnd
  BY GrownBound DEF TypeOK, TypeDisk, TypeProgress
<1>5. End[a] \in 1..MaxEnd
  BY ConstantAssumption
<1>6. size'[FileOf[a]][name[FileOf[a]]] =
        IF FileOf[a] = f THEN Grown(size[f][name[f]], ok)
        ELSE size[FileOf[a]][name[FileOf[a]]]
  BY <1>1 DEF DrainFile, TypeOK, TypeDisk
<1>7. End[a] <= size'[FileOf[a]][name[FileOf[a]]]
  BY <1>1, <1>2, <1>4, <1>5, <1>6 DEF InPage, Absent
<1> QED BY <1>2, <1>3, <1>7 DEF InPage, Holds

\* Closing a file takes no bytes from it.
LEMMA CloseKeepsBytes ==
  ASSUME TypeOK, NEW f \in File, name[f] # 0, NEW synced \in BOOLEAN,
         NEW ok \in SUBSET Article, CloseFile(f, ok, synced), UNCHANGED name,
         NEW a \in Article, InPage(a)
  PROVE  InPage(a)' /\ (InPlate(a) => InPlate(a)')
<1>1. FileOf[a] \in File /\ name[FileOf[a]] \in Path
  BY ConstantAssumption DEF InPage, Holds, TypeOK, TypeProgress
<1>2. a \in page'[name[FileOf[a]]]
  BY <1>1 DEF CloseFile, InPage, Holds, TypeOK, TypeDisk
<1>3. End[a] <= size'[FileOf[a]][name[FileOf[a]]]
  <2>2. /\ size[f][name[f]] <= Grown(size[f][name[f]], ok)
        /\ Grown(size[f][name[f]], ok) \in Absent..MaxEnd
        /\ size[f][name[f]] \in Absent..MaxEnd
    BY GrownBound DEF TypeOK, TypeDisk, TypeProgress
  <2>3. End[a] \in 1..MaxEnd
    BY ConstantAssumption
  <2>4. size'[FileOf[a]][name[FileOf[a]]] =
          IF FileOf[a] = f THEN Grown(size[f][name[f]], ok)
          ELSE size[FileOf[a]][name[FileOf[a]]]
    BY <1>1 DEF CloseFile, TypeOK, TypeDisk
  <2>5. End[a] <= size[FileOf[a]][name[FileOf[a]]]
    BY DEF InPage
  <2> QED BY <2>2, <2>3, <2>4, <2>5 DEF Absent
<1>4. InPage(a)'
  BY <1>1, <1>2, <1>3 DEF InPage, Holds
<1>5. ASSUME InPlate(a) PROVE InPlate(a)'
  <2>1. CASE synced
    <3>1. a \in plate'[name[FileOf[a]]]
      BY <1>1, <1>2, <1>5, <2>1 DEF CloseFile, InPlate, Holds, Of, Arts,
         TypeOK, TypeDisk
    <3>2. psize' = [psize EXCEPT ![f][name[f]] = size'[f][name[f]]]
      BY <2>1 DEF CloseFile
    <3>3. End[a] <= psize'[FileOf[a]][name[FileOf[a]]]
      BY <1>1, <1>3, <1>5, <3>2 DEF InPlate, TypeOK, TypeDisk
    <3> QED BY <1>5, <3>1, <3>3 DEF InPlate, Holds
  <2>2. CASE ~synced
    BY <1>5, <2>2 DEF CloseFile, InPlate, Holds
  <2> QED BY <2>1, <2>2
<1> QED BY <1>4, <1>5

\* Opening and pre-allocating a file never shortens it.
LEMMA OpenedGrows ==
  ASSUME TypeOK, NEW f \in File, NEW p \in Path, NEW pre \in BOOLEAN
  PROVE  /\ Opened(f, p, pre) \in Absent..MaxEnd
         /\ size[f][p] <= Opened(f, p, pre)
<1>1. size[f][p] \in Absent..MaxEnd /\ ExpectedSize[f] \in 1..MaxEnd
  BY ConstantAssumption DEF TypeOK, TypeDisk
<1>2. CASE f \in open
  BY <1>1, <1>2 DEF Opened, Absent
<1>3. CASE f \notin open
  <2> DEFINE s == size[f][p]
             x == ExpectedSize[f]
  <2>1. Opened(f, p, pre) = IF pre /\ s < x THEN x
                            ELSE IF s = Absent THEN 0 ELSE s
    BY <1>3 DEF Opened
  <2>2. s \in Absent..MaxEnd /\ x \in 1..MaxEnd /\ MaxEnd \in Nat
    BY <1>1, ConstantAssumption
  <2> HIDE DEF s, x
  <2>3. /\ Opened(f, p, pre) \in Absent..MaxEnd
        /\ s <= Opened(f, p, pre)
    BY <2>1, <2>2 DEF Absent
  <2> QED BY <2>3 DEF s
<1> QED BY <1>2, <1>3

\* Accepting an article takes no bytes from any file, whatever is written.
LEMMA AcceptKeepsBytes ==
  ASSUME TypeOK, NEW b \in Article, NEW ok \in SUBSET Article,
         NEW bad \in SUBSET Article, NEW pre \in BOOLEAN,
         AcceptArticle(b, ok, bad, pre), NEW a \in Article
  PROVE  /\ InPage(a) => InPage(a)'
         /\ a \in ok /\ name'[FileOf[a]] # 0 => InPage(a)'
         /\ InPlate(a) => InPlate(a)'
<1> DEFINE f == FileOf[b]
           g == FileOf[a]
           p == name'[g]
<1>1. f \in File /\ g \in File /\ End[a] \in 1..MaxEnd
  BY ConstantAssumption
<1>2. name' \in [File -> {0} \cup Path]
  BY <1>1, RegisterType DEF AcceptArticle, TypeOK
<1>3. name[g] # 0 => p = name[g]
  BY <1>1, RegisterKeepsName DEF AcceptArticle
<1>4. InPlate(a) => InPlate(a)'
  BY <1>3 DEF AcceptArticle, InPlate, Holds
<1>5. ASSUME InPage(a) \/ a \in ok, p # 0 PROVE InPage(a)'
  <2>1. p \in Path
    BY <1>1, <1>2, <1>5
  <2>2. a \in page'[p]
    <3>1. page'[p] = page[p] \cup {c \in ok : name'[FileOf[c]] = p}
      BY <2>1 DEF AcceptArticle
    <3> QED BY <1>3, <1>5, <3>1 DEF InPage, Holds
  <2>3. PICK s \in Absent..MaxEnd : /\ size[g][p] <= s
                                    /\ size'[g][p] = Grown(s, Of(ok, g))
    <3>1. size[g][p] \in Absent..MaxEnd
      BY <1>1, <2>1 DEF TypeOK, TypeDisk
    <3>2. size'[g][p] = Grown(IF g = f /\ p = name'[f] THEN Opened(f, p, pre)
                              ELSE size[g][p], Of(ok, g))
      BY <1>1, <2>1 DEF AcceptArticle
    <3>3. size[g][p] <= size[g][p]
      BY <3>1 DEF Absent
    <3>4. CASE g = f
      BY <1>1, <2>1, <3>2, <3>4, OpenedGrows
    <3>5. CASE g # f
      BY <3>1, <3>2, <3>3, <3>5
    <3> QED BY <3>4, <3>5
  <2>4. /\ s <= Grown(s, Of(ok, g))
        /\ Grown(s, Of(ok, g)) \in Absent..MaxEnd
        /\ \A c \in Of(ok, g) : End[c] <= Grown(s, Of(ok, g))
    BY GrownBound DEF Of
  <2>5. size[g][p] \in Absent..MaxEnd
    BY <1>1, <2>1 DEF TypeOK, TypeDisk
  <2>6. InPage(a) => End[a] <= size[g][p]
    BY <1>3 DEF InPage, Holds
  <2>7. a \in ok => a \in Of(ok, g)
    BY DEF Of
  <2>8. End[a] <= size'[g][p]
    BY <1>1, <1>5, <2>3, <2>4, <2>5, <2>6, <2>7 DEF Absent
  <2> QED BY <1>5, <2>2, <2>8 DEF InPage, Holds
<1>6. InPage(a) => p # 0
  BY <1>3 DEF InPage, Holds
<1> QED BY <1>4, <1>5, <1>6

\* Counting a failed article's part takes no bytes from its file.
LEMMA FatalKeepsBytes ==
  ASSUME TypeOK, NEW b \in Article, NEW pre \in BOOLEAN,
         FatalArticle(b, pre), NEW a \in Article
  PROVE  /\ InPage(a) => InPage(a)'
         /\ InPlate(a) => InPlate(a)'
<1> DEFINE f == FileOf[b]
           g == FileOf[a]
           p == name[g]
<1>1. f \in File /\ g \in File /\ End[a] \in 1..MaxEnd
  BY ConstantAssumption
<1>2. InPlate(a) => InPlate(a)'
  BY DEF FatalArticle, InPlate, Holds
<1>3. ASSUME InPage(a) PROVE InPage(a)'
  <2>1. p \in Path
    BY <1>1, <1>3 DEF InPage, Holds, TypeOK, TypeProgress
  <2>2. size'[g][p] = IF g = f THEN Opened(f, p, pre) ELSE size[g][p]
    BY <1>1, <2>1 DEF FatalArticle, TypeOK, TypeDisk
  <2>3. size[g][p] \in Absent..MaxEnd
    BY <1>1, <2>1 DEF TypeOK, TypeDisk
  <2>4. g = f => size[g][p] <= size'[g][p] /\ size'[g][p] \in Absent..MaxEnd
    BY <1>1, <2>1, <2>2, OpenedGrows
  <2>5. End[a] <= size'[g][p]
    BY <1>1, <1>3, <2>2, <2>3, <2>4 DEF InPage, Absent
  <2> QED BY <1>3, <2>5 DEF FatalArticle, InPage, Holds
<1> QED BY <1>2, <1>3

\* The commit comes before the ack, in every interleaving and across restarts.
LEMMA DoneHasRunsStep ==
  ASSUME TypeOK, DownIsQuiet, BarrierInOrder, DoneHasRuns, [Next]_vars
  PROVE  DoneHasRuns'
<1> USE DEF progress, pipe, cache, report, disk, db, barrier, life
<1>1. ASSUME NEW a \in Article, Emit(a) PROVE DoneHasRuns'
  BY <1>1 DEF Emit, DoneHasRuns
<1>2. ASSUME NEW a \in Article, RetryableFailure(a) PROVE DoneHasRuns'
  BY <1>2 DEF RetryableFailure, DoneHasRuns
<1>3. ASSUME NEW a \in Article, PermanentFailure(a) PROVE DoneHasRuns'
  BY <1>3 DEF PermanentFailure, DoneHasRuns
<1>4. ASSUME NEW a \in Article, NEW ok \in SUBSET Article,
             NEW bad \in SUBSET Article, NEW pre \in BOOLEAN,
             AcceptArticle(a, ok, bad, pre)
      PROVE  DoneHasRuns'
  BY <1>4 DEF AcceptArticle, DoneHasRuns
<1>5. ASSUME NEW a \in Article, OpenFault(a) PROVE DoneHasRuns'
  BY <1>5 DEF OpenFault, DoneHasRuns
<1>6. ASSUME NEW a \in Article, LateDuplicate(a) PROVE DoneHasRuns'
  BY <1>6 DEF LateDuplicate, DoneHasRuns
<1>7. ASSUME NEW a \in Article, NEW pre \in BOOLEAN,
             FatalArticle(a, pre)
      PROVE  DoneHasRuns'
  BY <1>7 DEF FatalArticle, DoneHasRuns
<1>8. CASE Checkpoint
  BY <1>8 DEF Checkpoint, StartBarrier, Idle, DoneHasRuns
<1>9. ASSUME NEW f \in File, Finalize(f) PROVE DoneHasRuns'
  BY <1>9 DEF Finalize, StartBarrier, Idle, DoneHasRuns
<1>10. ASSUME NEW f \in File, NEW ok \in SUBSET Article,
              Drain(f, ok)
       PROVE  DoneHasRuns'
  BY <1>10 DEF Drain, FileGone, DrainFile, Abort, FinalizeReturns, Reset,
     DoneHasRuns
<1>11. ASSUME NEW f \in File, Sync(f) PROVE DoneHasRuns'
  BY <1>11 DEF Sync, SyncFile, FileGone, Abort, FinalizeReturns, Reset,
     DoneHasRuns
<1>12. ASSUME NEW f \in File, Truncate(f) PROVE DoneHasRuns'
  BY <1>12 DEF Truncate, TruncateFile, FileGone, Abort, FinalizeReturns, Reset,
     DoneHasRuns
<1>13. ASSUME NEW f \in File, Stat(f) PROVE DoneHasRuns'
  BY <1>13 DEF Stat, FileGone, Abort, FinalizeReturns, Reset, DoneHasRuns
<1>14. CASE Advance
  BY <1>14 DEF Advance, DoneHasRuns
<1>15. CASE Commit
  BY <1>15 DEF Commit, Up, DoneHasRuns
<1>16. CASE Ack
  BY <1>16 DEF Ack, Abort, Reset, Up, DoneHasRuns, BarrierInOrder
<1>17. ASSUME NEW f \in File, Confirm(f) PROVE DoneHasRuns'
  BY <1>17 DEF Confirm, ConfirmFile, DoneHasRuns
<1>18. CASE BarrierReturns
  BY <1>18 DEF BarrierReturns, FinalizeReturns, Reset, DoneHasRuns
<1>19. ASSUME NEW f \in File, Timeout(f) PROVE DoneHasRuns'
  BY <1>19 DEF Timeout, Abort, Reset, DoneHasRuns
<1>20. ASSUME NEW f \in File, Release(f) PROVE DoneHasRuns'
  BY <1>20 DEF Release, DoneHasRuns
<1>21. ASSUME NEW ok \in SUBSET Article, LateOp(ok) PROVE DoneHasRuns'
  BY <1>21 DEF LateOp, DoneHasRuns
<1>22. ASSUME NEW f \in File, Deliver(f) PROVE DoneHasRuns'
  BY <1>22 DEF Deliver, DoneHasRuns
<1>23. CASE Reevaluating
  BY <1>23, ReevaluatingFrame DEF IInv, Idle, DoneHasRuns
<1>24. CASE Flush
  BY <1>24 DEF Flush, DoneHasRuns
<1>25. CASE Crash
  BY <1>25 DEF Crash, DoneHasRuns
<1>26. ASSUME NEW f \in File, NEW p \in Path, NEW n \in Absent..MaxEnd,
              Tamper(f, p, n)
       PROVE  DoneHasRuns'
  BY <1>26 DEF Tamper, DoneHasRuns
<1>27. CASE Hydrate
  BY <1>27 DEF Hydrate, DoneHasRuns
<1>28. ASSUME NEW f \in File, ResumeFile(f) PROVE DoneHasRuns'
  BY <1>28 DEF ResumeFile, Arts, Of, DoneHasRuns, TypeOK, TypeDatabase
<1>29. CASE ResumeFault
  BY <1>29 DEF ResumeFault, DoneHasRuns
<1>30. CASE ReplaceFromRuns
  BY <1>30 DEF ReplaceFromRuns, DoneHasRuns, TypeOK, TypeProgress
<1>31. ASSUME NEW f \in File, Strand(f) PROVE DoneHasRuns'
  BY <1>31 DEF Strand, DoneHasRuns
<1>32. ASSUME NEW f \in File, StrandFault(f) PROVE DoneHasRuns'
  BY <1>32 DEF StrandFault, DoneHasRuns
<1>33. CASE Started
  BY <1>33 DEF Started, DoneHasRuns
<1>34. CASE UNCHANGED vars
  BY <1>34 DEF vars, DoneHasRuns
<1> QED
  BY <1>1, <1>2, <1>3, <1>4, <1>5, <1>6, <1>7, <1>8, <1>9, <1>10, <1>11, <1>12,
     <1>13, <1>14, <1>15, <1>16, <1>17, <1>18, <1>19, <1>20, <1>21, <1>22,
     <1>23, <1>24, <1>25, <1>26, <1>27, <1>28, <1>29, <1>30, <1>31, <1>32,
     <1>33, <1>34
     DEF Next, Fetching, Assembling, Syncing, Completing, Restarting

\* A process that is not running has nothing in memory or in a page cache.
LEMMA DownIsQuietStep ==
  ASSUME TypeOK, DownIsQuiet, NamesAgree, [Next]_vars
  PROVE  DownIsQuiet'
<1> USE DEF progress, pipe, cache, report, disk, db, barrier, life
<1>1. ASSUME NEW a \in Article, Emit(a) PROVE DownIsQuiet'
  BY <1>1 DEF Emit, Up, DownIsQuiet
<1>2. ASSUME NEW a \in Article, RetryableFailure(a) PROVE DownIsQuiet'
  BY <1>2 DEF RetryableFailure, Up, DownIsQuiet
<1>3. ASSUME NEW a \in Article, PermanentFailure(a) PROVE DownIsQuiet'
  BY <1>3 DEF PermanentFailure, Up, DownIsQuiet
<1>4. ASSUME NEW a \in Article, NEW ok \in SUBSET Article,
             NEW bad \in SUBSET Article, NEW pre \in BOOLEAN,
             AcceptArticle(a, ok, bad, pre)
      PROVE  DownIsQuiet'
  BY <1>4 DEF AcceptArticle, Up, DownIsQuiet
<1>5. ASSUME NEW a \in Article, OpenFault(a) PROVE DownIsQuiet'
  BY <1>5 DEF OpenFault, Up, DownIsQuiet
<1>6. ASSUME NEW a \in Article, LateDuplicate(a) PROVE DownIsQuiet'
  BY <1>6 DEF LateDuplicate, Up, DownIsQuiet
<1>7. ASSUME NEW a \in Article, NEW pre \in BOOLEAN,
             FatalArticle(a, pre)
      PROVE  DownIsQuiet'
  BY <1>7 DEF FatalArticle, Up, DownIsQuiet
<1>8. CASE Checkpoint
  BY <1>8 DEF Checkpoint, Up, DownIsQuiet
<1>9. ASSUME NEW f \in File, Finalize(f) PROVE DownIsQuiet'
  BY <1>9 DEF Finalize, Up, DownIsQuiet
<1>10. ASSUME NEW f \in File, NEW ok \in SUBSET Article,
              Drain(f, ok)
       PROVE  DownIsQuiet'
  BY <1>10 DEF Drain, Up, DownIsQuiet
<1>11. ASSUME NEW f \in File, Sync(f) PROVE DownIsQuiet'
  BY <1>11 DEF Sync, Up, DownIsQuiet
<1>12. ASSUME NEW f \in File, Truncate(f) PROVE DownIsQuiet'
  BY <1>12 DEF Truncate, Up, DownIsQuiet
<1>13. ASSUME NEW f \in File, Stat(f) PROVE DownIsQuiet'
  BY <1>13 DEF Stat, Up, DownIsQuiet
<1>14. CASE Advance
  BY <1>14 DEF Advance, Up, DownIsQuiet
<1>15. CASE Commit
  BY <1>15 DEF Commit, Up, DownIsQuiet
<1>16. CASE Ack
  BY <1>16 DEF Ack, Up, DownIsQuiet
<1>17. ASSUME NEW f \in File, Confirm(f) PROVE DownIsQuiet'
  BY <1>17 DEF Confirm, Up, DownIsQuiet
<1>18. CASE BarrierReturns
  BY <1>18 DEF BarrierReturns, Up, DownIsQuiet
<1>19. ASSUME NEW f \in File, Timeout(f) PROVE DownIsQuiet'
  BY <1>19 DEF Timeout, Up, DownIsQuiet
<1>20. ASSUME NEW f \in File, Release(f) PROVE DownIsQuiet'
  BY <1>20 DEF Release, Up, DownIsQuiet
<1>21. ASSUME NEW ok \in SUBSET Article, LateOp(ok) PROVE DownIsQuiet'
  BY <1>21 DEF LateOp, Up, DownIsQuiet
<1>22. ASSUME NEW f \in File, Deliver(f) PROVE DownIsQuiet'
  BY <1>22 DEF Deliver, Up, DownIsQuiet
<1>23. CASE Reevaluating
  BY <1>23, ReevaluatingFrame DEF IInv, Up, DownIsQuiet
<1>24. CASE Flush
  BY <1>24 DEF Flush, Up, DownIsQuiet
<1>25. CASE Crash
  BY <1>25 DEF Crash, Reset, DownIsQuiet
<1>26. ASSUME NEW f \in File, NEW p \in Path, NEW n \in Absent..MaxEnd,
              Tamper(f, p, n)
       PROVE  DownIsQuiet'
  BY <1>26 DEF Tamper, DownIsQuiet
<1>27. CASE Hydrate
  BY <1>27 DEF Hydrate, DownIsQuiet
<1>28. ASSUME NEW f \in File, ResumeFile(f) PROVE DownIsQuiet'
  BY <1>28 DEF ResumeFile, DownIsQuiet
<1>29. CASE ResumeFault
  BY <1>29 DEF ResumeFault, DownIsQuiet
<1>30. CASE ReplaceFromRuns
  BY <1>30 DEF ReplaceFromRuns, DownIsQuiet
<1>31. ASSUME NEW f \in File, Strand(f) PROVE DownIsQuiet'
  <2> DEFINE n == boundOver(Of(runs, f))
  <2>1. CASE n > 0 /\ size[f][name[f]] > n
    <3>1. ~(n >= size[f][name[f]])
      <4>1. n \in 0..MaxEnd
        BY BoundOver DEF Of, TypeOK, TypeDatabase
      <4>2. f \in swept
        BY <1>31 DEF Strand
      <4>3. size[f][name[f]] \in Absent..MaxEnd
        BY <4>2 DEF TypeOK, TypeDisk, TypeProgress, NamesAgree
      <4> QED BY <2>1, <4>1, <4>3 DEF Absent
    <3> QED BY <1>31, <2>1, <3>1 DEF Strand, TruncateFile, DownIsQuiet
  <2>2. CASE ~(n > 0 /\ size[f][name[f]] > n)
    BY <1>31, <2>2 DEF Strand, DownIsQuiet
  <2> QED BY <2>1, <2>2
<1>32. ASSUME NEW f \in File, StrandFault(f) PROVE DownIsQuiet'
  BY <1>32 DEF StrandFault, DownIsQuiet
<1>33. CASE Started
  BY <1>33 DEF Started, DownIsQuiet
<1>34. CASE UNCHANGED vars
  BY <1>34 DEF vars, DownIsQuiet
<1> QED
  BY <1>1, <1>2, <1>3, <1>4, <1>5, <1>6, <1>7, <1>8, <1>9, <1>10, <1>11, <1>12,
     <1>13, <1>14, <1>15, <1>16, <1>17, <1>18, <1>19, <1>20, <1>21, <1>22,
     <1>23, <1>24, <1>25, <1>26, <1>27, <1>28, <1>29, <1>30, <1>31, <1>32,
     <1>33, <1>34
     DEF Next, Fetching, Assembling, Syncing, Completing, Restarting

\* A filename is never lost once saved, nor replaced while work goes on.
LEMMA NamesAgreeStep ==
  ASSUME TypeOK, NamesAgree, [Next]_vars
  PROVE  NamesAgree'
<1> USE DEF progress, pipe, cache, report, disk, db, barrier, life
<1>1. ASSUME NEW a \in Article, Emit(a) PROVE NamesAgree'
  BY <1>1, ConstantAssumption DEF Emit, NamesAgree, Up
<1>2. ASSUME NEW a \in Article, RetryableFailure(a) PROVE NamesAgree'
  BY <1>2, ConstantAssumption DEF RetryableFailure, NamesAgree, Up
<1>3. ASSUME NEW a \in Article, PermanentFailure(a) PROVE NamesAgree'
  <2>1. FileOf[a] \in File /\ Register(FileOf[a])
    BY <1>3, ConstantAssumption DEF PermanentFailure
  <2>2. name'[FileOf[a]] # 0
    BY <2>1, RegisterKeepsName DEF NamesAgree
  <2>3. \A g \in File : name[g] # 0 => name'[g] = name[g]
    BY <2>1, RegisterKeepsName
  <2>4. \A g \in File : total'[g] # 0 => name'[g] # 0
    BY <2>1, <2>2, RegisterKeepsName DEF NamesAgree
  <2> QED
    BY <1>3, <2>2, <2>3, <2>4, ConstantAssumption DEF PermanentFailure, Up,
       NamesAgree, TypeOK, TypeProgress, TypeWriter, TypeLife
<1>4. ASSUME NEW a \in Article, NEW ok \in SUBSET Article,
             NEW bad \in SUBSET Article, NEW pre \in BOOLEAN,
             AcceptArticle(a, ok, bad, pre)
      PROVE  NamesAgree'
  <2>1. FileOf[a] \in File /\ Register(FileOf[a])
    BY <1>4, ConstantAssumption DEF AcceptArticle
  <2>2. name'[FileOf[a]] # 0
    BY <2>1, RegisterKeepsName DEF NamesAgree
  <2>3. \A g \in File : name[g] # 0 => name'[g] = name[g]
    BY <2>1, RegisterKeepsName
  <2>4. \A g \in File : total'[g] # 0 => name'[g] # 0
    BY <2>1, <2>2, RegisterKeepsName DEF NamesAgree
  <2> QED
    BY <1>4, <2>2, <2>3, <2>4, ConstantAssumption DEF AcceptArticle, Up,
       NamesAgree, TypeOK, TypeProgress, TypeWriter, TypeLife
<1>5. ASSUME NEW a \in Article, OpenFault(a) PROVE NamesAgree'
  <2>1. FileOf[a] \in File /\ Register(FileOf[a])
    BY <1>5, ConstantAssumption DEF OpenFault
  <2>2. name'[FileOf[a]] # 0
    BY <2>1, RegisterKeepsName DEF NamesAgree
  <2>3. \A g \in File : name[g] # 0 => name'[g] = name[g]
    BY <2>1, RegisterKeepsName
  <2>4. \A g \in File : total'[g] # 0 => name'[g] # 0
    BY <2>1, <2>2, RegisterKeepsName DEF NamesAgree
  <2> QED
    BY <1>5, <2>2, <2>3, <2>4, ConstantAssumption DEF OpenFault, Up,
       NamesAgree, TypeOK, TypeProgress, TypeWriter, TypeLife
<1>6. ASSUME NEW a \in Article, LateDuplicate(a) PROVE NamesAgree'
  BY <1>6, ConstantAssumption DEF LateDuplicate, NamesAgree, Up
<1>7. ASSUME NEW a \in Article, NEW pre \in BOOLEAN,
             FatalArticle(a, pre)
      PROVE  NamesAgree'
  BY <1>7, ConstantAssumption DEF FatalArticle, CompleteOn, Up, NamesAgree
<1>8. CASE Checkpoint
  BY <1>8 DEF Checkpoint, Up, NamesAgree
<1>9. ASSUME NEW f \in File, Finalize(f) PROVE NamesAgree'
  BY <1>9 DEF Finalize, Up, NamesAgree
<1>10. ASSUME NEW f \in File, NEW ok \in SUBSET Article,
              Drain(f, ok)
       PROVE  NamesAgree'
  BY <1>10 DEF Drain, Up, NamesAgree
<1>11. ASSUME NEW f \in File, Sync(f) PROVE NamesAgree'
  BY <1>11 DEF Sync, Up, NamesAgree
<1>12. ASSUME NEW f \in File, Truncate(f) PROVE NamesAgree'
  BY <1>12 DEF Truncate, Up, NamesAgree
<1>13. ASSUME NEW f \in File, Stat(f) PROVE NamesAgree'
  BY <1>13 DEF Stat, Up, NamesAgree
<1>14. CASE Advance
  BY <1>14 DEF Advance, Up, NamesAgree
<1>15. CASE Commit
  BY <1>15 DEF Commit, Up, NamesAgree
<1>16. CASE Ack
  BY <1>16 DEF Ack, Up, NamesAgree
<1>17. ASSUME NEW f \in File, Confirm(f) PROVE NamesAgree'
  BY <1>17 DEF Confirm, Up, NamesAgree
<1>18. CASE BarrierReturns
  BY <1>18 DEF BarrierReturns, Up, NamesAgree
<1>19. ASSUME NEW f \in File, Timeout(f) PROVE NamesAgree'
  BY <1>19 DEF Timeout, Up, NamesAgree
<1>20. ASSUME NEW f \in File, Release(f) PROVE NamesAgree'
  BY <1>20 DEF Release, CloseFile, Up, NamesAgree
<1>21. ASSUME NEW ok \in SUBSET Article, LateOp(ok) PROVE NamesAgree'
  BY <1>21 DEF LateOp, CloseFile, Up, NamesAgree
<1>22. ASSUME NEW f \in File, Deliver(f) PROVE NamesAgree'
  BY <1>22 DEF Deliver, Up, NamesAgree
<1>23. CASE Reevaluating
  BY <1>23, ReevaluatingFrame DEF IInv, Up, NamesAgree
<1>24. CASE Flush
  BY <1>24 DEF Flush, Up, NamesAgree
<1>25. CASE Crash
  BY <1>25 DEF Crash, NamesAgree, TypeOK, TypeDatabase
<1>26. ASSUME NEW f \in File, NEW p \in Path, NEW n \in Absent..MaxEnd,
              Tamper(f, p, n)
       PROVE  NamesAgree'
  BY <1>26 DEF Tamper, NamesAgree
<1>27. CASE Hydrate
  BY <1>27 DEF Hydrate, NamesAgree
<1>28. ASSUME NEW f \in File, ResumeFile(f) PROVE NamesAgree'
  BY <1>28 DEF ResumeFile, NamesAgree
<1>29. CASE ResumeFault
  BY <1>29 DEF ResumeFault, Up, NamesAgree
<1>30. CASE ReplaceFromRuns
  BY <1>30 DEF ReplaceFromRuns, NamesAgree
<1>31. ASSUME NEW f \in File, Strand(f) PROVE NamesAgree'
  BY <1>31 DEF Strand, Up, NamesAgree
<1>32. ASSUME NEW f \in File, StrandFault(f) PROVE NamesAgree'
  BY <1>32 DEF StrandFault, Up, NamesAgree
<1>33. CASE Started
  BY <1>33 DEF Started, NamesAgree
<1>34. CASE UNCHANGED vars
  BY <1>34 DEF vars, NamesAgree
<1> QED
  BY <1>1, <1>2, <1>3, <1>4, <1>5, <1>6, <1>7, <1>8, <1>9, <1>10, <1>11, <1>12,
     <1>13, <1>14, <1>15, <1>16, <1>17, <1>18, <1>19, <1>20, <1>21, <1>22,
     <1>23, <1>24, <1>25, <1>26, <1>27, <1>28, <1>29, <1>30, <1>31, <1>32,
     <1>33, <1>34
     DEF Next, Fetching, Assembling, Syncing, Completing, Restarting

\* A file completed on its part count is tombstoned in the same step.
LEMMA CompleteOnTombs ==
  ASSUME TypeOK, NEW f \in File, NEW sd, NEW sf,
         CompleteOn(f, sd, sf) \/ UNCHANGED <<tomb, fin>>,
         \A g \in File : fin[g] # "none" => g \in tomb
  PROVE  /\ tomb \subseteq tomb'
         /\ \A g \in File : fin'[g] # "none" => g \in tomb'
BY DEF CompleteOn, TypeOK, TypeBarrier, TypeWriter

\* From a finalize's drain to its end, its file gains no article.
LEMMA FinalizeIsAloneStep ==
  ASSUME TypeOK, TypeOK', DownIsQuiet, BarrierInOrder, FinalizeIsAlone, [Next]_vars
  PROVE  FinalizeIsAlone'
<1> USE DEF progress, pipe, cache, report, disk, db, barrier, life
<1>1. ASSUME NEW a \in Article, Emit(a) PROVE FinalizeIsAlone'
  BY <1>1 DEF Emit, Of, FinalizeIsAlone, TypeOK, TypeBarrier, TypeWriter
<1>2. ASSUME NEW a \in Article, RetryableFailure(a) PROVE FinalizeIsAlone'
  BY <1>2 DEF RetryableFailure, Of, FinalizeIsAlone, TypeOK, TypeBarrier,
     TypeWriter
<1>3. ASSUME NEW a \in Article, PermanentFailure(a) PROVE FinalizeIsAlone'
  BY <1>3 DEF PermanentFailure, Of, FinalizeIsAlone, TypeOK, TypeBarrier,
     TypeWriter
<1>4. ASSUME NEW a \in Article, NEW ok \in SUBSET Article,
             NEW bad \in SUBSET Article, NEW pre \in BOOLEAN,
             AcceptArticle(a, ok, bad, pre)
      PROVE  FinalizeIsAlone'
  <2>1. FileOf[a] \in File /\ FileOf[a] \notin tomb
    BY <1>4, ConstantAssumption DEF AcceptArticle
  <2>2. /\ tomb \subseteq tomb'
        /\ \A g \in File : fin'[g] # "none" => g \in tomb'
    BY <1>4, <2>1, CompleteOnTombs DEF AcceptArticle, FinalizeIsAlone
  <2>3. bfin # NoFile /\ Of(buf \cup written, bfin) = {} =>
          Of(buf' \cup written', bfin) = {}
    BY <1>4, <2>1 DEF AcceptArticle, FinalizeIsAlone, Of
  <2>4. UNCHANGED <<bpc, bfin, btodo, bfiles, bgot, reported>>
    BY <1>4 DEF AcceptArticle
  <2> QED BY <2>2, <2>3, <2>4 DEF FinalizeIsAlone, Of
<1>5. ASSUME NEW a \in Article, OpenFault(a) PROVE FinalizeIsAlone'
  BY <1>5 DEF OpenFault, Of, FinalizeIsAlone, TypeOK, TypeBarrier, TypeWriter
<1>6. ASSUME NEW a \in Article, LateDuplicate(a) PROVE FinalizeIsAlone'
  BY <1>6 DEF LateDuplicate, Of, FinalizeIsAlone, TypeOK, TypeBarrier,
     TypeWriter
<1>7. ASSUME NEW a \in Article, NEW pre \in BOOLEAN,
             FatalArticle(a, pre)
      PROVE  FinalizeIsAlone'
  <2>1. FileOf[a] \in File
    BY ConstantAssumption
  <2>2. /\ tomb \subseteq tomb'
        /\ \A g \in File : fin'[g] # "none" => g \in tomb'
    BY <1>7, <2>1, CompleteOnTombs DEF FatalArticle, FinalizeIsAlone
  <2> QED BY <1>7, <2>2 DEF FatalArticle, FinalizeIsAlone, Of
<1>8. CASE Checkpoint
  BY <1>8 DEF Checkpoint, StartBarrier, Idle, Of, FinalizeIsAlone, TypeOK,
     TypeBarrier, TypeWriter
<1>9. ASSUME NEW f \in File, Finalize(f) PROVE FinalizeIsAlone'
  BY <1>9 DEF Finalize, StartBarrier, Idle, Of, FinalizeIsAlone, TypeOK,
     TypeBarrier, TypeWriter
<1>10. ASSUME NEW f \in File, NEW ok \in SUBSET Article,
              Drain(f, ok)
       PROVE  FinalizeIsAlone'
  <2>1. CASE f \notin open
    BY <1>10, <2>1 DEF Drain, FileGone, FinalizeReturns, Reset, FinalizeIsAlone,
       Of, TypeOK, TypeBarrier
  <2>2. CASE f \in open /\ ok # Of(buf, f)
    BY <1>10, <2>2 DEF Drain, Abort, Reset, FinalizeIsAlone, TypeOK, TypeBarrier
  <2>3. CASE f \in open /\ ok = Of(buf, f)
    <3>1. UNCHANGED <<fin, tomb, bpc, bfin>>
      BY <1>10, <2>3 DEF Drain
    <3>2. CASE bfin = NoFile
      BY <3>1, <3>2 DEF FinalizeIsAlone
    <3>3. CASE bfin # NoFile
      <4>1. f = bfin
        BY <1>10, <3>3 DEF Drain, FinalizeIsAlone
      <4>2. Of(buf' \cup written', f) = {} /\ Of(reported', f) \subseteq bgot'
        BY <1>10, <2>3 DEF Drain, DrainFile, Of, Arts, TypeOK, TypeWriter
      <4>3. btodo' \cup bfiles' \subseteq {bfin}
        BY <1>10, <2>3, <3>3, <4>1 DEF Drain, FinalizeIsAlone
      <4> QED BY <1>10, <3>1, <3>3, <4>1, <4>2, <4>3 DEF Drain, FinalizeIsAlone, Of
    <3> QED BY <3>2, <3>3
  <2> QED BY <2>1, <2>2, <2>3
<1>11. ASSUME NEW f \in File, Sync(f) PROVE FinalizeIsAlone'
  BY <1>11 DEF Sync, SyncFile, FileGone, Abort, FinalizeReturns, Reset, Of,
     FinalizeIsAlone, TypeOK, TypeBarrier, TypeWriter
<1>12. ASSUME NEW f \in File, Truncate(f) PROVE FinalizeIsAlone'
  BY <1>12 DEF Truncate, TruncateFile, FileGone, Abort, FinalizeReturns, Reset,
     Of, FinalizeIsAlone, TypeOK, TypeBarrier, TypeWriter
<1>13. ASSUME NEW f \in File, Stat(f) PROVE FinalizeIsAlone'
  BY <1>13 DEF Stat, FileGone, Abort, FinalizeReturns, Reset, Of,
     FinalizeIsAlone, TypeOK, TypeBarrier, TypeWriter
<1>14. CASE Advance
  <2>1. bpc' \in {"truncate", "sync2"} => bfin # NoFile
    BY <1>14 DEF Advance, NextPhase, FinalizeIsAlone
  <2>2. UNCHANGED <<fin, tomb, bfin, bfiles, bgot, buf, written, reported>>
    BY <1>14 DEF Advance
  <2>3. btodo = {} /\ btodo' = bfiles
    BY <1>14 DEF Advance
  <2> QED BY <2>1, <2>2, <2>3 DEF FinalizeIsAlone, Of
<1>15. CASE Commit
  BY <1>15 DEF Commit, Abort, Reset, Of, FinalizeIsAlone, TypeOK, TypeBarrier,
     TypeWriter
<1>16. CASE Ack
  BY <1>16 DEF Ack, Abort, Reset, Of, FinalizeIsAlone, TypeOK, TypeBarrier,
     TypeWriter
<1>17. ASSUME NEW f \in File, Confirm(f) PROVE FinalizeIsAlone'
  BY <1>17 DEF Confirm, ConfirmFile, Of, FinalizeIsAlone, TypeOK, TypeBarrier,
     TypeWriter
<1>18. CASE BarrierReturns
  BY <1>18 DEF BarrierReturns, FinalizeReturns, Reset, Of, FinalizeIsAlone,
     TypeOK, TypeBarrier, TypeWriter
<1>19. ASSUME NEW f \in File, Timeout(f) PROVE FinalizeIsAlone'
  BY <1>19 DEF Timeout, Abort, Reset, Of, FinalizeIsAlone, TypeOK, TypeBarrier,
     TypeWriter
<1>20. ASSUME NEW f \in File, Release(f) PROVE FinalizeIsAlone'
  BY <1>20 DEF Release, CloseFile, Of, FinalizeIsAlone, TypeOK, TypeBarrier,
     TypeWriter
<1>21. ASSUME NEW ok \in SUBSET Article, LateOp(ok) PROVE FinalizeIsAlone'
  BY <1>21 DEF LateOp, DrainFile, SyncFile, TruncateFile, ConfirmFile,
     CloseFile, Of, FinalizeIsAlone, TypeOK, TypeBarrier, TypeWriter
<1>22. ASSUME NEW f \in File, Deliver(f) PROVE FinalizeIsAlone'
  BY <1>22 DEF Deliver, Of, FinalizeIsAlone, TypeOK, TypeBarrier, TypeWriter
<1>23. CASE Reevaluating
  BY <1>23, ReevaluatingFrame DEF IInv, Idle, Of, FinalizeIsAlone, TypeOK, TypeBarrier,
     TypeWriter
<1>24. CASE Flush
  BY <1>24 DEF Flush, Of, FinalizeIsAlone, TypeOK, TypeBarrier, TypeWriter
<1>25. CASE Crash
  BY <1>25 DEF Crash, Reset, Of, FinalizeIsAlone, TypeOK, TypeBarrier,
     TypeWriter
<1>26. ASSUME NEW f \in File, NEW p \in Path, NEW n \in Absent..MaxEnd,
              Tamper(f, p, n)
       PROVE  FinalizeIsAlone'
  BY <1>26 DEF Tamper, Of, FinalizeIsAlone, TypeOK, TypeBarrier, TypeWriter
<1>27. CASE Hydrate
  BY <1>27 DEF Hydrate, Of, FinalizeIsAlone, TypeOK, TypeBarrier, TypeWriter
<1>28. ASSUME NEW f \in File, ResumeFile(f) PROVE FinalizeIsAlone'
  BY <1>28 DEF ResumeFile, Of, FinalizeIsAlone, TypeOK, TypeBarrier, TypeWriter
<1>29. CASE ResumeFault
  BY <1>29 DEF ResumeFault, Of, FinalizeIsAlone, TypeOK, TypeBarrier,
     TypeWriter
<1>30. CASE ReplaceFromRuns
  BY <1>30 DEF ReplaceFromRuns, Of, FinalizeIsAlone, TypeOK, TypeBarrier,
     TypeWriter
<1>31. ASSUME NEW f \in File, Strand(f) PROVE FinalizeIsAlone'
  BY <1>31 DEF Strand, Of, FinalizeIsAlone, TypeOK, TypeBarrier, TypeWriter
<1>32. ASSUME NEW f \in File, StrandFault(f) PROVE FinalizeIsAlone'
  BY <1>32 DEF StrandFault, Of, FinalizeIsAlone, TypeOK, TypeBarrier,
     TypeWriter
<1>33. CASE Started
  BY <1>33 DEF Started, Of, FinalizeIsAlone, TypeOK, TypeBarrier, TypeWriter
<1>34. CASE UNCHANGED vars
  BY <1>34 DEF vars, Of, FinalizeIsAlone, TypeOK, TypeBarrier, TypeWriter
<1> QED
  BY <1>1, <1>2, <1>3, <1>4, <1>5, <1>6, <1>7, <1>8, <1>9, <1>10, <1>11, <1>12,
     <1>13, <1>14, <1>15, <1>16, <1>17, <1>18, <1>19, <1>20, <1>21, <1>22,
     <1>23, <1>24, <1>25, <1>26, <1>27, <1>28, <1>29, <1>30, <1>31, <1>32,
     <1>33, <1>34
     DEF Next, Fetching, Assembling, Syncing, Completing, Restarting

\* A truncate that outlived its caller cuts nothing anyone came to rely on.
LEMMA LateCutIsSafeStep ==
  ASSUME TypeOK, TypeOK', DownIsQuiet, BarrierInOrder, FinalizeIsAlone, LateCutIsSafe, [Next]_vars
  PROVE  LateCutIsSafe'
<1> USE DEF progress, pipe, cache, report, disk, db, barrier, life
<1>1. ASSUME NEW a \in Article, Emit(a) PROVE LateCutIsSafe'
  BY <1>1 DEF Emit, Of, NoOp, Idle, LateCutIsSafe, TypeOK, TypeBarrier,
     TypeWriter
<1>2. ASSUME NEW a \in Article, RetryableFailure(a) PROVE LateCutIsSafe'
  BY <1>2 DEF RetryableFailure, Of, NoOp, Idle, LateCutIsSafe, TypeOK,
     TypeBarrier, TypeWriter
<1>3. ASSUME NEW a \in Article, PermanentFailure(a) PROVE LateCutIsSafe'
  BY <1>3 DEF PermanentFailure, Of, NoOp, Idle, LateCutIsSafe, TypeOK,
     TypeBarrier, TypeWriter
<1>4. ASSUME NEW a \in Article, NEW ok \in SUBSET Article,
             NEW bad \in SUBSET Article, NEW pre \in BOOLEAN,
             AcceptArticle(a, ok, bad, pre)
      PROVE  LateCutIsSafe'
  <2>1. FileOf[a] \in File /\ FileOf[a] \notin tomb
    BY <1>4, ConstantAssumption DEF AcceptArticle
  <2>2. tomb \subseteq tomb'
    BY <1>4, <2>1, CompleteOnTombs DEF AcceptArticle, FinalizeIsAlone
  <2>3. late.file \in tomb /\ Of(buf, late.file) = {} =>
          /\ Of(buf', late.file) = {}
          /\ Of(written', late.file) = Of(written, late.file)
    BY <1>4, <2>1 DEF AcceptArticle, Of
  <2>4. UNCHANGED <<late, bpc, reported, runs>>
    BY <1>4 DEF AcceptArticle
  <2> QED BY <2>2, <2>3, <2>4 DEF LateCutIsSafe, Idle, Of
<1>5. ASSUME NEW a \in Article, OpenFault(a) PROVE LateCutIsSafe'
  BY <1>5 DEF OpenFault, Of, NoOp, Idle, LateCutIsSafe, TypeOK, TypeBarrier,
     TypeWriter
<1>6. ASSUME NEW a \in Article, LateDuplicate(a) PROVE LateCutIsSafe'
  BY <1>6 DEF LateDuplicate, Of, NoOp, Idle, LateCutIsSafe, TypeOK,
     TypeBarrier, TypeWriter
<1>7. ASSUME NEW a \in Article, NEW pre \in BOOLEAN,
             FatalArticle(a, pre)
      PROVE  LateCutIsSafe'
  <2>1. FileOf[a] \in File
    BY ConstantAssumption
  <2>2. tomb \subseteq tomb'
    BY <1>7, <2>1, CompleteOnTombs DEF FatalArticle, FinalizeIsAlone
  <2> QED BY <1>7, <2>2 DEF FatalArticle, LateCutIsSafe, Idle, Of
<1>8. CASE Checkpoint
  BY <1>8 DEF Checkpoint, StartBarrier, Idle, Of, NoOp, LateCutIsSafe, TypeOK,
     TypeBarrier, TypeWriter
<1>9. ASSUME NEW f \in File, Finalize(f) PROVE LateCutIsSafe'
  BY <1>9 DEF Finalize, StartBarrier, Idle, Of, NoOp, LateCutIsSafe, TypeOK,
     TypeBarrier, TypeWriter
<1>10. ASSUME NEW f \in File, NEW ok \in SUBSET Article,
              Drain(f, ok)
       PROVE  LateCutIsSafe'
  BY <1>10 DEF Drain, FileGone, DrainFile, Abort, FinalizeReturns, Reset, Of,
     NoOp, Idle, LateCutIsSafe, TypeOK, TypeBarrier, TypeWriter
<1>11. ASSUME NEW f \in File, Sync(f) PROVE LateCutIsSafe'
  BY <1>11 DEF Sync, SyncFile, FileGone, Abort, FinalizeReturns, Reset, Of,
     NoOp, Idle, LateCutIsSafe, TypeOK, TypeBarrier, TypeWriter
<1>12. ASSUME NEW f \in File, Truncate(f) PROVE LateCutIsSafe'
  BY <1>12 DEF Truncate, TruncateFile, FileGone, Abort, FinalizeReturns, Reset,
     Of, NoOp, Idle, LateCutIsSafe, TypeOK, TypeBarrier, TypeWriter
<1>13. ASSUME NEW f \in File, Stat(f) PROVE LateCutIsSafe'
  BY <1>13 DEF Stat, FileGone, Abort, FinalizeReturns, Reset, Of, NoOp, Idle,
     LateCutIsSafe, TypeOK, TypeBarrier, TypeWriter
<1>14. CASE Advance
  BY <1>14 DEF Advance, Of, NoOp, Idle, LateCutIsSafe, TypeOK, TypeBarrier,
     TypeWriter
<1>15. CASE Commit
  BY <1>15 DEF Commit, Abort, Reset, Of, NoOp, Idle, LateCutIsSafe, TypeOK,
     TypeBarrier, TypeWriter
<1>16. CASE Ack
  BY <1>16 DEF Ack, Abort, Reset, Of, NoOp, Idle, LateCutIsSafe, TypeOK,
     TypeBarrier, TypeWriter
<1>17. ASSUME NEW f \in File, Confirm(f) PROVE LateCutIsSafe'
  BY <1>17 DEF Confirm, ConfirmFile, Of, NoOp, Idle, LateCutIsSafe, TypeOK,
     TypeBarrier, TypeWriter
<1>18. CASE BarrierReturns
  BY <1>18 DEF BarrierReturns, FinalizeReturns, Reset, Of, NoOp, Idle,
     LateCutIsSafe, TypeOK, TypeBarrier, TypeWriter
<1>19. ASSUME NEW f \in File, Timeout(f) PROVE LateCutIsSafe'
  <2>1. CASE bpc = "truncate"
    <3>1. bfin # NoFile /\ f = bfin /\ f \in tomb
      BY <1>19, <2>1 DEF Timeout, FinalizeIsAlone
    <3>2. Of(buf \cup written, f) = {} /\ Of(reported, f) \subseteq bgot
      BY <2>1, <3>1 DEF FinalizeIsAlone
    <3>3. Of(runs, f) \cup bgot \in SUBSET Article
      BY DEF Of, TypeOK, TypeDatabase, TypeBarrier
    <3>4. \A a \in Of(runs, f) \cup bgot : End[a] <= Bound(f)
      BY <3>3, BoundOver DEF Bound
    <3>5. \A a \in Of(written \cup reported \cup runs, f) : End[a] <= Bound(f)
      BY <3>2, <3>4 DEF Of
    <3>6. late' = late \/ (late'.op = "truncate" /\ late'.file = f /\ late'.bound = Bound(f))
      BY <1>19, <2>1 DEF Timeout
    <3>8. late.op = "none"
      BY <1>19 DEF Timeout
    <3>7. bpc' = "idle" /\ UNCHANGED <<tomb, buf, written, reported, runs>>
      BY <1>19, <2>1 DEF Timeout, Abort, Reset
    <3> QED BY <3>1, <3>2, <3>5, <3>6, <3>7, <3>8 DEF LateCutIsSafe, Idle, Of
  <2>2. CASE bpc # "truncate"
    BY <1>19, <2>2 DEF Timeout, LateCutIsSafe
  <2> QED BY <2>1, <2>2
<1>20. ASSUME NEW f \in File, Release(f) PROVE LateCutIsSafe'
  BY <1>20 DEF Release, CloseFile, Of, NoOp, Idle, LateCutIsSafe, TypeOK,
     TypeBarrier, TypeWriter
<1>21. ASSUME NEW ok \in SUBSET Article, LateOp(ok) PROVE LateCutIsSafe'
  BY <1>21 DEF LateOp, DrainFile, SyncFile, TruncateFile, ConfirmFile,
     CloseFile, Of, NoOp, Idle, LateCutIsSafe, TypeOK, TypeBarrier, TypeWriter
<1>22. ASSUME NEW f \in File, Deliver(f) PROVE LateCutIsSafe'
  BY <1>22 DEF Deliver, Of, NoOp, Idle, LateCutIsSafe, TypeOK, TypeBarrier,
     TypeWriter
<1>23. CASE Reevaluating
  BY <1>23, ReevaluatingFrame DEF IInv, Idle, Of, NoOp, LateCutIsSafe, TypeOK, TypeBarrier,
     TypeWriter
<1>24. CASE Flush
  BY <1>24 DEF Flush, Of, NoOp, Idle, LateCutIsSafe, TypeOK, TypeBarrier,
     TypeWriter
<1>25. CASE Crash
  BY <1>25 DEF Crash, Reset, Of, NoOp, Idle, LateCutIsSafe, TypeOK,
     TypeBarrier, TypeWriter
<1>26. ASSUME NEW f \in File, NEW p \in Path, NEW n \in Absent..MaxEnd,
              Tamper(f, p, n)
       PROVE  LateCutIsSafe'
  BY <1>26 DEF Tamper, Of, NoOp, Idle, LateCutIsSafe, TypeOK, TypeBarrier,
     TypeWriter
<1>27. CASE Hydrate
  BY <1>27 DEF Hydrate, Of, NoOp, Idle, LateCutIsSafe, TypeOK, TypeBarrier,
     TypeWriter
<1>28. ASSUME NEW f \in File, ResumeFile(f) PROVE LateCutIsSafe'
  BY <1>28 DEF ResumeFile, Of, NoOp, Idle, LateCutIsSafe, TypeOK, TypeBarrier,
     TypeWriter
<1>29. CASE ResumeFault
  BY <1>29 DEF ResumeFault, Of, NoOp, Idle, LateCutIsSafe, TypeOK, TypeBarrier,
     TypeWriter
<1>30. CASE ReplaceFromRuns
  BY <1>30 DEF ReplaceFromRuns, Of, NoOp, Idle, LateCutIsSafe, TypeOK,
     TypeBarrier, TypeWriter
<1>31. ASSUME NEW f \in File, Strand(f) PROVE LateCutIsSafe'
  BY <1>31 DEF Strand, Of, NoOp, Idle, LateCutIsSafe, TypeOK, TypeBarrier,
     TypeWriter
<1>32. ASSUME NEW f \in File, StrandFault(f) PROVE LateCutIsSafe'
  BY <1>32 DEF StrandFault, Of, NoOp, Idle, LateCutIsSafe, TypeOK, TypeBarrier,
     TypeWriter
<1>33. CASE Started
  BY <1>33 DEF Started, Of, NoOp, Idle, LateCutIsSafe, TypeOK, TypeBarrier,
     TypeWriter
<1>34. CASE UNCHANGED vars
  BY <1>34 DEF vars, Of, NoOp, Idle, LateCutIsSafe, TypeOK, TypeBarrier,
     TypeWriter
<1> QED
  BY <1>1, <1>2, <1>3, <1>4, <1>5, <1>6, <1>7, <1>8, <1>9, <1>10, <1>11, <1>12,
     <1>13, <1>14, <1>15, <1>16, <1>17, <1>18, <1>19, <1>20, <1>21, <1>22,
     <1>23, <1>24, <1>25, <1>26, <1>27, <1>28, <1>29, <1>30, <1>31, <1>32,
     <1>33, <1>34
     DEF Next, Fetching, Assembling, Syncing, Completing, Restarting


-----------------------------------------------------------------------------
(* Nothing that anyone relies on loses its bytes *)

\* Recorded, reported by a writer, or drained by the running barrier.
Claimed == runs \cup written \cup reported \cup bgot

BytesKept ==
  \A a \in Claimed : /\ InPage(a) => InPage(a)'
                     /\ InPage(a) /\ InPlate(a) => InPlate(a)'

\* What the barrier's truncate cuts at covers everything claimed of the file.
LEMMA TruncateBound ==
  ASSUME IInv, NEW f \in File, f \in btodo, bpc = "truncate"
  PROVE  /\ Bound(f) \in 0..MaxEnd
         /\ \A a \in Of(Claimed, f) : End[a] <= Bound(f)
<1> USE DEF IInv
<1>1. bfin # NoFile /\ f = bfin
  BY DEF FinalizeIsAlone
<1>2. Of(buf \cup written, f) = {} /\ Of(reported, f) \subseteq bgot
  BY <1>1 DEF FinalizeIsAlone
<1>3. Of(runs, f) \cup bgot \in SUBSET Article
  BY DEF Of, TypeOK, TypeDatabase, TypeBarrier
<1>4. /\ Bound(f) \in 0..MaxEnd
      /\ \A a \in Of(runs, f) \cup bgot : End[a] <= Bound(f)
  BY <1>3, BoundOver DEF Bound
<1>5. Of(Claimed, f) \subseteq Of(runs, f) \cup bgot
  BY <1>2 DEF Claimed, Of
<1> QED BY <1>4, <1>5

\* So does the bound of a truncate nobody waits for any more.
LEMMA LateBound ==
  ASSUME IInv, late.op = "truncate"
  PROVE  /\ late.bound \in 0..MaxEnd
         /\ \A a \in Of(Claimed, late.file) : End[a] <= late.bound
<1>1. bgot = {}
  BY DEF IInv, LateCutIsSafe, Idle, BarrierInOrder
<1>2. \A a \in Of(written \cup reported \cup runs, late.file) :
         End[a] <= late.bound
  BY DEF IInv, LateCutIsSafe
<1>3. Of(Claimed, late.file) = Of(written \cup reported \cup runs, late.file)
  BY <1>1 DEF Claimed, Of
<1>4. late.bound \in 0..MaxEnd
  BY DEF IInv, TypeOK, TypeBarrier
<1> QED BY <1>2, <1>3, <1>4

\* And so does what the startup trim cuts at.
LEMMA TrimBound ==
  ASSUME IInv, NEW f \in File, phase = "strand"
  PROVE  /\ boundOver(Of(runs, f)) \in 0..MaxEnd
         /\ \A a \in Of(Claimed, f) : End[a] <= boundOver(Of(runs, f))
<1>1. Of(runs, f) \in SUBSET Article
  BY DEF Of, IInv, TypeOK, TypeDatabase
<1>2. written = {} /\ reported = {} /\ bgot = {}
  BY DEF IInv, DownIsQuiet, BarrierInOrder
<1>3. Of(Claimed, f) = Of(runs, f)
  BY <1>2 DEF Claimed, Of
<1> QED BY <1>1, <1>3, BoundOver

\* What anyone relies on is a set of articles.
LEMMA ClaimedType ==
  ASSUME TypeOK PROVE Claimed \subseteq Article
BY DEF Claimed, TypeOK, TypeDatabase, TypeWriter, TypeBarrier

\* An open file has a path.
LEMMA OpenIsNamed ==
  ASSUME IInv, NEW f \in open PROVE f \in File /\ name[f] # 0
BY DEF IInv, NamesAgree, TypeOK, TypeWriter

\* While a process runs or starts, a step takes no claimed article's bytes.
LEMMA BytesKeptStep ==
  ASSUME IInv, phase' # "down", [Next]_vars
  PROVE  BytesKept
<1> USE DEF progress, pipe, cache, report, disk, db, barrier, life
<1>1. ASSUME NEW a \in Article, Emit(a) PROVE BytesKept
  BY <1>1 DEF Emit, BytesKept, InPage, InPlate, Holds
<1>2. ASSUME NEW a \in Article, RetryableFailure(a) PROVE BytesKept
  BY <1>2 DEF RetryableFailure, BytesKept, InPage, InPlate, Holds
<1>3. ASSUME NEW a \in Article, PermanentFailure(a) PROVE BytesKept
  <2>1. FileOf[a] \in File /\ Register(FileOf[a]) /\ UNCHANGED disk
    BY <1>3, ConstantAssumption DEF PermanentFailure
  <2> QED BY <2>1, RegisterKeepsBytes, ClaimedType DEF BytesKept, IInv
<1>4. ASSUME NEW a \in Article, NEW ok \in SUBSET Article,
             NEW bad \in SUBSET Article, NEW pre \in BOOLEAN,
             AcceptArticle(a, ok, bad, pre)
      PROVE  BytesKept
  BY <1>4, AcceptKeepsBytes, ClaimedType DEF BytesKept, IInv
<1>5. ASSUME NEW a \in Article, OpenFault(a) PROVE BytesKept
  <2>1. FileOf[a] \in File /\ Register(FileOf[a]) /\ UNCHANGED disk
    BY <1>5, ConstantAssumption DEF OpenFault
  <2> QED BY <2>1, RegisterKeepsBytes, ClaimedType DEF BytesKept, IInv
<1>6. ASSUME NEW a \in Article, LateDuplicate(a) PROVE BytesKept
  BY <1>6 DEF LateDuplicate, BytesKept, InPage, InPlate, Holds
<1>7. ASSUME NEW a \in Article, NEW pre \in BOOLEAN,
             FatalArticle(a, pre)
      PROVE  BytesKept
  BY <1>7, FatalKeepsBytes, ClaimedType DEF BytesKept, IInv
<1>8. CASE Checkpoint
  BY <1>8 DEF Checkpoint, BytesKept, InPage, InPlate, Holds
<1>9. ASSUME NEW f \in File, Finalize(f) PROVE BytesKept
  BY <1>9 DEF Finalize, BytesKept, InPage, InPlate, Holds
<1>10. ASSUME NEW f \in File, NEW ok \in SUBSET Article,
              Drain(f, ok)
       PROVE  BytesKept
  <2>1. CASE f \notin open
    BY <1>10, <2>1 DEF Drain, BytesKept, InPage, InPlate, Holds
  <2>2. CASE f \in open
    <3>1. \A a \in Claimed : InPage(a) => InPage(a)'
      BY <1>10, <2>2, DrainKeepsBytes, ClaimedType, OpenIsNamed DEF Drain, IInv
    <3>2. \A a \in Claimed : InPlate(a) => InPlate(a)'
      BY <1>10 DEF Drain, InPlate, Holds
    <3> QED BY <3>1, <3>2 DEF BytesKept
  <2> QED BY <2>1, <2>2
<1>11. ASSUME NEW f \in File, Sync(f) PROVE BytesKept
  <2>1. CASE UNCHANGED <<disk, name>>
    BY <2>1 DEF BytesKept, InPage, InPlate, Holds
  <2>2. CASE SyncFile(f) /\ UNCHANGED <<page, size, name>>
    <3>1. \A a \in Claimed : InPage(a) => InPage(a)'
      BY <2>2 DEF InPage, Holds
    <3>2. \A a \in Claimed : InPage(a) /\ InPlate(a) => InPlate(a)'
      BY <2>2, SyncKeepsBytes, ClaimedType DEF IInv
    <3> QED BY <3>1, <3>2 DEF BytesKept
  <2> QED BY <1>11, <2>1, <2>2 DEF Sync
<1>12. ASSUME NEW f \in File, Truncate(f) PROVE BytesKept
  <2>1. CASE UNCHANGED <<disk, name>>
    BY <2>1 DEF BytesKept, InPage, InPlate, Holds
  <2>2. CASE TruncateFile(f, Bound(f)) /\ UNCHANGED <<plate, psize, name>>
    <3>1. f \in btodo /\ bpc = "truncate"
      BY <1>12 DEF Truncate
    <3>2. \A a \in Claimed : FileOf[a] = f => End[a] <= Bound(f)
      BY <3>1, TruncateBound DEF Of
    <3>3. \A a \in Claimed : InPage(a) => InPage(a)'
      BY <2>2, <3>1, <3>2, TruncateBound, TruncateKeepsBytes, ClaimedType
         DEF IInv
    <3>4. \A a \in Claimed : InPlate(a) => InPlate(a)'
      BY <2>2 DEF InPlate, Holds
    <3> QED BY <3>3, <3>4 DEF BytesKept
  <2> QED BY <1>12, <2>1, <2>2 DEF Truncate
<1>13. ASSUME NEW f \in File, Stat(f) PROVE BytesKept
  BY <1>13 DEF Stat, BytesKept, InPage, InPlate, Holds
<1>14. CASE Advance
  BY <1>14 DEF Advance, BytesKept, InPage, InPlate, Holds
<1>15. CASE Commit
  BY <1>15 DEF Commit, BytesKept, InPage, InPlate, Holds
<1>16. CASE Ack
  BY <1>16 DEF Ack, BytesKept, InPage, InPlate, Holds
<1>17. ASSUME NEW f \in File, Confirm(f) PROVE BytesKept
  BY <1>17 DEF Confirm, BytesKept, InPage, InPlate, Holds
<1>18. CASE BarrierReturns
  BY <1>18 DEF BarrierReturns, BytesKept, InPage, InPlate, Holds
<1>19. ASSUME NEW f \in File, Timeout(f) PROVE BytesKept
  BY <1>19 DEF Timeout, BytesKept, InPage, InPlate, Holds
<1>20. ASSUME NEW f \in File, Release(f) PROVE BytesKept
  <2>1. CASE UNCHANGED <<disk, name>>
    BY <2>1 DEF BytesKept, InPage, InPlate, Holds
  <2>2. ASSUME f \in open, NEW synced \in BOOLEAN,
               NEW ok \in SUBSET Article, CloseFile(f, ok, synced), UNCHANGED name
        PROVE  BytesKept
    BY <2>2, CloseKeepsBytes, ClaimedType, OpenIsNamed DEF BytesKept, IInv
  <2>3. UNCHANGED name
    BY <1>20 DEF Release
  <2> QED BY <1>20, <2>1, <2>2, <2>3, ReleaseCloses DEF IInv
<1>21. ASSUME NEW ok \in SUBSET Article, LateOp(ok) PROVE BytesKept
  <2> DEFINE f == late.file
  <2>1. CASE UNCHANGED <<disk, name>>
    BY <2>1 DEF BytesKept, InPage, InPlate, Holds
  <2>2. CASE f \in open /\ late.op = "drain"
    <3>1. \A a \in Claimed : InPage(a) => InPage(a)'
      BY <1>21, <2>2, DrainKeepsBytes, ClaimedType, OpenIsNamed DEF LateOp, IInv
    <3>2. \A a \in Claimed : InPlate(a) => InPlate(a)'
      BY <1>21, <2>2 DEF LateOp, InPlate, Holds
    <3> QED BY <3>1, <3>2 DEF BytesKept
  <2>3. CASE f \in open /\ late.op \in {"sync", "sync2"}
    <3>1. SyncFile(f) /\ UNCHANGED <<page, size, name>> /\ f \in File
      BY <1>21, <2>3, OpenIsNamed DEF LateOp
    <3>2. \A a \in Claimed : InPage(a) => InPage(a)'
      BY <3>1 DEF InPage, Holds
    <3>3. \A a \in Claimed : InPage(a) /\ InPlate(a) => InPlate(a)'
      BY <3>1, SyncKeepsBytes, ClaimedType DEF IInv
    <3> QED BY <3>2, <3>3 DEF BytesKept
  <2>4. CASE f \in open /\ late.op = "truncate"
    <3>1. /\ TruncateFile(f, late.bound) /\ UNCHANGED <<plate, psize, name>>
          /\ f \in File
      BY <1>21, <2>4, OpenIsNamed DEF LateOp
    <3>2. \A a \in Claimed : FileOf[a] = f => End[a] <= late.bound
      BY <2>4, LateBound DEF Of
    <3>3. \A a \in Claimed : InPage(a) => InPage(a)'
      BY <2>4, <3>1, <3>2, LateBound, TruncateKeepsBytes, ClaimedType DEF IInv
    <3>4. \A a \in Claimed : InPlate(a) => InPlate(a)'
      BY <3>1 DEF InPlate, Holds
    <3> QED BY <3>3, <3>4 DEF BytesKept
  <2>5. CASE f \in open /\ late.op = "close"
    <3>1. CloseFile(f, ok, TRUE) /\ UNCHANGED name
      BY <1>21, <2>5 DEF LateOp
    <3> QED
      BY <2>5, <3>1, CloseKeepsBytes, ClaimedType, OpenIsNamed
         DEF BytesKept, IInv
  <2> QED BY <1>21, <2>1, <2>2, <2>3, <2>4, <2>5 DEF LateOp
<1>22. ASSUME NEW f \in File, Deliver(f) PROVE BytesKept
  BY <1>22 DEF Deliver, BytesKept, InPage, InPlate, Holds
<1>23. CASE Reevaluating
  BY <1>23, ReevaluatingFrame DEF IInv, BytesKept, InPage, InPlate, Holds
<1>24. CASE Flush
  BY <1>24 DEF Flush, BytesKept, InPage, InPlate, Holds
<1>25. CASE Crash
  BY <1>25 DEF Crash
<1>26. ASSUME NEW f \in File, NEW p \in Path, NEW n \in Absent..MaxEnd,
              Tamper(f, p, n)
       PROVE  BytesKept
  BY <1>26 DEF Tamper
<1>27. CASE Hydrate
  BY <1>27 DEF Hydrate, BytesKept, InPage, InPlate, Holds
<1>28. ASSUME NEW f \in File, ResumeFile(f) PROVE BytesKept
  BY <1>28 DEF ResumeFile, BytesKept, InPage, InPlate, Holds
<1>29. CASE ResumeFault
  BY <1>29 DEF ResumeFault, BytesKept, InPage, InPlate, Holds
<1>30. CASE ReplaceFromRuns
  BY <1>30 DEF ReplaceFromRuns, BytesKept, InPage, InPlate, Holds
<1>31. ASSUME NEW f \in File, Strand(f) PROVE BytesKept
  <2> DEFINE n == boundOver(Of(runs, f))
  <2>1. /\ n \in 0..MaxEnd
        /\ \A a \in Claimed : FileOf[a] = f => End[a] <= n
    BY <1>31, TrimBound DEF Strand, Of
  <2> HIDE DEF n
  <2>2. CASE UNCHANGED <<disk, name>>
    BY <2>2 DEF BytesKept, InPage, InPlate, Holds
  <2>3. CASE /\ TruncateFile(f, n) /\ UNCHANGED name
             /\ plate' = [plate EXCEPT ![name[f]] = @ \ Beyond(f, n)]
             /\ psize' = [psize EXCEPT ![f][name[f]] = n]
    <3>1. \A a \in Claimed : InPage(a) => InPage(a)'
      BY <2>1, <2>3, TruncateKeepsBytes, ClaimedType DEF IInv
    <3>2. ASSUME NEW a \in Claimed, InPlate(a) PROVE InPlate(a)'
      <4>1. a \in Article /\ FileOf[a] \in File /\ name[FileOf[a]] \in Path
        BY <3>2, ClaimedType, ConstantAssumption
           DEF IInv, TypeOK, TypeProgress, InPlate, Holds
      <4>2. a \notin Beyond(f, n)
        BY <2>1, <4>1, ConstantAssumption DEF Beyond
      <4>3. a \in plate'[name[FileOf[a]]]
        BY <2>3, <3>2, <4>1, <4>2 DEF InPlate, Holds, IInv, TypeOK, TypeDisk
      <4>4. End[a] <= psize'[FileOf[a]][name[FileOf[a]]]
        BY <2>1, <2>3, <3>2, <4>1 DEF InPlate, IInv, TypeOK, TypeDisk
      <4> QED BY <2>3, <3>2, <4>3, <4>4 DEF InPlate, Holds
    <3> QED BY <3>1, <3>2 DEF BytesKept
  <2> QED BY <1>31, <2>2, <2>3 DEF Strand, n
<1>32. ASSUME NEW f \in File, StrandFault(f) PROVE BytesKept
  BY <1>32 DEF StrandFault, BytesKept, InPage, InPlate, Holds
<1>33. CASE Started
  BY <1>33 DEF Started, BytesKept, InPage, InPlate, Holds
<1>34. CASE UNCHANGED vars
  BY <1>34 DEF vars, BytesKept, InPage, InPlate, Holds
<1> QED
  BY <1>1, <1>2, <1>3, <1>4, <1>5, <1>6, <1>7, <1>8, <1>9, <1>10, <1>11, <1>12,
     <1>13, <1>14, <1>15, <1>16, <1>17, <1>18, <1>19, <1>20, <1>21, <1>22,
     <1>23, <1>24, <1>25, <1>26, <1>27, <1>28, <1>29, <1>30, <1>31, <1>32,
     <1>33, <1>34
     DEF Next, Fetching, Assembling, Syncing, Completing, Restarting

\* A step that leaves the writer alone and keeps bytes keeps its report backed.
LEMMA WriterFrame ==
  ASSUME IInv, BytesKept, open \subseteq open', buf' \subseteq buf,
         written' \cup reported' \subseteq written \cup reported
  PROVE  WriterHoldsPages'
<1>1. \A a \in written \cup reported : InPage(a)'
  BY DEF BytesKept, Claimed, IInv, WriterHoldsPages
<1>2. \A a \in buf \cup written \cup reported : FileOf[a] \in open'
  BY DEF IInv, WriterHoldsPages
<1> QED BY <1>1, <1>2 DEF WriterHoldsPages

\* After a drain the writer's report is backed by the file.
LEMMA DrainWriter ==
  ASSUME IInv, BytesKept, NEW f \in open, NEW ok \in SUBSET Article,
         DrainFile(f, ok), UNCHANGED <<open, name>>
  PROVE  WriterHoldsPages' /\ \A a \in ok : InPage(a)'
<1>1. \A a \in ok : InPage(a)'
  BY DrainKeepsBytes, OpenIsNamed DEF IInv
<1>2. \A a \in written \cup reported : InPage(a)'
  BY DEF BytesKept, Claimed, IInv, WriterHoldsPages
<1>3. /\ written' \cup reported' \subseteq written \cup reported \cup ok
      /\ buf' \subseteq buf /\ ok \subseteq buf
  BY DEF DrainFile, Of
<1>4. \A a \in buf \cup written \cup reported : FileOf[a] \in open
  BY DEF IInv, WriterHoldsPages
<1> QED BY <1>1, <1>2, <1>3, <1>4 DEF WriterHoldsPages

\* A closed file leaves no report behind.
LEMMA CloseWriter ==
  ASSUME IInv, BytesKept, NEW f \in open, NEW synced \in BOOLEAN,
         NEW ok \in SUBSET Article, CloseFile(f, ok, synced)
  PROVE  WriterHoldsPages'
<1>1. \A a \in written \cup reported : InPage(a)'
  BY DEF BytesKept, Claimed, IInv, WriterHoldsPages
<1>2. /\ written' = written \ Arts(f) /\ reported' = reported \ Arts(f)
      /\ buf' = buf \ Arts(f) /\ open' = open \ {f}
  BY DEF CloseFile
<1>3. \A a \in buf \cup written \cup reported :
         FileOf[a] \in open /\ (FileOf[a] = f => a \in Arts(f))
  BY DEF IInv, WriterHoldsPages, Arts, Of, TypeOK, TypeWriter
<1> QED BY <1>1, <1>2, <1>3 DEF WriterHoldsPages

\* A writer's report is always backed by the file it holds open.
LEMMA WriterHoldsPagesStep ==
  ASSUME IInv, [Next]_vars
  PROVE  WriterHoldsPages'
<1> USE DEF progress, pipe, cache, report, disk, db, barrier, life
<1>0. phase' # "down" => BytesKept
  BY BytesKeptStep
<1>1. ASSUME NEW a \in Article, Emit(a) PROVE WriterHoldsPages'
  BY <1>1, <1>0, WriterFrame DEF Emit, Up
<1>2. ASSUME NEW a \in Article, RetryableFailure(a) PROVE WriterHoldsPages'
  BY <1>2, <1>0, WriterFrame DEF RetryableFailure, Up
<1>3. ASSUME NEW a \in Article, PermanentFailure(a) PROVE WriterHoldsPages'
  BY <1>3, <1>0, WriterFrame DEF PermanentFailure, Up
<1>4. ASSUME NEW a \in Article, NEW ok \in SUBSET Article,
             NEW bad \in SUBSET Article, NEW pre \in BOOLEAN,
             AcceptArticle(a, ok, bad, pre)
      PROVE  WriterHoldsPages'
  <2>1. BytesKept
    BY <1>4, <1>0 DEF AcceptArticle, Up
  <2>2. FileOf[a] \in File /\ Register(FileOf[a]) /\ name'[FileOf[a]] # 0
    BY <1>4, ConstantAssumption, RegisterKeepsName
       DEF AcceptArticle, IInv, NamesAgree
  <2>3. \A b \in buf \cup {a} : /\ b \in Article /\ FileOf[b] \in open'
                               /\ name'[FileOf[b]] # 0
    BY <1>4, <2>2, RegisterKeepsName, OpenIsNamed
       DEF AcceptArticle, IInv, WriterHoldsPages, TypeOK, TypeWriter
  <2>4. ok \subseteq buf \cup {a} /\ open' = open \cup {FileOf[a]}
    BY <1>4 DEF AcceptArticle
  <2>5. \A b \in ok : InPage(b)'
    BY <1>4, <2>3, <2>4, AcceptKeepsBytes DEF IInv
  <2>6. \A b \in written \cup reported : InPage(b)' /\ FileOf[b] \in open'
    BY <2>1, <2>4 DEF BytesKept, Claimed, IInv, WriterHoldsPages
  <2>7. /\ written' = written \cup ok /\ reported' = reported
        /\ buf' \subseteq buf \cup {a}
    BY <1>4 DEF AcceptArticle
  <2> QED BY <2>3, <2>4, <2>5, <2>6, <2>7 DEF WriterHoldsPages
<1>5. ASSUME NEW a \in Article, OpenFault(a) PROVE WriterHoldsPages'
  BY <1>5, <1>0, WriterFrame DEF OpenFault, Up
<1>6. ASSUME NEW a \in Article, LateDuplicate(a) PROVE WriterHoldsPages'
  BY <1>6, <1>0, WriterFrame DEF LateDuplicate, Up
<1>7. ASSUME NEW a \in Article, NEW pre \in BOOLEAN,
             FatalArticle(a, pre)
      PROVE  WriterHoldsPages'
  BY <1>7, <1>0, WriterFrame DEF FatalArticle, Up
<1>8. CASE Checkpoint
  BY <1>8, <1>0, WriterFrame DEF Checkpoint, Up
<1>9. ASSUME NEW f \in File, Finalize(f) PROVE WriterHoldsPages'
  BY <1>9, <1>0, WriterFrame DEF Finalize, Up
<1>10. ASSUME NEW f \in File, NEW ok \in SUBSET Article,
              Drain(f, ok)
       PROVE  WriterHoldsPages'
  <2>1. BytesKept
    BY <1>10, <1>0 DEF Drain, Up
  <2>2. CASE f \notin open
    BY <1>10, <2>1, <2>2, WriterFrame DEF Drain
  <2>3. CASE f \in open
    <3>1. DrainFile(f, ok) /\ UNCHANGED <<open, name>>
      BY <1>10, <2>3 DEF Drain
    <3> QED BY <2>1, <2>3, <3>1, DrainWriter
  <2> QED BY <2>2, <2>3
<1>11. ASSUME NEW f \in File, Sync(f) PROVE WriterHoldsPages'
  BY <1>11, <1>0, WriterFrame DEF Sync, Up
<1>12. ASSUME NEW f \in File, Truncate(f) PROVE WriterHoldsPages'
  BY <1>12, <1>0, WriterFrame DEF Truncate, Up
<1>13. ASSUME NEW f \in File, Stat(f) PROVE WriterHoldsPages'
  BY <1>13, <1>0, WriterFrame DEF Stat, Up
<1>14. CASE Advance
  BY <1>14, <1>0, WriterFrame DEF Advance, Up
<1>15. CASE Commit
  BY <1>15, <1>0, WriterFrame DEF Commit, Up
<1>16. CASE Ack
  BY <1>16, <1>0, WriterFrame DEF Ack, Up
<1>17. ASSUME NEW f \in File, Confirm(f) PROVE WriterHoldsPages'
  BY <1>17, <1>0, WriterFrame DEF Confirm, ConfirmFile, Up
<1>18. CASE BarrierReturns
  BY <1>18, <1>0, WriterFrame DEF BarrierReturns, Up
<1>19. ASSUME NEW f \in File, Timeout(f) PROVE WriterHoldsPages'
  BY <1>19, <1>0, WriterFrame DEF Timeout, Up
<1>20. ASSUME NEW f \in File, Release(f) PROVE WriterHoldsPages'
  <2>1. BytesKept
    BY <1>20, <1>0 DEF Release, Up
  <2>2. CASE UNCHANGED <<open, buf, report>>
    BY <2>1, <2>2, WriterFrame
  <2>3. ASSUME f \in open, NEW synced \in BOOLEAN,
               NEW ok \in SUBSET Article, CloseFile(f, ok, synced)
        PROVE  WriterHoldsPages'
    BY <2>1, <2>3, CloseWriter
  <2> QED BY <1>20, <2>2, <2>3, ReleaseCloses DEF IInv
<1>21. ASSUME NEW ok \in SUBSET Article, LateOp(ok) PROVE WriterHoldsPages'
  <2>1. BytesKept
    BY <1>21, <1>0 DEF LateOp, Up
  <2>2. CASE late.file \in open /\ late.op = "drain"
    BY <1>21, <2>1, <2>2, DrainWriter DEF LateOp
  <2>3. CASE late.file \in open /\ late.op = "close"
    BY <1>21, <2>1, <2>3, CloseWriter DEF LateOp
  <2>4. CASE late.file \in open /\ late.op = "confirm"
    BY <1>21, <2>1, <2>4, WriterFrame DEF LateOp, ConfirmFile
  <2>5. CASE UNCHANGED <<open, buf, report>>
    BY <2>1, <2>5, WriterFrame
  <2> QED BY <1>21, <2>2, <2>3, <2>4, <2>5 DEF LateOp
<1>22. ASSUME NEW f \in File, Deliver(f) PROVE WriterHoldsPages'
  BY <1>22, <1>0, WriterFrame DEF Deliver, Up
<1>23. CASE Reevaluating
  BY <1>23, ReevaluatingFrame, <1>0, WriterFrame DEF IInv, Up
<1>24. CASE Flush
  BY <1>24, <1>0, WriterFrame DEF Flush, Up
<1>25. CASE Crash
  BY <1>25 DEF Crash, WriterHoldsPages
<1>26. ASSUME NEW f \in File, NEW p \in Path, NEW n \in Absent..MaxEnd,
              Tamper(f, p, n)
       PROVE  WriterHoldsPages'
  BY <1>26 DEF Tamper, WriterHoldsPages, IInv, DownIsQuiet
<1>27. CASE Hydrate
  BY <1>27, <1>0, WriterFrame DEF Hydrate
<1>28. ASSUME NEW f \in File, ResumeFile(f) PROVE WriterHoldsPages'
  BY <1>28, <1>0, WriterFrame DEF ResumeFile
<1>29. CASE ResumeFault
  BY <1>29, <1>0, WriterFrame DEF ResumeFault
<1>30. CASE ReplaceFromRuns
  BY <1>30, <1>0, WriterFrame DEF ReplaceFromRuns
<1>31. ASSUME NEW f \in File, Strand(f) PROVE WriterHoldsPages'
  BY <1>31, <1>0, WriterFrame DEF Strand
<1>32. ASSUME NEW f \in File, StrandFault(f) PROVE WriterHoldsPages'
  BY <1>32, <1>0, WriterFrame DEF StrandFault
<1>33. CASE Started
  BY <1>33, <1>0, WriterFrame DEF Started
<1>34. CASE UNCHANGED vars
  BY <1>34 DEF vars, WriterHoldsPages, IInv, InPage, Holds
<1> QED
  BY <1>1, <1>2, <1>3, <1>4, <1>5, <1>6, <1>7, <1>8, <1>9, <1>10, <1>11, <1>12,
     <1>13, <1>14, <1>15, <1>16, <1>17, <1>18, <1>19, <1>20, <1>21, <1>22,
     <1>23, <1>24, <1>25, <1>26, <1>27, <1>28, <1>29, <1>30, <1>31, <1>32,
     <1>33, <1>34
     DEF Next, Fetching, Assembling, Syncing, Completing, Restarting

\* A step that leaves the record alone and keeps bytes keeps it backed.
LEMMA RunsFrame ==
  ASSUME IInv, BytesKept, runs' = runs, phase \in {"up", "strand"},
         phase' \in {"up", "strand"}, unchecked' = unchecked
  PROVE  RunsAreOnPlatter'
<1>1. \A a \in runs : FileOf[a] \notin unchecked => InPage(a) /\ InPlate(a)
  BY DEF IInv, RunsAreOnPlatter, Vouched
<1>2. \A a \in runs : FileOf[a] \notin unchecked => InPage(a)' /\ InPlate(a)'
  BY <1>1 DEF BytesKept, Claimed
<1> QED BY <1>2 DEF RunsAreOnPlatter

\* What the database records is on the platter, or a restart will find out.
LEMMA RunsAreOnPlatterStep ==
  ASSUME IInv, [Next]_vars
  PROVE  RunsAreOnPlatter'
<1> USE DEF progress, pipe, cache, report, disk, db, barrier, life
<1>0. phase' # "down" => BytesKept
  BY BytesKeptStep
<1>1. ASSUME NEW a \in Article, Emit(a) PROVE RunsAreOnPlatter'
  BY <1>1, <1>0, RunsFrame DEF Emit, Up
<1>2. ASSUME NEW a \in Article, RetryableFailure(a) PROVE RunsAreOnPlatter'
  BY <1>2, <1>0, RunsFrame DEF RetryableFailure, Up
<1>3. ASSUME NEW a \in Article, PermanentFailure(a) PROVE RunsAreOnPlatter'
  BY <1>3, <1>0, RunsFrame DEF PermanentFailure, Up
<1>4. ASSUME NEW a \in Article, NEW ok \in SUBSET Article,
             NEW bad \in SUBSET Article, NEW pre \in BOOLEAN,
             AcceptArticle(a, ok, bad, pre)
      PROVE  RunsAreOnPlatter'
  BY <1>4, <1>0, RunsFrame DEF AcceptArticle, Up
<1>5. ASSUME NEW a \in Article, OpenFault(a) PROVE RunsAreOnPlatter'
  BY <1>5, <1>0, RunsFrame DEF OpenFault, Up
<1>6. ASSUME NEW a \in Article, LateDuplicate(a) PROVE RunsAreOnPlatter'
  BY <1>6, <1>0, RunsFrame DEF LateDuplicate, Up
<1>7. ASSUME NEW a \in Article, NEW pre \in BOOLEAN,
             FatalArticle(a, pre)
      PROVE  RunsAreOnPlatter'
  BY <1>7, <1>0, RunsFrame DEF FatalArticle, Up
<1>8. CASE Checkpoint
  BY <1>8, <1>0, RunsFrame DEF Checkpoint, Up
<1>9. ASSUME NEW f \in File, Finalize(f) PROVE RunsAreOnPlatter'
  BY <1>9, <1>0, RunsFrame DEF Finalize, Up
<1>10. ASSUME NEW f \in File, NEW ok \in SUBSET Article,
              Drain(f, ok)
       PROVE  RunsAreOnPlatter'
  BY <1>10, <1>0, RunsFrame DEF Drain, Up
<1>11. ASSUME NEW f \in File, Sync(f) PROVE RunsAreOnPlatter'
  BY <1>11, <1>0, RunsFrame DEF Sync, Up
<1>12. ASSUME NEW f \in File, Truncate(f) PROVE RunsAreOnPlatter'
  BY <1>12, <1>0, RunsFrame DEF Truncate, Up
<1>13. ASSUME NEW f \in File, Stat(f) PROVE RunsAreOnPlatter'
  BY <1>13, <1>0, RunsFrame DEF Stat, Up
<1>14. CASE Advance
  BY <1>14, <1>0, RunsFrame DEF Advance, Up
<1>15. CASE Commit
  <2>1. BytesKept
    BY <1>15, <1>0 DEF Commit, Up
  <2>2. \A a \in bgot : InPage(a) /\ InPlate(a)
    BY <1>15 DEF Commit, IInv, BarrierInOrder, Synced
  <2>3. \A a \in runs : FileOf[a] \notin unchecked => InPage(a) /\ InPlate(a)
    BY <1>15 DEF Commit, Up, IInv, RunsAreOnPlatter, Vouched
  <2>4. /\ \A a \in bgot : InPage(a)' /\ InPlate(a)'
        /\ \A a \in runs : FileOf[a] \notin unchecked => InPage(a)' /\ InPlate(a)'
    BY <2>1, <2>2, <2>3 DEF BytesKept, Claimed
  <2>5. runs' \subseteq runs \cup bgot /\ phase' = "up" /\ unchecked' = unchecked
    BY <1>15 DEF Commit, Up
  <2> QED BY <2>4, <2>5 DEF RunsAreOnPlatter
<1>16. CASE Ack
  BY <1>16, <1>0, RunsFrame DEF Ack, Up
<1>17. ASSUME NEW f \in File, Confirm(f) PROVE RunsAreOnPlatter'
  BY <1>17, <1>0, RunsFrame DEF Confirm, Up
<1>18. CASE BarrierReturns
  BY <1>18, <1>0, RunsFrame DEF BarrierReturns, Up
<1>19. ASSUME NEW f \in File, Timeout(f) PROVE RunsAreOnPlatter'
  BY <1>19, <1>0, RunsFrame DEF Timeout, Up
<1>20. ASSUME NEW f \in File, Release(f) PROVE RunsAreOnPlatter'
  BY <1>20, <1>0, RunsFrame DEF Release, Up
<1>21. ASSUME NEW ok \in SUBSET Article, LateOp(ok) PROVE RunsAreOnPlatter'
  BY <1>21, <1>0, RunsFrame DEF LateOp, Up
<1>22. ASSUME NEW f \in File, Deliver(f) PROVE RunsAreOnPlatter'
  BY <1>22, <1>0, RunsFrame DEF Deliver, Up
<1>23. CASE Reevaluating
  BY <1>23, ReevaluatingFrame, <1>0, RunsFrame DEF IInv, Up
<1>24. CASE Flush
  BY <1>24, <1>0, RunsFrame DEF Flush, Up
<1>25. CASE Crash
  <2>1. SUFFICES ASSUME NEW a \in runs, FileOf[a] \notin unchecked,
                        name'[FileOf[a]] # 0,
                        End[a] <= size'[FileOf[a]][name'[FileOf[a]]]
                 PROVE  a \in page'[name'[FileOf[a]]]
    BY <1>25 DEF Crash, RunsAreOnPlatter, Vouched
  <2> DEFINE f == FileOf[a]
             p == name[f]
  <2>2. a \in Article /\ f \in File
    BY ConstantAssumption DEF IInv, TypeOK, TypeDatabase
  <2>3. name'[f] = p /\ p # 0
    BY <1>25, <2>1, <2>2 DEF Crash, IInv, NamesAgree
  <2>4. p \in Path
    BY <2>2, <2>3 DEF IInv, TypeOK, TypeProgress
  <2>5. a \in plate[p]
    <3>1. CASE phase \in {"up", "strand"}
      BY <2>1, <3>1 DEF IInv, RunsAreOnPlatter, Vouched, InPlate, Holds
    <3>2. CASE phase \in {"down", "sweep"}
      <4>1. page = plate /\ size = psize
        BY <3>2 DEF IInv, DownIsQuiet
      <4>2. size'[f][p] = size[f][p]
        BY <1>25, <2>2, <2>4, <4>1 DEF Crash
      <4> QED
        BY <2>1, <2>3, <3>2, <4>1, <4>2 DEF IInv, RunsAreOnPlatter
    <3> QED BY <3>1, <3>2 DEF IInv, TypeOK, TypeLife
  <2> QED BY <1>25, <2>1, <2>2, <2>3, <2>4, <2>5 DEF Crash
<1>26. ASSUME NEW f \in File, NEW p \in Path, NEW n \in Absent..MaxEnd,
              Tamper(f, p, n)
       PROVE  RunsAreOnPlatter'
  <2>1. phase = "down" /\ phase' = "down"
    BY <1>26 DEF Tamper
  <2>2. UNCHANGED <<runs, unchecked, name>>
    BY <1>26 DEF Tamper
  <2>3. SUFFICES ASSUME NEW a \in runs, FileOf[a] \notin unchecked,
                        name[FileOf[a]] # 0,
                        End[a] <= size'[FileOf[a]][name[FileOf[a]]]
                 PROVE  a \in page'[name[FileOf[a]]]
    BY <2>1, <2>2 DEF RunsAreOnPlatter, Vouched
  <2> DEFINE g == FileOf[a]
             q == name[g]
  <2>4. a \in Article /\ g \in File /\ q \in Path /\ End[a] \in 1..MaxEnd
    BY <2>3, ConstantAssumption DEF IInv, TypeOK, TypeDatabase, TypeProgress
  <2>5. size[g][q] \in Absent..MaxEnd /\ size[f][p] \in Absent..MaxEnd
    BY <2>4 DEF IInv, TypeOK, TypeDisk
  <2>6. size'[g][q] = IF g = f /\ q = p THEN n ELSE size[g][q]
    BY <1>26, <2>4 DEF Tamper, IInv, TypeOK, TypeDisk
  <2>7. End[a] <= size[g][q]
    BY <1>26, <2>3, <2>4, <2>5, <2>6 DEF Tamper, Absent
  <2>8. a \in page[q]
    BY <2>1, <2>3, <2>7 DEF IInv, RunsAreOnPlatter
  <2>9. q = p => a \notin Beyond(f, n)
    BY <2>3, <2>4, <2>6 DEF Beyond, Absent
  <2> QED BY <1>26, <2>4, <2>8, <2>9 DEF Tamper, IInv, TypeOK, TypeDisk
<1>27. CASE Hydrate
  BY <1>27 DEF Hydrate, IInv, DownIsQuiet, RunsAreOnPlatter, Vouched
<1>28. ASSUME NEW f \in File, ResumeFile(f) PROVE RunsAreOnPlatter'
  <2> DEFINE s == size[f][name[f]]
             bound == boundOver(Of(runs, f))
  <2>1. /\ phase = "sweep" /\ phase' = "sweep" /\ name[f] # 0
        /\ swept' = swept \cup {f} /\ UNCHANGED <<disk, name>>
    BY <1>28 DEF ResumeFile
  <2>2. page = plate /\ size = psize
    BY <2>1 DEF IInv, DownIsQuiet
  <2>3. \A a \in runs' : a \in runs /\ (FileOf[a] \notin unchecked' =>
                                         FileOf[a] \notin unchecked)
    BY <1>28 DEF ResumeFile, Arts, Of, IInv, TypeOK, TypeDatabase
  <2>4. ASSUME NEW a \in runs', FileOf[a] \notin unchecked', FileOf[a] = f
        PROVE  InPage(a)
    <3>1. ~(s = Absent \/ s < bound)
      BY <1>28, <2>4 DEF ResumeFile, Arts, Of, IInv, TypeOK, TypeDatabase
    <3>2. a \in Of(runs, f) /\ Of(runs, f) \in SUBSET Article
      BY <2>3, <2>4 DEF Of, IInv, TypeOK, TypeDatabase
    <3>3. bound \in 0..MaxEnd /\ End[a] <= bound /\ End[a] \in 1..MaxEnd
      BY <3>2, BoundOver, ConstantAssumption
    <3>4. s \in Absent..MaxEnd
      BY <2>1 DEF IInv, TypeOK, TypeDisk, TypeProgress
    <3> HIDE DEF s, bound
    <3>5. End[a] <= s
      BY <3>1, <3>3, <3>4 DEF Absent
    <3>6. a \in page[name[f]]
      BY <2>1, <2>3, <2>4, <3>5 DEF s, IInv, RunsAreOnPlatter
    <3> QED BY <2>1, <2>4, <3>5, <3>6 DEF s, InPage, Holds
  <2>5. \A a \in runs' : FileOf[a] \notin unchecked' /\ FileOf[a] \in swept' =>
                           InPage(a)
    BY <2>1, <2>3, <2>4 DEF IInv, RunsAreOnPlatter, Vouched
  <2>6. \A a \in runs' : FileOf[a] \notin unchecked' /\ FileOf[a] \in swept' =>
                           InPage(a)' /\ InPlate(a)'
    BY <2>1, <2>2, <2>5 DEF InPage, InPlate, Holds
  <2>7. \A a \in runs' : FileOf[a] \notin unchecked' =>
          (name[FileOf[a]] # 0 /\ End[a] <= size[FileOf[a]][name[FileOf[a]]]
             => a \in page[name[FileOf[a]]])
    BY <2>1, <2>3 DEF IInv, RunsAreOnPlatter
  <2> QED BY <2>1, <2>6, <2>7 DEF RunsAreOnPlatter, Vouched
<1>29. CASE ResumeFault
  BY <1>29 DEF ResumeFault, IInv, RunsAreOnPlatter, Vouched, InPage, InPlate, Holds
<1>30. CASE ReplaceFromRuns
  <2>1. \A a \in runs : FileOf[a] \notin unchecked' =>
                          FileOf[a] \notin unchecked /\ FileOf[a] \in swept
    BY <1>30, ConstantAssumption DEF ReplaceFromRuns, Of, IInv, TypeOK, TypeDatabase
  <2>2. \A a \in runs : FileOf[a] \notin unchecked' => InPage(a) /\ InPlate(a)
    BY <1>30, <2>1 DEF ReplaceFromRuns, IInv, RunsAreOnPlatter, Vouched
  <2>3. \A a \in runs : FileOf[a] \notin unchecked' => InPage(a)' /\ InPlate(a)'
    BY <1>30, <2>2 DEF ReplaceFromRuns, InPage, InPlate, Holds
  <2> QED BY <1>30, <2>3 DEF ReplaceFromRuns, RunsAreOnPlatter
<1>31. ASSUME NEW f \in File, Strand(f) PROVE RunsAreOnPlatter'
  BY <1>31, <1>0, RunsFrame DEF Strand
<1>32. ASSUME NEW f \in File, StrandFault(f) PROVE RunsAreOnPlatter'
  BY <1>32, <1>0, RunsFrame DEF StrandFault
<1>33. CASE Started
  BY <1>33, <1>0, RunsFrame DEF Started
<1>34. CASE UNCHANGED vars
  BY <1>34 DEF vars, RunsAreOnPlatter, Vouched, IInv, InPage, InPlate, Holds
<1> QED
  BY <1>1, <1>2, <1>3, <1>4, <1>5, <1>6, <1>7, <1>8, <1>9, <1>10, <1>11, <1>12,
     <1>13, <1>14, <1>15, <1>16, <1>17, <1>18, <1>19, <1>20, <1>21, <1>22,
     <1>23, <1>24, <1>25, <1>26, <1>27, <1>28, <1>29, <1>30, <1>31, <1>32,
     <1>33, <1>34
     DEF Next, Fetching, Assembling, Syncing, Completing, Restarting

\* A step that leaves the barrier alone and keeps bytes keeps its order.
LEMMA BarrierFrame ==
  ASSUME IInv, BytesKept, UNCHANGED barrier, runs \subseteq runs'
  PROVE  BarrierInOrder'
<1>1. \A a \in bgot : InPage(a)' /\ (Synced(FileOf[a]) => InPlate(a)')
  BY DEF BytesKept, Claimed, IInv, BarrierInOrder
<1> QED BY <1>1 DEF IInv, BarrierInOrder, Synced, barrier

\* An idle barrier holds nothing.
LEMMA BarrierReset ==
  ASSUME Reset PROVE BarrierInOrder'
BY DEF Reset, BarrierInOrder

\* A barrier that drops a closed file drops what it drained from it.
LEMMA FileGoneInOrder ==
  ASSUME IInv, BytesKept, NEW f \in File, FileGone(f), runs' = runs,
         bpc \notin {"idle", "ack", "confirm"}
  PROVE  BarrierInOrder'
<1>1. CASE bfin # NoFile
  BY <1>1, BarrierReset DEF FileGone, FinalizeReturns
<1>2. CASE bfin = NoFile
  <2>1. /\ UNCHANGED <<bpc, bfin>> /\ btodo' = btodo \ {f}
        /\ bfiles' = bfiles \ {f} /\ bgot' = bgot \ Arts(f)
    BY <1>2 DEF FileGone
  <2>2. \A a \in bgot' : a \in bgot /\ FileOf[a] # f
    BY <2>1 DEF Arts, Of, IInv, TypeOK, TypeBarrier
  <2>3. \A a \in bgot' : Synced(FileOf[a])' => Synced(FileOf[a])
    BY <2>1, <2>2 DEF Synced
  <2>4. \A a \in bgot' : InPage(a)' /\ (Synced(FileOf[a])' => InPlate(a)')
    BY <2>2, <2>3 DEF BytesKept, Claimed, IInv, BarrierInOrder
  <2> QED BY <2>1, <2>2, <2>4 DEF IInv, BarrierInOrder
<1> QED BY <1>1, <1>2

\* Drain, fsync, commit, ack: what a barrier holds has passed each phase.
LEMMA BarrierInOrderStep ==
  ASSUME IInv, [Next]_vars
  PROVE  BarrierInOrder'
<1> USE DEF progress, pipe, cache, report, disk, db, barrier, life
<1>0. phase' # "down" => BytesKept
  BY BytesKeptStep
<1>1. ASSUME NEW a \in Article, Emit(a) PROVE BarrierInOrder'
  BY <1>1, <1>0, BarrierFrame DEF Emit, Up
<1>2. ASSUME NEW a \in Article, RetryableFailure(a) PROVE BarrierInOrder'
  BY <1>2, <1>0, BarrierFrame DEF RetryableFailure, Up
<1>3. ASSUME NEW a \in Article, PermanentFailure(a) PROVE BarrierInOrder'
  BY <1>3, <1>0, BarrierFrame DEF PermanentFailure, Up
<1>4. ASSUME NEW a \in Article, NEW ok \in SUBSET Article,
             NEW bad \in SUBSET Article, NEW pre \in BOOLEAN,
             AcceptArticle(a, ok, bad, pre)
      PROVE  BarrierInOrder'
  BY <1>4, <1>0, BarrierFrame DEF AcceptArticle, Up
<1>5. ASSUME NEW a \in Article, OpenFault(a) PROVE BarrierInOrder'
  BY <1>5, <1>0, BarrierFrame DEF OpenFault, Up
<1>6. ASSUME NEW a \in Article, LateDuplicate(a) PROVE BarrierInOrder'
  BY <1>6, <1>0, BarrierFrame DEF LateDuplicate, Up
<1>7. ASSUME NEW a \in Article, NEW pre \in BOOLEAN,
             FatalArticle(a, pre)
      PROVE  BarrierInOrder'
  BY <1>7, <1>0, BarrierFrame DEF FatalArticle, Up
<1>8. CASE Checkpoint
  BY <1>8 DEF Checkpoint, StartBarrier, BarrierInOrder
<1>9. ASSUME NEW f \in File, Finalize(f) PROVE BarrierInOrder'
  <2>1. CASE StartBarrier(f, fin[f] = "pending", {f})
    BY <2>1 DEF StartBarrier, BarrierInOrder
  <2>2. CASE UNCHANGED barrier
    BY <1>9, <2>2, <1>0, BarrierFrame DEF Finalize, Up
  <2> QED BY <1>9, <2>1, <2>2 DEF Finalize
<1>10. ASSUME NEW f \in File, NEW ok \in SUBSET Article,
              Drain(f, ok)
       PROVE  BarrierInOrder'
  <2>1. BytesKept
    BY <1>10, <1>0 DEF Drain, Up
  <2>2. CASE f \notin open
    BY <1>10, <2>1, <2>2, FileGoneInOrder DEF Drain
  <2>3. CASE f \in open /\ ok # Of(buf, f)
    BY <1>10, <2>3, BarrierReset DEF Drain, Abort
  <2>4. CASE f \in open /\ ok = Of(buf, f)
    <3>1. DrainFile(f, ok) /\ UNCHANGED <<open, name>>
      BY <1>10, <2>4 DEF Drain
    <3>2. WriterHoldsPages'
      BY <2>1, <2>4, <3>1, DrainWriter
    <3>3. \A a \in Of(reported', f) : InPage(a)' /\ FileOf[a] = f
      BY <3>2 DEF WriterHoldsPages, Of
    <3>4. /\ bpc' = "drain" /\ bfiles' = bfiles \cup {f}
          /\ bgot' = bgot \cup Of(reported', f)
      BY <1>10, <2>4 DEF Drain
    <3>5. \A a \in bgot : InPage(a)' /\ FileOf[a] \in bfiles
      BY <2>1 DEF BytesKept, Claimed, IInv, BarrierInOrder
    <3> QED BY <3>3, <3>4, <3>5 DEF BarrierInOrder, Synced
  <2> QED BY <2>2, <2>3, <2>4
<1>11. ASSUME NEW f \in File, Sync(f) PROVE BarrierInOrder'
  <2>1. BytesKept /\ bpc \in {"sync", "sync2"} /\ runs' = runs
    BY <1>11, <1>0 DEF Sync, Up
  <2>2. CASE FileGone(f)
    BY <2>1, <2>2, FileGoneInOrder
  <2>3. CASE Abort
    BY <2>3, BarrierReset DEF Abort
  <2>4. CASE /\ SyncFile(f) /\ UNCHANGED <<page, size, name>>
             /\ btodo' = btodo \ {f} /\ UNCHANGED <<bpc, bfin, bfiles, bgot>>
    <3>1. \A a \in bgot : a \in Article /\ InPage(a) /\ InPage(a)'
      BY <2>1 DEF BytesKept, Claimed, IInv, BarrierInOrder, TypeOK, TypeBarrier
    <3>2. \A a \in bgot : FileOf[a] = f => InPlate(a)'
      BY <2>4, <3>1, SyncKeepsBytes DEF IInv
    <3>3. \A a \in bgot : FileOf[a] # f /\ Synced(FileOf[a])' => InPlate(a)
      BY <2>1, <2>4 DEF Synced, IInv, BarrierInOrder
    <3>4. \A a \in bgot : Synced(FileOf[a])' => InPlate(a)'
      BY <2>1, <3>1, <3>2, <3>3 DEF BytesKept, Claimed
    <3> QED BY <2>1, <2>4, <3>1, <3>4 DEF IInv, BarrierInOrder
  <2> QED BY <1>11, <2>2, <2>3, <2>4 DEF Sync
<1>12. ASSUME NEW f \in File, Truncate(f) PROVE BarrierInOrder'
  <2>1. BytesKept /\ bpc = "truncate" /\ runs' = runs
    BY <1>12, <1>0 DEF Truncate, Up
  <2>2. CASE FileGone(f)
    BY <2>1, <2>2, FileGoneInOrder
  <2>3. CASE Abort
    BY <2>3, BarrierReset DEF Abort
  <2>4. CASE UNCHANGED <<bpc, bfin, bfiles, bgot>>
    BY <2>1, <2>4 DEF BytesKept, Claimed, IInv, BarrierInOrder, Synced
  <2> QED BY <1>12, <2>2, <2>3, <2>4 DEF Truncate
<1>13. ASSUME NEW f \in File, Stat(f) PROVE BarrierInOrder'
  <2>1. BytesKept /\ bpc = "stat" /\ runs' = runs
    BY <1>13, <1>0 DEF Stat, Up
  <2>2. CASE FileGone(f)
    BY <2>1, <2>2, FileGoneInOrder
  <2>3. CASE Abort
    BY <2>3, BarrierReset DEF Abort
  <2>4. CASE UNCHANGED <<bpc, bfin, bfiles, bgot>>
    BY <2>1, <2>4 DEF BytesKept, Claimed, IInv, BarrierInOrder, Synced
  <2> QED BY <1>13, <2>2, <2>3, <2>4 DEF Stat
<1>14. CASE Advance
  <2>1. BytesKept /\ btodo = {} /\ btodo' = bfiles
    BY <1>14, <1>0 DEF Advance, Up
  <2>2. /\ UNCHANGED <<bfin, bfiles, bgot, runs>>
        /\ bpc' \in {"sync", "truncate", "sync2", "stat", "commit"}
        /\ bpc' # "sync" => bpc \in {"sync", "truncate", "sync2", "stat"}
    BY <1>14 DEF Advance, NextPhase
  <2>3. \A a \in bgot : Synced(FileOf[a])' => InPlate(a)
    BY <2>1, <2>2 DEF Synced, IInv, BarrierInOrder
  <2>4. \A a \in bgot : InPage(a)' /\ (Synced(FileOf[a])' => InPlate(a)')
    BY <2>1, <2>3 DEF BytesKept, Claimed, IInv, BarrierInOrder
  <2> QED BY <2>2, <2>4 DEF IInv, BarrierInOrder
<1>15. CASE Commit
  <2>1. BytesKept /\ bpc = "commit"
    BY <1>15, <1>0 DEF Commit, Up
  <2>2. CASE Abort
    BY <2>2, BarrierReset DEF Abort
  <2>3. CASE runs' = runs \cup bgot /\ bpc' = "ack" /\ UNCHANGED <<bfin, bfiles, bgot>>
    BY <2>1, <2>3 DEF BytesKept, Claimed, IInv, BarrierInOrder, Synced
  <2> QED BY <1>15, <2>2, <2>3 DEF Commit
<1>16. CASE Ack
  <2>1. BytesKept /\ bpc = "ack" /\ runs' = runs
    BY <1>16, <1>0 DEF Ack, Up
  <2>2. CASE Abort
    BY <2>2, BarrierReset DEF Abort
  <2>3. CASE bpc' = "confirm" /\ UNCHANGED <<bfin, bfiles, bgot>>
    BY <2>1, <2>3 DEF BytesKept, Claimed, IInv, BarrierInOrder, Synced
  <2> QED BY <1>16, <2>2, <2>3 DEF Ack
<1>17. ASSUME NEW f \in File, Confirm(f) PROVE BarrierInOrder'
  <2>1. BytesKept /\ bpc = "confirm" /\ UNCHANGED <<bpc, bfin, bfiles, bgot, runs>>
    BY <1>17, <1>0 DEF Confirm, Up
  <2> QED BY <2>1 DEF BytesKept, Claimed, IInv, BarrierInOrder, Synced
<1>18. CASE BarrierReturns
  BY <1>18, BarrierReset DEF BarrierReturns, FinalizeReturns
<1>19. ASSUME NEW f \in File, Timeout(f) PROVE BarrierInOrder'
  <2>1. CASE bpc # "confirm"
    BY <1>19, <2>1, BarrierReset DEF Timeout, Abort
  <2>2. CASE bpc = "confirm"
    <3>1. BytesKept /\ UNCHANGED <<bpc, bfin, bfiles, bgot, runs>>
      BY <1>19, <2>2, <1>0 DEF Timeout, Up
    <3> QED BY <2>2, <3>1 DEF BytesKept, Claimed, IInv, BarrierInOrder, Synced
  <2> QED BY <2>1, <2>2
<1>20. ASSUME NEW f \in File, Release(f) PROVE BarrierInOrder'
  BY <1>20, <1>0, BarrierFrame DEF Release, Up
<1>21. ASSUME NEW ok \in SUBSET Article, LateOp(ok) PROVE BarrierInOrder'
  BY <1>21, <1>0, BarrierFrame DEF LateOp, Up
<1>22. ASSUME NEW f \in File, Deliver(f) PROVE BarrierInOrder'
  BY <1>22, <1>0, BarrierFrame DEF Deliver, Up
<1>23. CASE Reevaluating
  BY <1>23, ReevaluatingFrame, <1>0, BarrierFrame DEF IInv, Up
<1>24. CASE Flush
  BY <1>24, <1>0, BarrierFrame DEF Flush, Up
<1>25. CASE Crash
  BY <1>25, BarrierReset DEF Crash
<1>26. ASSUME NEW f \in File, NEW p \in Path, NEW n \in Absent..MaxEnd,
              Tamper(f, p, n)
       PROVE  BarrierInOrder'
  BY <1>26 DEF Tamper, IInv, DownIsQuiet, BarrierInOrder
<1>27. CASE Hydrate
  BY <1>27, <1>0, BarrierFrame DEF Hydrate, Up
<1>28. ASSUME NEW f \in File, ResumeFile(f) PROVE BarrierInOrder'
  BY <1>28 DEF ResumeFile, IInv, DownIsQuiet, BarrierInOrder
<1>29. CASE ResumeFault
  BY <1>29, <1>0, BarrierFrame DEF ResumeFault, Up
<1>30. CASE ReplaceFromRuns
  BY <1>30, <1>0, BarrierFrame DEF ReplaceFromRuns, Up
<1>31. ASSUME NEW f \in File, Strand(f) PROVE BarrierInOrder'
  BY <1>31, <1>0, BarrierFrame DEF Strand, Up
<1>32. ASSUME NEW f \in File, StrandFault(f) PROVE BarrierInOrder'
  BY <1>32, <1>0, BarrierFrame DEF StrandFault, Up
<1>33. CASE Started
  BY <1>33, <1>0, BarrierFrame DEF Started, Up
<1>34. CASE UNCHANGED vars
  BY <1>34 DEF vars, BarrierInOrder, Synced, IInv, InPage, InPlate, Holds
<1> QED
  BY <1>1, <1>2, <1>3, <1>4, <1>5, <1>6, <1>7, <1>8, <1>9, <1>10, <1>11, <1>12,
     <1>13, <1>14, <1>15, <1>16, <1>17, <1>18, <1>19, <1>20, <1>21, <1>22,
     <1>23, <1>24, <1>25, <1>26, <1>27, <1>28, <1>29, <1>30, <1>31, <1>32,
     <1>33, <1>34
     DEF Next, Fetching, Assembling, Syncing, Completing, Restarting


-----------------------------------------------------------------------------
(* The theorems *)

\* A freshly ingested job satisfies the inductive invariant.
LEMMA InitIInv == Init => IInv
<1> SUFFICES ASSUME Init PROVE IInv
  OBVIOUS
<1> USE ConstantAssumption DEF Init
<1>1. TypeProgress /\ TypeWriter /\ TypeDatabase
  BY DEF TypeProgress, TypeWriter, TypeDatabase
<1>2. TypeDisk
  BY DEF TypeDisk, Absent
<1>3. NoOp \in [op : Phases \cup {"close", "none"},
                file : File \cup {NoFile}, bound : 0..MaxEnd]
  BY DEF NoOp
<1>4. TypeBarrier
  BY <1>3 DEF TypeBarrier, Phases, FinStates
<1>5. TypeLife
  BY StallUpdate DEF TypeLife, NoStall
<1>6. NamesAgree /\ DownIsQuiet /\ DoneHasRuns
  BY DEF NamesAgree, DownIsQuiet, DoneHasRuns
<1>7. WriterHoldsPages /\ RunsAreOnPlatter /\ BarrierInOrder
  BY DEF WriterHoldsPages, RunsAreOnPlatter, BarrierInOrder
<1>8. FinalizeIsAlone /\ LateCutIsSafe
  BY DEF FinalizeIsAlone, LateCutIsSafe, NoOp
<1> QED BY <1>1, <1>2, <1>4, <1>5, <1>6, <1>7, <1>8 DEF IInv, TypeOK

\* The inductive invariant holds in every reachable state: what a writer
\* reports is in its file, what a barrier synced is on the platter, what the
\* database records has been synced, and what is Done has been recorded, in
\* every interleaving of worker, barrier and checkpointer, with every fault,
\* timeout, crash and restart the code provides for.
THEOREM InductiveInvariant == Spec => []IInv
<1>1. Init => IInv
  BY InitIInv
<1>2. IInv /\ [Next]_vars => IInv'
  <2> SUFFICES ASSUME IInv, [Next]_vars PROVE IInv'
    OBVIOUS
  <2>1. TypeOK'
    BY TypeStep DEF IInv
  <2>2. DownIsQuiet'
    BY DownIsQuietStep DEF IInv
  <2>3. NamesAgree'
    BY NamesAgreeStep DEF IInv
  <2>4. WriterHoldsPages'
    BY WriterHoldsPagesStep
  <2>5. RunsAreOnPlatter'
    BY RunsAreOnPlatterStep
  <2>6. BarrierInOrder'
    BY BarrierInOrderStep
  <2>7. FinalizeIsAlone'
    BY <2>1, FinalizeIsAloneStep DEF IInv
  <2>8. LateCutIsSafe'
    BY <2>1, LateCutIsSafeStep DEF IInv
  <2>9. DoneHasRuns'
    BY DoneHasRunsStep DEF IInv
  <2> QED
    BY <2>1, <2>2, <2>3, <2>4, <2>5, <2>6, <2>7, <2>8, <2>9 DEF IInv
<1> QED BY <1>1, <1>2, PTL DEF Spec

\* Every variable stays within its type, whatever the job and the faults.
THEOREM TypeCorrect == Spec => []TypeOK
<1>1. IInv => TypeOK
  BY DEF IInv
<1> QED BY <1>1, InductiveInvariant, PTL

\* An article the process counts as Done has been recorded in durable_runs
\* first: a crash at any moment forgets no acknowledged article.
THEOREM DoneIsAlwaysRecorded == Spec => []DoneIsRecorded
<1>1. IInv => DoneIsRecorded
  BY DEF IInv, DoneHasRuns, DoneIsRecorded, Up
<1> QED BY <1>1, InductiveInvariant, PTL

\* An article the process counts as Done has its bytes on the platter: the
\* barrier's fsync precedes the ack under every schedule, and the startup
\* sweep takes back what the file on disk no longer backs.
THEOREM DoneIsAlwaysDurable == Spec => []DoneIsDurable
<1>1. IInv => DoneIsDurable
  BY DEF IInv, DoneHasRuns, RunsAreOnPlatter, Vouched, InPlate, DoneIsDurable,
     Up
<1> QED BY <1>1, InductiveInvariant, PTL

\* A file cut at or beyond a claimed article's end still holds it.
LEMMA CutBound ==
  ASSUME IInv, NEW f \in File, NEW n \in 0..MaxEnd, TruncateFile(f, n),
         \A a \in Of(Claimed, f) : End[a] <= n
  PROVE  CutsNothingClaimed
<1>1. SUFFICES ASSUME NEW p \in Path, NEW a \in Claimed, a \in page[p]
               PROVE  a \in page'[p]
  BY DEF CutsNothingClaimed, Claimed
<1>2. a \in Article
  BY ClaimedType DEF IInv
<1>3. a \notin Beyond(f, n)
  BY <1>2, ConstantAssumption DEF Beyond, Of
<1> QED BY <1>1, <1>3 DEF TruncateFile, IInv, TypeOK, TypeDisk

\* No step of a running or starting process cuts what is relied on.
LEMMA CutsNothingClaimedStep ==
  ASSUME IInv, [Next]_vars
  PROVE  CutsNothingClaimed
<1> USE DEF progress, pipe, cache, report, disk, db, barrier, life
<1>1. ASSUME NEW a \in Article, Emit(a) PROVE CutsNothingClaimed
  BY <1>1 DEF Emit, CutsNothingClaimed
<1>2. ASSUME NEW a \in Article, RetryableFailure(a) PROVE CutsNothingClaimed
  BY <1>2 DEF RetryableFailure, CutsNothingClaimed
<1>3. ASSUME NEW a \in Article, PermanentFailure(a) PROVE CutsNothingClaimed
  BY <1>3 DEF PermanentFailure, CutsNothingClaimed
<1>4. ASSUME NEW a \in Article, NEW ok \in SUBSET Article,
             NEW bad \in SUBSET Article, NEW pre \in BOOLEAN,
             AcceptArticle(a, ok, bad, pre)
      PROVE  CutsNothingClaimed
  BY <1>4 DEF AcceptArticle, CutsNothingClaimed
<1>5. ASSUME NEW a \in Article, OpenFault(a) PROVE CutsNothingClaimed
  BY <1>5 DEF OpenFault, CutsNothingClaimed
<1>6. ASSUME NEW a \in Article, LateDuplicate(a) PROVE CutsNothingClaimed
  BY <1>6 DEF LateDuplicate, CutsNothingClaimed
<1>7. ASSUME NEW a \in Article, NEW pre \in BOOLEAN,
             FatalArticle(a, pre)
      PROVE  CutsNothingClaimed
  BY <1>7 DEF FatalArticle, CutsNothingClaimed
<1>8. CASE Checkpoint
  BY <1>8 DEF Checkpoint, CutsNothingClaimed
<1>9. ASSUME NEW f \in File, Finalize(f) PROVE CutsNothingClaimed
  BY <1>9 DEF Finalize, CutsNothingClaimed
<1>10. ASSUME NEW f \in File, NEW ok \in SUBSET Article,
              Drain(f, ok)
       PROVE  CutsNothingClaimed
  BY <1>10 DEF Drain, DrainFile, CutsNothingClaimed, IInv, TypeOK, TypeDisk
<1>11. ASSUME NEW f \in File, Sync(f) PROVE CutsNothingClaimed
  BY <1>11 DEF Sync, CutsNothingClaimed
<1>12. ASSUME NEW f \in File, Truncate(f) PROVE CutsNothingClaimed
  <2>1. CASE page' = page
    BY <2>1 DEF CutsNothingClaimed
  <2>2. CASE TruncateFile(f, Bound(f))
    BY <1>12, <2>2, TruncateBound, CutBound DEF Truncate
  <2> QED BY <1>12, <2>1, <2>2 DEF Truncate
<1>13. ASSUME NEW f \in File, Stat(f) PROVE CutsNothingClaimed
  BY <1>13 DEF Stat, CutsNothingClaimed
<1>14. CASE Advance
  BY <1>14 DEF Advance, CutsNothingClaimed
<1>15. CASE Commit
  BY <1>15 DEF Commit, CutsNothingClaimed
<1>16. CASE Ack
  BY <1>16 DEF Ack, CutsNothingClaimed
<1>17. ASSUME NEW f \in File, Confirm(f) PROVE CutsNothingClaimed
  BY <1>17 DEF Confirm, CutsNothingClaimed
<1>18. CASE BarrierReturns
  BY <1>18 DEF BarrierReturns, CutsNothingClaimed
<1>19. ASSUME NEW f \in File, Timeout(f) PROVE CutsNothingClaimed
  BY <1>19 DEF Timeout, CutsNothingClaimed
<1>20. ASSUME NEW f \in File, Release(f) PROVE CutsNothingClaimed
  BY <1>20 DEF Release, CloseFile, CutsNothingClaimed, IInv, TypeOK, TypeDisk
<1>21. ASSUME NEW ok \in SUBSET Article, LateOp(ok) PROVE CutsNothingClaimed
  <2>1. CASE page' = page
    BY <2>1 DEF CutsNothingClaimed
  <2>2. CASE late.file \in open /\ late.op = "truncate"
    BY <1>21, <2>2, LateBound, CutBound, OpenIsNamed DEF LateOp
  <2>3. CASE late.file \in open /\ late.op \in {"drain", "close"}
    BY <1>21, <2>3 DEF LateOp, DrainFile, CloseFile, CutsNothingClaimed, IInv,
       TypeOK, TypeDisk
  <2> QED BY <1>21, <2>1, <2>2, <2>3 DEF LateOp
<1>22. ASSUME NEW f \in File, Deliver(f) PROVE CutsNothingClaimed
  BY <1>22 DEF Deliver, CutsNothingClaimed
<1>23. CASE Reevaluating
  BY <1>23, ReevaluatingFrame DEF IInv, CutsNothingClaimed
<1>24. CASE Flush
  BY <1>24 DEF Flush, CutsNothingClaimed
<1>25. CASE Crash
  BY <1>25 DEF Crash, CutsNothingClaimed
<1>26. ASSUME NEW f \in File, NEW p \in Path, NEW n \in Absent..MaxEnd,
              Tamper(f, p, n)
       PROVE  CutsNothingClaimed
  BY <1>26 DEF Tamper, CutsNothingClaimed
<1>27. CASE Hydrate
  BY <1>27 DEF Hydrate, CutsNothingClaimed
<1>28. ASSUME NEW f \in File, ResumeFile(f) PROVE CutsNothingClaimed
  BY <1>28 DEF ResumeFile, CutsNothingClaimed
<1>29. CASE ResumeFault
  BY <1>29 DEF ResumeFault, CutsNothingClaimed
<1>30. CASE ReplaceFromRuns
  BY <1>30 DEF ReplaceFromRuns, CutsNothingClaimed
<1>31. ASSUME NEW f \in File, Strand(f) PROVE CutsNothingClaimed
  <2>1. CASE page' = page
    BY <2>1 DEF CutsNothingClaimed
  <2>2. CASE TruncateFile(f, boundOver(Of(runs, f)))
    BY <1>31, <2>2, TrimBound, CutBound DEF Strand
  <2> QED BY <1>31, <2>1, <2>2 DEF Strand
<1>32. ASSUME NEW f \in File, StrandFault(f) PROVE CutsNothingClaimed
  BY <1>32 DEF StrandFault, CutsNothingClaimed
<1>33. CASE Started
  BY <1>33 DEF Started, CutsNothingClaimed
<1>34. CASE UNCHANGED vars
  BY <1>34 DEF vars, CutsNothingClaimed
<1> QED
  BY <1>1, <1>2, <1>3, <1>4, <1>5, <1>6, <1>7, <1>8, <1>9, <1>10, <1>11, <1>12,
     <1>13, <1>14, <1>15, <1>16, <1>17, <1>18, <1>19, <1>20, <1>21, <1>22,
     <1>23, <1>24, <1>25, <1>26, <1>27, <1>28, <1>29, <1>30, <1>31, <1>32,
     <1>33, <1>34
     DEF Next, Fetching, Assembling, Syncing, Completing, Restarting

\* No truncate of the program, its caller still waiting or long gone, and no
\* trim of the startup sweep removes bytes that are recorded in the database
\* or that a writer has still to report.
THEOREM ClaimedBytesSurvive == Spec => ClaimedIsNeverCut
<1>1. IInv /\ [Next]_vars => [CutsNothingClaimed]_vars
  BY CutsNothingClaimedStep
<1> QED BY <1>1, InductiveInvariant, PTL DEF Spec, ClaimedIsNeverCut

-----------------------------------------------------------------------------
(* What becomes of every article: no claim is stranded, Complete is earned *)

\* A file whose counted parts are as many as it waits for has them all.
LEMMA CountIsWhole ==
  ASSUME NEW f \in File, NEW D, NEW S \in SUBSET Article, Of(S, f) \cap D = {},
         Cardinality(Of(S, f)) >= Cardinality(Arts(f) \ D)
  PROVE  Arts(f) \subseteq D \cup S
<1> DEFINE A == Arts(f) \ D
           B == Of(S, f)
<1>1. IsFiniteSet(A) /\ B \in SUBSET A
  BY FS_Subset, ConstantAssumption DEF Arts, Of
<1>2. IsFiniteSet(B) /\ Cardinality(B) <= Cardinality(A) /\ (Cardinality(A) = Cardinality(B) => A = B)
  BY <1>1, FS_Subset
<1>3. Cardinality(A) \in Nat /\ Cardinality(B) \in Nat
  BY <1>1, <1>2, FS_CardinalityType
<1>4. A = B
  BY <1>2, <1>3
<1> QED BY <1>4 DEF Of

\* A file that is tombstoned, and of which no writer holds an article that is
\* still Emitted, is resolved.
LEMMA TombIsResolved ==
  ASSUME StrandInv, NEW f \in tomb,
         \A a \in Of(emitted, f) : f \notin open \/ a \notin buf \cup written \cup reported
  PROVE  Arts(f) \subseteq done
<1> SUFFICES ASSUME NEW a \in Arts(f), a \notin done PROVE FALSE
  OBVIOUS
<1>1. a \in seenDone /\ a \in emitted /\ FileOf[a] = f /\ a \in Article
  BY DEF StrandInv, TombIsWhole, ArticlesInOrder, Arts, Of
<1>2. a \notin flight
  BY <1>1 DEF StrandInv, ArticlesInOrder, Seen
<1>3. a \in Of(emitted, f)
  BY <1>1 DEF Of
<1> QED BY <1>1, <1>2, <1>3 DEF StrandInv, NoStrandedArticle

\* What the pipeline and the worker do between barriers only adds.
LEMMA WorkGrows ==
  ASSUME StrandInv, Up, UNCHANGED <<barrier, late, reported, runs, phase>>,
         done \subseteq done', seenDone \subseteq seenDone', buf' \cup written' \subseteq seenDone',
         \A f \in File : fin'[f] = fin[f] \/ fin'[f] = "queued"
  PROVE  DrainIsWhole' /\ ClosedIsResolved' /\ RunsAreKnown'
<1>1. DrainIsWhole'
  BY DEF StrandInv, DrainIsWhole, barrier, Idle
<1>2. ClosedIsResolved'
  BY DEF StrandInv, ClosedIsResolved
<1>3. RunsAreKnown'
  BY DEF StrandInv, RunsAreKnown, Up
<1> QED BY <1>1, <1>2, <1>3

\* A count goes on standing for the same articles.
LEMMA AwaitsStill ==
  ASSUME NEW f \in File, Awaits(f), total'[f] = total[f], done \subseteq done',
         (flight' \cup fatalq' \cup Seen') \cap done \subseteq flight \cup fatalq \cup Seen,
         total[f] = 0 => Of(fatalq' \cup Seen', f) = {}
  PROVE  Awaits(f)'
<1>1. CASE total[f] = 0
  BY <1>1 DEF Awaits
<1>2. CASE total[f] # 0
  <2>1. PICK D \in SUBSET done : /\ total[f] = Cardinality(Arts(f) \ D)
                                 /\ D \cap (flight \cup fatalq \cup Seen) = {}
    BY <1>2 DEF Awaits
  <2>2. D \in SUBSET done' /\ D \cap (flight' \cup fatalq' \cup Seen') = {}
    BY <2>1
  <2>3. total'[f] = Cardinality(Arts(f) \ D)
    BY <2>1
  <2> QED BY <1>2, <2>2, <2>3 DEF Awaits, Arts, Of
<1> QED BY <1>1, <1>2

\* registerFile makes a file wait for what nobody has resolved or counted.
LEMMA RegisterCounts ==
  ASSUME IInv, StrandInv, NEW a \in flight \cup fatalq, Register(FileOf[a])
  PROVE  /\ total'[FileOf[a]] # 0
         /\ \E D \in SUBSET done : /\ total'[FileOf[a]] = Cardinality(Arts(FileOf[a]) \ D)
                                   /\ D \cap (flight \cup fatalq \cup Seen) = {}
         /\ \A g \in File \ {FileOf[a]} : total'[g] = total[g]
<1> DEFINE f == FileOf[a]
<1>1. a \in Article /\ f \in File /\ total \in [File -> Nat]
  BY ConstantAssumption DEF IInv, TypeOK, TypeProgress
<1>2. CASE total[f] # 0
  BY <1>1, <1>2 DEF Register, StrandInv, Awaits
<1>3. CASE total[f] = 0
  <2>1. total' = [total EXCEPT ![f] = Cardinality(Arts(f) \ done)]
    BY <1>3 DEF Register
  <2>2. Of(fatalq \cup Seen, f) = {}
    BY <1>1, <1>3 DEF StrandInv, Awaits
  <2>3. a \in flight /\ a \notin done
    BY <1>1, <2>2 DEF Of, StrandInv, ArticlesInOrder
  <2>4. a \in Arts(f) \ done
    BY <1>1, <2>3 DEF Arts, Of
  <2>5. IsFiniteSet(Arts(f) \ done)
    BY FS_Subset, ConstantAssumption DEF Arts, Of
  <2>6. Cardinality(Arts(f) \ done) # 0
    BY <2>4, <2>5, FS_EmptySet
  <2>7. Arts(f) \ done = Arts(f) \ Of(done, f)
    BY DEF Arts, Of
  <2>8. Of(done, f) \in SUBSET done /\ Of(done, f) \cap (flight \cup fatalq \cup Seen) = {}
    BY <2>2 DEF Of, StrandInv, ArticlesInOrder
  <2>9. total'[f] = Cardinality(Arts(f) \ Of(done, f)) /\ total'[f] # 0
    BY <1>1, <2>1, <2>6, <2>7
  <2>10. \A g \in File \ {f} : total'[g] = total[g]
    BY <1>1, <2>1
  <2> QED BY <2>8, <2>9, <2>10
<1> QED BY <1>2, <1>3

\* A file is tombstoned when the parts it waits for are all counted.
LEMMA CompletesWhole ==
  ASSUME NEW f \in File, NEW sd \in SUBSET Article, NEW sf \in SUBSET Article,
         CompleteOn(f, sd, sf),
         \E D \in SUBSET done' : total'[f] = Cardinality(Arts(f) \ D) /\ D \cap (sd \cup sf) = {},
         sf \subseteq done', sd = seenDone'
  PROVE  f \in tomb' \ tomb => Arts(f) \subseteq done' \cup seenDone'
<1>1. PICK D \in SUBSET done' : total'[f] = Cardinality(Arts(f) \ D) /\ D \cap (sd \cup sf) = {}
  OBVIOUS
<1>2. SUFFICES ASSUME f \in tomb' \ tomb PROVE Arts(f) \subseteq done' \cup seenDone'
  OBVIOUS
<1>3. Cardinality(Of(sd \cup sf, f)) >= Cardinality(Arts(f) \ D)
  BY <1>1, <1>2 DEF CompleteOn, Parts
<1>4. Of(sd \cup sf, f) \cap D = {} /\ sd \cup sf \in SUBSET Article
  BY <1>1 DEF Of
<1>5. Arts(f) \subseteq D \cup (sd \cup sf)
  <2> DEFINE S == sd \cup sf
  <2>1. S \in SUBSET Article /\ Of(S, f) \cap D = {} /\ Cardinality(Of(S, f)) >= Cardinality(Arts(f) \ D)
    BY <1>3, <1>4
  <2> HIDE DEF S
  <2>2. Arts(f) \subseteq D \cup S
    BY <2>1, CountIsWhole
  <2> QED BY <2>2 DEF S
<1> QED BY <1>1, <1>5

\* Only CompleteOn moves tombstones.
LEMMA CompletesOne ==
  ASSUME IInv, NEW f \in File, NEW sd, NEW sf, CompleteOn(f, sd, sf)
  PROVE  /\ tomb \subseteq tomb' /\ tomb' \subseteq tomb \cup {f}
         /\ \A g \in File : fin'[g] = fin[g] \/ fin'[g] = "queued"
BY DEF CompleteOn, IInv, TypeOK, TypeBarrier

\* Dispatch offers only what is neither resolved nor claimed.
LEMMA EmitStrands ==
  ASSUME IInv, StrandInv, NEW a \in Article, Emit(a)
  PROVE  StrandInv'
<1> USE DEF progress, pipe, cache, report, disk, db, barrier, life
<1>1. /\ emitted' = emitted \cup {a} /\ flight' = flight \cup {a} /\ a \notin done \cup emitted
      /\ UNCHANGED <<done, total, fatalq, open, tomb, buf, written, reported, seenDone, seenFailed>>
  BY DEF Emit
<1>2. a \notin Seen
  BY <1>1 DEF StrandInv, ArticlesInOrder, Seen
<1>3. ArticlesInOrder'
  BY <1>1, <1>2 DEF StrandInv, ArticlesInOrder, Seen
<1>4. \A f \in File : Awaits(f)'
  <2>1. Seen' = Seen
    BY <1>1 DEF Seen
  <2>2. (flight' \cup fatalq' \cup Seen') \cap done \subseteq flight \cup fatalq \cup Seen
    BY <1>1, <2>1
  <2>3. \A f \in File : total[f] = 0 => Of(fatalq' \cup Seen', f) = {}
    BY <1>1, <2>1 DEF StrandInv, Awaits
  <2> QED BY <1>1, <2>2, <2>3, AwaitsStill DEF StrandInv
<1>5. TombIsWhole' /\ NoStrandedArticle'
  BY <1>1 DEF StrandInv, TombIsWhole, NoStrandedArticle, Arts, Of
<1>6. DrainIsWhole' /\ ClosedIsResolved' /\ RunsAreKnown'
  BY <1>1, WorkGrows DEF Emit, StrandInv, DrainIsWhole
<1> QED BY <1>3, <1>4, <1>5, <1>6 DEF StrandInv

\* A retryable failure gives the claim back.
LEMMA RetryStrands ==
  ASSUME IInv, StrandInv, NEW a \in Article, RetryableFailure(a)
  PROVE  StrandInv'
<1> USE DEF progress, pipe, cache, report, disk, db, barrier, life
<1>1. /\ emitted' = emitted \ {a} /\ flight' = flight \ {a} /\ a \in flight
      /\ UNCHANGED <<done, total, fatalq, open, tomb, buf, written, reported, seenDone, seenFailed>>
  BY DEF RetryableFailure
<1>3. ArticlesInOrder'
  BY <1>1 DEF StrandInv, ArticlesInOrder, Seen
<1>4. \A f \in File : Awaits(f)'
  BY <1>1, AwaitsStill DEF StrandInv, Awaits, Seen
<1>5. TombIsWhole' /\ NoStrandedArticle'
  BY <1>1 DEF StrandInv, TombIsWhole, NoStrandedArticle, Arts, Of
<1>6. DrainIsWhole' /\ ClosedIsResolved' /\ RunsAreKnown'
  BY <1>1, WorkGrows DEF RetryableFailure, StrandInv, DrainIsWhole
<1> QED BY <1>3, <1>4, <1>5, <1>6 DEF StrandInv

\* The files a result does not register keep their counts; the one it does
\* registers may count a into what it waits for.
LEMMA RegisteredAwait ==
  ASSUME IInv, StrandInv, NEW a \in flight \cup fatalq, Register(FileOf[a]),
         done \subseteq done',
         flight' \cup fatalq' \cup Seen' \subseteq flight \cup fatalq \cup Seen,
         \A f \in File \ {FileOf[a]} : Of(fatalq' \cup Seen', f) \subseteq Of(fatalq \cup Seen, f)
  PROVE  \A f \in File : Awaits(f)'
<1>1. ASSUME NEW f \in File, f # FileOf[a] PROVE Awaits(f)'
  <2>1. total'[f] = total[f] /\ Awaits(f)
    BY <1>1, RegisterCounts DEF StrandInv
  <2>2. total[f] = 0 => Of(fatalq' \cup Seen', f) = {}
    BY <1>1, <2>1 DEF Awaits
  <2> QED BY <1>1, <2>1, <2>2, AwaitsStill
<1>2. Awaits(FileOf[a])'
  <2>1. PICK D \in SUBSET done : /\ total'[FileOf[a]] = Cardinality(Arts(FileOf[a]) \ D)
                                 /\ D \cap (flight \cup fatalq \cup Seen) = {}
    BY RegisterCounts
  <2>2. total'[FileOf[a]] # 0
    BY RegisterCounts
  <2>3. D \in SUBSET done' /\ D \cap (flight' \cup fatalq' \cup Seen') = {}
    BY <2>1
  <2> QED BY <2>1, <2>2, <2>3 DEF Awaits, Arts, Of
<1> QED BY <1>1, <1>2

\* A permanent failure resolves the article and queues its part.
LEMMA PermanentStrands ==
  ASSUME IInv, StrandInv, NEW a \in Article, PermanentFailure(a)
  PROVE  StrandInv'
<1> USE DEF progress, pipe, cache, report, disk, db, barrier, life
<1>0. a \in flight /\ a \notin done
  BY DEF PermanentFailure, StrandInv, ArticlesInOrder
<1>1. /\ emitted' = emitted \ {a} /\ flight' = flight \ {a} /\ done' = done \cup {a}
      /\ fatalq' = fatalq \cup {a} /\ Register(FileOf[a])
      /\ UNCHANGED <<open, tomb, buf, written, reported, seenDone, seenFailed>>
  BY <1>0 DEF PermanentFailure
<1>3. ArticlesInOrder'
  BY <1>0, <1>1 DEF StrandInv, ArticlesInOrder, Seen
<1>4. \A f \in File : Awaits(f)'
  <2>1. flight' \cup fatalq' \cup Seen' \subseteq flight \cup fatalq \cup Seen
    BY <1>0, <1>1 DEF Seen
  <2>2. \A f \in File \ {FileOf[a]} : Of(fatalq' \cup Seen', f) \subseteq Of(fatalq \cup Seen, f)
    BY <1>1 DEF Seen, Of
  <2> QED BY <1>0, <1>1, <2>1, <2>2, RegisteredAwait
<1>5. TombIsWhole' /\ NoStrandedArticle'
  BY <1>1 DEF StrandInv, TombIsWhole, NoStrandedArticle, Arts, Of
<1>6. DrainIsWhole' /\ ClosedIsResolved' /\ RunsAreKnown'
  BY <1>1, WorkGrows DEF PermanentFailure, StrandInv, DrainIsWhole
<1> QED BY <1>3, <1>4, <1>5, <1>6 DEF StrandInv

\* A failed open gives the claim back, or drops the part of an article that is
\* resolved already.
LEMMA OpenFaultStrands ==
  ASSUME IInv, StrandInv, NEW a \in Article, OpenFault(a)
  PROVE  StrandInv'
<1> USE DEF progress, pipe, cache, report, disk, db, barrier, life
<1>1. /\ emitted' = emitted \ {a} /\ flight' = flight \ {a} /\ fatalq' = fatalq \ {a}
      /\ a \in flight \cup fatalq /\ Register(FileOf[a])
      /\ UNCHANGED <<done, open, tomb, buf, written, reported, seenDone, seenFailed>>
  BY DEF OpenFault
<1>3. ArticlesInOrder'
  BY <1>1 DEF StrandInv, ArticlesInOrder, Seen
<1>4. \A f \in File : Awaits(f)'
  <2>1. flight' \cup fatalq' \cup Seen' \subseteq flight \cup fatalq \cup Seen
    BY <1>1 DEF Seen
  <2>2. \A f \in File \ {FileOf[a]} : Of(fatalq' \cup Seen', f) \subseteq Of(fatalq \cup Seen, f)
    BY <1>1 DEF Seen, Of
  <2> QED BY <1>1, <2>1, <2>2, RegisteredAwait
<1>5. TombIsWhole' /\ NoStrandedArticle'
  BY <1>1 DEF StrandInv, TombIsWhole, NoStrandedArticle, Arts, Of
<1>6. DrainIsWhole' /\ ClosedIsResolved' /\ RunsAreKnown'
  BY <1>1, WorkGrows DEF OpenFault, StrandInv, DrainIsWhole
<1> QED BY <1>3, <1>4, <1>5, <1>6 DEF StrandInv


\* An accepted article joins what its writer holds, and its file is tombstoned
\* only on the last part.
LEMMA AcceptStrands ==
  ASSUME IInv, StrandInv, NoRollback, NEW a \in Article, NEW ok \in SUBSET Article,
         NEW bad \in SUBSET Article, NEW pre \in BOOLEAN, AcceptArticle(a, ok, bad, pre)
  PROVE  StrandInv'
<1> USE DEF progress, pipe, cache, report, disk, db, barrier, life
<1> DEFINE f == FileOf[a]
<1>0. bad = {} /\ ok \subseteq buf \cup {a} /\ a \in flight /\ f \in File /\ f \notin tomb
  BY ConstantAssumption DEF AcceptArticle, NoRollback, Fault
<1>1. /\ flight' = flight \ {a} /\ seenDone' = seenDone \cup {a} /\ open' = open \cup {f}
      /\ written' = written \cup ok /\ buf' = (buf \cup {a}) \ ok /\ Register(f)
      /\ emitted' = emitted /\ CompleteOn(f, seenDone', seenFailed)
      /\ UNCHANGED <<done, fatalq, reported, seenFailed>>
  BY <1>0 DEF AcceptArticle
<1>2. /\ tomb \subseteq tomb' /\ tomb' \subseteq tomb \cup {f}
      /\ \A g \in File : fin'[g] = fin[g] \/ fin'[g] = "queued"
  BY <1>0, <1>1, CompletesOne
<1>3. ArticlesInOrder'
  BY <1>0, <1>1 DEF StrandInv, ArticlesInOrder, Seen
<1>4. \A g \in File : Awaits(g)'
  <2>1. flight' \cup fatalq' \cup Seen' \subseteq flight \cup fatalq \cup Seen
    BY <1>0, <1>1 DEF Seen
  <2>2. \A g \in File \ {f} : Of(fatalq' \cup Seen', g) \subseteq Of(fatalq \cup Seen, g)
    BY <1>1 DEF Seen, Of
  <2> QED BY <1>0, <1>1, <2>1, <2>2, RegisteredAwait
<1>5. TombIsWhole'
  <2>1. \E D \in SUBSET done' : total'[f] = Cardinality(Arts(f) \ D) /\ D \cap (seenDone' \cup seenFailed) = {}
    <3>1. PICK D \in SUBSET done : /\ total'[f] = Cardinality(Arts(f) \ D)
                                   /\ D \cap (flight \cup fatalq \cup Seen) = {}
      BY <1>0, <1>1, RegisterCounts
    <3>2. D \in SUBSET done' /\ D \cap (seenDone' \cup seenFailed) = {}
      BY <1>0, <1>1, <3>1 DEF Seen
    <3> QED BY <3>1, <3>2
  <2>2. seenDone' \in SUBSET Article /\ seenFailed \in SUBSET Article /\ seenFailed \subseteq done'
    BY <1>1 DEF IInv, TypeOK, TypeWriter, StrandInv, ArticlesInOrder
  <2>3. f \in tomb' \ tomb => Arts(f) \subseteq done' \cup seenDone'
    BY <1>0, <1>1, <2>1, <2>2, CompletesWhole
  <2> QED BY <1>0, <1>1, <1>2, <2>3 DEF StrandInv, TombIsWhole, Arts, Of
<1>6. NoStrandedArticle'
  BY <1>1 DEF StrandInv, NoStrandedArticle
<1>7. DrainIsWhole' /\ ClosedIsResolved' /\ RunsAreKnown'
  <2>1. buf' \cup written' \subseteq seenDone'
    BY <1>0, <1>1 DEF StrandInv, DrainIsWhole
  <2> QED BY <1>1, <1>2, <2>1, WorkGrows DEF AcceptArticle
<1> QED BY <1>3, <1>4, <1>5, <1>6, <1>7 DEF StrandInv

\* The part of a failed article is counted; the article is resolved already.
LEMMA FatalStrands ==
  ASSUME IInv, StrandInv, NEW a \in Article, NEW pre \in BOOLEAN, FatalArticle(a, pre)
  PROVE  StrandInv'
<1> USE DEF progress, pipe, cache, report, disk, db, barrier, life
<1> DEFINE f == FileOf[a]
<1>0. a \in fatalq /\ f \in File /\ f \notin tomb /\ a \in done
  BY ConstantAssumption DEF FatalArticle, StrandInv, ArticlesInOrder
<1>1. /\ fatalq' = fatalq \ {a} /\ open' = open \cup {f} /\ seenFailed' = seenFailed \cup {a}
      /\ UNCHANGED <<done, emitted, flight, total, buf, written, reported, seenDone>>
      /\ UNCHANGED <<tomb, fin>> \/ CompleteOn(f, seenDone, seenFailed')
  BY DEF FatalArticle
<1>2. /\ tomb \subseteq tomb' /\ tomb' \subseteq tomb \cup {f}
      /\ \A g \in File : fin'[g] = fin[g] \/ fin'[g] = "queued"
  BY <1>0, <1>1, CompletesOne
<1>3. ArticlesInOrder'
  BY <1>0, <1>1 DEF StrandInv, ArticlesInOrder, Seen
<1>4. \A g \in File : Awaits(g)'
  <2>1. flight' \cup fatalq' \cup Seen' \subseteq flight \cup fatalq \cup Seen
    BY <1>0, <1>1 DEF Seen
  <2>2. \A g \in File : Of(fatalq' \cup Seen', g) \subseteq Of(fatalq \cup Seen, g)
    BY <2>1, <1>0, <1>1 DEF Seen, Of
  <2>3. \A g \in File : total[g] = 0 => Of(fatalq' \cup Seen', g) = {}
    BY <2>2 DEF StrandInv, Awaits
  <2> QED BY <1>1, <2>1, <2>3, AwaitsStill DEF StrandInv
<1>5. TombIsWhole'
  <2>1. CASE UNCHANGED tomb
    BY <1>1, <2>1 DEF StrandInv, TombIsWhole, Arts, Of
  <2>2. CASE CompleteOn(f, seenDone, seenFailed')
    <3>1. total[f] # 0
      BY <1>0 DEF StrandInv, Awaits, Of
    <3>2. \E D \in SUBSET done' : total'[f] = Cardinality(Arts(f) \ D) /\ D \cap (seenDone \cup seenFailed') = {}
      <4>1. PICK D \in SUBSET done : /\ total[f] = Cardinality(Arts(f) \ D)
                                     /\ D \cap (flight \cup fatalq \cup Seen) = {}
        BY <1>0, <3>1 DEF StrandInv, Awaits
      <4>2. D \in SUBSET done' /\ D \cap (seenDone \cup seenFailed') = {}
        BY <1>0, <1>1, <4>1 DEF Seen
      <4>3. total'[f] = Cardinality(Arts(f) \ D)
        BY <1>1, <4>1
      <4> QED BY <4>2, <4>3
    <3>3. seenDone \in SUBSET Article /\ seenFailed' \in SUBSET Article /\ seenFailed' \subseteq done'
      BY <1>0, <1>1 DEF IInv, TypeOK, TypeWriter, StrandInv, ArticlesInOrder
    <3>4. f \in tomb' \ tomb => Arts(f) \subseteq done' \cup seenDone'
      BY <1>0, <1>1, <2>2, <3>2, <3>3, CompletesWhole
    <3> QED BY <1>0, <1>1, <1>2, <3>4 DEF StrandInv, TombIsWhole, Arts, Of
  <2> QED BY <1>1, <2>1, <2>2
<1>6. NoStrandedArticle'
  BY <1>1 DEF StrandInv, NoStrandedArticle
<1>7. DrainIsWhole' /\ ClosedIsResolved' /\ RunsAreKnown'
  BY <1>1, <1>2, WorkGrows DEF FatalArticle, StrandInv, DrainIsWhole
<1> QED BY <1>3, <1>4, <1>5, <1>6, <1>7 DEF StrandInv

\* Only the part of a resolved article comes late to a tombstoned file: every
\* other article of the file has been accepted.
LEMMA LateStrands ==
  ASSUME IInv, StrandInv, NEW a \in Article, LateDuplicate(a)
  PROVE  StrandInv'
<1> USE DEF progress, pipe, cache, report, disk, db, barrier, life
<1>0. a \in fatalq /\ a \in done /\ a \notin flight
  <2>1. a \in Arts(FileOf[a])
    BY DEF Arts, Of
  <2>2. a \in done \cup seenDone
    BY <2>1 DEF LateDuplicate, StrandInv, TombIsWhole
  <2> QED BY <2>2 DEF LateDuplicate, StrandInv, ArticlesInOrder, Seen
<1>1. /\ fatalq' = fatalq \ {a} /\ flight' = flight
      /\ UNCHANGED <<done, emitted, total, open, tomb, buf, written, reported, seenDone, seenFailed>>
  BY <1>0 DEF LateDuplicate
<1>3. ArticlesInOrder'
  BY <1>1 DEF StrandInv, ArticlesInOrder, Seen
<1>4. \A f \in File : Awaits(f)'
  <2>1. Seen' = Seen
    BY <1>1 DEF Seen
  <2>2. (flight' \cup fatalq' \cup Seen') \cap done \subseteq flight \cup fatalq \cup Seen
    BY <1>1, <2>1
  <2>3. \A f \in File : total[f] = 0 => Of(fatalq' \cup Seen', f) = {}
    BY <1>1, <2>1 DEF StrandInv, Awaits, Of
  <2> QED BY <1>1, <2>2, <2>3, AwaitsStill DEF StrandInv
<1>5. TombIsWhole' /\ NoStrandedArticle'
  BY <1>1 DEF StrandInv, TombIsWhole, NoStrandedArticle, Arts, Of
<1>6. DrainIsWhole' /\ ClosedIsResolved' /\ RunsAreKnown'
  BY <1>1, WorkGrows DEF LateDuplicate, StrandInv, DrainIsWhole
<1> QED BY <1>3, <1>4, <1>5, <1>6 DEF StrandInv


-----------------------------------------------------------------------------
(* The barrier's steps move no article; they confirm what is resolved *)

Fates == <<done, emitted, flight, fatalq, seenDone, seenFailed, tomb, total>>

\* Where no article changes its fate, nothing is left to count.
LEMMA FatesStill ==
  ASSUME StrandInv, UNCHANGED Fates
  PROVE  ArticlesInOrder' /\ (\A f \in File : Awaits(f)') /\ TombIsWhole'
<1> USE DEF Fates
<1>1. ArticlesInOrder' /\ TombIsWhole'
  BY DEF StrandInv, ArticlesInOrder, TombIsWhole, Seen, Arts, Of
<1>2. \A f \in File : Awaits(f)'
  <2>1. Seen' = Seen
    BY DEF Seen
  <2>2. (flight' \cup fatalq' \cup Seen') \cap done \subseteq flight \cup fatalq \cup Seen
    BY <2>1
  <2>3. \A f \in File : total[f] = 0 => Of(fatalq' \cup Seen', f) = {}
    BY <2>1 DEF StrandInv, Awaits
  <2> QED BY <2>2, <2>3, AwaitsStill DEF StrandInv
<1> QED BY <1>1, <1>2

\* A drain in which no write fails rolls nothing back.
LEMMA DrainsAll ==
  ASSUME IInv, StrandInv, NEW f \in open, DrainFile(f, Of(buf, f))
  PROVE  /\ UNCHANGED <<emitted, seenDone>>
         /\ buf' \cup written' \cup reported' = buf \cup written \cup reported
         /\ \A g \in File \ {f} : Of(reported', g) = Of(reported, g)
<1>1. /\ emitted' = emitted \ (Of(buf, f) \ Of(buf, f)) /\ seenDone' = seenDone \ (Of(buf, f) \ Of(buf, f))
      /\ reported' = reported \cup Of(written, f) \cup Of(buf, f)
      /\ written' = written \ Arts(f) /\ buf' = buf \ Arts(f)
  BY DEF DrainFile
<1>2. buf \subseteq Article /\ written \subseteq Article
  BY DEF IInv, TypeOK, TypeWriter
<1> QED BY <1>1, <1>2 DEF Arts, Of

\* An aborted or returning barrier holds nothing.
LEMMA ResetStrands ==
  ASSUME StrandInv, Reset, UNCHANGED <<seenDone, done, reported>>,
         buf' \cup written' \subseteq seenDone',
         late' = late \/ late'.op \in {"drain", "sync", "truncate", "sync2", "close"},
         late.op # "none" => late.op \in {"confirm", "close"} \/ Idle
  PROVE  DrainIsWhole'
BY DEF StrandInv, DrainIsWhole, Reset, Idle

\* The stall record after an abort asks for nothing to be released.
LEMMA AbortCloses ==
  ASSUME IInv, StrandInv, Abort, UNCHANGED done, late' = late \/ late'.op # "close"
  PROVE  ClosedIsResolved'
<1>1. \A f \in File : fin'[f] = fin[f] \/ fin'[f] = "pending"
  BY DEF Abort, IInv, TypeOK, TypeBarrier
<1> QED BY <1>1 DEF StrandInv, ClosedIsResolved

\* A finalize returns on a resolved file.
LEMMA ReturnsResolved ==
  ASSUME IInv, StrandInv, FinalizeReturns, UNCHANGED <<done, late>>, bfin # NoFile,
         Arts(bfin) \subseteq done
  PROVE  ClosedIsResolved'
<1>1. \A f \in File : fin'[f] = fin[f] \/ f = bfin
  BY DEF FinalizeReturns, IInv, TypeOK, TypeBarrier
<1> QED BY <1>1 DEF StrandInv, ClosedIsResolved, Arts, Of


\* A barrier that finds a file closed drops what it drained from it; a finalize
\* that does returns, and nothing of the file was left to a writer.
LEMMA GoneStrands ==
  ASSUME IInv, StrandInv, NEW f \in File, f \in btodo, f \notin open, FileGone(f),
         late.op = "none", UNCHANGED <<late, done, seenDone, buf, written, reported>>
  PROVE  DrainIsWhole' /\ ClosedIsResolved'
<1>1. CASE bfin = NoFile
  <2>1. /\ btodo' = btodo \ {f} /\ bfiles' = bfiles \ {f} /\ bgot' = bgot \ Arts(f)
        /\ UNCHANGED <<bpc, fin>>
    BY <1>1 DEF FileGone
  <2>2. \A g \in bfiles' : Of(reported', g) \subseteq bgot'
    BY <2>1 DEF StrandInv, DrainIsWhole, Arts, Of
  <2>3. DrainIsWhole'
    BY <2>1, <2>2 DEF StrandInv, DrainIsWhole, Idle
  <2>4. ClosedIsResolved'
    BY <2>1 DEF StrandInv, ClosedIsResolved
  <2> QED BY <2>3, <2>4
<1>2. CASE bfin # NoFile
  <2>1. f = bfin /\ f \in tomb
    BY <1>2 DEF IInv, FinalizeIsAlone
  <2>2. Arts(bfin) \subseteq done
    BY <2>1, TombIsResolved
  <2>3. FinalizeReturns
    BY <1>2 DEF FileGone
  <2>4. DrainIsWhole'
    BY <2>3, ResetStrands DEF FinalizeReturns, StrandInv, DrainIsWhole
  <2>5. ClosedIsResolved'
    BY <1>2, <2>2, <2>3, ReturnsResolved
  <2> QED BY <2>4, <2>5
<1> QED BY <1>1, <1>2

\* A step that changes neither fates nor what writers hold strands nothing.
LEMMA QuietStrands ==
  ASSUME StrandInv, UNCHANGED Fates, UNCHANGED <<open, buf, written, reported>>,
         Up, Up', runs' = runs \/ runs' = runs \cup bgot,
         DrainIsWhole', ClosedIsResolved'
  PROVE  StrandInv'
<1>1. NoStrandedArticle' /\ RunsAreKnown'
  BY DEF Fates, StrandInv, NoStrandedArticle, RunsAreKnown, DrainIsWhole, Up
<1> QED BY <1>1, FatesStill DEF StrandInv

\* The phases of a barrier up to the commit.
LEMMA BarrierStrands ==
  ASSUME IInv, StrandInv, NoRollback,
         \/ Checkpoint \/ Advance \/ Commit
         \/ \E f \in File : Finalize(f) \/ Sync(f) \/ Truncate(f) \/ Stat(f)
  PROVE  StrandInv'
<1> USE DEF progress, pipe, cache, report, disk, db, barrier, life, Fates
<1>1. CASE Checkpoint
  <2>1. DrainIsWhole'
    BY <1>1 DEF Checkpoint, StartBarrier, StrandInv, DrainIsWhole, Idle
  <2>2. ClosedIsResolved'
    BY <1>1 DEF Checkpoint, StrandInv, ClosedIsResolved
  <2> QED BY <1>1, <2>1, <2>2, QuietStrands DEF Checkpoint, Up
<1>2. CASE Advance
  <2>1. bpc' # "drain" /\ bpc' # "confirm" /\ bpc' # "idle" /\ bpc \notin {"idle", "confirm"}
    BY <1>2 DEF Advance, NextPhase
  <2>2. DrainIsWhole'
    BY <1>2, <2>1 DEF Advance, StrandInv, DrainIsWhole, Idle
  <2>3. ClosedIsResolved'
    BY <1>2 DEF Advance, StrandInv, ClosedIsResolved
  <2> QED BY <1>2, <2>2, <2>3, QuietStrands DEF Advance, Up
<1>3. CASE Commit
  <2>1. CASE Abort
    <3>1. DrainIsWhole'
      BY <1>3, <2>1, ResetStrands DEF Commit, Abort, StrandInv, DrainIsWhole
    <3>2. ClosedIsResolved'
      BY <1>3, <2>1, AbortCloses DEF Commit
    <3> QED BY <1>3, <3>1, <3>2, QuietStrands DEF Commit, Up
  <2>2. CASE bpc' = "ack" /\ UNCHANGED <<bfin, bretry, btodo, bfiles, bgot, fin>>
    <3>1. DrainIsWhole'
      BY <1>3, <2>2 DEF Commit, StrandInv, DrainIsWhole, Idle
    <3>2. ClosedIsResolved'
      BY <1>3, <2>2 DEF Commit, StrandInv, ClosedIsResolved
    <3> QED BY <1>3, <3>1, <3>2, QuietStrands DEF Commit, Up
  <2> QED BY <1>3, <2>1, <2>2 DEF Commit
<1>4. ASSUME NEW f \in File, Finalize(f) PROVE StrandInv'
  <2>0. fin[f] \in {"queued", "pending"} /\ Idle /\ late.op = "none" /\ f \in tomb
    BY <1>4 DEF Finalize, IInv, FinalizeIsAlone
  <2>1. CASE f \in open
    <3>1. \/ StartBarrier(f, fin[f] = "pending", {f}) /\ fin' = [fin EXCEPT ![f] = "running"]
          \/ UNCHANGED barrier /\ fin' = [fin EXCEPT ![f] = "unread"]
      BY <1>4, <2>1 DEF Finalize, NoRollback, Fault
    <3>2. DrainIsWhole'
      BY <1>4, <2>0, <3>1 DEF Finalize, StartBarrier, StrandInv, DrainIsWhole, Idle
    <3>3. ClosedIsResolved'
      BY <1>4, <3>1 DEF Finalize, StrandInv, ClosedIsResolved, IInv, TypeOK, TypeBarrier
    <3> QED BY <1>4, <3>2, <3>3, QuietStrands DEF Finalize, Up
  <2>2. CASE f \notin open
    <3>1. /\ \A g \in File : fin'[g] = fin[g] \/ g = f
          /\ UNCHANGED <<barrier, late, done>>
      BY <1>4, <2>2 DEF Finalize, NoRollback, Fault, IInv, TypeOK, TypeBarrier
    <3>2. Arts(f) \subseteq done
      BY <2>0, <2>2, TombIsResolved
    <3>3. DrainIsWhole'
      BY <1>4, <3>1 DEF Finalize, StrandInv, DrainIsWhole, Idle
    <3>4. ClosedIsResolved'
      BY <3>1, <3>2 DEF StrandInv, ClosedIsResolved, Arts, Of
    <3> QED BY <1>4, <3>3, <3>4, QuietStrands DEF Finalize, Up
  <2> QED BY <2>1, <2>2
<1>5. ASSUME NEW f \in File, Sync(f) \/ Truncate(f) \/ Stat(f) PROVE StrandInv'
  <2>0. /\ f \in btodo /\ late.op = "none" /\ bpc \in {"sync", "sync2", "truncate", "stat"}
        /\ UNCHANGED Fates /\ UNCHANGED <<open, buf, written, reported, late, runs, phase>> /\ Up
        /\ \/ f \notin open /\ FileGone(f)
           \/ btodo' = btodo \ {f} /\ UNCHANGED <<bpc, bfin, bretry, bfiles, bgot, fin>>
           \/ Abort
    BY <1>5 DEF Sync, Truncate, Stat
  <2>1. CASE f \notin open /\ FileGone(f)
    BY <2>0, <2>1, GoneStrands, QuietStrands DEF Up
  <2>2. CASE btodo' = btodo \ {f} /\ UNCHANGED <<bpc, bfin, bretry, bfiles, bgot, fin>>
    <3>1. DrainIsWhole'
      BY <2>0, <2>2 DEF StrandInv, DrainIsWhole, Idle
    <3>2. ClosedIsResolved'
      BY <2>0, <2>2 DEF StrandInv, ClosedIsResolved
    <3> QED BY <2>0, <3>1, <3>2, QuietStrands DEF Up
  <2>3. CASE Abort
    <3>1. DrainIsWhole'
      BY <2>0, <2>3, ResetStrands DEF Abort, StrandInv, DrainIsWhole
    <3>2. ClosedIsResolved'
      BY <2>0, <2>3, AbortCloses
    <3> QED BY <2>0, <3>1, <3>2, QuietStrands DEF Up
  <2> QED BY <2>0, <2>1, <2>2, <2>3
<1> QED BY <1>1, <1>2, <1>3, <1>4, <1>5


\* The drain of a barrier takes everything its file has to report.
LEMMA DrainStrands ==
  ASSUME IInv, StrandInv, NoRollback, NEW f \in File, NEW ok \in SUBSET Article, Drain(f, ok)
  PROVE  StrandInv'
<1> USE DEF progress, pipe, cache, report, disk, db, barrier, life, Fates
<1>0. f \in btodo /\ late.op = "none" /\ bpc = "drain" /\ Up
      /\ UNCHANGED <<done, flight, fatalq, seenFailed, tomb, total, open, late, runs, phase>>
  BY DEF Drain
<1>1. CASE f \notin open
  BY <1>0, <1>1, GoneStrands, QuietStrands DEF Drain, Up
<1>2. CASE f \in open
  <2>1. /\ ok = Of(buf, f) /\ DrainFile(f, ok) /\ btodo' = btodo \ {f} /\ bfiles' = bfiles \cup {f}
        /\ bgot' = bgot \cup Of(reported', f) /\ UNCHANGED <<bpc, fin>>
    BY <1>2 DEF Drain, NoRollback, Fault
  <2>2. /\ UNCHANGED <<emitted, seenDone>>
        /\ buf' \cup written' \cup reported' = buf \cup written \cup reported
        /\ \A g \in File \ {f} : Of(reported', g) = Of(reported, g)
    BY <1>2, <2>1, DrainsAll
  <2>3. DrainIsWhole'
    <3>1. bgot' \cup buf' \cup written' \cup reported' \subseteq seenDone'
      BY <2>1, <2>2 DEF Of, StrandInv, DrainIsWhole
    <3>2. \A g \in bfiles' : Of(reported', g) \subseteq bgot'
      BY <2>1, <2>2 DEF StrandInv, DrainIsWhole, IInv, TypeOK, TypeBarrier
    <3> QED BY <1>0, <2>1, <3>1, <3>2 DEF StrandInv, DrainIsWhole, Idle
  <2>4. ClosedIsResolved'
    BY <1>0, <2>1 DEF StrandInv, ClosedIsResolved
  <2>5. NoStrandedArticle'
    BY <1>0, <2>2 DEF StrandInv, NoStrandedArticle
  <2>6. RunsAreKnown'
    BY <1>0, <2>2 DEF StrandInv, RunsAreKnown, Up
  <2> QED BY <1>0, <2>2, <2>3, <2>4, <2>5, <2>6, FatesStill DEF StrandInv
<1> QED BY <1>1, <1>2

\* Resolving what is accepted, or recorded, ends its claim.
LEMMA ResolveStrands ==
  ASSUME IInv, StrandInv, NEW R \in SUBSET Article, R \subseteq done \cup seenDone,
         done' = done \cup R, emitted' = emitted \ (R \ done),
         UNCHANGED <<flight, fatalq, seenDone, seenFailed, tomb, total, open, buf, written, reported>>
  PROVE  /\ ArticlesInOrder' /\ (\A f \in File : Awaits(f)') /\ TombIsWhole'
         /\ NoStrandedArticle'
<1>1. ArticlesInOrder'
  BY DEF StrandInv, ArticlesInOrder, Seen
<1>2. \A f \in File : Awaits(f)'
  <2>1. Seen' = Seen
    BY DEF Seen
  <2>2. (flight' \cup fatalq' \cup Seen') \cap done \subseteq flight \cup fatalq \cup Seen
    BY <2>1
  <2>3. \A f \in File : total[f] = 0 => Of(fatalq' \cup Seen', f) = {}
    BY <2>1 DEF StrandInv, Awaits
  <2> QED BY <2>2, <2>3, AwaitsStill DEF StrandInv
<1>3. TombIsWhole' /\ NoStrandedArticle'
  BY DEF StrandInv, TombIsWhole, NoStrandedArticle, Arts, Of
<1> QED BY <1>1, <1>2, <1>3

\* AckDurable resolves what the barrier has committed.
LEMMA AckStrands ==
  ASSUME IInv, StrandInv, Ack
  PROVE  StrandInv'
<1> USE DEF progress, pipe, cache, report, disk, db, barrier, life, Fates
<1>0. bpc = "ack" /\ Up
      /\ UNCHANGED <<flight, fatalq, seenDone, seenFailed, tomb, total, open, buf, written, reported,
                     late, runs, phase>>
  BY DEF Ack
<1>1. CASE Abort /\ UNCHANGED <<done, emitted>>
  <2>1. DrainIsWhole'
    BY <1>0, <1>1, ResetStrands DEF Abort, StrandInv, DrainIsWhole
  <2>2. ClosedIsResolved'
    BY <1>0, <1>1, AbortCloses
  <2> QED BY <1>0, <1>1, <2>1, <2>2, QuietStrands DEF Up
<1>2. CASE /\ done' = done \cup bgot /\ emitted' = emitted \ (bgot \ done)
           /\ bpc' = "confirm" /\ UNCHANGED <<btodo, bfiles, bgot, fin>>
  <2>1. bgot \subseteq done \cup seenDone /\ bgot \in SUBSET Article
    BY DEF StrandInv, DrainIsWhole, IInv, TypeOK, TypeBarrier
  <2>2. DrainIsWhole'
    BY <1>0, <1>2 DEF StrandInv, DrainIsWhole, Idle
  <2>3. ClosedIsResolved' /\ RunsAreKnown'
    BY <1>0, <1>2 DEF StrandInv, ClosedIsResolved, RunsAreKnown, Up, Arts, Of
  <2> QED BY <1>0, <1>2, <2>1, <2>2, <2>3, ResolveStrands DEF StrandInv
<1> QED BY <1>1, <1>2 DEF Ack

\* The re-evaluation resolves what is recorded.
LEMMA ReevaluateStrands ==
  ASSUME IInv, StrandInv, Reevaluating
  PROVE  StrandInv'
<1> USE DEF progress, pipe, cache, report, disk, db, barrier, life, Fates
<1>1. /\ Up
      /\ UNCHANGED <<flight, fatalq, seenDone, seenFailed, tomb, total, open, buf, written, reported,
                     late, runs, phase, barrier>>
      /\ \A f \in File : fin'[f] \in {"none", "dropped", fin[f]}
      /\ \/ done' = done /\ emitted' = emitted
         \/ done' = done \cup runs /\ emitted' = emitted \ (runs \ done)
  BY ReevaluatingFrame DEF IInv
<1>2. runs \subseteq done \cup seenDone /\ runs \in SUBSET Article
  BY <1>1 DEF StrandInv, RunsAreKnown, Up, IInv, TypeOK, TypeDatabase
<1>3. DrainIsWhole'
  BY <1>1 DEF StrandInv, DrainIsWhole, Idle
<1>4. ClosedIsResolved' /\ RunsAreKnown'
  BY <1>1 DEF StrandInv, ClosedIsResolved, RunsAreKnown, Up, Arts, Of
<1>5. CASE done' = done \cup runs /\ emitted' = emitted \ (runs \ done)
  BY <1>1, <1>2, <1>3, <1>4, <1>5, ResolveStrands DEF StrandInv
<1>6. CASE done' = done /\ emitted' = emitted
  BY <1>1, <1>3, <1>4, <1>6, QuietStrands DEF Up
<1> QED BY <1>1, <1>5, <1>6

\* Letting go of what is resolved strands nothing.
LEMMA DropsResolved ==
  ASSUME IInv, StrandInv, NEW f \in File, UNCHANGED <<done, emitted, flight>>,
         \/ Arts(f) \subseteq done
         \/ UNCHANGED <<buf, written, open>> /\ Of(reported, f) \subseteq done,
         buf \ Arts(f) \subseteq buf', written \ Arts(f) \subseteq written',
         reported \ Arts(f) \subseteq reported', open \ {f} \subseteq open'
  PROVE  NoStrandedArticle'
<1>1. SUFFICES ASSUME NEW a \in emitted, a \notin flight
               PROVE  FileOf[a] \in open' /\ a \in buf' \cup written' \cup reported'
  BY DEF NoStrandedArticle
<1>2. FileOf[a] \in open /\ a \in buf \cup written \cup reported /\ a \in Article /\ a \notin done
  BY <1>1 DEF StrandInv, NoStrandedArticle, ArticlesInOrder, IInv, TypeOK, TypeProgress
<1> QED BY <1>2 DEF Arts, Of

\* Confirm releases a report that is resolved.
LEMMA ConfirmStrands ==
  ASSUME IInv, StrandInv, NEW f \in File, Confirm(f)
  PROVE  StrandInv'
<1> USE DEF progress, pipe, cache, report, disk, db, barrier, life, Fates
<1>1. /\ bpc = "confirm" /\ f \in btodo /\ late.op = "none" /\ Up
      /\ UNCHANGED Fates /\ UNCHANGED <<open, buf, written, late, runs, phase, bpc, bfiles, bgot, fin>>
      /\ btodo' = btodo \ {f}
      /\ reported' = reported \ Arts(f) \/ reported' = reported
  BY DEF Confirm, ConfirmFile
<1>2. Of(reported, f) \subseteq done
  BY <1>1 DEF StrandInv, DrainIsWhole
<1>3. NoStrandedArticle'
  BY <1>1, <1>2, DropsResolved
<1>4. DrainIsWhole'
  BY <1>1 DEF StrandInv, DrainIsWhole, Idle, Of
<1>5. ClosedIsResolved' /\ RunsAreKnown'
  BY <1>1 DEF StrandInv, ClosedIsResolved, RunsAreKnown, Up, Arts, Of
<1> QED BY <1>1, <1>3, <1>4, <1>5, FatesStill DEF StrandInv

\* A finalize that comes to its end has resolved its file.
LEMMA ReturnStrands ==
  ASSUME IInv, StrandInv, BarrierReturns
  PROVE  StrandInv'
<1> USE DEF progress, pipe, cache, report, disk, db, barrier, life, Fates
<1>1. bpc = "confirm" /\ btodo = {} /\ Up /\ Reset
      /\ UNCHANGED Fates /\ UNCHANGED <<open, buf, written, reported, late, runs, phase>>
  BY DEF BarrierReturns, FinalizeReturns
<1>2. DrainIsWhole'
  BY <1>1, ResetStrands DEF StrandInv, DrainIsWhole
<1>3. CASE bfin = NoFile
  <2>1. ClosedIsResolved'
    BY <1>1, <1>3 DEF BarrierReturns, StrandInv, ClosedIsResolved
  <2> QED BY <1>1, <1>2, <2>1, QuietStrands DEF Up
<1>4. CASE bfin # NoFile
  <2>1. bfin \in tomb /\ Of(buf \cup written, bfin) = {} /\ Of(reported, bfin) \subseteq done
    BY <1>1, <1>4 DEF IInv, FinalizeIsAlone, StrandInv, DrainIsWhole
  <2>2. \A a \in Of(emitted, bfin) : a \notin buf \cup written \cup reported
    BY <2>1 DEF Of, StrandInv, ArticlesInOrder
  <2>3. Arts(bfin) \subseteq done
    BY <2>1, <2>2, TombIsResolved
  <2>4. ClosedIsResolved'
    BY <1>1, <1>4, <2>3, ReturnsResolved DEF BarrierReturns
  <2> QED BY <1>1, <1>2, <2>4, QuietStrands DEF Up
<1> QED BY <1>3, <1>4

\* A caller that gives up leaves the operation to be done later.
LEMMA TimeoutStrands ==
  ASSUME IInv, StrandInv, NEW f \in File, Timeout(f)
  PROVE  StrandInv'
<1> USE DEF progress, pipe, cache, report, disk, db, barrier, life, Fates
<1>1. /\ f \in btodo /\ late.op = "none" /\ Up
      /\ late' = late \/ (late'.op = bpc /\ late'.file = f)
      /\ bpc \in {"drain", "sync", "truncate", "sync2", "confirm"}
      /\ UNCHANGED Fates /\ UNCHANGED <<open, buf, written, reported, runs, phase>>
  BY DEF Timeout
<1>2. CASE bpc = "confirm"
  <2>1. btodo' = btodo \ {f} /\ UNCHANGED <<bpc, bfiles, bgot, fin>>
    BY <1>2 DEF Timeout
  <2>2. Of(reported, f) \subseteq done
    BY <1>1, <1>2 DEF StrandInv, DrainIsWhole
  <2>3. DrainIsWhole'
    BY <1>1, <1>2, <2>1, <2>2 DEF StrandInv, DrainIsWhole, Idle, Of
  <2>4. ClosedIsResolved'
    BY <1>1, <1>2, <2>1 DEF StrandInv, ClosedIsResolved
  <2> QED BY <1>1, <2>3, <2>4, QuietStrands DEF Up
<1>3. CASE bpc # "confirm"
  <2>1. Abort
    BY <1>3 DEF Timeout
  <2>2. DrainIsWhole'
    BY <1>1, <1>3, <2>1, ResetStrands DEF Abort, StrandInv, DrainIsWhole
  <2>3. ClosedIsResolved'
    BY <1>1, <1>3, <2>1, AbortCloses
  <2> QED BY <1>1, <2>2, <2>3, QuietStrands DEF Up
<1> QED BY <1>2, <1>3

\* A writer is dropped when its file is resolved.
LEMMA ReleaseStrands ==
  ASSUME IInv, StrandInv, NEW f \in File, Release(f)
  PROVE  StrandInv'
<1> USE DEF progress, pipe, cache, report, disk, db, barrier, life, Fates
<1>1. /\ Up /\ late.op = "none" /\ fin[f] \in {"close", "rclose"} /\ Arts(f) \subseteq done
      /\ UNCHANGED <<done, flight, fatalq, seenDone, seenFailed, tomb, total, runs, phase, barrier>>
      /\ \A g \in File : fin'[g] = fin[g] \/ g = f
      /\ late' = late \/ late' = [op |-> "close", file |-> f, bound |-> 0]
  BY DEF Release, StrandInv, ClosedIsResolved, IInv, TypeOK, TypeBarrier
<1>7. UNCHANGED Fates
  <2>1. emitted \ Of(buf, f) \subseteq emitted' /\ emitted' \subseteq emitted
    BY DEF Release, CloseFile
  <2>2. Of(buf, f) \cap emitted = {}
    BY <1>1 DEF StrandInv, ArticlesInOrder, Of, Arts, IInv, TypeOK, TypeWriter
  <2> QED BY <1>1, <2>1, <2>2
<1>2. /\ buf \ Arts(f) \subseteq buf' /\ written \ Arts(f) \subseteq written'
      /\ reported \ Arts(f) \subseteq reported' /\ open \ {f} \subseteq open'
      /\ buf' \subseteq buf /\ written' \subseteq written /\ reported' \subseteq reported
  BY DEF Release, CloseFile
<1>3. NoStrandedArticle'
  BY <1>1, <1>2, <1>7, DropsResolved
<1>4. DrainIsWhole'
  BY <1>1, <1>2 DEF StrandInv, DrainIsWhole, Idle, Of
<1>5. ClosedIsResolved'
  <2>1. \A g \in File : fin'[g] \in {"close", "rclose", "deliver", "done"} => Arts(g) \subseteq done
    BY <1>1 DEF StrandInv, ClosedIsResolved
  <2>2. late'.op = "close" => Arts(late'.file) \subseteq done
    BY <1>1
  <2> QED BY <1>1, <2>1, <2>2 DEF ClosedIsResolved, Arts, Of
<1>6. RunsAreKnown'
  BY <1>1 DEF StrandInv, RunsAreKnown, Up
<1> QED BY <1>1, <1>7, <1>3, <1>4, <1>5, <1>6, FatesStill DEF StrandInv

\* An operation nobody waits for any more drains everything, confirms what is
\* resolved, or closes a resolved file.
LEMMA LateOpStrands ==
  ASSUME IInv, StrandInv, NoRollback, NEW ok \in SUBSET Article, LateOp(ok)
  PROVE  StrandInv'
<1> USE DEF progress, pipe, cache, report, disk, db, barrier, life, Fates
<1> DEFINE f == late.file
<1>0. /\ Up /\ late.op # "none" /\ late' = NoOp
      /\ UNCHANGED <<done, flight, fatalq, seenFailed, tomb, total, runs, phase, barrier, fin>>
  BY DEF LateOp
<1>1. ClosedIsResolved'
  BY <1>0 DEF NoOp, StrandInv, ClosedIsResolved, Arts, Of
<1>2. CASE UNCHANGED <<emitted, seenDone, open, buf, written, reported>>
  <2>1. DrainIsWhole'
    BY <1>0, <1>2 DEF NoOp, StrandInv, DrainIsWhole, Idle
  <2> QED BY <1>0, <1>1, <1>2, <2>1, QuietStrands DEF Up
<1>3. CASE f \in open /\ late.op = "drain"
  <2>1. ok = Of(buf, f) /\ DrainFile(f, ok) /\ UNCHANGED open
    BY <1>3 DEF LateOp, NoRollback, Fault
  <2>2. /\ UNCHANGED <<emitted, seenDone>>
        /\ buf' \cup written' \cup reported' = buf \cup written \cup reported
    BY <1>3, <2>1, DrainsAll
  <2>3. bpc = "idle" /\ bfiles' = bfiles /\ bgot' = bgot /\ btodo' = btodo /\ bpc' = bpc
    BY <1>0, <1>3 DEF StrandInv, DrainIsWhole, Idle
  <2>4. DrainIsWhole'
    BY <1>0, <2>2, <2>3 DEF NoOp, StrandInv, DrainIsWhole, Idle
  <2>5. NoStrandedArticle' /\ RunsAreKnown'
    BY <1>0, <2>1, <2>2 DEF StrandInv, NoStrandedArticle, RunsAreKnown, Up
  <2> QED BY <1>0, <1>1, <2>2, <2>4, <2>5, FatesStill DEF StrandInv
<1>4. CASE f \in open /\ late.op \in {"confirm", "close"}
  <2>0. late.op = "close" => ok = Of(buf, f) /\ CloseFile(f, ok, TRUE)
    BY <1>4 DEF LateOp, NoRollback, Fault
  <2>1. /\ UNCHANGED <<emitted, seenDone>>
        /\ buf \ Arts(f) \subseteq buf' /\ written \ Arts(f) \subseteq written'
        /\ reported \ Arts(f) \subseteq reported' /\ open \ {f} \subseteq open'
        /\ buf' \subseteq buf /\ written' \subseteq written /\ reported' \subseteq reported
        /\ late.op = "confirm" => UNCHANGED <<buf, written, open>>
    BY <1>4, <2>0 DEF LateOp, ConfirmFile, CloseFile
  <2>2. f \in File
    BY <1>4 DEF IInv, TypeOK, TypeWriter
  <2>3. Arts(f) \subseteq done \/ (late.op = "confirm" /\ Of(reported, f) \subseteq done)
    BY <1>4 DEF StrandInv, DrainIsWhole, ClosedIsResolved
  <2>4. NoStrandedArticle'
    BY <1>0, <2>1, <2>2, <2>3, DropsResolved
  <2>5. DrainIsWhole'
    BY <1>0, <2>1 DEF NoOp, StrandInv, DrainIsWhole, Idle, Of
  <2>6. RunsAreKnown'
    BY <1>0, <2>1 DEF StrandInv, RunsAreKnown, Up
  <2> QED BY <1>0, <1>1, <2>1, <2>4, <2>5, <2>6, FatesStill DEF StrandInv
<1> QED BY <1>2, <1>3, <1>4 DEF LateOp

\* A delivery or a flush concerns no article.
LEMMA DeliverStrands ==
  ASSUME IInv, StrandInv, Flush \/ \E f \in File : Deliver(f)
  PROVE  StrandInv'
<1> USE DEF progress, pipe, cache, report, disk, db, barrier, life, Fates
<1>1. /\ Up /\ UNCHANGED Fates
      /\ UNCHANGED <<open, buf, written, reported, runs, phase, late, barrier>>
      /\ \A g \in File : \/ fin'[g] \in {fin[g], "none"}
                         \/ fin[g] = "deliver" /\ fin'[g] = "done"
  BY DEF Flush, Deliver, IInv, TypeOK, TypeBarrier
<1>2. DrainIsWhole'
  BY <1>1 DEF StrandInv, DrainIsWhole, Idle
<1>3. ClosedIsResolved'
  BY <1>1 DEF StrandInv, ClosedIsResolved
<1> QED BY <1>1, <1>2, <1>3, QuietStrands DEF Up

-----------------------------------------------------------------------------
(* A process that is down, or starts, has no article in its hands *)

\* With nothing fetched, counted or held, nothing is stranded.
LEMMA EmptyStrands ==
  ASSUME emitted' = {}, flight' = {}, fatalq' = {}, seenDone' = {}, seenFailed' = {}, tomb' = {},
         total' = [f \in File |-> 0]
  PROVE  /\ ArticlesInOrder' /\ (\A f \in File : Awaits(f)') /\ TombIsWhole'
         /\ NoStrandedArticle'
BY DEF ArticlesInOrder, Awaits, TombIsWhole, NoStrandedArticle, Seen, Of

\* A crash forgets every claim.
LEMMA CrashStrands ==
  ASSUME IInv, StrandInv, Crash
  PROVE  StrandInv'
<1>1. DrainIsWhole'
  BY DEF Crash, Reset, NoOp, DrainIsWhole, Idle, Of
<1>2. ClosedIsResolved' /\ RunsAreKnown'
  BY DEF Crash, NoOp, ClosedIsResolved, RunsAreKnown
<1> QED BY <1>1, <1>2, EmptyStrands DEF Crash, StrandInv

\* The start restores what is resolved, and the sweep takes back only what no
\* surviving run covers.
LEMMA StartStrands ==
  ASSUME IInv, StrandInv,
         \/ Hydrate \/ ResumeFault \/ ReplaceFromRuns \/ Started
         \/ \E f \in File : ResumeFile(f) \/ Strand(f) \/ StrandFault(f)
         \/ \E f \in File, p \in Path, n \in Absent..MaxEnd : Tamper(f, p, n)
  PROVE  StrandInv'
<1> USE DEF progress, pipe, cache, report, disk, db, barrier, life
<1>1. /\ phase # "up"
      /\ UNCHANGED <<emitted, flight, fatalq, seenDone, seenFailed, tomb, total, buf, written, reported,
                     barrier, late, fin>>
  BY DEF Hydrate, ResumeFault, ReplaceFromRuns, Started, ResumeFile, Strand, StrandFault, Tamper
<1>2. /\ emitted = {} /\ flight = {} /\ fatalq = {} /\ seenDone = {} /\ seenFailed = {} /\ tomb = {}
      /\ total = [f \in File |-> 0] /\ reported = {} /\ bpc = "idle" /\ late = NoOp /\ bgot = {}
      /\ fin = [f \in File |-> "none"]
  BY <1>1 DEF IInv, DownIsQuiet, BarrierInOrder, StrandInv, RunsAreKnown
<1>3. DrainIsWhole'
  BY <1>1, <1>2 DEF StrandInv, DrainIsWhole, Idle, NoOp, Of
<1>4. ClosedIsResolved'
  BY <1>1, <1>2 DEF ClosedIsResolved, NoOp
<1>5. /\ phase' = "up" => runs' \subseteq done'
      /\ phase' \in {"sweep", "strand"} => runs' \subseteq done'
  <2>1. CASE Hydrate \/ Started \/ ReplaceFromRuns
    BY <1>1, <2>1 DEF Hydrate, Started, ReplaceFromRuns, StrandInv, RunsAreKnown
  <2>2. CASE ResumeFault \/ \E f \in File, p \in Path, n \in Absent..MaxEnd : Tamper(f, p, n)
    BY <1>1, <2>2 DEF ResumeFault, Tamper, StrandInv, RunsAreKnown
  <2>3. CASE \E f \in File : ResumeFile(f) \/ Strand(f) \/ StrandFault(f)
    BY <1>1, <2>3 DEF ResumeFile, Strand, StrandFault, StrandInv, RunsAreKnown
  <2> QED BY <2>1, <2>2, <2>3
<1>6. RunsAreKnown'
  BY <1>1, <1>2, <1>5 DEF RunsAreKnown
<1> QED BY <1>1, <1>2, <1>3, <1>4, <1>6, EmptyStrands DEF StrandInv

\* No step of the program loses an article, as long as no part is rolled back.
LEMMA StrandStep ==
  ASSUME IInv, StrandInv, NoRollback, [Next]_vars
  PROVE  StrandInv'
<1>1. CASE Fetching
  BY <1>1, EmitStrands, RetryStrands, PermanentStrands DEF Fetching
<1>2. CASE Assembling
  BY <1>2, AcceptStrands, OpenFaultStrands, LateStrands, FatalStrands DEF Assembling
<1>3. CASE Syncing
  <2>1. CASE Checkpoint \/ Advance \/ Commit \/ \E f \in File : Finalize(f) \/ Sync(f) \/ Truncate(f) \/ Stat(f)
    BY <2>1, BarrierStrands
  <2>2. CASE Ack \/ BarrierReturns
    BY <2>2, AckStrands, ReturnStrands
  <2>3. CASE \E f \in File : Confirm(f) \/ Timeout(f) \/ Release(f)
    BY <2>3, ConfirmStrands, TimeoutStrands, ReleaseStrands
  <2>4. CASE (\E f \in File, ok \in SUBSET Article : Drain(f, ok)) \/ \E ok \in SUBSET Article : LateOp(ok)
    BY <2>4, DrainStrands, LateOpStrands
  <2> QED BY <1>3, <2>1, <2>2, <2>3, <2>4 DEF Syncing
<1>4. CASE Completing
  BY <1>4, ReevaluateStrands, DeliverStrands DEF Completing
<1>5. CASE Restarting
  BY <1>5, CrashStrands, StartStrands DEF Restarting
<1>6. CASE UNCHANGED vars
  <2> USE <1>6 DEF vars, progress, pipe, cache, report, disk, db, barrier, life, Fates
  <2>1. DrainIsWhole'
    BY DEF StrandInv, DrainIsWhole, Idle
  <2>2. ClosedIsResolved' /\ RunsAreKnown' /\ NoStrandedArticle'
    BY DEF StrandInv, ClosedIsResolved, RunsAreKnown, NoStrandedArticle
  <2> QED BY <2>1, <2>2, FatesStill DEF StrandInv
<1> QED BY <1>1, <1>2, <1>3, <1>4, <1>5, <1>6 DEF Next

\* A freshly ingested job has every article still to fetch.
LEMMA StrandInit == Init => StrandInv
<1> SUFFICES ASSUME Init PROVE StrandInv
  OBVIOUS
<1>1. ArticlesInOrder /\ TombIsWhole /\ NoStrandedArticle /\ \A f \in File : Awaits(f)
  BY DEF Init, ArticlesInOrder, Awaits, TombIsWhole, NoStrandedArticle, Seen, Of
<1>2. DrainIsWhole
  BY DEF Init, NoOp, DrainIsWhole, Idle, Of
<1>3. ClosedIsResolved /\ RunsAreKnown
  BY DEF Init, NoOp, ClosedIsResolved, RunsAreKnown
<1> QED BY <1>1, <1>2, <1>3 DEF StrandInv

\* As long as no part is rolled back, the part count stands for the articles.
LEMMA ArticlesKeepTheirFates ==
  ASSUME NoRollback PROVE Spec => []StrandInv
<1>1. IInv /\ StrandInv /\ [Next]_vars => StrandInv'
  BY StrandStep
<1> QED BY <1>1, StrandInit, InductiveInvariant, PTL DEF Spec

\* No article is left claimed with nobody in charge of it, under any schedule,
\* with any number of failed fetches, opens, fsyncs and commits, timeouts,
\* evictions, crashes and restarts, as long as no write fails and no manifest
\* is missing when a finalize begins; with either, an article can be stranded.
THEOREM NothingIsStranded ==
  ASSUME NoRollback PROVE Spec => []NoStrandedArticle
<1>1. StrandInv => NoStrandedArticle
  BY DEF StrandInv
<1> QED BY <1>1, ArticlesKeepTheirFates, PTL

-----------------------------------------------------------------------------
(* Complete is earned *)

\* A file is marked Complete when it is resolved, and what is saved of it is
\* resolved by what is saved.
LEMMA CompleteStep ==
  ASSUME IInv, StrandInv, CompleteInv, NoRollback, crashes' <= 1, [Next]_vars
  PROVE  CompleteInv'
<1> USE DEF progress, pipe, cache, report, disk, db, barrier, life
<1>0. crashes \in Nat /\ MaxCrash \in Nat /\ done \subseteq Article
  BY ConstantAssumption DEF IInv, TypeOK, TypeLife, TypeProgress
<1>1. ASSUME done \subseteq done', complete' = complete,
             UNCHANGED <<runs, dbfailed, dbcomplete, phase, crashes>>
      PROVE  CompleteInv'
  BY <1>1 DEF CompleteInv, SavedIsResolved, Arts, Of
<1>2. CASE Fetching
  BY <1>1, <1>2 DEF Fetching, Emit, RetryableFailure, PermanentFailure
<1>3. CASE Assembling
  <2>1. ASSUME NEW a \in Article, NEW ok \in SUBSET Article, NEW bad \in SUBSET Article,
               NEW pre \in BOOLEAN, AcceptArticle(a, ok, bad, pre)
        PROVE  CompleteInv'
    BY <1>1, <2>1 DEF AcceptArticle
  <2>2. ASSUME NEW a \in Article, OpenFault(a) \/ LateDuplicate(a) PROVE CompleteInv'
    BY <1>1, <2>2 DEF OpenFault, LateDuplicate
  <2>3. ASSUME NEW a \in Article, NEW pre \in BOOLEAN, FatalArticle(a, pre) PROVE CompleteInv'
    BY <1>1, <2>3 DEF FatalArticle
  <2> QED BY <1>3, <2>1, <2>2, <2>3 DEF Assembling
<1>4. CASE Syncing
  <2>1. CASE Commit
    BY <2>1 DEF Commit, Up, CompleteInv, SavedIsResolved, Arts, Of
  <2>2. CASE Syncing /\ ~Commit
    <3>1. done \subseteq done' /\ complete' = complete
          /\ UNCHANGED <<runs, dbfailed, dbcomplete, phase, crashes>>
      BY <2>2 DEF Syncing, Checkpoint, Advance, Ack, BarrierReturns, Finalize, Sync, Truncate, Stat,
                  Confirm, Timeout, Release, Drain, LateOp
    <3> QED BY <1>1, <3>1
  <2> QED BY <1>4, <2>1, <2>2
<1>5. CASE Reevaluating \/ \E f \in File : Deliver(f)
  <2>1. /\ done \subseteq done' /\ UNCHANGED <<runs, dbfailed, dbcomplete, phase, crashes>>
        /\ \A f \in complete' : f \in complete \/ (f \in File /\ fin[f] \in {"deliver", "done"})
    BY <1>5, ReevaluatingFrame DEF IInv, Deliver
  <2>2. \A f \in complete' : Arts(f) \subseteq done
    BY <2>1 DEF StrandInv, ClosedIsResolved, CompleteInv
  <2> QED BY <2>1, <2>2 DEF CompleteInv, SavedIsResolved, Arts, Of
<1>6. CASE Flush
  <2>1. done \subseteq failed \cup runs
    BY <1>6 DEF Flush, Up, IInv, DoneHasRuns
  <2> QED BY <1>6, <2>1 DEF Flush, Up, CompleteInv, SavedIsResolved, Arts, Of
<1>7. CASE Crash
  <2>1. crashes = 0 /\ crashes' = 1 /\ complete' = {} /\ UNCHANGED <<runs, dbfailed, dbcomplete>>
    <3>1. crashes' = crashes + 1 /\ complete' = {}
      BY <1>7 DEF Crash
    <3>2. UNCHANGED <<runs, dbfailed, dbcomplete>>
      BY <1>7 DEF Crash
    <3> QED BY <1>0, <3>1, <3>2
  <2> QED BY <2>1 DEF CompleteInv, SavedIsResolved, Arts, Of
<1>8. CASE \E f \in File, p \in Path, n \in Absent..MaxEnd : Tamper(f, p, n)
  BY <1>1, <1>8 DEF Tamper
<1>9. CASE Hydrate
  BY <1>0, <1>9 DEF Hydrate, CompleteInv, SavedIsResolved, Arts, Of
<1>10. CASE ResumeFault \/ Started \/ \E f \in File : ResumeFile(f) \/ StrandFault(f)
  <2>1. /\ phase \in {"sweep", "strand"} /\ phase' # "down"
        /\ UNCHANGED <<done, complete, crashes>>
    BY <1>10 DEF ResumeFault, Started, ResumeFile, StrandFault
  <2>2. crashes > 0 /\ crashes' > 0
    BY <2>1 DEF CompleteInv, SavedIsResolved
  <2> QED BY <1>0, <2>1, <2>2 DEF CompleteInv, SavedIsResolved, Arts, Of
<1>11. CASE \E f \in File : Strand(f)
  BY <1>0, <1>11 DEF Strand, CompleteInv, SavedIsResolved, Arts, Of
<1>12. CASE ReplaceFromRuns
  BY <1>0, <1>12 DEF ReplaceFromRuns, CompleteInv, SavedIsResolved, Arts, Of
<1>13. CASE UNCHANGED vars
  BY <1>1, <1>13 DEF vars
<1> QED BY <1>2, <1>3, <1>4, <1>5, <1>6, <1>7, <1>8, <1>9, <1>10, <1>11, <1>12, <1>13
        DEF Next, Completing, Restarting

\* Crashes are only counted up.
LEMMA CrashesCount ==
  ASSUME IInv, [Next]_vars, crashes' <= 1 PROVE crashes <= 1
<1> USE DEF progress, pipe, cache, report, disk, db, barrier, life
<1>1. crashes \in Nat
  BY DEF IInv, TypeOK, TypeLife
<1>2. CASE Crash
  BY <1>1, <1>2 DEF Crash
<1>3. CASE Fetching \/ Completing \/ UNCHANGED vars
  BY <1>3, ReevaluatingFrame DEF IInv, Fetching, Emit, RetryableFailure, PermanentFailure, Completing, Flush, Deliver, vars
<1>4. CASE Assembling
  <2>1. ASSUME NEW a \in Article, NEW ok \in SUBSET Article, NEW bad \in SUBSET Article,
               NEW pre \in BOOLEAN, AcceptArticle(a, ok, bad, pre)
        PROVE  crashes' = crashes
    BY <2>1 DEF AcceptArticle
  <2>2. ASSUME NEW a \in Article, OpenFault(a) \/ LateDuplicate(a) PROVE crashes' = crashes
    BY <2>2 DEF OpenFault, LateDuplicate
  <2>3. ASSUME NEW a \in Article, NEW pre \in BOOLEAN, FatalArticle(a, pre) PROVE crashes' = crashes
    BY <2>3 DEF FatalArticle
  <2> QED BY <1>4, <2>1, <2>2, <2>3 DEF Assembling
<1>5. CASE Syncing
  BY <1>5 DEF Syncing, Checkpoint, Advance, Commit, Ack, BarrierReturns, Finalize, Sync, Truncate, Stat,
              Confirm, Timeout, Release, Drain, LateOp
<1>6. CASE Restarting /\ ~Crash
  BY <1>6 DEF Restarting, Hydrate, ResumeFault, ReplaceFromRuns, Started, ResumeFile, Strand, StrandFault,
              Tamper
<1> QED BY <1>2, <1>3, <1>4, <1>5, <1>6 DEF Next

\* So it stays, up to the second crash.
LEMMA CompleteIsKept ==
  ASSUME NoRollback PROVE Spec => [](crashes <= 1 => CompleteInv)
<1>1. Init => CompleteInv
  BY DEF Init, CompleteInv, SavedIsResolved
<1>2. IInv /\ StrandInv /\ (crashes <= 1 => CompleteInv) /\ [Next]_vars => (crashes <= 1 => CompleteInv)'
  BY CompleteStep, CrashesCount
<1> QED BY <1>1, <1>2, ArticlesKeepTheirFates, InductiveInvariant, PTL DEF Spec

\* A file is Complete only when each of its articles is resolved, up to the
\* second crash of the process (a second one brings back a Complete that the
\* first start took back and did not save) and as long as no part is rolled
\* back.
THEOREM CompleteIsEarned ==
  ASSUME NoRollback PROVE Spec => [](crashes <= 1 => CompleteIsResolved)
<1>1. CompleteInv => CompleteIsResolved
  BY DEF CompleteInv, CompleteIsResolved
<1> QED BY <1>1, CompleteIsKept, PTL

-----------------------------------------------------------------------------
(* What a finalize leaves of a file *)

\* A write of nothing leaves a file's length.
LEMMA GrownByNothing ==
  ASSUME NEW s \in Nat PROVE Grown(s, {}) = s
BY BoundAttained DEF Grown

\* A file that was finalized has every article resolved.
LEMMA OverIsWhole ==
  ASSUME IInv, StrandInv, CompleteInv, NEW f \in File, Over(f)
  PROVE  Arts(f) \subseteq done
BY DEF Over, StrandInv, ClosedIsResolved, CompleteInv

\* What is recorded of a finalized file is where the record says.
LEMMA TrimmedSize ==
  ASSUME IInv, NEW f \in File, phase \in {"up", "strand"}, f \notin unchecked, Trimmed(f),
         Recorded(f) # {}
  PROVE  size[f][name[f]] \in Nat /\ name[f] # 0
<1>1. Recorded(f) \in SUBSET Article
  BY DEF Recorded, Of, IInv, TypeOK, TypeDatabase
<1>2. PICK a \in runs : FileOf[a] = f
  BY DEF Recorded, Of
<1>3. InPage(a)
  BY <1>2 DEF IInv, RunsAreOnPlatter, Vouched
<1> QED BY <1>1, <1>2, <1>3, BoundAttained DEF Trimmed, InPage, Holds

\* A finalized file stays trimmed while its length does and its record does.
LEMMA OverFrame ==
  ASSUME IInv, TrimInv, phase \in {"up", "strand"}, UNCHANGED unchecked,
         \A f \in File : Over(f)' => Over(f),
         \A f \in File : Over(f) =>
           /\ Recorded(f)' = Recorded(f)
           /\ Of(buf' \cup written', f) = {}
           /\ Of(reported' \cup bgot', f) \subseteq runs'
           /\ f \notin unchecked /\ Trimmed(f) /\ Recorded(f) # {} =>
                /\ name'[f] = name[f]
                /\ size'[f][name[f]] = size[f][name[f]]
                /\ psize'[f][name[f]] \in {size[f][name[f]], psize[f][name[f]]}
  PROVE  OverIsTrimmed'
<1> SUFFICES ASSUME NEW f \in File, Over(f)'
             PROVE  /\ Of(buf' \cup written', f) = {}
                    /\ Of(reported' \cup bgot', f) \subseteq runs'
                    /\ f \notin unchecked' => Trimmed(f)'
  BY DEF OverIsTrimmed, Of
<1>1. f \notin unchecked => Trimmed(f)
  BY DEF TrimInv, OverIsTrimmed
<1>2. f \notin unchecked' => Trimmed(f)'
  BY <1>1 DEF Trimmed
<1> QED BY <1>2

\* So does the file of a finalize that has cut it.
LEMMA CutsFrame ==
  ASSUME IInv, TrimInv, UNCHANGED <<unchecked, runs, bpc, bfin, btodo, bfiles, bgot>>,
         bfin # NoFile =>
           /\ fin'[bfin] = fin[bfin]
           /\ HasCut(bfin) /\ size[bfin][name[bfin]] \in Nat =>
                /\ name'[bfin] = name[bfin]
                /\ size'[bfin][name[bfin]] = size[bfin][name[bfin]]
                /\ psize'[bfin][name[bfin]] = psize[bfin][name[bfin]]
  PROVE  FinalizeCuts'
<1> SUFFICES ASSUME bfin # NoFile
             PROVE  /\ fin'[bfin] = "running" /\ bfin \in btodo \cup bfiles
                    /\ bpc # "drain" => bfin \in bfiles
                    /\ bfin \notin unchecked /\ Recorded(bfin) \cup bgot # {} =>
                         /\ HasCut(bfin) => size'[bfin][name'[bfin]] = Bound(bfin)
                         /\ HasSynced(bfin) => psize'[bfin][name'[bfin]] = Bound(bfin)
  BY DEF FinalizeCuts, HasCut, HasSynced, Recorded, Bound
<1>1. Of(runs, bfin) \cup bgot \in SUBSET Article
  BY DEF IInv, TypeOK, TypeDatabase, TypeBarrier, Of
<1>2. Bound(bfin) \in Nat
  BY <1>1, BoundAttained DEF Bound
<1>3. HasSynced(bfin) => HasCut(bfin)
  BY DEF HasSynced, HasCut
<1> QED BY <1>2, <1>3 DEF TrimInv, FinalizeCuts

\* While a process runs, nothing saved is touched but by a flush.
LEMMA SavedFrame ==
  ASSUME TrimInv, UNCHANGED <<phase, crashes, unchecked>>, Up,
         complete \subseteq complete', dbcomplete' = dbcomplete \/ dbcomplete' \subseteq complete'
  PROVE  SavedIsTrimmed'
BY DEF TrimInv, SavedIsTrimmed, Up

\* A file that still gets results is not one a finalize has to do with.
LEMMA WorkIsElsewhere ==
  ASSUME IInv, StrandInv, CompleteInv, TrimInv, Up, NEW a \in flight \cup fatalq,
         a \in flight \/ FileOf[a] \notin tomb
  PROVE  FileOf[a] \in File \ tomb /\ ~Over(FileOf[a])
<1> DEFINE f == FileOf[a]
<1>1. a \in Article /\ f \in File /\ a \in Arts(f)
  BY ConstantAssumption DEF IInv, TypeOK, TypeProgress, Arts, Of
<1>2. CASE a \in flight
  <2>1. a \notin done \cup seenDone
    BY <1>2 DEF StrandInv, ArticlesInOrder, Seen
  <2> QED BY <1>1, <2>1, OverIsWhole DEF StrandInv, TombIsWhole
<1>3. CASE a \in fatalq /\ f \notin tomb
  <2>1. fin[f] = "none"
    BY <1>1, <1>3 DEF IInv, FinalizeIsAlone
  <2>2. f \in complete => total[f] = 0
    BY <1>3 DEF TrimInv, FinalizeOnce
  <2>3. total[f] # 0
    BY <1>1, <1>3 DEF StrandInv, Awaits, Of
  <2> QED BY <1>1, <1>3, <2>1, <2>2, <2>3 DEF Over
<1> QED BY <1>2, <1>3

\* Results that reach no writer.
LEMMA FetchTrims ==
  ASSUME IInv, StrandInv, CompleteInv, TrimInv,
         NEW a \in Article, PermanentFailure(a) \/ OpenFault(a)
  PROVE  TrimInv'
<1> USE DEF progress, pipe, cache, report, disk, db, barrier, life
<1> DEFINE f == FileOf[a]
<1>1. /\ Up /\ a \in flight \cup fatalq /\ Register(f) /\ (a \in flight \/ f \notin tomb)
      /\ UNCHANGED <<complete, open, tomb, buf, written, reported, size, psize, runs, dbcomplete,
                     bpc, bfin, btodo, bfiles, bgot, late, fin, phase, unchecked, crashes>>
  BY DEF PermanentFailure, OpenFault
<1>2. f \in File \ tomb /\ ~Over(f)
  BY <1>1, WorkIsElsewhere
<1>3. \A g \in File \ {f} : name'[g] = name[g] /\ total'[g] = total[g]
  BY <1>1, <1>2, RegisterKeepsName DEF IInv
<1>4. OverIsTrimmed'
  <2>1. \A g \in File : Over(g)' <=> Over(g)
    BY <1>1 DEF Over
  <2>2. ASSUME NEW g \in File, Over(g)
        PROVE  /\ name'[g] = name[g] /\ Recorded(g)' = Recorded(g)
               /\ Of(buf \cup written, g) = {} /\ Of(reported \cup bgot, g) \subseteq runs
    BY <1>1, <1>2, <1>3, <2>2 DEF TrimInv, OverIsTrimmed, Up, Recorded, Of
  <2> QED BY <1>1, <2>1, <2>2, OverFrame DEF Up
<1>5. FinalizeOnce'
  BY <1>1, <1>2, <1>3 DEF TrimInv, FinalizeOnce, Over, IInv, TypeOK, TypeProgress
<1>6. FinalizeCuts'
  <2>1. bfin # NoFile => bfin \in File \ {f}
    BY <1>2 DEF IInv, FinalizeIsAlone, TypeOK, TypeWriter
  <2> QED BY <1>1, <1>3, <2>1, CutsFrame
<1>7. SavedIsTrimmed'
  BY <1>1, SavedFrame
<1> QED BY <1>4, <1>5, <1>6, <1>7 DEF TrimInv

\* An accepted article, and what the cache writes for it, leave a finalized
\* file alone.
LEMMA AcceptTrims ==
  ASSUME IInv, StrandInv, CompleteInv, TrimInv, NoRollback, NEW a \in Article,
         NEW ok \in SUBSET Article, NEW bad \in SUBSET Article, NEW pre \in BOOLEAN,
         AcceptArticle(a, ok, bad, pre)
  PROVE  TrimInv'
<1> USE DEF progress, pipe, cache, report, disk, db, barrier, life
<1> DEFINE f == FileOf[a]
<1>1. /\ Up /\ a \in flight /\ Register(f) /\ f \notin tomb /\ ok \subseteq buf \cup {a}
      /\ open' = open \cup {f} /\ written' = written \cup ok /\ buf' = (buf \cup {a}) \ (ok \cup bad)
      /\ UNCHANGED <<complete, reported, psize, runs, dbcomplete,
                     bpc, bfin, btodo, bfiles, bgot, late, phase, unchecked, crashes>>
      /\ \E sd : CompleteOn(f, sd, seenFailed)
  BY DEF AcceptArticle
<1>2. f \in File \ tomb /\ ~Over(f)
  BY <1>1, WorkIsElsewhere
<1>3. \A g \in File \ {f} : name'[g] = name[g] /\ total'[g] = total[g]
  BY <1>1, <1>2, RegisterKeepsName DEF IInv
<1>4. /\ \A g \in File \ {f} : fin'[g] = fin[g]
      /\ fin'[f] = fin[f] \/ fin'[f] = "queued"
      /\ tomb \subseteq tomb'
  BY <1>1, <1>2 DEF CompleteOn, IInv, TypeOK, TypeBarrier
<1>5. ASSUME NEW g \in File \ {f}, Of(buf, g) = {}, size[g][name[g]] \in Nat, name[g] # 0
      PROVE  size'[g][name[g]] = size[g][name[g]]
  <2>1. Of(ok, g) = {}
    BY <1>1, <1>5 DEF Of
  <2>2. name[g] \in Path /\ name'[g] = name[g]
    BY <1>3, <1>5 DEF IInv, TypeOK, TypeProgress
  <2>3. size'[g][name[g]] = Grown(size[g][name[g]], Of(ok, g))
    BY <2>2, <1>5 DEF AcceptArticle
  <2> QED BY <1>5, <2>1, <2>3, GrownByNothing
<1>6. OverIsTrimmed'
  <2>1. \A g \in File : Over(g)' => Over(g) /\ g # f
    BY <1>1, <1>2, <1>4 DEF Over
  <2>2. ASSUME NEW g \in File, Over(g)
        PROVE  /\ Recorded(g)' = Recorded(g)
               /\ Of(buf' \cup written', g) = {} /\ Of(reported' \cup bgot', g) \subseteq runs'
               /\ g \notin unchecked /\ Trimmed(g) /\ Recorded(g) # {} =>
                    name'[g] = name[g] /\ size'[g][name[g]] = size[g][name[g]]
    <3>1. g # f /\ Of(buf \cup written, g) = {} /\ Of(reported \cup bgot, g) \subseteq runs
      BY <1>1, <1>2, <2>2 DEF TrimInv, OverIsTrimmed, Up
    <3>2. Of(buf' \cup written', g) = {} /\ Of(buf, g) = {}
      BY <1>1, <3>1 DEF Of
    <3>3. g \notin unchecked /\ Trimmed(g) /\ Recorded(g) # {} => size[g][name[g]] \in Nat /\ name[g] # 0
      BY <1>1, TrimmedSize DEF Up
    <3> QED BY <1>1, <1>3, <1>5, <3>1, <3>2, <3>3 DEF Recorded, Of
  <2> QED BY <1>1, <2>1, <2>2, OverFrame DEF Up
<1>7. FinalizeOnce'
  <2>1. \A g \in complete : g \in File /\ g # f /\ fin[g] = "none" /\ (g \in tomb \/ total[g] = 0)
    BY <1>2 DEF TrimInv, FinalizeOnce, Over, IInv, TypeOK, TypeProgress
  <2>2. \A g \in File : fin'[g] \in {"queued", "running", "pending"} => g \in open'
    BY <1>1, <1>4 DEF TrimInv, FinalizeOnce
  <2>3. late.op \in {"truncate", "close"} => late.file \in tomb /\ late.file \in File \ {f}
    BY <1>2 DEF TrimInv, FinalizeOnce, IInv, LateCutIsSafe, TypeOK, TypeWriter
  <2> QED BY <1>1, <1>3, <1>4, <2>1, <2>2, <2>3 DEF TrimInv, FinalizeOnce
<1>8. FinalizeCuts'
  <2>1. bfin # NoFile => /\ bfin \in File \ {f}
                         /\ HasCut(bfin) => Of(buf, bfin) = {}
    BY <1>2 DEF IInv, FinalizeIsAlone, TypeOK, TypeWriter, HasCut, Of
  <2>2. bfin # NoFile => name[bfin] # 0
    BY <2>1, OpenIsNamed DEF TrimInv, FinalizeCuts, FinalizeOnce
  <2> QED BY <1>1, <1>3, <1>4, <1>5, <2>1, <2>2, CutsFrame
<1>9. SavedIsTrimmed'
  BY <1>1, SavedFrame
<1> QED BY <1>6, <1>7, <1>8, <1>9 DEF TrimInv

\* So does the part of a failed article.
LEMMA FatalTrims ==
  ASSUME IInv, StrandInv, CompleteInv, TrimInv, NEW a \in Article, NEW pre \in BOOLEAN,
         FatalArticle(a, pre)
  PROVE  TrimInv'
<1> USE DEF progress, pipe, cache, report, disk, db, barrier, life
<1> DEFINE f == FileOf[a]
<1>1. /\ Up /\ a \in fatalq /\ f \notin tomb /\ open' = open \cup {f}
      /\ size' = [size EXCEPT ![f][name[f]] = Opened(f, name[f], pre)]
      /\ UNCHANGED <<complete, name, total, buf, written, reported, psize, runs, dbcomplete,
                     bpc, bfin, btodo, bfiles, bgot, late, phase, unchecked, crashes>>
      /\ UNCHANGED <<tomb, fin>> \/ \E sf : CompleteOn(f, seenDone, sf)
  BY DEF FatalArticle
<1>2. f \in File \ tomb /\ ~Over(f)
  BY <1>1, WorkIsElsewhere
<1>4. /\ \A g \in File \ {f} : fin'[g] = fin[g] /\ size'[g] = size[g]
      /\ fin'[f] = fin[f] \/ fin'[f] = "queued"
      /\ tomb \subseteq tomb'
  BY <1>1, <1>2 DEF CompleteOn, IInv, TypeOK, TypeBarrier, TypeDisk
<1>6. OverIsTrimmed'
  <2>1. \A g \in File : Over(g)' => Over(g)
    BY <1>1, <1>2, <1>4 DEF Over
  <2>2. ASSUME NEW g \in File, Over(g)
        PROVE  /\ g # f /\ Recorded(g)' = Recorded(g)
               /\ Of(buf \cup written, g) = {} /\ Of(reported \cup bgot, g) \subseteq runs
    BY <1>1, <1>2, <2>2 DEF TrimInv, OverIsTrimmed, Up, Recorded, Of
  <2> QED BY <1>1, <1>4, <2>1, <2>2, OverFrame DEF Up
<1>7. FinalizeOnce'
  <2>1. \A g \in complete : g \in File /\ g # f /\ fin[g] = "none" /\ (g \in tomb \/ total[g] = 0)
    BY <1>2 DEF TrimInv, FinalizeOnce, Over, IInv, TypeOK, TypeProgress
  <2>2. \A g \in File : fin'[g] \in {"queued", "running", "pending"} => g \in open'
    BY <1>1, <1>4 DEF TrimInv, FinalizeOnce
  <2>3. late.op \in {"truncate", "close"} => late.file \in tomb /\ late.file \in File \ {f}
    BY <1>2 DEF TrimInv, FinalizeOnce, IInv, LateCutIsSafe, TypeOK, TypeWriter
  <2> QED BY <1>1, <1>4, <2>1, <2>2, <2>3 DEF TrimInv, FinalizeOnce
<1>8. FinalizeCuts'
  <2>1. bfin # NoFile => bfin \in File \ {f}
    BY <1>2 DEF IInv, FinalizeIsAlone, TypeOK, TypeWriter
  <2> QED BY <1>1, <1>4, <2>1, CutsFrame
<1>9. SavedIsTrimmed'
  BY <1>1, SavedFrame
<1> QED BY <1>6, <1>7, <1>8, <1>9 DEF TrimInv

\* What most of a barrier's steps leave alone.
Settled == <<complete, name, total, open, tomb, buf, written, dbcomplete, phase, unchecked, crashes>>

\* A step that moves neither the disk nor the record keeps finalized files.
LEMMA OverStill ==
  ASSUME IInv, TrimInv, Up, UNCHANGED Settled, UNCHANGED <<size, psize, runs>>,
         reported' \subseteq reported, bgot' \subseteq bgot, \A f \in File : Over(f)' => Over(f)
  PROVE  OverIsTrimmed'
<1> USE DEF Settled
<1>1. ASSUME NEW f \in File, Over(f)
      PROVE  /\ Recorded(f)' = Recorded(f)
             /\ Of(buf' \cup written', f) = {} /\ Of(reported' \cup bgot', f) \subseteq runs'
  BY <1>1 DEF TrimInv, OverIsTrimmed, Up, Recorded, Of
<1> QED BY <1>1, OverFrame DEF Up

\* The file a finalize works on is not finalized yet, and is open.
LEMMA RunningIsOpen ==
  ASSUME IInv, TrimInv, bfin # NoFile
  PROVE  bfin \in File /\ bfin \in open /\ bfin \in tomb /\ fin[bfin] = "running" /\ bfin \notin complete /\ ~Over(bfin)
BY DEF IInv, FinalizeIsAlone, TypeOK, TypeWriter, TrimInv, FinalizeCuts, FinalizeOnce, Over

\* An interrupted finalize waits for its retry, with its file open.
LEMMA AbortTrims ==
  ASSUME IInv, TrimInv, Up, Abort, UNCHANGED Settled, UNCHANGED <<size, psize, runs, reported>>,
         \/ late' = late
         \/ late'.op # "close" /\ (late'.op = "truncate" => late'.file = bfin /\ bfin # NoFile)
  PROVE  TrimInv'
<1> USE DEF Settled
<1>1. \A f \in File : \/ f # bfin /\ fin'[f] = fin[f]
                      \/ f = bfin /\ bfin # NoFile /\ fin'[f] = "pending"
  BY ConstantAssumption DEF Abort, IInv, TypeOK, TypeBarrier
<1>2. bfin' = NoFile /\ bgot' = {}
  BY DEF Abort, Reset
<1>3. OverIsTrimmed'
  <2>1. \A f \in File : Over(f)' => Over(f)
    BY <1>1, RunningIsOpen DEF Over
  <2> QED BY <1>2, <2>1, OverStill
<1>4. FinalizeOnce'
  <2>1. \A f \in complete' : fin'[f] = "none" /\ (f \in tomb' \/ total'[f] = 0)
    BY <1>1, RunningIsOpen DEF TrimInv, FinalizeOnce, IInv, TypeOK, TypeProgress
  <2>2. \A f \in File : fin'[f] \in {"queued", "running", "pending"} => f \in open'
    BY <1>1, RunningIsOpen DEF TrimInv, FinalizeOnce
  <2>3. late'.op = "truncate" => fin'[late'.file] \in {"pending", "dropped"}
    <3>1. CASE late' = late
      <4>1. late.op = "truncate" => bfin = NoFile /\ late.file \in File
        BY DEF IInv, LateCutIsSafe, BarrierInOrder, Idle, TypeOK, TypeWriter
      <4> QED BY <1>1, <3>1, <4>1 DEF TrimInv, FinalizeOnce
    <3>2. CASE late' # late
      BY <1>1, <3>2, RunningIsOpen
    <3> QED BY <3>1, <3>2
  <2>4. late'.op = "close" => late'.file \in tomb' /\ fin'[late'.file] \in {"deliver", "done", "none", "dropped"}
    <3>1. SUFFICES ASSUME late' = late, late.op = "close"
                   PROVE  late.file \in tomb /\ fin'[late.file] \in {"deliver", "done", "none", "dropped"}
      OBVIOUS
    <3>2. late.file \in tomb /\ fin[late.file] \in {"deliver", "done", "none", "dropped"} /\ late.file \in File
      BY <3>1 DEF TrimInv, FinalizeOnce, IInv, TypeOK, TypeWriter
    <3> QED BY <1>1, <3>2, RunningIsOpen
  <2> QED BY <2>1, <2>2, <2>3, <2>4 DEF FinalizeOnce
<1>5. FinalizeCuts' /\ SavedIsTrimmed'
  BY <1>2, SavedFrame DEF FinalizeCuts
<1> QED BY <1>3, <1>4, <1>5 DEF TrimInv

\* Only a checkpoint finds a file closed under it.
LEMMA GoneTrims ==
  ASSUME IInv, TrimInv, Up, NEW f \in btodo, f \notin open, FileGone(f),
         UNCHANGED Settled, UNCHANGED <<size, psize, runs, reported, late>>
  PROVE  TrimInv'
<1> USE DEF Settled
<1>1. bfin = NoFile
  BY RunningIsOpen DEF IInv, FinalizeIsAlone
<1>2. bfin' = NoFile /\ bgot' \subseteq bgot /\ UNCHANGED fin
  BY <1>1 DEF FileGone
<1>3. OverIsTrimmed'
  BY <1>2, OverStill DEF Over
<1>4. FinalizeOnce' /\ FinalizeCuts' /\ SavedIsTrimmed'
  BY <1>2, SavedFrame DEF TrimInv, FinalizeOnce, FinalizeCuts
<1> QED BY <1>3, <1>4 DEF TrimInv

\* A finalize begins with the file's drain.
LEMMA BeginTrims ==
  ASSUME IInv, TrimInv, NoRollback, Checkpoint \/ \E f \in File : Finalize(f)
  PROVE  TrimInv'
<1> USE DEF progress, pipe, cache, report, disk, db, barrier, life, Settled
<1>1. /\ Up /\ Idle /\ late.op = "none" /\ bgot = {} /\ UNCHANGED Settled
      /\ UNCHANGED <<size, psize, runs, reported, late>>
  BY DEF Checkpoint, Finalize, IInv, BarrierInOrder, Idle
<1>2. bgot' = {} /\ (bfin' # NoFile => bfin' \in File /\ bfin' \in btodo' /\ bpc' = "drain" /\ fin'[bfin'] = "running")
      /\ \A g \in File : \/ fin'[g] = fin[g]
                         \/ fin[g] \in {"queued", "pending"} /\ fin'[g] \in {"running", "unread"}
  <2>1. CASE Checkpoint
    BY <2>1 DEF Checkpoint, StartBarrier
  <2>2. ASSUME NEW f \in File, Finalize(f)
        PROVE  /\ fin[f] \in {"queued", "pending"}
               /\ \/ /\ bfin' = f /\ btodo' = {f} /\ bgot' = {} /\ bpc' = "drain"
                     /\ fin' = [fin EXCEPT ![f] = "running"]
                  \/ UNCHANGED barrier /\ fin' = [fin EXCEPT ![f] = "unread"]
    <3>1. fin[f] \in {"queued", "pending"} /\ f \in open
      BY <2>2 DEF Finalize, TrimInv, FinalizeOnce
    <3> QED BY <2>2, <3>1 DEF Finalize, StartBarrier, NoRollback, Fault
  <2>3. bfin = NoFile
    BY <1>1 DEF IInv, BarrierInOrder, Idle
  <2> QED BY <1>1, <2>1, <2>2, <2>3 DEF IInv, TypeOK, TypeBarrier
<1>3. OverIsTrimmed'
  BY <1>1, <1>2, OverStill DEF Over
<1>4. FinalizeOnce'
  BY <1>1, <1>2 DEF TrimInv, FinalizeOnce, IInv, TypeOK, TypeProgress
<1>5. FinalizeCuts'
  BY <1>2 DEF FinalizeCuts, HasCut, HasSynced
<1>6. SavedIsTrimmed'
  BY <1>1, SavedFrame
<1> QED BY <1>3, <1>4, <1>5, <1>6 DEF TrimInv

\* A drain of a finalized file writes nothing and reports nothing new.
LEMMA DrainFileTrims ==
  ASSUME IInv, TrimInv, Up, NEW f \in open, DrainFile(f, Of(buf, f)),
         UNCHANGED <<complete, name, fin, psize, runs, phase, unchecked>>,
         bgot' \subseteq bgot \cup Of(reported', f)
  PROVE  OverIsTrimmed'
<1>1. f \in File /\ name[f] \in Path /\ size \in [File -> [Path -> Absent..MaxEnd]]
  BY OpenIsNamed DEF IInv, TypeOK, TypeProgress, TypeDisk
<1>2. /\ size' = [size EXCEPT ![f][name[f]] = Grown(@, Of(buf, f))]
      /\ reported' = reported \cup Of(written, f) \cup Of(buf, f)
      /\ written' = written \ Arts(f) /\ buf' = buf \ Arts(f)
  BY DEF DrainFile
<1>3. ASSUME NEW g \in File, Over(g)
      PROVE  /\ Recorded(g)' = Recorded(g)
             /\ Of(buf' \cup written', g) = {} /\ Of(reported' \cup bgot', g) \subseteq runs'
             /\ g \notin unchecked /\ Trimmed(g) /\ Recorded(g) # {} =>
                  size'[g][name[g]] = size[g][name[g]]
  <2>1. Of(buf \cup written, g) = {} /\ Of(reported \cup bgot, g) \subseteq runs
    BY <1>3 DEF TrimInv, OverIsTrimmed, Up
  <2>2. Of(buf' \cup written', g) = {} /\ Of(buf, g) = {}
    BY <1>2, <2>1 DEF Of
  <2>3. Of(reported' \cup bgot', g) \subseteq runs'
    BY <1>2, <2>1 DEF Of
  <2>4. CASE g # f
    BY <1>1, <1>2, <2>2, <2>3, <2>4 DEF Recorded, Of
  <2>5. CASE g = f
    <3>1. size'[g][name[g]] = Grown(size[g][name[g]], {})
      BY <1>1, <1>2, <2>2, <2>5
    <3>2. g \notin unchecked /\ Trimmed(g) /\ Recorded(g) # {} => size[g][name[g]] \in Nat
      BY TrimmedSize DEF Up
    <3> QED BY <2>2, <2>3, <3>1, <3>2, GrownByNothing DEF Recorded, Of
  <2> QED BY <2>4, <2>5
<1>4. \A g \in File : Over(g)' => Over(g)
  BY DEF Over
<1> QED BY <1>3, <1>4, OverFrame DEF Up

\* The drain phase precedes every cut.
LEMMA DrainTrims ==
  ASSUME IInv, TrimInv, NoRollback, NEW f \in File, NEW ok \in SUBSET Article, Drain(f, ok)
  PROVE  TrimInv'
<1> USE DEF progress, pipe, cache, report, disk, db, barrier, life, Settled
<1>1. /\ Up /\ bpc = "drain" /\ f \in btodo
      /\ UNCHANGED <<complete, name, total, open, tomb, psize, dbcomplete, runs, late, phase, unchecked, crashes>>
  BY DEF Drain
<1>2. CASE f \notin open
  BY <1>1, <1>2, GoneTrims DEF Drain
<1>3. CASE f \in open
  <2>1. /\ ok = Of(buf, f) /\ DrainFile(f, ok) /\ btodo' = btodo \ {f} /\ bfiles' = bfiles \cup {f}
        /\ bgot' = bgot \cup Of(reported', f) /\ UNCHANGED <<bpc, bfin, fin>>
    BY <1>3 DEF Drain, NoRollback, Fault
  <2>2. OverIsTrimmed'
    BY <1>1, <1>3, <2>1, DrainFileTrims
  <2>3. FinalizeOnce'
    BY <1>1, <2>1 DEF TrimInv, FinalizeOnce
  <2>4. FinalizeCuts'
    BY <1>1, <2>1 DEF TrimInv, FinalizeCuts, HasCut, HasSynced
  <2> QED BY <1>1, <2>2, <2>3, <2>4, SavedFrame DEF TrimInv
<1> QED BY <1>2, <1>3

\* An fsync of a trimmed file makes its platter the same length.
LEMMA SyncFileTrims ==
  ASSUME IInv, TrimInv, Up, NEW f \in open, SyncFile(f), UNCHANGED Settled,
         UNCHANGED <<size, runs, reported, fin>>, bgot' = bgot
  PROVE  /\ OverIsTrimmed'
         /\ psize'[f][name[f]] = size[f][name[f]]
         /\ \A g \in File \ {f} : psize'[g] = psize[g]
<1> USE DEF Settled
<1>1. f \in File /\ name[f] \in Path /\ psize \in [File -> [Path -> Absent..MaxEnd]]
  BY OpenIsNamed DEF IInv, TypeOK, TypeProgress, TypeDisk
<1>2. /\ psize'[f][name[f]] = size[f][name[f]]
      /\ \A g \in File \ {f} : psize'[g] = psize[g]
  BY <1>1 DEF SyncFile
<1>3. ASSUME NEW g \in File, Over(g)
      PROVE  /\ Recorded(g)' = Recorded(g)
             /\ Of(buf' \cup written', g) = {} /\ Of(reported' \cup bgot', g) \subseteq runs'
             /\ psize'[g][name[g]] \in {size[g][name[g]], psize[g][name[g]]}
  BY <1>2, <1>3 DEF TrimInv, OverIsTrimmed, Up, Recorded, Of
<1>4. \A g \in File : Over(g)' => Over(g)
  BY DEF Over
<1> QED BY <1>2, <1>3, <1>4, OverFrame DEF Up

\* The second fsync puts the cut on the platter.
LEMMA SyncTrims ==
  ASSUME IInv, TrimInv, NEW f \in File, Sync(f)
  PROVE  TrimInv'
<1> USE DEF progress, pipe, cache, report, disk, db, barrier, life, Settled
<1>1. /\ Up /\ bpc \in {"sync", "sync2"} /\ f \in btodo /\ UNCHANGED Settled
      /\ UNCHANGED <<size, runs, reported, late>>
  BY DEF Sync
<1>2. CASE f \notin open
  BY <1>1, <1>2, GoneTrims DEF Sync
<1>3. CASE Abort /\ UNCHANGED psize
  BY <1>1, <1>3, AbortTrims
<1>4. CASE f \in open /\ SyncFile(f) /\ btodo' = btodo \ {f} /\ UNCHANGED <<bpc, bfin, bretry, bfiles, bgot, fin>>
  <2>1. /\ OverIsTrimmed' /\ psize'[f][name[f]] = size[f][name[f]]
        /\ \A g \in File \ {f} : psize'[g] = psize[g]
    BY <1>1, <1>4, SyncFileTrims
  <2>2. FinalizeOnce'
    BY <1>1, <1>4 DEF TrimInv, FinalizeOnce
  <2>3. FinalizeCuts'
    <3>1. SUFFICES ASSUME bfin # NoFile PROVE FinalizeCuts'
      BY <1>4 DEF FinalizeCuts
    <3>2. f = bfin /\ Bound(f)' = Bound(f) /\ Recorded(f)' = Recorded(f)
      BY <1>1, <1>4, <3>1 DEF IInv, FinalizeIsAlone, Bound, Recorded, Of
    <3> QED BY <1>1, <1>4, <2>1, <3>2 DEF TrimInv, FinalizeCuts, HasCut, HasSynced
  <2> QED BY <1>1, <2>1, <2>2, <2>3, SavedFrame DEF TrimInv
<1> QED BY <1>2, <1>3, <1>4 DEF Sync

\* What a finalize is about to record, and has recorded, is in the file.
LEMMA BoundIsInFile ==
  ASSUME IInv, Up, NEW f \in File, f = bfin, f \notin unchecked, Of(runs, f) \cup bgot # {}
  PROVE  0 < Bound(f) /\ Bound(f) <= size[f][name[f]]
<1>1. Of(runs, f) \cup bgot \in SUBSET Article
  BY DEF IInv, TypeOK, TypeDatabase, TypeBarrier, Of
<1>2. PICK a \in Of(runs, f) \cup bgot : End[a] = Bound(f)
  BY <1>1, BoundAttained DEF Bound
<1>3. FileOf[a] = f
  BY <1>2, ConstantAssumption DEF IInv, BarrierInOrder, FinalizeIsAlone, Of
<1>4. InPage(a)
  BY <1>2, <1>3 DEF IInv, BarrierInOrder, RunsAreOnPlatter, Vouched, Up, Of
<1>5. Bound(f) \in 0..MaxEnd /\ Bound(f) # 0
  BY <1>1, BoundAttained DEF Bound
<1> QED BY <1>2, <1>3, <1>4, <1>5 DEF InPage

\* The truncate cuts the file at its bound, which the file reaches.
LEMMA TruncateTrims ==
  ASSUME IInv, TrimInv, NEW f \in File, Truncate(f)
  PROVE  TrimInv'
<1> USE DEF progress, pipe, cache, report, disk, db, barrier, life, Settled
<1>1. /\ Up /\ bpc = "truncate" /\ f \in btodo /\ UNCHANGED Settled
      /\ UNCHANGED <<psize, runs, reported, late>>
  BY DEF Truncate
<1>2. CASE f \notin open
  BY <1>1, <1>2, GoneTrims DEF Truncate
<1>3. CASE Abort /\ UNCHANGED size
  BY <1>1, <1>3, AbortTrims
<1>4. CASE f \in open /\ TruncateFile(f, Bound(f)) /\ btodo' = btodo \ {f}
           /\ UNCHANGED <<bpc, bfin, bretry, bfiles, bgot, fin>>
  <2>1. bfin # NoFile /\ f = bfin /\ ~Over(f)
    BY <1>1, RunningIsOpen DEF IInv, FinalizeIsAlone
  <2>2. name[f] \in Path /\ size \in [File -> [Path -> Absent..MaxEnd]]
    BY <1>4, OpenIsNamed DEF IInv, TypeOK, TypeProgress, TypeDisk
  <2>3. \A g \in File \ {f} : size'[g] = size[g]
    BY <1>4, <2>2 DEF TruncateFile
  <2>4. f \notin unchecked /\ Of(runs, f) \cup bgot # {} => size'[f][name[f]] = Bound(f)
    <3>1. SUFFICES ASSUME f \notin unchecked, Of(runs, f) \cup bgot # {} PROVE size'[f][name[f]] = Bound(f)
      OBVIOUS
    <3>2. Bound(f) <= size[f][name[f]]
      BY <1>1, <2>1, <3>1, BoundIsInFile
    <3>3. Of(runs, f) \cup bgot \in SUBSET Article
      BY DEF IInv, TypeOK, TypeDatabase, TypeBarrier, Of
    <3>4. Bound(f) \in 0..MaxEnd
      BY <3>3, BoundAttained DEF Bound
    <3>5. size[f][name[f]] \in Absent..MaxEnd
      BY <2>2
    <3>6. CASE Bound(f) >= size[f][name[f]]
      <4>1. size' = size
        BY <1>4, <3>6 DEF TruncateFile
      <4>2. size[f][name[f]] = Bound(f)
        BY <3>2, <3>4, <3>5, <3>6 DEF Absent
      <4> QED BY <4>1, <4>2
    <3>7. CASE ~(Bound(f) >= size[f][name[f]])
      <4>1. size' = [size EXCEPT ![f][name[f]] = Bound(f)]
        BY <1>4, <3>7 DEF TruncateFile
      <4> QED BY <2>2, <4>1
    <3> QED BY <3>6, <3>7
  <2>5. OverIsTrimmed'
    <3>1. \A g \in File : Over(g)' => Over(g)
      BY <1>1, <1>4 DEF Over
    <3>2. ASSUME NEW g \in File, Over(g)
          PROVE  /\ g # f /\ Recorded(g)' = Recorded(g)
                 /\ Of(buf \cup written, g) = {} /\ Of(reported \cup bgot, g) \subseteq runs
      BY <1>1, <2>1, <3>2 DEF TrimInv, OverIsTrimmed, Up, Recorded, Of
    <3> QED BY <1>1, <1>4, <2>3, <3>1, <3>2, OverFrame DEF Up
  <2>6. FinalizeOnce'
    BY <1>1, <1>4 DEF TrimInv, FinalizeOnce
  <2>7. FinalizeCuts'
    <3>1. Bound(f)' = Bound(f) /\ Recorded(f)' = Recorded(f) /\ Recorded(f) = Of(runs, f)
      BY <1>1, <1>4 DEF Bound, Recorded, Of
    <3> QED BY <1>1, <1>4, <2>1, <2>4, <3>1 DEF TrimInv, FinalizeCuts, HasCut, HasSynced
  <2> QED BY <1>1, <2>5, <2>6, <2>7, SavedFrame DEF TrimInv
<1> QED BY <1>2, <1>3, <1>4 DEF Truncate

\* The barrier's phases: a finalize with something to record is cut before it
\* is committed.
LEMMA AdvanceTrims ==
  ASSUME IInv, TrimInv, Advance
  PROVE  TrimInv'
<1> USE DEF progress, pipe, cache, report, disk, db, barrier, life, Settled
<1>1. /\ Up /\ btodo = {} /\ bpc \in {"drain", "sync", "truncate", "sync2", "stat"}
      /\ bpc' = NextPhase /\ btodo' = bfiles /\ UNCHANGED Settled
      /\ UNCHANGED <<size, psize, runs, reported, late, fin, bfin, bfiles, bgot>>
  BY DEF Advance
<1>2. OverIsTrimmed'
  BY <1>1, OverStill DEF Over
<1>3. FinalizeOnce' /\ SavedIsTrimmed'
  BY <1>1, SavedFrame DEF TrimInv, FinalizeOnce
<1>4. FinalizeCuts'
  <2>1. SUFFICES ASSUME bfin # NoFile PROVE FinalizeCuts'
    BY <1>1 DEF FinalizeCuts
  <2>2. /\ fin[bfin] = "running" /\ bfin \in bfiles /\ bfin \in btodo'
        /\ Bound(bfin)' = Bound(bfin) /\ Recorded(bfin)' = Recorded(bfin)
    BY <1>1, <2>1 DEF TrimInv, FinalizeCuts, Bound, Recorded, Of
  <2>3. \/ bpc' = "sync" \/ bpc' = "truncate"
        \/ bpc = "sync" /\ bpc' = "stat" /\ Bound(bfin) = 0
        \/ bpc = "truncate" /\ bpc' = "sync2"
        \/ bpc = "sync2" /\ bpc' = "stat"
        \/ bpc = "stat" /\ bpc' = "commit"
    BY <1>1, <2>1 DEF NextPhase
  <2>4. ASSUME bfin \notin unchecked, Recorded(bfin) \cup bgot # {}
        PROVE  /\ HasCut(bfin)' => HasCut(bfin) /\ size[bfin][name[bfin]] = Bound(bfin)
               /\ HasSynced(bfin)' => HasSynced(bfin) /\ psize[bfin][name[bfin]] = Bound(bfin)
    <3>1. Bound(bfin) # 0
      BY <1>1, <2>1, <2>4, RunningIsOpen, BoundIsInFile DEF Recorded
    <3>2. HasCut(bfin)' => HasCut(bfin)
      BY <1>1, <2>2, <2>3, <3>1 DEF HasCut
    <3>3. HasSynced(bfin)' => HasSynced(bfin)
      BY <1>1, <2>2, <2>3, <3>1 DEF HasSynced
    <3> QED BY <2>1, <2>4, <3>2, <3>3 DEF TrimInv, FinalizeCuts
  <2> QED BY <1>1, <2>2, <2>4 DEF FinalizeCuts
<1> QED BY <1>2, <1>3, <1>4 DEF TrimInv

\* Steps of the barrier between the second fsync and the answer.
LEMMA StatTrims ==
  ASSUME IInv, TrimInv, Ack \/ \E f \in File : Stat(f) \/ Confirm(f)
  PROVE  TrimInv'
<1> USE DEF progress, pipe, cache, report, disk, db, barrier, life, Settled
<1>1. /\ Up /\ UNCHANGED Settled /\ UNCHANGED <<size, psize, runs, late>>
      /\ reported' \subseteq reported
  BY DEF Ack, Stat, Confirm, ConfirmFile
<1>2. CASE Abort /\ UNCHANGED reported
  BY <1>1, <1>2, AbortTrims
<1>3. CASE \E f \in btodo : f \notin open /\ FileGone(f) /\ UNCHANGED reported
  BY <1>1, <1>3, GoneTrims
<1>4. CASE /\ bpc \in {"stat", "ack", "confirm"} /\ bpc' \in {"stat", "confirm"}
           /\ UNCHANGED <<bfin, bfiles, bgot, fin>>
  <2>1. OverIsTrimmed'
    BY <1>1, <1>4, OverStill DEF Over
  <2>2. FinalizeOnce'
    BY <1>1, <1>4 DEF TrimInv, FinalizeOnce
  <2>3. FinalizeCuts'
    BY <1>1, <1>4 DEF TrimInv, FinalizeCuts, HasCut, HasSynced, Bound, Recorded
  <2> QED BY <1>1, <2>1, <2>2, <2>3, SavedFrame DEF TrimInv
<1> QED BY <1>2, <1>3, <1>4 DEF Ack, Stat, Confirm

\* The commit records what the finalize cut the file at.
LEMMA CommitTrims ==
  ASSUME IInv, TrimInv, Commit
  PROVE  TrimInv'
<1> USE DEF progress, pipe, cache, report, disk, db, barrier, life, Settled
<1>1. /\ Up /\ bpc = "commit" /\ UNCHANGED Settled /\ UNCHANGED <<size, psize, reported, late>>
  BY DEF Commit
<1>2. CASE Abort /\ UNCHANGED runs
  BY <1>1, <1>2, AbortTrims
<1>3. CASE runs' = runs \cup bgot /\ bpc' = "ack" /\ UNCHANGED <<bfin, bretry, btodo, bfiles, bgot, fin>>
  <2>1. OverIsTrimmed'
    <3>1. \A g \in File : Over(g)' => Over(g)
      BY <1>1, <1>3 DEF Over
    <3>2. ASSUME NEW g \in File, Over(g)
          PROVE  /\ Recorded(g)' = Recorded(g)
                 /\ Of(buf \cup written, g) = {} /\ Of(reported' \cup bgot', g) \subseteq runs'
      BY <1>1, <1>3, <3>2 DEF TrimInv, OverIsTrimmed, Up, Recorded, Of
    <3> QED BY <1>1, <3>1, <3>2, OverFrame DEF Up
  <2>2. FinalizeOnce'
    BY <1>1, <1>3 DEF TrimInv, FinalizeOnce
  <2>3. FinalizeCuts'
    <3>1. SUFFICES ASSUME bfin # NoFile PROVE FinalizeCuts'
      BY <1>3 DEF FinalizeCuts
    <3>2. \A a \in bgot : FileOf[a] = bfin
      BY <3>1 DEF IInv, BarrierInOrder, FinalizeIsAlone
    <3>3. Of(runs', bfin) \cup bgot' = Of(runs, bfin) \cup bgot
      BY <1>3, <3>2 DEF Of
    <3>4. Bound(bfin)' = Bound(bfin) /\ Recorded(bfin)' \cup bgot' = Recorded(bfin) \cup bgot
      BY <1>3, <3>3 DEF Bound, Recorded
    <3> QED BY <1>1, <1>3, <3>4 DEF TrimInv, FinalizeCuts, HasCut, HasSynced
  <2> QED BY <1>1, <2>1, <2>2, <2>3, SavedFrame DEF TrimInv
<1> QED BY <1>2, <1>3 DEF Commit

\* A finalize that returns leaves its file trimmed.
LEMMA ReturnTrims ==
  ASSUME IInv, TrimInv, BarrierReturns
  PROVE  TrimInv'
<1> USE DEF progress, pipe, cache, report, disk, db, barrier, life, Settled
<1>1. /\ Up /\ bpc = "confirm" /\ UNCHANGED Settled /\ UNCHANGED <<size, psize, runs, reported, late>>
      /\ bfin' = NoFile /\ bgot' = {}
  BY DEF BarrierReturns, Reset, FinalizeReturns
<1>2. FinalizeCuts' /\ SavedIsTrimmed'
  BY <1>1, SavedFrame DEF FinalizeCuts
<1>3. CASE bfin = NoFile
  <2>1. UNCHANGED fin
    BY <1>3 DEF BarrierReturns
  <2>2. OverIsTrimmed'
    BY <1>1, <2>1, OverStill DEF Over
  <2>3. FinalizeOnce'
    BY <1>1, <2>1 DEF TrimInv, FinalizeOnce
  <2> QED BY <1>2, <2>2, <2>3 DEF TrimInv
<1>4. CASE bfin # NoFile
  <2>1. /\ bfin \in File /\ fin[bfin] = "running" /\ bfin \notin complete /\ bfin \in tomb
        /\ fin' = [fin EXCEPT ![bfin] = IF bretry THEN "rclose" ELSE "close"]
    BY <1>4, RunningIsOpen DEF BarrierReturns, FinalizeReturns
  <2>2. /\ \A g \in File \ {bfin} : fin'[g] = fin[g]
        /\ fin'[bfin] \in {"close", "rclose"}
    BY <2>1 DEF IInv, TypeOK, TypeBarrier
  <2>3. bgot \subseteq Of(runs, bfin) /\ Of(buf \cup written, bfin) = {} /\ Of(reported, bfin) \subseteq bgot
    BY <1>1, <1>4 DEF IInv, BarrierInOrder, FinalizeIsAlone, Of
  <2>0. PICK f \in File : f = bfin
    BY <2>1
  <2>4. f \notin unchecked => Trimmed(f)'
    <3>1. Recorded(f) \cup bgot = Recorded(f) /\ Bound(f) = boundOver(Recorded(f))
      <4>1. Recorded(f) \cup bgot = Recorded(f)
        BY <2>0, <2>3 DEF Recorded
      <4> QED BY <4>1 DEF Bound, Recorded
    <3>2. HasCut(f) /\ HasSynced(f)
      BY <1>1 DEF HasCut, HasSynced
    <3>3. f \notin unchecked => Trimmed(f)
      BY <1>4, <2>0, <3>1, <3>2 DEF TrimInv, FinalizeCuts, Trimmed
    <3> QED BY <1>1, <3>3 DEF Trimmed, Recorded
  <2>5. OverIsTrimmed'
    <3>1. SUFFICES ASSUME NEW g \in File, Over(g)'
                   PROVE  /\ Of(buf \cup written, g) = {} /\ Of(reported, g) \subseteq runs
                          /\ g \notin unchecked => Trimmed(g)'
      BY <1>1 DEF OverIsTrimmed, Of
    <3>2. CASE g = bfin
      BY <2>0, <2>3, <2>4, <3>2 DEF Of
    <3>3. CASE g # bfin
      <4>1. Over(g)
        BY <1>1, <2>2, <3>1, <3>3 DEF Over
      <4>2. /\ Of(buf \cup written, g) = {} /\ Of(reported, g) \subseteq runs
            /\ g \notin unchecked => Trimmed(g)
        BY <1>1, <4>1 DEF TrimInv, OverIsTrimmed, Up, Of
      <4> QED BY <1>1, <4>2 DEF Trimmed, Recorded
    <3> QED BY <3>2, <3>3
  <2>6. FinalizeOnce'
    <3>1. late.op \in {"truncate", "close"} => late.file \in File \ {bfin}
      BY <2>1 DEF TrimInv, FinalizeOnce, IInv, LateCutIsSafe, TypeOK, TypeWriter
    <3> QED BY <1>1, <2>1, <2>2, <3>1 DEF TrimInv, FinalizeOnce, IInv, TypeOK, TypeProgress
  <2> QED BY <1>2, <2>5, <2>6 DEF TrimInv
<1> QED BY <1>3, <1>4

\* A wait that ends leaves the file open for the retry.
LEMMA TimeoutTrims ==
  ASSUME IInv, TrimInv, NEW f \in File, Timeout(f)
  PROVE  TrimInv'
<1> USE DEF progress, pipe, cache, report, disk, db, barrier, life, Settled
<1>1. /\ Up /\ f \in btodo /\ late.op = "none" /\ UNCHANGED Settled
      /\ UNCHANGED <<size, psize, runs, reported>>
      /\ late' = late \/ (late'.op = bpc /\ late'.file = f)
      /\ bpc \in {"drain", "sync", "truncate", "sync2", "confirm"}
  BY DEF Timeout
<1>2. CASE bpc # "confirm"
  <2>1. Abort /\ (bpc = "truncate" => f = bfin /\ bfin # NoFile)
    BY <1>1, <1>2 DEF Timeout, IInv, FinalizeIsAlone
  <2> QED BY <1>1, <2>1, AbortTrims
<1>3. CASE bpc = "confirm"
  <2>1. UNCHANGED <<bpc, bfin, bfiles, bgot, fin>>
    BY <1>3 DEF Timeout
  <2>2. OverIsTrimmed'
    BY <1>1, <2>1, OverStill DEF Over
  <2>3. FinalizeOnce'
    BY <1>1, <1>3, <2>1 DEF TrimInv, FinalizeOnce
  <2>4. FinalizeCuts'
    BY <1>1, <1>3, <2>1 DEF TrimInv, FinalizeCuts, HasCut, HasSynced, Bound, Recorded
  <2> QED BY <1>1, <2>2, <2>3, <2>4, SavedFrame DEF TrimInv
<1> QED BY <1>2, <1>3

\* Closing a finalized file writes nothing.
LEMMA CloseFileTrims ==
  ASSUME IInv, TrimInv, Up, NEW f \in open, NEW synced \in BOOLEAN,
         NEW ok \in SUBSET Article, CloseFile(f, ok, synced),
         UNCHANGED <<complete, name, runs, phase, unchecked, bgot>>,
         \A g \in File : Over(g)' => Over(g)
  PROVE  /\ OverIsTrimmed'
         /\ \A g \in File \ {f} : size'[g] = size[g] /\ psize'[g] = psize[g]
<1>1. /\ f \in File /\ name[f] \in Path
      /\ size \in [File -> [Path -> Absent..MaxEnd]] /\ psize \in [File -> [Path -> Absent..MaxEnd]]
  BY OpenIsNamed DEF IInv, TypeOK, TypeProgress, TypeDisk
<1>2. /\ size' = [size EXCEPT ![f][name[f]] = Grown(@, ok)] /\ ok \subseteq Of(buf, f)
      /\ psize' = psize \/ psize' = [psize EXCEPT ![f][name[f]] = size'[f][name[f]]]
      /\ buf' \subseteq buf /\ written' \subseteq written /\ reported' \subseteq reported
  BY DEF CloseFile
<1>3. \A g \in File \ {f} : size'[g] = size[g] /\ psize'[g] = psize[g]
  BY <1>1, <1>2
<1>4. ASSUME NEW g \in File, Over(g)
      PROVE  /\ Recorded(g)' = Recorded(g)
             /\ Of(buf' \cup written', g) = {} /\ Of(reported' \cup bgot', g) \subseteq runs'
             /\ g \notin unchecked /\ Trimmed(g) /\ Recorded(g) # {} =>
                  /\ size'[g][name[g]] = size[g][name[g]]
                  /\ psize'[g][name[g]] \in {size[g][name[g]], psize[g][name[g]]}
  <2>1. Of(buf \cup written, g) = {} /\ Of(reported \cup bgot, g) \subseteq runs
    BY <1>4 DEF TrimInv, OverIsTrimmed, Up
  <2>2. /\ Of(buf' \cup written', g) = {} /\ Of(buf, g) = {} /\ Recorded(g)' = Recorded(g)
        /\ Of(reported' \cup bgot', g) \subseteq runs'
    BY <1>2, <2>1 DEF Of, Recorded
  <2>3. CASE g # f
    BY <1>3, <2>2, <2>3
  <2>4. CASE g = f
    <3>1. size'[g][name[g]] = Grown(size[g][name[g]], {})
      BY <1>1, <1>2, <2>2, <2>4
    <3>2. g \notin unchecked /\ Trimmed(g) /\ Recorded(g) # {} => size[g][name[g]] \in Nat
      BY TrimmedSize DEF Up
    <3>3. psize'[g][name[g]] \in {size'[g][name[g]], psize[g][name[g]]}
      BY <1>1, <1>2, <2>4
    <3> QED BY <2>2, <3>1, <3>2, <3>3, GrownByNothing
  <2> QED BY <2>3, <2>4
<1> QED BY <1>3, <1>4, OverFrame DEF Up

\* A handle is released only after its finalize.
LEMMA ReleaseTrims ==
  ASSUME IInv, TrimInv, NEW f \in File, Release(f)
  PROVE  TrimInv'
<1> USE DEF progress, pipe, cache, report, disk, db, barrier, life, Settled
<1>1. /\ Up /\ late.op = "none" /\ fin[f] \in {"close", "rclose"}
      /\ UNCHANGED <<complete, name, total, tomb, dbcomplete, phase, unchecked, crashes, runs>>
      /\ UNCHANGED <<bpc, bfin, bretry, btodo, bfiles, bgot>>
      /\ fin' = [fin EXCEPT ![f] = IF @ = "close" THEN "deliver" ELSE "done"]
  BY DEF Release
<1>2. (\A g \in File \ {f} : fin'[g] = fin[g]) /\ fin'[f] \in {"deliver", "done"}
  BY <1>1 DEF IInv, TypeOK, TypeBarrier
<1>3. \A g \in File : Over(g)' => Over(g)
  BY <1>1, <1>2 DEF Over
<1>4. /\ OverIsTrimmed' /\ open \ {f} \subseteq open'
      /\ \A g \in File \ {f} : size'[g] = size[g] /\ psize'[g] = psize[g]
  <2>1. CASE UNCHANGED <<open, buf, written, reported, size, psize>>
    BY <1>1, <1>3, <2>1, OverStill
  <2>2. CASE f \in open /\ \E ok \in SUBSET Article, synced \in BOOLEAN : CloseFile(f, ok, synced)
    <3>1. open' = open \ {f}
      BY <2>2 DEF CloseFile
    <3> QED BY <1>1, <1>3, <2>2, <3>1, CloseFileTrims
  <2> QED BY <2>1, <2>2, ReleaseCloses DEF IInv
<1>5. FinalizeOnce'
  <2>0. late' = late \/ late' = [op |-> "close", file |-> f, bound |-> 0]
    BY DEF Release
  <2>1. late' = late \/ (late'.op = "close" /\ late'.file = f)
    BY <2>0
  <2>2. f \in tomb /\ f \notin complete
    BY <1>1 DEF IInv, FinalizeIsAlone, TrimInv, FinalizeOnce
  <2> QED BY <1>1, <1>2, <1>4, <2>1, <2>2 DEF TrimInv, FinalizeOnce, IInv, TypeOK, TypeProgress
<1>6. FinalizeCuts'
  <2>1. bfin # NoFile => bfin \in File \ {f}
    BY <1>1, RunningIsOpen
  <2> QED BY <1>1, <1>2, <1>4, <2>1, CutsFrame
<1> QED BY <1>1, <1>4, <1>5, <1>6, SavedFrame DEF TrimInv

\* An operation nobody waits for any more cuts only a file whose finalize is
\* still to be repeated.
LEMMA LateOpTrims ==
  ASSUME IInv, StrandInv, TrimInv, NoRollback, NEW ok \in SUBSET Article, LateOp(ok)
  PROVE  TrimInv'
<1> USE DEF progress, pipe, cache, report, disk, db, barrier, life, Settled
<1> DEFINE f == late.file
<1>1. /\ Up /\ late.op # "none" /\ late' = NoOp
      /\ UNCHANGED <<complete, name, total, tomb, dbcomplete, phase, unchecked, crashes, runs, fin>>
      /\ UNCHANGED <<bpc, bfin, bretry, btodo, bfiles, bgot>>
  BY DEF LateOp
<1>2. \A g \in File : Over(g)' => Over(g)
  BY <1>1 DEF Over
<1>3. late.op \in {"confirm", "close"} \/ bfin = NoFile
  BY <1>1 DEF StrandInv, DrainIsWhole, IInv, BarrierInOrder, Idle
<1>4. ASSUME UNCHANGED open, OverIsTrimmed', bfin = NoFile \/ UNCHANGED <<size, psize>>
      PROVE  TrimInv'
  <2>1. FinalizeOnce'
    BY <1>1, <1>4 DEF NoOp, TrimInv, FinalizeOnce
  <2>2. FinalizeCuts'
    BY <1>1, <1>4, CutsFrame
  <2> QED BY <1>1, <1>4, <2>1, <2>2, SavedFrame DEF TrimInv
<1>5. CASE UNCHANGED <<open, buf, written, size, psize>> /\ reported' \subseteq reported
  BY <1>1, <1>2, <1>4, <1>5, OverStill
<1>6. CASE f \in open /\ late.op = "drain"
  <2>1. ok = Of(buf, f) /\ DrainFile(f, ok) /\ UNCHANGED <<open, psize>>
    BY <1>6 DEF LateOp, NoRollback, Fault
  <2>2. OverIsTrimmed'
    BY <1>1, <1>6, <2>1, DrainFileTrims
  <2> QED BY <1>3, <1>4, <1>6, <2>1, <2>2
<1>7. CASE f \in open /\ late.op \in {"sync", "sync2"}
  <2>1. SyncFile(f) /\ UNCHANGED <<open, buf, written, reported, size>>
    BY <1>7 DEF LateOp
  <2>2. OverIsTrimmed'
    BY <1>1, <1>7, <2>1, SyncFileTrims
  <2> QED BY <1>3, <1>4, <1>7, <2>1, <2>2
<1>8. CASE f \in open /\ late.op = "truncate"
  <2>1. TruncateFile(f, late.bound) /\ UNCHANGED <<open, buf, written, reported, psize>>
    BY <1>8 DEF LateOp
  <2>2. f \in File /\ ~Over(f)
    BY <1>8 DEF IInv, TypeOK, TypeWriter, TrimInv, FinalizeOnce, Over
  <2>3. \A g \in File \ {f} : size'[g] = size[g]
    BY <2>1, <2>2 DEF TruncateFile, IInv, TypeOK, TypeDisk
  <2>4. ASSUME NEW g \in File, Over(g)
        PROVE  /\ g # f /\ Recorded(g)' = Recorded(g)
               /\ Of(buf \cup written, g) = {} /\ Of(reported \cup bgot, g) \subseteq runs
    BY <1>1, <2>2, <2>4 DEF TrimInv, OverIsTrimmed, Up, Recorded, Of
  <2>5. OverIsTrimmed'
    BY <1>1, <1>2, <2>1, <2>3, <2>4, OverFrame DEF Up
  <2> QED BY <1>3, <1>4, <1>8, <2>1, <2>5
<1>9. CASE f \in open /\ late.op = "close"
  <2>1. CloseFile(f, ok, TRUE) /\ open' = open \ {f}
    BY <1>9 DEF LateOp, CloseFile
  <2>2. f \in File /\ fin[f] \in {"deliver", "done", "none", "dropped"}
    BY <1>9 DEF IInv, TypeOK, TypeWriter, TrimInv, FinalizeOnce
  <2>3. OverIsTrimmed' /\ \A g \in File \ {f} : size'[g] = size[g] /\ psize'[g] = psize[g]
    BY <1>1, <1>2, <1>9, <2>1, CloseFileTrims
  <2>4. FinalizeOnce'
    BY <1>1, <2>1, <2>2 DEF NoOp, TrimInv, FinalizeOnce
  <2>5. FinalizeCuts'
    <3>1. bfin # NoFile => bfin \in File \ {f}
      BY <2>2, RunningIsOpen
    <3> QED BY <1>1, <2>3, <3>1, CutsFrame
  <2> QED BY <1>1, <2>3, <2>4, <2>5, SavedFrame DEF TrimInv
<1> QED BY <1>5, <1>6, <1>7, <1>8, <1>9 DEF LateOp, ConfirmFile

\* A delivered file is one that a finalize has been through.
LEMMA DeliverTrims ==
  ASSUME IInv, TrimInv, Flush \/ Reevaluating \/ \E f \in File : Deliver(f)
  PROVE  TrimInv'
<1> USE DEF progress, pipe, cache, report, disk, db, barrier, life, Settled
<1>1. /\ Up /\ UNCHANGED <<name, total, open, tomb, buf, written, reported, size, psize, runs, late, phase,
                           unchecked, crashes>>
      /\ UNCHANGED <<bpc, bfin, bretry, btodo, bfiles, bgot>>
      /\ complete \subseteq complete' /\ (dbcomplete' = dbcomplete \/ dbcomplete' = complete')
  BY ReevaluatingFrame DEF IInv, Flush, Deliver
<1>2. /\ \A g \in File : \/ fin'[g] = fin[g]
                         \/ fin[g] \in {"deliver", "done"} /\ fin'[g] = "done"
                         \/ fin[g] \in {"deliver", "done"} /\ fin'[g] = "none" /\ g \in complete'
                         \/ fin[g] \in {"pending", "unread", "lost", "done"} /\ fin'[g] = "dropped"
      /\ \A g \in complete' \ complete : g \in File /\ fin[g] \in {"deliver", "done"} /\ fin'[g] = "none"
  <2>1. CASE Flush
    BY <2>1 DEF Flush
  <2>2. CASE Reevaluating
    BY <2>2, ReevaluatingFrame DEF IInv
  <2>3. ASSUME NEW f \in File, Deliver(f)
        PROVE  /\ fin[f] = "deliver" /\ \A g \in File \ {f} : fin'[g] = fin[g]
               /\ \/ complete' = complete \cup {f} /\ fin'[f] = "none"
                  \/ complete' = complete /\ fin'[f] = "done"
    BY <2>3 DEF Deliver, IInv, TypeOK, TypeBarrier
  <2> QED BY <2>1, <2>2, <2>3
<1>3. OverIsTrimmed'
  <2>1. \A g \in File : Over(g)' => Over(g)
    BY <1>2 DEF Over
  <2>2. ASSUME NEW g \in File, Over(g)
        PROVE  /\ Recorded(g)' = Recorded(g)
               /\ Of(buf \cup written, g) = {} /\ Of(reported \cup bgot, g) \subseteq runs
    BY <1>1, <2>2 DEF TrimInv, OverIsTrimmed, Up, Recorded, Of
  <2> QED BY <1>1, <2>1, <2>2, OverFrame DEF Up
<1>4. FinalizeOnce'
  <2>1. \A g \in complete' : fin'[g] = "none" /\ (g \in tomb' \/ total'[g] = 0)
    <3>1. SUFFICES ASSUME NEW g \in complete' PROVE fin'[g] = "none" /\ (g \in tomb \/ total[g] = 0)
      BY <1>1
    <3>2. CASE g \in complete
      BY <1>2, <3>2 DEF TrimInv, FinalizeOnce, IInv, TypeOK, TypeProgress
    <3>3. CASE g \notin complete
      BY <1>2, <3>3 DEF IInv, FinalizeIsAlone
    <3> QED BY <3>2, <3>3
  <2>2. late.op \in {"truncate", "close"} => late.file \in File
    BY DEF TrimInv, FinalizeOnce, IInv, LateCutIsSafe, TypeOK, TypeWriter
  <2>3. late.op = "truncate" => fin'[late.file] \in {"pending", "dropped"}
    BY <1>2, <2>2 DEF TrimInv, FinalizeOnce
  <2>4. late.op = "close" => late.file \in tomb /\ fin'[late.file] \in {"deliver", "done", "none", "dropped"}
    BY <1>2, <2>2 DEF TrimInv, FinalizeOnce
  <2>5. \A g \in File : fin'[g] \in {"queued", "running", "pending"} => g \in open
    BY <1>2 DEF TrimInv, FinalizeOnce
  <2> QED BY <1>1, <2>1, <2>3, <2>4, <2>5 DEF FinalizeOnce
<1>5. FinalizeCuts'
  <2>1. bfin # NoFile => fin'[bfin] = fin[bfin]
    BY <1>2, RunningIsOpen
  <2> QED BY <1>1, <2>1, CutsFrame
<1> QED BY <1>1, <1>3, <1>4, <1>5, SavedFrame DEF TrimInv

-----------------------------------------------------------------------------
(* What a crash and the next start leave of a finalized file *)

\* A start that has nobody at work.
LEMMA DownFrame ==
  ASSUME IInv, TypeOK', DownIsQuiet', BarrierInOrder', phase' # "up",
         phase' = "strand" => \A f \in complete' \ unchecked' : Trimmed(f)', SavedIsTrimmed'
  PROVE  TrimInv'
<1>1. /\ buf' = {} /\ written' = {} /\ reported' = {} /\ bgot' = {} /\ bfin' = NoFile
      /\ total' = [f \in File |-> 0] /\ fin' = [f \in File |-> "none"] /\ late' = NoOp
  BY DEF DownIsQuiet, BarrierInOrder
<1>2. \A f \in File : Over(f)' => f \in complete'
  BY <1>1 DEF Over
<1>3. OverIsTrimmed'
  BY <1>1, <1>2 DEF OverIsTrimmed, Of
<1>4. FinalizeOnce'
  BY <1>1 DEF NoOp, FinalizeOnce, TypeOK, TypeProgress
<1>5. FinalizeCuts'
  BY <1>1 DEF FinalizeCuts
<1> QED BY <1>3, <1>4, <1>5 DEF TrimInv

\* The first crash finds a file that was saved Complete as its finalize left
\* it, on the platter too.
LEMMA CrashTrims ==
  ASSUME IInv, IInv', CompleteInv, TrimInv, crashes' <= 1, Crash
  PROVE  TrimInv'
<1>1. crashes = 0 /\ crashes' = 1 /\ phase' = "down" /\ complete' = {} /\ name' = dbname
      /\ UNCHANGED <<runs, dbcomplete, unchecked>>
  <2>1. crashes' = crashes + 1 /\ phase' = "down" /\ complete' = {} /\ name' = dbname
        /\ UNCHANGED <<runs, dbcomplete, unchecked>>
    BY DEF Crash, db
  <2> QED BY <2>1, ConstantAssumption DEF IInv, TypeOK, TypeLife
<1>2. phase = "up" /\ dbcomplete \subseteq complete /\ unchecked = {}
  BY <1>1 DEF CompleteInv, SavedIsResolved, TrimInv, SavedIsTrimmed, IInv, TypeOK, TypeLife
<1>3. \A f \in File, p \in Path : size'[f][p] \in {size[f][p], psize[f][p]}
  BY DEF Crash
<1>4. ASSUME NEW f \in dbcomplete, name'[f] # 0, Recorded(f) # {}
      PROVE  size'[f][name'[f]] <= boundOver(Recorded(f))
  <2>1. f \in File /\ name[f] = name'[f] /\ name[f] \in Path
    BY <1>1, <1>4 DEF IInv, NamesAgree, TypeOK, TypeDatabase
  <2>2. Trimmed(f)
    BY <1>2, <1>4, <2>1 DEF TrimInv, OverIsTrimmed, Over
  <2>3. size'[f][name[f]] = boundOver(Recorded(f))
    BY <1>3, <1>4, <2>1, <2>2 DEF Trimmed
  <2>4. Recorded(f) \in SUBSET Article
    BY DEF Recorded, Of, IInv, TypeOK, TypeDatabase
  <2> QED BY <2>1, <2>3, <2>4, BoundAttained
<1>5. SavedIsTrimmed'
  BY <1>1, <1>4 DEF SavedIsTrimmed, Recorded
<1> QED BY <1>1, <1>5, DownFrame DEF IInv

\* Tampering only shortens files, and hydration restores what was saved.
LEMMA TamperTrims ==
  ASSUME IInv, IInv', TrimInv, CompleteInv,
         Hydrate \/ \E f \in File, p \in Path, n \in Absent..MaxEnd : Tamper(f, p, n)
  PROVE  TrimInv'
<1> USE DEF progress, pipe, cache, report, disk, db, barrier, life
<1>1. phase = "down" /\ phase' \in {"down", "sweep"} /\ UNCHANGED <<name, runs, dbcomplete, unchecked, crashes, swept>>
  BY DEF Hydrate, Tamper
<1>2. swept = {} /\ crashes # 0
  BY <1>1 DEF IInv, DownIsQuiet, CompleteInv, SavedIsResolved
<1>3. \A g \in File, q \in Path : size'[g][q] <= size[g][q] /\ size[g][q] \in Int /\ size'[g][q] \in Int
  <2>1. CASE Hydrate
    BY <2>1 DEF Hydrate, IInv, TypeOK, TypeDisk, Absent
  <2>2. ASSUME NEW f \in File, NEW p \in Path, NEW n \in Absent..MaxEnd, Tamper(f, p, n)
        PROVE  \A g \in File, q \in Path : size'[g][q] <= size[g][q] /\ size[g][q] \in Int /\ size'[g][q] \in Int
    <3>1. size' = [size EXCEPT ![f][p] = n] /\ n < size[f][p]
      BY <2>2 DEF Tamper
    <3>2. \A g \in File, q \in Path : size[g][q] \in Int
      BY DEF IInv, TypeOK, TypeDisk, Absent
    <3>3. \A g \in File, q \in Path : size'[g][q] = IF g = f /\ q = p THEN n ELSE size[g][q]
      BY <3>1 DEF IInv, TypeOK, TypeDisk
    <3>4. n \in Int
      BY DEF Absent
    <3> QED BY <3>1, <3>2, <3>3, <3>4
  <2> QED BY <2>1, <2>2
<1>4. ASSUME NEW f \in dbcomplete, name[f] # 0, Recorded(f) # {}
      PROVE  size'[f][name[f]] <= boundOver(Recorded(f))
  <2>1. f \in File /\ name[f] \in Path
    BY <1>4 DEF IInv, TypeOK, TypeDatabase, TypeProgress
  <2>2. size[f][name[f]] <= boundOver(Recorded(f))
    BY <1>1, <1>4 DEF TrimInv, SavedIsTrimmed
  <2>3. Recorded(f) \in SUBSET Article
    BY DEF Recorded, Of, IInv, TypeOK, TypeDatabase
  <2>4. boundOver(Recorded(f)) \in Int
    BY <2>3, BoundAttained
  <2> QED BY <1>3, <2>1, <2>2, <2>4
<1>5. phase' = "sweep" => complete' = dbcomplete
  BY <1>1 DEF Hydrate, Tamper
<1>6. SavedIsTrimmed'
  BY <1>1, <1>2, <1>4, <1>5 DEF SavedIsTrimmed, Recorded
<1> QED BY <1>1, <1>6, DownFrame DEF IInv

\* The sweep takes the record from a file that is too short for it.
LEMMA SweepTrims ==
  ASSUME IInv, IInv', TrimInv, CompleteInv, ResumeFault \/ \E f \in File : ResumeFile(f)
  PROVE  TrimInv'
<1> USE DEF progress, pipe, cache, report, disk, db, barrier, life
<1>1. phase = "sweep" /\ UNCHANGED <<name, complete, size, dbcomplete, phase, crashes>>
  BY DEF ResumeFault, ResumeFile
<1>2. crashes # 0
  BY <1>1 DEF CompleteInv, SavedIsResolved
<1>3. CASE ResumeFault
  <2>1. UNCHANGED <<runs, swept, unchecked>>
    BY <1>3 DEF ResumeFault
  <2>2. SavedIsTrimmed'
    BY <1>1, <1>2, <2>1 DEF TrimInv, SavedIsTrimmed, Recorded
  <2> QED BY <1>1, <2>2, DownFrame DEF IInv
<1>4. ASSUME NEW f \in File, ResumeFile(f) PROVE TrimInv'
  <2>1. /\ swept' = swept \cup {f} /\ name[f] # 0
        /\ \/ runs' = runs \ Arts(f)
           \/ runs' = runs /\ ~(size[f][name[f]] < boundOver(Of(runs, f)))
    BY <1>4 DEF ResumeFile
  <2>2. \A g \in File \ {f} : Recorded(g)' = Recorded(g)
    BY <2>1 DEF Recorded, Arts, Of
  <2>3. Recorded(f)' = {} \/ (Recorded(f)' = Recorded(f) /\ ~(size[f][name[f]] < boundOver(Recorded(f))))
    <3>1. CASE runs' = runs \ Arts(f)
      <4>1. Recorded(f)' = {}
        BY <3>1 DEF Recorded, Arts, Of, IInv, TypeOK, TypeDatabase
      <4> QED BY <4>1
    <3>2. CASE runs' = runs /\ ~(size[f][name[f]] < boundOver(Of(runs, f)))
      BY <3>2 DEF Recorded
    <3> QED BY <2>1, <3>1, <3>2
  <2>4. Recorded(f) \in SUBSET Article
    BY DEF Recorded, Of, IInv, TypeOK, TypeDatabase
  <2>5. size[f][name[f]] \in Int /\ boundOver(Recorded(f)) \in Int
    <3>1. name[f] \in Path
      BY <2>1 DEF IInv, TypeOK, TypeProgress
    <3> QED BY <2>4, <3>1, BoundAttained DEF IInv, TypeOK, TypeDisk, Absent
  <2>6. ASSUME NEW g \in complete, name[g] # 0, Recorded(g)' # {}
        PROVE  /\ size[g][name[g]] <= boundOver(Recorded(g)')
               /\ g \in swept' => size[g][name[g]] = boundOver(Recorded(g)')
    <3>1. g \in File
      BY <2>6 DEF IInv, TypeOK, TypeProgress
    <3>2. CASE g # f
      BY <1>1, <2>1, <2>2, <2>6, <3>1, <3>2 DEF TrimInv, SavedIsTrimmed
    <3>3. CASE g = f
      <4>1. size[f][name[f]] <= boundOver(Recorded(f)) /\ Recorded(f)' = Recorded(f)
            /\ ~(size[f][name[f]] < boundOver(Recorded(f)))
        BY <1>1, <2>3, <2>6, <3>3 DEF TrimInv, SavedIsTrimmed
      <4>2. size[f][name[f]] = boundOver(Recorded(f))
        BY <2>5, <4>1
      <4> QED BY <3>3, <4>1, <4>2
    <3> QED BY <3>2, <3>3
  <2>7. SavedIsTrimmed'
    BY <1>1, <1>2, <2>6 DEF SavedIsTrimmed
  <2> QED BY <1>1, <2>7, DownFrame DEF IInv
<1> QED BY <1>3, <1>4

\* The files of which no stat has vouched for the record are set apart.
LEMMA ReplaceTrims ==
  ASSUME IInv, IInv', TrimInv, CompleteInv, ReplaceFromRuns
  PROVE  TrimInv'
<1> USE DEF progress, pipe, cache, report, disk, db, barrier, life
<1>1. /\ phase = "sweep" /\ phase' = "strand" /\ UNCHANGED <<name, size, psize, runs, crashes>>
      /\ complete' \subseteq complete /\ unchecked' = unchecked \cup {f \in File \ swept : Of(runs, f) # {}}
  BY DEF ReplaceFromRuns
<1>2. crashes # 0 /\ psize = size
  BY <1>1 DEF CompleteInv, SavedIsResolved, IInv, DownIsQuiet
<1>3. ASSUME NEW f \in complete' \ unchecked', Recorded(f) # {}
      PROVE  size[f][name[f]] = boundOver(Recorded(f))
  <2>1. f \in complete /\ f \in swept /\ name[f] # 0
    BY <1>1, <1>3 DEF IInv, NamesAgree, TypeOK, TypeProgress, Recorded
  <2> QED BY <1>1, <1>3, <2>1 DEF TrimInv, SavedIsTrimmed
<1>4. \A f \in complete' \ unchecked' : Trimmed(f)'
  BY <1>1, <1>2, <1>3 DEF Trimmed, Recorded
<1>5. SavedIsTrimmed'
  BY <1>1, <1>2 DEF SavedIsTrimmed
<1> QED BY <1>1, <1>4, <1>5, DownFrame DEF IInv

\* A stranded file is completed by the trim its finalize did not live to do.
LEMMA StrandTrims ==
  ASSUME IInv, IInv', TrimInv, CompleteInv, NEW f \in File, Strand(f) \/ StrandFault(f)
  PROVE  TrimInv'
<1> USE DEF progress, pipe, cache, report, disk, db, barrier, life
<1>1. phase = "strand" /\ UNCHANGED <<name, runs, crashes, phase, unchecked>>
  BY DEF Strand, StrandFault
<1>2. crashes # 0 /\ psize = size
  BY <1>1 DEF CompleteInv, SavedIsResolved, IInv, DownIsQuiet
<1>3. \A g \in complete \ unchecked : Trimmed(g)
  BY <1>1 DEF TrimInv, OverIsTrimmed, Over, IInv, TypeOK, TypeProgress
<1>4. SavedIsTrimmed'
  BY <1>1, <1>2 DEF SavedIsTrimmed
<1>5. \A g \in complete' \ unchecked' : Trimmed(g)'
  <2>1. CASE StrandFault(f)
    BY <1>1, <1>3, <2>1 DEF StrandFault, Trimmed, Recorded
  <2>2. CASE Strand(f)
    <3> DEFINE b == boundOver(Recorded(f))
    <3>1. f \in swept /\ complete' = complete \cup {f} /\ f \notin complete /\ name[f] \in Path
      BY <2>2 DEF Strand, IInv, NamesAgree, TypeOK, TypeProgress
    <3>2. \/ b > 0 /\ size[f][name[f]] > b /\ size' = [size EXCEPT ![f][name[f]] = b]
             /\ psize' = [psize EXCEPT ![f][name[f]] = b]
          \/ ~(b > 0 /\ size[f][name[f]] > b) /\ UNCHANGED <<size, psize>>
      <4>1. b \in 0..MaxEnd /\ size[f][name[f]] \in Int
        <5>1. Recorded(f) \in SUBSET Article
          BY DEF Recorded, Of, IInv, TypeOK, TypeDatabase
        <5> QED BY <3>1, <5>1, BoundAttained DEF IInv, TypeOK, TypeDisk, Absent
      <4>2. size[f][name[f]] > b => ~(b >= size[f][name[f]])
        BY <4>1
      <4> QED BY <2>2, <4>2 DEF Strand, TruncateFile, Recorded
    <3>3. \A g \in File \ {f} : size'[g] = size[g] /\ psize'[g] = psize[g]
      BY <3>1, <3>2 DEF IInv, TypeOK, TypeDisk
    <3>4. f \notin unchecked /\ Recorded(f) # {} => size'[f][name[f]] = b /\ psize'[f][name[f]] = b
      <4>1. SUFFICES ASSUME f \notin unchecked, Recorded(f) # {}
                     PROVE  size'[f][name[f]] = b /\ psize'[f][name[f]] = b
        OBVIOUS
      <4>2. Recorded(f) \in SUBSET Article
        BY DEF Recorded, Of, IInv, TypeOK, TypeDatabase
      <4>3. PICK a \in Recorded(f) : End[a] = b
        BY <4>1, <4>2, BoundAttained
      <4>4. InPage(a) /\ FileOf[a] = f
        BY <1>1, <4>1, <4>3 DEF Recorded, Of, IInv, RunsAreOnPlatter, Vouched
      <4>5. b \in 0..MaxEnd /\ b > 0 /\ size[f][name[f]] \in Int /\ b <= size[f][name[f]]
        BY <3>1, <4>1, <4>2, <4>3, <4>4, BoundAttained DEF IInv, TypeOK, TypeDisk, Absent, InPage
      <4>6. CASE size[f][name[f]] > b
        BY <3>1, <3>2, <4>5, <4>6 DEF IInv, TypeOK, TypeDisk
      <4>7. CASE ~(size[f][name[f]] > b)
        BY <1>2, <3>2, <4>5, <4>7
      <4> QED BY <4>6, <4>7
    <3>5. \A g \in File : Recorded(g)' = Recorded(g)
      BY <1>1 DEF Recorded
    <3>6. complete \subseteq File
      BY DEF IInv, TypeOK, TypeProgress
    <3> QED BY <1>1, <1>3, <3>1, <3>3, <3>4, <3>5, <3>6 DEF Trimmed
  <2> QED BY <2>1, <2>2
<1> QED BY <1>1, <1>4, <1>5, DownFrame DEF IInv

\* The process comes up with the files as the sweep left them.
LEMMA StartedTrims ==
  ASSUME IInv, TrimInv, CompleteInv, Started
  PROVE  TrimInv'
<1> USE DEF progress, pipe, cache, report, disk, db, barrier, life
<1>1. /\ phase = "strand" /\ phase' = "up" /\ crashes # 0
      /\ UNCHANGED <<name, total, open, tomb, buf, written, reported, size, psize, runs, late, unchecked, complete,
                     fin, bpc, bfin, btodo, bfiles, bgot, crashes>>
  BY DEF Started, CompleteInv, SavedIsResolved
<1>2. OverIsTrimmed'
  BY <1>1 DEF TrimInv, OverIsTrimmed, Over, Trimmed, Recorded, Of
<1>3. FinalizeOnce' /\ SavedIsTrimmed'
  BY <1>1 DEF TrimInv, FinalizeOnce, SavedIsTrimmed
<1>4. FinalizeCuts'
  BY <1>1 DEF IInv, DownIsQuiet, BarrierInOrder, FinalizeCuts
<1> QED BY <1>2, <1>3, <1>4 DEF TrimInv

\* No step leaves a finalized file longer, or shorter, than its record.
LEMMA TrimStep ==
  ASSUME IInv, IInv', StrandInv, CompleteInv, TrimInv, NoRollback, crashes' <= 1, [Next]_vars
  PROVE  TrimInv'
<1>1. ASSUME \/ UNCHANGED vars
             \/ \E a \in Article : Emit(a) \/ RetryableFailure(a) \/ LateDuplicate(a)
      PROVE  TrimInv'
  <2> USE DEF progress, pipe, cache, report, disk, db, barrier, life
  <2>1. /\ UNCHANGED <<name, total, open, tomb, buf, written, reported, size, psize, runs, late, unchecked,
                       complete, fin, bpc, bfin, btodo, bfiles, bgot>>
        /\ UNCHANGED <<dbcomplete, phase, swept, crashes>>
    BY <1>1 DEF vars, Emit, RetryableFailure, LateDuplicate
  <2>2. OverIsTrimmed'
    BY <2>1 DEF TrimInv, OverIsTrimmed, Over, Trimmed, Recorded, Of
  <2>3. FinalizeOnce' /\ SavedIsTrimmed'
    BY <2>1 DEF TrimInv, FinalizeOnce, SavedIsTrimmed, Recorded
  <2>4. FinalizeCuts'
    BY <2>1 DEF TrimInv, FinalizeCuts, HasCut, HasSynced, Bound, Recorded
  <2> QED BY <2>2, <2>3, <2>4 DEF TrimInv
<1>2. CASE Fetching
  BY <1>1, <1>2, FetchTrims DEF Fetching
<1>3. CASE Assembling
  BY <1>1, <1>3, AcceptTrims, FetchTrims, FatalTrims DEF Assembling
<1>4. CASE Syncing
  <2>1. CASE Checkpoint \/ Advance \/ Commit \/ Ack \/ BarrierReturns
    BY <2>1, BeginTrims, AdvanceTrims, CommitTrims, StatTrims, ReturnTrims
  <2>2. CASE \E f \in File : Finalize(f) \/ Sync(f) \/ Truncate(f) \/ Stat(f)
    BY <2>2, BeginTrims, SyncTrims, TruncateTrims, StatTrims
  <2>3. CASE \E f \in File : Confirm(f) \/ Timeout(f) \/ Release(f)
    BY <2>3, StatTrims, TimeoutTrims, ReleaseTrims
  <2>4. CASE (\E f \in File, ok \in SUBSET Article : Drain(f, ok)) \/ \E ok \in SUBSET Article : LateOp(ok)
    BY <2>4, DrainTrims, LateOpTrims
  <2> QED BY <1>4, <2>1, <2>2, <2>3, <2>4 DEF Syncing
<1>5. CASE Completing
  BY <1>5, DeliverTrims DEF Completing
<1>6. CASE Restarting
  <2>1. CASE Crash \/ Hydrate \/ \E f \in File, p \in Path, n \in Absent..MaxEnd : Tamper(f, p, n)
    BY <2>1, CrashTrims, TamperTrims
  <2>2. CASE ResumeFault \/ ReplaceFromRuns \/ Started
    BY <2>2, SweepTrims, ReplaceTrims, StartedTrims
  <2>3. CASE \E f \in File : ResumeFile(f) \/ Strand(f) \/ StrandFault(f)
    BY <2>3, SweepTrims, StrandTrims
  <2> QED BY <1>6, <2>1, <2>2, <2>3 DEF Restarting
<1> QED BY <1>1, <1>2, <1>3, <1>4, <1>5, <1>6 DEF Next

\* A freshly ingested job has no finalized file.
LEMMA TrimInit == Init => TrimInv
<1> SUFFICES ASSUME Init PROVE TrimInv
  OBVIOUS
<1>1. OverIsTrimmed /\ FinalizeOnce
  BY DEF Init, NoOp, OverIsTrimmed, FinalizeOnce, Over
<1>2. FinalizeCuts /\ SavedIsTrimmed
  BY DEF Init, FinalizeCuts, SavedIsTrimmed
<1> QED BY <1>1, <1>2 DEF TrimInv

\* A Complete file ends, on the platter, where its last recorded article does:
\* no pre-allocated tail is shipped, and none comes back with a late fsync, a
\* late truncate, a later checkpoint or the first restart, even when a file was
\* cut short while the process was down.  The conditions are CompleteIsEarned's.
THEOREM CompleteIsCut ==
  ASSUME NoRollback PROVE Spec => [](crashes <= 1 => CompleteIsTrimmed)
<1>1. /\ IInv /\ IInv' /\ StrandInv /\ (crashes <= 1 => CompleteInv) /\ (crashes <= 1 => TrimInv)
      /\ [Next]_vars
      => (crashes <= 1 => TrimInv)'
  BY TrimStep, CrashesCount
<1>2. IInv /\ TrimInv => CompleteIsTrimmed
  <2> SUFFICES ASSUME IInv, TrimInv, Up, NEW f \in complete \ unchecked, Of(runs, f) # {}
               PROVE  psize[f][name[f]] = boundOver(Of(runs, f))
    BY DEF CompleteIsTrimmed
  <2>1. Trimmed(f)
    BY DEF TrimInv, OverIsTrimmed, Over, Up, IInv, TypeOK, TypeProgress
  <2> QED BY <2>1 DEF Trimmed, Recorded
<1> QED BY <1>1, <1>2, TrimInit, CompleteIsKept, ArticlesKeepTheirFates, InductiveInvariant, PTL DEF Spec

=============================================================================
