-------------------------- MODULE AssemblerProofs --------------------------
(***************************************************************************)
(* Proofs about FileWriter, for every finite set of articles and every     *)
(* assignment of offsets: each article is counted once, and the bytes of   *)
(* an article that anyone relies on are never overwritten.  Each operator  *)
(* of the writer's bookkeeping is shown to keep WriterInv; a step of the   *)
(* specification is a composition of them.                                 *)
(*                                                                         *)
(* Then about AssemblerLife, for any articles, files and channel length:   *)
(* what a removal and a retry may follow each other with in the channel.   *)
(***************************************************************************)
EXTENDS FileWriter, AssemblerLife, FiniteSetTheorems, TLAPS

\* Sets of articles are finite, and adding or removing changes their size as
\* it should.
LEMMA ArticleSets ==
  ASSUME NEW S \in SUBSET Article
  PROVE  /\ IsFiniteSet(S)
         /\ Cardinality(S) \in Nat
         /\ \A a \in Article : Cardinality(S \cup {a}) =
                                 IF a \in S THEN Cardinality(S)
                                 ELSE Cardinality(S) + 1
         /\ \A T \in SUBSET S :
              /\ Cardinality(S \ T) = Cardinality(S) - Cardinality(T)
              /\ Cardinality(T) \in Nat
<1>1. IsFiniteSet(S)
  BY WriterAssumption, FS_Subset
<1>2. Cardinality(S) \in Nat
  BY <1>1, FS_CardinalityType
<1>3. \A a \in Article : Cardinality(S \cup {a}) =
                           IF a \in S THEN Cardinality(S)
                           ELSE Cardinality(S) + 1
  BY <1>1, FS_AddElement
<1>4. ASSUME NEW T \in SUBSET S
      PROVE  /\ Cardinality(S \ T) = Cardinality(S) - Cardinality(T)
             /\ Cardinality(T) \in Nat
  <2>1. IsFiniteSet(T) /\ S \cap T = T
    BY <1>1, FS_Subset
  <2>2. Cardinality(T) \in Nat
    BY <2>1, FS_CardinalityType
  <2> QED BY <1>1, <2>1, <2>2, FS_Difference
<1> QED BY <1>1, <1>2, <1>3, <1>4

\* Nothing in the writer stands for a's bytes yet.
Clean(v, a) == /\ \A o \in Offset : v.buf[o] # a
               /\ ~Settled(v, a)

\* Bookkeeping only: u has v's offsets and bytes.
SameBytes(v, u) ==
  u.owner = v.owner /\ u.buf = v.buf /\ u.settled = v.settled

\* What is in the file for good in v is so in u.
Keeps(v, u) == \A b \in Article : Settled(v, b) => Settled(u, b)

\* Bookkeeping disturbs no article's bytes.
LEMMA SameKeeps ==
  ASSUME NEW v, NEW u, SameBytes(v, u)
  PROVE  Keeps(v, u) /\ \A a \in Article : Clean(v, a) => Clean(u, a)
BY DEF SameBytes, Keeps, Clean, Settled

\* An article the writer has not accepted is nowhere in it.
LEMMA UnseenIsClean ==
  ASSUME NEW v, WriterInv(v), NEW a \in Article, a \notin v.seenDone
  PROVE  Clean(v, a)
BY WriterAssumption DEF WriterInv, OwnersAgree, Clean, Settled, Writer

\* A newly accepted article is counted.
LEMMA AdmitAccepted ==
  ASSUME NEW v, WriterInv(v), NEW a \in Article, a \notin Seen(v)
  PROVE  /\ WriterInv(admitAccepted(v, a))
         /\ a \in admitAccepted(v, a).seenDone
         /\ SameBytes(v, admitAccepted(v, a))
<1> DEFINE u == admitAccepted(v, a)
<1>1. v \in Writer
  BY DEF WriterInv
<1>2. u \in Writer /\ Seen(u) = Seen(v) \cup {a} /\ u.parts = v.parts + 1
  <2>1. v.parts + 1 \in Nat /\ v.seenDone \cup {a} \in SUBSET Article
    BY <1>1 DEF Writer
  <2>2. u \in Writer
    BY <1>1, <2>1 DEF admitAccepted, Writer
  <2>3. /\ u.seenDone = v.seenDone \cup {a} /\ u.seenFailed = v.seenFailed
        /\ u.parts = v.parts + 1
    BY <1>1 DEF admitAccepted, Writer
  <2> QED BY <2>2, <2>3 DEF Seen
<1>3. Seen(v) \in SUBSET Article
  BY <1>1 DEF Seen, Writer
<1>4. u.parts = Cardinality(Seen(u))
  BY <1>2, <1>3, ArticleSets DEF WriterInv
<1>5. /\ u.owner = v.owner /\ u.buf = v.buf /\ u.settled = v.settled
      /\ u.file = v.file /\ u.written = v.written /\ u.reported = v.reported
      /\ u.seenDone = v.seenDone \cup {a}
  BY <1>1 DEF admitAccepted, Writer
<1> QED BY <1>2, <1>4, <1>5 DEF WriterInv, OwnersAgree, Settled, SameBytes

\* A retry of a failed article is counted already.
LEMMA AdmitRetry ==
  ASSUME NEW v, WriterInv(v), NEW a \in Article, a \in v.seenFailed
  PROVE  /\ WriterInv(admitRetryOfFailed(v, a))
         /\ a \in admitRetryOfFailed(v, a).seenDone
         /\ SameBytes(v, admitRetryOfFailed(v, a))
<1> DEFINE u == admitRetryOfFailed(v, a)
<1>1. v \in Writer
  BY DEF WriterInv
<1>2. u \in Writer /\ Seen(u) = Seen(v) /\ u.parts = v.parts
  BY <1>1 DEF admitRetryOfFailed, Writer, Seen
<1>3. /\ u.owner = v.owner /\ u.buf = v.buf /\ u.settled = v.settled
      /\ u.file = v.file /\ u.written = v.written /\ u.reported = v.reported
      /\ u.seenDone = v.seenDone \cup {a}
  BY <1>1 DEF admitRetryOfFailed, Writer
<1> QED BY <1>2, <1>3 DEF WriterInv, OwnersAgree, Settled, SameBytes

\* A permanent failure is counted unless the article was.
LEMMA AdmitFailure ==
  ASSUME NEW v, WriterInv(v), NEW a \in Article
  PROVE  /\ WriterInv(admitPermanentFailure(v, a))
         /\ SameBytes(v, admitPermanentFailure(v, a))
         /\ admitPermanentFailure(v, a).seenDone = v.seenDone
<1> DEFINE u == admitPermanentFailure(v, a)
<1>1. v \in Writer
  BY DEF WriterInv
<1>2. /\ u \in Writer /\ Seen(u) = Seen(v) \cup {a}
      /\ u.parts = IF a \in Seen(v) THEN v.parts ELSE v.parts + 1
  <2>1. /\ (IF a \in Seen(v) THEN v.parts ELSE v.parts + 1) \in Nat
        /\ v.seenFailed \cup {a} \in SUBSET Article
    BY <1>1 DEF Writer
  <2>2. u \in Writer
    BY <1>1, <2>1 DEF admitPermanentFailure, Writer
  <2>3. /\ u.seenDone = v.seenDone /\ u.seenFailed = v.seenFailed \cup {a}
        /\ u.parts = IF a \in Seen(v) THEN v.parts ELSE v.parts + 1
    BY <1>1 DEF admitPermanentFailure, Writer
  <2> QED BY <2>2, <2>3 DEF Seen
<1>3. Seen(v) \in SUBSET Article
  BY <1>1 DEF Seen, Writer
<1>4. u.parts = Cardinality(Seen(u))
  BY <1>2, <1>3, ArticleSets DEF WriterInv
<1>5. /\ u.owner = v.owner /\ u.buf = v.buf /\ u.settled = v.settled
      /\ u.file = v.file /\ u.written = v.written /\ u.reported = v.reported
      /\ u.seenDone = v.seenDone
  BY <1>1 DEF admitPermanentFailure, Writer
<1> QED BY <1>2, <1>4, <1>5 DEF WriterInv, OwnersAgree, Settled, SameBytes

\* A rejected article keeps its part and leaves nothing behind.
LEMMA FailPermanent ==
  ASSUME NEW v, WriterInv(v), NEW a \in v.seenDone, Clean(v, a)
  PROVE  /\ WriterInv(failPermanent(v, a))
         /\ SameBytes(v, failPermanent(v, a))
<1> DEFINE u == failPermanent(v, a)
<1>1. v \in Writer /\ a \in Article
  BY DEF WriterInv, Writer
<1>2. u \in Writer /\ Seen(u) = Seen(v) /\ u.parts = v.parts
  BY <1>1 DEF failPermanent, Writer, Seen
<1>3. /\ u.owner = v.owner /\ u.buf = v.buf /\ u.settled = v.settled
      /\ u.file = v.file /\ u.written = v.written /\ u.reported = v.reported
      /\ u.seenDone = v.seenDone \ {a}
  BY <1>1 DEF failPermanent, Writer
<1>4. OwnersAgree(u)
  BY <1>1, <1>3 DEF WriterInv, OwnersAgree, Clean, Settled
<1> QED BY <1>2, <1>3, <1>4 DEF WriterInv, Settled, SameBytes

\* Articles rolled back together give back exactly the parts they had.
LEMMA Fail ==
  ASSUME NEW v, WriterInv(v), NEW A \in SUBSET Article,
         \A a \in A : Clean(v, a)
  PROVE  WriterInv(fail(v, A)) /\ SameBytes(v, fail(v, A))
<1> DEFINE u == fail(v, A)
           T == (A \cap v.seenDone) \ v.seenFailed
<1>1. v \in Writer
  BY DEF WriterInv
<1>2. Seen(v) \in SUBSET Article /\ T \in SUBSET Seen(v)
  BY <1>1 DEF Seen, Writer
<1>3. u.parts = v.parts - Cardinality(T)
  BY <1>1 DEF fail, Writer
<1>4. /\ u.owner = v.owner /\ u.buf = v.buf /\ u.settled = v.settled
      /\ u.file = v.file /\ u.written = v.written /\ u.reported = v.reported
      /\ u.seenDone = v.seenDone \ A /\ u.seenFailed = v.seenFailed
      /\ u.rolled = v.rolled \cup A /\ u.displaced = v.displaced
  BY <1>1 DEF fail, Writer
<1>5. Seen(u) = Seen(v) \ T
  BY <1>4 DEF Seen
<1>6. u.parts = Cardinality(Seen(u)) /\ u.parts \in Nat
  <2>1. Cardinality(Seen(v) \ T) = Cardinality(Seen(v)) - Cardinality(T)
    BY <1>2, ArticleSets
  <2>2. Seen(u) \in SUBSET Article
    BY <1>2, <1>5
  <2> QED BY <1>3, <1>5, <2>1, <2>2, ArticleSets DEF WriterInv
<1>7. u \in Writer
  BY <1>1, <1>6 DEF fail, Writer
<1>8. OwnersAgree(u)
  BY <1>1, <1>4 DEF WriterInv, OwnersAgree, Clean, Settled, Writer
<1> QED BY <1>4, <1>6, <1>7, <1>8 DEF WriterInv, Settled, SameBytes

-----------------------------------------------------------------------------
(* Taking an offset, and the write cache *)

\* A displaced article stays counted, and nothing in the file moves.
LEMMA FailDisplaced ==
  ASSUME NEW v, WriterInv(v), NEW a \in Article
  PROVE  /\ WriterInv(failDisplaced(v, a))
         /\ SameBytes(v, failDisplaced(v, a))
         /\ failDisplaced(v, a).seenDone = v.seenDone
<1> DEFINE u == admitPermanentFailure(v, a)
           r == failDisplaced(v, a)
<1>1. WriterInv(u) /\ SameBytes(v, u) /\ u.seenDone = v.seenDone
  BY AdmitFailure
<1> HIDE DEF u
<1>2. r = [u EXCEPT !.displaced = u.displaced \cup {a}]
  BY DEF failDisplaced, u
<1>3. u \in Writer
  BY <1>1 DEF WriterInv
<1>4. r \in Writer
  BY <1>2, <1>3 DEF Writer
<1>5. /\ r.owner = u.owner /\ r.buf = u.buf /\ r.settled = u.settled
      /\ r.file = u.file /\ r.written = u.written /\ r.reported = u.reported
      /\ r.seenDone = u.seenDone /\ r.seenFailed = u.seenFailed
      /\ r.parts = u.parts
  BY <1>2, <1>3 DEF Writer
<1> HIDE DEF r
<1>6. WriterInv(r)
  BY <1>1, <1>4, <1>5 DEF WriterInv, OwnersAgree, Settled, Seen
<1>7. SameBytes(v, r) /\ r.seenDone = v.seenDone
  BY <1>1, <1>5 DEF SameBytes
<1> QED BY <1>6, <1>7 DEF r

\* An accepted article takes an offset that nobody's bytes are settled at.
LEMMA AcceptTakes ==
  ASSUME NEW v, WriterInv(v), NEW a \in Article, a \in v.seenDone,
         Clean(v, a), ~offsetSettledBy(v, a)
  PROVE  WriterInv(Accept(v, a)) /\ Keeps(v, Accept(v, a))
<1> DEFINE o == Off[a]
           x == v.owner[o]
           u == IF x \in {NoArticle, a} THEN v ELSE failDisplaced(v, x)
           r == Accept(v, a)
<1>1. v \in Writer /\ o \in Offset /\ x \in Article \cup {NoArticle}
  BY WriterAssumption DEF WriterInv, Writer
<1>2. o \notin v.settled
  BY <1>1 DEF WriterInv, OwnersAgree, Clean, Settled, offsetSettledBy
<1>3. WriterInv(u) /\ SameBytes(v, u) /\ u.seenDone = v.seenDone
  BY <1>1, FailDisplaced DEF SameBytes
<1> HIDE DEF u
<1>4. u \in Writer /\ o \notin u.settled
  BY <1>2, <1>3 DEF WriterInv, SameBytes
<1>5. r = [u EXCEPT !.owner = [u.owner EXCEPT ![o] = a],
                    !.settled = IF x = a THEN u.settled ELSE u.settled \ {o},
                    !.buf = [u.buf EXCEPT ![o] = a]]
  BY DEF Accept, u
<1>6. /\ r.owner = [u.owner EXCEPT ![o] = a]
      /\ r.settled = u.settled
      /\ r.buf = [u.buf EXCEPT ![o] = a]
      /\ r.file = u.file /\ r.written = u.written /\ r.reported = u.reported
      /\ r.seenDone = u.seenDone /\ r.seenFailed = u.seenFailed
      /\ r.parts = u.parts /\ r \in Writer
  <2>1. (IF x = a THEN u.settled ELSE u.settled \ {o}) = u.settled
    BY <1>4
  <2>2. r = [u EXCEPT !.owner = [u.owner EXCEPT ![o] = a],
                      !.settled = u.settled,
                      !.buf = [u.buf EXCEPT ![o] = a]]
    BY <1>5, <2>1
  <2>3. /\ [u.owner EXCEPT ![o] = a] \in [Offset -> Article \cup {NoArticle}]
        /\ [u.buf EXCEPT ![o] = a] \in [Offset -> Article \cup {NoArticle}]
    BY <1>1, <1>4 DEF Writer
  <2> HIDE DEF r
  <2>4. r \in Writer
    BY <1>4, <2>2, <2>3 DEF Writer
  <2> QED BY <1>4, <2>2, <2>4 DEF Writer
<1> HIDE DEF r
<1>7. \A p \in Offset : /\ r.owner[p] = IF p = o THEN a ELSE u.owner[p]
                        /\ r.buf[p] = IF p = o THEN a ELSE u.buf[p]
  BY <1>1, <1>4, <1>6 DEF Writer
<1>8. OwnersAgree(r)
  BY <1>1, <1>3, <1>4, <1>6, <1>7 DEF WriterInv, OwnersAgree
<1>9. Keeps(u, r)
  BY <1>4, <1>6, <1>7, WriterAssumption DEF Keeps, Settled
<1>10. r.parts = Cardinality(Seen(r))
  BY <1>3, <1>6 DEF WriterInv, Seen
<1>11. \A b \in r.written \cup r.reported : Settled(r, b)
  BY <1>3, <1>4, <1>6, <1>9 DEF WriterInv, Keeps, Writer
<1>12. Keeps(v, r)
  BY <1>3, <1>9, SameKeeps DEF Keeps
<1> QED BY <1>6, <1>8, <1>10, <1>11, <1>12 DEF WriterInv, r

\* What is taken from the cache owns its offset, which is not settled.
LEMMA TakenOwn ==
  ASSUME NEW v, WriterInv(v), NEW O \in SUBSET Offset,
         NEW a \in At(v, O)
  PROVE  /\ a \in Article /\ a \in v.seenDone
         /\ Off[a] \in O /\ v.owner[Off[a]] = a /\ Off[a] \notin v.settled
<1>1. PICK o \in O : o \in Buffered(v) /\ a = v.buf[o]
  BY DEF At
<1>2. v.buf[o] \in Article
  BY <1>1 DEF WriterInv, Writer, Buffered
<1>3. v.owner[o] = a /\ o \notin v.settled /\ a \in v.seenDone
  BY <1>1 DEF WriterInv, OwnersAgree, Buffered
<1>4. Off[a] = o
  BY <1>1, <1>2, <1>3, WriterAssumption DEF WriterInv, OwnersAgree
<1> QED BY <1>1, <1>2, <1>3, <1>4

\* Emptying part of the cache changes nothing else.
LEMMA Taken ==
  ASSUME NEW v, WriterInv(v), NEW O \in SUBSET Offset
  PROVE  /\ WriterInv(taken(v, O))
         /\ taken(v, O).owner = v.owner
         /\ taken(v, O).settled = v.settled
         /\ taken(v, O).seenDone = v.seenDone
         /\ \A o \in Offset : taken(v, O).buf[o] = IF o \in O THEN NoArticle
                                                  ELSE v.buf[o]
<1> DEFINE b == [o \in Offset |-> IF o \in O THEN NoArticle ELSE v.buf[o]]
           u == taken(v, O)
<1>1. v \in Writer
  BY DEF WriterInv
<1>2. b \in [Offset -> Article \cup {NoArticle}]
  BY <1>1 DEF Writer
<1>3. \A o \in Offset : b[o] = IF o \in O THEN NoArticle ELSE v.buf[o]
  OBVIOUS
<1>4. u = [v EXCEPT !.buf = b]
  BY DEF taken
<1> HIDE DEF b, u
<1>5. /\ u \in Writer /\ u.buf = b
      /\ u.owner = v.owner /\ u.settled = v.settled
      /\ u.file = v.file /\ u.written = v.written /\ u.reported = v.reported
      /\ u.seenDone = v.seenDone /\ u.seenFailed = v.seenFailed
      /\ u.parts = v.parts
  BY <1>1, <1>2, <1>4 DEF Writer
<1>6. OwnersAgree(u)
  BY <1>3, <1>5 DEF WriterInv, OwnersAgree
<1>7. WriterInv(u)
  BY <1>5, <1>6 DEF WriterInv, Seen, Settled
<1> QED BY <1>3, <1>5, <1>7 DEF u

\* Articles that own their offsets and left the cache may be noted written.
LEMMA NoteWritten ==
  ASSUME NEW v, WriterInv(v), NEW A \in SUBSET Article, A \subseteq v.seenDone,
         \A a \in A : v.owner[Off[a]] = a /\ v.buf[Off[a]] = NoArticle
  PROVE  /\ WriterInv(noteWritten(v, A))
         /\ Keeps(v, noteWritten(v, A))
         /\ noteWritten(v, A).buf = v.buf
         /\ noteWritten(v, A).owner = v.owner
         /\ noteWritten(v, A).settled =
              v.settled \cup {o \in Offset : v.owner[o] \in A}
<1> DEFINE f == [o \in Offset |-> IF v.owner[o] \in A THEN v.owner[o]
                                  ELSE v.file[o]]
           N == {o \in Offset : v.owner[o] \in A}
           u == noteWritten(v, A)
<1>1. v \in Writer
  BY DEF WriterInv
<1>2. f \in [Offset -> Article \cup {NoArticle}] /\ N \in SUBSET Offset
  BY <1>1 DEF Writer
<1>3. \A o \in Offset : f[o] = IF o \in N THEN v.owner[o] ELSE v.file[o]
  OBVIOUS
<1>4. u = [v EXCEPT !.written = v.written \cup A,
                    !.settled = v.settled \cup N, !.file = f]
  BY DEF noteWritten
<1>5. \A o \in N : /\ o \in Offset /\ v.owner[o] \in A
                   /\ v.buf[o] = NoArticle
  BY <1>1, WriterAssumption DEF WriterInv, OwnersAgree
<1>6. \A a \in A : Off[a] \in N
  BY WriterAssumption
<1> HIDE DEF f, N, u
<1>7. /\ u \in Writer /\ u.buf = v.buf /\ u.owner = v.owner
      /\ u.settled = v.settled \cup N
      /\ u.file = f /\ u.written = v.written \cup A /\ u.reported = v.reported
      /\ u.seenDone = v.seenDone /\ u.seenFailed = v.seenFailed
      /\ u.parts = v.parts
  BY <1>1, <1>2, <1>4 DEF Writer
<1>8. OwnersAgree(u)
  BY <1>3, <1>5, <1>7, WriterAssumption DEF WriterInv, OwnersAgree
<1>9. Keeps(v, u)
  BY <1>7 DEF Keeps, Settled
<1>10. \A a \in u.written \cup u.reported : Settled(u, a)
  BY <1>6, <1>7 DEF WriterInv, Settled
<1>11. WriterInv(u)
  BY <1>7, <1>8, <1>10 DEF WriterInv, Seen
<1> QED BY <1>7, <1>9, <1>11 DEF u, N

\* A failed write tears only offsets nobody's bytes are settled at.
LEMMA Torn ==
  ASSUME NEW v, WriterInv(v), NEW O \in SUBSET Offset, O \cap v.settled = {}
  PROVE  /\ WriterInv(torn(v, O))
         /\ SameBytes(v, torn(v, O))
<1> DEFINE f == [o \in Offset |-> IF o \in O THEN NoArticle ELSE v.file[o]]
           u == torn(v, O)
<1>1. v \in Writer
  BY DEF WriterInv
<1>2. f \in [Offset -> Article \cup {NoArticle}]
  BY <1>1 DEF Writer
<1>3. \A o \in Offset : f[o] = IF o \in O THEN NoArticle ELSE v.file[o]
  OBVIOUS
<1>4. u = [v EXCEPT !.file = f]
  BY DEF torn
<1> HIDE DEF f, u
<1>5. /\ u \in Writer /\ u.buf = v.buf /\ u.owner = v.owner
      /\ u.settled = v.settled /\ u.file = f
      /\ u.written = v.written /\ u.reported = v.reported
      /\ u.seenDone = v.seenDone /\ u.seenFailed = v.seenFailed
      /\ u.parts = v.parts
  BY <1>1, <1>2, <1>4 DEF Writer
<1>6. OwnersAgree(u)
  BY <1>3, <1>5 DEF WriterInv, OwnersAgree
<1> QED BY <1>5, <1>6 DEF WriterInv, Seen, Settled, SameBytes, u

-----------------------------------------------------------------------------
(* Flushes *)

\* A run that is written settles the offsets it was buffered at.
LEMMA FlushRun ==
  ASSUME NEW v, WriterInv(v), NEW O \in SUBSET Offset
  PROVE  WriterInv(flushRun(v, O)) /\ Keeps(v, flushRun(v, O))
<1> DEFINE u == taken(v, O)
           A == At(v, O)
<1>1. /\ WriterInv(u) /\ u.owner = v.owner /\ u.settled = v.settled
      /\ u.seenDone = v.seenDone
      /\ \A o \in Offset : u.buf[o] = IF o \in O THEN NoArticle ELSE v.buf[o]
  BY Taken
<1>2. \A a \in A : /\ a \in Article /\ a \in v.seenDone
                   /\ Off[a] \in O /\ v.owner[Off[a]] = a
  BY TakenOwn
<1> HIDE DEF u, A
<1>3. /\ WriterInv(noteWritten(u, A)) /\ Keeps(u, noteWritten(u, A))
  BY <1>1, <1>2, NoteWritten
<1>4. Keeps(v, noteWritten(u, A))
  BY <1>1, <1>3 DEF Keeps, Settled
<1> QED BY <1>3, <1>4 DEF flushRun, u, A

\* A run that is not written rolls its articles back, and settles nothing.
LEMMA FlushFault ==
  ASSUME NEW v, WriterInv(v), NEW O \in SUBSET Offset, O \subseteq Buffered(v)
  PROVE  WriterInv(flushFault(v, O)) /\ Keeps(v, flushFault(v, O))
<1> DEFINE t == taken(v, O)
           A == At(v, O)
           u == fail(t, A)
<1>1. /\ WriterInv(t) /\ t.owner = v.owner /\ t.settled = v.settled
      /\ \A o \in Offset : t.buf[o] = IF o \in O THEN NoArticle ELSE v.buf[o]
  BY Taken
<1>2. \A a \in A : /\ a \in Article
                   /\ Off[a] \in O /\ v.owner[Off[a]] = a
                   /\ Off[a] \notin v.settled
  BY TakenOwn
<1>3. \A o \in O : o \notin v.settled
  BY DEF Buffered, WriterInv, OwnersAgree
<1> HIDE DEF t, A, u
<1>4. \A a \in A : Clean(t, a)
  <2> SUFFICES ASSUME NEW a \in A PROVE Clean(t, a)
    OBVIOUS
  <2>1. ~Settled(t, a)
    BY <1>1, <1>2 DEF Settled
  <2>2. ASSUME NEW o \in Offset, t.buf[o] = a PROVE FALSE
    <3>1. o \notin O /\ v.buf[o] = a
      BY <1>1, <1>2, <2>2, WriterAssumption
    <3>2. v.owner[o] = a
      BY <1>2, <3>1, WriterAssumption DEF WriterInv, OwnersAgree
    <3>3. Off[a] = o
      BY <1>2, <3>2, WriterAssumption DEF WriterInv, OwnersAgree
    <3> QED BY <1>2, <3>1, <3>3
  <2> QED BY <2>1, <2>2 DEF Clean
<1>5. WriterInv(u) /\ SameBytes(t, u)
  BY <1>1, <1>2, <1>4, Fail DEF u
<1>6. WriterInv(torn(u, O)) /\ SameBytes(u, torn(u, O))
  <2>1. O \cap u.settled = {}
    BY <1>1, <1>3, <1>5 DEF SameBytes
  <2> QED BY <1>5, <2>1, Torn
<1>7. Keeps(v, torn(u, O))
  BY <1>1, <1>5, <1>6 DEF Keeps, Settled, SameBytes
<1> QED BY <1>6, <1>7 DEF flushFault, t, A, u

\* The drain's loop: what is before the first failure is written, the rest is
\* rolled back.
LEMMA FlushUpTo ==
  ASSUME NEW v, WriterInv(v), NEW n \in Buffered(v) \cup {NoFault}
  PROVE  WriterInv(flushUpTo(v, n)) /\ Keeps(v, flushUpTo(v, n))
<1> DEFINE good == {o \in Buffered(v) : o < n}
           bad == Buffered(v) \ good
           t == taken(v, Offset)
           G == At(v, good)
           B == At(v, bad)
           m == noteWritten(t, G)
           u == fail(m, B)
           O == {n} \cap Offset
<1>1. /\ WriterInv(t) /\ t.owner = v.owner /\ t.settled = v.settled
      /\ t.seenDone = v.seenDone
      /\ \A o \in Offset : t.buf[o] = NoArticle
  BY Taken
<1>2. good \in SUBSET Offset /\ bad \in SUBSET Offset
  BY DEF Buffered
<1>3. \A a \in G : /\ a \in Article /\ a \in v.seenDone
                   /\ Off[a] \in good /\ v.owner[Off[a]] = a
  BY <1>2, TakenOwn
<1>4. \A a \in B : /\ a \in Article
                   /\ Off[a] \in bad /\ v.owner[Off[a]] = a
                   /\ Off[a] \notin v.settled
  BY <1>2, TakenOwn
<1>5. \A o \in O : o \in Offset /\ o \notin good /\ o \in Buffered(v)
  BY WriterAssumption DEF Offset, NoFault
<1>6. \A o \in O : o \notin v.settled
  BY <1>5 DEF Buffered, WriterInv, OwnersAgree
<1>7. good \cap bad = {}
  OBVIOUS
<1>8. O \in SUBSET Offset
  OBVIOUS
<1> HIDE DEF good, bad, t, G, B, m, u, O
<1>9. /\ WriterInv(m) /\ Keeps(t, m) /\ m.buf = t.buf /\ m.owner = t.owner
      /\ m.settled = t.settled \cup {o \in Offset : t.owner[o] \in G}
  <2>1. \A a \in G : t.owner[Off[a]] = a /\ t.buf[Off[a]] = NoArticle
    BY <1>1, <1>3, WriterAssumption
  <2>2. G \in SUBSET Article /\ G \subseteq t.seenDone
    BY <1>1, <1>3
  <2> QED BY <1>1, <2>1, <2>2, NoteWritten DEF m
<1>10. \A o \in Offset : t.owner[o] \in G => o \in good
  BY <1>1, <1>3, WriterAssumption DEF WriterInv, OwnersAgree
<1>11. \A a \in B : Clean(m, a)
  <2> SUFFICES ASSUME NEW a \in B PROVE Clean(m, a)
    OBVIOUS
  <2>1. Off[a] \notin m.settled
    BY <1>1, <1>4, <1>7, <1>9, <1>10
  <2>2. \A o \in Offset : m.buf[o] # a
    BY <1>1, <1>4, <1>9, WriterAssumption
  <2> QED BY <2>1, <2>2 DEF Clean, Settled
<1>12. WriterInv(u) /\ SameBytes(m, u)
  BY <1>4, <1>9, <1>11, Fail DEF u
<1>13. WriterInv(torn(u, O)) /\ SameBytes(u, torn(u, O))
  <2>1. O \cap u.settled = {}
    BY <1>1, <1>5, <1>6, <1>9, <1>10, <1>12 DEF SameBytes
  <2> QED BY <1>8, <1>12, <2>1, Torn
<1>14. Keeps(v, torn(u, O))
  BY <1>1, <1>9, <1>12, <1>13 DEF Keeps, Settled, SameBytes
<1>15. flushUpTo(v, n) = torn(u, O)
  BY DEF flushUpTo, good, bad, t, G, B, m, u, O
<1> QED BY <1>13, <1>14, <1>15

-----------------------------------------------------------------------------
(* Requests *)

\* However acceptArticle ends, the writer is consistent.
LEMMA AcceptArticle ==
  ASSUME NEW v, WriterInv(v), NEW a \in Article, a \in v.seenDone,
         Clean(v, a), NEW r \in acceptArticle(v, a)
  PROVE  WriterInv(r.w) /\ Keeps(v, r.w)
<1> DEFINE u == Accept(v, a)
<1>1. CASE a \in OutOfRange \/ offsetSettledBy(v, a)
  <2>1. r.w = failPermanent(v, a)
    BY <1>1 DEF acceptArticle
  <2> QED BY <2>1, FailPermanent, SameKeeps
<1>2. CASE ~(a \in OutOfRange \/ offsetSettledBy(v, a))
  <2>1. WriterInv(u) /\ Keeps(v, u)
    BY <1>2, AcceptTakes
  <2>2. \A O \in Runs(u, a) : O \in SUBSET Offset /\ O \subseteq Buffered(u)
    BY DEF Runs, Buffered
  <2> HIDE DEF u
  <2>3. \/ r.w = u
        \/ \E O \in Runs(u, a) : r.w = flushRun(u, O)
        \/ \E O \in Runs(u, a) : r.w = flushFault(u, O)
    BY <1>2 DEF acceptArticle, u
  <2>4. WriterInv(r.w) /\ Keeps(u, r.w)
    BY <2>1, <2>2, <2>3, FlushRun, FlushFault DEF Keeps
  <2> QED BY <2>1, <2>4 DEF Keeps
<1> QED BY <1>1, <1>2

\* So is it after the cache was relieved.
LEMMA Pressure ==
  ASSUME NEW v, WriterInv(v), NEW p \in pressure(v)
  PROVE  WriterInv(p.w) /\ Keeps(v, p.w)
<1>1. \/ p.w = v
      \/ \E n \in Buffered(v) \cup {NoFault} : p.w = flushUpTo(v, n)
  BY DEF pressure
<1> QED BY <1>1, FlushUpTo DEF Keeps

\* What a request leaves of the invariant after the writer reached v.
StepInv ==
  /\ done' \subseteq Article /\ failed' \subseteq Article
  /\ emitted' \subseteq Article
  /\ WriterInv(w')
  /\ w'.rolled = {} /\ w'.displaced = {}
  /\ \A a \in done' \ failed' : Settled(w', a)

\* Routing fails articles and returns others, and acknowledges none.
LEMMA RouteStep ==
  ASSUME IInv, NEW v, WriterInv(v), Keeps(w, v),
         NEW R \in SUBSET Article, Route(v, R)
  PROVE  StepInv
<1>1. v \in Writer /\ w' = [v EXCEPT !.rolled = {}, !.displaced = {}]
  BY DEF WriterInv, Route
<1>2. /\ w' \in Writer /\ w'.rolled = {} /\ w'.displaced = {}
      /\ w'.buf = v.buf /\ w'.owner = v.owner /\ w'.settled = v.settled
      /\ w'.file = v.file /\ w'.written = v.written
      /\ w'.reported = v.reported /\ w'.seenDone = v.seenDone
      /\ w'.seenFailed = v.seenFailed /\ w'.parts = v.parts
  BY <1>1 DEF Writer
<1>3. WriterInv(w')
  BY <1>2 DEF WriterInv, OwnersAgree, Settled, Seen
<1>4. /\ done' \subseteq Article /\ failed' \subseteq Article
      /\ emitted' \subseteq Article /\ done' \ failed' \subseteq done \ failed
  <2>1. v.displaced \subseteq Article /\ v.rolled \subseteq Article
    BY <1>1 DEF Writer
  <2> QED BY <2>1 DEF Route, IInv, TypeOK
<1>5. \A a \in done' \ failed' : Settled(w', a)
  <2>1. \A a \in done \ failed : Settled(v, a)
    BY DEF IInv, TypeOK, Keeps
  <2> QED BY <1>2, <1>4, <2>1 DEF Settled
<1> QED BY <1>2, <1>3, <1>4, <1>5 DEF StepInv

\* The end of a request keeps what its beginning established.
LEMMA FinishStep ==
  ASSUME IInv, NEW v, WriterInv(v), Keeps(w, v),
         NEW R \in SUBSET Article, NEW admitted, NEW spent \in {0, 1},
         Finish(v, R, admitted, spent)
  PROVE  StepInv /\ tomb' \in BOOLEAN /\ faults' \in Nat
<1>1. PICK p \in IF admitted THEN pressure(v) ELSE {[w |-> v, n |-> NoFault]} :
        /\ Spend(spent + IF p.n = NoFault THEN 0 ELSE 1)
        /\ Route(p.w, R)
        /\ CompleteOn(admitted)
  BY DEF Finish
<1>2. WriterInv(p.w) /\ Keeps(v, p.w)
  <2>1. p \in pressure(v) \/ p.w = v
    BY <1>1
  <2> QED BY <2>1, Pressure DEF Keeps
<1>3. Keeps(w, p.w)
  BY <1>2 DEF Keeps
<1>4. StepInv
  BY <1>1, <1>2, <1>3, RouteStep
<1>5. tomb' \in BOOLEAN
  BY <1>1, Zenon DEF CompleteOn
<1>6. faults' \in Nat
  <2>1. spent + (IF p.n = NoFault THEN 0 ELSE 1) \in Nat
    OBVIOUS
  <2>2. faults' = faults + (spent + IF p.n = NoFault THEN 0 ELSE 1)
    BY <1>1 DEF Spend
  <2> QED BY <2>1, <2>2 DEF IInv, TypeOK
<1> QED BY <1>4, <1>5, <1>6

-----------------------------------------------------------------------------
(* Steps *)

\* The first state satisfies the invariant.
LEMMA InitInv == Init => IInv
<1> SUFFICES ASSUME Init PROVE IInv
  OBVIOUS
<1>1. w \in Writer
  BY DEF Init, newFileWriter, Writer
<1>2. w.parts = Cardinality(Seen(w))
  BY FS_EmptySet DEF Init, newFileWriter, Seen
<1>3. OwnersAgree(w)
  BY DEF Init, newFileWriter, OwnersAgree
<1>4. \A a \in w.written \cup w.reported : Settled(w, a)
  BY DEF Init, newFileWriter
<1> QED BY <1>1, <1>2, <1>3, <1>4
        DEF Init, IInv, TypeOK, WriterInv, newFileWriter

\* An article's data: accepted, retried, rejected or rolled back.
LEMMA SuccessStep ==
  ASSUME IInv, NEW a \in Article, Success(a)
  PROVE  IInv'
<1> DEFINE retry == a \in w.seenFailed
           v == IF retry THEN admitRetryOfFailed(w, a) ELSE admitAccepted(w, a)
<1>1. WriterInv(w) /\ a \notin w.seenDone
  BY DEF IInv, Success
<1>2. Clean(w, a)
  BY <1>1, UnseenIsClean
<1>3. WriterInv(v) /\ a \in v.seenDone /\ SameBytes(w, v)
  <2>1. CASE retry
    BY <1>1, <2>1, AdmitRetry
  <2>2. CASE ~retry
    <3>1. a \notin Seen(w)
      BY <1>1, <2>2 DEF Seen
    <3> QED BY <1>1, <2>2, <3>1, AdmitAccepted
  <2> QED BY <2>1, <2>2
<1>4. Keeps(w, v) /\ Clean(v, a)
  BY <1>2, <1>3, SameKeeps
<1>5. PICK r \in acceptArticle(v, a) :
        Finish(r.w, IF r.is = "rejected" THEN {a} ELSE {},
               ~retry /\ r.is # "fault", IF r.is = "fault" THEN 1 ELSE 0)
  BY DEF Success
<1> HIDE DEF v, retry
<1>6. WriterInv(r.w) /\ Keeps(v, r.w)
  BY <1>3, <1>4, <1>5, AcceptArticle
<1>7. StepInv /\ tomb' \in BOOLEAN /\ faults' \in Nat
  <2>1. Keeps(w, r.w)
    BY <1>4, <1>6 DEF Keeps
  <2>2. (IF r.is = "rejected" THEN {a} ELSE {}) \in SUBSET Article
    OBVIOUS
  <2>3. (IF r.is = "fault" THEN 1 ELSE 0) \in {0, 1}
    OBVIOUS
  <2> QED BY <1>5, <1>6, <2>1, <2>2, <2>3, FinishStep
<1> QED BY <1>7 DEF Success, IInv, TypeOK, StepInv, WriterInv

\* An article's permanent failure.
LEMMA FatalStep ==
  ASSUME IInv, NEW a \in Article, Fatal(a)
  PROVE  IInv'
<1> DEFINE v == admitPermanentFailure(w, a)
<1>1. WriterInv(v) /\ Keeps(w, v)
  BY AdmitFailure, SameKeeps DEF IInv
<1>2. Finish(v, {}, a \notin Seen(w), 0)
  BY DEF Fatal
<1> HIDE DEF v
<1>3. StepInv /\ tomb' \in BOOLEAN /\ faults' \in Nat
  BY <1>1, <1>2, FinishStep
<1> QED BY <1>3 DEF Fatal, IInv, TypeOK, StepInv, WriterInv

\* An article that arrives after the file completed.
LEMMA LateDuplicateStep ==
  ASSUME IInv, NEW a \in Article, LateDuplicate(a)
  PROVE  IInv'
<1> DEFINE R == IF open /\ a \notin Seen(w) THEN {a} ELSE {}
<1>1. WriterInv(w) /\ Keeps(w, w) /\ R \in SUBSET Article /\ Route(w, R)
  BY DEF IInv, Keeps, LateDuplicate
<1>2. StepInv
  BY <1>1, RouteStep
<1> QED BY <1>2 DEF LateDuplicate, IInv, TypeOK, StepInv, WriterInv

\* The cache is relieved on behalf of another file.
LEMMA EvictStep ==
  ASSUME IInv, NEW n \in 1..NoFault, Evict(n)
  PROVE  IInv'
<1>1. WriterInv(flushUpTo(w, n)) /\ Keeps(w, flushUpTo(w, n))
  BY FlushUpTo DEF IInv, Evict
<1>2. StepInv
  BY <1>1, RouteStep DEF Evict
<1>3. faults' \in Nat
  BY DEF Evict, Spend, IInv, TypeOK
<1> QED BY <1>2, <1>3 DEF Evict, IInv, TypeOK, StepInv, WriterInv

\* The barrier's drain.
LEMMA DrainStep ==
  ASSUME IInv, NEW n \in 1..NoFault, Drain(n)
  PROVE  IInv'
<1> DEFINE v == flushUpTo(w, n)
           u == [v EXCEPT !.reported = v.reported \cup v.written,
                          !.written = {}]
<1>1. WriterInv(v) /\ Keeps(w, v)
  BY FlushUpTo DEF IInv, Drain
<1>2. Route(u, {})
  BY DEF Drain
<1> HIDE DEF v
<1>3. v \in Writer
  BY <1>1 DEF WriterInv
<1>4. /\ u \in Writer /\ u.buf = v.buf /\ u.owner = v.owner
      /\ u.settled = v.settled /\ u.file = v.file
      /\ u.written = {} /\ u.reported = v.reported \cup v.written
      /\ u.seenDone = v.seenDone /\ u.seenFailed = v.seenFailed
      /\ u.parts = v.parts
  BY <1>3 DEF Writer
<1> HIDE DEF u
<1>5. WriterInv(u) /\ Keeps(w, u)
  BY <1>1, <1>4 DEF WriterInv, OwnersAgree, Settled, Seen, Keeps
<1>6. StepInv
  BY <1>2, <1>5, RouteStep
<1>7. faults' \in Nat /\ drained' \in BOOLEAN
  BY DEF Drain, Spend, IInv, TypeOK
<1> QED BY <1>6, <1>7 DEF Drain, IInv, TypeOK, StepInv, WriterInv

\* What the barrier acknowledges is settled.
LEMMA AckStep ==
  ASSUME IInv, Ack
  PROVE  IInv'
<1>1. w \in Writer /\ w' = [w EXCEPT !.reported = {}]
  BY DEF IInv, WriterInv, Ack
<1>2. /\ w' \in Writer /\ w'.buf = w.buf /\ w'.owner = w.owner
      /\ w'.settled = w.settled /\ w'.file = w.file
      /\ w'.written = w.written /\ w'.reported = {}
      /\ w'.seenDone = w.seenDone /\ w'.seenFailed = w.seenFailed
      /\ w'.parts = w.parts
      /\ w'.rolled = w.rolled /\ w'.displaced = w.displaced
  BY <1>1 DEF Writer
<1>3. WriterInv(w')
  BY <1>2 DEF IInv, WriterInv, OwnersAgree, Settled, Seen
<1>4. \A a \in done' \ failed' : Settled(w', a)
  BY <1>2 DEF Ack, IInv, WriterInv, Settled
<1>5. done' \subseteq Article /\ emitted' \subseteq Article
  BY <1>1 DEF Ack, IInv, TypeOK, Writer
<1> QED BY <1>2, <1>3, <1>4, <1>5 DEF Ack, IInv, TypeOK

\* The steps that leave the writer alone, stuttering included.
LEMMA QueueStep ==
  ASSUME IInv, UNCHANGED w,
         \/ \E a \in Article : Duplicate(a) \/ Emit(a) \/ FetchFails(a)
         \/ Close \/ MarkFileComplete
         \/ \E p \in BOOLEAN : Reload(p)
         \/ UNCHANGED vars
  PROVE  IInv'
<1>1. \A a \in done \ failed : Settled(w, a)
  BY DEF IInv
<1>2. WriterInv(w') /\ w' \in Writer /\ w'.rolled = {} /\ w'.displaced = {}
  BY DEF IInv, WriterInv
<1>3. /\ TypeOK'
      /\ done' \ failed' \subseteq done \ failed
  <2>1. CASE \E a \in Article : Duplicate(a)
    BY <1>2, <2>1 DEF Duplicate, queue, IInv, TypeOK
  <2>2. CASE \E a \in Article : Emit(a)
    BY <1>2, <2>2 DEF Emit, IInv, TypeOK
  <2>3. CASE \E a \in Article : FetchFails(a)
    BY <1>2, <2>3 DEF FetchFails, IInv, TypeOK
  <2>4. CASE Close
    BY <1>2, <2>4 DEF Close, queue, IInv, TypeOK
  <2>5. CASE MarkFileComplete
    BY <1>2, <2>5 DEF MarkFileComplete, IInv, TypeOK
  <2>6. CASE \E p \in BOOLEAN : Reload(p)
    BY <1>2, <2>6 DEF Reload, IInv, TypeOK
  <2>7. CASE UNCHANGED vars
    BY <1>2, <2>7 DEF vars, queue, IInv, TypeOK
  <2> QED BY <2>1, <2>2, <2>3, <2>4, <2>5, <2>6, <2>7
<1>4. \A a \in done' \ failed' : Settled(w', a)
  BY <1>1, <1>3 DEF Settled
<1> QED BY <1>2, <1>3, <1>4 DEF IInv

\* Every step keeps the invariant.
LEMMA NextInv == IInv /\ [Next]_vars => IInv'
<1> SUFFICES ASSUME IInv, [Next]_vars PROVE IInv'
  OBVIOUS
<1>1. ASSUME NEW a \in Article, Duplicate(a) PROVE IInv'
  BY <1>1, QueueStep DEF Duplicate
<1>2. ASSUME NEW a \in Article, Success(a) PROVE IInv'
  BY <1>2, SuccessStep
<1>3. ASSUME NEW a \in Article, Fatal(a) PROVE IInv'
  BY <1>3, FatalStep
<1>4. ASSUME NEW a \in Article, LateDuplicate(a) PROVE IInv'
  BY <1>4, LateDuplicateStep
<1>5. ASSUME NEW n \in 1..NoFault, Evict(n) PROVE IInv'
  BY <1>5, EvictStep
<1>6. ASSUME NEW n \in 1..NoFault, Drain(n) PROVE IInv'
  BY <1>6, DrainStep
<1>7. CASE Ack
  BY <1>7, AckStep
<1>8. CASE Close
  BY <1>8, QueueStep DEF Close
<1>9. CASE MarkFileComplete
  BY <1>9, QueueStep DEF MarkFileComplete
<1>10. ASSUME NEW a \in Article, Emit(a) PROVE IInv'
  BY <1>10, QueueStep DEF Emit
<1>11. ASSUME NEW a \in Article, FetchFails(a) PROVE IInv'
  BY <1>11, QueueStep DEF FetchFails
<1>12. ASSUME NEW p \in BOOLEAN, Reload(p) PROVE IInv'
  BY <1>12, QueueStep DEF Reload
<1>13. CASE UNCHANGED vars
  BY <1>13, QueueStep DEF vars
<1> QED BY <1>1, <1>2, <1>3, <1>4, <1>5, <1>6, <1>7, <1>8, <1>9, <1>10,
          <1>11, <1>12, <1>13 DEF Next, Working

-----------------------------------------------------------------------------

\* The inductive invariant holds throughout: the worker's maps of offsets and
\* articles agree after every request, drain, reload and failed write.
THEOREM WriterStaysConsistent == Spec => []IInv
BY InitInv, NextInv, PTL DEF Spec

\* The state of the writer and of the queue's bits is always well formed.  The
\* part count never goes negative: a rollback gives back no part twice.
THEOREM TypesHold == Spec => []TypeOK
<1>1. IInv => TypeOK
  BY DEF IInv
<1> QED BY <1>1, WriterStaysConsistent, PTL

\* partsWritten, on which finalizeFile is decided, is always the number of
\* articles accepted or failed.
THEOREM PartsAlwaysCounted == Spec => []PartsCounted
<1>1. IInv => PartsCounted
  BY DEF IInv, WriterInv, PartsCounted
<1> QED BY <1>1, WriterStaysConsistent, PTL

\* No article is ever written over bytes that a drain reported or that the
\* barrier acknowledged, whichever articles claim one offset.
THEOREM ClaimedBytesStay == Spec => []ClaimedBytesAreThere
<1>1. IInv => ClaimedBytesAreThere
  <2> SUFFICES ASSUME IInv, NEW a \in Claimed PROVE w.file[Off[a]] = a
    BY DEF ClaimedBytesAreThere
  <2>1. a \in Article /\ Settled(w, a)
    BY DEF Claimed, IInv, TypeOK, WriterInv, Writer
  <2> QED BY <2>1, WriterAssumption DEF Settled, IInv, WriterInv, OwnersAgree
<1> QED BY <1>1, WriterStaysConsistent, PTL

-----------------------------------------------------------------------------
(* The assembler's life.                                                     *)

\* What a queue holds after one more request, and after the first was taken.
LEMMA AppendAt ==
  ASSUME NEW S, NEW q \in Seq(S), NEW e \in S
  PROVE  /\ Append(q, e) \in Seq(S) /\ DOMAIN Append(q, e) = 1..(Len(q) + 1)
         /\ DOMAIN q = 1..Len(q) /\ Len(q) \in Nat
         /\ \A i \in DOMAIN q : Append(q, e)[i] = q[i]
         /\ Append(q, e)[Len(q) + 1] = e
OBVIOUS

LEMMA TailAt ==
  ASSUME NEW S, NEW q \in Seq(S), q # <<>>
  PROVE  /\ Tail(q) \in Seq(S) /\ DOMAIN Tail(q) = 1..(Len(q) - 1)
         /\ DOMAIN q = 1..Len(q) /\ Len(q) \in Nat \ {0}
         /\ \A i \in DOMAIN Tail(q) : Tail(q)[i] = q[i + 1]
         /\ Head(q) = q[1] /\ q[1] \in S
OBVIOUS

\* Every request is an article or a control call.
LEMMA RequestKinds ==
  /\ \A r \in Request : r.kind = "write" \/ r.kind \in Control
  /\ \A r \in Request : r.kind = "write" => r.art \in Art
  /\ \A a \in Art : [kind |-> "write", art |-> a] \in Request
  /\ \A c \in Control : [kind |-> c] \in Request
BY DEF Request, Control, Disposition

LEMMA LifeInitInv == LifeInit => LifeIInv
<1> SUFFICES ASSUME LifeInit PROVE LifeIInv
  OBVIOUS
<1>1. DOMAIN reqs = {} /\ reqs \in Seq(Request)
  BY DEF LifeInit
<1>2. \A c \in Disposition : c \in Control /\ call[c] = "no"
  BY DEF LifeInit, Control
<1>3. RemovedOnce /\ TombstoneStays
  BY <1>1, <1>2 DEF RemovedOnce, TombstoneStays, Told
<1>4. "cancelDelete" \in Disposition
  BY DEF Disposition
<1> QED BY <1>1, <1>2, <1>3, <1>4 DEF LifeInit, LifeIInv, AdmittedIsAccounted

\* A step that at most queues an article.
LEMMA WritesStep ==
  ASSUME LifeIInv, UNCHANGED <<call, cached, accepted, lifeFaults, cancelled, handles, job,
                               written, returned, disk>>,
         \/ UNCHANGED reqs
         \/ \E a \in Art : reqs' = Append(reqs, [kind |-> "write", art |-> a])
  PROVE  LifeIInv'
<1> DEFINE Longer ==
             /\ reqs' \in Seq(Request)
             /\ \A i \in DOMAIN reqs' : \/ i \in DOMAIN reqs /\ reqs'[i] = reqs[i]
                                        \/ reqs'[i].kind = "write"
<1>1. Longer
  <2>1. CASE UNCHANGED reqs
    BY <2>1 DEF LifeIInv
  <2>2. ASSUME NEW a \in Art, reqs' = Append(reqs, [kind |-> "write", art |-> a]) PROVE Longer
    <3> DEFINE e == [kind |-> "write", art |-> a]
    <3>1. e \in Request /\ e.kind = "write"
      BY RequestKinds
    <3> HIDE DEF e
    <3>2. reqs' = Append(reqs, e)
      BY <2>2 DEF e
    <3>3. reqs \in Seq(Request)
      BY DEF LifeIInv
    <3>4. /\ Append(reqs, e) \in Seq(Request) /\ DOMAIN Append(reqs, e) = 1..(Len(reqs) + 1)
          /\ DOMAIN reqs = 1..Len(reqs) /\ Len(reqs) \in Nat
          /\ \A i \in DOMAIN reqs : Append(reqs, e)[i] = reqs[i]
          /\ Append(reqs, e)[Len(reqs) + 1] = e
      BY <3>1, <3>3, AppendAt
    <3>5. \A i \in DOMAIN reqs' : i \in DOMAIN reqs \/ i = Len(reqs) + 1
      <4>1. DOMAIN reqs' = 1..(Len(reqs) + 1) /\ DOMAIN reqs = 1..Len(reqs) /\ Len(reqs) \in Nat
        BY <3>2, <3>4
      <4> QED BY <4>1
    <3>6. \A i \in DOMAIN reqs' : i \in DOMAIN reqs => reqs'[i] = reqs[i]
      BY <3>2, <3>4
    <3>7. \A i \in DOMAIN reqs' : i = Len(reqs) + 1 => reqs'[i].kind = "write"
      BY <3>1, <3>2, <3>4
    <3> QED BY <3>2, <3>4, <3>5, <3>6, <3>7
  <2> QED BY <2>1, <2>2
<1>2. \A i \in DOMAIN reqs' : reqs'[i].kind \in Control => i \in DOMAIN reqs /\ reqs'[i] = reqs[i]
  BY <1>1 DEF Control, Disposition
<1>3. RemovedOnce'
  BY <1>2 DEF LifeIInv, RemovedOnce
<1>4. TombstoneStays'
  BY <1>2 DEF LifeIInv, TombstoneStays, Told, Control, Disposition
<1>5. AdmittedIsAccounted'
  BY DEF LifeIInv, AdmittedIsAccounted, artsOf
<1> QED BY <1>1, <1>3, <1>4, <1>5 DEF LifeIInv

\* A control call is sent: a removal only once, a retry never after it.
LEMMA SendStep ==
  ASSUME LifeIInv, NEW c \in Control, CancelJob(c) \/ CloseJobHandles(c) \/ ForgetJob(c)
  PROVE  LifeIInv'
<1> DEFINE e == [kind |-> c]
<1>1. /\ call[c] = "no" /\ send(c)
      /\ UNCHANGED <<cached, accepted, lifeFaults, cancelled, handles, written, returned, disk>>
  BY DEF CancelJob, CloseJobHandles, ForgetJob, send, callVars
<1>2. PICK s \in {"queued", "gaveUp"} : call' = [call EXCEPT ![c] = s]
  BY <1>1 DEF send
<1>3. /\ call' = [d \in Control |-> call'[d]] /\ call'[c] = s
      /\ \A d \in Control : d # c => call'[d] = call[d]
  BY <1>2 DEF LifeIInv
<1>4. e \in Request /\ e.kind = c /\ reqs \in Seq(Request)
  BY RequestKinds DEF LifeIInv
<1>5. reqs' = reqs \/ reqs' = Append(reqs, e)
  BY <1>1 DEF send
<1> HIDE DEF e
<1>6. /\ reqs' \in Seq(Request)
      /\ \A i \in DOMAIN reqs' : /\ i \in DOMAIN reqs => reqs'[i] = reqs[i]
                                 /\ i \notin DOMAIN reqs => reqs'[i].kind = c
      /\ \A i \in DOMAIN reqs' : i \notin DOMAIN reqs => \A k \in DOMAIN reqs' : ~(i < k)
  <2>1. CASE reqs' = reqs
    BY <2>1, <1>4
  <2>2. CASE reqs' = Append(reqs, e)
    <3>4. /\ Append(reqs, e) \in Seq(Request) /\ DOMAIN Append(reqs, e) = 1..(Len(reqs) + 1)
          /\ DOMAIN reqs = 1..Len(reqs) /\ Len(reqs) \in Nat
          /\ \A i \in DOMAIN reqs : Append(reqs, e)[i] = reqs[i]
          /\ Append(reqs, e)[Len(reqs) + 1] = e
      BY <1>4, AppendAt
    <3> QED BY <1>4, <2>2, <3>4
  <2> QED BY <1>5, <2>1, <2>2
<1>7. /\ c \in Disposition => job # "removed" /\ job' = "removed"
      /\ c \notin Disposition => job' # "removed" /\ job # "removed"
      /\ c = "forget" => job # "removed"
  BY DEF CancelJob, CloseJobHandles, ForgetJob, Disposition
<1>8. \A d \in Disposition : d \in Control /\ (call[d] # "no" => job = "removed")
  BY DEF LifeIInv, RemovedOnce, Control
<1>9. \A d \in Disposition : call'[d] # "no" => d = c
  BY <1>3, <1>7, <1>8
<1>10. RemovedOnce'
  <2>1. \A d \in Disposition : call'[d] # "no" => job' = "removed"
    BY <1>7, <1>9
  <2>2. \A i \in DOMAIN reqs' : reqs'[i].kind \in Control => call'[reqs'[i].kind] # "no"
    BY <1>2, <1>3, <1>6 DEF LifeIInv, RemovedOnce
  <2> QED BY <1>9, <2>1, <2>2 DEF RemovedOnce
<1>11. TombstoneStays'
  <2>1. \A d \in Disposition : ~Told(d)'
    BY <1>2, <1>3, <1>9 DEF Told
  <2>2. ASSUME NEW i \in DOMAIN reqs', NEW k \in DOMAIN reqs', i < k, reqs'[i].kind \in Disposition
        PROVE  reqs'[k].kind # "forget"
    <3>1. i \in DOMAIN reqs /\ reqs'[i] = reqs[i]
      BY <1>6, <2>2
    <3>2. job = "removed"
      BY <3>1, <2>2, <1>8 DEF LifeIInv, RemovedOnce
    <3>3. c # "forget"
      BY <3>2, <1>7
    <3>4. CASE k \in DOMAIN reqs /\ reqs'[k] = reqs[k]
      BY <3>1, <3>4, <2>2 DEF LifeIInv, TombstoneStays
    <3> QED BY <1>6, <3>3, <3>4
  <2> QED BY <2>1, <2>2 DEF TombstoneStays
<1>12. AdmittedIsAccounted'
  BY <1>1, <1>3 DEF LifeIInv, AdmittedIsAccounted, Control, Disposition
<1>13. "cancelDelete" \in Disposition
  BY DEF Disposition
<1>14. call'["cancelDelete"] # "returned"
  BY <1>13, <1>3, <1>8, <1>9, <1>2
<1> QED BY <1>1, <1>3, <1>6, <1>10, <1>11, <1>12, <1>14 DEF LifeIInv

\* A caller gives up, or goes on.
LEMMA CallerStep ==
  ASSUME LifeIInv, NEW c \in Control, GiveUp(c) \/ Return(c)
  PROVE  LifeIInv'
<1>1. UNCHANGED <<reqs, cached, accepted, lifeFaults, cancelled, handles, written, returned>>
  BY DEF GiveUp, Return, callVars
<1>2. PICK s \in {"gaveUp", "returned", "unconfirmed"} :
        /\ call' = [call EXCEPT ![c] = s] /\ call[c] # "no" /\ (s = "returned" => call[c] = "acked")
  BY DEF GiveUp, Return
<1>3. /\ call' = [d \in Control |-> call'[d]] /\ call'[c] = s
      /\ \A d \in Control : d # c => call'[d] = call[d]
      /\ \A d \in Disposition : d \in Control
  BY <1>2 DEF LifeIInv, Control
<1>4. \A d \in Control : (call'[d] # "no" <=> call[d] # "no") /\ (Told(d)' => Told(d))
  BY <1>2, <1>3 DEF Told
<1>5. job = "removed" => job' = "removed"
  BY DEF GiveUp, Return
<1>6. RemovedOnce'
  <2>1. \A i \in DOMAIN reqs : reqs[i].kind \in Control => call'[reqs[i].kind] # "no"
    BY <1>4 DEF LifeIInv, RemovedOnce
  <2>2. \A d \in Disposition : call'[d] # "no" => job' = "removed"
    BY <1>3, <1>4, <1>5 DEF LifeIInv, RemovedOnce
  <2>3. \A b, d \in Disposition : call'[b] # "no" /\ call'[d] # "no" => b = d
    BY <1>3, <1>4 DEF LifeIInv, RemovedOnce
  <2> QED BY <1>1, <2>1, <2>2, <2>3 DEF RemovedOnce
<1>7. TombstoneStays'
  BY <1>1, <1>3, <1>4 DEF LifeIInv, TombstoneStays
<1>8. "cancelDelete" \in Control
  BY DEF Control, Disposition
<1>9. AdmittedIsAccounted'
  BY <1>1, <1>4, <1>8 DEF LifeIInv, AdmittedIsAccounted
<1>10. call'["cancelDelete"] = "returned" => disk' = {}
  BY <1>2, <1>3, <1>8 DEF LifeIInv, GiveUp, Return
<1> QED BY <1>1, <1>3, <1>6, <1>7, <1>9, <1>10 DEF LifeIInv

\* Draining writes or loses every cached article of the open files.
LEMMA DrainedAll ==
  ASSUME LifeIInv, NEW lost, drainHandles(handles, lost)
  PROVE  /\ cached' \subseteq Art /\ lifeFaults' \in Nat /\ lifeFaults' >= lifeFaults
         /\ written \subseteq written' /\ (lost # {} => lifeFaults' > 0)
         /\ \A a \in accepted : a \in cached /\ FileOf[a] \in handles => a \in written' \cup lost
BY DEF LifeIInv, drainHandles, artsOf

\* The worker takes a request off the channel.
LEMMA TakenRequest ==
  ASSUME LifeIInv, reqs # <<>>, reqs' = Tail(reqs)
  PROVE  /\ reqs' \in Seq(Request) /\ Head(reqs) \in Request
         /\ Head(reqs) = reqs[1] /\ 1 \in DOMAIN reqs
         /\ \A i \in DOMAIN reqs' : /\ i + 1 \in DOMAIN reqs /\ reqs'[i] = reqs[i + 1]
                                    /\ i + 1 > 1
         /\ \A i, k \in DOMAIN reqs' : i < k => i + 1 < k + 1
<1>1. reqs \in Seq(Request)
  BY DEF LifeIInv
<1>2. /\ Tail(reqs) \in Seq(Request) /\ DOMAIN Tail(reqs) = 1..(Len(reqs) - 1)
      /\ DOMAIN reqs = 1..Len(reqs) /\ Len(reqs) \in Nat \ {0}
      /\ \A i \in DOMAIN Tail(reqs) : Tail(reqs)[i] = reqs[i + 1]
      /\ Head(reqs) = reqs[1] /\ reqs[1] \in Request
  BY <1>1, TailAt
<1> QED BY <1>2

\* What follows in the channel keeps its order, and confirms no other call.
LEMMA ChannelKeeps ==
  ASSUME LifeIInv, reqs # <<>>, reqs' = Tail(reqs), job' = job, NEW c \in Control,
         ack(c), Head(reqs).kind = c,
         c \in Disposition => cancelled',
         cancelled /\ c # "forget" => cancelled'
  PROVE  /\ RemovedOnce' /\ TombstoneStays'
         /\ call' = [d \in Control |-> call'[d]]
         /\ \A d \in Control : (call'[d] # "no" <=> call[d] # "no")
         /\ call'["cancelDelete"] = "returned" => call["cancelDelete"] = "returned"
<1>1. /\ reqs' \in Seq(Request) /\ Head(reqs) \in Request
      /\ Head(reqs) = reqs[1] /\ 1 \in DOMAIN reqs
      /\ \A i \in DOMAIN reqs' : /\ i + 1 \in DOMAIN reqs /\ reqs'[i] = reqs[i + 1]
                                 /\ i + 1 > 1
      /\ \A i, k \in DOMAIN reqs' : i < k => i + 1 < k + 1
  BY TakenRequest
<1>2. /\ call' = [d \in Control |-> call'[d]]
      /\ call'[c] = (IF call[c] = "queued" THEN "acked" ELSE call[c])
      /\ \A d \in Control : d # c => call'[d] = call[d]
      /\ \A d \in Disposition : d \in Control
  BY DEF LifeIInv, ack, Control
<1>3. \A d \in Control : (call'[d] # "no" <=> call[d] # "no") /\ (Told(d)' => Told(d) \/ d = c)
  BY <1>2 DEF Told
<1>4. RemovedOnce'
  <2>1. \A i \in DOMAIN reqs' : reqs'[i].kind \in Control => call'[reqs'[i].kind] # "no"
    BY <1>1, <1>3 DEF LifeIInv, RemovedOnce
  <2>2. \A d \in Disposition : call'[d] # "no" => job' = "removed"
    BY <1>2, <1>3 DEF LifeIInv, RemovedOnce
  <2>3. \A b, d \in Disposition : call'[b] # "no" /\ call'[d] # "no" => b = d
    BY <1>2, <1>3 DEF LifeIInv, RemovedOnce
  <2> QED BY <2>1, <2>2, <2>3 DEF RemovedOnce
<1>5. TombstoneStays'
  <2>1. \A i, k \in DOMAIN reqs' : i < k /\ reqs'[i].kind \in Disposition => reqs'[k].kind # "forget"
    BY <1>1 DEF LifeIInv, TombstoneStays
  <2>2. ASSUME NEW d \in Disposition, Told(d)'
        PROVE  cancelled' /\ \A i \in DOMAIN reqs' : reqs'[i].kind # "forget"
    <3>1. CASE Told(d)
      <4>1. cancelled /\ \A i \in DOMAIN reqs : reqs[i].kind # "forget"
        BY <3>1 DEF LifeIInv, TombstoneStays
      <4>2. c # "forget"
        BY <4>1, <1>1
      <4> QED BY <4>1, <4>2, <1>1
    <3>2. CASE d = c
      BY <3>2, <1>1 DEF LifeIInv, TombstoneStays
    <3> QED BY <3>1, <3>2, <2>2, <1>2, <1>3
  <2> QED BY <2>1, <2>2 DEF TombstoneStays
<1>6. "cancelDelete" \in Control
  BY DEF Control, Disposition
<1> QED BY <1>2, <1>3, <1>4, <1>5, <1>6

\* The worker closes the files of a job that was removed.
LEMMA CancelArmStep ==
  ASSUME LifeIInv, dispatchRequest, CancelArm(Head(reqs).kind)
  PROVE  LifeIInv'
<1> DEFINE c == Head(reqs).kind
<1>1. /\ reqs # <<>> /\ reqs' = Tail(reqs) /\ job' = job /\ c \in Disposition /\ c \in Control
      /\ ack(c) /\ cancelled' = TRUE /\ handles' = {} /\ accepted' = accepted
  BY DEF dispatchRequest, CancelArm, tombstoneJob, Control
<1>2. /\ reqs' \in Seq(Request) /\ Head(reqs) = reqs[1] /\ 1 \in DOMAIN reqs
  BY <1>1, TakenRequest
<1>3. /\ RemovedOnce' /\ TombstoneStays' /\ call' = [d \in Control |-> call'[d]]
      /\ \A d \in Control : (call'[d] # "no" <=> call[d] # "no")
      /\ call'["cancelDelete"] = "returned" => call["cancelDelete"] = "returned"
  BY <1>1, ChannelKeeps
<1>4. call[c] # "no" /\ "cancelDelete" \in Control
  BY <1>1, <1>2 DEF LifeIInv, RemovedOnce, Control, Disposition
<1>5. PICK lost \in SUBSET cached : closeCancelledFile(c = "cancelKeep", lost)
  BY DEF CancelArm
<1>6. /\ cached' \subseteq Art /\ lifeFaults' \in Nat /\ (disk = {} => disk' = {})
      /\ AdmittedIsAccounted'
  <2>1. CASE c = "cancelKeep"
    <3>1. drainHandles(handles, lost) /\ returned' = returned /\ disk' = disk
      BY <1>5, <2>1 DEF closeCancelledFile
    <3>2. /\ cached' \subseteq Art /\ lifeFaults' \in Nat /\ lifeFaults' >= lifeFaults
          /\ written \subseteq written' /\ (lost # {} => lifeFaults' > 0)
          /\ \A a \in accepted : a \in cached /\ FileOf[a] \in handles => a \in written' \cup lost
      BY <3>1, DrainedAll
    <3>3. \A a \in accepted : \/ a \in written' \cup returned'
                              \/ lifeFaults' > 0 \/ call'["cancelDelete"] # "no"
      BY <3>1, <3>2, <1>3, <1>4 DEF LifeIInv, AdmittedIsAccounted
    <3> QED BY <1>1, <3>1, <3>2, <3>3 DEF AdmittedIsAccounted
  <2>2. CASE c = "cancelDelete"
    BY <1>1, <1>3, <1>4, <1>5, <2>2 DEF closeCancelledFile, LifeIInv, AdmittedIsAccounted
  <2> QED BY <1>1, <2>1, <2>2 DEF Disposition
<1>7. accepted' \subseteq Art
  BY <1>1 DEF LifeIInv
<1> QED BY <1>1, <1>2, <1>3, <1>6, <1>7 DEF LifeIInv

\* The worker closes the files of a job that is handed over.
LEMMA CloseArmStep ==
  ASSUME LifeIInv, dispatchRequest, CloseArm(Head(reqs).kind)
  PROVE  LifeIInv'
<1> DEFINE c == Head(reqs).kind
<1>1. /\ reqs # <<>> /\ reqs' = Tail(reqs) /\ job' = job /\ c = "close" /\ c \in Control
      /\ ack(c) /\ cancelled' = cancelled /\ handles' = {} /\ accepted' = accepted /\ disk' = disk
      /\ c \notin Disposition
  BY DEF dispatchRequest, CloseArm, Control, Disposition
<1>2. reqs' \in Seq(Request)
  BY <1>1, TakenRequest
<1>3. /\ RemovedOnce' /\ TombstoneStays' /\ call' = [d \in Control |-> call'[d]]
      /\ \A d \in Control : (call'[d] # "no" <=> call[d] # "no")
      /\ call'["cancelDelete"] = "returned" => call["cancelDelete"] = "returned"
  BY <1>1, ChannelKeeps
<1>4. "cancelDelete" \in Control
  BY DEF Control, Disposition
<1>5. PICK lost \in SUBSET cached : drainHandles(handles, lost) /\ returned' = returned \cup lost
  BY DEF CloseArm, drainAndClose
<1>6. /\ cached' \subseteq Art /\ lifeFaults' \in Nat /\ lifeFaults' >= lifeFaults
      /\ written \subseteq written'
      /\ \A a \in accepted : a \in cached /\ FileOf[a] \in handles => a \in written' \cup lost
  BY <1>5, DrainedAll
<1>7. lifeFaults > 0 => lifeFaults' > 0
  BY <1>6 DEF LifeIInv
<1>8. AdmittedIsAccounted'
  BY <1>1, <1>3, <1>4, <1>5, <1>6, <1>7 DEF LifeIInv, AdmittedIsAccounted
<1> QED BY <1>1, <1>2, <1>3, <1>6, <1>8 DEF LifeIInv

\* A retry clears the tombstones: none of a confirmed removal is left.
LEMMA ForgetArmStep ==
  ASSUME LifeIInv, dispatchRequest, ForgetArm(Head(reqs).kind)
  PROVE  LifeIInv'
<1> DEFINE c == Head(reqs).kind
<1>1. /\ reqs # <<>> /\ reqs' = Tail(reqs) /\ job' = job /\ c = "forget" /\ c \in Control
      /\ ack(c) /\ cancelled' = FALSE /\ accepted' = accepted \cap artsOf(handles)
      /\ c \notin Disposition
      /\ UNCHANGED <<handles, cached, written, returned, disk, lifeFaults>>
  BY DEF dispatchRequest, ForgetArm, Control, Disposition
<1>2. reqs' \in Seq(Request)
  BY <1>1, TakenRequest
<1>3. /\ RemovedOnce' /\ TombstoneStays' /\ call' = [d \in Control |-> call'[d]]
      /\ call'["cancelDelete"] = "returned" => call["cancelDelete"] = "returned"
  BY <1>1, ChannelKeeps
<1>4. AdmittedIsAccounted'
  BY <1>1 DEF LifeIInv, AdmittedIsAccounted, artsOf
<1> QED BY <1>1, <1>2, <1>3, <1>4 DEF LifeIInv

\* An article is dropped, late, refused or admitted.
LEMMA ArticleStep ==
  ASSUME LifeIInv, dispatchRequest, processRequest(Head(reqs))
  PROVE  LifeIInv'
<1> DEFINE a == Head(reqs).art
<1>1. /\ reqs # <<>> /\ reqs' = Tail(reqs) /\ UNCHANGED <<job, call, cancelled, written>>
      /\ Head(reqs).kind = "write"
      /\ Dropped(a) \/ Late(a) \/ openFails(a) \/ Admitted(a)
  BY DEF dispatchRequest, processRequest
<1>2. /\ reqs' \in Seq(Request) /\ Head(reqs) \in Request
      /\ Head(reqs) = reqs[1] /\ 1 \in DOMAIN reqs
      /\ \A i \in DOMAIN reqs' : /\ i + 1 \in DOMAIN reqs /\ reqs'[i] = reqs[i + 1]
                                 /\ i + 1 > 1
      /\ \A i, k \in DOMAIN reqs' : i < k => i + 1 < k + 1
  BY <1>1, TakenRequest
<1>3. a \in Art
  BY <1>1, <1>2, RequestKinds
<1>4. RemovedOnce' /\ TombstoneStays'
  BY <1>1, <1>2 DEF LifeIInv, RemovedOnce, TombstoneStays, Told
<1> HIDE DEF a
<1>5. /\ cached' \subseteq Art /\ accepted' \subseteq Art /\ lifeFaults' \in Nat
      /\ lifeFaults' >= lifeFaults /\ cached \subseteq cached' /\ handles \subseteq handles'
      /\ returned \subseteq returned'
      /\ \A b \in accepted' : b \in accepted \/ (b \in cached' /\ FileOf[b] \in handles')
      /\ cancelled => handles' = handles /\ disk' = disk
  BY <1>1, <1>3 DEF LifeIInv, Dropped, Late, openFails, Admitted
<1>6. AdmittedIsAccounted'
  <2>1. lifeFaults > 0 => lifeFaults' > 0
    BY <1>5 DEF LifeIInv
  <2> QED BY <1>1, <1>5, <2>1 DEF LifeIInv, AdmittedIsAccounted
<1>7. call["cancelDelete"] = "returned" => disk' = {}
  BY <1>5 DEF LifeIInv, TombstoneStays, Told, Disposition
<1> QED BY <1>1, <1>2, <1>4, <1>5, <1>6, <1>7 DEF LifeIInv

\* The cache writes an article; the worker writes them all and ends.
LEMMA WorkerStep ==
  ASSUME LifeIInv, (\E a \in Art : Flush(a)) \/ Exit
  PROVE  LifeIInv'
<1>1. UNCHANGED <<call, reqs, job, cancelled, accepted, disk>>
  BY DEF Flush, Exit
<1>2. RemovedOnce' /\ TombstoneStays'
  BY <1>1 DEF LifeIInv, RemovedOnce, TombstoneStays, Told
<1> DEFINE Kept == /\ cached' \subseteq Art /\ lifeFaults' \in Nat
                   /\ (cancelled => handles' = {}) /\ AdmittedIsAccounted'
<1>3. Kept
  <2>1. ASSUME NEW a \in Art, Flush(a) PROVE Kept
    BY <1>1, <2>1 DEF Flush, LifeIInv, AdmittedIsAccounted
  <2>2. CASE Exit
    <3>1. PICK lost \in SUBSET cached : drainHandles(handles, lost) /\ returned' = returned \cup lost
      BY <2>2 DEF Exit, drainAndClose
    <3>2. /\ cached' \subseteq Art /\ lifeFaults' \in Nat /\ lifeFaults' >= lifeFaults
          /\ written \subseteq written'
          /\ \A a \in accepted : a \in cached /\ FileOf[a] \in handles => a \in written' \cup lost
      BY <3>1, DrainedAll
    <3>3. lifeFaults > 0 => lifeFaults' > 0
      BY <3>2 DEF LifeIInv
    <3>4. AdmittedIsAccounted'
      BY <1>1, <3>1, <3>2, <3>3 DEF LifeIInv, AdmittedIsAccounted
    <3> QED BY <2>2, <3>2, <3>4 DEF Exit
  <2> QED BY <2>1, <2>2
<1> QED BY <1>1, <1>2, <1>3 DEF LifeIInv

LEMMA LifeNextInv == LifeIInv /\ [LifeNext]_lifeVars => LifeIInv'
<1> SUFFICES ASSUME LifeIInv, [LifeNext]_lifeVars PROVE LifeIInv'
  OBVIOUS
<1>1. ASSUME NEW a \in Art, Enter(a) \/ WriteArticle(a) PROVE LifeIInv'
  BY <1>1, WritesStep DEF Enter, WriteArticle
<1>2. ASSUME NEW c \in Control, CancelJob(c) \/ CloseJobHandles(c) \/ ForgetJob(c) PROVE LifeIInv'
  BY <1>2, SendStep
<1>3. ASSUME NEW c \in Control, GiveUp(c) \/ Return(c) PROVE LifeIInv'
  BY <1>3, CallerStep
<1>4. CASE dispatchRequest
  BY <1>4, CancelArmStep, CloseArmStep, ForgetArmStep, ArticleStep DEF dispatchRequest
<1>5. CASE StopWorker \/ SeesStop \/ Joined \/ UNCHANGED lifeVars
  BY <1>5, WritesStep DEF StopWorker, SeesStop, Joined, callVars, lifeVars
<1>6. ASSUME (\E a \in Art : Flush(a)) \/ Exit PROVE LifeIInv'
  BY <1>6, WorkerStep
<1> QED BY <1>1, <1>2, <1>3, <1>4, <1>5, <1>6 DEF LifeNext

\* Once RemoveJob has been told that the handles are closed, the worker opens
\* no file of the job and creates none, whatever is still queued: for every
\* number of files and articles and every length of the channel.
THEOREM RemovedJobIsLeftAlone == LifeSpec => []RemovedIsLeftAlone
<1>1. LifeIInv => RemovedIsLeftAlone
  BY DEF LifeIInv, RemovedIsLeftAlone, TombstoneStays, Told, Disposition
<1> QED BY <1>1, LifeInitInv, LifeNextInv, PTL DEF LifeSpec

\* An article its file admitted is never silently gone, whichever of a
\* removal, a hand-over, a retry and a stop closes the file.
THEOREM AdmittedStaysAccounted == LifeSpec => []AdmittedIsAccounted
<1>1. LifeIInv => AdmittedIsAccounted
  BY DEF LifeIInv
<1> QED BY <1>1, LifeInitInv, LifeNextInv, PTL DEF LifeSpec
=============================================================================
