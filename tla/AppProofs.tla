----------------------------- MODULE AppProofs -----------------------------
(***************************************************************************)
(* Proofs about BarrierLock, for any number of goroutines and jobs; about  *)
(* NNTPConn, for any commands, depth and faults of the server; about       *)
(* Ingest, for any folder of dropped files; about StallRecovery, for any   *)
(* files and faults; about Reload, for any articles, reloads and faults;   *)
(* about JobContent, for any articles, files and volumes.                  *)
(***************************************************************************)
EXTENDS BarrierLock, NNTPConn, Ingest, StallRecovery, Reload, JobContent,
        FiniteSetTheorems, TLAPS

\* Sets of goroutines are finite; one more or one less counts as such, and a
\* set with a member has a positive size.
LEMMA ProcSets ==
  ASSUME NEW S \in SUBSET Proc
  PROVE  /\ Cardinality(S) \in Nat
         /\ \A p \in Proc \ S : Cardinality(S \cup {p}) = Cardinality(S) + 1
         /\ \A p \in S : /\ Cardinality(S \ {p}) = Cardinality(S) - 1
                         /\ Cardinality(S) > 0
<1>1. IsFiniteSet(S)
  BY LockAssumption, FS_Subset
<1>2. Cardinality(S) \in Nat
  BY <1>1, FS_CardinalityType
<1>3. \A p \in Proc \ S : Cardinality(S \cup {p}) = Cardinality(S) + 1
  BY <1>1, FS_AddElement
<1>4. \A p \in S : Cardinality(S \ {p}) = Cardinality(S) - 1
  BY <1>1, FS_RemoveElement
<1>5. \A p \in S : Cardinality(S) # 0
  BY <1>1, FS_EmptySet
<1> QED BY <1>2, <1>3, <1>4, <1>5

\* The first state: nobody holds anything.
LEMMA LockInit == Init => IInv
<1> SUFFICES ASSUME Init PROVE IInv
  OBVIOUS
<1>1. \A j \in Job : Users(j) = {}
  BY DEF Init, Users
<1>2. \A j \in Job : entry[j].holders = 0 /\ ~entry[j].forgotten
  BY DEF Init, NoEntry
<1>3. OneMutex
  BY <1>1, <1>2, FS_EmptySet DEF OneMutex, Init
<1>4. TypeOK
  BY LockAssumption DEF Init, TypeOK
<1> QED BY <1>2, <1>3, <1>4 DEF IInv, MutexHeldOnce, NoDeadEntry, Init

\* An entry that somebody uses is in the map.
LEMMA UsedIsThere ==
  ASSUME IInv, NEW p \in Proc, pc[p] # "idle"
  PROVE  /\ entry[on[p]] \in barrierLock /\ entry[on[p]] # NoEntry
         /\ entry[on[p]].holders > 0
<1>1. on[p] \in Job /\ p \in Users(on[p]) /\ Users(on[p]) \in SUBSET Proc
  BY DEF IInv, TypeOK, Users
<1>2. entry[on[p]].holders > 0
  BY <1>1, ProcSets DEF IInv, OneMutex
<1> QED BY <1>1, <1>2 DEF IInv, TypeOK, NoEntry

\* A caller that looks the lock up is counted on the mutex it was given.
LEMMA LookupStep ==
  ASSUME IInv, NEW p \in Proc, NEW j \in Job, jobBarrierLock(p, j)
  PROVE  IInv'
<1> DEFINE fresh == entry[j] = NoEntry
           m == IF fresh THEN minted + 1 ELSE entry[j].mu
           e == IF fresh
                THEN [mu |-> minted + 1, holders |-> 1, forgotten |-> FALSE]
                ELSE [entry[j] EXCEPT !.holders = @ + 1]
<1>1. /\ pc[p] = "idle" /\ (fresh => minted < MaxMint)
      /\ entry' = [entry EXCEPT ![j] = e]
      /\ minted' = IF fresh THEN minted + 1 ELSE minted
      /\ pc' = [pc EXCEPT ![p] = "lock"] /\ on' = [on EXCEPT ![p] = j]
      /\ got' = [got EXCEPT ![p] = m]
  BY DEF jobBarrierLock, Lookup
<1>2. /\ e \in barrierLock /\ e.mu = m /\ m \in Mutex
      /\ e.holders = entry[j].holders + 1 /\ e.holders > 0
  <2>1. CASE fresh
    <3>1. minted + 1 \in Mutex
      BY <1>1, <2>1, LockAssumption DEF IInv, TypeOK, Mutex
    <3>2. entry[j].holders = 0
      BY <2>1 DEF NoEntry
    <3> QED BY <2>1, <3>1, <3>2 DEF barrierLock
  <2>2. CASE ~fresh
    <3>1. entry[j] \in barrierLock
      BY <2>2 DEF IInv, TypeOK
    <3> QED BY <2>2, <3>1 DEF barrierLock
  <2> QED BY <2>1, <2>2
<1>3. minted' \in 0..MaxMint
  BY <1>1, LockAssumption DEF IInv, TypeOK
<1> HIDE DEF e, m, fresh
<1>4. TypeOK'
  BY <1>1, <1>2, <1>3 DEF IInv, TypeOK
<1>5. /\ Users(j)' = Users(j) \cup {p} /\ p \notin Users(j)
      /\ \A k \in Job \ {j} : Users(k)' = Users(k)
      /\ \A k \in Job : Users(k) \in SUBSET Proc
  BY <1>1 DEF IInv, TypeOK, Users
<1>6. \A k \in Job : entry'[k].holders = Cardinality(Users(k)')
  BY <1>1, <1>2, <1>5, ProcSets DEF IInv, TypeOK, OneMutex
<1>7. ASSUME NEW q \in Proc, pc'[q] # "idle" PROVE entry'[on'[q]].mu = got'[q]
  <2>1. CASE q = p
    BY <1>1, <1>2, <2>1 DEF IInv, TypeOK
  <2>2. CASE q # p
    <3>1. /\ pc[q] # "idle" /\ on'[q] = on[q] /\ got'[q] = got[q]
          /\ on[q] \in Job
      BY <1>1, <1>7, <2>2 DEF IInv, TypeOK
    <3>2. entry[on[q]].mu = got[q] /\ entry[on[q]] # NoEntry
      BY <3>1, UsedIsThere DEF IInv, OneMutex
    <3>3. entry'[on[q]].mu = entry[on[q]].mu
      BY <1>1, <1>2, <3>1, <3>2 DEF IInv, TypeOK, m, fresh
    <3> QED BY <3>1, <3>2, <3>3
  <2> QED BY <2>1, <2>2
<1>8. MutexHeldOnce'
  BY <1>1 DEF IInv, TypeOK, MutexHeldOnce
<1>9. NoDeadEntry'
  BY <1>1, <1>2 DEF IInv, TypeOK, NoDeadEntry
<1> QED BY <1>4, <1>6, <1>7, <1>8, <1>9 DEF IInv, OneMutex

\* A deletion waits for the last holder, so nobody's mutex leaves the map.
LEMMA ReleaseStep ==
  ASSUME IInv, NEW p \in Proc, releaseJobBarrierLock(p)
  PROVE  IInv'
<1> DEFINE j == on[p]
           e == Released(entry[j])
<1>1. /\ pc[p] = "release" /\ j \in Job
      /\ entry[j] \in barrierLock /\ entry[j] # NoEntry
      /\ entry[j].holders > 0
  BY UsedIsThere DEF releaseJobBarrierLock, IInv, TypeOK
<1>2. /\ entry' = [entry EXCEPT ![j] = e]
      /\ pc' = [pc EXCEPT ![p] = "idle"]
      /\ on' = on /\ got' = got /\ minted' = minted
  BY <1>1 DEF releaseJobBarrierLock
<1>3. /\ e \in barrierLock \cup {NoEntry}
      /\ e.holders = entry[j].holders - 1
      /\ e.forgotten => e.holders > 0
      /\ e.holders > 0 => e.mu = entry[j].mu
  BY <1>1 DEF Released, barrierLock, NoEntry
<1> HIDE DEF e
<1>4. TypeOK'
  BY <1>1, <1>2, <1>3 DEF IInv, TypeOK
<1>5. /\ Users(j)' = Users(j) \ {p} /\ p \in Users(j)
      /\ \A k \in Job \ {j} : Users(k)' = Users(k)
      /\ \A k \in Job : Users(k) \in SUBSET Proc
  BY <1>1, <1>2 DEF IInv, TypeOK, Users
<1>6. \A k \in Job : entry'[k].holders = Cardinality(Users(k)')
  BY <1>1, <1>2, <1>3, <1>5, ProcSets DEF IInv, TypeOK, OneMutex
<1>7. ASSUME NEW q \in Proc, pc'[q] # "idle" PROVE entry'[on'[q]].mu = got'[q]
  <2>1. q # p /\ pc[q] # "idle" /\ on[q] \in Job
    BY <1>2, <1>7 DEF IInv, TypeOK
  <2>2. entry[on[q]].mu = got[q]
    BY <2>1 DEF IInv, OneMutex
  <2>3. CASE on[q] = j
    <3>1. q \in Users(j)' /\ Users(j)' \in SUBSET Proc
      BY <1>5, <2>1, <2>3 DEF Users
    <3>2. e.holders > 0
      BY <1>1, <1>2, <1>6, <3>1, ProcSets DEF IInv, TypeOK
    <3> QED BY <1>1, <1>2, <1>3, <2>2, <2>3, <3>2 DEF IInv, TypeOK
  <2>4. CASE on[q] # j
    BY <1>1, <1>2, <2>1, <2>2, <2>4 DEF IInv, TypeOK
  <2> QED BY <2>3, <2>4
<1>8. MutexHeldOnce'
  BY <1>2 DEF IInv, TypeOK, MutexHeldOnce
<1>9. NoDeadEntry'
  BY <1>1, <1>2, <1>3 DEF IInv, TypeOK, NoDeadEntry
<1> QED BY <1>4, <1>6, <1>7, <1>8, <1>9 DEF IInv, OneMutex

\* Forgetting a job drops its entry only if nobody uses it.
LEMMA ForgetStep ==
  ASSUME IInv, NEW j \in Job, forgetJobBarrierState(j)
  PROVE  IInv'
<1> DEFINE e == Forgotten(entry[j])
<1>1. /\ entry[j] \in barrierLock
      /\ entry' = [entry EXCEPT ![j] = e]
      /\ pc' = pc /\ on' = on /\ got' = got /\ minted' = minted
  BY DEF forgetJobBarrierState, IInv, TypeOK
<1>2. /\ e \in barrierLock \cup {NoEntry}
      /\ e.holders = entry[j].holders
      /\ e.forgotten => e.holders > 0
      /\ e.holders > 0 => e.mu = entry[j].mu
  <2>1. CASE entry[j].holders = 0
    BY <2>1 DEF Forgotten, NoEntry
  <2>2. CASE entry[j].holders # 0
    <3>1. e = [entry[j] EXCEPT !.forgotten = TRUE]
      BY <2>2 DEF Forgotten
    <3> HIDE DEF e
    <3>2. e \in barrierLock
      BY <1>1, <3>1 DEF barrierLock
    <3>3. e.holders = entry[j].holders /\ e.mu = entry[j].mu
      BY <1>1, <3>1 DEF barrierLock
    <3>4. entry[j].holders > 0
      BY <1>1, <2>2 DEF barrierLock
    <3> QED BY <3>2, <3>3, <3>4
  <2> QED BY <2>1, <2>2
<1> HIDE DEF e
<1>3. TypeOK'
  BY <1>1, <1>2 DEF IInv, TypeOK
<1>4. \A k \in Job : Users(k)' = Users(k)
  BY <1>1 DEF Users
<1>5. \A k \in Job : entry'[k].holders = entry[k].holders
  BY <1>1, <1>2 DEF IInv, TypeOK
<1>6. ASSUME NEW q \in Proc, pc[q] # "idle" PROVE entry'[on[q]].mu = got[q]
  <2>1. /\ on[q] \in Job /\ entry[on[q]].mu = got[q]
        /\ entry[on[q]].holders > 0
    BY <1>6, UsedIsThere DEF IInv, TypeOK, OneMutex
  <2> QED BY <1>1, <1>2, <2>1 DEF IInv, TypeOK
<1>7. OneMutex'
  BY <1>1, <1>4, <1>5, <1>6 DEF IInv, OneMutex
<1>8. MutexHeldOnce' /\ NoDeadEntry'
  BY <1>1, <1>2 DEF IInv, TypeOK, MutexHeldOnce, NoDeadEntry
<1> QED BY <1>3, <1>7, <1>8 DEF IInv

\* Taking and giving up the mutex does not touch the map.
LEMMA MutexStep ==
  ASSUME IInv, NEW p \in Proc, Lock(p) \/ Unlock(p)
  PROVE  IInv'
<1>1. /\ pc[p] # "idle" /\ \E s \in {"barrier", "release"} :
                             pc' = [pc EXCEPT ![p] = s]
      /\ on' = on /\ got' = got /\ entry' = entry /\ minted' = minted
  BY DEF Lock, Unlock
<1>2. TypeOK'
  BY <1>1 DEF IInv, TypeOK
<1>3. \A j \in Job : Users(j)' = Users(j)
  BY <1>1 DEF IInv, TypeOK, Users
<1>4. OneMutex'
  BY <1>1, <1>3 DEF IInv, TypeOK, OneMutex
<1>5. MutexHeldOnce'
  BY <1>1 DEF Lock, Unlock, IInv, TypeOK, MutexHeldOnce
<1> QED BY <1>1, <1>2, <1>4, <1>5 DEF IInv, NoDeadEntry

\* Every step keeps the invariant.
LEMMA LockNext == IInv /\ [Next]_vars => IInv'
<1> SUFFICES ASSUME IInv, [Next]_vars PROVE IInv'
  OBVIOUS
<1>1. ASSUME NEW p \in Proc, NEW j \in Job, jobBarrierLock(p, j) PROVE IInv'
  BY <1>1, LookupStep
<1>2. ASSUME NEW p \in Proc, Lock(p) \/ Unlock(p) PROVE IInv'
  BY <1>2, MutexStep
<1>3. ASSUME NEW p \in Proc, releaseJobBarrierLock(p) PROVE IInv'
  BY <1>3, ReleaseStep
<1>4. ASSUME NEW j \in Job, forgetJobBarrierState(j) PROVE IInv'
  BY <1>4, ForgetStep
<1>5. CASE UNCHANGED vars
  BY <1>5 DEF vars, IInv, TypeOK, OneMutex, MutexHeldOnce, NoDeadEntry, Users
<1> QED BY <1>1, <1>2, <1>3, <1>4, <1>5 DEF Next

\* The inductive invariant: every caller of jobBarrierLock that has not yet
\* released is counted and stands on the mutex in the map.
THEOREM EveryUserIsCounted == Spec => []IInv
BY LockInit, LockNext, PTL DEF Spec

\* Two barriers never run for one job, although the job may be forgotten from
\* inside a barrier and its lock made anew.
THEOREM OneBarrierPerJob == Spec => []Exclusion
<1>1. IInv => Exclusion
  BY DEF IInv, OneMutex, MutexHeldOnce, Exclusion
<1> QED BY <1>1, EveryUserIsCounted, PTL

\* No entry of a departed job outlives its last holder.
THEOREM MapStaysSmall == Spec => []NoDeadEntry
<1>1. IInv => NoDeadEntry
  BY DEF IInv
<1> QED BY <1>1, EveryUserIsCounted, PTL

-----------------------------------------------------------------------------
(* The NNTP connection.                                                      *)

LEMMA NntpInitInv == NntpInit => NntpIInv
<1> SUFFICES ASSUME NntpInit PROVE NntpIInv
  OBVIOUS
<1>1. /\ \A c \in Cmd : fetches[c] = [pc |-> "idle", alive |-> TRUE, ret |-> "none", got |-> NoId]
      /\ \A c \in Cmd : result[c] = NoLine
      /\ reader = [pc |-> "none", cmd |-> {}, line |-> NoLine]
      /\ pending \in Seq(Cmd)
      /\ fetches = [c \in Cmd |-> fetches[c]] /\ result = [c \in Cmd |-> result[c]]
  BY DEF NntpInit
<1>2. AnswersChecked
  BY <1>1 DEF AnswersChecked, Trusted, successCode, Line, NoLine
<1> QED BY <1>1, <1>2 DEF NntpIInv, BodyIsAsked

\* One field of a call.
LEMMA AliveField ==
  ASSUME NEW r, NEW v, r = [pc |-> r.pc, alive |-> r.alive, ret |-> r.ret, got |-> r.got]
  PROVE  [r EXCEPT !.alive = v] = [pc |-> r.pc, alive |-> v, ret |-> r.ret, got |-> r.got]
OBVIOUS

\* A caller moves: it gets on without an answer, or returns one.
LEMMA FetchMoves ==
  ASSUME NntpIInv, NEW c \in Cmd, NEW next,
         \/ fetches' = goes(c, next)
         \/ fetches' = [fetches EXCEPT ![c].alive = FALSE]
         \/ \E ret, id : fetches' = returns(c, ret, id) /\ (ret = "ok" => id = CmdCfg[c].id)
  PROVE  /\ fetches' = [d \in Cmd |-> fetches'[d]]
         /\ \A d \in Cmd : fetches'[d] = [pc |-> fetches'[d].pc, alive |-> fetches'[d].alive,
                                          ret |-> fetches'[d].ret, got |-> fetches'[d].got]
         /\ BodyIsAsked'
<1>1. /\ fetches = [d \in Cmd |-> fetches[d]]
      /\ \A d \in Cmd : fetches[d] = [pc |-> fetches[d].pc, alive |-> fetches[d].alive,
                                      ret |-> fetches[d].ret, got |-> fetches[d].got]
      /\ BodyIsAsked
  BY DEF NntpIInv
<1>2. PICK r : fetches' = [fetches EXCEPT ![c] = r] /\ r = [pc |-> r.pc, alive |-> r.alive,
                   ret |-> r.ret, got |-> r.got] /\ (r.ret = "ok" => r.got = CmdCfg[c].id)
  <2>1. CASE fetches' = goes(c, next)
    <3> DEFINE x == [fetches[c] EXCEPT !.pc = next]
    <3>1. x = [pc |-> next, alive |-> fetches[c].alive, ret |-> fetches[c].ret, got |-> fetches[c].got]
      BY <1>1
    <3>2. fetches' = [fetches EXCEPT ![c] = x]
      BY <2>1 DEF goes
    <3>3. fetches[c].ret = "ok" => fetches[c].got = CmdCfg[c].id
      BY <1>1 DEF BodyIsAsked
    <3> HIDE DEF x
    <3> WITNESS x
    <3> QED BY <3>1, <3>2, <3>3
  <2>2. CASE fetches' = [fetches EXCEPT ![c].alive = FALSE]
    <3> DEFINE x == [fetches[c] EXCEPT !.alive = FALSE]
    <3>1. x = [pc |-> fetches[c].pc, alive |-> FALSE, ret |-> fetches[c].ret, got |-> fetches[c].got]
      BY <1>1, AliveField
    <3>2. fetches' = [fetches EXCEPT ![c] = x]
      BY <2>2
    <3>3. fetches[c].ret = "ok" => fetches[c].got = CmdCfg[c].id
      BY <1>1 DEF BodyIsAsked
    <3> HIDE DEF x
    <3> WITNESS x
    <3> QED BY <3>1, <3>2, <3>3
  <2>3. ASSUME NEW ret, NEW id, fetches' = returns(c, ret, id), ret = "ok" => id = CmdCfg[c].id
        PROVE  \E r : fetches' = [fetches EXCEPT ![c] = r] /\ r = [pc |-> r.pc, alive |-> r.alive,
                   ret |-> r.ret, got |-> r.got] /\ (r.ret = "ok" => r.got = CmdCfg[c].id)
    <3> DEFINE x == [pc |-> "ret", alive |-> fetches[c].alive, ret |-> ret, got |-> id]
    <3>4. fetches[c] = [pc |-> fetches[c].pc, alive |-> fetches[c].alive, ret |-> fetches[c].ret, got |-> fetches[c].got]
      BY <1>1
    <3>5. ASSUME NEW s, s = [fetches[c] EXCEPT !.pc = "ret", !.ret = ret, !.got = id] PROVE s = x
      BY <3>4, <3>5
    <3>6. fetches' = [fetches EXCEPT ![c] = [fetches[c] EXCEPT !.pc = "ret", !.ret = ret, !.got = id]]
      BY <1>1, <2>3 DEF returns
    <3>1. fetches' = [fetches EXCEPT ![c] = x]
      BY <3>5, <3>6
    <3> WITNESS x
    <3> QED BY <3>1, <2>3
  <2> QED BY <2>1, <2>2, <2>3
<1>3. /\ fetches' = [d \in Cmd |-> fetches'[d]] /\ fetches'[c] = r
      /\ \A d \in Cmd : d # c => fetches'[d] = fetches[d]
  BY <1>1, <1>2
<1>4. ASSUME NEW d \in Cmd
      PROVE  /\ fetches'[d] = [pc |-> fetches'[d].pc, alive |-> fetches'[d].alive,
                               ret |-> fetches'[d].ret, got |-> fetches'[d].got]
             /\ fetches'[d].ret = "ok" => fetches'[d].got = CmdCfg[d].id
  <2>1. CASE d = c
    BY <1>2, <1>3, <2>1
  <2>2. CASE d # c
    BY <1>1, <1>3, <2>2 DEF BodyIsAsked
  <2> QED BY <2>1, <2>2
<1> QED BY <1>3, <1>4 DEF BodyIsAsked

\* A step of a caller leaves the answers alone.
LEMMA CallerKeeps ==
  ASSUME NntpIInv, UNCHANGED <<result, reader>>, pending' \in Seq(Cmd), NEW c \in Cmd, NEW next,
         \/ fetches' = goes(c, next)
         \/ fetches' = [fetches EXCEPT ![c].alive = FALSE]
         \/ \E ret, id : fetches' = returns(c, ret, id) /\ (ret = "ok" => id = CmdCfg[c].id)
  PROVE  NntpIInv'
<1>1. /\ fetches' = [d \in Cmd |-> fetches'[d]]
      /\ \A d \in Cmd : fetches'[d] = [pc |-> fetches'[d].pc, alive |-> fetches'[d].alive,
                                       ret |-> fetches'[d].ret, got |-> fetches'[d].got]
      /\ BodyIsAsked'
  BY FetchMoves
<1>2. AnswersChecked'
  BY DEF NntpIInv, AnswersChecked
<1> QED BY <1>1, <1>2 DEF NntpIInv

LEMMA CallingStep ==
  ASSUME NntpIInv, NEW c \in Cmd, CallSteps(c) \/ Cancel(c)
  PROVE  NntpIInv'
<1>0. pending \in Seq(Cmd)
  BY DEF NntpIInv
<1>1. CASE Call(c)
  <2>1. /\ UNCHANGED <<result, reader, pending>>
        /\ fetches' = returns(c, "err", NoId) \/ fetches' = goes(c, "acquire")
    BY <1>1 DEF Call
  <2> QED BY <1>0, <2>1, CallerKeeps
<1>2. CASE Acquire(c)
  <2>1. /\ UNCHANGED <<result, reader, pending>>
        /\ \/ fetches' = returns(c, "err", NoId) \/ fetches' = goes(c, "slot")
           \/ fetches' = returns(c, "cancelled", NoId)
    BY <1>2 DEF Acquire
  <2> QED BY <1>0, <2>1, CallerKeeps
<1>3. CASE submit(c)
  <2>1. /\ UNCHANGED <<result, reader>> /\ (pending' = pending \/ pending' = Append(pending, c))
        /\ fetches' = returns(c, "err", NoId) \/ fetches' = goes(c, "write")
    BY <1>3 DEF submit
  <2>2. pending' \in Seq(Cmd)
    BY <1>0, <2>1
  <2> QED BY <2>1, <2>2, CallerKeeps
<1>4. CASE WriteCommand(c)
  <2>1. /\ UNCHANGED <<result, reader>> /\ (pending' = pending \/ pending' = unappendPending(c))
        /\ fetches' = returns(c, "err", NoId) \/ fetches' = goes(c, "wait")
    BY <1>4 DEF WriteCommand
  <2>2. pending' \in Seq(Cmd)
    BY <1>0, <2>1 DEF unappendPending
  <2> QED BY <2>1, <2>2, CallerKeeps
<1>5. CASE Return(c)
  <2>1. UNCHANGED <<result, reader, pending>>
    BY <1>5 DEF Return
  <2>2. CASE fetches' = returns(c, "cancelled", NoId)
    BY <1>0, <2>1, <2>2, CallerKeeps
  <2>3. CASE fetches' = returns(c, CASE result[c].code = successCode(c) -> "ok"
                                     [] result[c].code = "430" -> "no"
                                     [] OTHER -> "err", result[c].id)
    <3> DEFINE ret == CASE result[c].code = successCode(c) -> "ok"
                        [] result[c].code = "430" -> "no"
                        [] OTHER -> "err"
    <3>1. successCode(c) # "430"
      BY DEF successCode
    <3>2. ret = "ok" => result[c].code = successCode(c)
      BY <3>1
    <3>3. ret = "ok" => result[c].id = CmdCfg[c].id
      BY <3>2 DEF NntpIInv, AnswersChecked, Trusted
    <3>4. fetches' = returns(c, ret, result[c].id)
      BY <2>3
    <3> HIDE DEF ret
    <3> QED BY <1>0, <2>1, <3>3, <3>4, CallerKeeps
  <2> QED BY <1>5, <2>2, <2>3 DEF Return
<1>6. CASE Cancel(c)
  <2>1. UNCHANGED <<result, reader, pending>> /\ fetches' = [fetches EXCEPT ![c].alive = FALSE]
    BY <1>6 DEF Cancel
  <2> QED BY <1>0, <2>1, CallerKeeps
<1> QED BY <1>1, <1>2, <1>3, <1>4, <1>5, <1>6 DEF CallSteps

\* An answer is delivered to one command; a failure is nobody's success.
LEMMA Delivers ==
  ASSUME NntpIInv, NEW c \in Cmd, NEW r, result' = delivered(c, r), Trusted(c, r)
  PROVE  /\ result' = [d \in Cmd |-> result'[d]]
         /\ \A d \in Cmd : Trusted(d, result'[d])
<1>1. /\ result' = [d \in Cmd |-> result'[d]] /\ result'[c] = r
      /\ \A d \in Cmd : d # c => result'[d] = result[d]
  BY DEF NntpIInv, delivered
<1> QED BY <1>1 DEF NntpIInv, AnswersChecked

LEMMA FailureIsTrusted == \A c : Trusted(c, Failure)
BY DEF Trusted, Failure, Line, successCode

\* The reader ends a command, or the connection.
LEMMA CompletesStep ==
  ASSUME NntpIInv, NEW c \in Cmd, NEW r, Trusted(c, r), completes(c, r) \/ failPopped(c)
  PROVE  /\ result' = [d \in Cmd |-> result'[d]]
         /\ reader' = [pc |-> reader'.pc, cmd |-> reader'.cmd, line |-> reader'.line]
         /\ AnswersChecked'
<1>1. /\ result' = [d \in Cmd |-> result'[d]]
      /\ \A d \in Cmd : Trusted(d, result'[d])
  BY Delivers, FailureIsTrusted DEF completes, failPopped
<1>2. /\ reader' = [pc |-> reader'.pc, cmd |-> reader'.cmd, line |-> reader'.line]
      /\ reader'.cmd = {}
  BY DEF NntpIInv, completes, failPopped, fails
<1> QED BY <1>1, <1>2 DEF AnswersChecked, Trusted

LEMMA ReadLineStep ==
  ASSUME NntpIInv, ReadLine
  PROVE  NntpIInv'
<1> DEFINE r == Head(fromServer)
           c == Head(pending)
<1>1. fetches' = fetches
  BY DEF ReadLine
<1>2. BodyIsAsked'
  BY <1>1 DEF NntpIInv, BodyIsAsked
<1>3. /\ pending' \in Seq(Cmd) /\ result' = [d \in Cmd |-> result'[d]]
      /\ reader' = [pc |-> reader'.pc, cmd |-> reader'.cmd, line |-> reader'.line]
      /\ AnswersChecked'
  <2>1. CASE pending = <<>>
    BY <2>1 DEF ReadLine, fails, NntpIInv, AnswersChecked, Trusted
  <2>2. CASE pending # <<>>
    <3>1. c \in Cmd /\ Tail(pending) \in Seq(Cmd) /\ pending' = Tail(pending)
      BY <2>2 DEF ReadLine, NntpIInv
    <3>2. CASE ~Trusted(c, r)
      <4>1. failPopped(c)
        BY <2>2, <3>2 DEF ReadLine
      <4> QED BY <3>1, <4>1, CompletesStep, FailureIsTrusted
    <3>3. CASE Trusted(c, r) /\ completes(c, r)
      BY <3>1, <3>3, CompletesStep
    <3>4. CASE Trusted(c, r) /\ result' = result /\ reader' = [reader EXCEPT !.pc = "body", !.cmd = {c}, !.line = r]
      <4>1. reader' = [pc |-> "body", cmd |-> {c}, line |-> r]
        BY <3>4 DEF NntpIInv
      <4> HIDE DEF c, r
      <4>2. AnswersChecked'
        BY <3>1, <3>4, <4>1 DEF NntpIInv, AnswersChecked, Trusted
      <4> QED BY <3>1, <3>4, <4>1, <4>2 DEF NntpIInv
    <3> QED BY <2>2, <3>2, <3>3, <3>4 DEF ReadLine
  <2> QED BY <2>1, <2>2
<1> QED BY <1>1, <1>2, <1>3 DEF NntpIInv

LEMMA ReadBodyStep ==
  ASSUME NntpIInv, ReadBody
  PROVE  NntpIInv'
<1>1. UNCHANGED <<fetches, pending>>
  BY DEF ReadBody
<1>2. PICK c \in reader.cmd : completes(c, reader.line) \/ failPopped(c)
  BY DEF ReadBody
<1>3. c \in Cmd /\ Trusted(c, reader.line)
  BY DEF NntpIInv, AnswersChecked
<1>4. /\ result' = [d \in Cmd |-> result'[d]]
      /\ reader' = [pc |-> reader'.pc, cmd |-> reader'.cmd, line |-> reader'.line]
      /\ AnswersChecked'
  BY <1>2, <1>3, CompletesStep
<1> QED BY <1>1, <1>4 DEF NntpIInv, BodyIsAsked

\* The other steps give no success to anybody.
LEMMA TeardownStep ==
  ASSUME NntpIInv,
         \/ Dialling \/ Close \/ Answer \/ Stray \/ ServerDrops \/ UNCHANGED nntpVars
         \/ ReadFails \/ FinishReader \/ wakeOrphans \/ ReaderExits
  PROVE  NntpIInv'
<1>1. /\ fetches' = fetches /\ (pending' = pending \/ pending' = <<>>)
      /\ \/ result' = result
         \/ result' = [c \in Cmd |-> IF \E i \in DOMAIN pending : pending[i] = c THEN Failure ELSE result[c]]
  BY DEF Dialling, Close, Answer, Stray, ServerDrops, nntpVars, connVars, ReadFails, FinishReader,
         wakeOrphans, ReaderExits, expectGreeting, authenticate, Ready, HandshakeFails, offline
<1>2. /\ reader' = [pc |-> reader'.pc, cmd |-> reader'.cmd, line |-> reader'.line]
      /\ reader'.cmd \subseteq reader.cmd /\ reader'.line \in {reader.line, NoLine}
  <2>0. reader = [pc |-> reader.pc, cmd |-> reader.cmd, line |-> reader.line]
    BY DEF NntpIInv
  <2>1. CASE Ready
    BY <2>0, <2>1 DEF Ready
  <2>2. CASE ReadFails
    BY <2>0, <2>2 DEF ReadFails, fails
  <2>3. CASE ReaderExits
    BY <2>0, <2>3 DEF ReaderExits
  <2>4. CASE reader' = reader
    BY <2>0, <2>4
  <2> QED BY <2>1, <2>2, <2>3, <2>4 DEF Dialling, Close, Answer, Stray, ServerDrops, nntpVars, connVars,
            FinishReader, wakeOrphans, expectGreeting, authenticate, HandshakeFails
<1>3. \A c : Trusted(c, NoLine)
  BY DEF Trusted, NoLine, Line, successCode
<1>4. /\ result' = [c \in Cmd |-> result'[c]]
      /\ \A c \in Cmd : result'[c] \in {result[c], Failure}
  BY <1>1 DEF NntpIInv
<1>5. AnswersChecked'
  <2>1. \A c \in Cmd : Trusted(c, result'[c])
    BY <1>4, FailureIsTrusted DEF NntpIInv, AnswersChecked
  <2>2. \A c \in reader'.cmd : c \in Cmd /\ Trusted(c, reader'.line)
    BY <1>2, <1>3 DEF NntpIInv, AnswersChecked
  <2> QED BY <2>1, <2>2 DEF AnswersChecked, Trusted
<1>6. pending' \in Seq(Cmd)
  <2>1. pending \in Seq(Cmd) /\ <<>> \in Seq(Cmd)
    BY DEF NntpIInv
  <2> QED BY <1>1, <2>1
<1>7. BodyIsAsked'
  BY <1>1 DEF NntpIInv, BodyIsAsked
<1> QED BY <1>1, <1>2, <1>4, <1>5, <1>6, <1>7 DEF NntpIInv

LEMMA NntpNextInv == NntpIInv /\ [NntpNext]_nntpVars => NntpIInv'
<1> SUFFICES ASSUME NntpIInv, [NntpNext]_nntpVars PROVE NntpIInv'
  OBVIOUS
<1>1. ASSUME NEW c \in Cmd, CallSteps(c) \/ Cancel(c) PROVE NntpIInv'
  BY <1>1, CallingStep
<1> QED BY <1>1, ReadLineStep, ReadBodyStep, TeardownStep DEF NntpNext, Reading

\* Fetch and Stat never return another article's answer as a success, however
\* stray lines, cancelled callers and teardowns shift the pairing of responses
\* with commands: for any commands and any number of faults of the server.
THEOREM BodyIsAlwaysAsked == NntpSpec => []BodyIsAsked
<1>1. NntpIInv => BodyIsAsked
  BY DEF NntpIInv
<1> QED BY <1>1, NntpInitInv, NntpNextInv, PTL DEF NntpSpec

-----------------------------------------------------------------------------
(* The watched folder.                                                       *)

LEMMA IngestInitInv == IngestInit => IngestIInv
<1> SUFFICES ASSUME IngestInit PROVE IngestIInv
  OBVIOUS
<1>1. /\ scan = [pc |-> "idle", todo |-> {}, file |-> {}, item |-> 0, good |-> 0, seen |-> {}]
      /\ \A a \in Adders : adder[a] = Free
      /\ Free = [pc |-> "idle", nzb |-> {}, name |-> <<>>, dup |-> FALSE]
      /\ adder = [a \in Adders |-> adder[a]]
      /\ whereabouts = [f \in DroppedFiles |-> "out"]
  BY DEF IngestInit, Nothing, Free
<1>4. \A a \in Adders : adder[a] = [pc |-> adder[a].pc, nzb |-> adder[a].nzb,
                                    name |-> adder[a].name, dup |-> adder[a].dup]
  BY <1>1
<1>2. RegisteredIsMade
  BY <1>1, <1>4 DEF RegisteredIsMade
<1>3. GoodIsMade /\ QueuedBeforeRemoved
  BY <1>1 DEF GoodIsMade, QueuedBeforeRemoved
<1> QED BY <1>1, <1>2, <1>3 DEF IngestIInv

\* The fields of an AddJob.
LEMMA AdderPc ==
  ASSUME NEW r, r = [pc |-> r.pc, nzb |-> r.nzb, name |-> r.name, dup |-> r.dup], NEW p
  PROVE  [r EXCEPT !.pc = p] = [pc |-> p, nzb |-> r.nzb, name |-> r.name, dup |-> r.dup]
OBVIOUS

LEMMA AdderName ==
  ASSUME NEW r, r = [pc |-> r.pc, nzb |-> r.nzb, name |-> r.name, dup |-> r.dup], NEW p, NEW m
  PROVE  [r EXCEPT !.pc = p, !.name = m] = [pc |-> p, nzb |-> r.nzb, name |-> m, dup |-> r.dup]
<1> SUFFICES ASSUME NEW s, s = [r EXCEPT !.pc = p, !.name = m] PROVE s = [pc |-> p, nzb |-> r.nzb, name |-> m, dup |-> r.dup]
  OBVIOUS
<1> QED OBVIOUS

LEMMA AdderNzb ==
  ASSUME NEW r, r = [pc |-> r.pc, nzb |-> r.nzb, name |-> r.name, dup |-> r.dup], NEW p, NEW m
  PROVE  [r EXCEPT !.pc = p, !.nzb = m] = [pc |-> p, nzb |-> m, name |-> r.name, dup |-> r.dup]
<1> SUFFICES ASSUME NEW s, s = [r EXCEPT !.pc = p, !.nzb = m] PROVE s = [pc |-> p, nzb |-> m, name |-> r.name, dup |-> r.dup]
  OBVIOUS
<1> QED OBVIOUS

\* One AddJob changes: it has at most one NZB, registered if it says so.
LEMMA AdderChanges ==
  ASSUME IngestIInv, NEW a \in Adders, NEW r, adder' = [adder EXCEPT ![a] = r],
         r = [pc |-> r.pc, nzb |-> r.nzb, name |-> r.name, dup |-> r.dup],
         \A n, o \in r.nzb : n = o, made \subseteq made',
         r.pc \in {"rows", "added"} => \A n \in r.nzb : n.nzb \in made'
  PROVE  /\ RegisteredIsMade' /\ adder'[a] = r
         /\ \A b \in Adders : b # a => adder'[b] = adder[b]
<1>1. /\ adder' = [b \in Adders |-> adder'[b]] /\ adder'[a] = r
      /\ \A b \in Adders : b # a => adder'[b] = adder[b]
  BY DEF IngestIInv, RegisteredIsMade
<1>2. ASSUME NEW b \in Adders
      PROVE  /\ adder'[b] = [pc |-> adder'[b].pc, nzb |-> adder'[b].nzb,
                             name |-> adder'[b].name, dup |-> adder'[b].dup]
             /\ \A n, o \in adder'[b].nzb : n = o
             /\ adder'[b].pc \in {"rows", "added"} => \A n \in adder'[b].nzb : n.nzb \in made'
  <2>1. CASE b = a
    BY <1>1, <2>1
  <2>2. CASE b # a
    BY <1>1, <2>2 DEF IngestIInv, RegisteredIsMade
  <2> QED BY <2>1, <2>2
<1> QED BY <1>1, <1>2 DEF RegisteredIsMade

\* An AddJob moves, keeping its NZB.
LEMMA AdderMoves ==
  ASSUME IngestIInv, NEW a \in Adders, NEW p, NEW m, NEW d,
         adder' = [adder EXCEPT ![a] = [pc |-> p, nzb |-> adder[a].nzb, name |-> m, dup |-> d]],
         made \subseteq made', UNCHANGED <<scan, whereabouts>>,
         p \in {"rows", "added"} => \A n \in adder[a].nzb : n.nzb \in made'
  PROVE  IngestIInv'
<1> DEFINE r == [pc |-> p, nzb |-> adder[a].nzb, name |-> m, dup |-> d]
<1>1. r.pc = p /\ r.nzb = adder[a].nzb /\ r = [pc |-> r.pc, nzb |-> r.nzb, name |-> r.name, dup |-> r.dup]
  OBVIOUS
<1>2. adder' = [adder EXCEPT ![a] = r]
  OBVIOUS
<1> HIDE DEF r
<1>3. \A n, o \in r.nzb : n = o
  BY <1>1 DEF IngestIInv, RegisteredIsMade
<1>8. r.pc \in {"rows", "added"} => \A n \in r.nzb : n.nzb \in made'
  BY <1>1
<1>4. /\ RegisteredIsMade' /\ adder'[a] = r
      /\ \A b \in Adders : b # a => adder'[b] = adder[b]
  BY <1>1, <1>2, <1>3, <1>8, AdderChanges, Zenon
<1>5. \A b \in Adders : adder'[b].nzb = adder[b].nzb
  BY <1>1, <1>4
<1>6. GoodIsMade'
  BY <1>5 DEF IngestIInv, GoodIsMade, Adders
<1>7. QueuedBeforeRemoved'
  BY DEF IngestIInv, QueuedBeforeRemoved
<1> QED BY <1>4, <1>6, <1>7 DEF IngestIInv

LEMMA AddStep ==
  ASSUME IngestIInv, NEW a \in Adders, AddSteps(a)
  PROVE  IngestIInv'
<1> DEFINE r == adder[a]
<1>1. /\ r = [pc |-> r.pc, nzb |-> r.nzb, name |-> r.name, dup |-> r.dup] /\ adder = [b \in Adders |-> adder[b]]
      /\ \A n, o \in r.nzb : n = o
  BY DEF IngestIInv, RegisteredIsMade
<1>2. ASSUME NEW p PROVE [adder EXCEPT ![a].pc = p] =
        [adder EXCEPT ![a] = [pc |-> p, nzb |-> r.nzb, name |-> r.name, dup |-> r.dup]]
  BY <1>1, AdderPc
<1>3. CASE Detect(a)
  <2>1. PICK n \in r.nzb, sums \in {past, {}} :
          adder' = [adder EXCEPT ![a].pc = "name", ![a].dup = isDuplicate(n, sums)]
    BY <1>3 DEF Detect
  <2> DEFINE d == isDuplicate(n, sums)
  <2>2. adder' = [adder EXCEPT ![a].pc = "name", ![a].dup = d]
    BY <2>1
  <2> HIDE DEF d
  <2>3. adder' = [adder EXCEPT ![a] = [r EXCEPT !.pc = "name", !.dup = d]]
    BY <1>1, <2>2
  <2>6. [r EXCEPT !.pc = "name", !.dup = d] = [pc |-> "name", nzb |-> r.nzb, name |-> r.name, dup |-> d]
    <3> HIDE DEF r
    <3>1. r = [pc |-> r.pc, nzb |-> r.nzb, name |-> r.name, dup |-> r.dup]
      BY <1>1
    <3> SUFFICES ASSUME NEW s, s = [r EXCEPT !.pc = "name", !.dup = d]
                 PROVE  s = [pc |-> "name", nzb |-> r.nzb, name |-> r.name, dup |-> d]
      OBVIOUS
    <3> QED BY <3>1
  <2>4. adder' = [adder EXCEPT ![a] = [pc |-> "name", nzb |-> r.nzb, name |-> r.name, dup |-> d]]
    BY <2>3, <2>6
  <2>5. made' = made /\ UNCHANGED <<scan, whereabouts>>
    BY <1>3 DEF Detect, folder
  <2>7. "name" \notin {"rows", "added"} /\ made \subseteq made'
    BY <2>5
  <2> QED BY <2>4, <2>5, <2>7, AdderMoves
<1>4. CASE Name(a)
  <2>1. PICK m : adder' = [adder EXCEPT ![a].pc = "backup", ![a].name = m]
    BY <1>4 DEF Name
  <2>3. adder' = [adder EXCEPT ![a] = [r EXCEPT !.pc = "backup", !.name = m]]
    BY <1>1, <2>1
  <2>4. adder' = [adder EXCEPT ![a] = [pc |-> "backup", nzb |-> r.nzb, name |-> m, dup |-> r.dup]]
    BY <1>1, <2>3, AdderName
  <2>5. made' = made /\ UNCHANGED <<scan, whereabouts>>
    BY <1>4 DEF Name, folder
  <2>7. "backup" \notin {"rows", "added"} /\ made \subseteq made'
    BY <2>5
  <2> QED BY <2>4, <2>5, <2>7, AdderMoves
<1>5. CASE Backup(a) \/ WriteManifest(a)
  <2>1. PICK p \in {"manifest", "register", "failed"} : adder' = [adder EXCEPT ![a].pc = p]
    BY <1>5 DEF Backup, WriteManifest, steps
  <2>2. made' = made /\ UNCHANGED <<scan, whereabouts>>
    BY <1>5 DEF Backup, WriteManifest, folder
  <2>3. adder' = [adder EXCEPT ![a] = [pc |-> p, nzb |-> r.nzb, name |-> r.name, dup |-> r.dup]]
    BY <1>2, <2>1
  <2>4. p \notin {"rows", "added"} /\ made \subseteq made'
    BY <2>1, <2>2
  <2> QED BY <2>2, <2>3, <2>4, AdderMoves
<1>6. CASE InsertRows(a)
  <2>1. PICK p \in {"added", "cancelled", "failed"} : adder' = [adder EXCEPT ![a].pc = p]
    BY <1>6 DEF InsertRows, steps
  <2>2. made' = made /\ UNCHANGED <<scan, whereabouts>> /\ r.pc = "rows"
    BY <1>6 DEF InsertRows, folder
  <2>3. \A n \in r.nzb : n.nzb \in made
    BY <2>2 DEF IngestIInv, RegisteredIsMade
  <2>4. adder' = [adder EXCEPT ![a] = [pc |-> p, nzb |-> r.nzb, name |-> r.name, dup |-> r.dup]]
    BY <1>2, <2>1
  <2> QED BY <2>2, <2>3, <2>4, AdderMoves
<1>7. CASE Register(a)
  <2>1. adder' = [adder EXCEPT ![a].pc = "rows"] /\ UNCHANGED <<scan, whereabouts>>
    BY <1>7 DEF Register, steps, folder
  <2>2. PICK n \in r.nzb : made' = made \cup {n.nzb}
    BY <1>7 DEF Register
  <2>3. \A o \in r.nzb : o.nzb \in made'
    BY <1>1, <2>2
  <2>4. adder' = [adder EXCEPT ![a] = [pc |-> "rows", nzb |-> r.nzb, name |-> r.name, dup |-> r.dup]]
    BY <1>2, <2>1
  <2>5. made \subseteq made' /\ UNCHANGED <<scan, whereabouts>>
    BY <2>1, <2>2
  <2>6. \A o \in adder[a].nzb : o.nzb \in made'
    BY <2>3
  <2> QED BY <2>4, <2>5, <2>6, AdderMoves
<1> QED BY <1>3, <1>4, <1>5, <1>6, <1>7 DEF AddSteps

\* A new AddJob begins: for the upload, or for the NZB the scanner is at.
LEMMA Begins ==
  ASSUME IngestIInv, NEW a \in Adders, NEW n, beginsAdd(a, n), made' = made
  PROVE  /\ RegisteredIsMade' /\ adder'[a].nzb = {n}
         /\ \A b \in Adders : b # a => adder'[b] = adder[b]
<1> DEFINE r == [pc |-> "dup", nzb |-> {n}, name |-> <<>>, dup |-> FALSE]
<1>1. adder' = [adder EXCEPT ![a] = [Free EXCEPT !.pc = "dup", !.nzb = {n}]]
  BY DEF beginsAdd
<1>2. Free = [pc |-> Free.pc, nzb |-> Free.nzb, name |-> Free.name, dup |-> Free.dup]
      /\ Free.name = <<>> /\ Free.dup = FALSE
  BY DEF Free
<1>3. [Free EXCEPT !.pc = "dup", !.nzb = {n}] = r
  <2>1. [Free EXCEPT !.pc = "dup", !.nzb = {n}] =
          [pc |-> "dup", nzb |-> {n}, name |-> Free.name, dup |-> Free.dup]
    BY <1>2, AdderNzb, Zenon
  <2> QED BY <1>2, <2>1, Zenon
<1>4. /\ r = [pc |-> r.pc, nzb |-> r.nzb, name |-> r.name, dup |-> r.dup] /\ r.nzb = {n}
      /\ r.pc = "dup"
  OBVIOUS
<1>5. adder' = [adder EXCEPT ![a] = r]
  BY <1>1, <1>3
<1> HIDE DEF r
<1>6. /\ \A m, o \in r.nzb : m = o
      /\ r.pc \in {"rows", "added"} => \A m \in r.nzb : m.nzb \in made'
      /\ made \subseteq made'
  BY <1>4
<1>7. /\ RegisteredIsMade' /\ adder'[a] = r
      /\ \A b \in Adders : b # a => adder'[b] = adder[b]
  BY <1>4, <1>5, <1>6, AdderChanges, Zenon
<1> QED BY <1>4, <1>7

LEMMA ApiAddStep ==
  ASSUME IngestIInv, ApiAdd
  PROVE  IngestIInv'
<1>1. beginsAdd("api", Upload) /\ UNCHANGED <<scan, whereabouts, made>> /\ "api" \in Adders
  BY DEF ApiAdd, folder, Adders
<1>2. RegisteredIsMade' /\ \A b \in Adders : b # "api" => adder'[b] = adder[b]
  BY <1>1, Begins
<1>3. adder'["scan"] = adder["scan"]
  BY <1>2 DEF Adders
<1>4. GoodIsMade'
  BY <1>1, <1>3 DEF IngestIInv, GoodIsMade
<1>5. QueuedBeforeRemoved'
  BY <1>1 DEF IngestIInv, QueuedBeforeRemoved
<1> QED BY <1>1, <1>2, <1>4, <1>5 DEF IngestIInv

\* A scan that hands over nothing, and everything beside the scan.
LEMMA ScanMoves ==
  ASSUME IngestIInv, UNCHANGED <<adder, made>>,
         whereabouts' = [f \in DroppedFiles |-> whereabouts'[f]],
         \A f \in DroppedFiles : whereabouts'[f] = "gone" => whereabouts[f] = "gone",
         scan' = [pc |-> scan'.pc, todo |-> scan'.todo, file |-> scan'.file, item |-> scan'.item,
                  good |-> scan'.good, seen |-> scan'.seen],
         \/ scan'.file = {}
         \/ scan'.file = scan.file /\ scan'.item = scan.item /\ scan'.good = scan.good
            /\ (scan'.pc = "adding" => scan.pc = "adding")
         \/ \E f \in DroppedFiles : scan'.file = {f} /\ scan'.item = 1 /\ scan'.good = 0
                                   /\ scan'.pc = "open"
  PROVE  IngestIInv'
<1>1. RegisteredIsMade'
  BY DEF IngestIInv, RegisteredIsMade
<1>2. QueuedBeforeRemoved'
  BY DEF IngestIInv, QueuedBeforeRemoved
<1>3. GoodIsMade'
  <2>1. CASE scan'.file = {}
    BY <2>1 DEF GoodIsMade
  <2>2. CASE scan'.file = scan.file /\ scan'.item = scan.item /\ scan'.good = scan.good
             /\ (scan'.pc = "adding" => scan.pc = "adding")
    BY <2>2 DEF IngestIInv, GoodIsMade
  <2>3. ASSUME NEW f \in DroppedFiles, scan'.file = {f}, scan'.item = 1, scan'.good = 0, scan'.pc = "open"
        PROVE  GoodIsMade'
    <3>1. Len(Content[f]) \in Nat
      BY IngestAssumption
    <3> QED BY <2>3, <3>1 DEF GoodIsMade
  <2> QED BY <2>1, <2>2, <2>3
<1> QED BY <1>1, <1>2, <1>3 DEF IngestIInv

\* Of the scanner's steps only the last of a file removes it.
LEMMA ScanStep ==
  ASSUME IngestIInv,
         \/ ScanStart \/ ScanCancelled \/ ScanEnd \/ Tick \/ CancelScan
         \/ \E j \in jobs : MakeDirectory(j) \/ FileJob(j)
         \/ UNCHANGED ingestVars
         \/ \E f \in DroppedFiles : ScanFile(f) \/ OpenDropped(f) \/ Drop(f) \/ FinishDrop(f)
  PROVE  IngestIInv'
<1>0. /\ scan = [pc |-> scan.pc, todo |-> scan.todo, file |-> scan.file, item |-> scan.item,
                 good |-> scan.good, seen |-> scan.seen]
      /\ whereabouts = [f \in DroppedFiles |-> whereabouts[f]]
  BY DEF IngestIInv
<1>1. CASE ScanStart
  <2>1. PICK t : scan' = [pc |-> "file", todo |-> t, file |-> {}, item |-> 0, good |-> 0, seen |-> {}]
    BY <1>1 DEF ScanStart, Nothing
  <2>2. UNCHANGED <<adder, made, whereabouts>>
    BY <1>1 DEF ScanStart, quietly, goesOn, queueVars
  <2> QED BY <1>0, <2>1, <2>2, ScanMoves
<1>2. CASE ScanEnd \/ ScanCancelled
  <2>1. scan' = [pc |-> "idle", todo |-> {}, file |-> {}, item |-> 0, good |-> 0, seen |-> {}]
    BY <1>2 DEF ScanEnd, ScanCancelled, Nothing
  <2>2. UNCHANGED <<adder, made, whereabouts>>
    BY <1>2 DEF ScanEnd, ScanCancelled, quietly, goesOn, queueVars
  <2> QED BY <1>0, <2>1, <2>2, ScanMoves
<1>3. CASE UNCHANGED <<scan, adder, made, whereabouts>>
  BY <1>0, <1>3, ScanMoves
<1>4. ASSUME NEW f \in DroppedFiles, Drop(f) PROVE IngestIInv'
  <2>1. UNCHANGED <<adder, made, scan>> /\ whereabouts' = [whereabouts EXCEPT ![f] = "in"]
    BY <1>4 DEF Drop, quietly, goesOn, queueVars
  <2>2. /\ whereabouts' = [g \in DroppedFiles |-> whereabouts'[g]]
        /\ \A g \in DroppedFiles : whereabouts'[g] = "gone" => whereabouts[g] = "gone"
    BY <1>0, <2>1
  <2> QED BY <1>0, <2>1, <2>2, ScanMoves
<1>5. ASSUME NEW f \in DroppedFiles, ScanFile(f) PROVE IngestIInv'
  <2>1. UNCHANGED <<adder, made, whereabouts>>
    BY <1>5 DEF ScanFile, goesOn, queueVars
  <2>2. CASE scan' = [scan EXCEPT !.pc = "open", !.todo = @ \ {f}, !.file = {f}, !.seen = @ \cup {f},
                                  !.item = 1, !.good = 0]
    <3>1. scan' = [pc |-> "open", todo |-> scan.todo \ {f}, file |-> {f}, item |-> 1, good |-> 0,
                   seen |-> scan.seen \cup {f}]
      BY <1>0, <2>2
    <3> QED BY <1>0, <2>1, <3>1, ScanMoves
  <2>3. CASE scan' = [scan EXCEPT !.todo = @ \ {f}, !.seen = @ \cup {f}]
    <3>1. scan' = [pc |-> scan.pc, todo |-> scan.todo \ {f}, file |-> scan.file, item |-> scan.item,
                   good |-> scan.good, seen |-> scan.seen \cup {f}]
      BY <1>0, <2>3
    <3> QED BY <1>0, <2>1, <3>1, ScanMoves
  <2> QED BY <1>5, <2>2, <2>3 DEF ScanFile
<1>6. ASSUME NEW f \in DroppedFiles, OpenDropped(f) PROVE IngestIInv'
  <2>1. PICK p \in {"next", "settle"} : scan' = [scan EXCEPT !.pc = p]
    BY <1>6 DEF OpenDropped
  <2>2. UNCHANGED <<adder, made, whereabouts>>
    BY <1>6 DEF OpenDropped, quietly, goesOn, queueVars
  <2>3. scan' = [pc |-> p, todo |-> scan.todo, file |-> scan.file, item |-> scan.item,
                 good |-> scan.good, seen |-> scan.seen]
    BY <1>0, <2>1
  <2> QED BY <1>0, <2>1, <2>2, <2>3, ScanMoves
<1>7. CASE Tick \/ CancelScan \/ UNCHANGED ingestVars \/ \E j \in jobs : MakeDirectory(j) \/ FileJob(j)
  <2>1. UNCHANGED <<scan, adder, made, whereabouts>>
    BY <1>7 DEF Tick, CancelScan, MakeDirectory, FileJob, folder, ingestVars, queueVars
  <2> QED BY <1>3, <2>1
<1>8. ASSUME NEW f \in DroppedFiles, FinishDrop(f) PROVE IngestIInv'
  <2>1. UNCHANGED <<scan, adder, made, whereabouts>>
    BY <1>8 DEF FinishDrop, quietly, goesOn, queueVars
  <2> QED BY <1>3, <2>1
<1> QED BY <1>1, <1>2, <1>4, <1>5, <1>6, <1>7, <1>8

\* The scanner hands over the next NZB of its file, or is through with it.
LEMMA HandleNextStep ==
  ASSUME IngestIInv, NEW f \in DroppedFiles, HandleNext(f)
  PROVE  IngestIInv'
<1>0. /\ scan = [pc |-> scan.pc, todo |-> scan.todo, file |-> scan.file, item |-> scan.item,
                 good |-> scan.good, seen |-> scan.seen]
      /\ whereabouts = [g \in DroppedFiles |-> whereabouts[g]]
  BY DEF IngestIInv
<1>1. scan.file = {f} /\ UNCHANGED <<whereabouts, made>>
  BY DEF HandleNext, queueVars
<1>2. CASE scan.item <= Len(Content[f])
  <2>1. scan' = [scan EXCEPT !.pc = "adding"] /\ beginsAdd("scan", Content[f][scan.item]) /\ "scan" \in Adders
    BY <1>2 DEF HandleNext, Adders
  <2>2. scan' = [pc |-> "adding", todo |-> scan.todo, file |-> scan.file, item |-> scan.item,
                 good |-> scan.good, seen |-> scan.seen]
    BY <1>0, <2>1
  <2>3. RegisteredIsMade' /\ adder'["scan"].nzb = {Content[f][scan.item]}
    BY <1>1, <2>1, Begins
  <2>4. GoodIsMade'
    BY <1>1, <1>2, <2>2, <2>3 DEF IngestIInv, GoodIsMade
  <2>5. QueuedBeforeRemoved'
    BY <1>1 DEF IngestIInv, QueuedBeforeRemoved
  <2> QED BY <1>0, <1>1, <2>2, <2>3, <2>4, <2>5 DEF IngestIInv
<1>3. CASE ~(scan.item <= Len(Content[f]))
  <2>1. scan' = [scan EXCEPT !.pc = "settle"] /\ adder' = adder
    BY <1>3 DEF HandleNext
  <2>2. scan' = [pc |-> "settle", todo |-> scan.todo, file |-> scan.file, item |-> scan.item,
                 good |-> scan.good, seen |-> scan.seen]
    BY <1>0, <2>1
  <2> QED BY <1>0, <1>1, <2>1, <2>2, ScanMoves
<1> QED BY <1>2, <1>3

\* An AddJob is over; it counts as good when its job was registered.
LEMMA HandledStep ==
  ASSUME IngestIInv, Handled
  PROVE  IngestIInv'
<1> DEFINE ok == adder["scan"].pc = "added"
           sum == IF ok THEN scan.good + 1 ELSE scan.good
<1>0. scan = [pc |-> scan.pc, todo |-> scan.todo, file |-> scan.file, item |-> scan.item,
              good |-> scan.good, seen |-> scan.seen]
  BY DEF IngestIInv
<1>1. /\ scan.pc = "adding" /\ UNCHANGED <<whereabouts, made>>
      /\ adder' = [adder EXCEPT !["scan"] = Free] /\ "scan" \in Adders
      /\ scan' = [scan EXCEPT !.pc = "next", !.item = @ + 1, !.good = sum]
  BY DEF Handled, queueVars, Adders
<1>2. scan' = [pc |-> "next", todo |-> scan.todo, file |-> scan.file, item |-> scan.item + 1,
               good |-> sum, seen |-> scan.seen]
  BY <1>0, <1>1
<1>3. /\ Free = [pc |-> Free.pc, nzb |-> Free.nzb, name |-> Free.name, dup |-> Free.dup]
      /\ Free.nzb = {} /\ Free.pc = "idle"
  BY DEF Free
<1>4. RegisteredIsMade'
  BY <1>1, <1>3, AdderChanges
<1>5. GoodIsMade'
  <2>1. /\ scan'.pc # "adding" /\ scan'.file = scan.file /\ made' = made
        /\ scan'.item = scan.item + 1 /\ scan'.good = sum
    BY <1>1, <1>2
  <2>2. ASSUME NEW f \in scan'.file
        PROVE  /\ f \in DroppedFiles /\ scan'.item \in Nat \ {0} /\ scan'.good \in Nat
               /\ scan'.good <= scan'.item - 1 /\ scan'.item - 1 <= Len(Content[f])
               /\ scan'.good = scan'.item - 1 =>
                    \A i \in 1..(scan'.item - 1) : Content[f][i].nzb \in made'
    <3>1. /\ f \in DroppedFiles /\ scan.item \in Nat \ {0} /\ scan.good \in Nat
          /\ scan.good <= scan.item - 1 /\ scan.item <= Len(Content[f]) /\ Len(Content[f]) \in Nat
          /\ scan.good = scan.item - 1 => \A i \in 1..(scan.item - 1) : Content[f][i].nzb \in made
          /\ adder["scan"].nzb = {Content[f][scan.item]}
      BY <1>1, <2>1, IngestAssumption DEF IngestIInv, GoodIsMade
    <3>2. ok => Content[f][scan.item].nzb \in made
      <4>1. ok => \A n \in adder["scan"].nzb : n.nzb \in made
        BY <1>1 DEF IngestIInv, RegisteredIsMade
      <4> QED BY <3>1, <4>1, Zenon
    <3>3. scan'.item - 1 = scan.item /\ (scan'.good = scan.item => ok /\ scan.good = scan.item - 1)
      BY <2>1, <3>1
    <3>4. /\ scan'.item \in Nat \ {0} /\ scan'.good \in Nat
          /\ scan'.good <= scan'.item - 1 /\ scan'.item - 1 <= Len(Content[f])
      BY <2>1, <3>1
    <3>5. ASSUME scan'.good = scan'.item - 1, NEW i \in 1..(scan'.item - 1)
          PROVE  Content[f][i].nzb \in made'
      <4>1. i = scan.item \/ i \in 1..(scan.item - 1)
        BY <3>1, <3>3
      <4> QED BY <2>1, <3>1, <3>2, <3>3, <3>5, <4>1
    <3> QED BY <3>1, <3>4, <3>5
  <2> QED BY <2>1, <2>2, Zenon DEF GoodIsMade
<1>6. QueuedBeforeRemoved'
  BY <1>1 DEF IngestIInv, QueuedBeforeRemoved
<1> QED BY <1>1, <1>2, <1>4, <1>5, <1>6 DEF IngestIInv

\* A file is removed when as many were sum as it holds.
LEMMA SettleStep ==
  ASSUME IngestIInv, NEW f \in DroppedFiles, SettleFile(f)
  PROVE  IngestIInv'
<1>0. /\ scan = [pc |-> scan.pc, todo |-> scan.todo, file |-> scan.file, item |-> scan.item,
                 good |-> scan.good, seen |-> scan.seen]
      /\ whereabouts = [g \in DroppedFiles |-> whereabouts[g]]
  BY DEF IngestIInv
<1>1. /\ scan.file = {f} /\ scan' = [scan EXCEPT !.pc = "file", !.file = {}]
      /\ UNCHANGED <<adder, made>>
  BY DEF SettleFile, queueVars
<1>2. scan' = [pc |-> "file", todo |-> scan.todo, file |-> {}, item |-> scan.item,
               good |-> scan.good, seen |-> scan.seen]
  BY <1>0, <1>1
<1>3. CASE outcome(f) = "all" /\ whereabouts' = [whereabouts EXCEPT ![f] = "gone"]
  <2>1. scan.good = Len(Content[f])
    BY <1>3 DEF outcome
  <2>2. \A i \in 1..Len(Content[f]) : Content[f][i].nzb \in made
    BY <1>1, <2>1, IngestAssumption DEF IngestIInv, GoodIsMade
  <2>3. /\ whereabouts' = [g \in DroppedFiles |-> whereabouts'[g]]
        /\ \A g \in DroppedFiles : g # f => whereabouts'[g] = whereabouts[g]
    BY <1>0, <1>3
  <2>4. QueuedBeforeRemoved'
    BY <1>1, <2>2, <2>3 DEF IngestIInv, QueuedBeforeRemoved
  <2>5. RegisteredIsMade' /\ GoodIsMade'
    BY <1>1, <1>2 DEF IngestIInv, RegisteredIsMade, GoodIsMade
  <2> QED BY <1>2, <2>3, <2>4, <2>5 DEF IngestIInv
<1>4. CASE whereabouts' = [whereabouts EXCEPT ![f] = "failed"]
  <2>1. /\ whereabouts' = [g \in DroppedFiles |-> whereabouts'[g]]
        /\ \A g \in DroppedFiles : whereabouts'[g] = "gone" => whereabouts[g] = "gone"
    BY <1>0, <1>4
  <2> QED BY <1>1, <1>2, <2>1, ScanMoves
<1>5. CASE whereabouts' = whereabouts
  BY <1>0, <1>1, <1>2, <1>5, ScanMoves
<1> QED BY <1>3, <1>4, <1>5 DEF SettleFile

\* A crash forgets the scan and both AddJobs; what was made stays made.
LEMMA CrashStep ==
  ASSUME IngestIInv, Crash
  PROVE  IngestIInv'
<1>1. /\ scan' = [pc |-> "idle", todo |-> {}, file |-> {}, item |-> 0, good |-> 0, seen |-> {}]
      /\ UNCHANGED <<whereabouts, made>>
      /\ adder' = [a \in Adders |-> IF a = "api" THEN [Free EXCEPT !.pc = "over"] ELSE Free]
  BY DEF Crash, Nothing
<1>2. /\ Free = [pc |-> "idle", nzb |-> {}, name |-> <<>>, dup |-> FALSE]
      /\ [Free EXCEPT !.pc = "over"] = [pc |-> "over", nzb |-> {}, name |-> <<>>, dup |-> FALSE]
  <2>1. Free = [pc |-> "idle", nzb |-> {}, name |-> <<>>, dup |-> FALSE]
    BY DEF Free
  <2>2. /\ Free = [pc |-> Free.pc, nzb |-> Free.nzb, name |-> Free.name, dup |-> Free.dup]
        /\ Free.nzb = {} /\ Free.name = <<>> /\ Free.dup = FALSE
    BY <2>1
  <2>3. [Free EXCEPT !.pc = "over"] = [pc |-> "over", nzb |-> Free.nzb, name |-> Free.name, dup |-> Free.dup]
    BY <2>2, AdderPc, Zenon
  <2> QED BY <2>1, <2>2, <2>3, Zenon
<1>3. \A a \in Adders : \/ adder'[a] = [pc |-> "idle", nzb |-> {}, name |-> <<>>, dup |-> FALSE]
                        \/ adder'[a] = [pc |-> "over", nzb |-> {}, name |-> <<>>, dup |-> FALSE]
  BY <1>1, <1>2
<1>4. adder' = [a \in Adders |-> adder'[a]]
  BY <1>1
<1>5. RegisteredIsMade'
  BY <1>3, <1>4 DEF RegisteredIsMade
<1>6. GoodIsMade' /\ QueuedBeforeRemoved'
  BY <1>1 DEF IngestIInv, GoodIsMade, QueuedBeforeRemoved
<1> QED BY <1>1, <1>5, <1>6 DEF IngestIInv

LEMMA IngestNextInv == IngestIInv /\ [IngestNext]_ingestVars => IngestIInv'
<1> SUFFICES ASSUME IngestIInv, [IngestNext]_ingestVars PROVE IngestIInv'
  OBVIOUS
<1>1. ASSUME NEW a \in Adders, AddSteps(a) PROVE IngestIInv'
  BY <1>1, AddStep
<1>2. ASSUME NEW f \in DroppedFiles, HandleNext(f) PROVE IngestIInv'
  BY <1>2, HandleNextStep
<1>3. ASSUME NEW f \in DroppedFiles, SettleFile(f) PROVE IngestIInv'
  BY <1>3, SettleStep
<1>4. ASSUME NEW f \in DroppedFiles, ScanFile(f) \/ OpenDropped(f) \/ Drop(f) \/ FinishDrop(f)
      PROVE  IngestIInv'
  BY <1>4, ScanStep
<1> QED BY <1>1, <1>2, <1>3, <1>4, ScanStep, HandledStep, ApiAddStep, CrashStep DEF IngestNext, ScanSteps

\* The scanner removes no file of the watched folder before each NZB in it has
\* been registered, through failing writes, partly added archives, concurrent
\* uploads and crashes: for any files and archives of any length.
THEOREM DroppedFilesAreQueued == IngestSpec => []QueuedBeforeRemoved
<1>1. IngestIInv => QueuedBeforeRemoved
  BY DEF IngestIInv
<1> QED BY <1>1, IngestInitInv, IngestNextInv, PTL DEF IngestSpec

-----------------------------------------------------------------------------
(* Stall recovery.                                                           *)

\* What the record's operations make of it.
LEMMA RecordForms ==
  ASSUME NEW r \in StallRecord
  PROVE  /\ noteStall(r) \in StallRecord /\ noteStall(r).files = r.files
         /\ noteNeedsSeed(r) \in StallRecord /\ noteNeedsSeed(r).files = r.files
BY DEF StallRecord, noteStall, noteNeedsSeed

LEMMA EmptyRecord == NoRecord \in StallRecord /\ \A f \in Files : NoRecord.files[f] = "none"
BY DEF NoRecord, NoFiles, StallRecord, FileState

\* A record whose one file is set to another state.
fileSet(r, b, h) == [r EXCEPT !.on = b, !.files = h]

LEMMA FileSetForm ==
  ASSUME NEW r \in StallRecord, NEW b \in BOOLEAN, NEW h \in [Files -> FileState], NEW v, v = fileSet(r, b, h)
  PROVE  v \in StallRecord /\ v.files = h
BY DEF StallRecord, fileSet

LEMMA FileFunction ==
  ASSUME NEW h \in [Files -> FileState], NEW f \in Files, NEW s \in FileState, NEW v, v = [h EXCEPT ![f] = s]
  PROVE  v \in [Files -> FileState] /\ v[f] = s /\ \A g \in Files : g # f => v[g] = h[g]
OBVIOUS

LEMMA PendingForm ==
  ASSUME NEW r \in StallRecord, NEW f \in Files, NEW v, v = notePendingFinalize(r, f)
  PROVE  /\ v \in StallRecord /\ v.files[f] = (IF r.files[f] = "none" THEN "pending" ELSE r.files[f])
         /\ \A g \in Files : g # f => v.files[g] = r.files[g]
<1>1. r.files \in [Files -> FileState]
  BY DEF StallRecord
<1>2. PICK s : s = (IF r.files[f] = "none" THEN "pending" ELSE r.files[f])
  OBVIOUS
<1>3. s \in FileState
  BY <1>1, <1>2 DEF FileState
<1>4. PICK h : h = [r.files EXCEPT ![f] = s]
  OBVIOUS
<1>5. h \in [Files -> FileState] /\ h[f] = s /\ \A g \in Files : g # f => h[g] = r.files[g]
  BY <1>1, <1>3, <1>4, FileFunction
<1>6. PICK b : b = TRUE
  OBVIOUS
<1>7. v = fileSet(r, b, h)
  BY <1>2, <1>4, <1>6 DEF notePendingFinalize, fileSet
<1>9. b \in BOOLEAN
  BY <1>6
<1>8. v \in StallRecord /\ v.files = h
  BY <1>5, <1>7, <1>9, FileSetForm
<1> QED BY <1>2, <1>5, <1>8

LEMMA UndeliveredForm ==
  ASSUME NEW r \in StallRecord, NEW f \in Files, NEW v, v = noteUndeliveredCompletion(r, f)
  PROVE  v \in StallRecord /\ \A g \in Files : g # f => v.files[g] = r.files[g]
<1>1. r.files \in [Files -> FileState]
  BY DEF StallRecord
<1>2. PICK s, b : s = "done" /\ b = TRUE
  OBVIOUS
<1>3. s \in FileState
  BY <1>2 DEF FileState
<1>4. PICK h : h = [r.files EXCEPT ![f] = s]
  OBVIOUS
<1>5. h \in [Files -> FileState] /\ h[f] = s /\ \A g \in Files : g # f => h[g] = r.files[g]
  BY <1>1, <1>3, <1>4, FileFunction
<1>7. v = fileSet(r, b, h)
  BY <1>2, <1>4 DEF noteUndeliveredCompletion, fileSet
<1>9. b \in BOOLEAN
  BY <1>2
<1>8. v \in StallRecord /\ v.files = h
  BY <1>5, <1>7, <1>9, FileSetForm
<1> QED BY <1>5, <1>8

LEMMA StateForm ==
  ASSUME NEW r \in StallRecord, NEW f \in Files, NEW s \in FileState
  PROVE  /\ setFinalizeState(r, f, s) \in StallRecord
         /\ setFinalizeState(r, f, s).files[f] = s \/ setFinalizeState(r, f, s).files[f] = r.files[f]
         /\ \A g \in Files : g # f => setFinalizeState(r, f, s).files[g] = r.files[g]
<1>0. PICK v : v = setFinalizeState(r, f, s)
  OBVIOUS
<1>1. r.files \in [Files -> FileState]
  BY DEF StallRecord
<1>2. PICK h : h = [r.files EXCEPT ![f] = s]
  OBVIOUS
<1>3. h \in [Files -> FileState] /\ h[f] = s /\ \A g \in Files : g # f => h[g] = r.files[g]
  BY <1>1, <1>2, FileFunction
<1>4. CASE v = r
  BY <1>0, <1>4
<1>5. CASE v = [r EXCEPT !.files = h]
  <2>1. v \in StallRecord /\ v.files = h
    BY <1>3, <1>5 DEF StallRecord
  <2> QED BY <1>0, <1>3, <2>1
<1>6. v = r \/ v = [r EXCEPT !.files = h]
  BY <1>0, <1>2 DEF setFinalizeState
<1> QED BY <1>0, <1>4, <1>5, <1>6

LEMMA RecoveredForm ==
  ASSUME NEW r \in StallRecord, NEW f \in Files, NEW v, v = completeFinalizeRecovery(r, f)
  PROVE  v \in StallRecord /\ \A g \in Files : v.files[g] \in {"none", r.files[g]}
<1>1. r.files \in [Files -> FileState] /\ "none" \in FileState
  BY DEF StallRecord, FileState
<1>2. PICK s : s = "none"
  OBVIOUS
<1>3. PICK h : h = [r.files EXCEPT ![f] = s]
  OBVIOUS
<1>4. h \in [Files -> FileState] /\ h[f] = s /\ \A g \in Files : g # f => h[g] = r.files[g]
  BY <1>1, <1>2, <1>3, FileFunction
<1>5. v = r \/ v = NoRecord \/ v = [r EXCEPT !.files = h]
  BY <1>2, <1>3 DEF completeFinalizeRecovery
<1>6. CASE v = [r EXCEPT !.files = h]
  <2>1. v \in StallRecord /\ v.files = h
    BY <1>4, <1>6 DEF StallRecord
  <2> QED BY <1>2, <1>4, <2>1
<1>7. CASE v = r \/ v = NoRecord
  BY <1>7, EmptyRecord
<1> QED BY <1>5, <1>6, <1>7

\* What every step must show: which files enter the record, the snapshot, the
\* marks and the retries, and from where.
LEMMA StallMoves ==
  ASSUME StallIInv, StallTypeOK', told \subseteq told', trimmed \subseteq trimmed',
         \A f \in watch'.file : f \in told' /\ (f \in watch.file \/ f \notin told),
         \A f \in Files : rec'.files[f] # "none" =>
             rec.files[f] # "none" \/ loop.snap[f] # "none" \/ f \in watch.file \ watch'.file,
         \A f \in Files : rec'.files[f] = "done" =>
             rec.files[f] = "done" \/ f \in trimmed' \/ f \notin ever',
         \A f \in Files : loop'.snap[f] # "none" => loop.snap[f] # "none" \/ rec.files[f] # "none",
         \A f \in Files : loop'.snap[f] = "done" =>
             loop.snap[f] = "done" \/ rec.files[f] = "done" \/ f \in trimmed',
         \A f \in ever' : f \in ever \/ f \in watch.file \ watch'.file,
         \A f \in marked' : \/ f \in marked
                            \/ f \in watch.file \ watch'.file /\ f \notin ever'
                            \/ loop.snap[f] = "done",
         PassIsGood'
  PROVE  StallIInv'
<1>1. /\ \A f \in Files : traced(f) => f \in told
      /\ \A f \in watch.file : f \in told /\ ~traced(f)
      /\ watch.file \subseteq Files /\ watch'.file \subseteq Files /\ ever' \subseteq Files /\ marked' \subseteq Files
      /\ ever \subseteq Files
  BY DEF StallIInv, KnownWasTold, WatchedIsFresh, StallTypeOK
<1>2. ASSUME NEW f \in Files, traced(f)'
      PROVE  traced(f) \/ f \in watch.file \ watch'.file
  BY <1>2 DEF traced
<1>3. KnownWasTold'
  BY <1>1, <1>2 DEF KnownWasTold
<1>4. WatchedIsFresh'
  BY <1>1, <1>2 DEF WatchedIsFresh
<1>5. DoneIsTrimmed'
  <2>1. ASSUME NEW f \in ever', rec'.files[f] = "done" \/ loop'.snap[f] = "done" PROVE f \in trimmed'
    <3>1. f \in Files
      BY <1>1
    <3>2. CASE f \notin trimmed'
      <4>1. rec.files[f] = "done" \/ loop.snap[f] = "done"
        BY <2>1, <3>1, <3>2
      <4>2. traced(f)
        BY <4>1 DEF traced
      <4>3. f \in ever
        BY <1>1, <4>2
      <4> QED BY <4>1, <4>3 DEF StallIInv, DoneIsTrimmed
    <3> QED BY <3>2
  <2> QED BY <2>1 DEF DoneIsTrimmed
<1>6. RetriedIsTrimmed'
  <2>1. ASSUME NEW f \in ever', f \in marked' PROVE f \in trimmed'
    <3>1. CASE f \in marked
      <4>1. f \in ever
        BY <1>1, <3>1 DEF traced
      <4> QED BY <3>1, <4>1 DEF StallIInv, RetriedIsTrimmed
    <3>2. CASE loop.snap[f] = "done"
      <4>1. f \in ever
        BY <1>1, <3>2 DEF traced
      <4> QED BY <3>2, <4>1 DEF StallIInv, DoneIsTrimmed
    <3> QED BY <2>1, <3>1, <3>2
  <2> QED BY <2>1 DEF RetriedIsTrimmed
<1> QED BY <1>3, <1>4, <1>5, <1>6 DEF StallIInv

\* A step that only changes the record, and adds no file to it.
LEMMA RecordMoves ==
  ASSUME StallIInv, rec' \in StallRecord, \A f \in Files : rec'.files[f] \in {"none", rec.files[f]},
         UNCHANGED <<trimmed, marked, told, ever, watch, loop>>
  PROVE  StallIInv'
<1>1. StallTypeOK'
  BY DEF StallIInv, StallTypeOK
<1>2. PassIsGood'
  BY DEF StallIInv, PassIsGood, settledFile
<1>3. \A f \in watch.file : f \in told
  BY DEF StallIInv, WatchedIsFresh
<1> QED BY <1>1, <1>2, <1>3, StallMoves

LEMMA QuietMoves ==
  ASSUME StallIInv, UNCHANGED <<trimmed, marked, told, ever, watch, loop, rec>>
  PROVE  StallIInv'
BY RecordMoves DEF StallIInv, StallTypeOK

LEMMA FaultStepInv == ASSUME StallIInv, FaultStep PROVE StallIInv'
<1>0. rec \in StallRecord
  BY DEF StallIInv, StallTypeOK
<1>1. CASE rec' = noteStall(rec) /\ UNCHANGED <<trimmed, marked, told, ever, watch, loop>>
  <2>1. rec' \in StallRecord /\ rec'.files = rec.files
    BY <1>0, <1>1, RecordForms
  <2> QED BY <1>1, <2>1, RecordMoves
<1>2. CASE rec' = NoRecord /\ UNCHANGED <<trimmed, marked, told, ever, watch, loop>>
  BY <1>2, EmptyRecord, RecordMoves
<1>3. CASE UNCHANGED <<trimmed, marked, told, ever, watch, loop, rec>>
  BY <1>3, QuietMoves
<1> QED BY <1>1, <1>2, <1>3 DEF FaultStep, files

\* The watcher.
LEMMA WatchStartInv == ASSUME StallIInv, NEW f \in Files, WatchStart(f) PROVE StallIInv'
<1>1. /\ f \notin told /\ told' = told \cup {f} /\ watch' = [pc |-> looks(f), file |-> {f}]
      /\ UNCHANGED <<trimmed, marked, ever, rec, loop>> /\ watch = Rest
  BY DEF WatchStart
<1>2. looks(f) \in {"skip", "barrier"}
  BY DEF looks
<1>3. StallTypeOK'
  BY <1>1, <1>2 DEF StallIInv, StallTypeOK
<1>4. watch'.file = {f} /\ watch.file = {}
  BY <1>1 DEF Rest
<1>5. PassIsGood'
  BY <1>1 DEF StallIInv, PassIsGood, settledFile
<1> QED BY <1>1, <1>3, <1>4, <1>5, StallMoves

LEMMA WatchFinalizedInv == ASSUME StallIInv, NEW f \in Files, WatchFinalized(f) PROVE StallIInv'
<1>1. UNCHANGED <<marked, told, ever, rec, loop>> /\ trimmed \subseteq trimmed'
  BY DEF WatchFinalized, trims
<1>2. PICK p : p \in {"stall", "note", "complete"} /\ watch' = [watch EXCEPT !.pc = p]
  BY DEF WatchFinalized
<1>3. watch'.file = watch.file /\ StallTypeOK'
  BY <1>1, <1>2 DEF StallIInv, StallTypeOK
<1>4. PassIsGood'
  BY <1>1 DEF StallIInv, PassIsGood, settledFile
<1>5. \A g \in watch.file : g \in told
  BY DEF StallIInv, WatchedIsFresh
<1> QED BY <1>1, <1>3, <1>4, <1>5, StallMoves

LEMMA WatchCompleteInv == ASSUME StallIInv, NEW f \in Files, WatchComplete(f) PROVE StallIInv'
<1>1. UNCHANGED <<trimmed, told, ever, loop>> /\ watch' = Rest /\ watch.file = {f}
  BY DEF WatchComplete
<1>2. watch'.file = {} /\ f \notin ever /\ rec \in StallRecord
  BY <1>1 DEF Rest, StallIInv, WatchedIsFresh, traced, StallTypeOK
<1>3. PassIsGood'
  BY <1>1 DEF StallIInv, PassIsGood, settledFile
<1>4. CASE marked' = marked \cup {f} /\ rec' = rec
  <2>1. StallTypeOK'
    BY <1>1, <1>4 DEF StallIInv, StallTypeOK, Rest
  <2> QED BY <1>1, <1>2, <1>3, <1>4, <2>1, StallMoves
<1>5. CASE rec' = noteUndeliveredCompletion(rec, f) /\ marked' = marked
  <2>1. rec' \in StallRecord /\ \A g \in Files : g # f => rec'.files[g] = rec.files[g]
    BY <1>2, <1>5, UndeliveredForm
  <2>2. StallTypeOK'
    BY <1>1, <1>5, <2>1 DEF StallIInv, StallTypeOK, Rest
  <2> QED BY <1>1, <1>2, <1>3, <1>5, <2>1, <2>2, StallMoves
<1> QED BY <1>4, <1>5 DEF WatchComplete

LEMMA WatchRouteInv == ASSUME StallIInv, NEW f \in Files, WatchRoute(f) PROVE StallIInv'
<1>1. UNCHANGED <<trimmed, told, marked, loop>> /\ watch.file = {f} /\ rec \in StallRecord
  BY DEF WatchRoute, files, StallIInv, StallTypeOK
<1>2. PassIsGood'
  BY <1>1 DEF StallIInv, PassIsGood, settledFile
<1>3. \A g \in watch.file : g \in told /\ rec.files[g] = "none"
  BY DEF StallIInv, WatchedIsFresh, traced
<1>4. CASE watch' = [watch EXCEPT !.pc = "pause"] /\ rec' = noteStall(rec) /\ ever' = ever
  <2>1. rec' \in StallRecord /\ rec'.files = rec.files
    BY <1>1, <1>4, RecordForms
  <2>2. watch'.file = watch.file /\ StallTypeOK'
    BY <1>1, <1>4, <2>1 DEF StallIInv, StallTypeOK
  <2> QED BY <1>1, <1>2, <1>3, <1>4, <2>1, <2>2, StallMoves
<1>5. CASE watch' = [watch EXCEPT !.pc = "note"] /\ rec' = rec /\ ever' = ever
  <2>1. watch'.file = watch.file /\ StallTypeOK'
    BY <1>1, <1>5 DEF StallIInv, StallTypeOK
  <2> QED BY <1>1, <1>2, <1>3, <1>5, <2>1, StallMoves
<1>6. CASE watch' = Rest /\ rec' = notePendingFinalize(rec, f) /\ ever' = ever \cup {f}
  <2>1. /\ rec' \in StallRecord /\ rec'.files[f] = (IF rec.files[f] = "none" THEN "pending" ELSE rec.files[f])
        /\ \A g \in Files : g # f => rec'.files[g] = rec.files[g]
    BY <1>1, <1>6, PendingForm
  <2>2. rec'.files[f] = "pending"
    BY <1>1, <1>3, <2>1
  <2>3. watch'.file = {} /\ StallTypeOK'
    BY <1>1, <1>6, <2>1 DEF StallIInv, StallTypeOK, Rest
  <2> QED BY <1>1, <1>2, <1>6, <2>1, <2>2, <2>3, StallMoves
<1> QED BY <1>4, <1>5, <1>6 DEF WatchRoute

\* The checkpoint loop.
LoopType == [pc : {"idle", "checkpoint", "park", "retry", "restall", "deliver"}, todo : SUBSET Files,
             snap : [Files -> FileState], blocked : BOOLEAN, file : SUBSET Files]

LEMMA LoopMoves ==
  ASSUME StallIInv, UNCHANGED <<told, ever, watch>>, rec' \in StallRecord, loop' \in LoopType,
         trimmed \subseteq trimmed', marked' \subseteq Files,
         \A f \in Files : rec'.files[f] # "none" => rec.files[f] # "none" \/ loop.snap[f] # "none",
         \A f \in Files : rec'.files[f] = "done" => rec.files[f] = "done" \/ f \in trimmed',
         \A f \in Files : loop'.snap[f] # "none" => loop.snap[f] # "none" \/ rec.files[f] # "none",
         \A f \in Files : loop'.snap[f] = "done" =>
             loop.snap[f] = "done" \/ rec.files[f] = "done" \/ f \in trimmed',
         \A f \in marked' : f \in marked \/ loop.snap[f] = "done",
         PassIsGood'
  PROVE  StallIInv'
<1>1. StallTypeOK'
  BY DEF StallIInv, StallTypeOK, LoopType
<1>2. \A f \in watch.file : f \in told
  BY DEF StallIInv, WatchedIsFresh
<1> QED BY <1>1, <1>2, StallMoves

LEMMA LoopAt == ASSUME StallIInv PROVE loop \in LoopType /\ rec \in StallRecord /\ marked \subseteq Files
BY DEF StallIInv, StallTypeOK, LoopType

LEMMA LoopResting ==
  /\ LoopRest \in LoopType /\ LoopRest.pc = "idle" /\ LoopRest.todo = {} /\ LoopRest.file = {}
  /\ \A f \in Files : LoopRest.snap[f] = "none"
<1>1. NoFiles \in [Files -> FileState] /\ \A f \in Files : NoFiles[f] = "none"
  BY DEF NoFiles, FileState
<1> QED BY <1>1 DEF LoopRest, LoopType

\* The loop comes to rest; the record has lost files or kept them.
LEMMA DropLoopEnds ==
  ASSUME StallIInv, UNCHANGED <<trimmed, marked, told, ever, watch>>, loop' = LoopRest, rec' \in StallRecord,
         \A f \in Files : rec'.files[f] \in {"none", rec.files[f]}
  PROVE  StallIInv'
<1>1. /\ loop' \in LoopType /\ loop'.pc = "idle" /\ loop'.todo = {} /\ loop'.file = {}
      /\ \A f \in Files : loop'.snap[f] = "none"
  BY LoopResting
<1>2. PassIsGood'
  BY <1>1 DEF PassIsGood
<1> QED BY <1>1, <1>2, LoopAt, LoopMoves

\* The loop leaves its rest for a step that reads no file.
LEMMA CheckpointStartInv == ASSUME StallIInv, CheckpointStart PROVE StallIInv'
<1>1. UNCHANGED <<trimmed, marked, told, ever, watch, rec>> /\ loop = LoopRest
      /\ loop' = [loop EXCEPT !.pc = "checkpoint"]
  BY DEF CheckpointStart, files
<1>2. /\ loop \in LoopType /\ loop.todo = {} /\ loop.file = {} /\ \A f \in Files : loop.snap[f] = "none"
  BY <1>1, LoopResting
<1>3. /\ loop' \in LoopType /\ loop'.pc = "checkpoint" /\ loop'.todo = {} /\ loop'.file = {}
      /\ loop'.snap = loop.snap
  BY <1>1, <1>2 DEF LoopType
<1>4. PassIsGood'
  BY <1>3 DEF PassIsGood
<1> QED BY <1>1, <1>2, <1>3, <1>4, LoopAt, LoopMoves

LEMMA CheckpointEndInv == ASSUME StallIInv, CheckpointEnd PROVE StallIInv'
<1>1. UNCHANGED <<trimmed, marked, told, ever, watch>> /\ rec \in StallRecord /\ loop \in LoopType
      /\ loop.pc = "checkpoint"
  BY LoopAt DEF CheckpointEnd, files
<1>2. rec' \in StallRecord /\ rec'.files = rec.files
  BY <1>1, RecordForms DEF CheckpointEnd
<1>3. CASE loop' = LoopRest
  BY <1>1, <1>2, <1>3, DropLoopEnds
<1>4. CASE loop' = [loop EXCEPT !.pc = "park"]
  <2>1. /\ loop' \in LoopType /\ loop'.pc = "park" /\ loop'.todo = loop.todo /\ loop'.file = loop.file
        /\ loop'.snap = loop.snap
    BY <1>1, <1>4 DEF LoopType
  <2>2. PassIsGood'
    BY <2>1 DEF StallIInv, PassIsGood, settledFile
  <2> QED BY <1>1, <1>2, <2>1, <2>2, LoopAt, LoopMoves
<1> QED BY <1>3, <1>4 DEF CheckpointEnd

LEMMA CheckpointParkInv == ASSUME StallIInv, CheckpointPark PROVE StallIInv'
<1>1. UNCHANGED <<trimmed, marked, told, ever, watch, rec>> /\ loop' = LoopRest
  BY DEF CheckpointPark, files
<1> QED BY <1>1, LoopAt, DropLoopEnds

LEMMA ReevaluateStartInv == ASSUME StallIInv, ReevaluateStart PROVE StallIInv'
<1>1. UNCHANGED <<trimmed, marked, told, ever, watch>> /\ rec \in StallRecord
  BY LoopAt DEF ReevaluateStart, files
<1>2. CASE rec' = NoRecord /\ loop' = loop
  BY <1>1, <1>2, EmptyRecord, RecordMoves
<1>3. CASE loop' = [LoopRest EXCEPT !.pc = "retry", !.snap = rec.files, !.todo = Recorded(rec),
                                    !.blocked = \E f \in Files : rec.files[f] = "lost"]
           /\ rec' = rec
  <2>1. PICK b, t : b = (\E f \in Files : rec.files[f] = "lost") /\ t = Recorded(rec)
    OBVIOUS
  <2>2. b \in BOOLEAN
    BY <2>1
  <2>3. t \subseteq Files /\ \A f \in Files : f \in t <=> rec.files[f] # "none"
    BY <2>1 DEF Recorded
  <2>4. rec.files \in [Files -> FileState]
    BY <1>1 DEF StallRecord
  <2>5. PICK v : v = LoopRest
    OBVIOUS
  <2>6. v \in LoopType /\ v.file = {}
    BY <2>5, LoopResting
  <2>7. loop' = [v EXCEPT !.pc = "retry", !.snap = rec.files, !.todo = t, !.blocked = b]
    BY <1>3, <2>1, <2>5
  <2>8. /\ loop' \in LoopType /\ loop'.pc = "retry" /\ loop'.snap = rec.files /\ loop'.todo = t
        /\ loop'.blocked = b /\ loop'.file = {}
    BY <2>2, <2>3, <2>4, <2>6, <2>7 DEF LoopType
  <2>9. ~loop'.blocked => \A f \in Files : rec.files[f] # "lost"
    BY <2>1, <2>8
  <2>10. PassIsGood'
    BY <2>3, <2>4, <2>8, <2>9 DEF PassIsGood, settledFile, FileState
  <2> QED BY <1>1, <1>3, <2>8, <2>10, LoopAt, LoopMoves
<1> QED BY <1>2, <1>3 DEF ReevaluateStart

LEMMA RestallInv == ASSUME StallIInv, NEW f \in Files, Restall(f) PROVE StallIInv'
<1>1. /\ UNCHANGED <<trimmed, marked, told, ever, watch>> /\ rec \in StallRecord /\ loop \in LoopType
      /\ loop.pc = "restall" /\ loop.file = {f} /\ rec' = notePendingFinalize(rec, f)
      /\ loop' = [loop EXCEPT !.pc = "retry", !.file = {}]
  BY LoopAt DEF Restall, files
<1>2. /\ rec' \in StallRecord /\ rec'.files[f] = (IF rec.files[f] = "none" THEN "pending" ELSE rec.files[f])
      /\ \A g \in Files : g # f => rec'.files[g] = rec.files[g]
  BY <1>1, PendingForm
<1>3. loop.snap[f] # "none"
  BY <1>1 DEF StallIInv, PassIsGood
<1>4. /\ loop' \in LoopType /\ loop'.pc = "retry" /\ loop'.todo = loop.todo /\ loop'.file = {}
      /\ loop'.snap = loop.snap /\ loop'.blocked = loop.blocked
  BY <1>1 DEF LoopType
<1>5. PassIsGood'
  BY <1>1, <1>4 DEF StallIInv, PassIsGood, settledFile
<1> QED BY <1>1, <1>2, <1>3, <1>4, <1>5, LoopAt, LoopMoves

LEMMA DecideInv == ASSUME StallIInv, Decide PROVE StallIInv'
<1>1. /\ UNCHANGED <<trimmed, marked, told, ever, watch>> /\ rec \in StallRecord /\ loop \in LoopType
      /\ loop.pc = "retry" /\ loop.todo = {}
  BY LoopAt DEF Decide, files
<1>2. CASE loop' = LoopRest /\ (rec' = rec \/ rec' = NoRecord)
  <2>1. rec' \in StallRecord /\ \A f \in Files : rec'.files[f] \in {"none", rec.files[f]}
    BY <1>1, <1>2, EmptyRecord
  <2> QED BY <1>1, <1>2, <2>1, DropLoopEnds
<1>3. CASE /\ ~loop.blocked /\ rec' = rec
           /\ loop' = [loop EXCEPT !.pc = "deliver", !.todo = {f \in Files : loop.snap[f] # "none"}]
  <2>1. PICK t : t = {f \in Files : loop.snap[f] # "none"}
    OBVIOUS
  <2>2. t \subseteq Files /\ \A f \in t : loop.snap[f] # "none"
    BY <2>1
  <2>3. /\ loop' \in LoopType /\ loop'.pc = "deliver" /\ loop'.todo = t /\ loop'.file = loop.file
        /\ loop'.snap = loop.snap
    BY <1>1, <1>3, <2>1, <2>2 DEF LoopType
  <2>4. \A f \in Files : settledFile(f)
    BY <1>1, <1>3 DEF StallIInv, PassIsGood
  <2>5. PassIsGood'
    BY <2>2, <2>3, <2>4 DEF StallIInv, PassIsGood, settledFile
  <2> QED BY <1>1, <1>3, <2>3, <2>5, LoopAt, LoopMoves
<1>4. loop.blocked \/ ~loop.blocked
  OBVIOUS
<1> QED BY <1>2, <1>3, <1>4 DEF Decide

LEMMA DeliverInv == ASSUME StallIInv, NEW f \in Files, Deliver(f) PROVE StallIInv'
<1>1. /\ UNCHANGED <<trimmed, told, ever, watch>> /\ rec \in StallRecord /\ loop \in LoopType
      /\ loop.pc = "deliver" /\ f \in loop.todo /\ loop' = [loop EXCEPT !.todo = @ \ {f}] /\ marked \subseteq Files
  BY LoopAt DEF Deliver
<1>2. /\ loop' \in LoopType /\ loop'.pc = loop.pc /\ loop'.todo = loop.todo \ {f} /\ loop'.file = loop.file
      /\ loop'.snap = loop.snap
  BY <1>1 DEF LoopType
<1>3. PassIsGood'
  BY <1>1, <1>2 DEF StallIInv, PassIsGood, settledFile
<1>4. loop.snap[f] = "done"
  BY <1>1 DEF StallIInv, PassIsGood, settledFile
<1>5. CASE marked' = marked \cup {f} /\ rec' = completeFinalizeRecovery(rec, f)
  <2>1. rec' \in StallRecord /\ \A g \in Files : rec'.files[g] \in {"none", rec.files[g]}
    BY <1>1, <1>5, RecoveredForm
  <2> QED BY <1>1, <1>2, <1>3, <1>4, <1>5, <2>1, LoopMoves
<1>6. CASE marked' = marked /\ rec' = rec
  BY <1>1, <1>2, <1>3, <1>6, LoopMoves
<1> QED BY <1>5, <1>6 DEF Deliver

LEMMA ReevaluateEndInv == ASSUME StallIInv, ReevaluateEnd PROVE StallIInv'
<1>1. UNCHANGED <<trimmed, marked, told, ever, watch>> /\ loop' = LoopRest /\ (rec' = rec \/ rec' = NoRecord)
  BY DEF ReevaluateEnd, files
<1>2. rec' \in StallRecord /\ \A f \in Files : rec'.files[f] \in {"none", rec.files[f]}
  BY <1>1, LoopAt, EmptyRecord
<1> QED BY <1>1, <1>2, DropLoopEnds

\* One recorded file is retried: only an answer of success makes it finalized,
\* and then the file is trimmed.
LEMMA RetryInv == ASSUME StallIInv, NEW f \in Files, Retry(f) PROVE StallIInv'
<1>1. /\ UNCHANGED <<marked, told, ever, watch>> /\ rec \in StallRecord /\ loop \in LoopType
      /\ loop.pc = "retry" /\ f \in loop.todo /\ loop.snap \in [Files -> FileState] /\ marked \subseteq Files
  BY LoopAt DEF Retry, LoopType
<1>2. PICK a : a = (IF loop.snap[f] = "pending" THEN retryFinalize(f) ELSE "none")
  OBVIOUS
<1>3. a \in {"none", "lost", "unread", "fault", "unacked", "ok"} /\ (a = "none" <=> loop.snap[f] # "pending")
  BY <1>2 DEF retryFinalize, answer
<1>4. loop.snap[f] # "none"
  BY <1>1 DEF StallIInv, PassIsGood
<1>5. PICK s, b, t : /\ s = (IF a = "ok" THEN "done" ELSE IF a = "lost" THEN "lost" ELSE loop.snap[f])
                     /\ b = (loop.blocked \/ (loop.snap[f] = "pending" /\ a # "ok"))
                     /\ t = loop.todo \ {f}
  OBVIOUS
<1>6. s \in FileState /\ b \in BOOLEAN /\ t \subseteq Files
  BY <1>1, <1>5 DEF FileState, LoopType
<1>7. PICK h : h = [loop.snap EXCEPT ![f] = s]
  OBVIOUS
<1>8. h \in [Files -> FileState] /\ h[f] = s /\ \A g \in Files : g # f => h[g] = loop.snap[g]
  BY <1>1, <1>6, <1>7, FileFunction
<1>9. PICK n : n = [loop EXCEPT !.todo = t, !.blocked = b, !.snap = h]
  OBVIOUS
<1>10. /\ n \in LoopType /\ n.pc = "retry" /\ n.todo = t /\ n.blocked = b /\ n.snap = h /\ n.file = loop.file
  BY <1>1, <1>6, <1>8, <1>9 DEF LoopType
<1>11. \/ loop' = n
       \/ b /\ loop' = [n EXCEPT !.pc = "restall", !.file = {f}]
  <2>1. (a \in {"ok", "skip"}) <=> (a = "ok")
    BY <1>3
  <2>2. [loop EXCEPT !.todo = @ \ {f}, !.blocked = @ \/ (loop.snap[f] = "pending" /\ ~(a \in {"ok", "skip"})),
                     !.snap[f] = IF a \in {"ok", "skip"} THEN "done" ELSE IF a = "lost" THEN "lost" ELSE @] = n
    BY <1>5, <1>7, <1>9, <2>1
  <2>3. a \in {"unread", "fault"} => b
    BY <1>3, <1>5
  <2> QED BY <1>2, <2>2, <2>3 DEF Retry
<1>12. /\ loop' \in LoopType /\ loop'.pc \in {"retry", "restall"} /\ loop'.todo = t /\ loop'.blocked = b
       /\ loop'.snap = h /\ loop'.file \in {loop.file, {f}}
  <2>1. CASE loop' = n
    BY <1>10, <2>1
  <2>2. CASE loop' = [n EXCEPT !.pc = "restall", !.file = {f}]
    BY <1>10, <2>2 DEF LoopType
  <2> QED BY <1>11, <2>1, <2>2
<1>13. h[f] # "none"
  BY <1>4, <1>5, <1>8
<1>14. PassIsGood'
  <2>1. \A g \in loop'.todo \cup loop'.file : loop'.snap[g] # "none"
    <3>1. \A g \in loop.todo \cup loop.file : loop.snap[g] # "none" /\ g \in Files
      BY <1>1 DEF StallIInv, PassIsGood, LoopType
    <3> QED BY <1>5, <1>8, <1>12, <1>13, <3>1
  <2>2. ASSUME ~loop'.blocked, NEW g \in Files
        PROVE  h[g] \in {"none", "done"} \/ (g \in t /\ h[g] = "pending")
    <3>1. ~b /\ ~loop.blocked
      BY <1>5, <1>12, <2>2
    <3>2. loop.snap[g] \in {"none", "done"} \/ (g \in loop.todo /\ loop.snap[g] = "pending")
      BY <1>1, <3>1 DEF StallIInv, PassIsGood, settledFile
    <3>3. CASE g = f
      BY <1>3, <1>5, <1>8, <3>1, <3>2, <3>3
    <3>4. CASE g # f
      BY <1>5, <1>8, <3>2, <3>4
    <3> QED BY <3>3, <3>4
  <2> QED BY <1>12, <2>1, <2>2 DEF PassIsGood, settledFile
<1>15. trimmed \subseteq trimmed' /\ (a = "ok" => f \in trimmed')
  BY <1>2, <1>3 DEF Retry, trims
<1>16. /\ rec' \in StallRecord
       /\ rec'.files[f] # "done" \/ rec.files[f] = "done" \/ a = "ok"
       /\ \A g \in Files : g # f => rec'.files[g] = rec.files[g]
  <2>0. "done" \in FileState /\ "lost" \in FileState
    BY DEF FileState
  <2>1. CASE a = "ok" /\ rec' = setFinalizeState(rec, f, "done")
    <3>1. PICK u : u = "done"
      OBVIOUS
    <3>2. u \in FileState /\ rec' = setFinalizeState(rec, f, u)
      BY <2>0, <2>1, <3>1
    <3>3. rec' \in StallRecord /\ \A g \in Files : g # f => rec'.files[g] = rec.files[g]
      BY <1>1, <3>2, StateForm
    <3> QED BY <2>1, <3>3
  <2>2. CASE rec' = stallLost(rec, f)
    <3>0. PICK u : u = "lost"
      OBVIOUS
    <3>1. PICK r : r = setFinalizeState(rec, f, u)
      OBVIOUS
    <3>4. u \in FileState
      BY <2>0, <3>0
    <3>5. r \in StallRecord /\ (r.files[f] = u \/ r.files[f] = rec.files[f]) /\ \A g \in Files : g # f => r.files[g] = rec.files[g]
      BY <1>1, <3>1, <3>4, StateForm
    <3>2. /\ r \in StallRecord /\ r.files[f] \in {"lost", rec.files[f]}
          /\ \A g \in Files : g # f => r.files[g] = rec.files[g]
      BY <3>0, <3>5
    <3>3. rec' = noteStall(r)
      BY <2>2, <3>0, <3>1 DEF stallLost
    <3> QED BY <3>2, <3>3, RecordForms
  <2>3. CASE rec' = noteStall(rec)
    BY <1>1, <2>3, RecordForms
  <2>4. CASE rec' = notePendingFinalize(rec, f)
    BY <1>1, <2>4, PendingForm
  <2>5. CASE rec' = rec
    BY <1>1, <2>5
  <2>6. \/ a = "ok" /\ rec' = setFinalizeState(rec, f, "done")
        \/ rec' = stallLost(rec, f) \/ rec' = noteStall(rec) \/ rec' = notePendingFinalize(rec, f) \/ rec' = rec
    <3>1. PICK good, st : good = (a \in {"ok", "skip"}) /\ st = (a \in {"unread", "fault"} /\ ~loop.blocked)
      OBVIOUS
    <3>2. rec' = CASE good -> setFinalizeState(rec, f, "done")
                   [] a = "lost" -> stallLost(rec, f)
                   [] st -> noteStall(rec)
                   [] a = "unacked" /\ ~loop.blocked -> notePendingFinalize(rec, f)
                   [] OTHER -> rec
      BY <1>2, <3>1 DEF Retry
    <3>3. good => a = "ok"
      BY <1>3, <3>1
    <3> QED BY <3>2, <3>3
  <2> QED BY <2>1, <2>2, <2>3, <2>4, <2>5, <2>6
<1>17. \A g \in Files : rec'.files[g] # "none" => rec.files[g] # "none" \/ loop.snap[g] # "none"
  BY <1>4, <1>16
<1>18. \A g \in Files : rec'.files[g] = "done" => rec.files[g] = "done" \/ g \in trimmed'
  BY <1>15, <1>16
<1>19. /\ \A g \in Files : loop'.snap[g] # "none" => loop.snap[g] # "none" \/ rec.files[g] # "none"
       /\ \A g \in Files : loop'.snap[g] = "done" => loop.snap[g] = "done" \/ rec.files[g] = "done" \/ g \in trimmed'
  BY <1>4, <1>5, <1>8, <1>12, <1>15
<1> QED BY <1>1, <1>12, <1>14, <1>15, <1>16, <1>17, <1>18, <1>19, LoopMoves

LEMMA StallInitInv == StallInit => StallIInv
<1> SUFFICES ASSUME StallInit PROVE StallIInv
  OBVIOUS
<1>1. /\ rec = NoRecord /\ loop = LoopRest /\ watch = Rest /\ trimmed = {} /\ marked = {} /\ told = {} /\ ever = {}
  BY DEF StallInit
<1>2. /\ loop \in LoopType /\ loop.pc = "idle" /\ loop.todo = {} /\ loop.file = {}
      /\ \A f \in Files : loop.snap[f] = "none"
  BY <1>1, LoopResting
<1>3. rec \in StallRecord /\ \A f \in Files : rec.files[f] = "none"
  BY <1>1, EmptyRecord
<1>4. watch.file = {} /\ StallTypeOK
  BY <1>1, <1>2, <1>3 DEF StallTypeOK, LoopType, Rest
<1>5. PassIsGood
  BY <1>2 DEF PassIsGood
<1> QED BY <1>1, <1>2, <1>3, <1>4, <1>5
        DEF StallIInv, KnownWasTold, WatchedIsFresh, DoneIsTrimmed, RetriedIsTrimmed, traced

LEMMA StallNextInv == StallIInv /\ [StallNext]_stallVars => StallIInv'
<1> SUFFICES ASSUME StallIInv, [StallNext]_stallVars PROVE StallIInv'
  OBVIOUS
<1>1. CASE UNCHANGED stallVars
  BY <1>1, QuietMoves DEF stallVars, files
<1>2. CASE Ticking
  <2>1. UNCHANGED <<trimmed, marked, told, ever, watch, loop, rec>>
    BY <1>2 DEF Ticking, Grant, EvictManifest, files
  <2> QED BY <2>1, QuietMoves
<1>3. CASE UserPause \/ UserResume \/ RemoveJob
  <2>1. UNCHANGED <<trimmed, marked, told, ever, watch, loop, rec>>
    BY <1>3 DEF UserPause, UserResume, RemoveJob, files
  <2> QED BY <2>1, QuietMoves
<1>4. CASE Break \/ RepairDevice \/ (\E kind \in {"stall", "fail"} : WriteFault(kind))
  <2>1. UNCHANGED <<trimmed, marked, told, ever, watch, loop, rec>>
    BY <1>4 DEF Break, RepairDevice, WriteFault, files
  <2> QED BY <2>1, QuietMoves
<1>5. CASE \E f \in Files : OpenFile(f)
  <2>1. UNCHANGED <<trimmed, marked, told, ever, watch, loop, rec>>
    BY <1>5 DEF OpenFile
  <2> QED BY <2>1, QuietMoves
<1>6. CASE \E f \in Files : Watching(f)
  BY <1>6, WatchStartInv, WatchFinalizedInv, WatchCompleteInv, WatchRouteInv DEF Watching
<1>7. CASE Looping
  BY <1>7, CheckpointStartInv, CheckpointEndInv, CheckpointParkInv, ReevaluateStartInv, RetryInv, RestallInv,
     DeliverInv, DecideInv, ReevaluateEndInv DEF Looping, Reevaluating
<1>8. CASE FaultStep
  BY <1>8, FaultStepInv
<1> QED BY <1>1, <1>2, <1>3, <1>4, <1>5, <1>6, <1>7, <1>8 DEF StallNext

\* A file whose finalize failed, and was recorded for a retry, is marked complete
\* only once a finalize has trimmed it: reevaluateStall delivers a pass only when
\* every file of it is finalized, and only the barrier's success finalizes.
THEOREM RetriedFilesAreTrimmed == StallSpec => []RetriedIsTrimmed
<1>1. StallSafety => []StallIInv
  BY StallInitInv, StallNextInv, PTL DEF StallSafety
<1>2. StallIInv => RetriedIsTrimmed
  BY DEF StallIInv
<1>3. StallSpec => StallSafety
  BY DEF StallSpec
<1> QED BY <1>1, <1>2, <1>3, PTL

-----------------------------------------------------------------------------
(* Reload *)

\* A request is a pair; what it is about depends on its kind.
LEMMA RequestPairs ==
  ASSUME NEW x \in QueuedRequest
  PROVE  /\ x = <<x[1], x[2]>>
         /\ x[1] \in Questions \cup {"article", "unread"}
         /\ x[1] = "article" => x[2] \in Articles
         /\ x[1] # "article" => x[2] \in Caller
  BY DEF QueuedRequest, Questions

\* A request that joins the queue stands there, at the end; the others stay.
LEMMA QueueAppend ==
  ASSUME NEW q \in Seq(QueuedRequest), NEW x \in QueuedRequest
  PROVE  /\ Append(q, x) \in Seq(QueuedRequest)
         /\ \A k, y : stands(q, k, y) => stands(Append(q, x), k, y)
         /\ \A k, y : stands(Append(q, x), k, y) => stands(q, k, y) \/ (x[1] = k /\ x[2] = y)
         /\ stands(Append(q, x), x[1], x[2])
         /\ asksOnce(q) /\ ~stands(q, x[1], x[2]) => asksOnce(Append(q, x))
         /\ \A k, c : \A a \in behind(Append(q, x), k, c) :
               stands(q, k, c) /\ (a \in behind(q, k, c) \/ (x[1] = "article" /\ x[2] = a))
<1> DEFINE r == Append(q, x)
<1>1. r \in Seq(QueuedRequest) /\ Len(r) = Len(q) + 1 /\ Len(q) \in Nat
  OBVIOUS
<1>2. \A i \in 1..Len(q) : r[i] = q[i]
  OBVIOUS
<1>3. r[Len(q) + 1] = x
  OBVIOUS
<1>4. \A i \in 1..Len(r) : i \in 1..Len(q) \/ i = Len(q) + 1
  BY <1>1
<1>5. \A i \in 1..Len(q) : i \in 1..Len(r) /\ i < Len(q) + 1
  BY <1>1
<1>6. Len(q) + 1 \in 1..Len(r)
  BY <1>1
<1> HIDE DEF r
<1>7. \A k, y : stands(q, k, y) => stands(r, k, y)
  BY <1>2, <1>5 DEF stands
<1>8. \A k, y : stands(r, k, y) => stands(q, k, y) \/ (x[1] = k /\ x[2] = y)
  BY <1>2, <1>3, <1>4 DEF stands
<1>9. stands(r, x[1], x[2])
  BY <1>3, <1>6 DEF stands
<1>10. ASSUME asksOnce(q), ~stands(q, x[1], x[2])
       PROVE  asksOnce(r)
  <2> SUFFICES ASSUME NEW i \in 1..Len(r), NEW j \in 1..Len(r), r[i][1] # "unread",
                      r[i][1] = r[j][1], r[i][2] = r[j][2]
               PROVE  i = j
    BY DEF asksOnce
  <2>1. CASE i \in 1..Len(q) /\ j \in 1..Len(q)
    BY <1>2, <1>10, <2>1 DEF asksOnce
  <2>2. ASSUME NEW n \in 1..Len(q), q[n][1] = x[1], q[n][2] = x[2]
        PROVE  FALSE
    BY <1>10, <2>2 DEF stands
  <2>3. CASE i = Len(q) + 1 /\ j \in 1..Len(q)
    <3>1. q[j][1] = x[1] /\ q[j][2] = x[2]
      BY <1>2, <1>3, <2>3
    <3> QED BY <2>2, <2>3, <3>1
  <2>4. CASE j = Len(q) + 1 /\ i \in 1..Len(q)
    <3>1. q[i][1] = x[1] /\ q[i][2] = x[2]
      BY <1>2, <1>3, <2>4
    <3> QED BY <2>2, <2>4, <3>1
  <2> QED BY <1>4, <2>1, <2>3, <2>4
<1>11. ASSUME NEW k, NEW c, NEW a \in behind(r, k, c)
       PROVE  stands(q, k, c) /\ (a \in behind(q, k, c) \/ (x[1] = "article" /\ x[2] = a))
  <2>1. PICK i \in 1..Len(r), j \in 1..Len(r) :
          /\ i < j /\ r[i][1] = k /\ r[i][2] = c /\ r[j][1] = "article" /\ r[j][2] = a
    BY DEF behind
  <2>2. i \in 1..Len(q)
    BY <1>1, <2>1
  <2>3. stands(q, k, c)
    BY <1>2, <2>1, <2>2 DEF stands
  <2>4. CASE j \in 1..Len(q)
    BY <1>2, <2>1, <2>2, <2>3, <2>4 DEF behind
  <2>5. CASE j = Len(q) + 1
    BY <1>3, <2>1, <2>3, <2>5
  <2> QED BY <1>4, <2>4, <2>5
<1> QED BY <1>1, <1>7, <1>8, <1>9, <1>10, <1>11 DEF r

\* The worker takes the first request: the others stay as they stand.
LEMMA QueueTail ==
  ASSUME NEW q \in Seq(QueuedRequest), q # <<>>
  PROVE  /\ Tail(q) \in Seq(QueuedRequest) /\ Head(q) \in QueuedRequest
         /\ stands(q, Head(q)[1], Head(q)[2])
         /\ \A k, y : stands(Tail(q), k, y) => stands(q, k, y)
         /\ \A k, y : stands(q, k, y) =>
               stands(Tail(q), k, y) \/ (Head(q)[1] = k /\ Head(q)[2] = y)
         /\ asksOnce(q) => asksOnce(Tail(q))
         /\ asksOnce(q) /\ Head(q)[1] # "unread" => ~stands(Tail(q), Head(q)[1], Head(q)[2])
         /\ \A k, c : behind(Tail(q), k, c) \subseteq behind(q, k, c)
         /\ \A a \in Articles : stands(Tail(q), "article", a) =>
               a \in behind(q, Head(q)[1], Head(q)[2])
<1> DEFINE r == Tail(q)
           h == Head(q)
<1>1. r \in Seq(QueuedRequest) /\ Len(r) = Len(q) - 1 /\ Len(q) \in Nat /\ Len(q) >= 1
  OBVIOUS
<1>2. \A i \in 1..Len(r) : r[i] = q[i + 1]
  OBVIOUS
<1>3. h = q[1] /\ h \in QueuedRequest /\ 1 \in 1..Len(q)
  OBVIOUS
<1>4. \A i \in 1..Len(r) : i + 1 \in 1..Len(q) /\ 1 < i + 1
  BY <1>1
<1>5. \A i \in 1..Len(q) : i = 1 \/ (i - 1 \in 1..Len(r) /\ q[i] = r[i - 1])
  <2> SUFFICES ASSUME NEW i \in 1..Len(q), i # 1
               PROVE  i - 1 \in 1..Len(r) /\ q[i] = r[i - 1]
    OBVIOUS
  <2>1. i - 1 \in 1..Len(r) /\ (i - 1) + 1 = i
    BY <1>1
  <2> QED BY <1>2, <2>1
<1> HIDE DEF r, h
<1>6. \A k, y : stands(r, k, y) => stands(q, k, y)
  BY <1>2, <1>4 DEF stands
<1>7. \A k, y : stands(q, k, y) => stands(r, k, y) \/ (h[1] = k /\ h[2] = y)
  BY <1>3, <1>5 DEF stands
<1>8. stands(q, h[1], h[2])
  BY <1>3 DEF stands
<1>9. ASSUME asksOnce(q)
      PROVE  asksOnce(r)
  <2> SUFFICES ASSUME NEW i \in 1..Len(r), NEW j \in 1..Len(r), r[i][1] # "unread",
                      r[i][1] = r[j][1], r[i][2] = r[j][2]
               PROVE  i = j
    BY DEF asksOnce
  <2>1. i + 1 = j + 1
    BY <1>2, <1>4, <1>9 DEF asksOnce
  <2> QED BY <2>1
<1>10. ASSUME asksOnce(q), h[1] # "unread", stands(r, h[1], h[2])
       PROVE  FALSE
  <2>1. PICK i \in 1..Len(r) : r[i][1] = h[1] /\ r[i][2] = h[2]
    BY <1>10 DEF stands
  <2>2. i + 1 \in 1..Len(q) /\ q[i + 1] = r[i] /\ 1 < i + 1
    BY <1>2, <1>4
  <2>3. i + 1 = 1
    BY <1>3, <1>10, <2>1, <2>2 DEF asksOnce
  <2> QED BY <2>2, <2>3
<1>11. ASSUME NEW k, NEW c, NEW a \in behind(r, k, c)
       PROVE  a \in behind(q, k, c)
  <2>1. PICK i \in 1..Len(r), j \in 1..Len(r) :
          /\ i < j /\ r[i][1] = k /\ r[i][2] = c /\ r[j][1] = "article" /\ r[j][2] = a
    BY DEF behind
  <2>2. i + 1 < j + 1 /\ a \in Articles
    BY <2>1 DEF behind
  <2>3. /\ i + 1 \in 1..Len(q) /\ j + 1 \in 1..Len(q)
        /\ q[i + 1] = r[i] /\ q[j + 1] = r[j]
    BY <1>2, <1>4
  <2> QED BY <2>1, <2>2, <2>3 DEF behind
<1>12. ASSUME NEW a \in Articles, stands(r, "article", a)
       PROVE  a \in behind(q, h[1], h[2])
  BY <1>2, <1>3, <1>4, <1>12 DEF stands, behind
<1> QED BY <1>1, <1>3, <1>6, <1>7, <1>8, <1>9, <1>10, <1>11, <1>12 DEF r, h

\* A caller that stops waiting leaves the articles, and what others ask, as
\* they stand; it has no question left.
LEMMA QueueForsaken ==
  ASSUME NEW q \in Seq(QueuedRequest), NEW c \in Caller
  PROVE  /\ forsaken(q, c) \in Seq(QueuedRequest)
         /\ \A a : stands(q, "article", a) => stands(forsaken(q, c), "article", a)
         /\ \A k, y : k # "unread" /\ stands(forsaken(q, c), k, y) => stands(q, k, y)
         /\ \A k \in Questions : ~stands(forsaken(q, c), k, c)
         /\ asksOnce(q) => asksOnce(forsaken(q, c))
         /\ \A k, d : k # "unread" => behind(forsaken(q, c), k, d) \subseteq behind(q, k, d)
<1> DEFINE r == forsaken(q, c)
<1>1. Len(q) \in Nat /\ \A i \in 1..Len(q) : q[i] \in QueuedRequest
  OBVIOUS
<1>2. <<"unread", c>> \in QueuedRequest
  BY DEF QueuedRequest
<1>3. r \in [1..Len(q) -> QueuedRequest]
  BY <1>1, <1>2 DEF forsaken
<1>4. r \in Seq(QueuedRequest) /\ Len(r) = Len(q)
  BY <1>1, <1>3
<1>5. \A i \in 1..Len(q) :
        \/ r[i] = q[i] /\ ~(q[i][1] # "article" /\ q[i][2] = c)
        \/ r[i][1] = "unread" /\ q[i][1] # "article"
  BY <1>1 DEF forsaken
<1> HIDE DEF r
<1>6. \A a : stands(q, "article", a) => stands(r, "article", a)
  BY <1>4, <1>5 DEF stands
<1>7. \A k, y : k # "unread" /\ stands(r, k, y) => stands(q, k, y)
  BY <1>4, <1>5 DEF stands
<1>8. \A k \in Questions : ~stands(r, k, c)
  BY <1>4, <1>5 DEF stands, Questions
<1>9. ASSUME asksOnce(q)
      PROVE  asksOnce(r)
  BY <1>4, <1>5, <1>9 DEF asksOnce
<1>10. \A k, d : k # "unread" => behind(r, k, d) \subseteq behind(q, k, d)
  BY <1>4, <1>5 DEF behind
<1> QED BY <1>4, <1>6, <1>7, <1>8, <1>9, <1>10 DEF r

\* Sets of articles are finite: a part is no larger, one more adds at most one.
LEMMA ArticleSets ==
  ASSUME NEW S \in SUBSET Articles
  PROVE  /\ Cardinality(S) \in Nat
         /\ \A T \in SUBSET S : Cardinality(T) \in Nat /\ Cardinality(T) <= Cardinality(S)
         /\ \A a \in Articles : Cardinality(S \cup {a}) <= Cardinality(S) + 1
         /\ Cardinality(S) = 0 => S = {}
<1>1. IsFiniteSet(S)
  BY ReloadAssumption, FS_Subset
<1>2. Cardinality(S) \in Nat
  BY <1>1, FS_CardinalityType
<1>3. \A T \in SUBSET S : Cardinality(T) \in Nat /\ Cardinality(T) <= Cardinality(S)
  BY <1>1, FS_Subset, FS_CardinalityType
<1>4. ASSUME NEW a \in Articles
      PROVE  Cardinality(S \cup {a}) <= Cardinality(S) + 1
  <2>1. CASE a \in S
    <3>1. S \cup {a} = S
      BY <2>1
    <3> QED BY <1>2, <3>1
  <2>2. CASE a \notin S
    <3>1. Cardinality(S \cup {a}) = Cardinality(S) + 1
      BY <1>1, <2>2, FS_AddElement
    <3> QED BY <1>2, <3>1
  <2> QED BY <2>1, <2>2
<1>5. Cardinality(S) = 0 => S = {}
  BY <1>1, FS_EmptySet
<1> QED BY <1>2, <1>3, <1>4, <1>5

\* A step that moves no request, byte or checkpoint.
LEMMA ReloadQueueFrame ==
  ASSUME QuestionsAwaited, BytesCover, ReloadProtects,
         UNCHANGED <<requests, held, noting, bytes, lock, opened, cp, acknowledged>>
  PROVE  QuestionsAwaited' /\ BytesCover' /\ ReloadProtects'
<1>1. Sent' = Sent
  BY DEF Sent
<1>2. \A c : missed(c)' = missed(c)
  BY <1>1 DEF missed
<1>3. QuestionsAwaited'
  BY DEF QuestionsAwaited
<1>4. BytesCover'
  BY <1>1, <1>2 DEF BytesCover
<1>5. ReloadProtects'
  BY <1>1 DEF ReloadProtects
<1> QED BY <1>3, <1>4, <1>5

\* A step that moves no article and no bit.
LEMMA ReloadPlaceFrame ==
  ASSUME UnderwayIsClaimed, InOnePlace, Sent' = Sent,
         UNCHANGED <<wire, chan, work, held, acknowledged, claimed>>
  PROVE  UnderwayIsClaimed' /\ InOnePlace'
  BY DEF UnderwayIsClaimed, InOnePlace, underway, onWire, buffered

\* A step that leaves the downloaders, the pipeline's source and the reload.
LEMMA ReloadSourceFrame ==
  ASSUME OneSource, cp'["reload"].pc # "idle" => cp["reload"].pc # "idle",
         UNCHANGED <<reload, reloadMu, wire, running, serving, swap, reloadsAsked, chan, source,
                     work, noting>>
  PROVE  OneSource'
  BY DEF OneSource, reaches, quiet

\* A step that starts or ends a checkpoint.
LEMMA ReloadCheckpointFrame ==
  ASSUME ReloadTypeOK, QuestionsAwaited, BytesCover, ReloadProtects,
         UNCHANGED <<requests, held, noting, bytes, lock, opened, acknowledged>>,
         NEW c \in Caller, cp[c].pc \in {"idle", "end"},
         cp' \in [Caller -> Checkpoint], cp'[c].pc \in {"idle", "ask"},
         \A d \in Caller \ {c} : cp'[d] = cp[d]
  PROVE  QuestionsAwaited' /\ BytesCover' /\ ReloadProtects'
<1>1. Sent' = Sent
  BY DEF Sent
<1>2. \A d \in Caller \ {c} : missed(d)' = missed(d)
  BY <1>1 DEF missed
<1>3. \A k \in Questions : ~stands(requests, k, c)
  BY DEF QuestionsAwaited, Questions
<1>4. QuestionsAwaited'
  BY <1>3 DEF QuestionsAwaited
<1>5. \A d \in Caller : cp'[d].pc \in Locked \cup Counted => d # c
  BY DEF Locked, Counted
<1>6. BytesCover'
  BY <1>1, <1>2, <1>5 DEF BytesCover
<1>7. ReloadProtects'
  <2>1. CASE c = "reload"
    BY <2>1 DEF ReloadProtects, Locked
  <2>2. CASE c # "reload"
    <3>1. cp'["reload"] = cp["reload"]
      BY <2>2 DEF Caller
    <3> QED BY <1>1, <3>1 DEF ReloadProtects
  <2> QED BY <2>1, <2>2
<1> QED BY <1>4, <1>6, <1>7

\* A step that adds nothing a barrier must settle.
LEMMA ReloadBytesFrame ==
  ASSUME ReloadTypeOK, BytesCover, bytes' = bytes,
         (Sent' \cup held') \ noting' \subseteq (Sent \cup held) \ noting,
         \A c \in Caller : cp'[c].pc \in Locked => lock' = {c},
         \A c \in Caller : cp'[c].pc \in Counted =>
            /\ cp[c].pc \in Counted /\ cp'[c].pending = cp[c].pending
            /\ missed(c)' \ noting' \subseteq missed(c) \ noting,
         \A c \in Caller : cp'[c].pc = "ack" => cp'[c].got \subseteq held',
         held' # {} => opened'
  PROVE  BytesCover'
<1>1. (Sent \cup held) \ noting \in SUBSET Articles /\ bytes \in Nat
  BY DEF ReloadTypeOK, Sent
<1>2. Cardinality((Sent' \cup held') \ noting') <= bytes'
  <2> DEFINE S == (Sent \cup held) \ noting
             T == (Sent' \cup held') \ noting'
  <2>1. S \in SUBSET Articles /\ T \in SUBSET S /\ Cardinality(S) <= bytes
    BY <1>1 DEF BytesCover
  <2> HIDE DEF S, T
  <2>2. Cardinality(T) <= Cardinality(S) /\ Cardinality(T) \in Nat /\ Cardinality(S) \in Nat
    BY <2>1, ArticleSets
  <2>3. Cardinality(T) <= bytes'
    BY <1>1, <2>1, <2>2
  <2> QED BY <2>3 DEF T
<1>3. ASSUME NEW c \in Caller, cp'[c].pc \in Counted
      PROVE  Cardinality(missed(c)' \ noting') + cp'[c].pending <= bytes'
  <2> DEFINE S == missed(c) \ noting
             T == missed(c)' \ noting'
  <2>1. S \in SUBSET Articles
    BY DEF missed, behind, Sent, ReloadTypeOK
  <2>2. T \in SUBSET S /\ Cardinality(S) + cp[c].pending <= bytes /\ cp'[c].pending = cp[c].pending
    BY <1>3 DEF BytesCover
  <2>3. cp[c].pending \in Nat
    BY DEF ReloadTypeOK, Checkpoint
  <2> HIDE DEF S, T
  <2>4. Cardinality(T) <= Cardinality(S) /\ Cardinality(T) \in Nat /\ Cardinality(S) \in Nat
    BY <2>1, <2>2, ArticleSets
  <2>5. Cardinality(T) + cp'[c].pending <= bytes'
    BY <1>1, <2>2, <2>3, <2>4
  <2> QED BY <2>5 DEF T
<1> QED BY <1>2, <1>3 DEF BytesCover

\* Downloaders: an article is handed out only when it is nowhere.
LEMMA ReloadDispatch ==
  ASSUME ReloadIInv, NEW g \in Gens, NEW a \in Articles, Dispatch(g, a)
  PROVE  ReloadIInv'
<1> USE DEF ReloadIInv
<1>1. a \notin underway
  BY DEF UnderwayIsClaimed, Dispatch
<1>2. Sent' = Sent
  BY DEF Dispatch, assembly, Sent
<1>3. onWire' = onWire \cup {a} /\ buffered' = buffered
  <2>1. PICK w : w = <<g, a>>
    OBVIOUS
  <2>2. w[2] = a /\ wire' = wire \cup {w} /\ chan' = chan
    BY <2>1 DEF Dispatch
  <2> QED BY <2>2 DEF onWire, buffered
<1>4. ReloadTypeOK'
  BY DEF Dispatch, ReloadTypeOK, pipe, assembly
<1>5. UnderwayIsClaimed'
  BY <1>2, <1>3 DEF Dispatch, UnderwayIsClaimed, underway, pipe, assembly
<1>6. InOnePlace'
  <2>1. \A x \in wire : x[2] # a
    BY <1>1 DEF underway, onWire
  <2>2. \A x, y \in wire' : x[2] = y[2] => x = y
    BY <2>1 DEF Dispatch, InOnePlace
  <2> QED BY <1>1, <1>2, <1>3, <2>2 DEF Dispatch, InOnePlace, underway, pipe, assembly
<1>7. OneSource'
  BY DEF Dispatch, OneSource, reaches, quiet, pipe, threads, budget
<1> QED BY <1>4, <1>5, <1>6, <1>7, ReloadQueueFrame DEF Dispatch, pipe, assembly

LEMMA ReloadFetched ==
  ASSUME ReloadIInv, NEW g \in Gens, NEW a \in Articles, Fetched(g, a)
  PROVE  ReloadIInv'
<1> USE DEF ReloadIInv
<1>1. Sent' = Sent
  BY DEF Fetched, assembly, Sent
<1>2. onWire' = onWire \ {a} /\ buffered' = buffered \cup {a} /\ a \in onWire
  BY DEF Fetched, onWire, buffered, InOnePlace
<1>3. ReloadTypeOK'
  BY DEF Fetched, ReloadTypeOK, pipe, assembly
<1>4. UnderwayIsClaimed'
  BY <1>1, <1>2 DEF Fetched, UnderwayIsClaimed, underway, pipe, assembly, bits
<1>5. InOnePlace'
  <2>1. \A x \in chan : x[2] # a
    BY <1>2 DEF InOnePlace, buffered
  <2>2. \A x, y \in chan' : x[2] = y[2] => x = y
    BY <2>1 DEF Fetched, InOnePlace
  <2>3. \A x, y \in wire' : x[2] = y[2] => x = y
    BY DEF Fetched, InOnePlace
  <2> QED BY <1>1, <1>2, <2>2, <2>3 DEF Fetched, InOnePlace, pipe, assembly
<1>6. OneSource'
  BY DEF Fetched, OneSource, reaches, quiet, pipe, threads, budget
<1> QED BY <1>3, <1>4, <1>5, <1>6, ReloadQueueFrame DEF Fetched, pipe, assembly, bits

\* The pipeline takes what the source has; a swap waits until it is drained
\* and nothing is in flight.
LEMMA ReloadTake ==
  ASSUME ReloadIInv, NEW a \in Articles, Take(a)
  PROVE  ReloadIInv'
<1> USE DEF ReloadIInv
<1>1. PICK g \in source : <<g, a>> \in chan /\ chan' = chan \ {<<g, a>>}
  BY DEF Take
<1>2. Sent' = Sent
  BY DEF Take, assembly, Sent
<1>3. onWire' = onWire /\ buffered' = buffered \ {a} /\ a \in buffered
  BY <1>1 DEF Take, onWire, buffered, InOnePlace
<1>4. ReloadTypeOK'
  BY <1>1 DEF Take, ReloadTypeOK, assembly
<1>5. UnderwayIsClaimed'
  BY <1>2, <1>3 DEF Take, UnderwayIsClaimed, underway, assembly, bits
<1>6. InOnePlace'
  <2>1. \A x, y \in chan' : x[2] = y[2] => x = y
    BY <1>1 DEF InOnePlace
  <2> QED BY <1>2, <1>3, <2>1 DEF Take, InOnePlace, assembly
<1>7. OneSource'
  BY <1>1 DEF Take, OneSource, reaches, quiet, threads, budget
<1> QED BY <1>4, <1>5, <1>6, <1>7, ReloadQueueFrame DEF Take, assembly, bits

LEMMA ReloadClosed ==
  ASSUME ReloadIInv, Closed
  PROVE  ReloadIInv'
<1> USE DEF ReloadIInv
<1>1. Sent' = Sent
  BY DEF Closed, assembly, Sent
<1>2. ReloadTypeOK'
  BY DEF Closed, ReloadTypeOK, assembly, fetch
<1>3. UnderwayIsClaimed' /\ InOnePlace'
  BY <1>1, ReloadPlaceFrame DEF Closed, assembly, fetch, bits
<1>4. PICK g \in source : g \notin running /\ \A a \in Articles : <<g, a>> \notin chan
  BY DEF Closed
<1>5. \A x \in chan : x[1] \notin source
  <2> SUFFICES ASSUME NEW x \in chan, x[1] \in source PROVE FALSE
    OBVIOUS
  <2>1. x[1] = g /\ x = <<x[1], x[2]>> /\ x[2] \in Articles
    BY <1>4 DEF OneSource, ReloadTypeOK
  <2> QED BY <1>4, <2>1
<1>6. \A h \in running : h \notin source
  BY <1>4 DEF OneSource
<1>7. OneSource'
  BY <1>5, <1>6 DEF Closed, OneSource, reaches, quiet, threads, budget, fetch
<1> QED BY <1>2, <1>3, <1>7, ReloadQueueFrame DEF Closed, assembly, bits

LEMMA ReloadSwap ==
  ASSUME ReloadIInv, Swap
  PROVE  ReloadIInv'
<1> USE DEF ReloadIInv
<1>1. Sent' = Sent
  BY DEF Swap, assembly, Sent
<1>2. ReloadTypeOK'
  BY DEF Swap, ReloadTypeOK, assembly, fetch
<1>3. UnderwayIsClaimed' /\ InOnePlace'
  BY <1>1, ReloadPlaceFrame DEF Swap, assembly, fetch, bits
<1>4. \A x \in chan : x[1] \notin source
  BY DEF Swap, drainsSource, ReloadTypeOK
<1>5. CASE reload = "quiesce"
  <2>1. source' = {} /\ swap' = <<>> /\ running = {} /\ chan = {}
    BY <1>4, <1>5 DEF Swap, OneSource, reaches
  <2> QED BY <1>2, <1>3, <1>5, <2>1, ReloadQueueFrame
          DEF Swap, awaitInFlight, OneSource, reaches, quiet, threads, budget, fetch, assembly, bits
<1>6. CASE reload = "switch"
  <2>1. /\ source' = {reloadsAsked} /\ swap' = <<>> /\ source = {}
        /\ \A x \in chan : x[1] = reloadsAsked
        /\ \A g \in running : g = reloadsAsked
    BY <1>4, <1>6 DEF Swap, OneSource, reaches, quiet
  <2>2. OneSource'
    BY <1>6, <2>1 DEF Swap, OneSource, reaches, quiet, threads, budget, fetch
  <2> QED BY <1>2, <1>3, <2>2, ReloadQueueFrame DEF Swap, fetch, assembly, bits
<1> QED BY <1>5, <1>6 DEF Swap, OneSource

\* The reload: it stops the only downloader that runs, and starts the next
\* once nothing of the old one is left.
LEMMA ReloadOneStops ==
  ASSUME ReloadIInv, reload \in {"idle", "halt"}, stops(serving),
         UNCHANGED <<chan, work, held, acknowledged>>, Sent' = Sent
  PROVE  /\ running' = {} /\ wire' = {}
         /\ UnderwayIsClaimed' /\ InOnePlace'
<1> USE DEF ReloadIInv
<1>1. running \subseteq {serving} /\ \A x \in wire : x[1] = serving
  BY DEF OneSource
<1>2. running' = {} /\ wire' = {}
  BY <1>1 DEF stops
<1>3. claimed' = claimed \ onWire
  BY <1>1 DEF stops, onWire
<1>4. onWire' = {} /\ buffered' = buffered
  BY <1>2 DEF onWire, buffered
<1>5. UnderwayIsClaimed'
  BY <1>3, <1>4 DEF UnderwayIsClaimed, InOnePlace, underway
<1>6. InOnePlace'
  BY <1>2, <1>4 DEF InOnePlace
<1> QED BY <1>2, <1>5, <1>6

LEMMA ReloadReloadBegins ==
  ASSUME ReloadIInv, ReloadBegins
  PROVE  ReloadIInv'
<1> USE DEF ReloadIInv
<1>1. Sent' = Sent
  BY DEF ReloadBegins, assembly, Sent
<1>2. ReloadTypeOK'
  BY DEF ReloadBegins, ReloadTypeOK, assembly, fetch, pipe
<1>3. UnderwayIsClaimed' /\ InOnePlace'
  BY <1>1, ReloadPlaceFrame DEF ReloadBegins, assembly, fetch, pipe, bits
<1>4. OneSource'
  BY DEF ReloadBegins, OneSource, reaches, quiet, fetch, pipe
<1> QED BY <1>2, <1>3, <1>4, ReloadQueueFrame DEF ReloadBegins, assembly, pipe, bits

LEMMA ReloadReloadStops ==
  ASSUME ReloadIInv, ReloadStops
  PROVE  ReloadIInv'
<1> USE DEF ReloadIInv
<1>1. Sent' = Sent
  BY DEF ReloadStops, assembly, Sent
<1>2. running' = {} /\ wire' = {} /\ UnderwayIsClaimed' /\ InOnePlace'
  BY <1>1, ReloadOneStops DEF ReloadStops, assembly
<1>3. ReloadTypeOK'
  BY <1>2 DEF ReloadStops, ReloadTypeOK, assembly
<1>4. OneSource'
  BY <1>2 DEF ReloadStops, OneSource, reaches, quiet, budget
<1> QED BY <1>2, <1>3, <1>4, ReloadQueueFrame DEF ReloadStops, assembly

LEMMA ReloadReloadStarts ==
  ASSUME ReloadIInv, ReloadStarts
  PROVE  ReloadIInv'
<1> USE DEF ReloadIInv
<1>1. Sent' = Sent
  BY DEF ReloadStarts, assembly, Sent
<1>2. ReloadTypeOK'
  BY DEF ReloadStarts, ReloadTypeOK, assembly, pipe
<1>3. UnderwayIsClaimed' /\ InOnePlace'
  BY <1>1, ReloadPlaceFrame DEF ReloadStarts, assembly, pipe, bits
<1>4. OneSource'
  BY DEF ReloadStarts, OneSource, reaches, quiet, pipe, budget
<1> QED BY <1>2, <1>3, <1>4, ReloadQueueFrame DEF ReloadStarts, assembly, pipe, bits

LEMMA ReloadReloadPublishes ==
  ASSUME ReloadIInv, ReloadPublishes
  PROVE  ReloadIInv'
<1> USE DEF ReloadIInv
<1>1. Sent' = Sent
  BY DEF ReloadPublishes, assembly, Sent
<1>2. ReloadTypeOK'
  BY DEF ReloadPublishes, ReloadTypeOK, assembly
<1>3. UnderwayIsClaimed' /\ InOnePlace'
  BY <1>1, ReloadPlaceFrame DEF ReloadPublishes, assembly, bits
<1>4. OneSource'
  BY DEF ReloadPublishes, OneSource, reaches, quiet, budget
<1> QED BY <1>2, <1>3, <1>4, ReloadQueueFrame DEF ReloadPublishes, assembly, bits

LEMMA ReloadReloadEnds ==
  ASSUME ReloadIInv, ReloadEnds
  PROVE  ReloadIInv'
<1> USE DEF ReloadIInv
<1>1. Sent' = Sent
  BY DEF ReloadEnds, assembly, Sent
<1>2. ReloadTypeOK'
  BY DEF ReloadEnds, ReloadTypeOK, assembly, fetch, pipe
<1>3. UnderwayIsClaimed' /\ InOnePlace'
  BY <1>1, ReloadPlaceFrame DEF ReloadEnds, assembly, fetch, pipe, bits
<1>4. OneSource'
  BY DEF ReloadEnds, OneSource, reaches, quiet, fetch, pipe, budget
<1> QED BY <1>2, <1>3, <1>4, ReloadQueueFrame DEF ReloadEnds, assembly, pipe, bits

\* Steps of the shutdown that move nothing this invariant speaks of.
LEMMA ReloadShutdownMoves ==
  ASSUME ReloadIInv, ShutdownBegins \/ Evicted \/ ShutdownEnds
  PROVE  ReloadIInv'
<1> USE DEF ReloadIInv
<1>1. UNCHANGED <<bits, fetch, pipe, assembly, bytes, lock, cp, reload, reloadMu, budget>>
  BY DEF ShutdownBegins, Evicted, ShutdownEnds, threads
<1>2. Sent' = Sent
  BY <1>1 DEF assembly, Sent
<1>3. ReloadTypeOK'
  BY <1>1 DEF ReloadTypeOK, assembly, fetch, pipe
<1>4. UnderwayIsClaimed' /\ InOnePlace'
  BY <1>1, <1>2, ReloadPlaceFrame DEF assembly, fetch, pipe, bits
<1>5. OneSource'
  BY <1>1, ReloadSourceFrame DEF fetch, pipe, budget
<1> QED BY <1>1, <1>3, <1>4, <1>5, ReloadQueueFrame DEF assembly, pipe, bits

\* A checkpoint record that replaces another's.
LEMMA ReloadCpSet ==
  ASSUME ReloadTypeOK, NEW c \in Caller, NEW r \in Checkpoint, cp' = [cp EXCEPT ![c] = r]
  PROVE  cp' \in [Caller -> Checkpoint] /\ cp'[c] = r /\ \A d \in Caller \ {c} : cp'[d] = cp[d]
  BY DEF ReloadTypeOK

LEMMA ReloadNoCheckpoint ==
  /\ NoCheckpoint \in Checkpoint /\ NoCheckpoint.pc = "idle"
  /\ [NoCheckpoint EXCEPT !.pc = "ask"] \in Checkpoint
  /\ [NoCheckpoint EXCEPT !.pc = "ask"].pc = "ask"
  BY DEF NoCheckpoint, Checkpoint

LEMMA ReloadLoopTurns ==
  ASSUME ReloadIInv, LoopBegins \/ LoopEnds
  PROVE  ReloadIInv'
<1> USE DEF ReloadIInv
<1>1. UNCHANGED <<bits, fetch, pipe, assembly, bytes, lock, reload, reloadMu, budget>>
  BY DEF LoopBegins, LoopEnds, threads
<1>2. /\ cp["loop"].pc \in {"idle", "end"} /\ cp' \in [Caller -> Checkpoint]
      /\ cp'["loop"].pc \in {"idle", "ask"} /\ \A d \in Caller \ {"loop"} : cp'[d] = cp[d]
  BY ReloadCpSet, ReloadNoCheckpoint DEF LoopBegins, LoopEnds, begins, Caller
<1>3. Sent' = Sent
  BY <1>1 DEF assembly, Sent
<1>4. ReloadTypeOK'
  BY <1>1, <1>2 DEF ReloadTypeOK, assembly, fetch, pipe
<1>5. UnderwayIsClaimed' /\ InOnePlace'
  BY <1>1, <1>3, ReloadPlaceFrame DEF assembly, fetch, pipe, bits
<1>6. cp'["reload"] = cp["reload"]
  BY <1>2 DEF Caller
<1>7. OneSource'
  BY <1>1, <1>6, ReloadSourceFrame DEF fetch, pipe, budget
<1>8. QuestionsAwaited' /\ BytesCover' /\ ReloadProtects'
  BY <1>1, <1>2, ReloadCheckpointFrame DEF assembly, pipe, bits, Caller
<1> QED BY <1>4, <1>5, <1>7, <1>8

LEMMA ReloadReloadCheckpoints ==
  ASSUME ReloadIInv, ReloadCheckpoints
  PROVE  ReloadIInv'
<1> USE DEF ReloadIInv
<1>1. UNCHANGED <<bits, fetch, pipe, assembly, bytes, lock, reloadMu, budget>>
  BY DEF ReloadCheckpoints
<1>2. /\ cp["reload"].pc \in {"idle", "end"} /\ cp' \in [Caller -> Checkpoint]
      /\ cp'["reload"].pc \in {"idle", "ask"} /\ \A d \in Caller \ {"reload"} : cp'[d] = cp[d]
  BY ReloadCpSet, ReloadNoCheckpoint DEF ReloadCheckpoints, begins, Caller
<1>3. Sent' = Sent
  BY <1>1 DEF assembly, Sent
<1>4. ReloadTypeOK'
  BY <1>1, <1>2 DEF ReloadTypeOK, assembly, fetch, pipe
<1>5. UnderwayIsClaimed' /\ InOnePlace'
  BY <1>1, <1>3, ReloadPlaceFrame DEF assembly, fetch, pipe, bits
<1>7. OneSource'
  BY <1>1 DEF ReloadCheckpoints, OneSource, reaches, quiet, fetch, pipe, budget
<1>8. QuestionsAwaited' /\ BytesCover' /\ ReloadProtects'
  BY <1>1, <1>2, ReloadCheckpointFrame DEF assembly, pipe, bits, Caller
<1> QED BY <1>4, <1>5, <1>7, <1>8

\* The bits are cleared only when nothing is under way that is not
\* acknowledged.
LEMMA ReloadReloadClears ==
  ASSUME ReloadIInv, ReloadClears
  PROVE  ReloadIInv'
<1> USE DEF ReloadIInv
<1>1. UNCHANGED <<acknowledged, fetch, pipe, assembly, bytes, lock, reloadMu, budget>>
  BY DEF ReloadClears
<1>2. /\ cp["reload"].pc \in {"idle", "end"} /\ cp' \in [Caller -> Checkpoint]
      /\ cp'["reload"].pc = "idle" /\ \A d \in Caller \ {"reload"} : cp'[d] = cp[d]
  BY ReloadCpSet, ReloadNoCheckpoint DEF ReloadClears, Caller
<1>3. Sent' = Sent
  BY <1>1 DEF assembly, Sent
<1>4. ReloadTypeOK'
  BY <1>1, <1>2 DEF ReloadTypeOK, assembly, fetch, pipe
<1>5. underway' = underway /\ InOnePlace'
  BY <1>1, <1>3 DEF InOnePlace, underway, onWire, buffered, assembly, fetch, pipe
<1>6. UnderwayIsClaimed'
  <2>1. CASE claimed' = claimed
    BY <1>1, <1>5, <2>1 DEF UnderwayIsClaimed
  <2>2. CASE ~cp["reload"].unsafe
    <3>1. running = {} /\ source = {} /\ work = {}
      BY DEF ReloadClears, OneSource, quiet
    <3>2. wire = {} /\ chan = {}
      BY <3>1 DEF ReloadClears, OneSource, reaches
    <3>3. Sent = {} /\ held \subseteq acknowledged
      BY <2>2 DEF ReloadClears, ReloadProtects
    <3>4. underway \subseteq acknowledged
      BY <3>1, <3>2, <3>3 DEF underway, onWire, buffered
    <3> QED BY <1>1, <1>5, <3>4 DEF UnderwayIsClaimed
  <2> QED BY <2>1, <2>2 DEF ReloadClears
<1>7. OneSource'
  BY <1>1, <1>2 DEF ReloadClears, OneSource, reaches, quiet, fetch, pipe, budget
<1>8. QuestionsAwaited' /\ BytesCover' /\ ReloadProtects'
  BY <1>1, <1>2, ReloadCheckpointFrame DEF assembly, pipe, bits, Caller
<1> QED BY <1>4, <1>5, <1>6, <1>7, <1>8

LEMMA ReloadStopDownloader ==
  ASSUME ReloadIInv, StopDownloader
  PROVE  ReloadIInv'
<1> USE DEF ReloadIInv
<1>1. UNCHANGED <<acknowledged, serving, chan, pipe, assembly, bytes, lock, reload, reloadMu, budget>>
  BY DEF StopDownloader
<1>2. /\ cp["stop"].pc \in {"idle", "end"} /\ cp' \in [Caller -> Checkpoint]
      /\ cp'["stop"].pc \in {"idle", "ask"} /\ \A d \in Caller \ {"stop"} : cp'[d] = cp[d]
  BY ReloadCpSet, ReloadNoCheckpoint DEF StopDownloader, begins, Caller
<1>3. Sent' = Sent
  BY <1>1 DEF assembly, Sent
<1>4. reload = "idle"
  BY DEF StopDownloader, snapshots, OneSource
<1>5. running' = {} /\ wire' = {} /\ UnderwayIsClaimed' /\ InOnePlace'
  BY <1>1, <1>3, <1>4, ReloadOneStops DEF StopDownloader, assembly, pipe
<1>6. ReloadTypeOK'
  BY <1>1, <1>2, <1>5 DEF ReloadTypeOK, assembly, pipe
<1>7. cp'["reload"] = cp["reload"]
  BY <1>2 DEF Caller
<1>8. OneSource'
  BY <1>1, <1>4, <1>5, <1>7 DEF OneSource, reaches, quiet, pipe, budget
<1>9. QuestionsAwaited' /\ BytesCover' /\ ReloadProtects'
  BY <1>1, <1>2, ReloadCheckpointFrame DEF assembly, pipe, Caller
<1> QED BY <1>5, <1>6, <1>8, <1>9

\* A Stop that is given up changes nothing but the shutdown; when it returns
\* after all, it is the only downloader that ran.
LEMMA ReloadStopTimesOut ==
  ASSUME ReloadIInv, StopTimesOut
  PROVE  ReloadIInv'
<1> USE DEF ReloadIInv
<1>1. UNCHANGED <<bits, fetch, pipe, assembly, bytes, lock, reload, reloadMu, reloadsAsked>>
  BY DEF StopTimesOut
<1>2. /\ cp["stop"].pc \in {"idle", "end"} /\ cp' \in [Caller -> Checkpoint]
      /\ cp'["stop"].pc \in {"idle", "ask"} /\ \A d \in Caller \ {"stop"} : cp'[d] = cp[d]
  BY ReloadCpSet, ReloadNoCheckpoint DEF StopTimesOut, begins, Caller
<1>3. Sent' = Sent
  BY <1>1 DEF assembly, Sent
<1>4. ReloadTypeOK'
  BY <1>1, <1>2 DEF ReloadTypeOK, assembly, fetch, pipe
<1>5. UnderwayIsClaimed' /\ InOnePlace'
  BY <1>1, <1>3, ReloadPlaceFrame DEF assembly, fetch, pipe, bits
<1>6. cp'["reload"] = cp["reload"]
  BY <1>2 DEF Caller
<1>7. OneSource'
  BY <1>1, <1>6, ReloadSourceFrame DEF fetch, pipe
<1>8. QuestionsAwaited' /\ BytesCover' /\ ReloadProtects'
  BY <1>1, <1>2, ReloadCheckpointFrame DEF assembly, pipe, bits, Caller
<1> QED BY <1>4, <1>5, <1>7, <1>8

LEMMA ReloadStopReturns ==
  ASSUME ReloadIInv, StopReturns
  PROVE  ReloadIInv'
<1> USE DEF ReloadIInv
<1>1. UNCHANGED <<acknowledged, serving, chan, pipe, assembly, bytes, lock, cp, reload, reloadMu, reloadsAsked>>
  BY DEF StopReturns, threads, budget
<1>2. Sent' = Sent
  BY <1>1 DEF assembly, Sent
<1>3. running' = {} /\ wire' = {} /\ UnderwayIsClaimed' /\ InOnePlace'
  BY <1>1, <1>2, ReloadOneStops DEF StopReturns, assembly, pipe
<1>4. ReloadTypeOK'
  BY <1>1, <1>3 DEF ReloadTypeOK, assembly, pipe
<1>5. OneSource'
  BY <1>1, <1>3 DEF OneSource, reaches, quiet, pipe
<1> QED BY <1>1, <1>3, <1>4, <1>5, ReloadQueueFrame DEF assembly, pipe

LEMMA ReloadStopAssembler ==
  ASSUME ReloadIInv, StopAssembler
  PROVE  ReloadIInv'
<1> USE DEF ReloadIInv
<1>1. UNCHANGED <<bits, fetch, pipe, assembly, bytes, lock, reload, reloadMu, budget>>
  BY DEF StopAssembler
<1>2. /\ cp["stop"].pc \in {"idle", "end"} /\ cp' \in [Caller -> Checkpoint]
      /\ cp'["stop"].pc \in {"idle", "ask"} /\ \A d \in Caller \ {"stop"} : cp'[d] = cp[d]
  BY ReloadCpSet, ReloadNoCheckpoint DEF StopAssembler, Caller
<1>3. Sent' = Sent
  BY <1>1 DEF assembly, Sent
<1>4. ReloadTypeOK'
  BY <1>1, <1>2 DEF ReloadTypeOK, assembly, fetch, pipe
<1>5. UnderwayIsClaimed' /\ InOnePlace'
  BY <1>1, <1>3, ReloadPlaceFrame DEF assembly, fetch, pipe, bits
<1>6. cp'["reload"] = cp["reload"]
  BY <1>2 DEF Caller
<1>7. OneSource'
  BY <1>1, <1>6, ReloadSourceFrame DEF fetch, pipe, budget
<1>8. QuestionsAwaited' /\ BytesCover' /\ ReloadProtects'
  BY <1>1, <1>2, ReloadCheckpointFrame DEF assembly, pipe, bits, Caller
<1> QED BY <1>4, <1>5, <1>7, <1>8

\* The pipeline sends an article: it is in flight until it is counted.
LEMMA ReloadWrite ==
  ASSUME ReloadIInv, NEW a \in Articles, Write(a)
  PROVE  ReloadIInv'
<1> USE DEF ReloadIInv
<1>1. PICK x \in QueuedRequest : x[1] = "article" /\ x[2] = a /\ requests' = Append(requests, x)
  <2>1. <<"article", a>> \in QueuedRequest
    BY DEF QueuedRequest
  <2> QED BY <2>1 DEF Write
<1>2. requests \in Seq(QueuedRequest) /\ work \subseteq Articles /\ held \subseteq Articles
  BY DEF ReloadTypeOK
<1>3. /\ a \in work /\ work' = work \ {a} /\ noting' = noting \cup {a}
      /\ UNCHANGED <<claimed, acknowledged, wire, chan, running, serving, source, swap, held, opened,
                     bytes, lock, cp, reload, reloadMu, reloadsAsked>>
  BY DEF Write, bits, fetch, threads, budget
<1>4. Sent' = Sent \cup {a}
  BY <1>1, <1>2, QueueAppend DEF Sent
<1>5. ReloadTypeOK'
  BY <1>1, <1>2, <1>3, QueueAppend DEF ReloadTypeOK
<1>6. onWire' = onWire /\ buffered' = buffered
  BY <1>3 DEF onWire, buffered
<1>7. UnderwayIsClaimed'
  BY <1>3, <1>4, <1>6 DEF UnderwayIsClaimed, underway
<1>8. InOnePlace'
  BY <1>3, <1>4, <1>6 DEF InOnePlace
<1>9. ~quiet
  BY <1>3 DEF OneSource
<1>10. OneSource'
  BY <1>3, <1>9 DEF OneSource, reaches, quiet
<1>11. ~stands(requests, "article", a)
  BY <1>2, <1>3 DEF InOnePlace, Sent
<1>12. QuestionsAwaited'
  <2>1. asksOnce(requests')
    BY <1>1, <1>2, <1>11, QueueAppend DEF QuestionsAwaited
  <2>2. \A c \in Caller, k \in Questions : stands(requests', k, c) => stands(requests, k, c)
    BY <1>1, <1>2, QueueAppend DEF Questions
  <2> QED BY <1>3, <2>1, <2>2 DEF QuestionsAwaited
<1>13. BytesCover'
  <2>1. \A c \in Caller : missed(c)' \ noting' \subseteq missed(c) \ noting
    <3> SUFFICES ASSUME NEW c \in Caller
                 PROVE  missed(c)' \ noting' \subseteq missed(c) \ noting
      OBVIOUS
    <3>1. behind(requests', "drain", c) \subseteq behind(requests, "drain", c) \cup {a}
      BY <1>1, <1>2, QueueAppend
    <3> QED BY <1>3, <1>4, <3>1 DEF missed
  <2>2. (Sent' \cup held') \ noting' \subseteq (Sent \cup held) \ noting
    BY <1>3, <1>4
  <2>3. \A c \in Caller : cp[c].pc \in Locked => lock = {c}
    BY DEF BytesCover
  <2>4. \A c \in Caller : cp[c].pc = "ack" => cp[c].got \subseteq held
    BY DEF BytesCover
  <2>5. held # {} => opened
    BY DEF BytesCover
  <2> QED BY <1>3, <2>1, <2>2, <2>3, <2>4, <2>5, ReloadBytesFrame
<1>14. ReloadProtects'
  <2>1. reload # "checkpoint"
    BY <1>9 DEF quiet
  <2>2. cp'["reload"].pc = "idle"
    BY <1>3, <2>1 DEF OneSource
  <2> QED BY <2>2 DEF ReloadProtects, Locked
<1> QED BY <1>5, <1>7, <1>8, <1>10, <1>12, <1>13, <1>14

\* The pipeline counts what it sent.
LEMMA ReloadNote ==
  ASSUME ReloadIInv, NEW a \in Articles, noteJobBytes(a)
  PROVE  ReloadIInv'
<1> USE DEF ReloadIInv
<1>1. /\ a \in noting /\ noting' = noting \ {a} /\ bytes' = bytes + 1
      /\ UNCHANGED <<claimed, acknowledged, wire, chan, running, serving, source, swap, work, requests,
                     held, opened, lock, cp, reload, reloadMu, reloadsAsked>>
  BY DEF noteJobBytes, bits, fetch, threads, budget, assembly
<1>2. Sent' = Sent
  BY <1>1 DEF Sent
<1>3. ReloadTypeOK'
  BY <1>1 DEF ReloadTypeOK
<1>4. UnderwayIsClaimed' /\ InOnePlace'
  BY <1>1, <1>2, ReloadPlaceFrame
<1>5. OneSource'
  BY <1>1 DEF OneSource, reaches, quiet
<1>6. QuestionsAwaited'
  BY <1>1 DEF QuestionsAwaited
<1>7. ASSUME NEW S \in SUBSET Articles
      PROVE  /\ Cardinality(S \ noting') \in Nat /\ Cardinality(S \ noting) \in Nat
             /\ Cardinality(S \ noting') <= Cardinality(S \ noting) + 1
  <2> DEFINE T == S \ noting
             U == S \ noting'
  <2>1. T \in SUBSET Articles /\ U \in SUBSET Articles /\ U \in SUBSET (T \cup {a})
        /\ T \cup {a} \in SUBSET Articles
    BY <1>1
  <2> HIDE DEF T, U
  <2>2. Cardinality(T) \in Nat /\ Cardinality(U) \in Nat /\ Cardinality(T \cup {a}) \in Nat
        /\ Cardinality(T \cup {a}) <= Cardinality(T) + 1
    BY <2>1, ArticleSets
  <2>3. Cardinality(U) <= Cardinality(T \cup {a})
    BY <2>1, ArticleSets
  <2>4. Cardinality(U) <= Cardinality(T) + 1
    BY <2>2, <2>3
  <2> QED BY <2>2, <2>4 DEF T, U
<1>8. bytes \in Nat /\ Sent \cup held \in SUBSET Articles
  BY DEF ReloadTypeOK, Sent
<1>9. Cardinality((Sent \cup held) \ noting') <= bytes'
  <2>1. Cardinality((Sent \cup held) \ noting) <= bytes
    BY DEF BytesCover
  <2>2. /\ Cardinality((Sent \cup held) \ noting') \in Nat /\ Cardinality((Sent \cup held) \ noting) \in Nat
        /\ Cardinality((Sent \cup held) \ noting') <= Cardinality((Sent \cup held) \ noting) + 1
    BY <1>7, <1>8
  <2> QED BY <1>1, <1>8, <2>1, <2>2
<1>10. ASSUME NEW c \in Caller, cp[c].pc \in Counted
       PROVE  Cardinality(missed(c)' \ noting') + cp[c].pending <= bytes'
  <2>1. missed(c)' = missed(c) /\ missed(c) \in SUBSET Articles
    BY <1>1, <1>2, <1>8 DEF missed, behind
  <2>2. Cardinality(missed(c) \ noting) + cp[c].pending <= bytes /\ cp[c].pending \in Nat
    BY <1>10 DEF BytesCover, ReloadTypeOK, Checkpoint
  <2>3. /\ Cardinality(missed(c) \ noting') \in Nat /\ Cardinality(missed(c) \ noting) \in Nat
        /\ Cardinality(missed(c) \ noting') <= Cardinality(missed(c) \ noting) + 1
    BY <1>7, <2>1
  <2>4. Cardinality(missed(c) \ noting') + cp[c].pending <= bytes'
    BY <1>1, <1>8, <2>2, <2>3
  <2> QED BY <2>1, <2>4
<1>11. BytesCover'
  BY <1>1, <1>2, <1>9, <1>10 DEF BytesCover
<1>12. ReloadProtects'
  BY <1>1, <1>2 DEF ReloadProtects
<1> QED BY <1>3, <1>4, <1>5, <1>6, <1>11, <1>12

\* The assembler takes an article: it is held, or given back.
LEMMA ReloadServeArticle ==
  ASSUME ReloadIInv, ServeArticle
  PROVE  ReloadIInv'
<1> USE DEF ReloadIInv
<1>1. requests \in Seq(QueuedRequest) /\ requests # <<>> /\ requests' = Tail(requests)
  BY DEF ServeArticle, ReloadTypeOK
<1>2. PICK a \in Articles : Head(requests)[1] = "article" /\ Head(requests)[2] = a
  BY <1>1, QueueTail, RequestPairs DEF ServeArticle
<1>3. UNCHANGED <<acknowledged, wire, chan, running, serving, source, swap, work, noting, bytes, lock,
                  cp, reload, reloadMu, reloadsAsked>>
  BY DEF ServeArticle, fetch, pipe, threads
<1>4. \/ held' = held \cup {a} /\ opened' = TRUE /\ claimed' = claimed
      \/ held' = held /\ opened' = opened /\ claimed' = claimed \ {a}
  BY <1>2 DEF ServeArticle
<1>5. asksOnce(requests)
  BY DEF QuestionsAwaited
<1>6. Sent' = Sent \ {a} /\ a \in Sent
  BY <1>1, <1>2, <1>5, QueueTail DEF Sent
<1>7. ReloadTypeOK'
  BY <1>1, <1>3, <1>4, QueueTail DEF ReloadTypeOK
<1>8. onWire' = onWire /\ buffered' = buffered
  BY <1>3 DEF onWire, buffered
<1>9. UnderwayIsClaimed'
  BY <1>3, <1>4, <1>6, <1>8 DEF UnderwayIsClaimed, underway, InOnePlace
<1>10. InOnePlace'
  BY <1>3, <1>4, <1>6, <1>8 DEF InOnePlace
<1>11. OneSource'
  BY <1>3, ReloadSourceFrame
<1>12. QuestionsAwaited'
  <2>1. asksOnce(requests')
    BY <1>1, <1>5, QueueTail
  <2>2. \A c \in Caller, k \in Questions : stands(requests', k, c) => stands(requests, k, c)
    BY <1>1, QueueTail
  <2> QED BY <1>3, <2>1, <2>2 DEF QuestionsAwaited
<1>13. \A k, c : behind(requests', k, c) \subseteq behind(requests, k, c)
  BY <1>1, QueueTail
<1>14. BytesCover'
  <2>1. \A c \in Caller : missed(c)' \ noting' \subseteq missed(c) \ noting
    BY <1>3, <1>4, <1>6, <1>13 DEF missed
  <2>2. (Sent' \cup held') \ noting' \subseteq (Sent \cup held) \ noting
    BY <1>3, <1>4, <1>6
  <2>3. \A c \in Caller : cp[c].pc \in Locked => lock = {c}
    BY DEF BytesCover
  <2>4. \A c \in Caller : cp[c].pc = "ack" => cp[c].got \subseteq held'
    BY <1>4 DEF BytesCover
  <2>5. held' # {} => opened'
    BY <1>4 DEF BytesCover
  <2> QED BY <1>3, <2>1, <2>2, <2>3, <2>4, <2>5, ReloadBytesFrame
<1>15. ReloadProtects'
  <2>1. cp'["reload"] = cp["reload"]
    BY <1>3
  <2>2. cp["reload"].pc \notin Locked \cup {"lock", "ack"} /\ ~(cp["reload"].pc = "end" /\ ~cp["reload"].unsafe)
    BY <1>6 DEF ReloadProtects, Locked
  <2>3. cp["reload"].pc = "list" => behind(requests', "list", "reload") = {}
    BY <1>13 DEF ReloadProtects
  <2> QED BY <2>1, <2>2, <2>3 DEF ReloadProtects
<1> QED BY <1>7, <1>9, <1>10, <1>11, <1>12, <1>14, <1>15

\* A step of a checkpoint before its acknowledgement moves no article.
LEMMA ReloadAskFrame ==
  ASSUME ReloadIInv, UNCHANGED <<bits, fetch, pipe, held, bytes, reload, reloadMu, reloadsAsked>>,
         Sent' = Sent, requests' \in Seq(QueuedRequest), cp' \in [Caller -> Checkpoint],
         cp'["reload"].pc # "idle" => cp["reload"].pc # "idle"
  PROVE  ReloadTypeOK' /\ UnderwayIsClaimed' /\ InOnePlace' /\ OneSource'
<1> USE DEF ReloadIInv
<1>1. ReloadTypeOK'
  BY DEF ReloadTypeOK, fetch, pipe
<1>2. UnderwayIsClaimed' /\ InOnePlace'
  BY ReloadPlaceFrame DEF fetch, pipe, bits
<1>3. OneSource'
  BY ReloadSourceFrame DEF fetch, pipe
<1> QED BY <1>1, <1>2, <1>3

\* What is at risk, when nothing is in flight, is what has been counted.
LEMMA ReloadAtRisk ==
  ASSUME ReloadTypeOK, BytesCover, noting = {}, bytes = 0
  PROVE  Sent = {} /\ held = {}
<1> DEFINE S == (Sent \cup held) \ noting
<1>1. S \in SUBSET Articles
  BY DEF ReloadTypeOK, Sent
<1>2. Cardinality(S) <= 0
  BY DEF BytesCover
<1> HIDE DEF S
<1>3. Cardinality(S) \in Nat
  BY <1>1, ArticleSets
<1>4. Cardinality(S) = 0
  BY <1>2, <1>3
<1>5. S = {}
  BY <1>1, <1>4, ArticleSets
<1> QED BY <1>5 DEF S

\* A caller that gives its checkpoint up: what it says it could not protect.
LEMMA ReloadGivesUp ==
  ASSUME ReloadIInv, NEW c \in Caller, cp[c].pc # "idle",
         UNCHANGED <<bits, fetch, pipe, held, opened, bytes, reload, reloadMu, reloadsAsked>>,
         requests' = forsaken(requests, c),
         cp' \in [Caller -> Checkpoint], cp'[c].pc = "end",
         c = "reload" /\ ~cp'[c].unsafe => bytes = 0,
         \A d \in Caller \ {c} : cp'[d] = cp[d],
         \A d \in Caller \ {c} : lock = {d} => lock' = {d}
  PROVE  ReloadIInv'
<1> USE DEF ReloadIInv
<1>1. requests \in Seq(QueuedRequest) /\ asksOnce(requests)
  BY DEF ReloadTypeOK, QuestionsAwaited
<1>2. requests' \in Seq(QueuedRequest) /\ asksOnce(requests')
  BY <1>1, QueueForsaken
<1>3. Sent' = Sent
  <2>1. \A a : stands(requests, "article", a) => stands(requests', "article", a)
    BY <1>1, QueueForsaken
  <2>2. \A a : stands(requests', "article", a) => stands(requests, "article", a)
    BY <1>1, QueueForsaken
  <2> QED BY <2>1, <2>2 DEF Sent
<1>4. cp'["reload"].pc # "idle" => cp["reload"].pc # "idle"
  BY DEF Caller
<1>5. ReloadTypeOK' /\ UnderwayIsClaimed' /\ InOnePlace' /\ OneSource'
  BY <1>2, <1>3, <1>4, ReloadAskFrame
<1>6. \A d \in Caller, k \in Questions : stands(requests', k, d) => d # c /\ stands(requests, k, d)
  <2>1. \A k \in Questions : ~stands(requests', k, c)
    BY <1>1, QueueForsaken
  <2>2. \A k, d : k # "unread" /\ stands(requests', k, d) => stands(requests, k, d)
    BY <1>1, QueueForsaken
  <2> QED BY <2>1, <2>2 DEF Questions
<1>7. QuestionsAwaited'
  BY <1>2, <1>6 DEF QuestionsAwaited
<1>8. \A k \in {"list", "drain"} : \A d : behind(requests', k, d) \subseteq behind(requests, k, d)
  BY <1>1, QueueForsaken
<1>9. BytesCover'
  <2>1. \A d \in Caller \ {c} : missed(d)' \ noting' \subseteq missed(d) \ noting
    BY <1>3, <1>8 DEF missed, pipe
  <2>2. \A d \in Caller : cp'[d].pc \in Locked => d # c /\ lock' = {d}
    BY DEF BytesCover, Locked
  <2>3. \A d \in Caller : cp'[d].pc \in Counted \cup {"ack"} => d # c
    BY DEF Counted
  <2>4. (Sent' \cup held') \ noting' \subseteq (Sent \cup held) \ noting
    BY <1>3 DEF pipe
  <2>5. \A d \in Caller : cp'[d].pc = "ack" => cp'[d].got \subseteq held'
    BY <2>3 DEF BytesCover
  <2>6. held' # {} => opened'
    BY DEF BytesCover
  <2> QED BY <2>1, <2>2, <2>3, <2>4, <2>5, <2>6, ReloadBytesFrame
<1>10. ReloadProtects'
  <2>1. CASE c = "reload"
    <3>1. noting = {}
      BY <2>1 DEF OneSource, quiet
    <3>2. ~cp'["reload"].unsafe => Sent = {} /\ held = {}
      BY <2>1, <3>1, ReloadAtRisk
    <3> QED BY <1>3, <2>1, <3>2 DEF ReloadProtects, Locked
  <2>2. CASE c # "reload"
    <3>1. cp'["reload"] = cp["reload"]
      BY <2>2 DEF Caller
    <3> QED BY <1>3, <1>8, <3>1 DEF ReloadProtects, bits
  <2> QED BY <2>1, <2>2
<1> QED BY <1>5, <1>7, <1>9, <1>10

LEMMA ReloadUnsafe ==
  ASSUME ReloadTypeOK, NEW c \in Caller, givesUp(c)
  PROVE  /\ cp' \in [Caller -> Checkpoint] /\ cp'[c].pc = "end"
         /\ ~cp'[c].unsafe => bytes = 0
         /\ \A d \in Caller \ {c} : cp'[d] = cp[d]
         /\ requests' = forsaken(requests, c)
<1>1. PICK b \in BOOLEAN : (b <=> bytes # 0) /\ b = ~nothingAtRisk
  BY DEF nothingAtRisk
<1>2. cp' = [cp EXCEPT ![c] = [cp[c] EXCEPT !.pc = "end", !.unsafe = b]] /\ requests' = forsaken(requests, c)
  BY <1>1 DEF givesUp
<1>3. [cp[c] EXCEPT !.pc = "end", !.unsafe = b] \in Checkpoint
  BY DEF ReloadTypeOK, Checkpoint
<1>4. /\ cp' \in [Caller -> Checkpoint] /\ cp'[c] = [cp[c] EXCEPT !.pc = "end", !.unsafe = b]
      /\ \A d \in Caller \ {c} : cp'[d] = cp[d]
  BY <1>2, <1>3 DEF ReloadTypeOK
<1>5. cp'[c].pc = "end" /\ cp'[c].unsafe = b
  BY <1>4 DEF ReloadTypeOK, Checkpoint
<1> QED BY <1>1, <1>2, <1>4, <1>5

LEMMA ReloadListTimesOut ==
  ASSUME ReloadIInv, NEW c \in Caller, ListTimesOut(c)
  PROVE  ReloadIInv'
<1>1. /\ cp' \in [Caller -> Checkpoint] /\ cp'[c].pc = "end"
      /\ ~cp'[c].unsafe => bytes = 0
      /\ \A d \in Caller \ {c} : cp'[d] = cp[d]
      /\ requests' = forsaken(requests, c)
  BY ReloadUnsafe DEF ListTimesOut, ReloadIInv
<1>2. /\ UNCHANGED <<bits, fetch, pipe, held, opened, bytes, reload, reloadMu, reloadsAsked>>
      /\ cp[c].pc = "list" /\ lock' = lock
  BY DEF ListTimesOut, threads
<1> QED BY <1>1, <1>2, ReloadGivesUp

LEMMA ReloadBarrierFails ==
  ASSUME ReloadIInv, NEW c \in Caller, BarrierFails(c)
  PROVE  ReloadIInv'
<1>1. /\ cp' \in [Caller -> Checkpoint] /\ cp'[c].pc = "end"
      /\ ~cp'[c].unsafe => bytes = 0
      /\ \A d \in Caller \ {c} : cp'[d] = cp[d]
      /\ requests' = forsaken(requests, c)
  BY ReloadUnsafe DEF BarrierFails, ReloadIInv
<1>2. /\ UNCHANGED <<bits, fetch, pipe, held, opened, bytes, reload, reloadMu, reloadsAsked>>
      /\ cp[c].pc \in Locked /\ cp[c].pc # "idle"
  BY DEF BarrierFails, threads, Locked
<1>3. lock = {c}
  BY <1>2 DEF ReloadIInv, BytesCover
<1> QED BY <1>1, <1>2, <1>3, ReloadGivesUp

LEMMA ReloadLoopIsRefused ==
  ASSUME ReloadIInv, LoopIsRefused
  PROVE  ReloadIInv'
<1>1. /\ cp' \in [Caller -> Checkpoint] /\ cp'["loop"].pc = "end"
      /\ \A d \in Caller \ {"loop"} : cp'[d] = cp[d]
  BY DEF LoopIsRefused, ReloadIInv, ReloadTypeOK, Checkpoint, Caller
<1>2. /\ UNCHANGED <<bits, fetch, pipe, held, opened, bytes, reload, reloadMu, reloadsAsked>>
      /\ cp["loop"].pc # "idle" /\ requests' = forsaken(requests, "loop")
      /\ lock' = lock \ {"loop"}
  BY DEF LoopIsRefused, threads, budget
<1>3. \A d \in Caller \ {"loop"} : lock = {d} => lock' = {d}
  BY <1>2
<1> QED BY <1>1, <1>2, <1>3, ReloadGivesUp DEF Caller

\* A caller asks: nothing stands behind its question yet.
LEMMA ReloadAsks ==
  ASSUME ReloadIInv, NEW c \in Caller, NEW k \in Questions, asks(c, k),
         UNCHANGED <<bits, fetch, pipe, held, opened, bytes, reload, reloadMu, reloadsAsked>>,
         cp' \in [Caller -> Checkpoint], cp'[c].pc = k,
         \A d \in Caller \ {c} : cp'[d] = cp[d],
         \/ k = "list" /\ cp[c].pc = "ask" /\ lock' = lock
         \/ k = "files" /\ cp[c].pc = "lock" /\ lock = {} /\ lock' = {c}
         \/ k = "open" /\ cp[c].pc = "count" /\ lock' = lock /\ cp'[c].pending = bytes
         \/ k = "drain" /\ cp[c].pc = "flush" /\ lock' = lock /\ cp'[c].pending = cp[c].pending
  PROVE  ReloadIInv'
<1> USE DEF ReloadIInv
<1>1. PICK x \in QueuedRequest : x[1] = k /\ x[2] = c /\ requests' = Append(requests, x)
  <2>1. <<k, c>> \in QueuedRequest
    BY DEF QueuedRequest, Questions
  <2> QED BY <2>1 DEF asks
<1>2. requests \in Seq(QueuedRequest) /\ asksOnce(requests) /\ bytes \in Nat
  BY DEF ReloadTypeOK, QuestionsAwaited
<1>3. Sent' = Sent
  BY <1>1, <1>2, QueueAppend DEF Sent, Questions
<1>4. requests' \in Seq(QueuedRequest)
  BY <1>1, <1>2, QueueAppend
<1>5. ReloadTypeOK' /\ UnderwayIsClaimed' /\ InOnePlace' /\ OneSource'
  BY <1>3, <1>4, ReloadAskFrame DEF Caller
<1>6. \A l \in Questions : ~stands(requests, l, c)
  BY DEF QuestionsAwaited, Questions
<1>7. QuestionsAwaited'
  <2>1. asksOnce(requests')
    BY <1>1, <1>2, <1>6, QueueAppend
  <2>2. \A d \in Caller, l \in Questions :
          stands(requests', l, d) => stands(requests, l, d) \/ (l = k /\ d = c)
    BY <1>1, <1>2, QueueAppend
  <2> QED BY <1>6, <2>1, <2>2 DEF QuestionsAwaited
<1>8. \A l, d : behind(requests', l, d) \subseteq behind(requests, l, d)
  BY <1>1, <1>2, QueueAppend DEF Questions
<1>9. behind(requests', k, c) = {}
  BY <1>1, <1>2, <1>6, QueueAppend
<1>10. \A d \in Caller : cp'[d].pc \in Locked => lock' = {d}
  BY DEF BytesCover, Locked
<1>11. /\ \A d \in Caller : cp'[d].pc = "ack" => cp'[d].got \subseteq held'
       /\ held' # {} => opened'
       /\ Cardinality((Sent' \cup held') \ noting') <= bytes'
  BY <1>3 DEF BytesCover, pipe, Questions
<1>12. ASSUME NEW d \in Caller, cp'[d].pc \in Counted
       PROVE  Cardinality(missed(d)' \ noting') + cp'[d].pending <= bytes'
  <2>1. CASE d = c
    <3>1. missed(c)' = {}
      BY <1>9, <1>12, <2>1 DEF missed, Questions
    <3>2. Cardinality(missed(c)' \ noting') = 0
      <4>1. missed(c)' \ noting' = {}
        BY <3>1
      <4> QED BY <4>1, FS_EmptySet
    <3>3. cp'[c].pending \in Nat /\ cp'[c].pending <= bytes
      <4>1. CASE k = "open"
        BY <1>2, <4>1
      <4>2. CASE k = "drain"
        <5>1. cp[c].pc = "flush" /\ cp[c].pc \in Counted /\ missed(c) = {}
          BY <4>2 DEF Counted, missed
        <5>2. Cardinality(missed(c) \ noting) = 0
          <6>1. missed(c) \ noting = {}
            BY <5>1
          <6> QED BY <6>1, FS_EmptySet
        <5>3. Cardinality(missed(c) \ noting) + cp[c].pending <= bytes
          BY <5>1 DEF BytesCover
        <5>4. cp[c].pending \in Nat /\ cp'[c].pending = cp[c].pending
          BY <4>2 DEF ReloadTypeOK, Checkpoint
        <5> QED BY <1>2, <5>2, <5>3, <5>4
      <4> QED BY <1>12, <2>1, <4>1, <4>2 DEF Counted, Questions
    <3> QED BY <1>2, <2>1, <3>2, <3>3
  <2>2. CASE d # c
    <3> DEFINE S == missed(d) \ noting
               T == missed(d)' \ noting'
    <3>1. cp'[d] = cp[d]
      BY <2>2
    <3>2. T \in SUBSET S
      BY <1>3, <1>8, <3>1 DEF missed, pipe
    <3>3. S \in SUBSET Articles
      BY DEF missed, behind, Sent, ReloadTypeOK
    <3>4. Cardinality(S) + cp[d].pending <= bytes /\ cp[d].pending \in Nat
      BY <1>12, <3>1 DEF BytesCover, ReloadTypeOK, Checkpoint
    <3> HIDE DEF S, T
    <3>5. Cardinality(T) <= Cardinality(S) /\ Cardinality(T) \in Nat /\ Cardinality(S) \in Nat
      BY <3>2, <3>3, ArticleSets
    <3>6. Cardinality(T) + cp'[d].pending <= bytes'
      BY <1>2, <3>1, <3>4, <3>5
    <3> QED BY <3>6 DEF T
  <2> QED BY <2>1, <2>2
<1>13. BytesCover'
  BY <1>10, <1>11, <1>12 DEF BytesCover
<1>14. ReloadProtects'
  <2>1. CASE c = "reload"
    <3>1. k # "list" => Sent' = {}
      BY <1>3, <2>1 DEF ReloadProtects, Locked, Questions
    <3> QED BY <1>9, <2>1, <3>1 DEF ReloadProtects, Locked, Questions
  <2>2. CASE c # "reload"
    <3>1. cp'["reload"] = cp["reload"]
      BY <2>2 DEF Caller
    <3> QED BY <1>3, <1>8, <3>1 DEF ReloadProtects, bits
  <2> QED BY <2>1, <2>2
<1> QED BY <1>5, <1>7, <1>13, <1>14

LEMMA ReloadList ==
  ASSUME ReloadIInv, NEW c \in Caller, List(c)
  PROVE  ReloadIInv'
<1>1. /\ cp' \in [Caller -> Checkpoint] /\ cp'[c].pc = "list" /\ cp[c].pc = "ask"
      /\ \A d \in Caller \ {c} : cp'[d] = cp[d]
  BY DEF List, ReloadIInv, ReloadTypeOK, Checkpoint
<1>2. /\ UNCHANGED <<bits, fetch, pipe, held, opened, bytes, lock, reload, reloadMu, reloadsAsked>>
      /\ asks(c, "list")
  BY DEF List, threads, budget
<1> QED BY <1>1, <1>2, ReloadAsks DEF Questions

LEMMA ReloadLockBarrier ==
  ASSUME ReloadIInv, NEW c \in Caller, LockBarrier(c)
  PROVE  ReloadIInv'
<1>1. /\ UNCHANGED <<bits, fetch, pipe, held, opened, bytes, reload, reloadMu, reloadsAsked>>
      /\ cp[c].pc = "lock" /\ lock = {}
  BY DEF LockBarrier, threads, budget
<1>2. CASE ~hydrated
  <2>1. givesUp(c) /\ lock' = lock
    BY <1>2 DEF LockBarrier
  <2>2. /\ cp' \in [Caller -> Checkpoint] /\ cp'[c].pc = "end"
        /\ ~cp'[c].unsafe => bytes = 0
        /\ \A d \in Caller \ {c} : cp'[d] = cp[d]
        /\ requests' = forsaken(requests, c)
    BY <2>1, ReloadUnsafe DEF ReloadIInv
  <2> QED BY <1>1, <2>1, <2>2, ReloadGivesUp
<1>3. CASE hydrated
  <2>1. lock' = {c} /\ asks(c, "files") /\ cp' = [cp EXCEPT ![c].pc = "files"]
    BY <1>3 DEF LockBarrier
  <2>2. /\ cp' \in [Caller -> Checkpoint] /\ cp'[c].pc = "files"
        /\ \A d \in Caller \ {c} : cp'[d] = cp[d]
    BY <2>1 DEF ReloadIInv, ReloadTypeOK, Checkpoint
  <2> QED BY <1>1, <2>1, <2>2, ReloadAsks DEF Questions
<1> QED BY <1>2, <1>3

LEMMA ReloadRunBarrier ==
  ASSUME ReloadIInv, NEW c \in Caller, RunBarrier(c)
  PROVE  ReloadIInv'
<1>1. /\ UNCHANGED <<bits, fetch, pipe, held, opened, bytes, lock, reload, reloadMu, reloadsAsked>>
      /\ cp[c].pc = "count" /\ asks(c, "open")
  BY DEF RunBarrier, threads, budget
<1>2. /\ cp' \in [Caller -> Checkpoint] /\ cp'[c].pc = "open" /\ cp'[c].pending = bytes
      /\ \A d \in Caller \ {c} : cp'[d] = cp[d]
  <2>1. cp[c] \in Checkpoint /\ bytes \in Nat
    BY DEF ReloadIInv, ReloadTypeOK
  <2> DEFINE r == [cp[c] EXCEPT !.pc = "open", !.pending = bytes]
  <2>2. r \in Checkpoint
    BY <2>1 DEF Checkpoint
  <2>3. r.pc = "open" /\ r.pending = bytes
    BY <2>1 DEF Checkpoint
  <2>4. cp' = [cp EXCEPT ![c] = r]
    BY DEF RunBarrier
  <2>5. cp' \in [Caller -> Checkpoint] /\ cp'[c] = r /\ \A d \in Caller \ {c} : cp'[d] = cp[d]
    BY <2>2, <2>4, ReloadCpSet DEF ReloadIInv
  <2> QED BY <2>3, <2>5
<1> QED BY <1>1, <1>2, ReloadAsks DEF Questions

LEMMA ReloadDrainFiles ==
  ASSUME ReloadIInv, NEW c \in Caller, DrainFiles(c)
  PROVE  ReloadIInv'
<1>1. /\ UNCHANGED <<bits, fetch, pipe, held, opened, bytes, lock, reload, reloadMu, reloadsAsked>>
      /\ cp[c].pc = "flush" /\ asks(c, "drain")
  BY DEF DrainFiles, threads, budget
<1>2. /\ cp' \in [Caller -> Checkpoint] /\ cp'[c].pc = "drain" /\ cp'[c].pending = cp[c].pending
      /\ \A d \in Caller \ {c} : cp'[d] = cp[d]
  BY DEF DrainFiles, ReloadIInv, ReloadTypeOK, Checkpoint
<1> QED BY <1>1, <1>2, ReloadAsks DEF Questions

\* The assembler answers a question, when all that was sent before it has
\* been written.
LEMMA ReloadServeQuestion ==
  ASSUME ReloadIInv, ServeQuestion
  PROVE  ReloadIInv'
<1> USE DEF ReloadIInv
<1>1. requests \in Seq(QueuedRequest) /\ requests # <<>> /\ requests' = Tail(requests) /\ asksOnce(requests)
  BY DEF ServeQuestion, ReloadTypeOK, QuestionsAwaited
<1>2. PICK k \in Questions \cup {"unread"}, c \in Caller : Head(requests)[1] = k /\ Head(requests)[2] = c
  <2>1. Head(requests)[1] \in Questions \cup {"unread"} /\ Head(requests)[2] \in Caller
    BY <1>1, QueueTail, RequestPairs DEF ServeQuestion
  <2> QED BY <2>1
<1>3. UNCHANGED <<bits, fetch, pipe, held, opened, bytes, reload, reloadMu, reloadsAsked>>
  BY DEF ServeQuestion, threads, budget
<1>4. /\ requests' \in Seq(QueuedRequest) /\ asksOnce(requests')
      /\ stands(requests, k, c) /\ (k # "unread" => ~stands(requests', k, c))
      /\ \A l, y : stands(requests', l, y) => stands(requests, l, y)
  BY <1>1, <1>2, QueueTail
<1>5. Sent' = Sent
  <2>1. \A a : stands(requests, "article", a) => stands(requests', "article", a)
    BY <1>1, <1>2, QueueTail DEF Questions
  <2> QED BY <1>4, <2>1 DEF Sent
<1>6. /\ \A l, d : behind(requests', l, d) \subseteq behind(requests, l, d)
      /\ Sent \subseteq behind(requests, k, c)
  BY <1>1, <1>2, <1>5, QueueTail DEF Sent
<1>7. k # "unread" => cp[c].pc = k
  BY <1>4 DEF QuestionsAwaited
<1>8. PICK p \in {"lock", "end", "count", "flush", "ack"}, t \in SUBSET Articles :
        /\ k = "list" => p = (IF opened THEN "lock" ELSE "end")
        /\ k = "files" => p = (IF opened THEN "count" ELSE "end")
        /\ k = "open" => p = "flush"
        /\ k = "drain" => p = "ack" /\ t = held
        /\ k \notin {"drain"} => t = cp[c].got
  <2>1. held \in SUBSET Articles /\ cp[c].got \in SUBSET Articles
    BY DEF ReloadTypeOK, Checkpoint
  <2>2. CASE k = "list"
    BY <2>1, <2>2
  <2>3. CASE k = "files"
    BY <2>1, <2>3
  <2>4. CASE k = "open"
    BY <2>1, <2>4
  <2>5. CASE k = "drain"
    BY <2>1, <2>5
  <2>6. CASE k = "unread"
    BY <2>1, <2>6
  <2> QED BY <2>2, <2>3, <2>4, <2>5, <2>6 DEF Questions
<1>9. k = "unread" => cp' = cp /\ lock' = lock
  BY <1>2 DEF ServeQuestion
<1>10. k # "unread" => /\ cp' \in [Caller -> Checkpoint]
                       /\ cp'[c].pc = p /\ cp'[c].got = t /\ cp'[c].pending = cp[c].pending
                       /\ cp'[c].unsafe = cp[c].unsafe
                       /\ \A d \in Caller \ {c} : cp'[d] = cp[d]
  <2>1. cp[c] \in Checkpoint
    BY DEF ReloadTypeOK
  <2>2. CASE k = "list"
    <3>1. cp' = [cp EXCEPT ![c].pc = p]
      BY <1>2, <1>8, <2>2 DEF ServeQuestion
    <3> QED BY <1>8, <2>1, <2>2, <3>1 DEF ReloadTypeOK, Checkpoint
  <2>3. CASE k = "files"
    <3>1. cp' = [cp EXCEPT ![c].pc = p]
      BY <1>2, <1>8, <2>3 DEF ServeQuestion
    <3> QED BY <1>8, <2>1, <2>3, <3>1 DEF ReloadTypeOK, Checkpoint
  <2>4. CASE k = "open"
    <3>1. cp' = [cp EXCEPT ![c].pc = p]
      BY <1>2, <1>8, <2>4 DEF ServeQuestion
    <3> QED BY <1>8, <2>1, <2>4, <3>1 DEF ReloadTypeOK, Checkpoint
  <2>5. CASE k = "drain"
    <3>1. cp' = [cp EXCEPT ![c].pc = "ack", ![c].got = held]
      BY <1>2, <2>5 DEF ServeQuestion
    <3> QED BY <1>8, <2>1, <2>5, <3>1 DEF ReloadTypeOK, Checkpoint
  <2> QED BY <2>2, <2>3, <2>4, <2>5 DEF Questions
<1>11. cp' \in [Caller -> Checkpoint] /\ \A d \in Caller \ {c} : cp'[d] = cp[d]
  BY <1>9, <1>10 DEF ReloadTypeOK
<1>12. ReloadTypeOK' /\ UnderwayIsClaimed' /\ InOnePlace' /\ OneSource'
  <2>1. cp'["reload"].pc # "idle" => cp["reload"].pc # "idle"
    BY <1>7, <1>9, <1>10 DEF Caller, Questions
  <2> QED BY <1>3, <1>4, <1>5, <1>11, <2>1, ReloadAskFrame
<1>13. QuestionsAwaited'
  <2>1. ASSUME NEW d \in Caller, NEW l \in Questions, stands(requests', l, d)
        PROVE  cp'[d].pc = l
    <3>1. cp[d].pc = l
      BY <1>4, <2>1 DEF QuestionsAwaited
    <3>2. k # "unread" => d # c
      BY <1>4, <1>7, <2>1, <3>1
    <3> QED BY <1>9, <1>11, <3>1, <3>2
  <2> QED BY <1>4, <2>1 DEF QuestionsAwaited
<1>14. lock' = lock \/ (k = "files" /\ p = "end" /\ lock = {c})
  <2>1. CASE k = "files" /\ ~opened
    <3>1. lock = {c}
      BY <1>7, <2>1 DEF BytesCover, Locked
    <3> QED BY <1>8, <2>1, <3>1
  <2>2. CASE ~(k = "files" /\ ~opened)
    BY <1>2, <2>2 DEF ServeQuestion
  <2> QED BY <2>1, <2>2
<1>15. BytesCover'
  <2>1. \A d \in Caller : missed(d)' \ noting' \subseteq missed(d) \ noting
    <3>1. ASSUME NEW d \in Caller, cp'[d] = cp[d]
          PROVE  missed(d)' \ noting' \subseteq missed(d) \ noting
      BY <1>3, <1>5, <1>6, <3>1 DEF missed, pipe
    <3>2. CASE k # "unread"
      <4>1. missed(c)' \ noting' \subseteq missed(c) \ noting
        <5>1. CASE k = "drain"
          BY <1>3, <1>5, <1>6, <1>7, <1>8, <1>10, <5>1 DEF missed, pipe
        <5>2. CASE k # "drain"
          <6>1. p \notin {"drain", "ack"}
            BY <1>8, <3>2, <5>2 DEF Questions
          <6> QED BY <1>10, <3>2, <6>1 DEF missed
        <5> QED BY <5>1, <5>2
      <4> QED BY <1>11, <3>1, <4>1
    <3>3. CASE k = "unread"
      BY <1>9, <3>1, <3>3
    <3> QED BY <3>2, <3>3
  <2>2. (Sent' \cup held') \ noting' \subseteq (Sent \cup held) \ noting
    BY <1>3, <1>5 DEF pipe
  <2>3. ASSUME NEW d \in Caller, cp'[d].pc \in Locked
        PROVE  lock' = {d}
    <3>1. cp[d].pc \in Locked
      <4>1. CASE d # c \/ k = "unread"
        BY <1>9, <1>11, <2>3, <4>1
      <4>2. CASE d = c /\ k # "unread"
        <5>1. k # "list"
          BY <1>8, <1>10, <2>3, <4>2 DEF Locked
        <5> QED BY <1>7, <4>2, <5>1 DEF Locked, Questions
      <4> QED BY <4>1, <4>2
    <3>2. lock = {d}
      BY <3>1 DEF BytesCover
    <3>3. ~(k = "files" /\ p = "end" /\ lock = {c})
      <4>1. CASE k = "files" /\ p = "end" /\ d = c
        BY <1>10, <2>3, <4>1 DEF Locked
      <4> QED BY <3>2, <4>1
    <3> QED BY <1>14, <3>2, <3>3
  <2>4. ASSUME NEW d \in Caller, cp'[d].pc \in Counted
        PROVE  cp[d].pc \in Counted /\ cp'[d].pending = cp[d].pending
    <3>1. CASE d # c \/ k = "unread"
      BY <1>9, <1>11, <2>4, <3>1
    <3>2. CASE d = c /\ k # "unread"
      <4>1. k \in {"open", "drain"}
        BY <1>8, <1>10, <2>4, <3>2 DEF Counted, Questions
      <4> QED BY <1>7, <1>10, <3>2, <4>1 DEF Counted
    <3> QED BY <3>1, <3>2
  <2>5. ASSUME NEW d \in Caller, cp'[d].pc = "ack"
        PROVE  cp'[d].got \subseteq held'
    <3>1. CASE d # c \/ k = "unread"
      BY <1>3, <1>9, <1>11, <2>5, <3>1 DEF BytesCover
    <3>2. CASE d = c /\ k # "unread"
      <4>1. k = "drain"
        BY <1>8, <1>10, <2>5, <3>2 DEF Questions
      <4> QED BY <1>3, <1>8, <1>10, <3>2, <4>1
    <3> QED BY <3>1, <3>2
  <2>6. held' # {} => opened'
    BY <1>3 DEF BytesCover
  <2> QED BY <1>3, <2>1, <2>2, <2>3, <2>4, <2>5, <2>6, ReloadBytesFrame
<1>16. ReloadProtects'
  <2>1. CASE c = "reload" /\ k # "unread"
    <3>1. Sent' = {}
      BY <1>5, <1>6, <1>7, <2>1 DEF ReloadProtects, Locked, Questions
    <3>2. cp'["reload"].pc = "end" => held' = {}
      BY <1>3, <1>8, <1>10, <2>1 DEF BytesCover, Questions
    <3>3. cp'["reload"].pc = "ack" => held' \subseteq cp'["reload"].got
      BY <1>3, <1>8, <1>10, <2>1 DEF Questions
    <3> QED BY <1>8, <1>10, <2>1, <3>1, <3>2, <3>3 DEF ReloadProtects
  <2>2. CASE c # "reload" \/ k = "unread"
    <3>1. cp'["reload"] = cp["reload"]
      BY <1>9, <1>11, <2>2 DEF Caller
    <3> QED BY <1>3, <1>5, <1>6, <3>1 DEF ReloadProtects, bits
  <2> QED BY <2>1, <2>2
<1> QED BY <1>12, <1>13, <1>15, <1>16

\* A barrier acknowledges what it drained and settles the bytes it had read.
LEMMA ReloadBarrierAcks ==
  ASSUME ReloadIInv, NEW c \in Caller, BarrierAcks(c)
  PROVE  ReloadIInv'
<1> USE DEF ReloadIInv
<1>1. /\ cp[c].pc = "ack"
      /\ acknowledged' = acknowledged \cup cp[c].got /\ claimed' = claimed \ cp[c].got
      /\ held' = held \ cp[c].got /\ lock' = {}
      /\ UNCHANGED <<wire, chan, running, serving, source, swap, work, noting, requests, opened,
                     reload, reloadMu, reloadsAsked>>
  BY DEF BarrierAcks, fetch, pipe, threads, budget
<1>2. /\ cp[c].got \subseteq held /\ lock = {c}
      /\ Cardinality(missed(c) \ noting) + cp[c].pending <= bytes
  BY <1>1 DEF BytesCover, Locked, Counted
<1>3. /\ bytes \in Nat /\ cp[c].pending \in Nat /\ missed(c) \ noting \in SUBSET Articles
  BY DEF ReloadTypeOK, Checkpoint, missed, behind, Sent
<1>4. Cardinality(missed(c) \ noting) \in Nat
  BY <1>3, ArticleSets
<1>5. bytes' \in Nat /\ Cardinality(missed(c) \ noting) <= bytes'
  <2>1. bytes' = IF bytes > cp[c].pending THEN bytes - cp[c].pending ELSE 0
    BY DEF BarrierAcks, settleJobBytes
  <2> QED BY <1>2, <1>3, <1>4, <2>1
<1>6. /\ cp' \in [Caller -> Checkpoint] /\ cp'[c].pc = "end"
      /\ \A d \in Caller \ {c} : cp'[d] = cp[d]
  <2>1. cp' = [cp EXCEPT ![c] = [@ EXCEPT !.pc = "end", !.unsafe = FALSE]]
    BY DEF BarrierAcks
  <2> QED BY <2>1 DEF ReloadTypeOK, Checkpoint
<1>7. Sent' = Sent
  BY <1>1 DEF Sent
<1>8. ReloadTypeOK'
  BY <1>1, <1>5, <1>6 DEF ReloadTypeOK
<1>9. onWire' = onWire /\ buffered' = buffered
  BY <1>1 DEF onWire, buffered
<1>10. UnderwayIsClaimed'
  BY <1>1, <1>7, <1>9 DEF UnderwayIsClaimed, underway
<1>11. InOnePlace'
  BY <1>1, <1>7, <1>9 DEF InOnePlace
<1>12. cp'["reload"].pc # "idle" => cp["reload"].pc # "idle"
  BY <1>1, <1>6 DEF Caller
<1>13. OneSource'
  BY <1>1, <1>12, ReloadSourceFrame
<1>14. QuestionsAwaited'
  <2>1. \A k \in Questions : ~stands(requests, k, c)
    BY <1>1 DEF QuestionsAwaited, Questions
  <2> QED BY <1>1, <1>6, <2>1 DEF QuestionsAwaited
<1>15. BytesCover'
  <2>1. \A d \in Caller : cp'[d].pc \notin Locked \cup Counted \cup {"ack"}
    BY <1>2, <1>6 DEF BytesCover, Locked, Counted
  <2>2. missed(c) = (Sent \cup held) \ cp[c].got
    BY <1>1 DEF missed
  <2>3. (Sent' \cup held') \ noting' = missed(c) \ noting
    BY <1>1, <1>2, <1>7, <2>2 DEF InOnePlace
  <2>4. Cardinality((Sent' \cup held') \ noting') <= bytes'
    BY <1>5, <2>3
  <2>5. held' # {} => opened'
    BY <1>1 DEF BytesCover
  <2> QED BY <2>1, <2>4, <2>5 DEF BytesCover
<1>16. ReloadProtects'
  <2>1. CASE c = "reload"
    <3>1. Sent' = {} /\ held' = {}
      BY <1>1, <1>7, <2>1 DEF ReloadProtects, Locked
    <3> QED BY <1>6, <2>1, <3>1 DEF ReloadProtects, Locked
  <2>2. CASE c # "reload"
    <3>1. cp'["reload"] = cp["reload"]
      BY <1>6, <2>2 DEF Caller
    <3> QED BY <1>1, <1>7, <3>1 DEF ReloadProtects
  <2> QED BY <2>1, <2>2
<1> QED BY <1>8, <1>10, <1>11, <1>13, <1>14, <1>15, <1>16

LEMMA ReloadInitial ==
  ASSUME ReloadInit
  PROVE  ReloadIInv
<1> USE DEF ReloadInit
<1>1. \A k, y : ~stands(requests, k, y)
  BY DEF stands
<1>2. Sent = {} /\ onWire = {} /\ buffered = {}
  BY <1>1 DEF Sent, onWire, buffered
<1>3. ReloadTypeOK
  <2>1. NoCheckpoint \in Checkpoint
    BY ReloadNoCheckpoint
  <2>2. cp \in [Caller -> Checkpoint]
    BY <2>1
  <2> QED BY <2>2 DEF ReloadTypeOK
<1>4. UnderwayIsClaimed /\ InOnePlace
  BY <1>2 DEF UnderwayIsClaimed, InOnePlace, underway
<1>5. \A c \in Caller : cp[c].pc = "idle"
  BY ReloadNoCheckpoint
<1>6. cp["reload"].pc = "idle"
  BY <1>5 DEF Caller
<1>7. OneSource
  BY <1>6 DEF OneSource, reaches, quiet
<1>8. QuestionsAwaited
  BY <1>1 DEF QuestionsAwaited, asksOnce
<1>9. BytesCover
  <2>1. Cardinality((Sent \cup held) \ noting) <= bytes
    <3>1. (Sent \cup held) \ noting = {}
      BY <1>2
    <3>2. Cardinality({}) = 0
      BY FS_EmptySet
    <3>3. Cardinality((Sent \cup held) \ noting) = 0
      BY <3>1, <3>2
    <3> QED BY <3>3
  <2> QED BY <1>5, <2>1 DEF BytesCover, Locked, Counted
<1>10. ReloadProtects
  BY <1>6 DEF ReloadProtects, Locked
<1> QED BY <1>3, <1>4, <1>7, <1>8, <1>9, <1>10 DEF ReloadIInv

\* Every step keeps the invariant, but for a barrier that runs over a listing
\* that never came.
LEMMA ReloadStep ==
  ASSUME ReloadIInv, [ReloadNext]_reloadVars, ~unlisted'
  PROVE  ReloadIInv'
<1>1. CASE Fetching
  BY <1>1, ReloadDispatch, ReloadFetched DEF Fetching
<1>2. CASE Piping
  BY <1>2, ReloadClosed, ReloadTake, ReloadWrite, ReloadNote DEF Piping
<1>3. CASE Swap
  BY <1>3, ReloadSwap
<1>4. CASE Serving
  BY <1>4, ReloadServeArticle, ReloadServeQuestion DEF Serving
<1>5. ASSUME NEW c \in Caller, Asking(c)
      PROVE  ReloadIInv'
  BY <1>5, ReloadList, ReloadLockBarrier, ReloadRunBarrier, ReloadDrainFiles, ReloadBarrierAcks,
     ReloadBarrierFails DEF Asking
<1>6. CASE LoopSteps
  BY <1>5, <1>6, ReloadLoopTurns, ReloadLoopIsRefused DEF LoopSteps, Caller
<1>7. CASE Reloading
  BY <1>5, <1>7, ReloadReloadStops, ReloadReloadCheckpoints, ReloadReloadClears, ReloadReloadStarts,
     ReloadReloadPublishes, ReloadReloadEnds DEF Reloading, Caller
<1>8. CASE Ending
  BY <1>5, <1>8, ReloadStopDownloader, ReloadStopAssembler, ReloadShutdownMoves DEF Ending, Caller
<1>9. CASE ReloadBegins
  BY <1>9, ReloadReloadBegins
<1>10. CASE ShutdownBegins \/ Evicted
  BY <1>10, ReloadShutdownMoves
<1>11. CASE StopTimesOut \/ StopReturns
  BY <1>11, ReloadStopTimesOut, ReloadStopReturns
<1>12. CASE \E c \in Caller : ListTimesOut(c) \/ RunsOverNothing(c)
  BY <1>12, ReloadListTimesOut DEF RunsOverNothing
<1>13. CASE UNCHANGED reloadVars
  <2>1. UNCHANGED <<bits, fetch, pipe, assembly, bytes, lock, cp, threads, budget>>
    BY <1>13 DEF reloadVars
  <2>2. Sent' = Sent
    BY <2>1 DEF assembly, Sent
  <2>3. ReloadTypeOK' /\ UnderwayIsClaimed' /\ InOnePlace' /\ OneSource'
    BY <2>1, <2>2, ReloadAskFrame DEF assembly, threads, budget, ReloadIInv, ReloadTypeOK
  <2> QED BY <2>1, <2>3, ReloadQueueFrame DEF assembly, bits, pipe, ReloadIInv
<1> QED BY <1>1, <1>2, <1>3, <1>4, <1>6, <1>7, <1>8, <1>9, <1>10, <1>11, <1>12, <1>13 DEF ReloadNext

\* What a step does to the downloaders, the reload and the shutdown.
LEMMA ReloadHands ==
  ASSUME [ReloadNext]_reloadVars
  PROVE  \/ UNCHANGED <<running, serving, reload, reloadMu, reloadsAsked, stop, abandoned>>
         \/ StopDownloader \/ StopTimesOut \/ StopReturns
         \/ ReloadBegins \/ ReloadStops \/ ReloadCheckpoints \/ ReloadClears
         \/ ReloadStarts \/ ReloadPublishes \/ ReloadEnds
         \/ ShutdownBegins \/ StopAssembler \/ ShutdownEnds
<1> USE DEF threads, budget, mishaps, fetch
<1>1. ASSUME NEW c \in Caller, Asking(c) \/ ListTimesOut(c) \/ RunsOverNothing(c)
      PROVE  UNCHANGED <<running, serving, reload, reloadMu, reloadsAsked, stop, abandoned>>
  BY <1>1 DEF Asking, List, LockBarrier, RunBarrier, DrainFiles, BarrierAcks, BarrierFails, ListTimesOut,
     RunsOverNothing
<1>2. CASE LoopBegins \/ LoopIsRefused \/ LoopEnds
  BY <1>2 DEF LoopBegins, LoopIsRefused, LoopEnds
<1>3. CASE Fetching
  BY <1>3 DEF Fetching, Dispatch, Fetched
<1>4. CASE Piping \/ Swap
  BY <1>4 DEF Piping, Closed, Take, Write, noteJobBytes, Swap
<1>5. CASE Serving
  BY <1>5 DEF Serving, ServeArticle, ServeQuestion
<1>6. CASE Evicted \/ UNCHANGED reloadVars
  BY <1>6 DEF Evicted, reloadVars
<1> QED BY <1>1, <1>2, <1>3, <1>4, <1>5, <1>6 DEF ReloadNext, LoopSteps, Reloading, Ending, Caller

LEMMA ReloadUnlistedStays ==
  ASSUME [ReloadNext]_reloadVars, unlisted
  PROVE  unlisted'
<1> USE DEF budget, mishaps
<1>1. ASSUME NEW c \in Caller, Asking(c) \/ ListTimesOut(c) \/ RunsOverNothing(c)
      PROVE  unlisted'
  BY <1>1 DEF Asking, List, LockBarrier, RunBarrier, DrainFiles, BarrierAcks, BarrierFails, ListTimesOut,
     RunsOverNothing
<1>2. CASE LoopBegins \/ LoopIsRefused \/ LoopEnds
  BY <1>2 DEF LoopBegins, LoopIsRefused, LoopEnds
<1>3. CASE Fetching
  BY <1>3 DEF Fetching, Dispatch, Fetched
<1>4. CASE Piping \/ Swap
  BY <1>4 DEF Piping, Closed, Take, Write, noteJobBytes, Swap
<1>5. CASE Serving
  BY <1>5 DEF Serving, ServeArticle, ServeQuestion
<1>6. CASE Evicted \/ StopDownloader \/ StopTimesOut \/ StopReturns \/ ShutdownBegins \/ StopAssembler
           \/ ShutdownEnds
  BY <1>6 DEF Evicted, StopDownloader, StopTimesOut, StopReturns, ShutdownBegins, StopAssembler,
     ShutdownEnds
<1>7. CASE ReloadBegins \/ ReloadStops \/ ReloadCheckpoints \/ ReloadClears \/ ReloadStarts
           \/ ReloadPublishes \/ ReloadEnds
  BY <1>7 DEF ReloadBegins, ReloadStops, ReloadCheckpoints, ReloadClears, ReloadStarts, ReloadPublishes,
     ReloadEnds
<1>8. CASE UNCHANGED reloadVars
  BY <1>8 DEF reloadVars
<1> QED BY <1>1, <1>2, <1>3, <1>4, <1>5, <1>6, <1>7, <1>8 DEF ReloadNext, LoopSteps, Reloading, Ending, Caller

\* For any articles, reloads and faults: unless a barrier ran over a listing
\* that never came, an article that is written, or on its way to being
\* written, and not acknowledged keeps its claim, so that no reload puts it on
\* offer a second time (ReloadDownloader, setCompletions, settleJobBytes,
\* jobsAtRisk).
THEOREM ReloadKeepsUnacked == ReloadSafety => []UnackedKeepsItsBit
<1>1. ReloadInit => unlisted \/ ReloadIInv
  BY ReloadInitial
<1>2. (unlisted \/ ReloadIInv) /\ [ReloadNext]_reloadVars => (unlisted \/ ReloadIInv)'
  BY ReloadStep, ReloadUnlistedStays
<1>3. unlisted \/ ReloadIInv => UnackedKeepsItsBit
  BY DEF ReloadIInv, UnderwayIsClaimed, underway, UnackedKeepsItsBit, WrittenKeepsItsBit
<1> QED BY <1>1, <1>2, <1>3, PTL DEF ReloadSafety

\* For any articles, reloads and faults: a downloader that runs once Shutdown
\* has returned is one whose Stop outlasted the time it is given; none that a
\* reload built when the shutdown began is left behind (stopWorkers waits for
\* reloadMu, ReloadDownloader refuses after Shutdown).
THEOREM ShutdownLeavesNoneRunning == ReloadSafety => []NoneLeftRunning
<1>1. ReloadInit => OneRuns /\ StoppedForGood
  BY DEF ReloadInit, OneRuns, StoppedForGood
<1>2. ASSUME OneRuns, StoppedForGood, [ReloadNext]_reloadVars
      PROVE  OneRuns' /\ StoppedForGood'
  <2> USE <1>2 DEF OneRuns, StoppedForGood, stops, threads, budget, mishaps, fetch
  <2>1. CASE UNCHANGED <<running, serving, reload, reloadMu, reloadsAsked, stop, abandoned>>
    BY <2>1
  <2>2. CASE StopDownloader
    BY <2>2 DEF StopDownloader, snapshots
  <2>3. CASE StopTimesOut
    BY <2>3 DEF StopTimesOut, snapshots
  <2>4. CASE StopReturns
    BY <2>4 DEF StopReturns
  <2>5. CASE ReloadBegins
    BY <2>5 DEF ReloadBegins, Stopping
  <2>6. CASE ReloadStops
    BY <2>6 DEF ReloadStops
  <2>7. CASE ReloadCheckpoints \/ ReloadClears
    BY <2>7 DEF ReloadCheckpoints, ReloadClears
  <2>8. CASE ReloadStarts
    BY <2>8 DEF ReloadStarts
  <2>9. CASE ReloadPublishes \/ ReloadEnds
    BY <2>9 DEF ReloadPublishes, ReloadEnds
  <2>10. CASE ShutdownBegins \/ StopAssembler \/ ShutdownEnds
    BY <2>10 DEF ShutdownBegins, StopAssembler, ShutdownEnds
  <2> QED BY <2>1, <2>2, <2>3, <2>4, <2>5, <2>6, <2>7, <2>8, <2>9, <2>10, ReloadHands
<1>3. StoppedForGood => NoneLeftRunning
  BY DEF StoppedForGood, NoneLeftRunning
<1> QED BY <1>1, <1>2, <1>3, PTL DEF ReloadSafety

-----------------------------------------------------------------------------
(* JobContent: what the checkpointer was told of is kept.                    *)
\* The counters are recomputed from bits that stay as they are.
LEMMA RecomputeKeeps ==
  ASSUME NEW p, DOMAIN p = ProgressFields
  PROVE  /\ DOMAIN recompute(p) = ProgressFields
         /\ recompute(p).failed = p.failed /\ recompute(p).complete = p.complete
         /\ recompute(p).done = p.done
  BY DEF recompute, ProgressFields

\* An article handed out, returned or done changes no failure and no file.
LEMMA MarkingKeeps ==
  ASSUME NEW p, NEW a, DOMAIN p = ProgressFields
  PROVE  /\ DOMAIN markEmitted(p, a) = ProgressFields /\ DOMAIN clearEmitted(p, a) = ProgressFields
         /\ DOMAIN markDone(p, a) = ProgressFields /\ DOMAIN markFailed(p, a) = ProgressFields
         /\ markEmitted(p, a).failed = p.failed /\ markEmitted(p, a).complete = p.complete
         /\ clearEmitted(p, a).failed = p.failed /\ clearEmitted(p, a).complete = p.complete
         /\ markDone(p, a).failed = p.failed /\ markDone(p, a).complete = p.complete
         /\ markFailed(p, a).complete = p.complete
<1>1. /\ DOMAIN fewer(p, a) = ProgressFields
      /\ fewer(p, a).failed = p.failed /\ fewer(p, a).complete = p.complete
  BY DEF fewer, ProgressFields
<1>2. /\ DOMAIN takenFrom(p, a) = ProgressFields
      /\ takenFrom(p, a).failed = p.failed /\ takenFrom(p, a).complete = p.complete
  BY <1>1 DEF takenFrom
<1>3. /\ DOMAIN markEmitted(p, a) = ProgressFields
      /\ markEmitted(p, a).failed = p.failed /\ markEmitted(p, a).complete = p.complete
  BY <1>1 DEF markEmitted, ProgressFields
<1>4. /\ DOMAIN clearEmitted(p, a) = ProgressFields
      /\ clearEmitted(p, a).failed = p.failed /\ clearEmitted(p, a).complete = p.complete
  BY DEF clearEmitted, ProgressFields
<1>5. /\ DOMAIN markDone(p, a) = ProgressFields
      /\ markDone(p, a).failed = p.failed /\ markDone(p, a).complete = p.complete
  BY <1>2 DEF markDone, ProgressFields
<1>6. DOMAIN markFailed(p, a) = ProgressFields /\ markFailed(p, a).complete = p.complete
  BY <1>2 DEF markFailed, ProgressFields
<1> QED BY <1>3, <1>4, <1>5, <1>6

LEMMA AllKeeps ==
  ASSUME NEW p, NEW S, DOMAIN p = ProgressFields
  PROVE  /\ DOMAIN allDone(p, S) = ProgressFields /\ DOMAIN allFailed(p, S) = ProgressFields
         /\ allDone(p, S).failed = p.failed /\ allDone(p, S).complete = p.complete
         /\ allDone(p, S).done = p.done \cup (S \ p.done)
         /\ allFailed(p, S).failed = p.failed \cup (S \ p.done) /\ allFailed(p, S).complete = p.complete
         /\ allFailed(p, S).done = p.done \cup (S \ p.done)
<1> DEFINE q == allResolved(p, S \ p.done)
<1>1. /\ DOMAIN q = ProgressFields /\ q.failed = p.failed /\ q.complete = p.complete
      /\ q.done = p.done \cup (S \ p.done)
  BY DEF allResolved, ProgressFields
<1> HIDE DEF q
<1>2. /\ DOMAIN allDone(p, S) = ProgressFields
      /\ allDone(p, S).failed = q.failed /\ allDone(p, S).complete = q.complete
      /\ allDone(p, S).done = q.done
  <2>1. allDone(p, S) = [q EXCEPT !.downloaded = [f \in ContentFile |-> @[f] + BytesOf(Of(f) \cap (S \ p.done))]]
    BY DEF allDone, q
  <2> QED BY <1>1, <2>1 DEF ProgressFields
<1>3. /\ DOMAIN allFailed(p, S) = ProgressFields
      /\ allFailed(p, S).failed = q.failed \cup (S \ p.done) /\ allFailed(p, S).complete = q.complete
      /\ allFailed(p, S).done = q.done
  <2>1. allFailed(p, S) = [q EXCEPT !.failed = @ \cup (S \ p.done), !.failedN = @ + Cardinality(S \ p.done),
           !.failedBytes = @ + BytesOf(S \ p.done),
           !.lost = [f \in ContentFile |-> @[f] + BytesOf(Of(f) \cap (S \ p.done))]]
    BY DEF allFailed, q
  <2> QED BY <1>1, <2>1 DEF ProgressFields
<1> QED BY <1>1, <1>2, <1>3

\* Releasing or discarding the recovery volumes changes no failure and no
\* completed file; a first failure may release them.
LEMMA RecoveryKeeps ==
  ASSUME NEW p, NEW a, DOMAIN p = ProgressFields
  PROVE  /\ DOMAIN undeferRecovery(p) = ProgressFields /\ DOMAIN DiscardDeferredPar2(p) = ProgressFields
         /\ DOMAIN MarkArticleFailed(p, a) = ProgressFields
         /\ undeferRecovery(p).failed = p.failed /\ undeferRecovery(p).complete = p.complete
         /\ DiscardDeferredPar2(p).failed = p.failed /\ DiscardDeferredPar2(p).complete = p.complete
         /\ MarkArticleFailed(p, a).complete = p.complete
<1>1. ASSUME NEW q, DOMAIN q = ProgressFields
      PROVE  /\ DOMAIN undeferRecovery(q) = ProgressFields
             /\ undeferRecovery(q).failed = q.failed /\ undeferRecovery(q).complete = q.complete
  <2> DEFINE r == [q EXCEPT !.recovered = TRUE,
             !.fetch = [f \in ContentFile |-> IF @[f] = "ifneeded" THEN "always" ELSE @[f]]]
  <2>1. DOMAIN r = ProgressFields /\ r.failed = q.failed /\ r.complete = q.complete
    BY <1>1 DEF ProgressFields
  <2>2. undeferRecovery(q) = q \/ undeferRecovery(q) = recompute(r)
    BY DEF undeferRecovery
  <2> HIDE DEF r
  <2> QED BY <1>1, <2>1, <2>2, RecomputeKeeps
<1>2. /\ DOMAIN DiscardDeferredPar2(p) = ProgressFields
      /\ DiscardDeferredPar2(p).failed = p.failed /\ DiscardDeferredPar2(p).complete = p.complete
  <2> DEFINE r == [p EXCEPT !.fetch = [f \in ContentFile |-> IF @[f] = "ifneeded" THEN "never" ELSE @[f]]]
  <2>1. DOMAIN r = ProgressFields /\ r.failed = p.failed /\ r.complete = p.complete
    BY DEF ProgressFields
  <2>2. DiscardDeferredPar2(p) = p \/ DiscardDeferredPar2(p) = recompute(r)
    BY DEF DiscardDeferredPar2
  <2> HIDE DEF r
  <2> QED BY <2>1, <2>2, RecomputeKeeps
<1>3. DOMAIN MarkArticleFailed(p, a) = ProgressFields /\ MarkArticleFailed(p, a).complete = p.complete
  <2> DEFINE q == markFailed(p, a)
  <2>1. DOMAIN q = ProgressFields /\ q.complete = p.complete
    BY MarkingKeeps
  <2>2. MarkArticleFailed(p, a) = q \/ MarkArticleFailed(p, a) = undeferRecovery(q)
    BY DEF MarkArticleFailed
  <2> HIDE DEF q
  <2> QED BY <1>1, <2>1, <2>2
<1> QED BY <1>1, <1>2, <1>3

\* What restoring from the rows does to failures and files.
LEMMA RestoreKeeps ==
  ASSUME NEW p, NEW r, DOMAIN p = ProgressFields
  PROVE  /\ DOMAIN RestoreFileMeta(p, r) = ProgressFields
         /\ RestoreFileMeta(p, r).failed = p.failed /\ RestoreFileMeta(p, r).done = p.done
         /\ RestoreFileMeta(p, r).complete = p.complete \cup r.complete
BY DEF RestoreFileMeta, ProgressFields

\* Applying a resolution adds its failures, and completes nothing.
LEMMA ApplyKeeps ==
  ASSUME NEW p, NEW runs, NEW failures, DOMAIN p = ProgressFields
  PROVE  /\ DOMAIN ApplyResolution(p, runs, failures) = ProgressFields
         /\ ApplyResolution(p, runs, failures).complete = p.complete
         /\ ApplyResolution(p, runs, failures).failed = p.failed \cup (failures \ p.done)
         /\ ApplyResolution(p, runs, failures).done \subseteq p.done \cup failures \cup runs
<1> DEFINE q == allFailed(p, failures)
           s == allDone(q, runs \ q.failed)
<1>1. /\ DOMAIN q = ProgressFields /\ q.complete = p.complete
      /\ q.failed = p.failed \cup (failures \ p.done) /\ q.done = p.done \cup (failures \ p.done)
  BY AllKeeps
<1>2. ApplyResolution(p, runs, failures) = recompute(s)
  BY DEF ApplyResolution
<1> HIDE DEF q
<1>3. /\ DOMAIN s = ProgressFields /\ s.complete = q.complete /\ s.failed = q.failed
      /\ s.done = q.done \cup ((runs \ q.failed) \ q.done)
  BY <1>1, AllKeeps
<1> HIDE DEF s
<1> QED BY <1>1, <1>2, <1>3, RecomputeKeeps

\* The runs take back only what neither they nor a failure stand behind.
LEMMA ReplaceKeeps ==
  ASSUME NEW p, NEW runs, DOMAIN p = ProgressFields
  PROVE  /\ DOMAIN ReplaceFromRuns(p, runs) = ProgressFields
         /\ ReplaceFromRuns(p, runs).failed = p.failed
         /\ ReplaceFromRuns(p, runs).complete \subseteq p.complete
         /\ p.done \subseteq p.failed \cup runs => ReplaceFromRuns(p, runs).complete = p.complete
<1> DEFINE gone == p.done \ (p.failed \cup runs)
           q == allDone(p, runs)
           m == markNotDone(q, gone)
           s == [m EXCEPT !.complete = {f \in @ : Of(f) \cap gone = {}}]
<1>1. DOMAIN q = ProgressFields /\ q.complete = p.complete /\ q.failed = p.failed
  BY AllKeeps
<1>2. ReplaceFromRuns(p, runs) = recompute(s)
  BY DEF ReplaceFromRuns
<1> HIDE DEF q
<1>3. DOMAIN m = ProgressFields /\ m.complete = q.complete /\ m.failed = q.failed
  BY <1>1 DEF markNotDone, ProgressFields
<1> HIDE DEF m
<1>4. /\ DOMAIN s = ProgressFields /\ s.failed = m.failed
      /\ s.complete = {f \in m.complete : Of(f) \cap gone = {}}
  BY <1>3 DEF ProgressFields
<1>5. p.done \subseteq p.failed \cup runs => gone = {}
  OBVIOUS
<1> HIDE DEF s, gone
<1> QED BY <1>1, <1>2, <1>3, <1>4, <1>5, RecomputeKeeps

\* A reload forgets failures, never makes one.
LEMMA ReloadKeeps ==
  ASSUME NEW p, NEW skip, DOMAIN p = ProgressFields
  PROVE  /\ DOMAIN ClearEmittedForReload(p, skip) = ProgressFields
         /\ ClearEmittedForReload(p, skip).complete = p.complete
         /\ ClearEmittedForReload(p, skip).failed \subseteq p.failed
<1> DEFINE r == resetForReload(p, skip)
<1>1. DOMAIN r = ProgressFields /\ r.complete = p.complete /\ r.failed \subseteq p.failed
  BY DEF resetForReload, ProgressFields
<1>2. ClearEmittedForReload(p, skip) = r \/ ClearEmittedForReload(p, skip) = recompute(r)
  BY DEF ClearEmittedForReload
<1> HIDE DEF r
<1> QED BY <1>1, <1>2, RecomputeKeeps

\* A retry starts without failures, and with the files that were kept.
LEMMA RetryKeeps ==
  ASSUME NEW runs, NEW k
  PROVE  LET q == ResetForRetry(RestoreFileMeta(ReplaceFromRuns(ingested, runs), k))
         IN  DOMAIN q = ProgressFields /\ q.failed = {} /\ q.complete = k.complete
<1> DEFINE i == ingested
           s == ReplaceFromRuns(i, runs)
           t == RestoreFileMeta(s, k)
           u == [t EXCEPT !.done = @ \ t.failed, !.failed = {}, !.recovered = FALSE,
                     !.complete = {f \in @ : Of(f) \cap t.failed = {}},
                     !.fetch = [f \in ContentFile |-> IF @[f] = "never" THEN "ifneeded" ELSE @[f]]]
<1>1. DOMAIN i = ProgressFields /\ i.failed = {} /\ i.complete = {} /\ i.done = {}
  BY DEF ingested, newJobProgress, ProgressFields
<1> HIDE DEF i
<1>3. DOMAIN s = ProgressFields /\ s.failed = {} /\ s.complete = {}
  BY <1>1, ReplaceKeeps
<1> HIDE DEF s
<1>4. DOMAIN t = ProgressFields /\ t.failed = {} /\ t.complete = k.complete
  BY <1>3, RestoreKeeps
<1> HIDE DEF t
<1>2. ResetForRetry(t) = recompute(u)
  BY DEF ResetForRetry
<1>5. DOMAIN u = ProgressFields /\ u.failed = {} /\ u.complete = {f \in t.complete : Of(f) \cap t.failed = {}}
  BY <1>4 DEF ProgressFields
<1> HIDE DEF u
<1>6. /\ DOMAIN ResetForRetry(t) = ProgressFields /\ ResetForRetry(t).failed = {}
      /\ ResetForRetry(t).complete = k.complete
  BY <1>2, <1>4, <1>5, RecomputeKeeps
<1> QED BY <1>6 DEF t, s, i

\* A step after which nothing more is failed or complete, nobody less is marked
\* and the same is saved.
LEMMA ContentFrame ==
  ASSUME ContentIInv, DOMAIN prog' = ProgressFields, DOMAIN rows' = DOMAIN rows,
         prog'.failed \subseteq prog.failed, prog'.complete = prog.complete,
         rows'.complete = rows.complete, rows'.failed = rows.failed,
         UNCHANGED <<kept, checkpointer, toMark>>,
         live' => live, phase' = "kept" => phase = "kept"
  PROVE  ContentIInv'
<1> USE DEF ContentIInv
<1>1. ContentShape'
  BY DEF ContentShape
<1>2. RowsTrailJob'
  BY DEF RowsTrailJob, saving
<1>3. Unmarked' => Unmarked
  BY DEF Unmarked
<1>4. SavedOrSaving'
  BY <1>3 DEF SavedOrSaving, saving
<1>5. PrunedOwesNothing'
  BY <1>3 DEF PrunedOwesNothing
<1> QED BY <1>1, <1>2, <1>4, <1>5

\* A step after which the job is marked, or about to be: only the shape and
\* what the rows trail is to be seen to.
LEMMA ContentMarked ==
  ASSUME ContentIInv, DOMAIN prog' = ProgressFields,
         prog.complete \subseteq prog'.complete, UNCHANGED <<rows, kept>>,
         checkpointer' = checkpointer \/ checkpointer' = [checkpointer EXCEPT !.dirty = TRUE],
         ~Unmarked', phase' # "kept"
  PROVE  ContentIInv'
<1> USE DEF ContentIInv
<1>1. /\ ContentShape' /\ checkpointer'.pc = checkpointer.pc
      /\ checkpointer'.snap = checkpointer.snap
  BY DEF ContentShape
<1>2. RowsTrailJob'
  BY <1>1 DEF RowsTrailJob, saving
<1> QED BY <1>1, <1>2 DEF SavedOrSaving, PrunedOwesNothing

\* Steps of the downloader, the pipeline and the barrier.
LEMMA ContentFetch ==
  ASSUME ContentIInv, NEW a \in ContentArt,
         HandOut(a) \/ ReturnArticle(a) \/ AcceptWrite(a) \/ Record(a)
  PROVE  ContentIInv'
<1>1. DOMAIN prog = ProgressFields /\ DOMAIN rows = {"complete", "fetch", "failed", "runs"}
  BY DEF ContentIInv, ContentShape
<1>2. UNCHANGED <<kept, checkpointer, toMark, phase>>
  BY DEF HandOut, ReturnArticle, AcceptWrite, Record
<1>3. /\ DOMAIN prog' = ProgressFields
      /\ prog'.failed = prog.failed /\ prog'.complete = prog.complete
  <2>1. prog' = prog \/ prog' = markEmitted(prog, a) \/ prog' = clearEmitted(prog, a)
    BY DEF HandOut, ReturnArticle, AcceptWrite, Record
  <2> QED BY <1>1, <2>1, MarkingKeeps
<1>4. /\ DOMAIN rows' = DOMAIN rows
      /\ rows'.complete = rows.complete /\ rows'.failed = rows.failed
  <2>1. rows' = rows \/ rows' = [rows EXCEPT !.runs = @ \cup {a}]
    BY DEF HandOut, ReturnArticle, AcceptWrite, Record
  <2> QED BY <1>1, <2>1
<1> QED BY <1>2, <1>3, <1>4, ContentFrame DEF live

LEMMA ContentFail ==
  ASSUME ContentIInv, NEW a \in ContentArt, Fail(a)
  PROVE  ContentIInv'
<1>1. DOMAIN prog = ProgressFields
  BY DEF ContentIInv, ContentShape
<1>2. DOMAIN prog' = ProgressFields /\ prog'.complete = prog.complete
  <2>1. prog' = prog \/ prog' = MarkArticleFailed(prog, a)
    BY DEF Fail
  <2> QED BY <1>1, <2>1, RecoveryKeeps
<1>3. toMark' # {} /\ phase' # "kept" /\ UNCHANGED <<rows, kept, checkpointer>>
  BY DEF Fail, live
<1> QED BY <1>2, <1>3, ContentMarked DEF Unmarked

LEMMA ContentAck ==
  ASSUME ContentIInv, NEW a \in ContentArt, AckDurable(a)
  PROVE  ContentIInv'
<1>1. DOMAIN prog = ProgressFields
  BY DEF ContentIInv, ContentShape
<1>2. UNCHANGED <<phase, rows, kept, toMark>> /\ phase # "kept"
  BY DEF AckDurable, live
<1>3. CASE loaded
  <2>1. prog' = markDone(prog, a) /\ checkpointer' = [checkpointer EXCEPT !.dirty = TRUE]
    BY <1>3 DEF AckDurable
  <2>2. DOMAIN prog' = ProgressFields /\ prog'.complete = prog.complete
    BY <1>1, <2>1, MarkingKeeps
  <2>3. checkpointer'.dirty
    BY <2>1 DEF ContentIInv, ContentShape
  <2> QED BY <1>2, <2>1, <2>2, <2>3, ContentMarked DEF Unmarked
<1>4. CASE ~loaded
  <2>1. UNCHANGED <<prog, checkpointer>>
    BY <1>4 DEF AckDurable
  <2> QED BY <1>1, <1>2, <2>1, ContentFrame DEF live
<1> QED BY <1>3, <1>4

LEMMA ContentSeed ==
  ASSUME ContentIInv, seedFromCommittedRuns
  PROVE  ContentIInv'
<1>1. DOMAIN prog = ProgressFields
  BY DEF ContentIInv, ContentShape
<1>2. prog' = prog \/ prog' = allDone(prog, rows.runs)
  BY DEF seedFromCommittedRuns, SeedFromRuns
<1>3. /\ DOMAIN prog' = ProgressFields
      /\ prog'.failed = prog.failed /\ prog'.complete = prog.complete
  BY <1>1, <1>2, AllKeeps
<1>4. UNCHANGED <<rows, kept, checkpointer, toMark, phase>>
  BY DEF seedFromCommittedRuns
<1> QED BY <1>3, <1>4, ContentFrame DEF live

LEMMA ContentCompleteFile ==
  ASSUME ContentIInv, NEW f \in ContentFile, CompleteFile(f)
  PROVE  ContentIInv'
<1>1. DOMAIN prog = ProgressFields
  BY DEF ContentIInv, ContentShape
<1>2. prog' = [prog EXCEPT !.complete = @ \cup {f}]
  BY DEF CompleteFile
<1>3. DOMAIN prog' = ProgressFields /\ prog.complete \subseteq prog'.complete
  BY <1>1, <1>2 DEF ProgressFields
<1>4. toMark' # {} /\ phase' # "kept" /\ UNCHANGED <<rows, kept, checkpointer>>
  BY DEF CompleteFile
<1> QED BY <1>3, <1>4, ContentMarked DEF Unmarked

\* The assessment, the residency and a reload.
LEMMA ContentAssess ==
  ASSUME ContentIInv, Assess
  PROVE  ContentIInv'
<1>1. DOMAIN prog = ProgressFields
  BY DEF ContentIInv, ContentShape
<1>2. prog' = prog \/ prog' = DiscardDeferredPar2(prog) \/ prog' = undeferRecovery(prog)
  BY DEF Assess
<1>3. /\ DOMAIN prog' = ProgressFields
      /\ prog'.failed = prog.failed /\ prog'.complete = prog.complete
  BY <1>1, <1>2, RecoveryKeeps
<1>4. UNCHANGED <<rows, kept, checkpointer, toMark>> /\ live /\ phase' # "kept"
  BY DEF Assess, live
<1> QED BY <1>3, <1>4, ContentFrame

LEMMA ContentResides ==
  ASSUME ContentIInv, PostProcess \/ Park \/ GrantLease \/ EvictContent
  PROVE  ContentIInv'
<1>1. DOMAIN prog = ProgressFields
  BY DEF ContentIInv, ContentShape
<1>2. /\ UNCHANGED <<prog, rows, kept, checkpointer, toMark>> /\ (live' => live)
      /\ (phase' = "kept" => phase = "kept")
  BY DEF PostProcess, Park, GrantLease, EvictContent, live
<1> QED BY <1>1, <1>2, ContentFrame

LEMMA ContentHydrate ==
  ASSUME ContentIInv, Hydrate
  PROVE  ContentIInv'
<1>1. DOMAIN prog = ProgressFields
  BY DEF ContentIInv, ContentShape
<1>2. /\ UNCHANGED <<rows, kept, checkpointer, toMark, phase>> /\ prog' = recompute(prog)
  BY DEF Hydrate
<1>3. /\ DOMAIN prog' = ProgressFields
      /\ prog'.failed = prog.failed /\ prog'.complete = prog.complete
  BY <1>1, <1>2, RecomputeKeeps
<1> QED BY <1>2, <1>3, ContentFrame DEF live

LEMMA ContentReload ==
  ASSUME ContentIInv, ReloadClaims
  PROVE  ContentIInv'
<1>1. DOMAIN prog = ProgressFields
  BY DEF ContentIInv, ContentShape
<1>2. UNCHANGED <<rows, kept, checkpointer, toMark, phase>>
  BY DEF ReloadClaims
<1>3. prog' = prog \/ prog' = ClearEmittedForReload(prog, \E a \in ContentArt : hand[a] # "none")
  BY DEF ReloadClaims
<1>4. /\ DOMAIN prog' = ProgressFields
      /\ prog'.failed \subseteq prog.failed /\ prog'.complete = prog.complete
  <2>1. PICK skip : prog' = prog \/ prog' = ClearEmittedForReload(prog, skip)
    BY <1>3
  <2> QED BY <1>1, <2>1, ReloadKeeps
<1> QED BY <1>2, <1>4, ContentFrame DEF live

\* The rows over the progress that stayed in memory.
LEMMA ContentRestoreFiles ==
  ASSUME ContentIInv, restoreJobFiles
  PROVE  ContentIInv'
<1> USE DEF ContentIInv
<1>1. DOMAIN prog = ProgressFields /\ rows.complete \subseteq prog.complete
  BY DEF ContentShape, RowsTrailJob
<1>2. /\ UNCHANGED <<rows, kept, checkpointer, toMark, phase>> /\ prog' = RestoreFileMeta(prog, rows)
  BY DEF restoreJobFiles
<1>3. /\ DOMAIN prog' = ProgressFields
      /\ prog'.failed = prog.failed /\ prog'.complete = prog.complete \cup rows.complete
  BY <1>1, <1>2, RestoreKeeps
<1>4. prog'.complete = prog.complete
  BY <1>1, <1>3
<1> QED BY <1>2, <1>3, <1>4, ContentFrame DEF live

LEMMA ContentRestoreResolution ==
  ASSUME ContentIInv, restoreResolution
  PROVE  ContentIInv'
<1> USE DEF ContentIInv
<1>1. DOMAIN prog = ProgressFields
  BY DEF ContentShape
<1>2. /\ UNCHANGED <<rows, kept, checkpointer, toMark, phase>>
      /\ prog' = ApplyResolution(prog, rows.runs, rows.failed)
  BY DEF restoreResolution
<1>3. /\ DOMAIN prog' = ProgressFields /\ prog'.complete = prog.complete
      /\ prog'.failed \subseteq prog.failed \cup rows.failed
  BY <1>1, <1>2, RestoreKeeps, ApplyKeeps
<1>4. ContentShape' /\ RowsTrailJob'
  BY <1>2, <1>3 DEF ContentShape, RowsTrailJob, saving
<1>5. Unmarked' => Unmarked
  BY <1>2 DEF Unmarked, live
<1>6. SavedOrSaving' /\ PrunedOwesNothing'
  BY <1>2, <1>3, <1>5 DEF SavedOrSaving, PrunedOwesNothing, saving
<1> QED BY <1>4, <1>6

\* The end of a failed job, and its next life.
LEMMA ContentFinalize ==
  ASSUME ContentIInv, FinalizeFailed
  PROVE  ContentIInv'
<1> USE DEF ContentIInv
<1>1. /\ UNCHANGED <<rows, toMark, prog>> /\ phase' = "kept" /\ kept'.complete = prog.complete
  BY DEF FinalizeFailed
<1>2. /\ ContentShape' /\ checkpointer'.pc = checkpointer.pc /\ checkpointer'.snap = checkpointer.snap
  BY DEF FinalizeFailed, ContentShape
<1>3. RowsTrailJob'
  BY <1>1, <1>2 DEF RowsTrailJob, saving
<1>4. ~live'
  BY <1>1 DEF live
<1> QED BY <1>2, <1>3, <1>4 DEF SavedOrSaving, PrunedOwesNothing, Unmarked

LEMMA ContentRetry ==
  ASSUME ContentIInv, RetryHistoryJob
  PROVE  ContentIInv'
<1> USE DEF ContentIInv
<1>1. /\ UNCHANGED <<kept, checkpointer, toMark>> /\ phase = "kept" /\ phase' # "kept"
      /\ prog' = ResetForRetry(RestoreFileMeta(ReplaceFromRuns(ingested, rows.runs), kept))
      /\ rows' = [rows EXCEPT !.failed = {}]
  BY DEF RetryHistoryJob
<1>2. DOMAIN prog' = ProgressFields /\ prog'.failed = {} /\ prog'.complete = kept.complete
  BY <1>1, RetryKeeps
<1>3. DOMAIN rows' = DOMAIN rows /\ rows'.complete = rows.complete
  BY <1>1 DEF ContentShape
<1>4. ContentShape'
  BY <1>1, <1>2, <1>3 DEF ContentShape
<1>5. RowsTrailJob'
  BY <1>1, <1>2, <1>3 DEF RowsTrailJob, saving
<1>6. SavedOrSaving' /\ PrunedOwesNothing'
  BY <1>1, <1>2 DEF SavedOrSaving, PrunedOwesNothing
<1> QED BY <1>4, <1>5, <1>6

LEMMA ContentRestart ==
  ASSUME ContentIInv, CrashAndRestart
  PROVE  ContentIInv'
<1> USE DEF ContentIInv
<1> DEFINE n == newJobProgress
           m == RestoreFileMeta(n, rows)
           h == ApplyResolution(m, rows.runs, rows.failed)
<1>1. DOMAIN n = ProgressFields /\ n.failed = {} /\ n.complete = {} /\ n.done = {}
  BY DEF newJobProgress, ProgressFields
<1>2. prog' = h \/ prog' = ReplaceFromRuns(h, rows.runs)
  BY DEF CrashAndRestart
<1> HIDE DEF n
<1>3. /\ DOMAIN m = ProgressFields /\ m.failed = n.failed /\ m.done = n.done
      /\ m.complete = n.complete \cup rows.complete
  BY <1>1, RestoreKeeps
<1>4. DOMAIN m = ProgressFields /\ m.failed = {} /\ m.done = {} /\ m.complete = rows.complete
  BY <1>1, <1>3
<1> HIDE DEF m
<1>5. /\ DOMAIN h = ProgressFields /\ h.complete = m.complete
      /\ h.failed = m.failed \cup (rows.failed \ m.done)
      /\ h.done \subseteq m.done \cup rows.failed \cup rows.runs
  <2>1. DOMAIN m = ProgressFields
    BY <1>4
  <2> QED BY <2>1, ApplyKeeps
<1>6. /\ DOMAIN h = ProgressFields /\ h.failed = rows.failed /\ h.complete = rows.complete
      /\ h.done \subseteq rows.failed \cup rows.runs
  BY <1>4, <1>5
<1> HIDE DEF h
<1>7. /\ DOMAIN prog' = ProgressFields /\ prog'.failed = rows.failed
      /\ prog'.complete = rows.complete
  BY <1>2, <1>6, ReplaceKeeps
<1>8. UNCHANGED <<phase, rows, kept>> /\ phase # "kept"
  BY DEF CrashAndRestart, live
<1>9. ContentShape' /\ checkpointer'.pc = "idle"
  BY <1>7, <1>8 DEF CrashAndRestart, ContentShape
<1> QED BY <1>7, <1>8, <1>9 DEF RowsTrailJob, SavedOrSaving, PrunedOwesNothing, saving

\* The checkpointer.
LEMMA ContentMark ==
  ASSUME ContentIInv, NEW who, Mark(who)
  PROVE  ContentIInv'
<1> USE DEF ContentIInv
<1>1. UNCHANGED <<prog, rows, kept, phase>> /\ checkpointer' = [checkpointer EXCEPT !.dirty = TRUE]
  BY DEF Mark
<1>2. /\ ContentShape' /\ checkpointer'.dirty /\ checkpointer'.pc = checkpointer.pc
      /\ checkpointer'.snap = checkpointer.snap
  BY <1>1 DEF ContentShape
<1>3. RowsTrailJob'
  BY <1>1, <1>2 DEF RowsTrailJob, saving
<1> QED BY <1>2, <1>3 DEF SavedOrSaving, PrunedOwesNothing, Unmarked

LEMMA ContentTake ==
  ASSUME ContentIInv, TakeBatch
  PROVE  ContentIInv'
<1> USE DEF ContentIInv
<1>1. UNCHANGED <<prog, rows, kept, phase>>
      /\ checkpointer' = [checkpointer EXCEPT !.dirty = FALSE, !.inFlight = TRUE, !.pc = "taken"]
  BY DEF TakeBatch
<1>2. ContentShape' /\ checkpointer'.pc = "taken" /\ checkpointer'.inFlight
  BY <1>1 DEF ContentShape
<1> QED BY <1>1, <1>2 DEF RowsTrailJob, SavedOrSaving, PrunedOwesNothing, saving

LEMMA ContentSnapshot ==
  ASSUME ContentIInv, SnapshotJob
  PROVE  ContentIInv'
<1> USE DEF ContentIInv
<1>1. UNCHANGED <<prog, rows, kept, phase, toMark>> /\ checkpointer.pc = "taken"
  BY DEF SnapshotJob
<1>2. /\ ContentShape' /\ checkpointer'.pc = "saving"
      /\ checkpointer'.dirty = checkpointer.dirty /\ checkpointer'.inFlight = checkpointer.inFlight
      /\ checkpointer'.snap.complete = prog.complete /\ checkpointer'.snap.failed = prog.failed
  BY <1>1 DEF SnapshotJob, ContentShape
<1>3. Unmarked' => Unmarked
  BY <1>1, <1>2 DEF Unmarked, live
<1>4. RowsTrailJob'
  BY <1>1, <1>2 DEF RowsTrailJob, saving
<1>5. SavedOrSaving'
  BY <1>1, <1>2 DEF SavedOrSaving, saving
<1>6. PrunedOwesNothing'
  BY <1>1, <1>2, <1>3 DEF PrunedOwesNothing
<1> QED BY <1>2, <1>4, <1>5, <1>6

LEMMA ContentSaves ==
  ASSUME ContentIInv, SaveBatch
  PROVE  ContentIInv'
<1> USE DEF ContentIInv
<1>1. UNCHANGED <<prog, kept, phase, toMark>> /\ saving
  BY DEF SaveBatch, saving
<1>2. /\ ContentShape' /\ checkpointer'.pc = "idle" /\ checkpointer'.dirty = checkpointer.dirty
      /\ rows'.complete = checkpointer.snap.complete
      /\ rows'.failed = rows.failed \cup checkpointer.snap.failed
  BY <1>1 DEF SaveBatch, ContentShape
<1>3. Unmarked' => Unmarked
  BY <1>1, <1>2 DEF Unmarked, live
<1>4. RowsTrailJob'
  BY <1>1, <1>2 DEF RowsTrailJob, saving
<1>5. SavedOrSaving'
  BY <1>1, <1>2, <1>3 DEF SavedOrSaving, saving
<1>6. PrunedOwesNothing'
  BY <1>2 DEF PrunedOwesNothing
<1> QED BY <1>2, <1>4, <1>5, <1>6

LEMMA ContentSaveFails ==
  ASSUME ContentIInv, SaveFails
  PROVE  ContentIInv'
<1> USE DEF ContentIInv
<1>1. UNCHANGED <<prog, rows, kept, phase, toMark>> /\ checkpointer.pc = "saving"
  BY DEF SaveFails
<1>2. PICK b \in BOOLEAN : (b <=> checkpointer.dirty \/ checkpointer.inFlight) /\ b = remerged(checkpointer)
  BY DEF ContentShape, remerged
<1>3. checkpointer' = [checkpointer EXCEPT !.pc = "idle", !.inFlight = FALSE, !.dirty = b]
  BY <1>2 DEF SaveFails
<1>4. ContentShape' /\ checkpointer'.pc = "idle" /\ checkpointer'.dirty = b
  BY <1>1, <1>3 DEF ContentShape
<1>5. RowsTrailJob'
  BY <1>1, <1>4 DEF RowsTrailJob, saving
<1>6. Unmarked' => Unmarked /\ ~checkpointer.inFlight
  BY <1>1, <1>2, <1>4 DEF Unmarked, live
<1>7. SavedOrSaving'
  BY <1>1, <1>4, <1>6 DEF SavedOrSaving, PrunedOwesNothing, saving
<1>8. PrunedOwesNothing'
  BY <1>4 DEF PrunedOwesNothing
<1> QED BY <1>4, <1>5, <1>7, <1>8

LEMMA ContentInitial ==
  ASSUME ContentInit
  PROVE  ContentIInv
<1>1. DOMAIN prog = ProgressFields /\ prog.failed = {} /\ prog.complete = {}
  BY DEF ContentInit, ingested, newJobProgress, ProgressFields
<1>2. ContentShape
  BY <1>1 DEF ContentInit, ContentShape
<1>3. rows.complete = {} /\ checkpointer.pc = "idle" /\ phase = "fetching"
  BY DEF ContentInit
<1> QED BY <1>1, <1>2, <1>3 DEF ContentIInv, RowsTrailJob, SavedOrSaving, PrunedOwesNothing, saving

\* Every step keeps the invariant.
LEMMA ContentStep ==
  ASSUME ContentIInv, [ContentNext]_contentVars
  PROVE  ContentIInv'
<1>1. ASSUME NEW a \in ContentArt,
             HandOut(a) \/ ReturnArticle(a) \/ AcceptWrite(a) \/ Fail(a) \/ Record(a) \/ AckDurable(a)
      PROVE  ContentIInv'
  BY <1>1, ContentFetch, ContentFail, ContentAck
<1>2. ASSUME NEW f \in ContentFile, CompleteFile(f)
      PROVE  ContentIInv'
  BY <1>2, ContentCompleteFile
<1>3. CASE seedFromCommittedRuns
  BY <1>3, ContentSeed
<1>4. CASE Checkpointing
  BY <1>4, ContentMark, ContentTake, ContentSnapshot, ContentSaves, ContentSaveFails DEF Checkpointing
<1>5. CASE Residing
  BY <1>5, ContentResides, ContentHydrate, ContentRestoreFiles, ContentRestoreResolution DEF Residing
<1>6. CASE JobEnding
  BY <1>6, ContentAssess, ContentResides, ContentFinalize, ContentRetry, ContentReload, ContentRestart
     DEF JobEnding
<1>7. CASE UNCHANGED contentVars
  <2>1. UNCHANGED <<prog, rows, kept, checkpointer, toMark, phase>>
    BY <1>7 DEF contentVars
  <2> QED BY <2>1, ContentFrame DEF ContentIInv, ContentShape, live
<1> QED BY <1>1, <1>2, <1>3, <1>4, <1>5, <1>6, <1>7 DEF ContentNext

\* For any articles, files and upsets: a permanent failure or a completed file
\* that was reported to the checkpointer is saved or still to be saved,
\* whatever saves fail, whoever marks the job while one is under way, and
\* however often the job is evicted, reloaded, restarted or retried (Mark,
\* Flush, SaveBatch, Prune; restoreJobFiles, RetryHistoryJob).
THEOREM MarkedStaysKept == ContentSpec => []MarkedIsKept
<1>1. ContentInit => ContentIInv
  BY ContentInitial
<1>2. ContentIInv /\ [ContentNext]_contentVars => ContentIInv'
  BY ContentStep
<1>3. ContentIInv => MarkedIsKept
  BY DEF ContentIInv, SavedOrSaving, Unmarked, saving, MarkedIsKept
<1> QED BY <1>1, <1>2, <1>3, PTL DEF ContentSpec
=============================================================================
