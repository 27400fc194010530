---------------------------- MODULE BarrierLock ----------------------------
(***************************************************************************)
(* The mutex that keeps one barrier per job (app/durability.go).           *)
(*                                                                         *)
(* The mutexes live in a map that is emptied when a job leaves, and the    *)
(* job may leave while a barrier for it runs, even from inside that        *)
(* barrier: a permanent fault finalizes the job, which forgets its lock.   *)
(* If the entry went then, the next caller would mint a second mutex for   *)
(* the same job, and two barriers would split one drain.  Module           *)
(* Durability takes the exclusion shown here for granted.                  *)
(***************************************************************************)
EXTENDS Integers, FiniteSets

CONSTANTS
  Proc,      \* goroutines that run barriers: checkpoints, finalizes
  Job,
  MaxMint    \* how many mutexes may be made

ASSUME LockAssumption == IsFiniteSet(Proc) /\ MaxMint \in Nat

VARIABLES
  pc,      \* where a goroutine is
  on, got, \* the job and the mutex of a goroutine that is not idle
  entry,   \* jobBarrierMu: the job's barrierLock, or NoEntry
  minted   \* mutexes made so far

vars == <<pc, on, got, entry, minted>>

Mutex == 1..MaxMint
NoEntry == [mu |-> 0, holders |-> 0, forgotten |-> FALSE]
barrierLock == [mu : Mutex, holders : Nat, forgotten : BOOLEAN]

-----------------------------------------------------------------------------

\* The entry of j, made if there is none, with one more holder.
Lookup(p, j) ==
  entry' = [entry EXCEPT ![j] =
              IF entry[j] = NoEntry
              THEN [mu |-> minted + 1, holders |-> 1, forgotten |-> FALSE]
              ELSE [entry[j] EXCEPT !.holders = @ + 1]]

jobBarrierLock(p, j) ==
  /\ pc[p] = "idle"
  /\ entry[j] = NoEntry => minted < MaxMint
  /\ Lookup(p, j)
  /\ minted' = IF entry[j] = NoEntry THEN minted + 1 ELSE minted
  /\ pc' = [pc EXCEPT ![p] = "lock"]
  /\ on' = [on EXCEPT ![p] = j]
  /\ got' = [got EXCEPT ![p] = IF entry[j] = NoEntry THEN minted + 1
                               ELSE entry[j].mu]

\* mu.Lock() returns when nobody holds that mutex.
Lock(p) ==
  /\ pc[p] = "lock"
  /\ \A q \in Proc : pc[q] = "barrier" => got[q] # got[p]
  /\ pc' = [pc EXCEPT ![p] = "barrier"]
  /\ UNCHANGED <<on, got, entry, minted>>

\* The barrier, or an early return, is over; the deferred release follows.
Unlock(p) ==
  /\ pc[p] = "barrier"
  /\ pc' = [pc EXCEPT ![p] = "release"]
  /\ UNCHANGED <<on, got, entry, minted>>

\* One holder less; the last one completes a deferred deletion.
Released(e) ==
  IF e.holders <= 1 /\ e.forgotten THEN NoEntry
  ELSE [e EXCEPT !.holders = IF @ > 0 THEN @ - 1 ELSE 0]

\* The entry is looked up again, by job.
releaseJobBarrierLock(p) ==
  /\ pc[p] = "release"
  /\ entry' = [entry EXCEPT ![on[p]] = IF @ = NoEntry THEN @ ELSE Released(@)]
  /\ pc' = [pc EXCEPT ![p] = "idle"]
  /\ UNCHANGED <<on, got, minted>>

\* Mutant: the entry goes although somebody stands on it.
ForgottenAtOnce(e) == NoEntry

\* An entry that is held is only marked.
Forgotten(e) ==
  IF e.holders = 0 THEN NoEntry ELSE [e EXCEPT !.forgotten = TRUE]

\* The job leaves: removed by the user, handed to post-processing, or failed
\* by a fault of its own barrier.
forgetJobBarrierState(j) ==
  /\ entry[j] # NoEntry
  /\ entry' = [entry EXCEPT ![j] = Forgotten(@)]
  /\ UNCHANGED <<pc, on, got, minted>>

Init ==
  /\ pc = [p \in Proc |-> "idle"]
  /\ on \in [Proc -> Job] /\ got = [p \in Proc |-> 0]
  /\ entry = [j \in Job |-> NoEntry]
  /\ minted = 0

Next ==
  \/ \E p \in Proc : \/ \E j \in Job : jobBarrierLock(p, j)
                     \/ Lock(p) \/ Unlock(p) \/ releaseJobBarrierLock(p)
  \/ \E j \in Job : forgetJobBarrierState(j)

Spec == Init /\ [][Next]_vars

-----------------------------------------------------------------------------
(* Properties *)

\* Every variable holds a value of its kind.
TypeOK ==
  /\ pc \in [Proc -> {"idle", "lock", "barrier", "release"}]
  /\ on \in [Proc -> Job] /\ got \in [Proc -> Mutex \cup {0}]
  /\ entry \in [Job -> barrierLock \cup {NoEntry}]
  /\ minted \in 0..MaxMint

\* At most one barrier runs for a job, however often it is forgotten and its
\* lock made again.
Exclusion ==
  \A p, q \in Proc :
    pc[p] = "barrier" /\ pc[q] = "barrier" /\ on[p] = on[q] => p = q

\* The map does not grow: the entry of a job that was forgotten exists only
\* while somebody stands on it.
NoDeadEntry == \A j \in Job : entry[j].forgotten => entry[j].holders > 0

-----------------------------------------------------------------------------
(* The inductive invariant *)

Users(j) == {p \in Proc : pc[p] # "idle" /\ on[p] = j}

\* Whoever uses a job's lock is counted, and stands on the mutex in the map.
OneMutex ==
  /\ \A j \in Job : entry[j].holders = Cardinality(Users(j))
  /\ \A p \in Proc : pc[p] # "idle" => entry[on[p]].mu = got[p]

\* Nobody shares a locked mutex.
MutexHeldOnce ==
  \A p, q \in Proc :
    pc[p] = "barrier" /\ pc[q] = "barrier" /\ got[p] = got[q] => p = q

IInv == TypeOK /\ OneMutex /\ MutexHeldOnce /\ NoDeadEntry

=============================================================================
