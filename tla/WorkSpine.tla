----------------------------- MODULE WorkSpine ------------------------------
(***************************************************************************)
(* What the scheduler and the dispatcher promise of every job, whatever    *)
(* the registry, the pools, the tick and the workers do: a job moves one   *)
(* legal edge at a time and never back over the boundary, holds one of at  *)
(* most cap leases and only while it is open before the boundary, settles  *)
(* at a position its outcome admits, and after a restart stands where it   *)
(* was last saved.                                                         *)
(***************************************************************************)
EXTENDS JobLifecycle, FiniteSets

CONSTANT Job

VARIABLES
    at,         \* position and outcome of each job
    holders,    \* the jobs holding a lease
    cap,        \* the number of leases
    saved       \* the position and outcome each job would be restored to

spineVars == <<at, holders, cap, saved>>

Unborn == [state |-> Unset, outcome |-> "Pending"]

Open(a) == a.state # Unset /\ a.outcome = "Pending"

(* One step of the spine. *)
Begins(a, b)  == ~Open(a) /\ ~IsProduction(a.state)
                 /\ b = [state |-> "Fetching", outcome |-> "Pending"]
Moves(a, b)   == Open(a) /\ b.outcome = "Pending" /\ CanTransition(a.state, b.state)
Settles(a, b) == Open(a) /\ b.state = a.state /\ IsSettled(b.outcome)
                 /\ admits(b.outcome, a.state)

MayHold(a) == Open(a) /\ IsCorrectness(a.state)

(* A step of one job, with what it does to its lease and to its saved      *)
(* position.  A lease is taken only when one is left.                      *)
Step(o) ==
    /\ \/ at'[o] = at[o]
       \/ Begins(at[o], at'[o]) \/ Moves(at[o], at'[o]) \/ Settles(at[o], at'[o])
    /\ at' = [at EXCEPT ![o] = at'[o]]
    /\ holders' \in {holders, holders \cup {o}, holders \ {o}}
    /\ o \in holders' => MayHold(at'[o])
    /\ o \in holders' \ holders => Cardinality(holders) < cap
    /\ saved'[o] \in {saved[o], at[o], Unborn}
    /\ saved' = [saved EXCEPT ![o] = saved'[o]]
    /\ UNCHANGED cap

Resize == cap' \in Nat \ {0} /\ UNCHANGED <<at, holders, saved>>

(* The process dies: nothing is held and every job is what was saved. *)
Reborn == at' = saved /\ holders' = {} /\ UNCHANGED <<cap, saved>>

Init ==
    /\ at = [o \in Job |-> Unborn]
    /\ holders = {}
    /\ cap \in Nat \ {0}
    /\ saved = [o \in Job |-> Unborn]

Next == (\E o \in Job : Step(o)) \/ Resize \/ Reborn

Spec == Init /\ [][Next]_spineVars
=============================================================================
