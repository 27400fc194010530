---------------------------- MODULE JobLifecycle ----------------------------
(***************************************************************************)
(* The work spine of one job (internal/job): the positions a job moves     *)
(* through, the doors that move it, and the outcomes each position admits. *)
(*                                                                         *)
(* A job is a record; each door is a pair of operators: XxxOK(j, ...) is   *)
(* the condition under which the door does not return an error, and        *)
(* Xxx(j, ...) is the job after it.  A refused door leaves the job as it   *)
(* was.  Only the current attempt is kept: AttemptAt is read by nothing    *)
(* the scheduler or the dispatcher does.  The activity is a display label. *)
(***************************************************************************)
EXTENDS Naturals

Unset == "Unset"

AllStates == {"Fetching", "Assessing", "Repairing", "Extracting", "Finalizing"}

AllOutcomes == {"Pending", "OK", "Failed", "Unrecoverable", "Cancelled"}

AllIntents == {"Run", "Pause", "Cancel"}

IsLatched(i) == i = "Cancel"

IsCorrectness(s) == s \in {"Fetching", "Assessing", "Repairing"}

IsProduction(s) == s \in {"Extracting", "Finalizing"}

IsSettled(o) == o # "Pending"

(* An edge names the door that takes it: exactly one needs Cross. *)
legalEdges ==
    { [from |-> "Fetching",   to |-> "Assessing",  door |-> "transition"],
      [from |-> "Assessing",  to |-> "Fetching",   door |-> "transition"],
      [from |-> "Assessing",  to |-> "Repairing",  door |-> "transition"],
      [from |-> "Assessing",  to |-> "Extracting", door |-> "cross"],
      [from |-> "Repairing",  to |-> "Assessing",  door |-> "transition"],
      [from |-> "Extracting", to |-> "Finalizing", door |-> "transition"] }

edgeFrom(from, to, door) == [from |-> from, to |-> to, door |-> door] \in legalEdges

CanTransition(from, to) == \E door \in {"transition", "cross"} : edgeFrom(from, to, door)

admissibleAt ==
    [Pending       |-> {},
     OK            |-> {"Finalizing"},
     Failed        |-> AllStates,
     Unrecoverable |-> {"Fetching", "Assessing", "Repairing"},
     Cancelled     |-> AllStates]

admits(o, s) == s \in admissibleAt[o]

-----------------------------------------------------------------------------
(* The job.  NoLease is the nil pointer; a lease is the id its pool gave.  *)

LeaseUnset == 0

NewJob == [state |-> Unset, next |-> Unset, outcome |-> "Pending",
           assessed |-> FALSE, intent |-> "Run", lease |-> LeaseUnset]

HasRun(j)     == j.state # Unset
IsOpen(j)     == HasRun(j) /\ ~IsSettled(j.outcome)
Crossed(j)    == IsProduction(j.state)
HoldsLease(j) == j.lease # LeaseUnset

(* A second attempt is refused once an attempt has crossed the boundary;   *)
(* with an attempt open the call does nothing.                             *)
BeginAttemptOK(j) == IsOpen(j) \/ ~(HasRun(j) /\ Crossed(j))

BeginAttempt(j) ==
    IF IsOpen(j) THEN j
    ELSE [j EXCEPT !.state = "Fetching", !.next = Unset,
                   !.outcome = "Pending", !.assessed = FALSE]

(* A recorded destination may be recorded again but never replaced. *)
SetNextOK(j, n) ==
    /\ IsOpen(j)
    /\ CanTransition(j.state, n)
    /\ j.next \in {Unset, n}

SetNext(j, n) == [j EXCEPT !.next = n]

TransitionOK(j, to) ==
    /\ IsOpen(j)
    /\ j.next \in {Unset, to}
    /\ edgeFrom(j.state, to, "transition")

Transition(j, to) ==
    [j EXCEPT !.state = to, !.next = Unset,
              !.assessed = (j.assessed \/ to = "Assessing")]

CrossOK(j, to) ==
    /\ IsOpen(j)
    /\ j.next = to
    /\ edgeFrom(j.state, to, "cross")

(* Crossing hands the lease back: the caller reclaims the old j.lease. *)
Cross(j, to) == [j EXCEPT !.state = to, !.next = Unset, !.lease = LeaseUnset]

FinishOK(j, o) ==
    /\ IsOpen(j)
    /\ IsSettled(o)
    /\ admits(o, j.state)

(* So does finishing. *)
Finish(j, o) == [j EXCEPT !.outcome = o, !.next = Unset, !.lease = LeaseUnset]

SetIntentOK(j, i) == i \in AllIntents /\ (IsLatched(j.intent) => i = j.intent)

SetIntent(j, i) == [j EXCEPT !.intent = i]

GrantOK(j, l) ==
    /\ l # LeaseUnset
    /\ IsOpen(j)
    /\ ~Crossed(j)
    /\ ~HoldsLease(j)

Grant(j, l) == [j EXCEPT !.lease = l]

Surrender(j) == [j EXCEPT !.lease = LeaseUnset]

JobType(Leases) ==
    [state    : AllStates \cup {Unset},
     next     : AllStates \cup {Unset},
     outcome  : AllOutcomes,
     assessed : BOOLEAN,
     intent   : AllIntents,
     lease    : Leases \cup {LeaseUnset}]

(* What the doors keep true of a job's record: nothing is recorded before  *)
(* the first attempt, a destination is an edge away from an open job's     *)
(* position, an outcome is admitted where the job ended, and only Fetching *)
(* can be reached without having been assessed.                            *)
Sound(j) ==
    /\ j.state = Unset => j.next = Unset /\ j.outcome = "Pending" /\ ~j.assessed
    /\ j.next # Unset => IsOpen(j) /\ CanTransition(j.state, j.next)
    /\ IsSettled(j.outcome) => admits(j.outcome, j.state)
    /\ j.state \in AllStates \ {"Fetching"} => j.assessed
=============================================================================
