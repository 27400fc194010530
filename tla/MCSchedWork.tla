---------------------------- MODULE MCSchedWork -----------------------------
EXTENDS SchedWork, TLC

(* Each job is its own name. *)
MCIdOf == [o \in Job |-> o]

=============================================================================
