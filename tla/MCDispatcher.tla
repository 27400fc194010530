---------------------------- MODULE MCDispatcher ----------------------------
EXTENDS Dispatcher, TLC

CONSTANTS r1, r2

(* Each job object has a name of its own. *)
MCIdOf == [o \in Job |-> o]

S(js, e, c) == [jobs |-> js, events |-> e, crashes |-> c]

(* One call or fault in the life of a job, or one death of the process. *)
MCScenario == {S(Job, 1, 0), S(Job, 0, 1)}

MCCall == {S(Job, 1, 0)}

Sym == Permutations(Remover)
=============================================================================
