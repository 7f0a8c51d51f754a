--------------------------- MODULE PositionCycle ---------------------------
(***************************************************************************)
(* What the lifecycle of an instrument promises: flat, entry proposed,     *)
(* holding, exit proposed and flat again, one step at a time and in the    *)
(* order of time, and a proposal executes at an instant that is later than *)
(* the one it was made at.                                                 *)
(***************************************************************************)
EXTENDS Integers

CONSTANTS Instruments, Times

VARIABLES
    phase,    \* where each instrument is in the cycle
    due,      \* when the open proposal of each instrument was made; 0 without one
    reached   \* the instants that have come

cycle == <<phase, due, reached>>

Init ==
    /\ phase = [i \in Instruments |-> "flat"]
    /\ due = [i \in Instruments |-> 0]
    /\ reached = {}

\* It is t: no later instant has come.
Reaches(t) == /\ \A u \in reached : u <= t
              /\ reached' = reached \cup {t}

Propose(i, t) ==
    /\ Reaches(t)
    /\ phase[i] \in {"flat", "holding"}
    /\ phase' = [phase EXCEPT ![i] = IF @ = "flat" THEN "pending_entry" ELSE "pending_exit"]
    /\ due' = [due EXCEPT ![i] = t]

Execute(i, t) ==
    /\ Reaches(t)
    /\ phase[i] \in {"pending_entry", "pending_exit"}
    /\ t > due[i]
    /\ phase' = [phase EXCEPT ![i] = IF @ = "pending_entry" THEN "holding" ELSE "flat"]
    /\ due' = [due EXCEPT ![i] = 0]

Pass(t) == Reaches(t) /\ UNCHANGED <<phase, due>>

Next == \E t \in Times : Pass(t) \/ \E i \in Instruments : Propose(i, t) \/ Execute(i, t)

Spec == Init /\ [][Next]_cycle

=============================================================================
