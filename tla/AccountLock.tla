---------------------------- MODULE AccountLock ----------------------------
(***************************************************************************)
(* What the ownership of a paper account promises: one process owns the    *)
(* account at a time, and only the owner settles, once and for all, which  *)
(* journal the account has. A settlement may fail for good, after which    *)
(* nobody owns the account again.                                          *)
(***************************************************************************)
CONSTANTS Procs, Paths, Empty, Torn, None

VARIABLES
    holder,   \* the process that owns the account, or None
    binding   \* the journal of the account, Empty before and Torn if spoilt

vars == <<holder, binding>>

Init == holder = None /\ binding = Empty

Take(p) ==
    /\ holder = None /\ binding # Torn
    /\ holder' = p
    /\ UNCHANGED binding

Settle(outcome) ==
    /\ holder # None /\ binding = Empty
    /\ binding' = outcome
    /\ UNCHANGED holder

Leave ==
    /\ holder # None
    /\ holder' = None
    /\ UNCHANGED binding

Next ==
    \/ \E p \in Procs : Take(p)
    \/ \E outcome \in Paths \cup {Torn} : Settle(outcome)
    \/ Leave

Spec == Init /\ [][Next]_vars

=============================================================================
