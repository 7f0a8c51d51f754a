------------------------- MODULE MCExecutionJournal -------------------------
(***************************************************************************)
(* The constants of ExecutionJournal for TLC.                              *)
(***************************************************************************)
EXTENDS ExecutionJournal, TLC

CONSTANTS p, q, d, e, one, two, live, trial

JournalSymmetry ==
    Permutations({p, q}) \cup Permutations({d, e}) \cup Permutations({one, two})
        \cup Permutations({live, trial})

=============================================================================
