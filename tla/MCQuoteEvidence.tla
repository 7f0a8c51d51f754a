--------------------------- MODULE MCQuoteEvidence ---------------------------
(***************************************************************************)
(* The constants of QuoteEvidence for TLC: times 0 to 3, two instruments,  *)
(* an uncrossed and a crossed reference.                                   *)
(***************************************************************************)
EXTENDS QuoteEvidence

MCQuotes ==
    {q \in [instrument : {1}, availability : 1 .. 3, observation : 0 .. 3, ref : {1, 2}] :
        q.observation <= q.availability}
    \cup {[instrument |-> 2, availability |-> 1, observation |-> 1, ref |-> 1]}

AttemptAt(i, m, b, t, o) ==
    [id |-> i, instrument |-> 1, model |-> m, boundary |-> b, time |-> t, opportunity |-> o]

\* Attempts at 2 and 3, and the inconsistent ones: boundary and time both 2, an
\* opportunity of another instrument, one at another time, another model.
MCAttempts ==
    {AttemptAt(i, Model, b, t, [instrument |-> 1, time |-> t]) :
        i \in {1, 2}, b \in {1, 2}, t \in {2, 3}}
    \cup {AttemptAt(1, Model, 1, 2, o) :
              o \in {[instrument |-> 2, time |-> 2], [instrument |-> 1, time |-> 3]}}
    \cup {AttemptAt(2, "other", 1, 3, [instrument |-> 1, time |-> 3])}

=============================================================================
