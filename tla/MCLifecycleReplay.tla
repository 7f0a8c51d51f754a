-------------------------- MODULE MCLifecycleReplay --------------------------
(***************************************************************************)
(* The constants of TradeReconstruction for TLC: times 1 to 6, one         *)
(* instrument that can enter, leave and enter again, and some events of a  *)
(* second.                                                                 *)
(***************************************************************************)
EXTENDS TradeReconstruction

Event(i, k, t, n, y) == [id |-> i, kind |-> k, time |-> t, instrument |-> n, type |-> y]

\* A first entry, with a second of the same instant and an exit against both, an
\* exit, an entry again, and opportunities at, between and after them.
MCUniverse ==
    {Event(1, "signal", 1, 1, "entry"), Event(2, "signal", 1, 1, "exit"),
     Event(3, "signal", 1, 1, "entry"), Event(1, "signal", 3, 1, "exit"),
     Event(1, "signal", 5, 1, "entry")}
    \cup {Event(4, "opportunity", t, 1, "none") : t \in {1, 2, 3, 4, 6}}
    \cup {Event(5, "opportunity", 4, 1, "none")}
    \cup {Event(6, "signal", 2, 2, "entry"), Event(7, "opportunity", 3, 2, "none"),
          Event(8, "feature", 2, 2, "none")}

Quote(n, a, o, r) == [instrument |-> n, availability |-> a, observation |-> o, ref |-> r]

\* Quotes that fill early and late, one that is crossed (reference 2) and one that is
\* older than the crossed one but known after it; the first is stale from 5 on.
MCQuotes ==
    {Quote(1, 1, 1, 1), Quote(1, 2, 2, 2), Quote(1, 3, 1, 1), Quote(1, 5, 4, 1), Quote(2, 3, 3, 1)}

=============================================================================
