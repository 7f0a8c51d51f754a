---------------------------- MODULE MCSimulation ----------------------------
(***************************************************************************)
(* The constants of Simulation for TLC: a window of two bars; instrument 1 *)
(* with four bars of which any may be late, or with six in time that allow *)
(* a round trip and a second entry; instrument 2 with one fixed history;   *)
(* and supplies that are out of order, repeat a bar or leave the metadata. *)
(***************************************************************************)
EXTENDS Simulation

MCMetadata ==
    [instruments |-> {1, 2}, interval |-> "minute", source |-> "iex", start |-> 1, end |-> 6,
     validated |-> TRUE]

BarOf(i, observation, availability, reading) ==
    [instrument |-> i, interval |-> "minute", source |-> "iex", observation |-> observation,
     availability |-> availability, reading |-> reading]

\* Bars observed at 1, 2, ..., of which the first is always too early for a window.
History(i, late, reads) ==
    [k \in 1 .. Len(late) |-> BarOf(i, k, k + late[k], IF k = 1 THEN "mid" ELSE reads[k])]

MCFirst ==
    {History(1, late, reads) :
        late \in [1 .. 4 -> {0, 2}], reads \in [1 .. 4 -> {"low", "high"}]}
    \cup {History(1, [k \in 1 .. 6 |-> 0], reads) : reads \in [1 .. 6 -> {"low", "high"}]}

MCSecond == History(2, <<0, 0, 1, 0>>, <<"mid", "none", "low", "mid">>)

\* One bar of each instrument in turn.
Interleaved(g, h) ==
    [k \in 1 .. 2 * Len(h) |-> IF k % 2 = 1 THEN g[(k + 1) \div 2] ELSE h[k \div 2]]
    \o SubSeq(g, Len(h) + 1, Len(g))

\* A supply with a late bar after its time, one with a repeated bar, and bars that are
\* not of the dataset.
Early == BarOf(1, 1, 1, "mid")
MCMalformed ==
    {<<>>, <<Early, BarOf(1, 3, 3, "low"), BarOf(1, 2, 4, "mid")>>,
     <<Early, BarOf(1, 1, 1, "low")>>}
    \cup {<<Early, bar>> : bar \in
              {[BarOf(1, 2, 2, "low") EXCEPT !.interval = "hour"],
               [BarOf(1, 2, 2, "low") EXCEPT !.source = "sip"],
               BarOf(3, 2, 2, "low"), BarOf(1, 7, 7, "low")}}

MCSupplies == {Interleaved(h, MCSecond) : h \in MCFirst} \cup MCMalformed

Chance(t, n) == [id |-> 1, kind |-> "opportunity", time |-> t, instrument |-> n, type |-> "none"]

MCOpportunities == {Chance(2, 1), Chance(3, 1), Chance(5, 1), Chance(5, 2)}

Quote(n, a, o, r) == [instrument |-> n, availability |-> a, observation |-> o, ref |-> r]

\* For instrument 1 one that is good at first and stale in the end, one that is crossed
\* (reference 2), and one that is late; for instrument 2 none, so that it stays pending.
MCQuotes == {Quote(1, 1, 1, 1), Quote(1, 3, 2, 2), Quote(1, 5, 3, 1)}

=============================================================================
