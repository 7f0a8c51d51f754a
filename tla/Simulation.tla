----------------------------- MODULE Simulation -----------------------------
(***************************************************************************)
(* run_simulation (src/src/shadow/simulation/runner.py) with the           *)
(* validation of its bars, the feature kernel's windows and the            *)
(* mean-reversion rule: one decision for each instrument and each instant  *)
(* at which a feature becomes available, each on the lifecycle state       *)
(* replayed from what came strictly before, and a final replay of          *)
(* everything.                                                             *)
(*                                                                         *)
(* The reading of a bar is where the z-score of the full window that ends  *)
(* at the bar lies, "low" at or below the entry threshold, "high" at or    *)
(* above the exit threshold, "mid" between, or "none" where the window has *)
(* no variance.                                                            *)
(***************************************************************************)
EXTENDS Lifecycle, MarketData, FiniteSetsExt

CONSTANTS
    Instruments,          \* instruments, each with a strategy configuration
    Window,               \* MeanReversionConfig.rolling_window
    MaxFeatureAge,        \* MeanReversionConfig.maximum_feature_age
    Supplies,             \* the sequences of bars a caller may supply
    OpportunityUniverse,  \* the execution opportunities that may be supplied
    QuoteUniverse         \* the quotes that may be supplied

ASSUME WindowAssumption == Window \in Nat \ {0}

\* MeanReversionConfig: a non-negative duration.
ASSUME AgeAssumption == MaxFeatureAge \in Nat

\* SimulationInput: every configured instrument is in the scope of the dataset.
ASSUME ScopeAssumption == Instruments \subseteq Metadata.instruments

\* One strategy configuration for each of finitely many instruments, by their ranks.
ASSUME InstrumentsAssumption == IsFiniteSet(Instruments) /\ Instruments \subseteq Int

ASSUME SuppliesAssumption ==
    \A supply \in Supplies :
        /\ supply \in Seq(Range(supply))
        /\ \A bar \in Range(supply) :
              BarHolds(bar) /\ bar.observation \in Int /\ bar.availability \in Int

\* ExecutionOpportunity as an event. Events of a timeline have different references, by
\* which those of one instant and instrument are ordered.
ASSUME OpportunitiesAssumption ==
    /\ IsFiniteSet(OpportunityUniverse)
    /\ \A o \in OpportunityUniverse :
          o.kind = "opportunity" /\ o.id \in Int /\ o.time \in Int /\ o.instrument \in Int
    /\ \A o, p \in OpportunityUniverse : o # p => Before(o, p) \/ Before(p, o)

ASSUME QuotesAssumption == \A q \in QuoteUniverse : q.availability \in Int

VARIABLES
    supplied,        \* the bars as the caller supplied them
    stage,           \* what has become of them: "supplied", "accepted" or "refused"
    bars,            \* the bars of each instrument, once accepted
    opportunities,   \* the execution opportunities
    quotes,          \* the quotes
    undecided,       \* the decision snapshots still to come, in order
    run,             \* the signals and evaluations so far
    final            \* whether the final replay was made, and its states

input == <<supplied, stage, bars, opportunities, quotes>>
vars == <<input, undecided, run, final>>

-----------------------------------------------------------------------------
\* The features of an instrument without a configuration are not used.
AddBar(histories, bar) ==
    IF bar.instrument \in Instruments
    THEN [histories EXCEPT ![bar.instrument] = Append(@, bar)]
    ELSE histories

NoHistories == [i \in Instruments |-> <<>>]

\* _feature_windows: the bars of each instrument in the order supplied.
HistoriesOf(supply) == FoldLeft(AddBar, NoHistories, supply)

\* The bars that the feature at the k-th bar of a history needs.
WindowOf(history, k) == {history[j] : j \in Max({1, k - Window + 1}) .. k}

\* calculate_z_scores: a feature is available once all of its window is.
FeatureAt(instrument, history, k) ==
    [instrument |-> instrument,
     observation |-> history[k].observation,
     availability |-> Max({b.availability : b \in WindowOf(history, k)}),
     reading |-> IF k < Window THEN "warming" ELSE history[k].reading]

\* _configured_features.
Features(history) ==
    UNION {{FeatureAt(i, history[i], k) : k \in DOMAIN history[i]} : i \in Instruments}

\* Mutant: every feature is decided upon, also those of one instant.
DecisionSnapshotsAll(history) == Features(history)

\* _decision_snapshots: of the features of one instant the one observed last.
DecisionSnapshots(history) ==
    LET features == Features(history) IN
    {f \in features :
        \A g \in features :
            g.instrument = f.instrument /\ g.availability = f.availability
            => g.observation <= f.observation}

\* _feature_sort_key.
Earlier(f, g) ==
    \/ f.availability < g.availability
    \/ /\ f.availability = g.availability
       /\ \/ f.instrument < g.instrument
          \/ f.instrument = g.instrument /\ f.observation < g.observation

\* The decisions in their order.
DecisionOrder(history) == Sorted(DecisionSnapshots(history), Earlier)

\* Mutant: what happens at the instant of the decision counts already.
StateBeforeInclusive(signals, chances, evidence, f) ==
    ProcessLifecycle(Instruments, {e \in signals \cup chances : e.time <= f.availability},
                     evidence)[f.instrument].state

\* _state_before_decision.
StateBefore(signals, chances, evidence, f) ==
    ProcessLifecycle(Instruments, {e \in signals \cup chances : e.time < f.availability},
                     evidence)[f.instrument].state

\* Mutant: old features are acted on as well.
ProposalAtAnyAge(f, state) ==
    CASE state = "flat" /\ f.reading = "low" -> "entry"
      [] state = "holding" /\ f.reading = "high" -> "exit"
      [] OTHER -> "none"

\* evaluate_mean_reversion, by way of _position_state: entries from flat, exits from
\* holding, nothing while an action is pending or on an old or unready feature.
Proposal(f, state) ==
    IF f.availability - f.observation > MaxFeatureAge THEN "none"
    ELSE CASE state = "flat" /\ f.reading = "low" -> "entry"
           [] state = "holding" /\ f.reading = "high" -> "exit"
           [] OTHER -> "none"

\* StrategyEvaluationDisposition.
Disposition(f, state, type) ==
    IF f.reading \in {"warming", "none"} THEN "feature_not_actionable"
    ELSE IF state \in {"pending_entry", "pending_exit"} THEN "pending_lifecycle"
    ELSE IF type = "none" THEN "no_signal" ELSE "signal_proposed"

\* signal_available_event.
SignalEvent(f, type) ==
    [id |-> f.observation, kind |-> "signal", time |-> f.availability,
     instrument |-> f.instrument, type |-> type]

\* feature_available_event.
FeatureEvent(f) ==
    [id |-> f.observation, kind |-> "feature", time |-> f.availability,
     instrument |-> f.instrument, type |-> "none"]

\* One turn of the decision loop of run_simulation.
Decide(sofar, f, chances, evidence) ==
    LET state == StateBefore(sofar.signals, chances, evidence, f)
        type == Proposal(f, state)
    IN  [signals |-> sofar.signals
                         \cup IF type = "none" THEN {} ELSE {SignalEvent(f, type)},
         evaluations |-> Append(sofar.evaluations,
                             [feature |-> f, state |-> state,
                              disposition |-> Disposition(f, state, type)])]

NothingDecided == [signals |-> {}, evaluations |-> <<>>]

\* A loop that has decided once more, and keeps what it was given beside the decisions.
DecidedNext(loop, f) ==
    [loop EXCEPT !.run = Decide(@, f, loop.opportunities, loop.quotes)]

\* The decision loop on a whole input.
Decisions(history, chances, evidence) ==
    FoldLeft(DecidedNext,
             [run |-> NothingDecided, opportunities |-> chances, quotes |-> evidence],
             DecisionOrder(history)).run

\* The events of the final replay; market observations move nothing.
AllEvents == {FeatureEvent(f) : f \in Features(bars)} \cup run.signals \cup opportunities

-----------------------------------------------------------------------------
Init ==
    /\ supplied \in Supplies /\ stage = "supplied"
    /\ bars = NoHistories
    /\ opportunities \in SUBSET OpportunityUniverse
    /\ quotes \in SUBSET QuoteUniverse
    /\ undecided = <<>>
    /\ run = NothingDecided
    /\ final = [made |-> FALSE, states |-> [i \in Instruments |-> FlatState]]

\* run_simulation starts: bars that are not valid are refused and never sorted.
Start ==
    /\ stage = "supplied"
    /\ IF Metadata.validated /\ ValidBars(supplied)
       THEN /\ stage' = "accepted" /\ bars' = HistoriesOf(supplied)
            /\ undecided' = DecisionOrder(HistoriesOf(supplied))
       ELSE stage' = "refused" /\ UNCHANGED <<bars, undecided>>
    /\ UNCHANGED <<supplied, opportunities, quotes, run, final>>

\* The loop decides on the next snapshot.
Evaluate ==
    /\ undecided # <<>>
    /\ run' = Decide(run, Head(undecided), opportunities, quotes)
    /\ undecided' = Tail(undecided)
    /\ UNCHANGED <<input, final>>

\* The final timeline and lifecycle.
Finish ==
    /\ stage = "accepted" /\ undecided = <<>> /\ ~final.made
    /\ final' = [made |-> TRUE, states |-> ProcessLifecycle(Instruments, AllEvents, quotes)]
    /\ UNCHANGED <<input, undecided, run>>

Next == Start \/ Evaluate \/ Finish

Spec == Init /\ [][Next]_vars

-----------------------------------------------------------------------------
\* The state a decision was made on is the state the final replay has before that
\* instant: the many replays of prefixes and the one of the whole never disagree.
DecisionsSeeTheReplay ==
    final.made =>
        \A k \in DOMAIN run.evaluations :
            LET f == run.evaluations[k].feature IN
            run.evaluations[k].state =
                ProcessLifecycle(Instruments, {e \in AllEvents : e.time < f.availability},
                                 quotes)[f.instrument].state

\* Every proposed signal becomes the pending action of its instrument in the final
\* replay: none is refused there as a conflict, as redundant or for its state, and so
\* no decision is made on a position the simulation does not have.
EverySignalActs ==
    final.made =>
        \A s \in run.signals :
            LET upto == {e \in AllEvents : \/ e.time < s.time
                                           \/ e.time = s.time /\ e.kind # "opportunity"}
            IN  ProcessLifecycle(Instruments, upto, quotes)[s.instrument].pending = s

\* A signal rests on a full window of the last bars observed until then, all of them
\* available and the last one fresh, in whatever order bars were supplied; and from one
\* signal of an instrument to the next, entries and exits take turns.
SignalsAreFreshAndAlternate ==
    LET Observed(s) == {supplied[k].observation : k \in
                           {n \in DOMAIN supplied : /\ supplied[n].instrument = s.instrument
                                                    /\ supplied[n].observation <= s.id}}
        Missed(s) == {k \in DOMAIN supplied :
                        /\ supplied[k].instrument = s.instrument
                        /\ supplied[k].availability > s.time
                        /\ supplied[k].observation \in
                              {o \in Observed(s) :
                                  Cardinality({p \in Observed(s) : p > o}) < Window}}
    IN  \A s, t \in run.signals :
            /\ s.time - s.id <= MaxFeatureAge
            /\ Cardinality(Observed(s)) >= Window /\ Missed(s) = {}
            /\ s.instrument = t.instrument /\ s.time < t.time /\ s.type = t.type
               => \E u \in run.signals : /\ u.instrument = s.instrument /\ u.type # s.type
                                         /\ s.time < u.time /\ u.time < t.time

\* The history of an instrument until its last bar that was available by some time.
KnownBy(history, t) ==
    SubSeq(history, 1, Max({0} \cup {k \in DOMAIN history : history[k].availability <= t}))

\* What was decided by some time, each decision with its place.
DecidedBy(decisions, t) ==
    {<<k, decisions.evaluations[k]>> : k \in
        {n \in DOMAIN decisions.evaluations :
            decisions.evaluations[n].feature.availability <= t}}

\* What comes later rewrites nothing: with histories, opportunities and quotes that end
\* at some time, the decisions up to it are the same.
FutureRewritesNothing ==
    final.made =>
        \A t \in {f.availability : f \in Features(bars)} :
            DecidedBy(Decisions([i \in Instruments |-> KnownBy(bars[i], t)],
                                {o \in opportunities : o.time <= t},
                                {q \in quotes : q.availability <= t}), t)
                = DecidedBy(run, t)

=============================================================================
