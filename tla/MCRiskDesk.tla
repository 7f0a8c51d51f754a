----------------------------- MODULE MCRiskDesk -----------------------------
(***************************************************************************)
(* One caller, two instruments, room for one position, an account that is  *)
(* empty or holds A: the constants of RiskDesk for TLC.                    *)
(***************************************************************************)
EXTENDS RiskDesk

CONSTANTS A, B

MCIds == {"buyA", "buyB", "sellA"}
MCPayloads == {"buyA", "buyB", "sellA", "broker"}
MCInstruments == {A, B}
MCTimes == 0 .. MaxClock

FeatureOf(instrument, value) ==
    [instrument |-> instrument, lineage |-> "kernel", observed |-> 0, available |-> 0,
     value |-> value, state |-> "ready"]

SignalOf(feature, type) ==
    [instrument |-> feature.instrument, type |-> type,
     reason |-> IF type = "long_entry" THEN "entry_threshold" ELSE "exit_threshold",
     value |-> feature.value, entryThreshold |-> -1, exitThreshold |-> 1,
     decided |-> 0, available |-> 0, lineage |-> feature.lineage,
     featureObserved |-> 0, featureAvailable |-> 0, maximumFeatureAge |-> 0]

IntentOf(id, signal, quantity) ==
    [id |-> id, payload |-> id, scope |-> Scope, instrument |-> signal.instrument,
     side |-> SideOf(signal), quantity |-> quantity, time |-> signal.decided,
     signal |-> signal]

MCIntents ==
    {IntentOf("buyA", SignalOf(FeatureOf(A, -2), "long_entry"), 1),
     IntentOf("buyB", SignalOf(FeatureOf(B, -2), "long_entry"), 1),
     IntentOf("sellA", SignalOf(FeatureOf(A, 2), "long_exit"), 1)}
MCFeatures == {FeatureOf(A, -2), FeatureOf(A, 2), FeatureOf(B, -2)}
MCQuotes ==
    {[instrument |-> i, observed |-> 0, available |-> 0, bid |-> 9, ask |-> 10] :
        i \in MCInstruments}

\* Evidence other than the operational state stays fresh throughout.
MCPolicy ==
    [enabled |-> TRUE, allowed |-> MCInstruments, maximumQuantity |-> 1,
     maximumPositions |-> 1, signalAge |-> MaxClock, featureAge |-> MaxClock,
     quoteAge |-> MaxClock, stateAge |-> 1]

MCHoldings == {[i \in MCInstruments |-> 0], [i \in MCInstruments |-> IF i = A THEN 1 ELSE 0]}

=============================================================================
