----------------------------- MODULE MCRiskGate -----------------------------
(***************************************************************************)
(* A small instance of RiskGate: two instruments, entries on both and an   *)
(* exit on one, one entry re-proposed under its identity with another      *)
(* quantity, snapshots that agree and disagree with what the gate holds.   *)
(***************************************************************************)
EXTENDS RiskGate

CONSTANTS A, B

MCIds == {"buyA", "buyB", "sellA"}
MCPayloads == {"buyA.1", "buyA.2", "buyB.1", "sellA.1"}
MCInstruments == {A, B}
MCTimes == {1, 2}

Ready(instrument) ==
    [instrument |-> instrument, lineage |-> "kernel", observed |-> 1, available |-> 1,
     value |-> -2, state |-> "ready"]
High(instrument) == [Ready(instrument) EXCEPT !.value = 2]

SignalOf(feature, type) ==
    [instrument |-> feature.instrument, type |-> type,
     reason |-> IF type = "long_entry" THEN "entry_threshold" ELSE "exit_threshold",
     value |-> feature.value, entryThreshold |-> -1, exitThreshold |-> 1,
     decided |-> 1, available |-> 1, lineage |-> feature.lineage,
     featureObserved |-> feature.observed, featureAvailable |-> feature.available,
     maximumFeatureAge |-> 1]

IntentOf(id, payload, signal, quantity) ==
    [id |-> id, payload |-> payload, scope |-> Scope, instrument |-> signal.instrument,
     side |-> SideOf(signal), quantity |-> quantity, time |-> signal.decided,
     signal |-> signal]

BuyA == IntentOf("buyA", "buyA.1", SignalOf(Ready(A), "long_entry"), 1)
BuyA2 == IntentOf("buyA", "buyA.2", SignalOf(Ready(A), "long_entry"), 2)
BuyB == IntentOf("buyB", "buyB.1", SignalOf(Ready(B), "long_entry"), 1)
SellA == IntentOf("sellA", "sellA.1", SignalOf(High(A), "long_exit"), 1)
MCIntents == {BuyA, BuyA2, BuyB, SellA}

MCFeatures == {Ready(A), High(A), Ready(B)}
QuoteOf(instrument) ==
    [instrument |-> instrument, observed |-> 1, available |-> 1, bid |-> 9, ask |-> 10]
MCQuotes == {QuoteOf(A), QuoteOf(B)}

MCPolicy ==
    [enabled |-> TRUE, allowed |-> MCInstruments, maximumQuantity |-> 2,
     maximumPositions |-> 1, signalAge |-> 1, featureAge |-> 1, quoteAge |-> 1,
     stateAge |-> 1]

Controls == [tradingEnabled |-> TRUE, killSwitch |-> FALSE, observed |-> 1, available |-> 1]
Snapshot(positions, orders) ==
    [scope |-> Scope, complete |-> TRUE, repeated |-> FALSE, positions |-> positions,
     orders |-> orders, observed |-> 1, available |-> 1, controls |-> Controls]
HoldsA == {[instrument |-> A, quantity |-> 1, id |-> "lot"]}

\* An empty account, an account that holds A, the gate's own reservation of buyA
\* reported back, the same order under a reference of the broker, an account
\* observed too long before time 2.
MCStates ==
    {Snapshot({}, {}), Snapshot(HoldsA, {}),
     Snapshot({}, {Reservation(BuyA, 1)}),
     Snapshot({}, {[Reservation(BuyA, 1) EXCEPT !.reference =
                        [intent |-> "buyA", payload |-> "broker", time |-> 1]]}),
     [Snapshot({}, {}) EXCEPT !.observed = 0]}

=============================================================================
