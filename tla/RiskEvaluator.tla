--------------------------- MODULE RiskEvaluator ---------------------------
(***************************************************************************)
(* evaluate_risk (src/src/shadow/risk/evaluator.py), the pure paper-risk   *)
(* evaluation behind every admission.                                      *)
(*                                                                         *)
(* Times are integers and ages differences of times. The identity of a     *)
(* feature (name, input, version, window, dataset, source value) is one    *)
(* field, "lineage". Positions and orders of a RiskState are sets of rows; *)
(* "repeated" says that the supplied tuple lists one of its rows twice,    *)
(* which only the uniqueness tests of the code can notice. Fingerprints    *)
(* and references are left out.                                            *)
(***************************************************************************)
EXTENDS Integers, FiniteSets

\* The rejection r when condition holds: "if condition: reasons.add(r)".
Reject(condition, r) == IF condition THEN {r} ELSE {}

\* Evidence dated after now is from the future: "x > now or y > now".
Future(evidence, now) == evidence.observed > now \/ evidence.available > now

\* Evidence is stale once it is older than the policy allows; evidence from
\* the future is reported as such and not as stale (the code's elif).
Stale(evidence, now, age) == ~Future(evidence, now) /\ now - evidence.observed > age

\* The side a signal calls for.
SideOf(signal) == IF signal.type = "long_entry" THEN "buy" ELSE "sell"

\* The rule the signal claims to have fired: its reason and its threshold.
RuleMatches(signal) ==
    IF signal.type = "long_entry"
    THEN signal.reason = "entry_threshold" /\ signal.value <= signal.entryThreshold
    ELSE signal.reason = "exit_threshold"  /\ signal.value >= signal.exitThreshold

\* The feature handed to risk is the one the signal was computed from.
LineageMatches(intent, feature) ==
    LET signal == intent.signal IN
    /\ RuleMatches(signal)
    /\ signal.decided - signal.featureObserved <= signal.maximumFeatureAge
    /\ feature.instrument = signal.instrument
    /\ feature.lineage    = signal.lineage
    /\ feature.observed   = signal.featureObserved
    /\ feature.available  = signal.featureAvailable
    /\ feature.value      = signal.value
    /\ feature.state      = "ready"

\* No two rows share the value of a field the code requires to be unique.
DistinctBy(rows, field) == \A r, s \in rows : r[field] = s[field] => r = s

PositionsIn(state, instrument) == {p \in state.positions : p.instrument = instrument}
OrdersIn(state, instrument) == {o \in state.orders : o.instrument = instrument}

\* Mutant: a SELL outstanding with no position left passes as just filled.
InconsistentOrderUnlessFilled(state, order) ==
    IF order.side = "buy"
    THEN PositionsIn(state, order.instrument) # {}
    ELSE \E p \in PositionsIn(state, order.instrument) : p.quantity # order.quantity

\* A BUY outstanding where a position is open, or a SELL outstanding that is
\* not for exactly the open position.
InconsistentOrder(state, order) ==
    IF order.side = "buy"
    THEN PositionsIn(state, order.instrument) # {}
    ELSE ~\E p \in PositionsIn(state, order.instrument) : p.quantity = order.quantity

InconsistentState(state) ==
    \/ state.repeated
    \/ ~DistinctBy(state.positions, "instrument")
    \/ ~DistinctBy(state.positions, "id")
    \/ ~DistinctBy(state.orders, "instrument")
    \/ ~DistinctBy(state.orders, "intent")
    \/ ~DistinctBy(state.orders, "reference")
    \/ \E o \in state.orders : InconsistentOrder(state, o)

EntryReservations(state) == {o \in state.orders : o.side = "buy"}

PolicyReasons(intent, policy, state) ==
    Reject(~policy.enabled, "policy_disabled")
    \cup Reject(~state.controls.tradingEnabled, "trading_disabled")
    \cup Reject(state.controls.killSwitch, "kill_switch_active")
    \cup Reject(intent.instrument \notin policy.allowed, "unsupported_instrument")
    \cup Reject(intent.quantity <= 0, "invalid_quantity")
    \cup Reject(intent.quantity > policy.maximumQuantity, "max_quantity_exceeded")

SignalReasons(intent, policy, state, feature, now) ==
    LET signal == intent.signal
        dates  == [observed |-> signal.decided, available |-> signal.available] IN
    Reject(\/ intent.instrument # signal.instrument
           \/ intent.side # SideOf(signal)
           \/ intent.time # signal.decided
           \/ intent.scope # state.scope, "intent_signal_mismatch")
    \cup Reject(~LineageMatches(intent, feature), "lineage_mismatch")
    \cup Reject(Future(dates, now), "future_signal")
    \cup Reject(Stale(dates, now, policy.signalAge), "stale_signal")
    \cup Reject(Future(feature, now), "future_feature")
    \cup Reject(Stale(feature, now, policy.featureAge), "stale_feature")

QuoteReasons(intent, policy, quote, now) ==
    Reject(quote.instrument # intent.instrument, "quote_instrument_mismatch")
    \cup Reject(Future(quote, now), "future_quote")
    \cup Reject(Stale(quote, now, policy.quoteAge), "stale_quote")
    \cup Reject(quote.bid > quote.ask, "crossed_quote")
    \cup Reject(quote.bid <= 0 \/ quote.ask <= 0, "nonpositive_quote")

\* Mutant: the age of the operator controls is not looked at.
StateReasonsAnyControls(policy, state, now) ==
    Reject(~state.complete, "incomplete_inventory")
    \cup Reject(Future(state, now), "future_operational_state")
    \cup Reject(Stale(state, now, policy.stateAge), "stale_operational_state")
    \cup Reject(Future(state.controls, now), "future_controls")
    \cup Reject(InconsistentState(state), "inconsistent_operational_state")

StateReasons(policy, state, now) ==
    Reject(~state.complete, "incomplete_inventory")
    \cup Reject(Future(state, now), "future_operational_state")
    \cup Reject(Stale(state, now, policy.stateAge), "stale_operational_state")
    \cup Reject(Future(state.controls, now), "future_controls")
    \cup Reject(Stale(state.controls, now, policy.stateAge), "stale_controls")
    \cup Reject(InconsistentState(state), "inconsistent_operational_state")

\* Reasons on orders, positions and what the gate has reserved.
InventoryReasons(intent, policy, state) ==
    LET held == PositionsIn(state, intent.instrument) IN
    Reject(OrdersIn(state, intent.instrument) # {}, "outstanding_order_exists")
    \cup IF intent.side = "buy"
         THEN Reject(held # {}, "position_already_open")
              \cup Reject(Cardinality(state.positions)
                            + Cardinality(EntryReservations(state))
                              >= policy.maximumPositions, "max_concurrent_positions")
         ELSE Reject(held = {}, "position_not_open")
              \cup Reject(Cardinality(held) = 1
                            /\ \E p \in held : intent.quantity < p.quantity, "partial_exit")
              \cup Reject(Cardinality(held) = 1
                            /\ \E p \in held : intent.quantity > p.quantity, "oversell")

\* The reasons of a decision; it is an authorization when there are none.
EvaluateRisk(intent, policy, state, feature, quote, now) ==
    PolicyReasons(intent, policy, state)
    \cup SignalReasons(intent, policy, state, feature, now)
    \cup QuoteReasons(intent, policy, quote, now)
    \cup StateReasons(policy, state, now)
    \cup InventoryReasons(intent, policy, state)

=============================================================================
