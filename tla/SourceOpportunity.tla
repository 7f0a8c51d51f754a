--------------------------- MODULE SourceOpportunity ---------------------------
(***************************************************************************)
(* Source opportunities (src/src/shadow/execution/opportunity.py) and the  *)
(* identities derived from them (src/src/shadow/risk/models.py and         *)
(* src/src/shadow/adapters/alpaca/paper_identity.py).                      *)
(*                                                                         *)
(* A candidate is a SourceOpportunityBinding:                              *)
(*   key     [account, scope, lineage, instrument, bar, strategy, feature] *)
(*   feature [instrument, lineage, bar, received, feature, value]          *)
(*   signal  [instrument, strategy, config, type, feature, bar, received,  *)
(*            value, lineage]                                              *)
(*   intent  [scope, signal, instrument, side, quantity]                   *)
(* where `feature` in a key stands for name, input, version and window of  *)
(* a feature, `strategy` for identifier and version of a strategy, `bar`   *)
(* for the observation time of the completed bar and `received` for the    *)
(* time it became available.                                               *)
(***************************************************************************)
EXTENDS JournalCodec

CONSTANTS
    MinExponent,     \* bound: the least exponent of a Decimal
    ClientId(_)      \* the client order identifier of an identity: a digest cut short

\* OrderIntent.from_signal.
IntentFrom(scope, signal, quantity) ==
    [scope |-> scope, signal |-> signal, instrument |-> signal.instrument,
     side |-> IF signal.type = "entry" THEN "buy" ELSE "sell", quantity |-> quantity]

\* _signal_business_parts: what the strategy decided and on which bar, without the
\* value it saw.
BusinessParts(s) ==
    <<s.instrument, s.strategy, s.config, s.type, s.feature, s.bar, s.received, s.lineage>>

\* Equality of Signals.
SameSignal(s, t) ==
    BusinessParts(s) = BusinessParts(t) /\ SameNumber(s.value, t.value, MinExponent)

\* OrderIntent.intent_identity.
IntentIdentity(intent) == <<intent.scope, BusinessParts(intent.signal)>>

\* What SourceOpportunityBinding demands of its parts.
BindingHolds(c) ==
    /\ SameSignal(c.intent.signal, c.signal)
    /\ c.key.instrument = c.feature.instrument /\ c.key.instrument = c.signal.instrument
    /\ c.key.instrument = c.intent.instrument
    /\ c.key.lineage = c.feature.lineage /\ c.key.lineage = c.signal.lineage
    /\ c.key.scope = c.intent.scope
    /\ c.key.bar = c.feature.bar /\ c.key.bar = c.signal.bar
    /\ c.feature.received = c.signal.received
    /\ c.key.feature = c.feature.feature /\ c.key.feature = c.signal.feature
    /\ SameNumber(c.feature.value, c.signal.value, MinExponent)
    /\ c.key.strategy = c.signal.strategy

\* SourceOpportunityBinding.evidence_digest: feature, signal and intent, each Decimal
\* in its canonical form.
EvidenceDigest(c) ==
    LET Signal(s) == [s EXCEPT !.value = DecimalText(@)] IN
    <<[c.feature EXCEPT !.value = DecimalText(@)], Signal(c.signal),
      [c.intent EXCEPT !.signal = Signal(@)]>>

\* derive_paper_client_order_identity, of a binding's account, scope and intent.
IdentityOf(c) ==
    [account |-> c.key.account, scope |-> c.key.scope, intent |-> IntentIdentity(c.intent)]

=============================================================================
