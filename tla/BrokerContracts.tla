---------------------------- MODULE BrokerContracts ----------------------------
(***************************************************************************)
(* Which answers to a submission the constructors of                       *)
(* src/src/shadow/execution/broker.py accept, whatever a broker sends.     *)
(*                                                                         *)
(*   evidence [account, scope, observed, available]                        *)
(*   request  [account, scope, client, instrument, side, quantity]         *)
(*   order    [evidence, client, instrument, side, quantity, filled,       *)
(*             status, market]                                             *)
(*   error    [evidence, category]                                         *)
(*   result   [evidence, request, status, order, error]                    *)
(* where `market` says that an order is a regular-hours market order for   *)
(* the day, the only kind a request can ask for.                           *)
(***************************************************************************)
EXTENDS Integers

CONSTANTS
    NoOrder,    \* no order in a result
    NoError     \* no diagnostic in a result

\* Evidence: it is not available before it was observed.
EvidenceHolds(e) == e.available >= e.observed

\* _binding: the child is of the account and scope of its parent, and not newer.
Bound(parent, child) ==
    /\ parent.account = child.account /\ parent.scope = child.scope
    /\ child.available <= parent.available

\* BrokerOrder: what its status says of the fills it reports.
OrderHolds(o) ==
    /\ EvidenceHolds(o.evidence)
    /\ o.quantity > 0 /\ o.filled \in 0 .. o.quantity
    /\ o.status = "filled" => o.filled = o.quantity
    /\ o.status = "partially_filled" => o.filled \in 1 .. o.quantity - 1
    /\ o.status \in {"accepted", "new", "pending_new", "rejected"} => o.filled = 0

\* SubmitRequest: one share.
RequestHolds(r) == r.quantity = 1

\* Mutant: the payload of an accepted order is compared without its client identifier.
ResultHoldsAnyClient(r) ==
    /\ EvidenceHolds(r.evidence)
    /\ r.evidence.account = r.request.account /\ r.evidence.scope = r.request.scope
    /\ IF r.status = "accepted"
       THEN /\ r.order # NoOrder /\ r.error = NoError
            /\ OrderHolds(r.order) /\ Bound(r.evidence, r.order.evidence)
            /\ r.order.instrument = r.request.instrument
            /\ r.order.side = r.request.side /\ r.order.quantity = r.request.quantity
            /\ r.order.market
            /\ r.order.status \notin {"unknown", "rejected"}
       ELSE /\ r.order = NoOrder /\ r.error # NoError
            /\ EvidenceHolds(r.error.evidence) /\ Bound(r.evidence, r.error.evidence)
            /\ (r.error.category = "definitive_rejection") = (r.status = "rejected")

\* SubmissionResult: an acceptance shows the requested order and nothing else, and
\* only a definitive diagnostic is a rejection.
ResultHolds(r) ==
    /\ EvidenceHolds(r.evidence)
    /\ r.evidence.account = r.request.account /\ r.evidence.scope = r.request.scope
    /\ IF r.status = "accepted"
       THEN /\ r.order # NoOrder /\ r.error = NoError
            /\ OrderHolds(r.order) /\ Bound(r.evidence, r.order.evidence)
            /\ r.order.client = r.request.client
            /\ r.order.instrument = r.request.instrument
            /\ r.order.side = r.request.side /\ r.order.quantity = r.request.quantity
            /\ r.order.market
            /\ r.order.status \notin {"unknown", "rejected"}
       ELSE /\ r.order = NoOrder /\ r.error # NoError
            /\ EvidenceHolds(r.error.evidence) /\ Bound(r.evidence, r.error.evidence)
            /\ (r.error.category = "definitive_rejection") = (r.status = "rejected")

=============================================================================
