------------------------------ MODULE RiskGate ------------------------------
(***************************************************************************)
(* RiskGate (src/src/shadow/risk/gate.py): decide, reserve, issue and      *)
(* consume admission-time capabilities for paper orders.                   *)
(*                                                                         *)
(* The gate is an open component: admit is called with any intent, any     *)
(* operational snapshot, any feature, any quote and any decision time of   *)
(* the constant sets, by any number of callers. admit and                  *)
(* claim_for_dispatch each run under the gate's lock and are one step.     *)
(*                                                                         *)
(* A SHA-256 digest is an injective function of what it digests. The grant *)
(* id digests the whole decision; here it keeps the intent identity, the   *)
(* payload and the decision time, so that two gates (before and after a    *)
(* restart) can issue authorizations that are equal field by field. The    *)
(* token of an authorization is a Python object compared by identity: here *)
(* its place in the order of creation. Python's == on authorizations       *)
(* ignores the token. Copies of an authorization share its token.          *)
(***************************************************************************)
EXTENDS RiskEvaluator, Sequences

CONSTANTS
    Ids,            \* intent identities
    Payloads,       \* payload fingerprints
    Instruments,    \* instruments
    Intents,        \* the order intents callers may present
    States,         \* the operational snapshots (RiskState) callers may present
    Features,       \* the feature snapshots callers may present
    Quotes,         \* the quotes callers may present
    Times,          \* the decision times callers may present
    Policy,         \* the policy, fixed for the life of a gate
    Scope,          \* the operational scope of the gate
    MaxRestarts,    \* bound: how often the gate is constructed again
    NoRecord,       \* an intent identity with no admission record
    NoOrder         \* an intent identity with no reservation

\* What the dataclasses of risk/models.py enforce on construction.
ASSUME IntentsAssumption ==
    \A i \in Intents : i.id \in Ids /\ i.payload \in Payloads
                       /\ i.instrument \in Instruments /\ i.side \in {"buy", "sell"}
                       /\ i.quantity \in Int

\* The payload fingerprint digests the instrument, the side and the quantity,
\* and everything the identity digests.
ASSUME PayloadAssumption ==
    \A i, j \in Intents : i.payload = j.payload =>
        i.id = j.id /\ i.instrument = j.instrument /\ i.side = j.side
        /\ i.quantity = j.quantity

ASSUME StatesAssumption ==
    \A s \in States : IsFiniteSet(s.positions) /\ IsFiniteSet(s.orders)

ASSUME PolicyAssumption == Policy.maximumPositions \in Nat \ {0}

ASSUME BoundAssumption == MaxRestarts \in Nat

\* The grant id: "shadow.paper-grant.v1" of the decision id.
GrantId(intent, now) == [intent |-> intent.id, payload |-> intent.payload, time |-> now]

GrantIds == [intent : Ids, payload : Payloads, time : Times]

OutstandingOrders ==
    [instrument : Instruments, intent : Ids, side : {"buy", "sell"}, quantity : Int,
     reference : GrantIds]

AdmissionRecords ==
    [intent : Intents, status : {"authorized", "rejected"}, time : Times, token : Nat,
     dispatched : BOOLEAN]

\* None is no row and no record.
ASSUME NoneAssumption == NoOrder \notin OutstandingOrders /\ NoRecord \notin AdmissionRecords

VARIABLES
    history,       \* _history: the admission record of each intent identity
    reservations,  \* _reservations: the order reserved for each intent identity
    issued,        \* the authorizations issued so far; a token is a place here
    handed,        \* what claim_for_dispatch has returned, call after call
    gate           \* which construction of the gate is in charge

gateVars == <<history, reservations, issued, handed, gate>>

-----------------------------------------------------------------------------
\* The OutstandingOrder the gate reserves for an authorized intent.
Reservation(intent, now) ==
    [instrument |-> intent.instrument, intent |-> intent.id, side |-> intent.side,
     quantity |-> intent.quantity, reference |-> GrantId(intent, now)]

Recorded == {id \in Ids : history[id] # NoRecord}
Authorized == {id \in Recorded : history[id].status = "authorized"}

\* The rows the gate holds in reserve.
Reserved == {reservations[id] : id \in {k \in Ids : reservations[k] # NoOrder}}
ReservedBuys == {o \in Reserved : o.side = "buy"}

\* Mutant: the supplied snapshot alone is evaluated.
EffectiveStateSupplied(state) == state

\* The supplied snapshot with the gate's own reservations added. The union keeps
\* one copy of completely equal rows and both of rows that differ in any field.
EffectiveState(state) ==
    [scope |-> state.scope, complete |-> state.complete, repeated |-> state.repeated,
     positions |-> state.positions, orders |-> state.orders \cup Reserved,
     observed |-> state.observed, available |-> state.available,
     controls |-> state.controls]

\* The first decision on an intent identity is recorded, authorized or not. Of the
\* decision the record keeps its status and time. token 0: no authorization.
Record(intent, now, status) ==
    [intent |-> intent, status |-> status, time |-> now,
     token |-> IF status = "authorized" THEN Len(issued) + 1 ELSE 0, dispatched |-> FALSE]

Init ==
    /\ history = [id \in Ids |-> NoRecord]
    /\ reservations = [id \in Ids |-> NoOrder]
    /\ issued = <<>>
    /\ handed = <<>>
    /\ gate = 0

\* Mutant: an identity that was rejected may be decided again.
DecideRejectedAgain(intent, state, feature, quote, now) ==
    LET status == IF EvaluateRisk(intent, Policy, EffectiveState(state),
                                  feature, quote, now) = {}
                  THEN "authorized" ELSE "rejected"
    IN
    /\ intent.id \notin Authorized
    /\ history' = [history EXCEPT ![intent.id] = Record(intent, now, status)]
    /\ IF status = "authorized"
       THEN /\ reservations' = [reservations EXCEPT ![intent.id] = Reservation(intent, now)]
            /\ issued' = Append(issued, [grant |-> GrantId(intent, now), gate |-> gate])
       ELSE UNCHANGED <<reservations, issued>>
    /\ UNCHANGED <<handed, gate>>

\* A new intent identity: decide against the effective state, record the
\* decision and, if it is an authorization, reserve and issue.
Decide(intent, state, feature, quote, now) ==
    LET status == IF EvaluateRisk(intent, Policy, EffectiveState(state),
                                  feature, quote, now) = {}
                  THEN "authorized" ELSE "rejected"
    IN
    /\ history[intent.id] = NoRecord
    /\ history' = [history EXCEPT ![intent.id] = Record(intent, now, status)]
    /\ IF status = "authorized"
       THEN /\ reservations' = [reservations EXCEPT ![intent.id] = Reservation(intent, now)]
            /\ issued' = Append(issued, [grant |-> GrantId(intent, now), gate |-> gate])
       ELSE UNCHANGED <<reservations, issued>>
    /\ UNCHANGED <<handed, gate>>

\* An identity already decided: the answer is DUPLICATE_INTENT or
\* INTENT_IDENTITY_CONFLICT, whatever the evidence, and nothing is recorded.
Retry(intent) ==
    /\ history[intent.id] # NoRecord
    /\ UNCHANGED gateVars

\* RiskGate.admit. An intent of another scope raises and changes nothing.
Admit(intent, state, feature, quote, now) ==
    /\ intent.scope = Scope
    /\ \/ Decide(intent, state, feature, quote, now)
       \/ Retry(intent)

\* The record _grants keeps under the grant id of a presented authorization.
GrantRecords(grant) ==
    {id \in Authorized : GrantId(history[id].intent, history[id].time) = grant}

\* Mutant: authorizations are compared with == only, which ignores the token.
ClaimEqual(token) ==
    \E id \in GrantRecords(issued[token].grant) :
        /\ ~history[id].dispatched
        /\ history' = [history EXCEPT ![id].dispatched = TRUE]
        /\ handed' = Append(handed, [token |-> token, intent |-> history[id].intent,
                                     gate |-> gate])
        /\ UNCHANGED <<reservations, issued, gate>>

\* Mutant: a grant is not consumed by its claim (twice at most, to stay finite).
ClaimAgain(token) ==
    \E id \in GrantRecords(issued[token].grant) :
        /\ history[id].token = token
        /\ Len(handed) < 2
        /\ handed' = Append(handed, [token |-> token, intent |-> history[id].intent,
                                     gate |-> gate])
        /\ UNCHANGED <<history, reservations, issued, gate>>

\* Mutant: a claim releases the reservation of what it hands out.
ClaimReleases(token) ==
    \E id \in GrantRecords(issued[token].grant) :
        /\ history[id].token = token
        /\ ~history[id].dispatched
        /\ history' = [history EXCEPT ![id].dispatched = TRUE]
        /\ handed' = Append(handed, [token |-> token, intent |-> history[id].intent,
                                     gate |-> gate])
        /\ reservations' = [reservations EXCEPT ![id] = NoOrder]
        /\ UNCHANGED <<issued, gate>>

\* RiskGate.claim_for_dispatch with the authorization of a token, or a copy of
\* it. The other outcomes raise and change nothing.
Claim(token) ==
    \E id \in GrantRecords(issued[token].grant) :
        /\ history[id].token = token
        /\ ~history[id].dispatched
        /\ history' = [history EXCEPT ![id].dispatched = TRUE]
        /\ handed' = Append(handed, [token |-> token, intent |-> history[id].intent,
                                     gate |-> gate])
        /\ UNCHANGED <<reservations, issued, gate>>

\* A RiskGate is constructed again for the scope: nothing is persistent, but the
\* authorizations of the earlier gate may still be in the hands of callers.
Restart ==
    /\ gate < MaxRestarts
    /\ gate' = gate + 1
    /\ history' = [id \in Ids |-> NoRecord]
    /\ reservations' = [id \in Ids |-> NoOrder]
    /\ UNCHANGED <<issued, handed>>

Next ==
    \/ \E intent \in Intents, state \in States, feature \in Features,
          quote \in Quotes, now \in Times : Admit(intent, state, feature, quote, now)
    \/ \E token \in DOMAIN issued : Claim(token)
    \/ Restart

Spec == Init /\ [][Next]_gateVars

-----------------------------------------------------------------------------
\* The types of the state: a record is kept under the identity of its intent, a
\* reservation too, and tokens are those of authorizations issued so far.
TypeOK ==
    /\ history \in [Ids -> AdmissionRecords \cup {NoRecord}]
    /\ \A id \in Recorded : history[id].intent.id = id
    /\ reservations \in [Ids -> OutstandingOrders \cup {NoOrder}]
    /\ issued \in Seq([grant : GrantIds, gate : 0 .. MaxRestarts])
    /\ handed \in Seq([token : Nat \ {0}, intent : Intents, gate : 0 .. MaxRestarts])
    /\ \A n \in DOMAIN handed : handed[n].token <= Len(issued)
    /\ gate \in 0 .. MaxRestarts

\* However old the snapshots its callers present, and whatever they claim is
\* outstanding, the gate never reserves two orders on one instrument.
OneReservationPerInstrument ==
    \A o, p \in Reserved : o.instrument = p.instrument => o = p

\* The entries in reserve never exceed the policy's maximum number of concurrent
\* positions, even when every snapshot presented shows an empty account.
EntryCapacity == Cardinality(ReservedBuys) <= Policy.maximumPositions

\* A gate hands an intent identity out for dispatch at most once in its life,
\* whichever copies of its authorizations callers present.
OneDispatchPerIntent ==
    \A m, n \in DOMAIN handed :
        handed[m].gate = handed[n].gate /\ handed[m].intent.id = handed[n].intent.id => m = n

\* What a claim returns is what was authorized under that very token, by the gate
\* that returns it: an authorization of an earlier gate dies with it, although the
\* later gate may have issued one that is equal to it in every compared field.
HandedAsGranted ==
    \A n \in DOMAIN handed :
        LET grant == issued[handed[n].token] IN
        /\ handed[n].gate = grant.gate
        /\ handed[n].intent.id = grant.grant.intent
        /\ handed[n].intent.payload = grant.grant.payload

\* Reservations and authorizations stand and fall together: whatever was
\* authorized, dispatched or not, still holds its reservation for the order the
\* authorization is for, and nothing else is in reserve.
ReservedIffAuthorized ==
    \A id \in Ids :
        IF id \in Authorized
        THEN reservations[id] = Reservation(history[id].intent, history[id].time)
        ELSE reservations[id] = NoOrder

\* What a later call leaves as it is of a recorded identity.
Final(id) ==
    /\ history'[id] # NoRecord
    /\ history'[id].intent = history[id].intent
    /\ history'[id].status = history[id].status
    /\ history'[id].time = history[id].time
    /\ history'[id].token = history[id].token
    /\ history[id].dispatched => history'[id].dispatched
    /\ reservations'[id] = reservations[id]

\* The first decision on an identity is final: until the gate is constructed
\* again no retry, with whatever evidence or payload, changes the decision, its
\* authorization or its reservation, and a dispatched order is never taken back.
FirstDecisionFinal == [][gate' = gate => \A id \in Recorded : Final(id)]_gateVars

=============================================================================
