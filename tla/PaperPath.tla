------------------------------- MODULE PaperPath -------------------------------
(***************************************************************************)
(* The way of an intent to the broker, as far as src/ has it: the registry *)
(* of source opportunities, the registry of client order identifiers       *)
(* (src/src/shadow/adapters/alpaca/paper_identity.py), the construction of *)
(* a request and of its result, and the scripted broker                    *)
(* (src/src/shadow/execution/fake_broker.py), which is the only broker     *)
(* there is. The dispatcher that calls them is not written yet. Of it this *)
(* assumes that the identity it registers is of a binding that `bind` gave *)
(* it; the calls may come in any order otherwise.                          *)
(***************************************************************************)
EXTENDS SourceOpportunity, BrokerContracts, FiniteSets

CONSTANTS
    Candidates,    \* the SourceOpportunityBindings the caller may try to build
    Steps,         \* the BrokerSteps a script may have
    ScriptLength,  \* how many steps the script has
    MaxCalls,      \* bound: how many calls the broker gets
    MaxRestarts,   \* bound: how often the process starts again
    Raised         \* the outcome of a call that raises

\* SourceOpportunityKey, FeatureValue, Signal and OrderIntent have these fields and no
\* others, and the values are Decimals.
ASSUME CandidatesAssumption ==
    /\ MinExponent \in Int
    /\ \A c \in Candidates :
          /\ c.key = [account |-> c.key.account, scope |-> c.key.scope,
                      lineage |-> c.key.lineage, instrument |-> c.key.instrument,
                      bar |-> c.key.bar, strategy |-> c.key.strategy, feature |-> c.key.feature]
          /\ c.feature = [instrument |-> c.feature.instrument, lineage |-> c.feature.lineage,
                          bar |-> c.feature.bar, received |-> c.feature.received,
                          feature |-> c.feature.feature, value |-> c.feature.value]
          /\ \A s \in {c.signal, c.intent.signal} :
                s = [instrument |-> s.instrument, strategy |-> s.strategy, config |-> s.config,
                     type |-> s.type, feature |-> s.feature, bar |-> s.bar,
                     received |-> s.received, value |-> s.value, lineage |-> s.lineage]
          /\ c.intent = [scope |-> c.intent.scope, signal |-> c.intent.signal,
                         instrument |-> c.intent.instrument, side |-> c.intent.side,
                         quantity |-> c.intent.quantity]
          /\ \A d \in {c.feature.value, c.signal.value, c.intent.signal.value} :
                IsDecimal(d) /\ MinExponent <= d.exponent

VARIABLES
    bindings,    \* SourceOpportunityRegistry._bindings
    held,        \* the bindings that bind has returned
    clients,     \* PaperClientIdentityRegistry._by_client_order_id
    named,       \* the bindings whose identity is registered
    calls,       \* FakeBroker._calls
    results,     \* what submit has returned, with the binding it was called for
    restarts     \* the processes there were before

pathVars == <<bindings, held, clients, named, calls, results, restarts>>

-----------------------------------------------------------------------------
\* A reply of a script is a [kind, value]: the values have passed their constructors.
ReplyHolds(reply) ==
    CASE reply.kind = "result" -> ResultHolds(reply.value)
      [] reply.kind = "order" -> OrderHolds(reply.value)
      [] OTHER -> EvidenceHolds(reply.value.evidence)

\* FakeBroker._next: every call takes the next step of the script, and is answered by it
\* if it is the call of that step. A step is seen only by the call that takes it, and
\* so it is chosen there.
Answers(call) ==
    IF Len(calls) >= ScriptLength THEN {Raised}
    ELSE {IF s.call = call THEN s.reply ELSE Raised : s \in {s \in Steps : ReplyHolds(s.reply)}}

Request(c) ==
    [account |-> c.key.account, scope |-> c.key.scope, client |-> ClientId(IdentityOf(c)),
     instrument |-> c.intent.instrument, side |-> c.intent.side,
     quantity |-> c.intent.quantity]

SubmitCall(request) == [op |-> "submit", request |-> request]
LookupCall(client) == [op |-> "lookup_order", client |-> client]

-----------------------------------------------------------------------------
Init ==
    /\ bindings = {} /\ held = {} /\ clients = {} /\ named = {}
    /\ calls = <<>> /\ results = {} /\ restarts = 0

\* Mutant: the latest binding of a source key takes the place of the first.
BindLatest(c) ==
    /\ BindingHolds(c)
    /\ bindings' = {b \in bindings : b.key # c.key} \cup {c}
    /\ held' = held \cup {c}
    /\ UNCHANGED <<clients, named, calls, results, restarts>>

\* SourceOpportunityRegistry.bind, of a binding that could be constructed: it returns
\* the first binding of the source key, and raises where the evidence differs.
Bind(c) ==
    LET existing == {b \in bindings : b.key = c.key} IN
    /\ BindingHolds(c)
    /\ IF existing = {}
       THEN bindings' = bindings \cup {c} /\ held' = held \cup {c}
       ELSE /\ \A b \in existing : EvidenceDigest(b) = EvidenceDigest(c)
            /\ held' = held \cup existing
            /\ UNCHANGED bindings
    /\ UNCHANGED <<clients, named, calls, results, restarts>>

\* PaperClientIdentityRegistry.register, of the identity derived from a binding that
\* `bind` returned: it raises when the identifier is another identity's.
Register(c) ==
    /\ c \in held
    /\ \A i \in clients : ClientId(i) = ClientId(IdentityOf(c)) => i = IdentityOf(c)
    /\ clients' = clients \cup {IdentityOf(c)}
    /\ named' = named \cup {c}
    /\ UNCHANGED <<bindings, held, calls, results, restarts>>

\* FakeBroker.submit: a reply that is not the result of this very request raises, after
\* the step is spent.
Submit(c) ==
    LET request == Request(c)
        Fits(reply) == reply # Raised /\ reply.kind = "result" /\ reply.value.request = request
    IN  /\ c \in named /\ RequestHolds(request)
        /\ Len(calls) < MaxCalls
        /\ calls' = Append(calls, SubmitCall(request))
        /\ \E reply \in Answers(SubmitCall(request)) :
              results' = IF Fits(reply)
                         THEN results \cup {[candidate |-> c, result |-> reply.value]}
                         ELSE results
        /\ UNCHANGED <<bindings, held, clients, named, restarts>>

\* FakeBroker.lookup_order by client identifier; nothing of the answer is kept.
Lookup(c) ==
    /\ c \in named
    /\ Len(calls) < MaxCalls
    /\ calls' = Append(calls, LookupCall(ClientId(IdentityOf(c))))
    /\ UNCHANGED <<bindings, held, clients, named, results, restarts>>

\* A new process has empty registries; the broker goes on.
Restart ==
    /\ restarts < MaxRestarts
    /\ restarts' = restarts + 1
    /\ bindings' = {} /\ held' = {} /\ clients' = {} /\ named' = {} /\ results' = {}
    /\ UNCHANGED calls

Next ==
    \/ \E c \in Candidates : Bind(c) \/ Register(c) \/ Submit(c) \/ Lookup(c)
    \/ Restart

Spec == Init /\ [][Next]_pathVars

-----------------------------------------------------------------------------
\* In the life of a process a registered client order identifier and a source
\* opportunity name each other: redeliveries in other words, of other times or of
\* other configurations make no second identifier for a bar, and identifiers that were
\* cut short to the same text are never two opportunities.
ClientIdsNameOpportunities ==
    \A c, d \in named :
        ClientId(IdentityOf(c)) = ClientId(IdentityOf(d)) <=> c.key = d.key

\* A redelivery conflicts with the first binding if it says something else, and only
\* then: the same number in other digits is no conflict, and another number is one.
ConflictIffMateriallyChanged ==
    LET SameEvidence(b, c) ==
            /\ SameNumber(b.feature.value, c.feature.value, MinExponent)
            /\ [b.feature EXCEPT !.value = 0] = [c.feature EXCEPT !.value = 0]
            /\ SameSignal(b.signal, c.signal)
            /\ SameSignal(b.intent.signal, c.intent.signal)
            /\ [b.intent EXCEPT !.signal = 0] = [c.intent EXCEPT !.signal = 0]
    IN  \A b \in bindings :
            \A c \in {d \in Candidates : d.key = b.key /\ BindingHolds(d)} :
                EvidenceDigest(b) = EvidenceDigest(c) <=> SameEvidence(b, c)

\* An order shown as accepted is the order of the one opportunity whose identifier it
\* bears, with the side, the instrument and the quantity of its intent: whatever the
\* script has, no acceptance is credited to another opportunity.
AcceptedOrderIsTheRequested ==
    \A p, q \in {r \in results : r.result.status = "accepted"} :
        /\ p.result.order.instrument = p.candidate.intent.instrument
        /\ p.result.order.side = p.candidate.intent.side
        /\ p.result.order.quantity = p.candidate.intent.quantity
        /\ p.result.order.client = q.result.order.client => p.candidate.key = q.candidate.key

=============================================================================
