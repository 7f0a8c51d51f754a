--------------------------- MODULE QuoteExecution ---------------------------
(***************************************************************************)
(* The quote-side execution model (src/src/shadow/execution/models.py):    *)
(* one attempt is resolved against the newest quote that was available at  *)
(* its time, or not at all. Prices and slippage are left out; of the rest  *)
(* of a quote its reference is kept, by its rank in the order of reference *)
(* strings, and whether a quote with that reference is crossed.            *)
(***************************************************************************)
EXTENDS Integers

CONSTANTS
    MaxQuoteAge,   \* QuoteExecutionConfig.maximum_quote_age
    CrossedRefs,   \* the references whose bid is above their ask
    Model,         \* QuoteExecutionConfig.execution_model_id
    NoQuote        \* no market evidence

-----------------------------------------------------------------------------
\* Mutant: a quote is used from the time it was observed.
LegalWhenObserved(attempt, quotes) ==
    {q \in quotes : q.instrument = attempt.instrument /\ q.observation <= attempt.time}

\* The quotes an attempt may be resolved with.
Legal(attempt, quotes) ==
    {q \in quotes : q.instrument = attempt.instrument /\ q.availability <= attempt.time}

\* _quote_sort_key: availability, then observation, then reference.
Newer(q, r) ==
    \/ q.availability > r.availability
    \/ /\ q.availability = r.availability
       /\ \/ q.observation > r.observation
          \/ q.observation = r.observation /\ q.ref > r.ref

Newest(quotes) == CHOOSE q \in quotes : \A r \in quotes \ {q} : Newer(q, r)

\* _attempt_rejection: the attempt is of another execution model or does not fit its
\* opportunity, or the opportunity is not strictly after the eligibility boundary.
Inconsistent(attempt) ==
    \/ attempt.model # Model
    \/ attempt.instrument # attempt.opportunity.instrument
    \/ attempt.time # attempt.opportunity.time
    \/ attempt.opportunity.time <= attempt.boundary

Outcome(status, reason, evidence) == [status |-> status, reason |-> reason, quote |-> evidence]

\* Mutant: where the newest quote is of no use, an older one is taken.
ResolveFallsBack(attempt, quotes) ==
    LET legal == Legal(attempt, quotes)
        usable == {q \in legal : /\ q.ref \notin CrossedRefs
                                 /\ attempt.time - q.observation <= MaxQuoteAge}
    IN  IF Inconsistent(attempt) THEN Outcome("rejected", "inconsistent", NoQuote)
        ELSE IF usable # {} THEN Outcome("filled", "filled", Newest(usable))
        ELSE IF legal = {} THEN Outcome("unfilled", "no_legal_quote", NoQuote)
        ELSE Outcome("rejected", "crossed_quote", Newest(legal))

\* resolve_execution_attempt.
Resolve(attempt, quotes) ==
    LET legal == Legal(attempt, quotes)
        selected == Newest(legal)
    IN  IF Inconsistent(attempt) THEN Outcome("rejected", "inconsistent", NoQuote)
        ELSE IF legal = {} THEN Outcome("unfilled", "no_legal_quote", NoQuote)
        ELSE IF selected.ref \in CrossedRefs THEN Outcome("rejected", "crossed_quote", selected)
        ELSE IF attempt.time - selected.observation > MaxQuoteAge
             THEN Outcome("unfilled", "stale_quote", selected)
        ELSE Outcome("filled", "filled", selected)

-----------------------------------------------------------------------------
\* Whether another attempt of the batch has the identifier of the k-th.
Duplicate(attempts, k) == \E j \in DOMAIN attempts \ {k} : attempts[j].id = attempts[k].id

\* resolve_execution_attempts: the outcome of each attempt, by its place in the
\* batch; the code returns them in the order of the attempts' sort keys.
ResolveAll(attempts, quotes) ==
    [k \in DOMAIN attempts |->
        IF Duplicate(attempts, k) THEN Outcome("rejected", "duplicate_attempt_id", NoQuote)
        ELSE Resolve(attempts[k], quotes)]

=============================================================================
