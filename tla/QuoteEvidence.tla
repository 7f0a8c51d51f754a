---------------------------- MODULE QuoteEvidence ----------------------------
(***************************************************************************)
(* The execution model under growing evidence: quotes and attempts are     *)
(* gathered in any order and the batch is resolved again after each, as it *)
(* is when a simulation is repeated on a longer history.                   *)
(***************************************************************************)
EXTENDS QuoteExecution, Sequences, FiniteSets

CONSTANTS
    QuoteUniverse,     \* the quotes that may be delivered
    AttemptUniverse,   \* the attempts that may be asked for
    MaxQuotes,         \* bound: how many quotes are delivered
    MaxAttempts        \* bound: how many attempts a batch has

\* A quote is what its sort key and its instrument say; times and ranks are integers.
ASSUME QuoteAssumption ==
    \A q \in QuoteUniverse :
        /\ q = [instrument |-> q.instrument, availability |-> q.availability,
                observation |-> q.observation, ref |-> q.ref]
        /\ q.availability \in Int /\ q.observation \in Int /\ q.ref \in Int
        /\ q # NoQuote

VARIABLES
    quotes,     \* the quotes delivered so far
    attempts    \* the batch so far

evidence == <<quotes, attempts>>

Init == quotes = {} /\ attempts = <<>>

Deliver(q) ==
    /\ Cardinality(quotes) < MaxQuotes
    /\ quotes' = quotes \cup {q}
    /\ UNCHANGED attempts

Ask(attempt) ==
    /\ Len(attempts) < MaxAttempts
    /\ attempts' = Append(attempts, attempt)
    /\ UNCHANGED quotes

Next ==
    \/ \E q \in QuoteUniverse : Deliver(q)
    \/ \E attempt \in AttemptUniverse : Ask(attempt)

Spec == Init /\ [][Next]_evidence

-----------------------------------------------------------------------------
\* Once a legal quote has closed an attempt, crossed or stale, no quote that is older
\* opens it again: an attempt never falls back on an older and better one.
OlderQuoteNeverRescues ==
    [][\A k \in DOMAIN attempts :
          LET selected == ResolveAll(attempts, quotes)[k].quote IN
          /\ selected # NoQuote /\ attempts' = attempts
          /\ \A q \in quotes' \ quotes : Newer(selected, q)
          => ResolveAll(attempts, quotes)'[k] = ResolveAll(attempts, quotes)[k]]_evidence

\* What an attempt came to changes for two causes only: its identifier is asked for
\* again, which closes it for good, or a quote arrives that was available at its time
\* and is now its evidence. What was known only later, and evidence that was there
\* before, change nothing.
OutcomesChangeForCause ==
    [][\A k \in DOMAIN attempts :
          LET before == ResolveAll(attempts, quotes)[k]
              after == ResolveAll(attempts, quotes)'[k]
          IN  after # before =>
                 /\ before.reason # "duplicate_attempt_id"
                 /\ \/ /\ after.reason = "duplicate_attempt_id"
                       /\ \E j \in DOMAIN attempts' \ DOMAIN attempts :
                             attempts'[j].id = attempts[k].id
                    \/ /\ after.quote \in quotes' \ quotes
                       /\ after.quote.instrument = attempts[k].instrument
                       /\ after.quote.availability <= attempts[k].time]_evidence

=============================================================================
