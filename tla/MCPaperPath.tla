------------------------------ MODULE MCPaperPath ------------------------------
(***************************************************************************)
(* The constants of PaperPath for TLC: three bars, one of which is         *)
(* delivered again in other digits, at another time, under another         *)
(* configuration and for another account.                                  *)
(***************************************************************************)
EXTENDS PaperPath

MCMinExponent == -1

Dec(sign, digits, exponent) == [sign |-> sign, digits |-> digits, exponent |-> exponent]
MinusTwo == Dec(1, <<2>>, 0)
MinusTwoPointZero == Dec(1, <<2, 0>>, -1)
Zero == Dec(0, <<0>>, 0)
MinusZero == Dec(1, <<0>>, -1)

Key(bar) ==
    [account |-> 1, scope |-> 1, lineage |-> 1, instrument |-> 1, bar |-> bar,
     strategy |-> 1, feature |-> 1]
FeatureOf(bar, received, value) ==
    [instrument |-> 1, lineage |-> 1, bar |-> bar, received |-> received, feature |-> 1,
     value |-> value]
SignalOf(bar, received, value, config, type) ==
    [instrument |-> 1, strategy |-> 1, config |-> config, type |-> type, feature |-> 1,
     bar |-> bar, received |-> received, value |-> value, lineage |-> 1]
Candidate(bar, received, value, config, type) ==
    LET signal == SignalOf(bar, received, value, config, type) IN
    [key |-> Key(bar), feature |-> FeatureOf(bar, received, value), signal |-> signal,
     intent |-> IntentFrom(1, signal, 1)]

First == Candidate(1, 1, MinusTwo, 1, "entry")

\* The last but one is no binding, its signal being of another bar; no request can be
\* made of the last, whose quantity is two.
MCCandidates ==
    {First,
     Candidate(1, 1, MinusTwoPointZero, 1, "entry"),
     Candidate(1, 2, MinusTwo, 1, "entry"),
     Candidate(1, 1, MinusTwo, 2, "entry"),
     Candidate(2, 1, Zero, 1, "exit"),
     Candidate(2, 1, MinusZero, 1, "exit"),
     [First EXCEPT !.key.account = 2],
     [First EXCEPT !.key.bar = 2, !.feature.bar = 2],
     [Candidate(3, 1, MinusTwo, 1, "entry") EXCEPT !.intent.quantity = 2]}

\* What is left of a digest tells bars 1 and 2 apart, but neither bars 2 and 3 nor the
\* accounts; of the rest it keeps the configuration and the time of receipt.
MCClientId(i) == LET p == i.intent[2] IN <<IF p[6] = 1 THEN 1 ELSE 2, p[3], p[7]>>

Ev(account, available) ==
    [account |-> account, scope |-> 1, observed |-> 1, available |-> available]
OrderOf(evidence, request, status) ==
    [evidence |-> evidence, client |-> request.client, instrument |-> 1,
     side |-> request.side, quantity |-> 1, filled |-> 0, status |-> status, market |-> TRUE]
ErrorOf(category) == [evidence |-> Ev(1, 2), category |-> category]
ResultOf(request, status, order, error) ==
    [evidence |-> Ev(1, 2), request |-> request, status |-> status, order |-> order,
     error |-> error]

Asked == {Request(First), Request(Candidate(2, 1, Zero, 1, "exit"))}

\* Orders of another request, of another account, from later on, or contradicting
\* themselves are among what a broker may send.
Orders ==
    {OrderOf(Ev(1, 2), r, s) : r \in Asked, s \in {"new", "filled", "unknown"}}
    \cup {OrderOf(e, r, "new") : e \in {Ev(2, 2), Ev(1, 3)}, r \in Asked}
    \cup {[OrderOf(Ev(1, 2), Request(First), "new") EXCEPT !.side = "sell"]}
Results ==
    {ResultOf(r, "accepted", o, NoError) : r \in Asked, o \in Orders}
    \cup {ResultOf(r, s, NoOrder, ErrorOf(c)) :
             r \in Asked, s \in {"rejected", "uncertain"},
             c \in {"unavailable", "definitive_rejection"}}
Looked == [kind |-> "order", value |-> OrderOf(Ev(1, 2), Request(First), "new")]
MCSteps ==
    {[call |-> SubmitCall(r), reply |-> y] :
        r \in Asked, y \in {[kind |-> "result", value |-> v] : v \in Results} \cup {Looked}}
    \cup {[call |-> LookupCall(r.client), reply |-> Looked] : r \in Asked}

=============================================================================
