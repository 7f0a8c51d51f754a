------------------------ MODULE QuoteEvidenceProofs ------------------------
(***************************************************************************)
(* What growing evidence does to attempts, for any quotes and any batch.   *)
(* All rests on one fact: of finitely many quotes of an instrument one is  *)
(* newest. It is proved by way of a smallest set that has none, which the  *)
(* ordering of finite sets by inclusion would have to give.                *)
(***************************************************************************)
EXTENDS QuoteEvidence, FiniteSetTheorems, WellFoundedInduction, TLAPS

\* Quotes of one instrument.
OfOne(Q) == \A q, r \in Q : q.instrument = r.instrument

IsNewest(q, Q) == q \in Q /\ \A r \in Q \ {q} : Newer(q, r)

\* _quote_sort_key orders the quotes of an instrument.
LEMMA NewerIsAnOrder ==
    ASSUME NEW q \in QuoteUniverse, NEW r \in QuoteUniverse, NEW s \in QuoteUniverse
    PROVE  /\ q.instrument = r.instrument /\ q # r => Newer(q, r) \/ Newer(r, q)
           /\ Newer(q, r) /\ Newer(r, s) => Newer(q, s)
           /\ ~(Newer(q, r) /\ Newer(r, q))
<1>1. /\ q.availability \in Int /\ q.observation \in Int /\ q.ref \in Int
      /\ r.availability \in Int /\ r.observation \in Int /\ r.ref \in Int
      /\ s.availability \in Int /\ s.observation \in Int /\ s.ref \in Int
  BY QuoteAssumption
<1>2. /\ q.instrument = r.instrument /\ q.availability = r.availability
      /\ q.observation = r.observation /\ q.ref = r.ref
      => q = r
  BY QuoteAssumption
<1>3. QED
  BY <1>1, <1>2 DEF Newer

\* max(legal_quotes, key = _quote_sort_key) is defined.
LEMMA NewestExists ==
    ASSUME NEW Q \in SUBSET QuoteUniverse, IsFiniteSet(Q), Q # {}, OfOne(Q)
    PROVE  \E q : IsNewest(q, Q)
<1> DEFINE Bad == {P \in FiniteSubsetsOf(QuoteUniverse) :
                      P # {} /\ OfOne(P) /\ ~\E q : IsNewest(q, P)}
<1>1. SUFFICES ASSUME Bad # {} PROVE FALSE
  BY DEF FiniteSubsetsOf
<1>2. PICK P \in Bad : \A R \in Bad : <<R, P>> \notin StrictSubsetOrdering(QuoteUniverse)
  <2>1. Bad \subseteq FiniteSubsetsOf(QuoteUniverse)
    OBVIOUS
  <2> HIDE DEF Bad
  <2>2. QED
    BY <1>1, <2>1, WFMin, FS_StrictSubsetOrderingWellFounded
<1>3. /\ P \in SUBSET QuoteUniverse /\ IsFiniteSet(P) /\ P # {} /\ OfOne(P)
      /\ ~\E q : IsNewest(q, P)
  BY <1>2 DEF FiniteSubsetsOf
<1>4. PICK q \in P : TRUE
  BY <1>3
<1> DEFINE R == P \ {q}
<1>5. R # {}
  BY <1>3, <1>4 DEF IsNewest
<1>6. R \in FiniteSubsetsOf(QuoteUniverse) /\ OfOne(R)
  BY <1>3, FS_RemoveElement DEF FiniteSubsetsOf, OfOne
<1>7. <<R, P>> \in StrictSubsetOrdering(QuoteUniverse)
  BY <1>3, <1>4 DEF StrictSubsetOrdering
<1>8. PICK r : IsNewest(r, R)
  BY <1>2, <1>5, <1>6, <1>7
<1>9. r \in P /\ r # q /\ q.instrument = r.instrument
  BY <1>3, <1>4, <1>8 DEF IsNewest, OfOne
<1>10. CASE Newer(q, r)
  <2>1. \A s \in P \ {q} : Newer(q, s)
    BY <1>3, <1>4, <1>8, <1>9, <1>10, NewerIsAnOrder DEF IsNewest
  <2>2. QED
    BY <1>3, <1>4, <2>1 DEF IsNewest
<1>11. CASE Newer(r, q)
  BY <1>3, <1>8, <1>9, <1>11 DEF IsNewest
<1>12. QED
  BY <1>3, <1>4, <1>9, <1>10, <1>11, NewerIsAnOrder

\* It is the one that Newest picks, and no other.
LEMMA NewestIsNewest ==
    ASSUME NEW Q \in SUBSET QuoteUniverse, NEW q, IsNewest(q, Q)
    PROVE  Newest(Q) = q
<1>1. /\ Newest(Q) \in Q
      /\ \A r \in Q \ {Newest(Q)} : Newer(Newest(Q), r)
  BY DEF Newest, IsNewest
<1>2. ASSUME Newest(Q) # q PROVE FALSE
  <2>1. q \in QuoteUniverse /\ Newest(Q) \in QuoteUniverse
    BY <1>1 DEF IsNewest
  <2>2. Newer(q, Newest(Q)) /\ Newer(Newest(Q), q)
    BY <1>1, <1>2 DEF IsNewest
  <2>3. QED
    BY <2>1, <2>2, NewerIsAnOrder
<1>3. QED
  BY <1>2

-----------------------------------------------------------------------------
\* Resolving an attempt once more with a quote that is older than the one selected.
LEMMA OlderChangesNothing ==
    ASSUME NEW attempt, NEW Q \in SUBSET QuoteUniverse, IsFiniteSet(Q),
           NEW P \in SUBSET QuoteUniverse, Q \subseteq P,
           Resolve(attempt, Q).quote # NoQuote,
           \A q \in P \ Q : Newer(Resolve(attempt, Q).quote, q)
    PROVE  Resolve(attempt, P) = Resolve(attempt, Q)
<1> DEFINE L == Legal(attempt, Q)
           M == Legal(attempt, P)
           selected == Newest(L)
<1>1. /\ L \in SUBSET QuoteUniverse /\ M \in SUBSET QuoteUniverse /\ L \subseteq M
      /\ M \ L \subseteq P \ Q /\ OfOne(L) /\ L \subseteq Q
  BY DEF Legal, OfOne
<1>2. ~Inconsistent(attempt) /\ L # {} /\ Resolve(attempt, Q).quote = selected
  BY DEF Resolve, Outcome
<1> HIDE DEF L, M
<1>3. IsNewest(selected, L)
  <2>1. IsFiniteSet(L)
    BY <1>1, FS_Subset
  <2>2. PICK q : IsNewest(q, L)
    BY <1>1, <1>2, <2>1, NewestExists
  <2>3. QED
    BY <1>1, <2>2, NewestIsNewest
<1>4. IsNewest(selected, M)
  BY <1>1, <1>2, <1>3 DEF IsNewest
<1>5. Newest(M) = selected /\ M # {}
  BY <1>1, <1>3, <1>4, NewestIsNewest DEF IsNewest
<1>6. QED
  BY <1>2, <1>5 DEF Resolve, L, M

QInv == quotes \in SUBSET QuoteUniverse /\ IsFiniteSet(quotes)

\* An attempt that a legal quote has closed is not opened again by an older one: for any
\* batch, any quotes and any order of their arrival.
THEOREM OlderNeverRescues == Spec => OlderQuoteNeverRescues
<1>1. Init => QInv
  BY FS_EmptySet DEF Init, QInv
<1>2. ASSUME QInv, [Next]_evidence PROVE QInv'
  BY <1>2, FS_AddElement DEF QInv, Next, Deliver, Ask, evidence
<1> DEFINE Unrescued(k) ==
             LET selected == ResolveAll(attempts, quotes)[k].quote IN
             /\ selected # NoQuote /\ attempts' = attempts
             /\ \A q \in quotes' \ quotes : Newer(selected, q)
             => ResolveAll(attempts, quotes)'[k] = ResolveAll(attempts, quotes)[k]
<1>3. ASSUME QInv, QInv', [Next]_evidence, NEW k \in DOMAIN attempts PROVE Unrescued(k)
  <2> DEFINE outcome == ResolveAll(attempts, quotes)[k]
  <2>1. SUFFICES ASSUME outcome.quote # NoQuote, attempts' = attempts,
                        \A q \in quotes' \ quotes : Newer(outcome.quote, q)
                 PROVE  ResolveAll(attempts, quotes)'[k] = outcome
    OBVIOUS
  <2>2. quotes \subseteq quotes'
    BY <1>3 DEF Next, Deliver, Ask, evidence
  <2>3. ~Duplicate(attempts, k) /\ outcome = Resolve(attempts[k], quotes)
    BY <2>1 DEF ResolveAll, Outcome
  <2>4. ResolveAll(attempts, quotes)'[k] = Resolve(attempts[k], quotes')
    BY <2>1, <2>3 DEF ResolveAll
  <2> HIDE DEF outcome
  <2>5. QED
    BY <1>3, <2>1, <2>2, <2>3, <2>4, OlderChangesNothing DEF QInv
<1>4. QInv /\ QInv' /\ [Next]_evidence => [\A k \in DOMAIN attempts : Unrescued(k)]_evidence
  BY <1>3
<1>5. QED
  BY <1>1, <1>2, <1>4, PTL DEF Spec, OlderQuoteNeverRescues

\* Resolving an attempt once more with one quote added.
LEMMA OneMoreQuote ==
    ASSUME NEW attempt, NEW Q \in SUBSET QuoteUniverse, IsFiniteSet(Q), NEW q \in QuoteUniverse,
           Resolve(attempt, Q \cup {q}) # Resolve(attempt, Q)
    PROVE  /\ Resolve(attempt, Q \cup {q}).quote = q /\ q \notin Q
           /\ q.instrument = attempt.instrument /\ q.availability <= attempt.time
<1> DEFINE L == Legal(attempt, Q)
           M == Legal(attempt, Q \cup {q})
<1>1. L \in SUBSET QuoteUniverse /\ M \in SUBSET QuoteUniverse /\ M \in {L, L \cup {q}} /\ OfOne(M)
  BY DEF Legal, OfOne
<1>2. /\ ~Inconsistent(attempt) /\ M # L
      /\ q \notin Q /\ q.instrument = attempt.instrument /\ q.availability <= attempt.time
  <2>1. M # L
    BY DEF Resolve
  <2>2. QED
    BY <2>1 DEF Resolve, Legal
<1>3. PICK r : IsNewest(r, M)
  <2>1. IsFiniteSet(M)
    <3>1. IsFiniteSet(Q \cup {q}) /\ M \subseteq Q \cup {q}
      BY FS_AddElement DEF Legal
    <3> HIDE DEF M
    <3>2. QED
      BY <3>1, FS_Subset
  <2>2. QED
    BY <1>1, <1>2, <2>1, NewestExists
<1>4. Newest(M) = r
  BY <1>1, <1>3, NewestIsNewest
<1>5. r = q
  <2>1. SUFFICES ASSUME r # q PROVE FALSE
    OBVIOUS
  <2>2. IsNewest(r, L)
    BY <1>1, <1>3, <2>1 DEF IsNewest
  <2>3. Newest(L) = Newest(M) /\ L # {} /\ M # {}
    BY <1>1, <1>3, <1>4, <2>2, NewestIsNewest DEF IsNewest
  <2> HIDE DEF L, M
  <2>4. Resolve(attempt, Q \cup {q}) = Resolve(attempt, Q)
    BY <2>3 DEF Resolve, L, M
  <2>5. QED
    BY <2>4
<1> HIDE DEF L, M
<1>6. Resolve(attempt, Q \cup {q}).quote = q
  BY <1>2, <1>3, <1>4, <1>5 DEF Resolve, Outcome, IsNewest, M
<1>7. QED
  BY <1>2, <1>6

\* What an attempt came to changes only when its identifier is asked for again or a quote
\* arrives that was available to it (models.py:419 to 434, 475 to 486).
THEOREM ChangesHaveCauses == Spec => OutcomesChangeForCause
<1> DEFINE BInv == QInv /\ attempts \in Seq(AttemptUniverse)
           before(k) == ResolveAll(attempts, quotes)[k]
           after(k) == ResolveAll(attempts, quotes)'[k]
           Caused(k) ==
               after(k) # before(k) =>
                 /\ before(k).reason # "duplicate_attempt_id"
                 /\ \/ /\ after(k).reason = "duplicate_attempt_id"
                       /\ \E j \in DOMAIN attempts' \ DOMAIN attempts :
                             attempts'[j].id = attempts[k].id
                    \/ /\ after(k).quote \in quotes' \ quotes
                       /\ after(k).quote.instrument = attempts[k].instrument
                       /\ after(k).quote.availability <= attempts[k].time
<1>1. Init => BInv
  BY FS_EmptySet DEF Init, QInv
<1>2. ASSUME BInv, [Next]_evidence PROVE BInv'
  BY <1>2, FS_AddElement DEF QInv, Next, Deliver, Ask, evidence
<1>3. ASSUME BInv, NEW k \in DOMAIN attempts, NEW q \in QuoteUniverse, Deliver(q) PROVE Caused(k)
  <2>1. attempts' = attempts /\ quotes' = quotes \cup {q}
    BY <1>3 DEF Deliver
  <2>2. CASE Duplicate(attempts, k)
    BY <2>1, <2>2 DEF ResolveAll
  <2>3. CASE ~Duplicate(attempts, k)
    <3>1. /\ before(k) = Resolve(attempts[k], quotes)
          /\ after(k) = Resolve(attempts[k], quotes \cup {q})
      BY <2>1, <2>3 DEF ResolveAll
    <3>2. before(k).reason # "duplicate_attempt_id"
      BY <3>1 DEF Resolve, Outcome
    <3> HIDE DEF before, after
    <3>3. QED
      BY <1>3, <2>1, <3>1, <3>2, OneMoreQuote DEF QInv
  <2>4. QED
    BY <2>2, <2>3
<1>4. ASSUME BInv, NEW k \in DOMAIN attempts, NEW attempt, Ask(attempt) PROVE Caused(k)
  <2>1. attempts' = Append(attempts, attempt) /\ quotes' = quotes
    BY <1>4 DEF Ask
  <2>2. /\ k \in DOMAIN attempts' /\ attempts'[k] = attempts[k]
        /\ Duplicate(attempts, k) => Duplicate(attempts', k)
        /\ Duplicate(attempts', k) =>
              \/ Duplicate(attempts, k)
              \/ \E j \in DOMAIN attempts' \ DOMAIN attempts : attempts'[j].id = attempts[k].id
    <3>1. /\ DOMAIN attempts \subseteq DOMAIN attempts'
          /\ \A j \in DOMAIN attempts : attempts'[j] = attempts[j]
      BY <1>4, <2>1
    <3>2. QED
      BY <1>4, <3>1 DEF Duplicate
  <2>3. /\ before(k) = IF Duplicate(attempts, k)
                       THEN Outcome("rejected", "duplicate_attempt_id", NoQuote)
                       ELSE Resolve(attempts[k], quotes)
        /\ after(k) = IF Duplicate(attempts', k)
                      THEN Outcome("rejected", "duplicate_attempt_id", NoQuote)
                      ELSE Resolve(attempts[k], quotes)
    BY <2>1, <2>2 DEF ResolveAll
  <2>4. Resolve(attempts[k], quotes).reason # "duplicate_attempt_id"
    BY DEF Resolve, Outcome
  <2> HIDE DEF before, after
  <2>5. QED
    BY <2>2, <2>3, <2>4 DEF Outcome
<1>5. ASSUME BInv, [Next]_evidence, NEW k \in DOMAIN attempts PROVE Caused(k) \/ UNCHANGED evidence
  BY <1>3, <1>4, <1>5 DEF Next
<1>6. BInv /\ [Next]_evidence => [\A k \in DOMAIN attempts : Caused(k)]_evidence
  BY <1>5
<1>7. QED
  BY <1>1, <1>2, <1>6, PTL DEF Spec, OutcomesChangeForCause
=============================================================================
