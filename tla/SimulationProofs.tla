--------------------------- MODULE SimulationProofs ---------------------------
(***************************************************************************)
(* What holds of a simulation whatever the bars, the opportunities and the *)
(* quotes. A replay of events is a fold over their order, so that it can   *)
(* be taken one event at a time, and two replays bring an instrument to    *)
(* one state if they have the same moves of it and the same evidence for   *)
(* them: this is what many replays of prefixes and the one of the whole    *)
(* have in common. The invariant SimInv says of the loop that what it      *)
(* decided so far is what its signals of now say of then; and the order of *)
(* decisions begins with those of any earlier time.                        *)
(***************************************************************************)
EXTENDS Simulation, SequenceTheorems, FiniteSetTheorems, TLAPS

Events == INSTANCE FoldLemmas WITH op <- Handled
Histories == INSTANCE FoldLemmas WITH op <- AddBar
Loops == INSTANCE FoldLemmas WITH op <- DecidedNext

-----------------------------------------------------------------------------
\* Replays of sets of events.

\* Events of which no two are at one place of the order.
Comparable(U) ==
    /\ \A e \in U : /\ e.id \in Int /\ e.time \in Int /\ e.instrument \in Int
                    /\ e.kind \in DOMAIN Precedence
    /\ \A e, f \in U : e # f => Before(e, f) \/ Before(f, e)

BeforePairs(U) == {p \in U \X U : Before(p[1], p[2])}

\* What FoldLemmas says of finite sets is about the same notions.
LEMMA SameNotions ==
    ASSUME NEW S
    PROVE  Events!IsFiniteSet(S) = IsFiniteSet(S) /\ Events!Cardinality(S) = Cardinality(S)
<1>1. Events!IsFiniteSet(S) = IsFiniteSet(S)
  BY DEF Events!IsFiniteSet, IsFiniteSet
<1>2. Events!Cardinality(S) = Cardinality(S)
  BY DEF Events!Cardinality, Cardinality
<1>3. QED
  BY <1>1, <1>2

LEMMA SortedInOrder ==
    ASSUME NEW S, NEW R, IsFiniteSet(S), Events!Orders(R, S)
    PROVE  /\ Events!SortedBy(S, R) \in Seq(S) /\ Len(Events!SortedBy(S, R)) = Cardinality(S)
           /\ \A x \in S : \E k \in 1 .. Cardinality(S) : Events!SortedBy(S, R)[k] = x
           /\ \A j, k \in 1 .. Cardinality(S) :
                 j < k => <<Events!SortedBy(S, R)[j], Events!SortedBy(S, R)[k]>> \in R
<1> DEFINE s == Events!SortedBy(S, R)
<1>1. Events!IsFiniteSet(S)
  BY SameNotions
<1>2. /\ s \in Seq(S) /\ Len(s) = Events!Cardinality(S)
      /\ \A x \in S : \E k \in 1 .. Events!Cardinality(S) : s[k] = x
      /\ \A j, k \in 1 .. Events!Cardinality(S) : j < k => <<s[j], s[k]>> \in R
  BY <1>1, Events!SortedEnumerates
<1> HIDE DEF s
<1>3. QED
  BY <1>2, SameNotions DEF s

LEMMA SortedFirst ==
    ASSUME NEW S, NEW R, IsFiniteSet(S), Events!Orders(R, S),
           NEW T \in SUBSET S, \A x \in T, y \in S \ T : <<x, y>> \in R
    PROVE  /\ \A k \in 1 .. Cardinality(T) : Events!SortedBy(S, R)[k] = Events!SortedBy(T, R)[k]
           /\ \A k \in 1 .. Cardinality(S) :
                 k <= Cardinality(T) <=> Events!SortedBy(S, R)[k] \in T
<1>1. Events!IsFiniteSet(S) /\ Events!IsBefore(T, S, R)
  BY SameNotions DEF Events!IsBefore
<1>2. /\ \A k \in 1 .. Events!Cardinality(T) :
            Events!SortedBy(S, R)[k] = Events!SortedBy(T, R)[k]
      /\ \A k \in 1 .. Events!Cardinality(S) :
            k <= Events!Cardinality(T) <=> Events!SortedBy(S, R)[k] \in T
  BY <1>1, Events!SortedPrefix
<1>3. QED
  BY <1>2, SameNotions

LEMMA BeforeIsAnOrder ==
    ASSUME NEW U, Comparable(U), NEW E \in SUBSET U
    PROVE  /\ Events!Orders(BeforePairs(U), E)
           /\ Ordered(E) = Events!SortedBy(E, BeforePairs(U))
<1>1. \A e, f, g \in U : /\ ~Before(e, e)
                         /\ Before(e, f) /\ Before(f, g) => Before(e, g)
  BY DEF Comparable, Before, Precedence
<1>2. Events!Orders(BeforePairs(U), E)
  BY <1>1 DEF Events!Orders, BeforePairs, Comparable
<1>3. ASSUME NEW x \in E PROVE {y \in E : Before(y, x)} = {y \in E : <<y, x>> \in BeforePairs(U)}
  BY DEF BeforePairs
<1>4. ASSUME NEW k
      PROVE (CHOOSE x \in E : Cardinality({y \in E : Before(y, x)}) = k - 1)
              = CHOOSE x \in E : Events!Rank(E, BeforePairs(U), x) = k - 1
  <2>1. \A x : (x \in E /\ Cardinality({y \in E : Before(y, x)}) = k - 1)
                 <=> (x \in E /\ Events!Rank(E, BeforePairs(U), x) = k - 1)
    BY <1>3, SameNotions DEF Events!Rank
  <2>2. QED
    BY <2>1, Zenon
<1>5. Ordered(E) = Events!SortedBy(E, BeforePairs(U))
  <2> DEFINE At(k) == CHOOSE x \in E : Cardinality({y \in E : Before(y, x)}) = k - 1
             Nth(k) == CHOOSE x \in E : Events!Rank(E, BeforePairs(U), x) = k - 1
  <2>1. Ordered(E) = [k \in 1 .. Cardinality(E) |-> At(k)]
    BY DEF Ordered, Sorted
  <2>2. Events!SortedBy(E, BeforePairs(U)) = [k \in 1 .. Cardinality(E) |-> Nth(k)]
    BY SameNotions DEF Events!SortedBy
  <2>3. \A k : At(k) = Nth(k)
    BY <1>4
  <2> HIDE DEF At, Nth
  <2>4. QED
    BY <2>1, <2>2, <2>3
<1>6. QED
  BY <1>2, <1>5

\* A newest event is handled last.
LEMMA ReplayStep ==
    ASSUME NEW U, Comparable(U), NEW E \in SUBSET U, IsFiniteSet(E), NEW e \in U,
           \A x \in E : Before(x, e)
    PROVE  /\ e \notin E
           /\ \A base : Events!Fold(base, Ordered(E \cup {e}))
                            = Handled(Events!Fold(base, Ordered(E)), e)
<1>1. ~Before(e, e) /\ \A x \in E : ~Before(e, x) /\ ~Before(x, x)
  BY DEF Comparable, Before, Precedence
<1>2. e \notin E
  BY <1>1
<1>3. E \cup {e} \in SUBSET U
  OBVIOUS
<1>4. Events!SortedBy(E \cup {e}, BeforePairs(U)) = Append(Events!SortedBy(E, BeforePairs(U)), e)
  <2> DEFINE R == BeforePairs(U)
  <2>1. Events!IsAfter(e, E, R)
    BY <1>1, <1>2 DEF BeforePairs, Events!IsAfter
  <2>2. Events!IsFiniteSet(E)
    BY SameNotions
  <2> HIDE DEF R
  <2>3. Events!SortedBy(E \cup {e}, R) = Append(Events!SortedBy(E, R), e)
    BY <2>1, <2>2, Events!SortedAppend
  <2>4. QED
    BY <2>3 DEF R
<1>5. Events!SortedBy(E, BeforePairs(U)) \in Seq(E)
  BY BeforeIsAnOrder, SortedInOrder
<1>6. Ordered(E) \in Seq(U)
  BY <1>5, BeforeIsAnOrder
<1>7. Ordered(E \cup {e}) = Append(Ordered(E), e)
  BY <1>3, <1>4, BeforeIsAnOrder
<1>8. \A base : Events!Fold(base, Append(Ordered(E), e)) = Handled(Events!Fold(base, Ordered(E)), e)
  BY <1>6, Events!FoldAppend
<1>9. QED
  BY <1>2, <1>7, <1>8

\* Induction on finite sets of events, of which the newest is added last.
LEMMA InductionOnEvents ==
    ASSUME NEW U, Comparable(U), NEW P, {} \in P,
           \A E \in SUBSET U, e \in U :
               IsFiniteSet(E) /\ E \in P /\ (\A x \in E : Before(x, e)) => E \cup {e} \in P
    PROVE  \A E \in SUBSET U : IsFiniteSet(E) => E \in P
<1> DEFINE Q == {n \in Nat : \A E \in SUBSET U : IsFiniteSet(E) /\ Cardinality(E) = n => E \in P}
<1>1. 0 \in Q
  BY FS_EmptySet
<1>2. ASSUME NEW n \in Nat, n \in Q PROVE n + 1 \in Q
  <2>1. SUFFICES ASSUME NEW E \in SUBSET U, IsFiniteSet(E), Cardinality(E) = n + 1
                 PROVE  E \in P
    OBVIOUS
  <2> DEFINE s == Events!SortedBy(E, BeforePairs(U))
             last == s[n + 1]
             F == E \ {last}
  <2>2. /\ s \in Seq(E) /\ Len(s) = n + 1
        /\ \A x \in E : \E k \in 1 .. n + 1 : s[k] = x
        /\ \A j, k \in 1 .. n + 1 : j < k => <<s[j], s[k]>> \in BeforePairs(U)
    <3>1. Events!Orders(BeforePairs(U), E)
      BY BeforeIsAnOrder
    <3>2. QED
      BY <2>1, <3>1, SortedInOrder
  <2> HIDE DEF s
  <2>3. last \in E
    BY <2>2
  <2>4. ASSUME NEW x \in F PROVE Before(x, last)
    <3>1. PICK k \in 1 .. n + 1 : s[k] = x
      BY <2>2, <2>4
    <3>2. k # n + 1 /\ n + 1 \in 1 .. n + 1 /\ k \in Int
      BY <2>4, <3>1
    <3>3. <<s[k], s[n + 1]>> \in BeforePairs(U)
      BY <2>2, <3>2
    <3>4. QED
      BY <3>1, <3>3 DEF BeforePairs
  <2> HIDE DEF last
  <2>5. IsFiniteSet(F) /\ Cardinality(F) = n
    <3>1. IsFiniteSet(F) /\ Cardinality(F) = Cardinality(E) - 1
      BY <2>1, <2>3, FS_RemoveElement
    <3>2. QED
      BY <2>1, <3>1
  <2>6. F \in P /\ F \in SUBSET U /\ F \cup {last} = E
    BY <1>2, <2>3, <2>5
  <2>7. QED
    BY <2>3, <2>4, <2>5, <2>6
<1> HIDE DEF Q
<1>3. \A n \in Nat : n \in Q
  BY <1>1, <1>2, Events!InductionOnSet
<1>4. QED
  BY <1>3, FS_CardinalityType DEF Q

-----------------------------------------------------------------------------
\* A timeline of these events, as process_lifecycle starts on it, and when it has handled
\* some of them.
Begun(W, evidence) ==
    [states |-> [i \in Instruments |-> FlatState], conflicted |-> Conflicted(W),
     pairs |-> EligiblePairs(W), quotes |-> evidence]

Handling(W, evidence, E) == Events!Fold(Begun(W, evidence), Ordered(E))

LEMMA ReplayIsHandling ==
    ASSUME NEW W, NEW evidence
    PROVE  ProcessLifecycle(Instruments, W, evidence) = Handling(W, evidence, W).states
BY DEF ProcessLifecycle, Handling, Begun, Events!Fold, FoldLeft, Events!FoldLeft,
       MapThenFoldSet, Events!MapThenFoldSet, Max, Events!Max

\* The state of an instrument, of which a pending action is one of the signals handled.
Sound(s, i, E) ==
    /\ s = [state |-> s.state, pending |-> s.pending, position |-> s.position]
    /\ \/ s.state \in {"flat", "holding"} /\ s.pending = NoAction
       \/ /\ s.state \in {"pending_entry", "pending_exit"}
          /\ s.pending \in Signals(E) /\ s.pending.instrument = i

\* What a replay keeps of what it began with, and its states.
Shaped(r, W, evidence, E) ==
    /\ r = [Begun(W, evidence) EXCEPT !.states = r.states]
    /\ r.states = [i \in Instruments |-> r.states[i]]
    /\ \A i \in Instruments : Sound(r.states[i], i, E)

LEMMA AfterSound ==
    ASSUME NEW i, NEW e, NEW E, e.instrument = i, NEW s, Sound(s, i, E),
           NEW conflicted, NEW pairs, NEW evidence
    PROVE  Sound(After(s, e, conflicted, pairs, evidence), i, E \cup {e})
<1>1. Sound(s, i, E \cup {e})
  BY DEF Sound, Signals
<1>2. CASE e.kind = "signal"
  BY <1>1, <1>2 DEF After, OnSignal, Sound, Signals
<1>3. CASE e.kind = "opportunity"
  <2>1. Sound(OnOpportunity(s, e, pairs, evidence), i, E \cup {e})
    BY <1>1 DEF OnOpportunity, Sound, FlatState
  <2>2. QED
    BY <1>3, <2>1 DEF After
<1>4. CASE e.kind # "signal" /\ e.kind # "opportunity"
  BY <1>1, <1>4 DEF After
<1>5. QED
  BY <1>2, <1>3, <1>4

LEMMA HandlingShaped ==
    ASSUME NEW U, Comparable(U), NEW W, NEW evidence, NEW E \in SUBSET U, IsFiniteSet(E)
    PROVE  Shaped(Handling(W, evidence, E), W, evidence, E)
<1> DEFINE P == {F \in SUBSET U : Shaped(Handling(W, evidence, F), W, evidence, F)}
<1>1. {} \in P
  <2>1. Ordered({}) = <<>>
    BY FS_EmptySet DEF Ordered, Sorted
  <2>2. Handling(W, evidence, {}) = Begun(W, evidence)
    BY <2>1, Events!FoldEmpty DEF Handling
  <2>3. Shaped(Begun(W, evidence), W, evidence, {})
    BY DEF Shaped, Begun, Sound, FlatState
  <2>4. QED
    BY <2>2, <2>3
<1>2. ASSUME NEW F \in SUBSET U, NEW e \in U, IsFiniteSet(F), F \in P, \A x \in F : Before(x, e)
      PROVE  F \cup {e} \in P
  <2> DEFINE r == Handling(W, evidence, F)
  <2>1. Handling(W, evidence, F \cup {e}) = Handled(r, e)
    BY <1>2, ReplayStep DEF Handling
  <2>2. Shaped(r, W, evidence, F)
    BY <1>2
  <2> HIDE DEF r
  <2> DEFINE i == e.instrument
             new == After(r.states[i], e, r.conflicted, r.pairs, r.quotes)
  <2>3. Handled(r, e) = [r EXCEPT !.states = [@ EXCEPT ![i] = new]]
    BY DEF Handled
  <2>4. r = [states |-> r.states, conflicted |-> r.conflicted, pairs |-> r.pairs,
             quotes |-> r.quotes]
    BY <2>2 DEF Shaped, Begun
  <2>5. i \in Instruments => Sound(new, i, F \cup {e})
    BY <2>2, AfterSound DEF Shaped
  <2> HIDE DEF new
  <2>6. \A j \in Instruments : Sound(r.states[j], j, F \cup {e})
    BY <2>2 DEF Shaped, Sound, Signals
  <2>7. Shaped(Handled(r, e), W, evidence, F \cup {e})
    <3>1. Handled(r, e) = [Begun(W, evidence) EXCEPT !.states = [r.states EXCEPT ![i] = new]]
      BY <2>2, <2>3 DEF Shaped, Begun
    <3>2. Handled(r, e).states = [r.states EXCEPT ![i] = new]
      BY <3>1 DEF Begun
    <3>3. [r.states EXCEPT ![i] = new]
            = [j \in Instruments |-> IF j = i THEN new ELSE r.states[j]]
      BY <2>2 DEF Shaped
    <3>4. QED
      BY <2>5, <2>6, <3>1, <3>2, <3>3 DEF Shaped
  <2>8. QED
    BY <2>1, <2>7
<1> HIDE DEF P
<1>3. E \in P
  BY <1>1, <1>2, InductionOnEvents
<1>4. QED
  BY <1>3 DEF P

-----------------------------------------------------------------------------
\* What moves an instrument: its signals and its opportunities.
Moves(E, i) == {e \in E : e.instrument = i /\ e.kind \in {"signal", "opportunity"}}

\* Two timelines, each with its quotes, are the same as far as some events can tell.
Agree(W, p, V, q, E) ==
    /\ E \subseteq W /\ E \subseteq V
    /\ \A e \in E : e \in Conflicted(W) <=> e \in Conflicted(V)
    /\ \A e \in E : {x \in p : x.availability <= e.time} = {x \in q : x.availability <= e.time}

\* An event does the same to a state in both.
LEMMA AfterAgrees ==
    ASSUME NEW W, NEW p, NEW V, NEW q, NEW E, Agree(W, p, V, q, E), NEW e \in E,
           NEW i, NEW s, NEW F \in SUBSET E, Sound(s, i, F)
    PROVE  After(s, e, Conflicted(W), EligiblePairs(W), p)
             = After(s, e, Conflicted(V), EligiblePairs(V), q)
<1>1. OnSignal(s, e, Conflicted(W)) = OnSignal(s, e, Conflicted(V))
  BY DEF OnSignal, Agree
<1>2. e.kind = "opportunity" =>
          (Attempts(s, e, EligiblePairs(W)) <=> Attempts(s, e, EligiblePairs(V)))
  <2>1. CASE s.pending # NoAction
    <3>1. s.pending \in W /\ s.pending \in V /\ e \in W /\ e \in V
      BY <2>1 DEF Sound, Signals, Agree
    <3>2. QED
      BY <3>1 DEF Attempts, EligiblePairs, Signals, Opportunities
  <2>2. QED
    BY <2>1 DEF Attempts
<1>3. Resolve(AttemptFor(s.pending, e), p) = Resolve(AttemptFor(s.pending, e), q)
  <2> DEFINE a == AttemptFor(s.pending, e)
  <2>1. a.time = e.time
    BY DEF AttemptFor
  <2> HIDE DEF a
  <2>2. Legal(a, p) = {x \in {y \in p : y.availability <= e.time} : x.instrument = a.instrument}
    BY <2>1 DEF Legal
  <2>3. Legal(a, q) = {x \in {y \in q : y.availability <= e.time} : x.instrument = a.instrument}
    BY <2>1 DEF Legal
  <2>4. Legal(a, p) = Legal(a, q)
    BY <2>2, <2>3 DEF Agree
  <2>5. Resolve(a, p) = Resolve(a, q)
    BY <2>4 DEF Resolve
  <2>6. QED
    BY <2>5 DEF a
<1>4. e.kind = "opportunity" =>
          OnOpportunity(s, e, EligiblePairs(W), p) = OnOpportunity(s, e, EligiblePairs(V), q)
  BY <1>2, <1>3 DEF OnOpportunity
<1>5. QED
  BY <1>1, <1>4 DEF After

\* An instrument is where its signals and opportunities alone bring it.
LEMMA MovesAlone ==
    ASSUME NEW U, Comparable(U), NEW W, NEW p, NEW V, NEW q, NEW i \in Instruments,
           NEW E \in SUBSET U, IsFiniteSet(E), Agree(W, p, V, q, Moves(E, i))
    PROVE  Handling(W, p, E).states[i] = Handling(V, q, Moves(E, i)).states[i]
<1> DEFINE Alone(F) == Handling(W, p, F).states[i] = Handling(V, q, Moves(F, i)).states[i]
           P == {F \in SUBSET U : Moves(F, i) \subseteq Moves(E, i) => Alone(F)}
<1>1. {} \in P
  <2>1. Ordered({}) = <<>>
    BY FS_EmptySet DEF Ordered, Sorted
  <2>2. Handling(W, p, {}) = Begun(W, p) /\ Handling(V, q, {}) = Begun(V, q)
    BY <2>1, Events!FoldEmpty DEF Handling
  <2>3. Moves({}, i) = {}
    BY DEF Moves
  <2>4. Alone({})
    BY <2>2, <2>3 DEF Begun
  <2>5. QED
    BY <2>4
<1>2. ASSUME NEW F \in SUBSET U, NEW e \in U, IsFiniteSet(F), F \in P, \A x \in F : Before(x, e)
      PROVE  F \cup {e} \in P
  <2>1. SUFFICES ASSUME Moves(F \cup {e}, i) \subseteq Moves(E, i) PROVE Alone(F \cup {e})
    OBVIOUS
  <2> DEFINE r == Handling(W, p, F)
             M == Moves(F, i)
             m == Handling(V, q, M)
  <2>2. M \in SUBSET U /\ M \subseteq F /\ IsFiniteSet(M) /\ Moves(F, i) \subseteq Moves(E, i)
    <3>1. M \subseteq F /\ Moves(F, i) \subseteq Moves(F \cup {e}, i)
      BY DEF Moves
    <3>2. QED
      BY <1>2, <2>1, <3>1, FS_Subset
  <2>3. r.states[i] = m.states[i]
    BY <1>2, <2>2
  <2>4. Handling(W, p, F \cup {e}) = Handled(r, e)
    BY <1>2, ReplayStep DEF Handling
  <2>5. Shaped(r, W, p, F) /\ Shaped(m, V, q, M)
    BY <1>2, <2>2, HandlingShaped
  <2> HIDE DEF r, m
  <2>6. Handled(r, e).states = [r.states EXCEPT ![e.instrument] =
                                   After(@, e, Conflicted(W), EligiblePairs(W), p)]
    BY <2>5 DEF Handled, Shaped, Begun
  <2>7. CASE e \notin Moves(F \cup {e}, i)
    <3>1. Moves(F \cup {e}, i) = M
      BY <2>7 DEF Moves
    <3>2. e.instrument # i \/ e.kind \notin {"signal", "opportunity"}
      BY <2>7 DEF Moves
    <3>3. Handled(r, e).states[i] = r.states[i]
      <4>1. CASE e.instrument # i
        BY <2>5, <2>6, <4>1 DEF Shaped
      <4>2. CASE e.kind \notin {"signal", "opportunity"}
        BY <2>5, <2>6, <4>2 DEF Shaped, After
      <4>3. QED
        BY <3>2, <4>1, <4>2
    <3>4. QED
      BY <2>3, <2>4, <3>1, <3>3 DEF m
  <2>8. CASE e \in Moves(F \cup {e}, i)
    <3>1. Moves(F \cup {e}, i) = M \cup {e} /\ e.instrument = i
      BY <2>8 DEF Moves
    <3>2. \A x \in M : Before(x, e)
      BY <1>2, <2>2
    <3>3. Handling(V, q, M \cup {e}) = Handled(m, e)
      BY <1>2, <2>2, <3>2, ReplayStep DEF Handling, m
    <3>4. Handled(m, e).states = [m.states EXCEPT ![e.instrument] =
                                     After(@, e, Conflicted(V), EligiblePairs(V), q)]
      BY <2>5 DEF Handled, Shaped, Begun
    <3>5. Sound(r.states[i], i, M) /\ M \in SUBSET Moves(E, i) /\ e \in Moves(E, i)
      BY <2>1, <2>2, <2>3, <2>5, <2>8 DEF Shaped
    <3>6. After(r.states[i], e, Conflicted(W), EligiblePairs(W), p)
            = After(r.states[i], e, Conflicted(V), EligiblePairs(V), q)
      BY <3>5, AfterAgrees
    <3>7. Handled(r, e).states[i] = After(r.states[i], e, Conflicted(W), EligiblePairs(W), p)
      BY <2>5, <2>6, <3>1 DEF Shaped
    <3>8. Handled(m, e).states[i] = After(m.states[i], e, Conflicted(V), EligiblePairs(V), q)
      BY <2>5, <3>1, <3>4 DEF Shaped
    <3>9. QED
      BY <2>3, <2>4, <3>1, <3>3, <3>6, <3>7, <3>8
  <2>9. QED
    BY <2>7, <2>8
<1> HIDE DEF P
<1>3. E \in P
  BY <1>1, <1>2, InductionOnEvents
<1>4. QED
  BY <1>3 DEF P

LEMMA SameMoves ==
    ASSUME NEW U, Comparable(U), NEW W, NEW p, NEW V, NEW q, NEW i \in Instruments,
           NEW E \in SUBSET U, IsFiniteSet(E), NEW F \in SUBSET U, IsFiniteSet(F),
           Moves(E, i) = Moves(F, i), Agree(W, p, V, q, Moves(E, i))
    PROVE  Handling(W, p, E).states[i] = Handling(V, q, F).states[i]
<1>1. Handling(W, p, E).states[i] = Handling(V, q, Moves(E, i)).states[i]
  BY MovesAlone
<1>2. Agree(V, q, V, q, Moves(F, i))
  BY DEF Agree
<1>3. Handling(V, q, F).states[i] = Handling(V, q, Moves(F, i)).states[i]
  BY <1>2, MovesAlone
<1>4. QED
  BY <1>1, <1>3

-----------------------------------------------------------------------------
\* The histories of bars.
Bars == UNION {Range(supply) : supply \in Supplies}

LEMMA BarsTyped ==
    /\ Supplies \subseteq Seq(Bars)
    /\ \A b \in Bars : /\ b.observation \in Int /\ b.availability \in Int
                       /\ b.availability >= b.observation
<1>1. ASSUME NEW supply \in Supplies PROVE supply \in Seq(Bars)
  <2>1. supply \in Seq(Range(supply)) /\ Range(supply) \subseteq Bars
    BY SuppliesAssumption DEF Bars
  <2>2. QED
    BY <2>1
<1>2. QED
  BY <1>1, SuppliesAssumption DEF Bars, BarHolds

\* The history of an instrument has its bars, no others, in the order of the supply.
Kept(h, i, s) ==
    /\ h \in Seq(Bars)
    /\ \A k \in 1 .. Len(h) : \E m \in 1 .. Len(s) : s[m] = h[k] /\ s[m].instrument = i
    /\ \A j, k \in 1 .. Len(h) :
          j < k => \E a, b \in 1 .. Len(s) : a < b /\ s[a] = h[j] /\ s[b] = h[k]
    /\ \A m \in 1 .. Len(s) : s[m].instrument = i => \E k \in 1 .. Len(h) : h[k] = s[m]

AllKept(histories, s) ==
    /\ histories = [i \in Instruments |-> histories[i]]
    /\ \A i \in Instruments : Kept(histories[i], i, s)

LEMMA KeptAppend ==
    ASSUME NEW s \in Seq(Bars), NEW x \in Bars, NEW i, NEW h, Kept(h, i, s)
    PROVE  Kept(IF x.instrument = i THEN Append(h, x) ELSE h, i, Append(s, x))
<1> DEFINE t == Append(s, x)
           g == Append(h, x)
<1>1. /\ Len(s) \in Nat /\ Len(t) = Len(s) + 1 /\ t[Len(s) + 1] = x
      /\ \A m \in 1 .. Len(s) : t[m] = s[m]
  OBVIOUS
<1>2. h \in Seq(Bars)
  BY DEF Kept
<1>3. /\ Len(h) \in Nat /\ Len(g) = Len(h) + 1 /\ g[Len(h) + 1] = x /\ g \in Seq(Bars)
      /\ \A m \in 1 .. Len(h) : g[m] = h[m]
  BY <1>2
<1> HIDE DEF t, g
<1>4. 1 .. Len(s) \subseteq 1 .. Len(t) /\ \A m \in 1 .. Len(t) : m \in 1 .. Len(s) \/ m = Len(s) + 1
  BY <1>1
<1>5. ASSUME NEW k \in 1 .. Len(h) PROVE \E m \in 1 .. Len(s) : t[m] = h[k] /\ t[m].instrument = i
  <2>1. PICK m \in 1 .. Len(s) : s[m] = h[k] /\ s[m].instrument = i
    BY <1>5 DEF Kept
  <2>2. QED
    BY <1>1, <2>1
<1>6. ASSUME x.instrument # i PROVE Kept(h, i, t)
  <2>1. \A k \in 1 .. Len(h) : \E m \in 1 .. Len(t) : t[m] = h[k] /\ t[m].instrument = i
    BY <1>4, <1>5
  <2>2. ASSUME NEW j \in 1 .. Len(h), NEW k \in 1 .. Len(h), j < k
        PROVE  \E a, b \in 1 .. Len(t) : a < b /\ t[a] = h[j] /\ t[b] = h[k]
    <3>1. PICK a \in 1 .. Len(s), b \in 1 .. Len(s) : a < b /\ s[a] = h[j] /\ s[b] = h[k]
      BY <2>2 DEF Kept
    <3>2. a \in 1 .. Len(t) /\ b \in 1 .. Len(t) /\ t[a] = h[j] /\ t[b] = h[k]
      BY <1>1, <3>1
    <3>3. QED
      BY <3>1, <3>2
  <2>3. ASSUME NEW m \in 1 .. Len(t), t[m].instrument = i PROVE \E k \in 1 .. Len(h) : h[k] = t[m]
    <3>1. m \in 1 .. Len(s)
      BY <1>1, <1>4, <1>6, <2>3
    <3>2. t[m] = s[m]
      BY <1>1, <3>1
    <3>3. s[m].instrument = i
      BY <2>3, <3>2
    <3>4. \E k \in 1 .. Len(h) : h[k] = s[m]
      BY <3>1, <3>3 DEF Kept
    <3>5. QED
      BY <3>2, <3>4
  <2>4. QED
    BY <1>2, <2>1, <2>2, <2>3 DEF Kept
<1>7. ASSUME x.instrument = i PROVE Kept(g, i, t)
  <2>1. \A k \in 1 .. Len(g) : k \in 1 .. Len(h) \/ k = Len(h) + 1
    BY <1>3
  <2>2. Len(s) + 1 \in 1 .. Len(t)
    BY <1>1
  <2>4. ASSUME NEW k \in 1 .. Len(g) PROVE \E m \in 1 .. Len(t) : t[m] = g[k] /\ t[m].instrument = i
    <3>1. CASE k \in 1 .. Len(h)
      BY <1>3, <1>4, <1>5, <3>1
    <3>2. CASE k = Len(h) + 1
      BY <1>1, <1>3, <1>7, <2>2, <3>2
    <3>3. QED
      BY <2>1, <3>1, <3>2
  <2>5. ASSUME NEW j \in 1 .. Len(g), NEW k \in 1 .. Len(g), j < k
        PROVE  \E a, b \in 1 .. Len(t) : a < b /\ t[a] = g[j] /\ t[b] = g[k]
    <3>1. j \in 1 .. Len(h) /\ j \in Int /\ k \in Int
      BY <1>3, <2>5
    <3>2. CASE k \in 1 .. Len(h)
      <4>1. PICK a \in 1 .. Len(s), b \in 1 .. Len(s) : a < b /\ s[a] = h[j] /\ s[b] = h[k]
        BY <2>5, <3>1, <3>2 DEF Kept
      <4>2. a \in 1 .. Len(t) /\ b \in 1 .. Len(t) /\ t[a] = g[j] /\ t[b] = g[k]
        BY <1>1, <1>3, <3>1, <3>2, <4>1
      <4>3. QED
        BY <4>1, <4>2
    <3>3. CASE k = Len(h) + 1
      <4>1. PICK a \in 1 .. Len(s) : t[a] = h[j]
        BY <1>5, <3>1
      <4>2. a < Len(s) + 1 /\ a \in 1 .. Len(t) /\ t[a] = g[j] /\ t[Len(s) + 1] = g[k]
        BY <1>1, <1>3, <3>1, <3>3, <4>1
      <4>3. QED
        BY <2>2, <4>2
    <3>4. QED
      BY <2>1, <3>2, <3>3
  <2>6. ASSUME NEW m \in 1 .. Len(t), t[m].instrument = i
        PROVE  \E k \in 1 .. Len(g) : g[k] = t[m]
    <3>1. CASE m \in 1 .. Len(s)
      <4>1. PICK k \in 1 .. Len(h) : h[k] = s[m]
        BY <1>1, <2>6, <3>1 DEF Kept
      <4>2. k \in 1 .. Len(g) /\ g[k] = t[m]
        BY <1>1, <1>3, <3>1, <4>1
      <4>3. QED
        BY <4>2
    <3>2. CASE m = Len(s) + 1
      <4>1. Len(h) + 1 \in 1 .. Len(g) /\ g[Len(h) + 1] = t[m]
        BY <1>1, <1>3, <3>2
      <4>2. QED
        BY <4>1
    <3>3. QED
      BY <1>1, <3>1, <3>2
  <2>7. QED
    BY <1>3, <2>4, <2>5, <2>6 DEF Kept
<1>8. QED
  BY <1>6, <1>7 DEF t, g

LEMMA HistoriesKept == \A s \in Seq(Bars) : AllKept(HistoriesOf(s), s)
<1> DEFINE H(s) == Histories!Fold(NoHistories, s)
           P == {s \in Seq(Bars) : AllKept(H(s), s)}
<1>1. <<>> \in P
  <2>1. <<>> \in Seq(Bars) /\ Len(<<>>) = 0
    OBVIOUS
  <2>2. H(<<>>) = NoHistories
    BY Histories!FoldEmpty
  <2>3. AllKept(NoHistories, <<>>)
    BY <2>1 DEF AllKept, Kept, NoHistories
  <2>4. QED
    BY <2>1, <2>2, <2>3
<1>2. ASSUME NEW s \in Seq(Bars), NEW x \in Bars, s \in P PROVE Append(s, x) \in P
  <2>1. H(Append(s, x)) = AddBar(H(s), x)
    BY Histories!FoldAppend
  <2>2. AllKept(H(s), s)
    BY <1>2
  <2> DEFINE h == H(s)
  <2> HIDE DEF h
  <2>3. AddBar(h, x)
          = [i \in Instruments |-> IF x.instrument = i THEN Append(h[i], x) ELSE h[i]]
    BY <2>2 DEF AddBar, AllKept, h
  <2>4. ASSUME NEW i \in Instruments PROVE Kept(AddBar(h, x)[i], i, Append(s, x))
    <3>1. Kept(h[i], i, s)
      BY <2>2 DEF AllKept, h
    <3>2. Kept(IF x.instrument = i THEN Append(h[i], x) ELSE h[i], i, Append(s, x))
      BY <3>1, KeptAppend
    <3>3. QED
      BY <2>3, <3>2
  <2>5. AllKept(AddBar(h, x), Append(s, x))
    BY <2>3, <2>4 DEF AllKept
  <2>6. Append(s, x) \in Seq(Bars)
    OBVIOUS
  <2>7. QED
    BY <2>1, <2>5, <2>6 DEF h
<1> HIDE DEF P
<1>3. \A s \in Seq(Bars) : s \in P
  BY <1>1, <1>2, Histories!InductionOnSeq
<1>4. \A s : HistoriesOf(s) = H(s)
  BY DEF HistoriesOf, Histories!Fold, FoldLeft, Histories!FoldLeft, MapThenFoldSet,
         Histories!MapThenFoldSet, Max, Histories!Max
<1>5. QED
  BY <1>3, <1>4 DEF P

\* In a valid supply the bars of an instrument are observed one after the other.
Chronological(h) == \A j, k \in 1 .. Len(h) : j < k => h[j].observation < h[k].observation

LEMMA ValidIsChronological ==
    ASSUME NEW s \in Seq(Bars), ValidBars(s), NEW i \in Instruments
    PROVE  Chronological(HistoriesOf(s)[i])
<1> DEFINE h == HistoriesOf(s)[i]
<1>1. Kept(h, i, s)
  BY HistoriesKept DEF AllKept
<1> HIDE DEF h
<1>2. SUFFICES ASSUME NEW j \in 1 .. Len(h), NEW k \in 1 .. Len(h), j < k
               PROVE  h[j].observation < h[k].observation
  BY DEF Chronological, h
<1>3. PICK a \in 1 .. Len(s), b \in 1 .. Len(s) : a < b /\ s[a] = h[j] /\ s[b] = h[k]
  BY <1>1, <1>2 DEF Kept
<1>4. a \in DOMAIN s /\ b \in DOMAIN s
  BY <1>3
<1>5. s[a].observation <= s[b].observation /\ Identity(s[a]) # Identity(s[b])
  BY <1>3, <1>4 DEF ValidBars
<1>6. s[a].interval = s[b].interval
  BY <1>4 DEF ValidBars, InScope
<1>7. s[a].instrument = i /\ s[b].instrument = i
  <2>1. \A n \in 1 .. Len(h) : h[n].instrument = i
    BY <1>1 DEF Kept
  <2>2. QED
    BY <1>2, <1>3, <2>1
<1>8. s[a].observation # s[b].observation
  BY <1>5, <1>6, <1>7 DEF Identity
<1>9. s[a] \in Bars /\ s[b] \in Bars
  BY <1>3
<1>10. QED
  BY <1>3, <1>5, <1>8, <1>9, BarsTyped

-----------------------------------------------------------------------------
\* Features, and the order in which they are decided upon.

\* A finite set of instants has a latest one.
LEMMA MaxIsGreatest ==
    ASSUME NEW S \in SUBSET Int, IsFiniteSet(S), S # {}
    PROVE  Max(S) \in S /\ \A x \in S : x <= Max(S)
<1> DEFINE R == {p \in S \X S : p[1] < p[2]}
           n == Cardinality(S)
           s == Events!SortedBy(S, R)
<1>1. Events!Orders(R, S)
  BY DEF Events!Orders
<1>2. n \in Nat /\ n # 0
  BY FS_CardinalityType, FS_EmptySet
<1> HIDE DEF R
<1>4. /\ s \in Seq(S) /\ Len(s) = n
      /\ \A x \in S : \E k \in 1 .. n : s[k] = x
      /\ \A j, k \in 1 .. n : j < k => <<s[j], s[k]>> \in R
  BY <1>1, SortedInOrder
<1> HIDE DEF s, n
<1>5. s[n] \in S /\ n \in 1 .. n
  BY <1>2, <1>4
<1>6. ASSUME NEW x \in S PROVE s[n] >= x
  <2>1. PICK k \in 1 .. n : s[k] = x
    BY <1>4
  <2>2. k = n \/ k < n
    BY <1>2
  <2>3. k < n => x < s[n]
    <3>1. k < n => <<s[k], s[n]>> \in R
      BY <1>4, <1>5
    <3>2. QED
      BY <2>1, <3>1 DEF R
  <2>4. s[n] \in Int /\ x \in Int
    BY <1>5
  <2>5. CASE k = n
    BY <2>1, <2>4, <2>5
  <2>6. CASE k < n
    BY <2>3, <2>4, <2>6
  <2>7. QED
    BY <2>2, <2>5, <2>6
<1>7. QED
  BY <1>5, <1>6 DEF Max

\* The values of a function on a finite set are finitely many.
LEMMA FiniteImage ==
    ASSUME NEW S, IsFiniteSet(S), NEW f, DOMAIN f = S
    PROVE  IsFiniteSet({f[x] : x \in S})
<1> DEFINE T == {f[x] : x \in S}
           g == [x \in S |-> f[x]]
<1>1. g \in Surjection(S, T)
  BY DEF Surjection
<1>2. QED
  BY <1>1, FS_Surjection

IsHistory(h) == h \in Seq(Bars) /\ Chronological(h)

\* The first bar of a window.
First(k) == Max({1, k - Window + 1})

LEMMA WindowIs ==
    ASSUME NEW h \in Seq(Bars), NEW k \in 1 .. Len(h), NEW i
    PROVE  /\ First(k) \in 1 .. k /\ First(k) \in {1, k - Window + 1}
           /\ FeatureAt(i, h, k).availability \in Int
           /\ \A j \in First(k) .. k : h[j].availability <= FeatureAt(i, h, k).availability
           /\ \E j \in First(k) .. k : h[j].availability = FeatureAt(i, h, k).availability
<1>1. k \in Int /\ 1 <= k /\ k <= Len(h) /\ Window \in Int /\ Window >= 1
  BY WindowAssumption
<1>2. First(k) \in {1, k - Window + 1} /\ 1 <= First(k) /\ k - Window + 1 <= First(k)
  <2>1. IsFiniteSet({1}) /\ IsFiniteSet({1} \cup {k - Window + 1})
    BY FS_Singleton, FS_AddElement
  <2>2. {1, k - Window + 1} = {1} \cup {k - Window + 1}
    OBVIOUS
  <2>3. {1, k - Window + 1} \in SUBSET Int
    BY <1>1
  <2>4. QED
    BY <2>1, <2>2, <2>3, MaxIsGreatest DEF First
<1>3. First(k) \in 1 .. k /\ First(k) \in {1, k - Window + 1}
  BY <1>1, <1>2
<1> DEFINE W == First(k) .. k
           A == {b.availability : b \in WindowOf(h, k)}
           f == [j \in W |-> h[j].availability]
<1>4. A = {f[j] : j \in W}
  BY DEF WindowOf, First
<1>5. \A j \in W : j \in 1 .. Len(h) /\ h[j] \in Bars
  BY <1>1, <1>3
<1>6. A \in SUBSET Int
  BY <1>4, <1>5, BarsTyped
<1>7. IsFiniteSet(A)
  <2>1. IsFiniteSet(W)
    BY <1>1, <1>3, FS_Interval
  <2>2. DOMAIN f = W
    OBVIOUS
  <2>3. IsFiniteSet({f[j] : j \in W})
    <3> HIDE DEF f, W
    <3>1. QED
      BY <2>1, <2>2, FiniteImage
  <2>4. QED
    BY <1>4, <2>3
<1>8. A # {}
  <2>1. First(k) \in W
    BY <1>1, <1>3
  <2>2. f[First(k)] \in A
    BY <1>4, <2>1
  <2>3. QED
    BY <2>2
<1>9. Max(A) \in A /\ \A x \in A : x <= Max(A)
  <2> HIDE DEF A
  <2>1. QED
    BY <1>6, <1>7, <1>8, MaxIsGreatest
<1>10. FeatureAt(i, h, k).availability = Max(A)
  BY DEF FeatureAt
<1>11. QED
  BY <1>3, <1>4, <1>6, <1>9, <1>10

AreHistories(H) == \A i \in Instruments : IsHistory(H[i])

LEMMA FeaturesTyped ==
    ASSUME NEW H, AreHistories(H)
    PROVE  /\ IsFiniteSet(Features(H))
           /\ \A f \in Features(H) :
                 \E i \in Instruments : \E k \in 1 .. Len(H[i]) : f = FeatureAt(i, H[i], k)
           /\ \A f \in Features(H) : /\ f.instrument \in Instruments /\ f.instrument \in Int
                                     /\ f.observation \in Int /\ f.availability \in Int
<1> DEFINE Of(i) == {FeatureAt(i, H[i], k) : k \in DOMAIN H[i]}
           all == [i \in Instruments |-> Of(i)]
<1>1. ASSUME NEW i \in Instruments PROVE H[i] \in Seq(Bars) /\ DOMAIN H[i] = 1 .. Len(H[i])
  BY DEF AreHistories, IsHistory
<1>2. ASSUME NEW i \in Instruments PROVE IsFiniteSet(Of(i))
  <2> DEFINE f == [k \in DOMAIN H[i] |-> FeatureAt(i, H[i], k)]
  <2>1. Of(i) = {f[k] : k \in DOMAIN H[i]} /\ DOMAIN f = DOMAIN H[i]
    OBVIOUS
  <2>2. IsFiniteSet(DOMAIN H[i])
    <3>1. Len(H[i]) \in Int
      BY <1>1
    <3>2. IsFiniteSet(1 .. Len(H[i]))
      BY <3>1, FS_Interval
    <3>3. QED
      BY <1>1, <3>2
  <2> HIDE DEF f
  <2>3. QED
    BY <2>1, <2>2, FiniteImage
<1>3. Features(H) = UNION {all[i] : i \in Instruments}
  BY DEF Features
<1>4. IsFiniteSet(Features(H))
  <2>1. DOMAIN all = Instruments /\ \A i \in Instruments : IsFiniteSet(all[i])
    BY <1>2
  <2> HIDE DEF all
  <2>2. IsFiniteSet({all[i] : i \in Instruments})
    BY <2>1, InstrumentsAssumption, FiniteImage
  <2>3. \A T \in {all[i] : i \in Instruments} : IsFiniteSet(T)
    BY <2>1
  <2>4. QED
    BY <1>3, <2>2, <2>3, FS_UNION
<1>5. ASSUME NEW f \in Features(H)
      PROVE  \E i \in Instruments : \E k \in 1 .. Len(H[i]) : f = FeatureAt(i, H[i], k)
  BY <1>1 DEF Features
<1>6. ASSUME NEW f \in Features(H)
      PROVE  /\ f.instrument \in Instruments /\ f.instrument \in Int
             /\ f.observation \in Int /\ f.availability \in Int
  <2>1. PICK i \in Instruments : \E k \in 1 .. Len(H[i]) : f = FeatureAt(i, H[i], k)
    BY <1>5
  <2>2. PICK k \in 1 .. Len(H[i]) : f = FeatureAt(i, H[i], k)
    BY <2>1
  <2>3. f.instrument = i /\ f.observation = H[i][k].observation
    BY <2>2 DEF FeatureAt
  <2>4. H[i][k] \in Bars
    BY <1>1
  <2>5. f.availability \in Int
    BY <1>1, <2>2, WindowIs
  <2>6. QED
    BY <2>3, <2>4, <2>5, InstrumentsAssumption, BarsTyped
<1>7. QED
  BY <1>4, <1>5, <1>6

\* Features of one instrument and one observation are one.
LEMMA FeaturesDiffer ==
    ASSUME NEW H, AreHistories(H), NEW f \in Features(H), NEW g \in Features(H),
           f.instrument = g.instrument, f.observation = g.observation
    PROVE  f = g
<1> DEFINE i == f.instrument
<1>0. ASSUME NEW e \in Features(H), e.instrument = i
      PROVE  \E k \in 1 .. Len(H[i]) : e = FeatureAt(i, H[i], k)
  <2>1. PICK n \in Instruments : \E k \in 1 .. Len(H[n]) : e = FeatureAt(n, H[n], k)
    BY FeaturesTyped
  <2>2. n = e.instrument
    BY <2>1 DEF FeatureAt
  <2>3. QED
    BY <1>0, <2>1, <2>2
<1>1. PICK j \in 1 .. Len(H[i]) : f = FeatureAt(i, H[i], j)
  BY <1>0
<1>2. PICK k \in 1 .. Len(H[i]) : g = FeatureAt(i, H[i], k)
  BY <1>0
<1>3. i \in Instruments
  BY FeaturesTyped
<1> HIDE DEF i
<1>4. H[i][j].observation = H[i][k].observation
  BY <1>1, <1>2 DEF FeatureAt
<1>5. H[i] \in Seq(Bars) /\ Chronological(H[i])
  BY <1>3 DEF AreHistories, IsHistory
<1>6. H[i][j].observation \in Int
  BY <1>5, BarsTyped
<1>7. j = k
  <2>1. j \in Int /\ k \in Int
    OBVIOUS
  <2>2. ~(j < k) /\ ~(k < j)
    BY <1>4, <1>5, <1>6 DEF Chronological
  <2>3. QED
    BY <2>1, <2>2
<1>8. QED
  BY <1>1, <1>2, <1>7

\* The order of decisions.
EarlierPairs(D) == {p \in D \X D : Earlier(p[1], p[2])}

LEMMA EarlierIsAnOrder ==
    ASSUME NEW H, AreHistories(H), NEW D \in SUBSET Features(H)
    PROVE  /\ Events!Orders(EarlierPairs(Features(H)), D)
           /\ Sorted(D, Earlier) = Events!SortedBy(D, EarlierPairs(Features(H)))
<1> DEFINE R == EarlierPairs(Features(H))
<1>1. \A f, g, e \in D : /\ ~Earlier(f, f)
                         /\ f # g => Earlier(f, g) \/ Earlier(g, f)
                         /\ Earlier(f, g) /\ Earlier(g, e) => Earlier(f, e)
  <2>1. \A f \in D : f.instrument \in Int /\ f.observation \in Int /\ f.availability \in Int
    BY FeaturesTyped
  <2>2. \A f, g \in D : f.instrument = g.instrument /\ f.observation = g.observation => f = g
    BY FeaturesDiffer
  <2>3. QED
    BY <2>1, <2>2 DEF Earlier
<1>2. Events!Orders(R, D)
  BY <1>1 DEF Events!Orders, EarlierPairs
<1>3. ASSUME NEW x \in D PROVE {y \in D : Earlier(y, x)} = {y \in D : <<y, x>> \in R}
  BY DEF EarlierPairs
<1> DEFINE At(k) == CHOOSE x \in D : Cardinality({y \in D : Earlier(y, x)}) = k - 1
           Nth(k) == CHOOSE x \in D : Events!Rank(D, R, x) = k - 1
<1>4. ASSUME NEW k PROVE At(k) = Nth(k)
  <2>1. \A x : (x \in D /\ Cardinality({y \in D : Earlier(y, x)}) = k - 1)
                 <=> (x \in D /\ Events!Rank(D, R, x) = k - 1)
    BY <1>3, SameNotions DEF Events!Rank
  <2>2. QED
    BY <2>1, Zenon
<1>5. Sorted(D, Earlier) = [k \in 1 .. Cardinality(D) |-> At(k)]
  BY DEF Sorted
<1>6. Events!SortedBy(D, R) = [k \in 1 .. Cardinality(D) |-> Nth(k)]
  BY SameNotions DEF Events!SortedBy
<1> HIDE DEF At, Nth
<1>7. Sorted(D, Earlier) = Events!SortedBy(D, R)
  BY <1>4, <1>5, <1>6
<1>8. QED
  BY <1>2, <1>7

\* No instrument is decided upon twice at one instant, and instants are not left again.
LEMMA DecisionsInOrder ==
    ASSUME NEW H, AreHistories(H)
    PROVE  /\ DecisionOrder(H) \in Seq(Features(H))
           /\ \A k \in 1 .. Len(DecisionOrder(H)) : DecisionOrder(H)[k] \in DecisionSnapshots(H)
           /\ \A f \in DecisionSnapshots(H) :
                 \E k \in 1 .. Len(DecisionOrder(H)) : DecisionOrder(H)[k] = f
           /\ \A j, k \in 1 .. Len(DecisionOrder(H)) : j < k =>
                 LET f == DecisionOrder(H)[j]
                     g == DecisionOrder(H)[k]
                 IN  /\ f.availability <= g.availability
                     /\ f.instrument = g.instrument => f.availability < g.availability
<1> DEFINE D == DecisionSnapshots(H)
           s == DecisionOrder(H)
           n == Cardinality(D)
<1>1. D \in SUBSET Features(H)
  BY DEF DecisionSnapshots
<1>2. IsFiniteSet(D)
  BY <1>1, FeaturesTyped, FS_Subset
<1> HIDE DEF D
<1> DEFINE R == EarlierPairs(Features(H))
<1>3. Events!Orders(R, D) /\ s = Events!SortedBy(D, R)
  BY <1>1, EarlierIsAnOrder DEF DecisionOrder, D
<1> HIDE DEF R
<1>5. /\ s \in Seq(D) /\ Len(s) = n
      /\ \A f \in D : \E k \in 1 .. n : s[k] = f
      /\ \A j, k \in 1 .. n : j < k => <<s[j], s[k]>> \in R
  BY <1>2, <1>3, SortedInOrder
<1> HIDE DEF s, n
<1>6. s \in Seq(Features(H)) /\ \A k \in 1 .. Len(s) : s[k] \in D
  BY <1>1, <1>5
<1>7. ASSUME NEW j \in 1 .. Len(s), NEW k \in 1 .. Len(s), j < k
      PROVE  /\ s[j].availability <= s[k].availability
             /\ s[j].instrument = s[k].instrument => s[j].availability < s[k].availability
  <2> DEFINE f == s[j]
             g == s[k]
  <2>1. f \in D /\ g \in D /\ Earlier(f, g)
    BY <1>5, <1>6, <1>7 DEF EarlierPairs, R
  <2> HIDE DEF f, g
  <2>2. /\ f.availability \in Int /\ g.availability \in Int
        /\ f.observation \in Int /\ g.observation \in Int
        /\ f.instrument \in Int /\ g.instrument \in Int
    BY <1>1, <2>1, FeaturesTyped
  <2>3. f.instrument = g.instrument /\ f.availability = g.availability
          => g.observation <= f.observation
    BY <1>1, <2>1 DEF D, DecisionSnapshots
  <2>4. /\ f.availability <= g.availability
        /\ f.instrument = g.instrument => f.availability < g.availability
    BY <2>1, <2>2, <2>3 DEF Earlier
  <2>5. QED
    BY <2>4 DEF f, g
<1>8. QED
  BY <1>5, <1>6, <1>7 DEF s, D

-----------------------------------------------------------------------------
\* The run.

IsASequence(s) == \E S : s \in Seq(S)

LEMMA AppendIsASequence ==
    ASSUME NEW s, IsASequence(s), NEW x
    PROVE  /\ IsASequence(Append(s, x)) /\ Len(s) \in Nat /\ Len(Append(s, x)) = Len(s) + 1
           /\ DOMAIN s = 1 .. Len(s)
           /\ Append(s, x)[Len(s) + 1] = x
           /\ \A k \in 1 .. Len(s) : Append(s, x)[k] = s[k]
<1>1. PICK S : s \in Seq(S)
  BY DEF IsASequence
<1> DEFINE T == S \cup {x}
<1>2. s \in Seq(T) /\ x \in T
  BY <1>1
<1> HIDE DEF T
<1>3. Append(s, x) \in Seq(T)
  BY <1>2
<1>4. QED
  BY <1>2, <1>3 DEF IsASequence

\* What the loop makes of a snapshot.
EvaluationOf(f, signals, chances, evidence) ==
    LET state == StateBefore(signals, chances, evidence, f)
    IN  [feature |-> f, state |-> state, disposition |-> Disposition(f, state, Proposal(f, state))]

\* A signal is what the strategy proposed at an evaluation.
ProposedAt(s, done) ==
    LET type == Proposal(done.feature, done.state)
    IN  type # "none" /\ s = SignalEvent(done.feature, type)

\* A loop has decided on the first snapshots of the order; what it decided on is what its
\* signals of now and the opportunities say of then.
Right(r, order, chances, evidence) ==
    LET n == Len(r.evaluations)
    IN  /\ r = [signals |-> r.signals, evaluations |-> r.evaluations]
        /\ IsASequence(r.evaluations) /\ n <= Len(order)
        /\ \A k \in 1 .. n : r.evaluations[k] = EvaluationOf(order[k], r.signals, chances, evidence)
        /\ IsFiniteSet(r.signals)
        /\ \A s : s \in r.signals <=> \E k \in 1 .. n : ProposedAt(s, r.evaluations[k])

\* Instants are not left again.
InOrder(order) ==
    /\ IsASequence(order)
    /\ \A k \in 1 .. Len(order) : order[k].availability \in Int
    /\ \A j, k \in 1 .. Len(order) : j < k => order[j].availability <= order[k].availability

LEMMA NothingIsRight ==
    ASSUME NEW order, IsASequence(order), NEW chances, NEW evidence
    PROVE  Right(NothingDecided, order, chances, evidence) /\ Len(NothingDecided.evaluations) = 0
<1>1. NothingDecided.signals = {} /\ NothingDecided.evaluations = <<>>
  BY DEF NothingDecided
<1>2. IsASequence(<<>>) /\ Len(<<>>) = 0 /\ IsFiniteSet({})
  <2>1. <<>> \in Seq({})
    OBVIOUS
  <2>2. QED
    BY <2>1, FS_EmptySet DEF IsASequence
<1>3. Len(order) \in Nat
  BY AppendIsASequence
<1>4. QED
  BY <1>1, <1>2, <1>3 DEF Right, NothingDecided

LEMMA DecideIsRight ==
    ASSUME NEW order, InOrder(order), NEW chances, NEW evidence,
           NEW r, Right(r, order, chances, evidence), NEW n, n = Len(r.evaluations), n < Len(order)
    PROVE  LET d == Decide(r, order[n + 1], chances, evidence)
           IN  Right(d, order, chances, evidence) /\ Len(d.evaluations) = n + 1
<1> DEFINE f == order[n + 1]
           d == Decide(r, f, chances, evidence)
           state == StateBefore(r.signals, chances, evidence, f)
           type == Proposal(f, state)
           done == EvaluationOf(f, r.signals, chances, evidence)
           signals == r.signals \cup IF type = "none" THEN {} ELSE {SignalEvent(f, type)}
<1>1. d = [signals |-> signals, evaluations |-> Append(r.evaluations, done)]
  BY DEF Decide, EvaluationOf
<1>2. /\ IsASequence(r.evaluations) /\ IsFiniteSet(r.signals)
      /\ \A k \in 1 .. n : r.evaluations[k] = EvaluationOf(order[k], r.signals, chances, evidence)
      /\ \A s : s \in r.signals <=> \E k \in 1 .. n : ProposedAt(s, r.evaluations[k])
  BY DEF Right
<1>3. done.feature = f /\ done.state = state
  BY DEF EvaluationOf
<1>4. Len(order) \in Nat
  BY AppendIsASequence DEF InOrder
<1> HIDE DEF d, done, state
<1>5. /\ d = [signals |-> d.signals, evaluations |-> d.evaluations]
      /\ d.signals = signals /\ d.evaluations = Append(r.evaluations, done)
  BY <1>1
<1>6. /\ IsASequence(d.evaluations) /\ n \in Nat /\ Len(d.evaluations) = n + 1
      /\ d.evaluations[n + 1] = done
      /\ \A k \in 1 .. n : d.evaluations[k] = r.evaluations[k]
  BY <1>2, <1>5, AppendIsASequence
<1>7. n + 1 <= Len(order) /\ \A k \in 1 .. n + 1 : k \in 1 .. n \/ k = n + 1
  BY <1>4, <1>6
<1> HIDE DEF signals
<1>8. IsFiniteSet(signals)
  BY <1>2, FS_AddElement DEF signals
<1>9. ASSUME NEW s PROVE s \in signals <=> \E k \in 1 .. n + 1 : ProposedAt(s, d.evaluations[k])
  <2>1. ProposedAt(s, done) <=> type # "none" /\ s = SignalEvent(f, type)
    BY <1>3 DEF ProposedAt
  <2> HIDE DEF type
  <2>2. s \in signals <=> s \in r.signals \/ ProposedAt(s, done)
    BY <2>1 DEF signals
  <2>3. (\E k \in 1 .. n + 1 : ProposedAt(s, d.evaluations[k]))
          <=> (\E k \in 1 .. n : ProposedAt(s, r.evaluations[k])) \/ ProposedAt(s, done)
    <3>1. n + 1 \in 1 .. n + 1 /\ 1 .. n \subseteq 1 .. n + 1
      BY <1>6
    <3>2. QED
      BY <1>6, <1>7, <3>1
  <2>4. QED
    BY <1>2, <2>2, <2>3
<1>10. ASSUME NEW g, g.availability \in Int, g.availability <= f.availability,
              f.availability \in Int
       PROVE  EvaluationOf(g, signals, chances, evidence)
                = EvaluationOf(g, r.signals, chances, evidence)
  <2>1. \A s \in signals : s \in r.signals \/ s.time = f.availability
    BY DEF signals, SignalEvent
  <2>2. r.signals \subseteq signals
    BY DEF signals
  <2>3. {e \in signals \cup chances : e.time < g.availability}
          = {e \in r.signals \cup chances : e.time < g.availability}
    BY <1>10, <2>1, <2>2
  <2>4. QED
    BY <2>3 DEF EvaluationOf, StateBefore
<1>11. ASSUME NEW k \in 1 .. n + 1
       PROVE  d.evaluations[k] = EvaluationOf(order[k], signals, chances, evidence)
  <2>1. k \in 1 .. Len(order) /\ n + 1 \in 1 .. Len(order) /\ (k < n + 1 \/ k = n + 1)
    BY <1>4, <1>6, <1>7
  <2>2. order[k].availability \in Int /\ f.availability \in Int
        /\ order[k].availability <= f.availability
    BY <2>1 DEF InOrder
  <2>3. d.evaluations[k] = EvaluationOf(order[k], r.signals, chances, evidence)
    BY <1>2, <1>6, <1>7 DEF done
  <2>4. QED
    BY <1>10, <2>2, <2>3
<1>12. QED
  BY <1>5, <1>6, <1>7, <1>8, <1>9, <1>11 DEF Right, d

\* The loop of now has the others of the order to come.
Decided ==
    LET order == DecisionOrder(bars)
        n == Len(run.evaluations)
    IN  /\ Right(run, order, opportunities, quotes)
        /\ undecided \in Seq(Features(bars)) /\ Len(order) = n + Len(undecided)
        /\ \A k \in 1 .. Len(undecided) : undecided[k] = order[n + k]

Supplied ==
    /\ supplied \in Supplies /\ opportunities \subseteq OpportunityUniverse
    /\ quotes \subseteq QuoteUniverse

SimInv ==
    /\ Supplied
    /\ stage \in {"supplied", "accepted", "refused"}
    /\ stage = "accepted" => /\ ValidBars(supplied) /\ bars = HistoriesOf(supplied)
                             /\ Decided
    /\ stage # "accepted" => undecided = <<>> /\ run = NothingDecided /\ ~final.made
    /\ final.made => undecided = <<>>

LEMMA AcceptedHistories ==
    ASSUME NEW supply \in Supplies, ValidBars(supply)
    PROVE  AreHistories(HistoriesOf(supply))
<1>1. supply \in Seq(Bars)
  BY BarsTyped
<1>2. ASSUME NEW i \in Instruments PROVE IsHistory(HistoriesOf(supply)[i])
  BY <1>1, HistoriesKept, ValidIsChronological DEF AllKept, Kept, IsHistory
<1>3. QED
  BY <1>2 DEF AreHistories

LEMMA DecisionsAreInOrder ==
    ASSUME NEW H, AreHistories(H)
    PROVE  InOrder(DecisionOrder(H)) /\ DecisionOrder(H) \in Seq(Features(H))
<1>1. DecisionOrder(H) \in Seq(Features(H))
  BY DecisionsInOrder
<1>2. ASSUME NEW k \in 1 .. Len(DecisionOrder(H)) PROVE DecisionOrder(H)[k].availability \in Int
  <2>1. DecisionOrder(H)[k] \in Features(H)
    BY <1>1
  <2>2. QED
    BY <2>1, FeaturesTyped
<1>3. \A j, k \in 1 .. Len(DecisionOrder(H)) :
          j < k => DecisionOrder(H)[j].availability <= DecisionOrder(H)[k].availability
  BY DecisionsInOrder
<1>4. QED
  BY <1>1, <1>2, <1>3 DEF InOrder, IsASequence

\* What the loop has decided, one decision at a time.
LEMMA DecidedSays ==
    ASSUME AreHistories(bars), Decided
    PROVE  /\ Len(run.evaluations) \in Nat /\ DOMAIN run.evaluations = 1 .. Len(run.evaluations)
           /\ Len(run.evaluations) <= Len(DecisionOrder(bars))
           /\ \A k \in 1 .. Len(run.evaluations) :
                 LET f == run.evaluations[k].feature IN
                 /\ f = DecisionOrder(bars)[k] /\ f \in Features(bars)
                 /\ run.evaluations[k].state = StateBefore(run.signals, opportunities, quotes, f)
           /\ IsFiniteSet(run.signals)
           /\ \A s \in run.signals :
                 \E k \in 1 .. Len(run.evaluations) : ProposedAt(s, run.evaluations[k])
<1> DEFINE order == DecisionOrder(bars)
           n == Len(run.evaluations)
<1>1. /\ IsASequence(run.evaluations) /\ n <= Len(order) /\ IsFiniteSet(run.signals)
      /\ \A k \in 1 .. n : run.evaluations[k]
             = EvaluationOf(order[k], run.signals, opportunities, quotes)
      /\ \A s \in run.signals : \E k \in 1 .. n : ProposedAt(s, run.evaluations[k])
  BY DEF Decided, Right
<1>2. n \in Nat /\ DOMAIN run.evaluations = 1 .. n
  BY <1>1, AppendIsASequence
<1>3. order \in Seq(Features(bars))
  BY DecisionsInOrder
<1> HIDE DEF order, n
<1>4. ASSUME NEW k \in 1 .. n
      PROVE  LET f == run.evaluations[k].feature IN
             /\ f = order[k] /\ f \in Features(bars)
             /\ run.evaluations[k].state = StateBefore(run.signals, opportunities, quotes, f)
  <2>1. k \in 1 .. Len(order)
    BY <1>1, <1>2, <1>3
  <2>2. order[k] \in Features(bars)
    BY <1>3, <2>1
  <2>3. /\ run.evaluations[k].feature = order[k]
        /\ run.evaluations[k].state = StateBefore(run.signals, opportunities, quotes, order[k])
    <3>1. run.evaluations[k] = EvaluationOf(order[k], run.signals, opportunities, quotes)
      BY <1>1
    <3>2. QED
      BY <3>1 DEF EvaluationOf
  <2>4. QED
    BY <2>2, <2>3
<1>5. QED
  BY <1>1, <1>2, <1>4 DEF n, order

\* Signals tell the decision they come from: no two are of one instrument and one instant.
LEMMA SignalsApart ==
    ASSUME AreHistories(bars), Decided
    PROVE  /\ \A s \in run.signals :
                 /\ s.kind = "signal" /\ s.id \in Int /\ s.time \in Int /\ s.instrument \in Int
                 /\ s.instrument \in Instruments /\ s.type \in {"entry", "exit"}
           /\ \A s, t \in run.signals :
                 s.instrument = t.instrument /\ s.time = t.time => s = t
<1> DEFINE order == DecisionOrder(bars)
           n == Len(run.evaluations)
<1>1. /\ n \in Nat /\ n <= Len(order)
      /\ \A k \in 1 .. n : run.evaluations[k].feature = order[k] /\ order[k] \in Features(bars)
  BY DecidedSays
<1>2. \A s \in run.signals : \E k \in 1 .. n : ProposedAt(s, run.evaluations[k])
  BY DecidedSays
<1>3. \A j, k \in 1 .. n : j < k /\ order[j].instrument = order[k].instrument =>
          order[j].availability < order[k].availability
  <2>1. order \in Seq(Features(bars)) /\ \A j, k \in 1 .. Len(order) :
            j < k /\ order[j].instrument = order[k].instrument =>
            order[j].availability < order[k].availability
    BY DecisionsInOrder
  <2> HIDE DEF order, n
  <2>2. 1 .. n \subseteq 1 .. Len(order)
    BY <1>1, <2>1
  <2>3. QED
    BY <2>1, <2>2
<1> HIDE DEF order, n
<1>4. ASSUME NEW s, NEW k \in 1 .. n, ProposedAt(s, run.evaluations[k])
      PROVE  /\ s = SignalEvent(order[k], s.type) /\ s.type \in {"entry", "exit"}
             /\ s.type = Proposal(order[k], run.evaluations[k].state)
  BY <1>1, <1>4 DEF ProposedAt, SignalEvent, Proposal
<1>5. ASSUME NEW s \in run.signals
      PROVE  /\ s.kind = "signal" /\ s.id \in Int /\ s.time \in Int /\ s.instrument \in Int
             /\ s.instrument \in Instruments /\ s.type \in {"entry", "exit"}
  <2>1. PICK k \in 1 .. n : ProposedAt(s, run.evaluations[k])
    BY <1>2
  <2>2. s = SignalEvent(order[k], s.type) /\ order[k] \in Features(bars)
    BY <1>1, <1>4, <2>1
  <2>3. QED
    BY <1>4, <2>1, <2>2, FeaturesTyped DEF SignalEvent
<1>6. ASSUME NEW s \in run.signals, NEW t \in run.signals,
             s.instrument = t.instrument, s.time = t.time
      PROVE  s = t
  <2>1. PICK j \in 1 .. n : ProposedAt(s, run.evaluations[j])
    BY <1>2
  <2>2. PICK k \in 1 .. n : ProposedAt(t, run.evaluations[k])
    BY <1>2
  <2>3. s = SignalEvent(order[j], s.type) /\ t = SignalEvent(order[k], t.type)
    BY <1>4, <2>1, <2>2
  <2>4. /\ order[j].instrument = order[k].instrument
        /\ order[j].availability = order[k].availability
    BY <1>6, <2>3 DEF SignalEvent
  <2>5. order[j].availability \in Int /\ order[k].availability \in Int
    BY <1>1, FeaturesTyped
  <2>6. j = k
    <3>1. j \in Int /\ k \in Int
      BY <1>1
    <3>2. ~(j < k) /\ ~(k < j)
      BY <1>3, <2>4, <2>5
    <3>3. QED
      BY <3>1, <3>2
  <2>7. QED
    BY <2>1, <2>2, <2>6 DEF ProposedAt
<1>7. QED
  BY <1>5, <1>6

\* The events of a run are finitely many, each at a place of its own.
LEMMA EventsComparable ==
    ASSUME Supplied, AreHistories(bars), Decided
    PROVE  Comparable(AllEvents) /\ IsFiniteSet(AllEvents)
<1> DEFINE seen == {FeatureEvent(f) : f \in Features(bars)}
<1>1. \A e \in seen : /\ e.kind = "feature" /\ e.id \in Int /\ e.time \in Int
                      /\ e.instrument \in Int /\ e.type = "none"
                      /\ e = [id |-> e.id, kind |-> "feature", time |-> e.time,
                              instrument |-> e.instrument, type |-> "none"]
  BY FeaturesTyped DEF FeatureEvent
<1>2. \A s \in run.signals : /\ s.kind = "signal" /\ s.id \in Int /\ s.time \in Int
                             /\ s.instrument \in Int
  BY SignalsApart
<1>3. \A s, t \in run.signals : s.instrument = t.instrument /\ s.time = t.time => s = t
  BY SignalsApart
<1>4. \A o \in opportunities : /\ o.kind = "opportunity" /\ o.id \in Int /\ o.time \in Int
                               /\ o.instrument \in Int
  BY OpportunitiesAssumption DEF Supplied
<1>5. \A o, p \in opportunities : o # p => Before(o, p) \/ Before(p, o)
  BY OpportunitiesAssumption DEF Supplied
<1>6. AllEvents = seen \cup run.signals \cup opportunities
  BY DEF AllEvents
<1>7. IsFiniteSet(AllEvents)
  <2> DEFINE event == [f \in Features(bars) |-> FeatureEvent(f)]
  <2>1. seen = {event[f] : f \in Features(bars)} /\ DOMAIN event = Features(bars)
    OBVIOUS
  <2>2. IsFiniteSet({event[f] : f \in Features(bars)})
    <3> HIDE DEF event
    <3>1. QED
      BY <2>1, FeaturesTyped, FiniteImage
  <2>3. IsFiniteSet(seen)
    BY <2>1, <2>2
  <2>4. IsFiniteSet(opportunities)
    BY OpportunitiesAssumption, FS_Subset DEF Supplied
  <2>5. IsFiniteSet(run.signals)
    BY DecidedSays
  <2> HIDE DEF seen
  <2>6. QED
    BY <1>6, <2>3, <2>4, <2>5, FS_Union
<1> HIDE DEF seen
<1>8. ASSUME NEW e \in AllEvents
      PROVE  /\ e.id \in Int /\ e.time \in Int /\ e.instrument \in Int
             /\ e.kind \in DOMAIN Precedence
  BY <1>1, <1>2, <1>4, <1>6 DEF Precedence
<1>9. ASSUME NEW e \in AllEvents, NEW f \in AllEvents, e # f
      PROVE  Before(e, f) \/ Before(f, e)
  <2>1. /\ e.id \in Int /\ e.time \in Int /\ e.instrument \in Int
        /\ f.id \in Int /\ f.time \in Int /\ f.instrument \in Int
    BY <1>8
  <2>2. CASE e.kind # f.kind
    <3>1. Precedence[e.kind] # Precedence[f.kind]
          /\ Precedence[e.kind] \in Int /\ Precedence[f.kind] \in Int
      BY <1>1, <1>2, <1>4, <1>6, <2>2 DEF Precedence
    <3>2. QED
      BY <2>1, <3>1 DEF Before
  <2>3. CASE e \in seen /\ f \in seen
    <3>1. e.id # f.id \/ e.time # f.time \/ e.instrument # f.instrument
      BY <1>1, <1>9, <2>3
    <3>2. e.kind = f.kind
      BY <1>1, <2>3
    <3>3. QED
      BY <2>1, <3>1, <3>2 DEF Before
  <2>4. CASE e \in run.signals /\ f \in run.signals
    <3>1. e.time # f.time \/ e.instrument # f.instrument
      BY <1>3, <1>9, <2>4
    <3>2. e.kind = f.kind
      BY <1>2, <2>4
    <3>3. QED
      BY <2>1, <3>1, <3>2 DEF Before
  <2>5. CASE e \in opportunities /\ f \in opportunities
    BY <1>5, <1>9, <2>5
  <2>6. QED
    BY <1>1, <1>2, <1>4, <1>6, <2>2, <2>3, <2>4, <2>5
<1>10. QED
  BY <1>7, <1>8, <1>9 DEF Comparable

LEMMA EvaluateKeeps ==
    ASSUME Supplied, AreHistories(bars), Decided, Evaluate
    PROVE  Decided'
<1> DEFINE order == DecisionOrder(bars)
           n == Len(run.evaluations)
           m == Len(undecided)
<1>1. /\ run' = Decide(run, Head(undecided), opportunities, quotes)
      /\ undecided # <<>> /\ undecided' = Tail(undecided)
      /\ bars' = bars /\ opportunities' = opportunities /\ quotes' = quotes
  BY DEF Evaluate, input
<1>2. /\ Right(run, order, opportunities, quotes) /\ undecided \in Seq(Features(bars))
      /\ Len(order) = n + m /\ \A k \in 1 .. m : undecided[k] = order[n + k]
  BY DEF Decided
<1>3. InOrder(order) /\ order \in Seq(Features(bars)) /\ n \in Nat
  BY DecisionsAreInOrder, DecidedSays
<1>4. order' = order
  BY <1>1
<1> HIDE DEF order
<1>5. m \in Nat /\ m >= 1 /\ Head(undecided) = order[n + 1]
  <2>1. m \in Nat /\ m >= 1 /\ Head(undecided) = undecided[1]
    BY <1>1, <1>2
  <2>2. 1 \in 1 .. m
    BY <2>1
  <2>3. QED
    BY <1>2, <2>1, <2>2
<1>6. Right(run', order, opportunities, quotes) /\ Len(run'.evaluations) = n + 1
  <2>1. n < Len(order) /\ n = Len(run.evaluations)
    BY <1>2, <1>3, <1>5
  <2> HIDE DEF n, m
  <2>2. LET d == Decide(run, order[n + 1], opportunities, quotes)
        IN  Right(d, order, opportunities, quotes) /\ Len(d.evaluations) = n + 1
    BY <1>2, <1>3, <2>1, DecideIsRight
  <2>3. QED
    BY <1>1, <1>5, <2>2
<1>7. /\ undecided' \in Seq(Features(bars)) /\ Len(undecided') = m - 1
      /\ \A k \in 1 .. m - 1 : undecided'[k] = undecided[k + 1]
  BY <1>1, <1>2
<1> DEFINE rest == undecided'
<1> HIDE DEF n, m, rest
<1>8. \A k \in 1 .. m - 1 : rest[k] = order[(n + 1) + k]
  <2>1. ASSUME NEW k \in 1 .. m - 1 PROVE rest[k] = order[(n + 1) + k]
    <3>1. k + 1 \in 1 .. m /\ n + (k + 1) = (n + 1) + k
      BY <1>3, <1>5
    <3>2. QED
      BY <1>2, <1>7, <3>1 DEF rest
  <2>2. QED
    BY <2>1
<1>9. Len(order) = (n + 1) + Len(rest) /\ Len(rest) = m - 1
  BY <1>2, <1>3, <1>5, <1>7 DEF rest
<1>10. QED
  BY <1>1, <1>4, <1>6, <1>7, <1>8, <1>9 DEF Decided, order, rest

LEMMA SimInvStarts == Init => SimInv
<1>1. SUFFICES ASSUME Init PROVE SimInv
  OBVIOUS
<1>2. /\ supplied \in Supplies /\ opportunities \subseteq OpportunityUniverse
      /\ quotes \subseteq QuoteUniverse /\ stage = "supplied" /\ undecided = <<>>
      /\ run = NothingDecided /\ ~final.made
  BY <1>1 DEF Init
<1>3. QED
  BY <1>2 DEF SimInv, Supplied

LEMMA StartDecided ==
    ASSUME SimInv, Start
    PROVE  SimInv'
<1>1. /\ stage = "supplied" /\ run = NothingDecided /\ undecided = <<>> /\ ~final.made
      /\ UNCHANGED <<supplied, opportunities, quotes, run, final>>
  BY DEF Start, SimInv
<1>2. Supplied'
  BY <1>1 DEF SimInv, Supplied
<1>3. CASE Metadata.validated /\ ValidBars(supplied)
  <2>1. /\ stage' = "accepted" /\ bars' = HistoriesOf(supplied)
        /\ undecided' = DecisionOrder(bars')
    BY <1>1, <1>3 DEF Start
  <2>2. AreHistories(bars)'
    <3>1. supplied \in Supplies
      BY DEF SimInv, Supplied
    <3>2. AreHistories(HistoriesOf(supplied))
      BY <1>3, <3>1, AcceptedHistories
    <3>3. QED
      BY <2>1, <3>2
  <2>3. InOrder(DecisionOrder(bars')) /\ DecisionOrder(bars') \in Seq(Features(bars'))
    BY <2>2, DecisionsAreInOrder
  <2>4. Decided'
    <3> DEFINE order == DecisionOrder(bars')
    <3>1. Right(run', order, opportunities', quotes') /\ Len(run'.evaluations) = 0
      BY <1>1, <2>3, NothingIsRight DEF InOrder
    <3>2. order \in Seq(Features(bars')) /\ undecided' = order
      BY <2>1, <2>3
    <3> HIDE DEF order
    <3>3. Len(order) = 0 + Len(order) /\ \A k \in 1 .. Len(order) : order[k] = order[0 + k]
      BY <3>2
    <3>4. QED
      BY <3>1, <3>2, <3>3 DEF Decided, order
  <2>5. QED
    BY <1>1, <1>2, <1>3, <2>1, <2>4 DEF SimInv
<1>4. CASE ~(Metadata.validated /\ ValidBars(supplied))
  <2>1. stage' = "refused" /\ undecided' = <<>>
    BY <1>1, <1>4 DEF Start
  <2>2. QED
    BY <1>1, <1>2, <2>1 DEF SimInv
<1>5. QED
  BY <1>3, <1>4

LEMMA SimInvKept == SimInv /\ [Next]_vars => SimInv'
<1>1. SUFFICES ASSUME SimInv, [Next]_vars PROVE SimInv'
  OBVIOUS
<1>2. CASE Start
  BY <1>1, <1>2, StartDecided
<1>3. CASE Evaluate
  <2>1. stage = "accepted"
    BY <1>1, <1>3 DEF SimInv, Evaluate
  <2>2. Supplied /\ AreHistories(bars) /\ Decided
    BY <1>1, <2>1, AcceptedHistories DEF SimInv, Supplied
  <2>3. Decided'
    BY <1>3, <2>2, EvaluateKeeps
  <2>4. UNCHANGED <<supplied, stage, bars, opportunities, quotes, final>> /\ ~final.made
    BY <1>1, <1>3 DEF Evaluate, input, SimInv
  <2>5. QED
    BY <1>1, <2>1, <2>3, <2>4 DEF SimInv, Supplied
<1>4. CASE Finish
  <2>1. stage = "accepted" /\ undecided = <<>> /\ UNCHANGED <<input, undecided, run>>
    BY <1>4 DEF Finish
  <2>2. UNCHANGED <<supplied, stage, bars, opportunities, quotes, undecided, run>>
    BY <2>1 DEF input
  <2>3. Decided /\ Decided'
    BY <1>1, <2>1, <2>2 DEF SimInv, Decided
  <2>4. QED
    BY <1>1, <2>1, <2>2, <2>3 DEF SimInv, Supplied
<1>5. CASE UNCHANGED vars
  <2>1. UNCHANGED <<supplied, stage, bars, opportunities, quotes, undecided, run, final>>
    BY <1>5 DEF vars, input
  <2>2. Decided => Decided'
    BY <2>1 DEF Decided
  <2>3. QED
    BY <1>1, <2>1, <2>2 DEF SimInv, Supplied
<1>6. QED
  BY <1>1, <1>2, <1>3, <1>4, <1>5 DEF Next

LEMMA SimInvAlways == Spec => []SimInv
BY SimInvStarts, SimInvKept, PTL DEF Spec

\* When the final replay was made, the supply was accepted.
LEMMA FinalIsDecided ==
    ASSUME SimInv, final.made
    PROVE  /\ Supplied /\ AreHistories(bars) /\ Decided
           /\ ValidBars(supplied) /\ bars = HistoriesOf(supplied)
<1>1. stage = "accepted"
  BY DEF SimInv
<1>2. QED
  BY <1>1, AcceptedHistories DEF SimInv, Supplied


-----------------------------------------------------------------------------
\* Decisions and the final replay.

\* The events that a decision is made on.
Earliest(signals, t) == {e \in signals \cup opportunities : e.time < t}

\* The events of the final replay before a time.
Past(t) == {e \in AllEvents : e.time < t}

LEMMA EarliestIsPast ==
    ASSUME Supplied, AreHistories(bars), Decided, NEW t
    PROVE  /\ Earliest(run.signals, t) \subseteq Past(t)
           /\ Signals(Earliest(run.signals, t)) = Signals(Past(t))
           /\ \A i : Moves(Earliest(run.signals, t), i) = Moves(Past(t), i)
<1>1. \A f : FeatureEvent(f).kind = "feature"
  BY DEF FeatureEvent
<1>2. QED
  BY <1>1 DEF Earliest, Past, AllEvents, Signals, Moves

LEMMA DecisionSeesTheReplay ==
    ASSUME Supplied, AreHistories(bars), Decided, NEW k \in DOMAIN run.evaluations
    PROVE  LET f == run.evaluations[k].feature IN
           run.evaluations[k].state =
               ProcessLifecycle(Instruments, Past(f.availability), quotes)[f.instrument].state
<1> DEFINE f == run.evaluations[k].feature
           t == f.availability
           i == f.instrument
           E == Earliest(run.signals, t)
           F == Past(t)
<1>1. f \in Features(bars) /\ run.evaluations[k].state = StateBefore(run.signals, opportunities, quotes, f)
  BY DecidedSays
<1>2. StateBefore(run.signals, opportunities, quotes, f) = Handling(E, quotes, E).states[i].state
  BY ReplayIsHandling DEF StateBefore, Earliest
<1>3. ProcessLifecycle(Instruments, F, quotes) = Handling(F, quotes, F).states
  BY ReplayIsHandling
<1>4. i \in Instruments
  BY <1>1, FeaturesTyped
<1>5. Comparable(AllEvents) /\ IsFiniteSet(AllEvents) /\ F \in SUBSET AllEvents
  BY EventsComparable DEF Past
<1>6. E \subseteq F /\ Signals(E) = Signals(F) /\ Moves(E, i) = Moves(F, i)
  BY EarliestIsPast
<1> HIDE DEF E, F, i, f
<1>7. E \in SUBSET AllEvents /\ IsFiniteSet(E) /\ IsFiniteSet(F)
  BY <1>5, <1>6, FS_Subset
<1>8. Agree(E, quotes, F, quotes, Moves(E, i))
  <2>1. Conflicted(E) = Conflicted(F)
    BY <1>6 DEF Conflicted
  <2>2. Moves(E, i) \subseteq E
    BY DEF Moves
  <2>3. QED
    BY <1>6, <2>1, <2>2 DEF Agree
<1>9. Handling(E, quotes, E).states[i] = Handling(F, quotes, F).states[i]
  BY <1>4, <1>5, <1>6, <1>7, <1>8, SameMoves
<1>10. QED
  BY <1>1, <1>2, <1>3, <1>9 DEF f, i, F

\* The state that run_simulation made a decision on (_state_before_decision, a replay of
\* the signals proposed until then and the opportunities) is the state that the final
\* replay has before that instant, for every supply of bars, opportunities and quotes.
THEOREM DecisionsAgree == Spec => []DecisionsSeeTheReplay
<1>1. SimInv => DecisionsSeeTheReplay
  BY FinalIsDecided, DecisionSeesTheReplay DEF DecisionsSeeTheReplay, Past
<1>2. QED
  BY <1>1, SimInvAlways, PTL


-----------------------------------------------------------------------------
\* Signals and the final replay.

\* No signals of a run contradict one another.
LEMMA NoConflicts ==
    ASSUME Supplied, AreHistories(bars), Decided, NEW E \in SUBSET AllEvents
    PROVE  /\ Conflicted(E) = {}
           /\ Signals(E) = E \cap run.signals
<1>1. \A f : FeatureEvent(f).kind = "feature"
  BY DEF FeatureEvent
<1>2. \A o \in opportunities : o.kind = "opportunity"
  BY OpportunitiesAssumption DEF Supplied
<1>3. \A s \in run.signals : s.kind = "signal"
  BY SignalsApart
<1>4. Signals(E) = E \cap run.signals
  BY <1>1, <1>2, <1>3 DEF Signals, AllEvents
<1>5. \A s, t \in run.signals : s.instrument = t.instrument /\ s.time = t.time => s = t
  BY SignalsApart
<1>6. Conflicted(E) = {}
  BY <1>4, <1>5 DEF Conflicted
<1>7. QED
  BY <1>4, <1>6

\* In the final replay an entry finds its instrument flat and an exit finds it holding.
LEMMA Turn ==
    ASSUME Supplied, AreHistories(bars), Decided, NEW s \in run.signals
    PROVE  LET found == Handling(Past(s.time), quotes, Past(s.time)).states[s.instrument].state
           IN  \/ s.type = "entry" /\ found = "flat"
               \/ s.type = "exit" /\ found = "holding"
<1>1. PICK k \in 1 .. Len(run.evaluations) : ProposedAt(s, run.evaluations[k])
  BY DecidedSays
<1> DEFINE f == run.evaluations[k].feature
           state == run.evaluations[k].state
<1>2. Proposal(f, state) # "none" /\ s = SignalEvent(f, Proposal(f, state))
  BY <1>1 DEF ProposedAt
<1>3. s.time = f.availability /\ s.instrument = f.instrument /\ s.type = Proposal(f, state)
  BY <1>2 DEF SignalEvent
<1>4. \/ state = "flat" /\ s.type = "entry"
      \/ state = "holding" /\ s.type = "exit"
  BY <1>2, <1>3 DEF Proposal
<1>5. k \in DOMAIN run.evaluations
  BY DecidedSays
<1>6. state = ProcessLifecycle(Instruments, Past(f.availability), quotes)[f.instrument].state
  BY <1>5, DecisionSeesTheReplay
<1>7. QED
  BY <1>3, <1>4, <1>6, ReplayIsHandling

\* The moves of an instrument until a signal of it: those before, and the signal.
LEMMA MovesUntil ==
    ASSUME Supplied, AreHistories(bars), Decided, NEW s \in run.signals
    PROVE  /\ s \in AllEvents /\ s.kind = "signal" /\ s.time \in Int
           /\ \A e \in Past(s.time) : Before(e, s)
           /\ \A e \in Moves(AllEvents, s.instrument) :
                 /\ Before(e, s) => e \in Past(s.time)
                 /\ e.time = s.time /\ e.kind # "opportunity" => e = s
<1>1. /\ s \in AllEvents /\ s.kind = "signal" /\ s.time \in Int
      /\ \A e \in AllEvents : e.time \in Int /\ e.kind \in DOMAIN Precedence /\ e.id \in Int
                              /\ e.instrument \in Int
  BY SignalsApart, EventsComparable DEF AllEvents, Comparable
<1>2. \A e \in Past(s.time) : Before(e, s)
  BY DEF Past, Before
<1>3. ASSUME NEW e \in Moves(AllEvents, s.instrument), e.time = s.time, e.kind # "opportunity"
      PROVE  e = s
  <2>1. e \in AllEvents /\ e.instrument = s.instrument /\ e.kind = "signal"
    BY <1>3 DEF Moves
  <2>2. e \in run.signals
    <3>1. Signals(AllEvents) = AllEvents \cap run.signals
      BY NoConflicts
    <3>2. QED
      BY <2>1, <3>1 DEF Signals
  <2>3. QED
    BY <1>3, <2>1, <2>2, SignalsApart
<1>4. ASSUME NEW e \in Moves(AllEvents, s.instrument), Before(e, s) PROVE e \in Past(s.time)
  <2>1. e \in AllEvents /\ e.instrument = s.instrument
    BY DEF Moves
  <2>2. e.time <= s.time /\ (e.time = s.time => Precedence[e.kind] <= 30)
    BY <1>1, <1>4, <2>1 DEF Before, Precedence
  <2>3. e.kind = "opportunity" => Precedence[e.kind] = 40
    BY DEF Precedence
  <2>4. e.time = s.time => e = s
    BY <1>3, <2>2, <2>3
  <2>5. ~Before(s, s)
    BY <1>1 DEF Before, Precedence
  <2>6. QED
    BY <1>1, <1>4, <2>1, <2>2, <2>4, <2>5 DEF Past
<1>5. QED
  BY <1>1, <1>2, <1>3, <1>4

\* What a signal leaves: its action is pending.
LEMMA SignalActs ==
    ASSUME Supplied, AreHistories(bars), Decided, NEW s \in run.signals,
           NEW W \in SUBSET AllEvents, Moves(Past(s.time), s.instrument) \subseteq W, s \in W
    PROVE  LET left == Handling(W, quotes, Moves(Past(s.time), s.instrument) \cup {s})
                           .states[s.instrument]
           IN  /\ left.pending = s
               /\ left.state = IF s.type = "entry" THEN "pending_entry" ELSE "pending_exit"
<1> DEFINE i == s.instrument
           F == Past(s.time)
           M == Moves(F, i)
           m == Handling(W, quotes, M)
<1>1. Comparable(AllEvents) /\ IsFiniteSet(AllEvents) /\ F \in SUBSET AllEvents
  BY EventsComparable DEF Past
<1>2. M \in SUBSET AllEvents /\ M \subseteq F /\ IsFiniteSet(M) /\ IsFiniteSet(F)
  <2>1. M \subseteq F
    BY DEF Moves
  <2> HIDE DEF M, F
  <2>2. QED
    BY <1>1, <2>1, FS_Subset
<1>3. i \in Instruments /\ s \in AllEvents /\ s.kind = "signal"
  BY SignalsApart, MovesUntil
<1>4. \A x \in M : Before(x, s)
  BY <1>2, MovesUntil
<1>5. Conflicted(W) = {} /\ Conflicted(F) = {}
  BY <1>1, NoConflicts
<1>6. \/ s.type = "entry" /\ Handling(F, quotes, F).states[i].state = "flat"
      \/ s.type = "exit" /\ Handling(F, quotes, F).states[i].state = "holding"
  BY Turn
<1>7. M \subseteq W /\ M = Moves(F, i)
  OBVIOUS
<1> HIDE DEF i, F, M
<1>8. Agree(F, quotes, W, quotes, Moves(F, i))
  BY <1>2, <1>5, <1>7 DEF Agree
<1>9. Handling(F, quotes, F).states[i] = m.states[i]
  BY <1>1, <1>2, <1>3, <1>7, <1>8, MovesAlone
<1>10. Handling(W, quotes, M \cup {s}) = Handled(m, s)
  BY <1>1, <1>2, <1>3, <1>4, ReplayStep DEF Handling
<1>11. Shaped(m, W, quotes, M)
  BY <1>1, <1>2, HandlingShaped
<1> HIDE DEF m
<1>12. Handled(m, s).states = [m.states EXCEPT ![s.instrument] =
                                  After(@, s, {}, EligiblePairs(W), quotes)]
  BY <1>5, <1>11 DEF Handled, Shaped, Begun
<1>13. Handled(m, s).states[i] = OnSignal(m.states[i], s, {})
  BY <1>3, <1>11, <1>12 DEF Shaped, After, i
<1>14. Sound(m.states[i], i, M)
  BY <1>3, <1>11 DEF Shaped
<1>15. /\ OnSignal(m.states[i], s, {}).pending = s
       /\ OnSignal(m.states[i], s, {}).state
            = IF s.type = "entry" THEN "pending_entry" ELSE "pending_exit"
  BY <1>6, <1>9, <1>14 DEF OnSignal, Sound
<1>16. QED
  BY <1>10, <1>13, <1>15 DEF i, M, F

\* Every signal that the strategy proposed becomes the pending action of its instrument
\* in the final replay (process_lifecycle refuses none of them as conflicting, redundant
\* or out of state), for every supply of bars, opportunities and quotes.
THEOREM SignalsAct == Spec => []EverySignalActs
<1>1. ASSUME SimInv, final.made, NEW s \in run.signals
      PROVE  LET upto == {e \in AllEvents : \/ e.time < s.time
                                            \/ e.time = s.time /\ e.kind # "opportunity"}
             IN  ProcessLifecycle(Instruments, upto, quotes)[s.instrument].pending = s
  <2> DEFINE upto == {e \in AllEvents : \/ e.time < s.time
                                        \/ e.time = s.time /\ e.kind # "opportunity"}
             i == s.instrument
             M == Moves(Past(s.time), i)
  <2>1. Supplied /\ AreHistories(bars) /\ Decided
    BY <1>1, FinalIsDecided
  <2>2. Comparable(AllEvents) /\ IsFiniteSet(AllEvents) /\ upto \in SUBSET AllEvents
    BY <2>1, EventsComparable
  <2>3. /\ s \in AllEvents /\ s.kind = "signal" /\ s.time \in Int /\ i \in Instruments
        /\ \A e \in Moves(AllEvents, i) : e.time = s.time /\ e.kind # "opportunity" => e = s
    BY <2>1, SignalsApart, MovesUntil
  <2>4. Moves(upto, i) = M \cup {s}
    <3>1. s \in Moves(upto, i)
      BY <2>3 DEF Moves
    <3>2. M \subseteq Moves(upto, i)
      BY DEF Moves, Past
    <3>3. ASSUME NEW e \in Moves(upto, i) PROVE e \in M \cup {s}
      <4>1. e \in upto /\ e \in Moves(AllEvents, i)
        BY DEF Moves
      <4>2. e.time < s.time => e \in M
        BY <4>1 DEF Moves, Past
      <4>3. QED
        BY <2>3, <4>1, <4>2
    <3>4. QED
      BY <3>1, <3>2, <3>3
  <2>5. M \subseteq upto /\ s \in upto
    BY <2>3 DEF Moves, Past
  <2>6. Handling(upto, quotes, M \cup {s}).states[i].pending = s
    <3> HIDE DEF upto
    <3>1. QED
      BY <2>1, <2>2, <2>5, SignalActs
  <2> HIDE DEF upto, i, M
  <2>7. Agree(upto, quotes, upto, quotes, Moves(upto, i))
    BY DEF Agree, Moves
  <2>8. IsFiniteSet(upto)
    BY <2>2, FS_Subset
  <2>9. Handling(upto, quotes, upto).states[i] = Handling(upto, quotes, Moves(upto, i)).states[i]
    BY <2>2, <2>3, <2>7, <2>8, MovesAlone
  <2>10. ProcessLifecycle(Instruments, upto, quotes)[i].pending = s
    BY <2>4, <2>6, <2>9, ReplayIsHandling
  <2>11. QED
    BY <2>10 DEF upto, i
<1>2. SimInv => EverySignalActs
  BY <1>1 DEF EverySignalActs
<1>3. QED
  BY <1>2, SimInvAlways, PTL


-----------------------------------------------------------------------------
\* What a signal rests on.

\* Bars of an instrument observed one after the other are as many as their observations.
LEMMA ObservationsCount ==
    ASSUME NEW h, IsHistory(h), NEW a \in Nat \ {0}, NEW b \in Nat, b <= Len(h)
    PROVE  Cardinality({h[j].observation : j \in a .. b}) = IF a <= b THEN b - a + 1 ELSE 0
<1> DEFINE T == {h[j].observation : j \in a .. b}
           f == [j \in a .. b |-> h[j].observation]
<1>1. h \in Seq(Bars) /\ Chronological(h)
  BY DEF IsHistory
<1>2. ASSUME NEW j \in a .. b, NEW k \in a .. b, h[j].observation = h[k].observation PROVE j = k
  <2>1. j \in 1 .. Len(h) /\ k \in 1 .. Len(h) /\ j \in Int /\ k \in Int
    BY <1>1
  <2>2. h[j].observation \in Int
    BY <1>1, <2>1, BarsTyped
  <2>3. ~(j < k) /\ ~(k < j)
    BY <1>1, <1>2, <2>1, <2>2 DEF Chronological
  <2>4. QED
    BY <2>1, <2>3
<1>3. f \in Bijection(a .. b, T)
  BY <1>2 DEF Bijection, Injection, Surjection, IsInjective
<1>4. IsFiniteSet(a .. b) /\ Cardinality(a .. b) = IF a <= b THEN b - a + 1 ELSE 0
  BY FS_Interval
<1>5. Cardinality(a .. b) = Cardinality(T)
  <2> HIDE DEF f, T
  <2>1. ExistsBijection(a .. b, T)
    BY <1>3 DEF ExistsBijection
  <2>2. QED
    BY <1>4, <2>1, FS_Bijection
<1>6. QED
  BY <1>4, <1>5

\* A signal comes of the feature at the end of a full window, and the feature is fresh.
LEMMA SignalFeature ==
    ASSUME AreHistories(bars), Decided, NEW s \in run.signals
    PROVE  \E k \in 1 .. Len(bars[s.instrument]) :
              LET f == FeatureAt(s.instrument, bars[s.instrument], k) IN
              /\ k >= Window
              /\ s.id = f.observation /\ s.time = f.availability
              /\ s.time - s.id <= MaxFeatureAge
<1>1. PICK n \in 1 .. Len(run.evaluations) : ProposedAt(s, run.evaluations[n])
  BY DecidedSays
<1> DEFINE f == run.evaluations[n].feature
           state == run.evaluations[n].state
<1>2. f \in Features(bars)
  BY DecidedSays
<1>3. Proposal(f, state) # "none" /\ s = SignalEvent(f, Proposal(f, state))
  BY <1>1 DEF ProposedAt
<1> HIDE DEF f, state
<1>4. PICK i \in Instruments : \E k \in 1 .. Len(bars[i]) : f = FeatureAt(i, bars[i], k)
  BY <1>2, FeaturesTyped
<1>5. PICK k \in 1 .. Len(bars[i]) : f = FeatureAt(i, bars[i], k)
  BY <1>4
<1>6. f.instrument = i /\ f.reading = IF k < Window THEN "warming" ELSE bars[i][k].reading
  BY <1>5 DEF FeatureAt
<1>7. s.id = f.observation /\ s.time = f.availability /\ s.instrument = i
  BY <1>3, <1>6 DEF SignalEvent
<1>8. f.reading \in {"low", "high"} /\ ~(f.availability - f.observation > MaxFeatureAge)
  BY <1>3 DEF Proposal
<1>9. k >= Window
  <2>1. k \in Int /\ Window \in Int
    BY WindowAssumption
  <2>2. ~(k < Window)
    BY <1>6, <1>8
  <2>3. QED
    BY <2>1, <2>2
<1>10. f.availability - f.observation <= MaxFeatureAge
  BY <1>2, <1>8, FeaturesTyped, AgeAssumption
<1>11. QED
  BY <1>5, <1>7, <1>9, <1>10

\* What SignalsAreFreshAndAlternate says of the bars a signal rests on.
Observed(s) ==
    {supplied[k].observation : k \in
        {n \in DOMAIN supplied : /\ supplied[n].instrument = s.instrument
                                 /\ supplied[n].observation <= s.id}}
Missed(s) ==
    {k \in DOMAIN supplied :
        /\ supplied[k].instrument = s.instrument
        /\ supplied[k].availability > s.time
        /\ supplied[k].observation \in
              {o \in Observed(s) : Cardinality({p \in Observed(s) : p > o}) < Window}}

LEMMA SignalIsFresh ==
    ASSUME Supplied, AreHistories(bars), Decided, bars = HistoriesOf(supplied),
           NEW s \in run.signals
    PROVE  /\ s.time - s.id <= MaxFeatureAge
           /\ Cardinality(Observed(s)) >= Window /\ Missed(s) = {}
<1> DEFINE i == s.instrument
           h == bars[i]
<1>1. i \in Instruments
  BY SignalsApart
<1>2. supplied \in Seq(Bars) /\ DOMAIN supplied = 1 .. Len(supplied)
  BY BarsTyped DEF Supplied
<1>3. IsHistory(h) /\ Kept(h, i, supplied)
  BY <1>1, <1>2, HistoriesKept DEF AreHistories, AllKept
<1>4. PICK k \in 1 .. Len(h) :
          /\ k >= Window
          /\ s.id = FeatureAt(i, h, k).observation /\ s.time = FeatureAt(i, h, k).availability
          /\ s.time - s.id <= MaxFeatureAge
  BY SignalFeature
<1> HIDE DEF i, h
<1>5. h \in Seq(Bars) /\ Chronological(h) /\ k \in Nat /\ k <= Len(h) /\ s.id = h[k].observation
  BY <1>3, <1>4 DEF IsHistory, FeatureAt
<1>6. \A j \in 1 .. Len(h) : h[j] \in Bars /\ h[j].observation \in Int
                             /\ h[j].availability \in Int
  BY <1>5, BarsTyped
<1>7. \A j \in 1 .. Len(h) : h[j].observation <= s.id <=> j <= k
  <2>1. ASSUME NEW j \in 1 .. Len(h) PROVE h[j].observation <= s.id <=> j <= k
    <3>1. CASE j < k
      BY <1>5, <1>6, <3>1 DEF Chronological
    <3>2. CASE k < j
      BY <1>5, <1>6, <3>2 DEF Chronological
    <3>3. CASE j = k
      BY <1>5, <1>6, <3>3
    <3>4. QED
      BY <1>5, <3>1, <3>2, <3>3
  <2>2. QED
    BY <2>1
<1>8. Observed(s) = {h[j].observation : j \in 1 .. k}
  <2>1. ASSUME NEW j \in 1 .. k PROVE h[j].observation \in Observed(s)
    <3>1. j \in 1 .. Len(h)
      BY <1>5
    <3>2. PICK m \in 1 .. Len(supplied) : supplied[m] = h[j] /\ supplied[m].instrument = i
      BY <1>3, <3>1 DEF Kept
    <3>3. h[j].observation <= s.id
      BY <1>7, <3>1
    <3>4. QED
      BY <1>2, <3>2, <3>3 DEF Observed, i
  <2>2. ASSUME NEW m \in DOMAIN supplied, supplied[m].instrument = i, supplied[m].observation <= s.id
        PROVE  \E j \in 1 .. k : supplied[m].observation = h[j].observation
    <3>1. PICK j \in 1 .. Len(h) : h[j] = supplied[m]
      BY <1>2, <1>3, <2>2 DEF Kept
    <3>2. j <= k
      BY <1>7, <2>2, <3>1
    <3>3. QED
      BY <3>1, <3>2
  <2>3. QED
    BY <2>1, <2>2 DEF Observed, i
<1>9. Cardinality(Observed(s)) >= Window
  <2>1. 1 <= k /\ 1 \in Nat \ {0}
    BY <1>4
  <2>2. Cardinality({h[j].observation : j \in 1 .. k}) = k - 1 + 1
    BY <1>3, <1>5, <2>1, ObservationsCount
  <2>3. QED
    BY <1>4, <1>5, <1>8, <2>2
<1>10. ASSUME NEW m \in Missed(s) PROVE FALSE
  <2>1. /\ m \in 1 .. Len(supplied) /\ supplied[m].instrument = i
        /\ supplied[m].availability > s.time /\ supplied[m].observation \in Observed(s)
        /\ Cardinality({p \in Observed(s) : p > supplied[m].observation}) < Window
    BY <1>2, <1>10 DEF Missed, i
  <2>2. PICK j \in 1 .. Len(h) : h[j] = supplied[m]
    BY <1>3, <2>1 DEF Kept
  <2>3. h[j].observation <= s.id
    <3>1. PICK l \in 1 .. k : h[j].observation = h[l].observation
      BY <1>8, <2>1, <2>2
    <3>2. l \in 1 .. Len(h) /\ l <= k
      BY <1>5
    <3>3. QED
      BY <1>7, <3>1, <3>2
  <2>4. j <= k /\ j \in Nat
    BY <1>7, <2>3
  <2>5. {p \in Observed(s) : p > h[j].observation} = {h[l].observation : l \in j + 1 .. k}
    <3>1. ASSUME NEW l \in 1 .. k PROVE h[l].observation > h[j].observation <=> l \in j + 1 .. k
      <4>1. l \in 1 .. Len(h) /\ l \in Int
        BY <1>5
      <4>2. CASE j < l
        BY <1>5, <1>6, <2>4, <4>1, <4>2 DEF Chronological
      <4>3. CASE l < j
        BY <1>5, <1>6, <2>4, <4>1, <4>3 DEF Chronological
      <4>4. CASE l = j
        BY <1>5, <1>6, <2>4, <4>1, <4>4
      <4>5. QED
        BY <2>4, <4>1, <4>2, <4>3, <4>4
    <3>2. j + 1 .. k \subseteq 1 .. k
      BY <2>4
    <3>3. QED
      BY <1>8, <3>1, <3>2
  <2>6. Cardinality({h[l].observation : l \in j + 1 .. k}) = k - j
    <3>1. j + 1 \in Nat \ {0}
      BY <2>4
    <3>2. Cardinality({h[l].observation : l \in j + 1 .. k})
            = IF j + 1 <= k THEN k - (j + 1) + 1 ELSE 0
      BY <1>3, <1>5, <3>1, ObservationsCount
    <3>3. QED
      BY <1>5, <2>4, <3>2
  <2>7. k - j < Window
    BY <2>1, <2>2, <2>5, <2>6
  <2>8. First(k) \in 1 .. k /\ First(k) \in {1, k - Window + 1}
    BY <1>4, <1>5, WindowIs
  <2>9. j \in First(k) .. k
    BY <1>5, <2>4, <2>7, <2>8, WindowAssumption
  <2>10. h[j].availability <= s.time /\ s.time \in Int
    BY <1>4, <1>5, <2>9, WindowIs
  <2>11. h[j].availability \in Int
    BY <1>6
  <2>12. QED
    BY <2>1, <2>2, <2>10, <2>11
<1>11. QED
  BY <1>4, <1>9, <1>10


-----------------------------------------------------------------------------
\* Entries and exits take turns.

\* The state that follows a signal, until a signal of the other type.
Follows(state, s) ==
    IF s.type = "entry" THEN state \in {"pending_entry", "holding"}
    ELSE state \in {"pending_exit", "flat"}

LEMMA FollowsUntil ==
    ASSUME NEW i, NEW E, NEW x, Sound(x, i, E), NEW s, Follows(x.state, s),
           s.type \in {"entry", "exit"}, NEW e, e.kind = "signal" => e.type = s.type,
           NEW conflicted, NEW pairs, NEW evidence
    PROVE  Follows(After(x, e, conflicted, pairs, evidence).state, s)
<1>1. CASE e.kind = "signal"
  BY <1>1 DEF Follows, After, OnSignal
<1>2. CASE e.kind = "opportunity"
  <2>1. Follows(OnOpportunity(x, e, pairs, evidence).state, s)
    <3>1. CASE ~Attempts(x, e, pairs)
      BY <3>1 DEF OnOpportunity
    <3>2. CASE Attempts(x, e, pairs)
      <4>1. x.state \in {"pending_entry", "pending_exit"}
        BY <3>2 DEF Attempts, Sound
      <4>2. QED
        BY <3>2, <4>1 DEF OnOpportunity, Follows, FlatState
    <3>3. QED
      BY <3>1, <3>2
  <2>2. QED
    BY <1>2, <2>1 DEF After
<1>3. CASE e.kind \notin {"signal", "opportunity"}
  BY <1>3 DEF After
<1>4. QED
  BY <1>1, <1>2, <1>3

LEMMA TypeStays ==
    ASSUME Supplied, AreHistories(bars), Decided,
           NEW s \in run.signals, NEW t \in run.signals,
           s.instrument = t.instrument, s.time < t.time,
           \A u \in run.signals : /\ u.instrument = s.instrument
                                  /\ s.time < u.time /\ u.time < t.time
                                  => u.type = s.type
    PROVE  LET W == Past(t.time) IN
           Follows(Handling(W, quotes, W).states[s.instrument].state, s)
<1> DEFINE i == s.instrument
           W == Past(t.time)
           U == Moves(W, i)
           Closed(F) == \A x \in F, y \in U : Before(y, x) => y \in F
           At(F) == Handling(W, quotes, F).states[i]
           P == {F \in SUBSET U : s \in F /\ Closed(F) => Follows(At(F).state, s)}
<1>1. Comparable(AllEvents) /\ IsFiniteSet(AllEvents) /\ W \in SUBSET AllEvents
  BY EventsComparable DEF Past
<1>2. U \in SUBSET W /\ U \in SUBSET AllEvents /\ IsFiniteSet(U) /\ IsFiniteSet(W)
  <2>1. U \subseteq W
    BY DEF Moves
  <2> HIDE DEF U, W
  <2>2. QED
    BY <1>1, <2>1, FS_Subset
<1>3. Comparable(U)
  BY <1>1, <1>2 DEF Comparable
<1>4. /\ s \in AllEvents /\ s.kind = "signal" /\ s.time \in Int /\ t.time \in Int
      /\ i \in Instruments /\ s.type \in {"entry", "exit"}
      /\ \A e \in Past(s.time) : Before(e, s)
      /\ \A e \in Moves(AllEvents, i) :
            /\ Before(e, s) => e \in Past(s.time)
            /\ e.time = s.time /\ e.kind # "opportunity" => e = s
  BY SignalsApart, MovesUntil
<1>5. s \in U
  BY <1>4 DEF Moves, Past
<1>6. \A e \in U : /\ e \in AllEvents /\ e.instrument = i /\ e.time \in Int /\ e.time < t.time
                   /\ e \in Moves(AllEvents, i) /\ ~Before(e, e)
  <2>1. \A e \in U : e \in AllEvents /\ e.instrument = i /\ e.time < t.time
                     /\ e \in Moves(AllEvents, i)
    BY DEF Moves, Past
  <2>2. QED
    BY <1>1, <2>1 DEF Comparable, Before, Precedence
<1>7. Moves(Past(s.time), i) = {e \in U : Before(e, s)}
  <2>1. ASSUME NEW e \in Moves(Past(s.time), i) PROVE e \in U /\ Before(e, s)
    <3>1. e \in Past(s.time) /\ e \in AllEvents
      BY DEF Moves, Past
    <3>2. e.time \in Int /\ e.time < s.time
      BY <1>1, <3>1 DEF Past, Comparable
    <3>3. e \in W
      BY <1>4, <3>1, <3>2 DEF Past
    <3>4. QED
      BY <1>4, <3>1, <3>3 DEF Moves
  <2>2. ASSUME NEW e \in U, Before(e, s) PROVE e \in Moves(Past(s.time), i)
    <3>1. e \in Past(s.time)
      BY <1>4, <1>6, <2>2
    <3>2. QED
      BY <3>1 DEF Moves
  <2>3. QED
    BY <2>1, <2>2
<1>8. ASSUME NEW F \in SUBSET U, NEW e \in U, IsFiniteSet(F), F \in P, \A x \in F : Before(x, e),
             s \in F \cup {e}, Closed(F \cup {e})
      PROVE  Follows(At(F \cup {e}).state, s)
  <2> DEFINE r == Handling(W, quotes, F)
  <2>1. F \in SUBSET AllEvents /\ e \in AllEvents /\ e.instrument = i
    BY <1>2, <1>6
  <2>2. CASE s = e
    <3>1. F = Moves(Past(s.time), i)
      BY <1>6, <1>7, <1>8, <2>2
    <3>2. F \subseteq W /\ s \in W
      BY <1>2, <1>5
    <3>3. At(F \cup {e}).state = IF s.type = "entry" THEN "pending_entry" ELSE "pending_exit"
      <4> HIDE DEF W
      <4>1. QED
        BY <1>1, <2>2, <3>1, <3>2, SignalActs
    <3>4. QED
      BY <3>3 DEF Follows
  <2>3. CASE s # e
    <3>1. s \in F
      BY <1>8, <2>3
    <3>2. Closed(F)
      <4>1. ASSUME NEW x \in F, NEW y \in U, Before(y, x) PROVE y \in F
        <5>1. y \in F \cup {e}
          BY <1>8, <4>1
        <5>2. Before(x, e)
          BY <1>8
        <5>3. ~(Before(e, x) /\ Before(x, e))
          BY <1>3, <1>8 DEF Comparable, Before, Precedence
        <5>4. QED
          BY <4>1, <5>1, <5>2, <5>3
      <4>2. QED
        BY <4>1
    <3>3. Follows(r.states[i].state, s)
      BY <1>8, <3>1, <3>2
    <3>4. Shaped(r, W, quotes, F)
      BY <1>1, <1>8, <2>1, HandlingShaped
    <3>5. Handling(W, quotes, F \cup {e}) = Handled(r, e)
      BY <1>1, <1>8, <2>1, ReplayStep DEF Handling
    <3>6. e.kind = "signal" => e.type = s.type
      <4>1. SUFFICES ASSUME e.kind = "signal" PROVE e.type = s.type
        OBVIOUS
      <4>2. e \in run.signals
        <5>1. Signals(AllEvents) = AllEvents \cap run.signals
          BY NoConflicts
        <5>2. QED
          BY <2>1, <4>1, <5>1 DEF Signals
      <4>3. Before(s, e)
        BY <1>8, <3>1
      <4>4. s.time <= e.time /\ e.time \in Int /\ e.time < t.time
        BY <1>4, <1>6, <4>3 DEF Before
      <4>5. e.time # s.time
        BY <1>4, <1>6, <2>3, <4>1
      <4>6. s.time < e.time
        BY <1>4, <4>4, <4>5
      <4>7. QED
        BY <2>1, <4>2, <4>4, <4>6
    <3> HIDE DEF r
    <3>7. Handled(r, e).states[i]
            = After(r.states[i], e, Conflicted(W), EligiblePairs(W), quotes)
      BY <1>4, <2>1, <3>4 DEF Handled, Shaped, Begun
    <3>8. Sound(r.states[i], i, F)
      BY <1>4, <3>4 DEF Shaped
    <3>9. Follows(After(r.states[i], e, Conflicted(W), EligiblePairs(W), quotes).state, s)
      BY <1>4, <3>3, <3>6, <3>8, FollowsUntil
    <3>10. QED
      BY <3>5, <3>7, <3>9
  <2>4. QED
    BY <2>2, <2>3
<1>9. {} \in P /\ \A F \in SUBSET U, e \in U :
          IsFiniteSet(F) /\ F \in P /\ (\A x \in F : Before(x, e)) => F \cup {e} \in P
  BY <1>8
<1>10. Closed(U)
  OBVIOUS
<1>11. At(U) = Handling(W, quotes, W).states[i]
  <2>1. Agree(W, quotes, W, quotes, U)
    BY <1>2 DEF Agree
  <2> HIDE DEF W
  <2>2. QED
    BY <1>1, <1>2, <1>4, <2>1, MovesAlone
<1> HIDE DEF P, U
<1>12. U \in P
  BY <1>2, <1>3, <1>9, InductionOnEvents
<1>13. QED
  BY <1>5, <1>10, <1>11, <1>12 DEF P

\* A signal rests on a full window of the bars last observed, all of them available and the
\* last one fresh, in whatever order a valid supply has them; and between two entries of an
\* instrument is an exit, between two exits an entry.
THEOREM FreshAndAlternate == Spec => []SignalsAreFreshAndAlternate
<1>1. ASSUME SimInv, run.signals # {} PROVE
          /\ Supplied /\ AreHistories(bars) /\ Decided
          /\ bars = HistoriesOf(supplied)
  <2>1. stage = "accepted"
    BY <1>1 DEF SimInv, NothingDecided
  <2>2. QED
    BY <1>1, <2>1, AcceptedHistories DEF SimInv, Supplied
<1>2. ASSUME SimInv, NEW s \in run.signals
      PROVE  /\ s.time - s.id <= MaxFeatureAge
             /\ Cardinality(Observed(s)) >= Window /\ Missed(s) = {}
  BY <1>1, <1>2, SignalIsFresh
<1>3. ASSUME SimInv, NEW s \in run.signals, NEW t \in run.signals,
             s.instrument = t.instrument, s.time < t.time, s.type = t.type
      PROVE  \E u \in run.signals : /\ u.instrument = s.instrument /\ u.type # s.type
                                    /\ s.time < u.time /\ u.time < t.time
  <2>1. Supplied /\ AreHistories(bars) /\ Decided
    BY <1>1, <1>3
  <2>2. SUFFICES ASSUME \A u \in run.signals : /\ u.instrument = s.instrument
                                               /\ s.time < u.time /\ u.time < t.time
                                               => u.type = s.type
                 PROVE  FALSE
    OBVIOUS
  <2>3. Follows(Handling(Past(t.time), quotes, Past(t.time)).states[s.instrument].state, s)
    BY <1>3, <2>1, <2>2, TypeStays
  <2>4. LET found == Handling(Past(t.time), quotes, Past(t.time)).states[t.instrument].state
        IN  \/ t.type = "entry" /\ found = "flat"
            \/ t.type = "exit" /\ found = "holding"
    BY <2>1, Turn
  <2>5. QED
    BY <1>3, <2>3, <2>4 DEF Follows
<1>4. SimInv => SignalsAreFreshAndAlternate
  BY <1>2, <1>3 DEF SignalsAreFreshAndAlternate, Observed, Missed
<1>5. QED
  BY <1>4, SimInvAlways, PTL


-----------------------------------------------------------------------------
\* What was known by some time.

LEMMA KnownIs ==
    ASSUME NEW h, IsHistory(h), NEW t \in Int
    PROVE  \E n \in 0 .. Len(h) : /\ KnownBy(h, t) = SubSeq(h, 1, n)
                                  /\ \A k \in 1 .. Len(h) : h[k].availability <= t => k <= n
<1> DEFINE S == {0} \cup {k \in DOMAIN h : h[k].availability <= t}
<1>1. Len(h) \in Nat /\ DOMAIN h = 1 .. Len(h)
  BY DEF IsHistory
<1>2. S \subseteq 0 .. Len(h) /\ S # {} /\ \A k \in 1 .. Len(h) : h[k].availability <= t => k \in S
  BY <1>1
<1>3. KnownBy(h, t) = SubSeq(h, 1, Max(S))
  BY DEF KnownBy
<1> HIDE DEF S
<1>4. IsFiniteSet(S)
  <2>1. 0 \in Int /\ Len(h) \in Int
    BY <1>1
  <2>2. IsFiniteSet(0 .. Len(h))
    BY <2>1, FS_Interval
  <2>3. QED
    BY <1>2, <2>2, FS_Subset
<1>5. S \in SUBSET Int
  BY <1>1, <1>2
<1>6. Max(S) \in S /\ \A x \in S : x <= Max(S)
  BY <1>2, <1>4, <1>5, MaxIsGreatest
<1>7. QED
  BY <1>2, <1>3, <1>6

\* The start of a history has the features of the start.
LEMMA StartOfHistory ==
    ASSUME NEW h, IsHistory(h), NEW n \in 0 .. Len(h)
    PROVE  /\ IsHistory(SubSeq(h, 1, n)) /\ Len(SubSeq(h, 1, n)) = n
           /\ \A i : \A k \in 1 .. n : FeatureAt(i, SubSeq(h, 1, n), k) = FeatureAt(i, h, k)
<1> DEFINE g == SubSeq(h, 1, n)
<1>1. h \in Seq(Bars) /\ Chronological(h) /\ n \in Nat /\ n <= Len(h)
  BY DEF IsHistory
<1>2. g \in Seq(Bars) /\ Len(g) = n /\ \A k \in 1 .. n : g[k] = h[k]
  BY <1>1
<1> HIDE DEF g
<1>3. 1 .. n \subseteq 1 .. Len(h)
  BY <1>1
<1>4. Chronological(g)
  BY <1>1, <1>2, <1>3 DEF Chronological
<1>5. ASSUME NEW i, NEW k \in 1 .. n PROVE FeatureAt(i, g, k) = FeatureAt(i, h, k)
  <2>0. k \in 1 .. Len(h)
    BY <1>3
  <2>1. First(k) \in 1 .. k /\ k \in Nat /\ k <= n
    <3>1. First(k) \in 1 .. k
      BY <1>1, <2>0, WindowIs
    <3>2. QED
      BY <1>1, <3>1
  <2>2. \A j \in First(k) .. k : g[j] = h[j]
    BY <1>2, <2>1
  <2>3. WindowOf(g, k) = WindowOf(h, k)
    BY <2>2 DEF WindowOf, First
  <2>4. QED
    BY <1>2, <2>3 DEF FeatureAt
<1>6. QED
  BY <1>2, <1>4, <1>5 DEF IsHistory, g

Known(H, t) == [i \in Instruments |-> KnownBy(H[i], t)]

\* The features available by then are those of what was known by then.
LEMMA KnownFeatures ==
    ASSUME NEW H, AreHistories(H), NEW t \in Int
    PROVE  /\ AreHistories(Known(H, t)) /\ Features(Known(H, t)) \subseteq Features(H)
           /\ \A f \in Features(H) : f.availability <= t => f \in Features(Known(H, t))
<1> DEFINE G == Known(H, t)
<1>1. ASSUME NEW i \in Instruments
      PROVE  \E n \in 0 .. Len(H[i]) :
                /\ \A k \in 1 .. Len(H[i]) : H[i][k].availability <= t => k <= n
                /\ IsHistory(G[i]) /\ Len(G[i]) = n
                /\ \A k \in 1 .. n : FeatureAt(i, G[i], k) = FeatureAt(i, H[i], k)
  <2>1. IsHistory(H[i]) /\ G[i] = KnownBy(H[i], t)
    BY DEF AreHistories, Known
  <2> HIDE DEF G
  <2>2. PICK n \in 0 .. Len(H[i]) :
            /\ G[i] = SubSeq(H[i], 1, n)
            /\ \A k \in 1 .. Len(H[i]) : H[i][k].availability <= t => k <= n
    <3>1. \E n \in 0 .. Len(H[i]) :
              /\ KnownBy(H[i], t) = SubSeq(H[i], 1, n)
              /\ \A k \in 1 .. Len(H[i]) : H[i][k].availability <= t => k <= n
      BY <2>1, KnownIs
    <3>2. QED
      BY <2>1, <3>1
  <2>3. QED
    BY <2>1, <2>2, StartOfHistory
<1> HIDE DEF G
<1>2. AreHistories(G)
  BY <1>1 DEF AreHistories
<1>3. ASSUME NEW X, AreHistories(X), NEW i \in Instruments, NEW k \in 1 .. Len(X[i])
      PROVE  FeatureAt(i, X[i], k) \in Features(X)
  <2>1. k \in DOMAIN X[i]
    BY <1>3 DEF AreHistories, IsHistory
  <2>2. QED
    BY <2>1 DEF Features
<1>4. ASSUME NEW f \in Features(G) PROVE f \in Features(H)
  <2>1. PICK i \in Instruments : \E k \in 1 .. Len(G[i]) : f = FeatureAt(i, G[i], k)
    BY <1>2, FeaturesTyped
  <2>2. PICK k \in 1 .. Len(G[i]) : f = FeatureAt(i, G[i], k)
    BY <2>1
  <2>3. PICK n \in 0 .. Len(H[i]) :
            Len(G[i]) = n /\ \A j \in 1 .. n : FeatureAt(i, G[i], j) = FeatureAt(i, H[i], j)
    BY <1>1
  <2>4. f = FeatureAt(i, H[i], k) /\ k \in 1 .. Len(H[i])
    <3>1. Len(H[i]) \in Nat
      BY DEF AreHistories, IsHistory
    <3>2. QED
      BY <2>2, <2>3, <3>1
  <2>5. QED
    BY <1>3, <2>4
<1>5. ASSUME NEW f \in Features(H), f.availability <= t PROVE f \in Features(G)
  <2>1. PICK i \in Instruments : \E k \in 1 .. Len(H[i]) : f = FeatureAt(i, H[i], k)
    BY FeaturesTyped
  <2>2. PICK k \in 1 .. Len(H[i]) : f = FeatureAt(i, H[i], k)
    BY <2>1
  <2>3. PICK n \in 0 .. Len(H[i]) :
            /\ \A j \in 1 .. Len(H[i]) : H[i][j].availability <= t => j <= n
            /\ Len(G[i]) = n /\ \A j \in 1 .. n : FeatureAt(i, G[i], j) = FeatureAt(i, H[i], j)
    BY <1>1
  <2>4. H[i] \in Seq(Bars) /\ H[i][k].availability \in Int /\ f.availability \in Int
    <3>1. H[i] \in Seq(Bars)
      BY DEF AreHistories, IsHistory
    <3>2. H[i][k] \in Bars
      BY <3>1
    <3>3. QED
      BY <3>1, <3>2, BarsTyped, FeaturesTyped
  <2>5. H[i][k].availability <= f.availability
    <3>1. First(k) \in 1 .. k /\ \A j \in First(k) .. k : H[i][j].availability <= f.availability
      BY <2>2, <2>4, WindowIs
    <3>2. k \in First(k) .. k
      BY <3>1
    <3>3. QED
      BY <3>1, <3>2
  <2>6. k \in 1 .. n
    BY <1>5, <2>3, <2>4, <2>5
  <2>7. f = FeatureAt(i, G[i], k) /\ k \in 1 .. Len(G[i])
    BY <2>2, <2>3, <2>6
  <2>8. QED
    BY <1>2, <1>3, <2>7
<1>6. QED
  BY <1>2, <1>4, <1>5 DEF G

\* What is available by then is decided upon first, as if there were nothing else.
LEMMA DecidedFirst ==
    ASSUME NEW H, AreHistories(H), NEW D \in SUBSET Features(H), NEW t \in Int,
           NEW T, T = {f \in D : f.availability <= t}
    PROVE  LET s == Sorted(D, Earlier)
               p == Sorted(T, Earlier)
           IN  /\ Len(p) \in Nat /\ Len(p) <= Len(s)
               /\ \A k \in 1 .. Len(p) : s[k] = p[k]
               /\ \A k \in 1 .. Len(s) : k <= Len(p) <=> s[k].availability <= t
<1> DEFINE R == EarlierPairs(Features(H))
           s == Sorted(D, Earlier)
           p == Sorted(T, Earlier)
<1>1. T \in SUBSET Features(H) /\ T \subseteq D
  BY DEF EarlierPairs
<1>2. /\ Events!Orders(R, D) /\ s = Events!SortedBy(D, R)
      /\ Events!Orders(R, T) /\ p = Events!SortedBy(T, R)
  BY <1>1, EarlierIsAnOrder
<1>3. IsFiniteSet(D) /\ IsFiniteSet(T)
  BY <1>1, FeaturesTyped, FS_Subset
<1>4. \A x \in T, y \in D \ T : <<x, y>> \in R
  <2>1. ASSUME NEW x \in T, NEW y \in D \ T PROVE Earlier(x, y)
    <3>1. x.availability \in Int /\ y.availability \in Int
      BY <1>1, FeaturesTyped
    <3>2. x.availability <= t /\ ~(y.availability <= t)
      BY <2>1
    <3>3. QED
      BY <3>1, <3>2 DEF Earlier
  <2>2. QED
    BY <1>1, <2>1 DEF EarlierPairs
<1> HIDE DEF R, s, p
<1>5. Cardinality(T) \in Nat /\ Cardinality(T) <= Cardinality(D)
  BY <1>1, <1>3, FS_Subset, FS_CardinalityType
<1>6. /\ \A k \in 1 .. Cardinality(T) : s[k] = p[k]
      /\ \A k \in 1 .. Cardinality(D) : k <= Cardinality(T) <=> s[k] \in T
  <2>1. /\ \A k \in 1 .. Cardinality(T) : Events!SortedBy(D, R)[k] = Events!SortedBy(T, R)[k]
        /\ \A k \in 1 .. Cardinality(D) :
              k <= Cardinality(T) <=> Events!SortedBy(D, R)[k] \in T
    BY <1>1, <1>2, <1>3, <1>4, SortedFirst
  <2>2. QED
    BY <1>2, <2>1
<1>7. Len(s) = Cardinality(D) /\ Len(p) = Cardinality(T) /\ s \in Seq(D)
  BY <1>2, <1>3, SortedInOrder
<1>9. \A k \in 1 .. Len(s) : s[k] \in D
  BY <1>7
<1>10. Len(s) \in Nat /\ \A k \in 1 .. Len(s) : s[k] \in T <=> s[k].availability <= t
  BY <1>7, <1>9
<1>11. /\ Len(p) \in Nat /\ Len(p) <= Len(s)
       /\ \A k \in 1 .. Len(p) : s[k] = p[k]
       /\ \A k \in 1 .. Len(s) : k <= Len(p) <=> s[k].availability <= t
  BY <1>5, <1>6, <1>7, <1>10
<1>12. QED
  BY <1>11 DEF s, p

LEMMA KnownOrder ==
    ASSUME NEW H, AreHistories(H), NEW t \in Int
    PROVE  LET s == DecisionOrder(H)
               g == DecisionOrder(Known(H, t))
           IN  \E n \in Nat : /\ n <= Len(s) /\ n <= Len(g)
                              /\ \A k \in 1 .. n : s[k] = g[k]
                              /\ \A k \in 1 .. Len(s) : k <= n <=> s[k].availability <= t
                              /\ \A k \in 1 .. Len(g) : k <= n <=> g[k].availability <= t
<1> DEFINE G == Known(H, t)
           T == {f \in DecisionSnapshots(H) : f.availability <= t}
           p == Sorted(T, Earlier)
<1>1. /\ AreHistories(G) /\ Features(G) \subseteq Features(H)
      /\ \A f \in Features(H) : f.availability <= t => f \in Features(G)
  BY KnownFeatures
<1>2. \A f \in Features(H) : f.availability \in Int
  BY FeaturesTyped
<1> HIDE DEF G
<1>3. T = {f \in DecisionSnapshots(G) : f.availability <= t}
  BY <1>1 DEF DecisionSnapshots
<1>4. /\ DecisionSnapshots(H) \in SUBSET Features(H)
      /\ DecisionSnapshots(G) \in SUBSET Features(H)
  BY <1>1 DEF DecisionSnapshots
<1> DEFINE s == Sorted(DecisionSnapshots(H), Earlier)
           g == Sorted(DecisionSnapshots(G), Earlier)
<1> HIDE DEF T
<1>5. /\ Len(p) \in Nat /\ Len(p) <= Len(s)
      /\ \A k \in 1 .. Len(p) : s[k] = p[k]
      /\ \A k \in 1 .. Len(s) : k <= Len(p) <=> s[k].availability <= t
  <2> HIDE DEF p, s
  <2>1. QED
    BY <1>4, DecidedFirst DEF T, p, s
<1>6. /\ Len(p) <= Len(g) /\ \A k \in 1 .. Len(p) : g[k] = p[k]
      /\ \A k \in 1 .. Len(g) : k <= Len(p) <=> g[k].availability <= t
  <2> HIDE DEF p, g
  <2>1. QED
    BY <1>3, <1>4, DecidedFirst DEF p, g
<1> HIDE DEF p, s, g
<1>7. \A k \in 1 .. Len(p) : s[k] = g[k]
  BY <1>5, <1>6
<1>8. QED
  BY <1>5, <1>6, <1>7 DEF DecisionOrder, s, g, G


-----------------------------------------------------------------------------
\* The same decisions from what was known by then.

\* A loop from the start on an order of decisions.
Looped(order, chances, evidence) ==
    Loops!Fold([run |-> NothingDecided, opportunities |-> chances, quotes |-> evidence], order)

LEMMA LoopIsRight ==
    ASSUME NEW S, NEW order \in Seq(S), InOrder(order), NEW chances, NEW evidence
    PROVE  LET r == Looped(order, chances, evidence).run
           IN  Right(r, order, chances, evidence) /\ Len(r.evaluations) = Len(order)
<1> DEFINE L(s) == Looped(s, chances, evidence)
           P == {s \in Seq(S) : InOrder(s) =>
                    /\ L(s) = [run |-> L(s).run, opportunities |-> chances, quotes |-> evidence]
                    /\ Right(L(s).run, s, chances, evidence)
                    /\ Len(L(s).run.evaluations) = Len(s)}
<1>1. <<>> \in P
  <2>1. L(<<>>) = [run |-> NothingDecided, opportunities |-> chances, quotes |-> evidence]
    BY Loops!FoldEmpty DEF Looped
  <2>2. <<>> \in Seq(S) /\ Len(<<>>) = 0 /\ IsASequence(<<>>)
    BY DEF IsASequence
  <2>3. /\ Right(NothingDecided, <<>>, chances, evidence)
        /\ Len(NothingDecided.evaluations) = 0
    BY <2>2, NothingIsRight
  <2>4. QED
    BY <2>1, <2>2, <2>3
<1>2. ASSUME NEW s \in Seq(S), NEW x \in S, s \in P PROVE Append(s, x) \in P
  <2> DEFINE t == Append(s, x)
             n == Len(s)
  <2>1. t \in Seq(S) /\ n \in Nat /\ Len(t) = n + 1 /\ t[n + 1] = x /\ \A k \in 1 .. n : t[k] = s[k]
    OBVIOUS
  <2>2. SUFFICES ASSUME InOrder(t)
                 PROVE  /\ L(t) = [run |-> L(t).run, opportunities |-> chances,
                                   quotes |-> evidence]
                        /\ Right(L(t).run, t, chances, evidence)
                        /\ Len(L(t).run.evaluations) = Len(t)
    BY <2>1
  <2>3. InOrder(s)
    <3>1. IsASequence(s)
      BY DEF IsASequence
    <3>2. 1 .. n \subseteq 1 .. Len(t)
      BY <2>1
    <3> HIDE DEF t, n
    <3>3. /\ \A k \in 1 .. n : s[k].availability \in Int
          /\ \A j, k \in 1 .. n : j < k => s[j].availability <= s[k].availability
      BY <2>1, <2>2, <3>2 DEF InOrder
    <3>4. QED
      BY <3>1, <3>3 DEF InOrder, n
  <2>4. L(t) = DecidedNext(L(s), x)
    BY Loops!FoldAppend DEF Looped
  <2> DEFINE r == L(s).run
             d == Decide(r, x, chances, evidence)
  <2>5. /\ L(s) = [run |-> r, opportunities |-> chances, quotes |-> evidence]
        /\ Right(r, s, chances, evidence) /\ Len(r.evaluations) = n
    BY <1>2, <2>3
  <2> HIDE DEF L, t, n
  <2>6. L(t) = [run |-> d, opportunities |-> chances, quotes |-> evidence]
    <3> HIDE DEF r
    <3>1. QED
      BY <2>4, <2>5 DEF DecidedNext
  <2> HIDE DEF r
  <2>7. Right(r, t, chances, evidence)
    BY <2>1, <2>5 DEF Right, n
  <2>8. n < Len(t) /\ x = t[n + 1]
    BY <2>1
  <2>9. Right(d, t, chances, evidence) /\ Len(d.evaluations) = n + 1
    BY <2>2, <2>5, <2>7, <2>8, DecideIsRight
  <2>10. L(t).run = d
    BY <2>6
  <2>11. QED
    BY <2>1, <2>6, <2>9, <2>10
<1> HIDE DEF P
<1>3. \A s \in Seq(S) : s \in P
  BY <1>1, <1>2, Loops!InductionOnSeq
<1>4. QED
  BY <1>3 DEF P

LEMMA DecisionsAreLooped ==
    ASSUME NEW H, NEW chances, NEW evidence
    PROVE  Decisions(H, chances, evidence) = Looped(DecisionOrder(H), chances, evidence).run
BY DEF Decisions, Looped, Loops!Fold, FoldLeft, Loops!FoldLeft, MapThenFoldSet,
       Loops!MapThenFoldSet, Max, Loops!Max

\* The signals of a time were proposed before what is available at that time.
LEMMA EarlierSignals ==
    ASSUME NEW order, InOrder(order), NEW chances, NEW evidence,
           NEW r, Right(r, order, chances, evidence), NEW n \in Nat, n < Len(order),
           NEW s \in r.signals, s.time < order[n + 1].availability
    PROVE  \E k \in 1 .. n : k <= Len(r.evaluations) /\ ProposedAt(s, r.evaluations[k])
<1>1. PICK k \in 1 .. Len(r.evaluations) : ProposedAt(s, r.evaluations[k])
  BY DEF Right
<1>2. Len(r.evaluations) \in Nat /\ Len(order) \in Nat /\ Len(r.evaluations) <= Len(order)
  BY AppendIsASequence DEF Right, InOrder
<1>3. r.evaluations[k] = EvaluationOf(order[k], r.signals, chances, evidence)
  BY <1>1 DEF Right
<1>4. s.time = order[k].availability
  BY <1>1, <1>3 DEF ProposedAt, EvaluationOf, SignalEvent
<1>5. k \in 1 .. Len(order) /\ n + 1 \in 1 .. Len(order) /\ k \in Int /\ k <= Len(r.evaluations)
  BY <1>1, <1>2
<1>6. ~(n + 1 <= k)
  <2>1. CASE n + 1 = k
    <3>1. s.time \in Int
      BY <1>4, <1>5 DEF InOrder
    <3>2. QED
      BY <1>4, <2>1, <3>1
  <2>2. CASE n + 1 < k
    <3>1. /\ order[n + 1].availability <= order[k].availability
          /\ order[n + 1].availability \in Int /\ order[k].availability \in Int
      BY <1>5, <2>2 DEF InOrder
    <3>2. QED
      BY <1>4, <3>1
  <2>3. QED
    BY <1>5, <2>1, <2>2
<1>7. k \in 1 .. n
  BY <1>5, <1>6
<1>8. QED
  BY <1>1, <1>5, <1>7

\* A state does not depend on the opportunities and quotes of later.
LEMMA KnownState ==
    ASSUME Supplied, AreHistories(bars), Decided, NEW t \in Int,
           NEW f \in Features(bars), f.availability <= t, NEW signals,
           {s \in signals : s.time < f.availability} = {s \in run.signals : s.time < f.availability}
    PROVE  StateBefore(signals, {o \in opportunities : o.time <= t},
                       {q \in quotes : q.availability <= t}, f)
             = StateBefore(run.signals, opportunities, quotes, f)
<1> DEFINE a == f.availability
           i == f.instrument
           E == Earliest(run.signals, a)
           known == {q \in quotes : q.availability <= t}
<1>1. /\ a \in Int /\ i \in Instruments
      /\ \A o \in opportunities : o.time \in Int
      /\ \A q \in quotes : q.availability \in Int
  BY FeaturesTyped, OpportunitiesAssumption, QuotesAssumption DEF Supplied
<1>2. {e \in signals \cup {o \in opportunities : o.time <= t} : e.time < a} = E
  BY <1>1 DEF Earliest
<1>3. /\ StateBefore(signals, {o \in opportunities : o.time <= t}, known, f)
            = Handling(E, known, E).states[i].state
      /\ StateBefore(run.signals, opportunities, quotes, f)
            = Handling(E, quotes, E).states[i].state
  BY <1>2, ReplayIsHandling DEF StateBefore, Earliest
<1>4. E \in SUBSET AllEvents /\ \A e \in E : e.time < a
  BY DEF Earliest, AllEvents
<1>5. Comparable(AllEvents) /\ IsFiniteSet(AllEvents)
  BY EventsComparable
<1> HIDE DEF E, known, i
<1>6. IsFiniteSet(E) /\ \A e \in E : e.time \in Int
  BY <1>4, <1>5, FS_Subset DEF Comparable
<1>7. Agree(E, known, E, quotes, Moves(E, i))
  <2>1. Moves(E, i) \subseteq E
    BY DEF Moves
  <2>2. ASSUME NEW e \in E
        PROVE  {x \in known : x.availability <= e.time} = {x \in quotes : x.availability <= e.time}
    <3>1. e.time < t
      BY <1>1, <1>4, <1>6
    <3>2. QED
      BY <1>1, <1>6, <3>1 DEF known
  <2>3. QED
    BY <2>1, <2>2 DEF Agree
<1>8. Handling(E, known, E).states[i] = Handling(E, quotes, E).states[i]
  BY <1>1, <1>4, <1>5, <1>6, <1>7, SameMoves
<1>9. QED
  BY <1>3, <1>8 DEF known

LEMMA KnownDecisions ==
    ASSUME Supplied, AreHistories(bars), Decided, undecided = <<>>, NEW t \in Int
    PROVE  DecidedBy(Decisions(Known(bars, t), {o \in opportunities : o.time <= t},
                               {q \in quotes : q.availability <= t}), t)
             = DecidedBy(run, t)
<1> DEFINE chances == {o \in opportunities : o.time <= t}
           evidence == {q \in quotes : q.availability <= t}
           s == DecisionOrder(bars)
           g == DecisionOrder(Known(bars, t))
           r == Decisions(Known(bars, t), chances, evidence)
<1>1. /\ InOrder(s) /\ s \in Seq(Features(bars))
      /\ InOrder(g) /\ g \in Seq(Features(Known(bars, t)))
  BY DecisionsAreInOrder, KnownFeatures
<1>2. Right(r, g, chances, evidence) /\ Len(r.evaluations) = Len(g)
  <2> HIDE DEF chances, evidence, g
  <2>1. LET l == Looped(g, chances, evidence).run
        IN  Right(l, g, chances, evidence) /\ Len(l.evaluations) = Len(g)
    BY <1>1, LoopIsRight
  <2>2. r = Looped(g, chances, evidence).run
    BY DecisionsAreLooped DEF g
  <2>3. QED
    BY <2>1, <2>2
<1>3. Right(run, s, opportunities, quotes) /\ Len(run.evaluations) = Len(s)
  <2>1. Len(s) = Len(run.evaluations) + Len(undecided) /\ Right(run, s, opportunities, quotes)
    BY DEF Decided
  <2>2. Len(undecided) = 0 /\ Len(run.evaluations) \in Nat
    BY DecidedSays
  <2>3. QED
    BY <2>1, <2>2
<1>4. PICK n \in Nat : /\ n <= Len(s) /\ n <= Len(g)
                       /\ \A k \in 1 .. n : s[k] = g[k]
                       /\ \A k \in 1 .. Len(s) : k <= n <=> s[k].availability <= t
                       /\ \A k \in 1 .. Len(g) : k <= n <=> g[k].availability <= t
  BY KnownOrder
<1>5. ASSUME NEW f \in Features(bars), f.availability <= t,
             {x \in r.signals : x.time < f.availability}
               = {x \in run.signals : x.time < f.availability}
      PROVE  EvaluationOf(f, r.signals, chances, evidence)
               = EvaluationOf(f, run.signals, opportunities, quotes)
  <2>1. StateBefore(r.signals, chances, evidence, f)
          = StateBefore(run.signals, opportunities, quotes, f)
    <3> HIDE DEF r
    <3>1. QED
      BY <1>5, KnownState
  <2>2. QED
    BY <2>1 DEF EvaluationOf
<1> HIDE DEF s, g, r, chances, evidence
<1>6. Len(s) \in Nat /\ Len(g) \in Nat
  BY <1>1
<1> DEFINE P == {m \in Nat : m <= n => \A k \in 1 .. m : r.evaluations[k] = run.evaluations[k]}
<1>7. 0 \in P
  OBVIOUS
<1>8. ASSUME NEW m \in Nat, m \in P PROVE m + 1 \in P
  <2>1. SUFFICES ASSUME m + 1 <= n PROVE r.evaluations[m + 1] = run.evaluations[m + 1]
    <3>1. \A k \in 1 .. m + 1 : k \in 1 .. m \/ k = m + 1
      OBVIOUS
    <3>2. m + 1 <= n => m <= n
      BY <1>4
    <3>3. QED
      BY <1>8, <3>1, <3>2
  <2>2. \A k \in 1 .. m : r.evaluations[k] = run.evaluations[k]
    BY <1>4, <1>8, <2>1
  <2>3. /\ m + 1 \in 1 .. n /\ m + 1 \in 1 .. Len(s) /\ m + 1 \in 1 .. Len(g)
        /\ m < Len(s) /\ m < Len(g)
    BY <1>4, <1>6, <2>1
  <2> DEFINE f == s[m + 1]
  <2>4. f = g[m + 1] /\ f \in Features(bars) /\ f.availability <= t
    BY <1>1, <1>4, <2>1, <2>3
  <2> HIDE DEF f
  <2>5. ASSUME NEW x \in r.signals, x.time < f.availability PROVE x \in run.signals
    <3>1. PICK k \in 1 .. m : ProposedAt(x, r.evaluations[k])
      BY <1>1, <1>2, <2>3, <2>4, <2>5, EarlierSignals
    <3>2. ProposedAt(x, run.evaluations[k]) /\ k \in 1 .. Len(run.evaluations)
      BY <1>3, <1>6, <2>2, <2>3, <3>1
    <3>3. QED
      BY <1>3, <3>2 DEF Right
  <2>6. ASSUME NEW x \in run.signals, x.time < f.availability PROVE x \in r.signals
    <3>1. PICK k \in 1 .. m : ProposedAt(x, run.evaluations[k])
      BY <1>1, <1>3, <2>3, <2>6, EarlierSignals DEF f
    <3>2. ProposedAt(x, r.evaluations[k]) /\ k \in 1 .. Len(r.evaluations)
      BY <1>2, <1>6, <2>2, <2>3, <3>1
    <3>3. QED
      BY <1>2, <3>2 DEF Right
  <2>7. EvaluationOf(f, r.signals, chances, evidence)
          = EvaluationOf(f, run.signals, opportunities, quotes)
    BY <1>5, <2>4, <2>5, <2>6
  <2>8. /\ r.evaluations[m + 1] = EvaluationOf(f, r.signals, chances, evidence)
        /\ run.evaluations[m + 1] = EvaluationOf(f, run.signals, opportunities, quotes)
    BY <1>2, <1>3, <2>3, <2>4 DEF Right, f
  <2>9. QED
    BY <2>7, <2>8
<1> HIDE DEF P
<1>9. \A m \in Nat : m \in P
  BY <1>7, <1>8, Loops!InductionOnSet
<1>10. \A k \in 1 .. n : r.evaluations[k] = run.evaluations[k]
  BY <1>9 DEF P
<1>11. /\ DOMAIN r.evaluations = 1 .. Len(g) /\ DOMAIN run.evaluations = 1 .. Len(s)
  BY <1>2, <1>3, AppendIsASequence DEF Right
<1>12. /\ \A k \in 1 .. Len(g) : r.evaluations[k].feature = g[k]
       /\ \A k \in 1 .. Len(s) : run.evaluations[k].feature = s[k]
  <2>1. ASSUME NEW k \in 1 .. Len(g) PROVE r.evaluations[k].feature = g[k]
    <3>1. r.evaluations[k] = EvaluationOf(g[k], r.signals, chances, evidence)
      BY <1>2 DEF Right
    <3>2. QED
      BY <3>1 DEF EvaluationOf
  <2>2. ASSUME NEW k \in 1 .. Len(s) PROVE run.evaluations[k].feature = s[k]
    <3>1. run.evaluations[k] = EvaluationOf(s[k], run.signals, opportunities, quotes)
      BY <1>3 DEF Right
    <3>2. QED
      BY <3>1 DEF EvaluationOf
  <2>3. QED
    BY <2>1, <2>2
<1>13. DecidedBy(r, t) = {<<k, r.evaluations[k]>> : k \in 1 .. n}
  <2>1. {k \in DOMAIN r.evaluations : r.evaluations[k].feature.availability <= t} = 1 .. n
    BY <1>4, <1>6, <1>11, <1>12
  <2>2. QED
    BY <2>1 DEF DecidedBy
<1>14. DecidedBy(run, t) = {<<k, run.evaluations[k]>> : k \in 1 .. n}
  <2>1. {k \in DOMAIN run.evaluations : run.evaluations[k].feature.availability <= t} = 1 .. n
    BY <1>4, <1>6, <1>11, <1>12
  <2>2. QED
    BY <2>1 DEF DecidedBy
<1>15. DecidedBy(r, t) = DecidedBy(run, t)
  BY <1>10, <1>13, <1>14
<1>16. QED
  BY <1>15 DEF r, chances, evidence

\* No decision of run_simulation depends on what comes after it: with histories,
\* opportunities and quotes that end at any time, the decisions up to it are the same.
THEOREM FutureIsUnread == Spec => []FutureRewritesNothing
<1>1. ASSUME SimInv, final.made, NEW t \in {f.availability : f \in Features(bars)}
      PROVE  DecidedBy(Decisions([i \in Instruments |-> KnownBy(bars[i], t)],
                                 {o \in opportunities : o.time <= t},
                                 {q \in quotes : q.availability <= t}), t)
               = DecidedBy(run, t)
  <2>1. Supplied /\ AreHistories(bars) /\ Decided /\ undecided = <<>>
    BY <1>1, FinalIsDecided DEF SimInv
  <2>2. t \in Int
    BY <2>1, FeaturesTyped
  <2>3. QED
    BY <2>1, <2>2, KnownDecisions DEF Known
<1>2. SimInv => FutureRewritesNothing
  BY <1>1 DEF FutureRewritesNothing
<1>3. QED
  BY <1>2, SimInvAlways, PTL

=============================================================================
