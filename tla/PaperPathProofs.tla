--------------------------- MODULE PaperPathProofs ---------------------------
(***************************************************************************)
(* What the two registries and the constructors of broker.py guarantee     *)
(* together, for any candidates, any script and any way of cutting digests *)
(* short. The argument: two registered bindings with one identifier have   *)
(* one identity, the registry of identifiers having refused the second;    *)
(* an identity determines the key of a binding that could be constructed;  *)
(* and the registry of opportunities keeps one binding for a key.          *)
(* That a redelivery is refused for what is material in it, and only for   *)
(* that, rests on OneTextPerNumber: the canonical text of a decimal is     *)
(* determined by the number, which a fold over its digits counts, and      *)
(* determines it.                                                          *)
(***************************************************************************)
EXTENDS PaperPath, SequenceTheorems, TLAPS

BindingsSound ==
    /\ bindings \subseteq {c \in Candidates : BindingHolds(c)}
    /\ \A b, c \in bindings : b.key = c.key => b = c

NamesSound ==
    /\ held \subseteq bindings /\ named \subseteq held
    /\ \A c \in named : IdentityOf(c) \in clients
    /\ \A i, j \in clients : ClientId(i) = ClientId(j) => i = j

ResultsSound ==
    \A r \in results :
        /\ r.candidate \in named
        /\ r.result.request = Request(r.candidate)
        /\ ResultHolds(r.result)

PInv == BindingsSound /\ NamesSound /\ ResultsSound

-----------------------------------------------------------------------------
\* An identity tells everything a source key does. Code: SourceOpportunityBinding
\* compares every field of the key with the signal and the intent, and the digests of
\* risk/models.py and paper_identity.py cover those.
LEMMA IdentityDeterminesKey ==
    ASSUME NEW c \in Candidates, NEW d \in Candidates, BindingHolds(c), BindingHolds(d),
           IdentityOf(c) = IdentityOf(d)
    PROVE  c.key = d.key
<1>1. /\ c.key.account = d.key.account /\ c.key.scope = d.key.scope
      /\ BusinessParts(c.intent.signal) = BusinessParts(d.intent.signal)
  BY DEF IdentityOf, IntentIdentity
<1>2. /\ BusinessParts(c.intent.signal) = BusinessParts(c.signal)
      /\ BusinessParts(d.intent.signal) = BusinessParts(d.signal)
  BY DEF BindingHolds, SameSignal
<1>3. BusinessParts(c.signal) = BusinessParts(d.signal)
  BY <1>1, <1>2
<1>4. /\ c.signal.instrument = d.signal.instrument /\ c.signal.strategy = d.signal.strategy
      /\ c.signal.feature = d.signal.feature /\ c.signal.bar = d.signal.bar
      /\ c.signal.lineage = d.signal.lineage
  BY <1>3 DEF BusinessParts
<1>5. /\ c.key.instrument = d.key.instrument /\ c.key.strategy = d.key.strategy
      /\ c.key.feature = d.key.feature /\ c.key.bar = d.key.bar
      /\ c.key.lineage = d.key.lineage
  BY <1>4 DEF BindingHolds
<1> QED BY <1>1, <1>5, CandidatesAssumption

\* A reply taken for the result of a request has passed SubmissionResult's checks.
LEMMA AnswersHold ==
    ASSUME NEW call, NEW reply \in Answers(call), reply # Raised, reply.kind = "result"
    PROVE  ResultHolds(reply.value)
<1>1. PICK s \in Steps : ReplyHolds(s.reply) /\ reply = s.reply
  BY DEF Answers
<1> QED BY <1>1 DEF ReplyHolds

-----------------------------------------------------------------------------
LEMMA InitSound == Init => PInv
BY DEF Init, PInv, BindingsSound, NamesSound, ResultsSound

LEMMA BindSound ==
    ASSUME PInv, NEW c \in Candidates, Bind(c)
    PROVE  PInv'
<1> DEFINE existing == {b \in bindings : b.key = c.key}
<1>1. /\ BindingHolds(c)
      /\ \/ existing = {} /\ bindings' = bindings \cup {c} /\ held' = held \cup {c}
         \/ bindings' = bindings /\ held' = held \cup existing
      /\ UNCHANGED <<clients, named, calls, results, restarts>>
  BY DEF Bind
<1>2. BindingsSound'
  BY <1>1 DEF PInv, BindingsSound
<1>3. NamesSound'
  BY <1>1 DEF PInv, NamesSound
<1>4. ResultsSound'
  BY <1>1 DEF PInv, ResultsSound
<1> QED BY <1>2, <1>3, <1>4 DEF PInv

LEMMA RegisterSound ==
    ASSUME PInv, NEW c \in Candidates, Register(c)
    PROVE  PInv'
<1>1. BindingsSound'
  BY DEF Register, PInv, BindingsSound
<1>2. NamesSound'
  <2>1. held' \subseteq bindings' /\ named' \subseteq held'
    BY DEF Register, PInv, NamesSound
  <2>2. \A d \in named' : IdentityOf(d) \in clients'
    BY DEF Register, PInv, NamesSound
  <2>3. \A i, j \in clients' : ClientId(i) = ClientId(j) => i = j
    BY DEF Register, PInv, NamesSound
  <2> QED BY <2>1, <2>2, <2>3 DEF NamesSound
<1>3. ResultsSound'
  BY DEF Register, PInv, ResultsSound
<1> QED BY <1>1, <1>2, <1>3 DEF PInv

LEMMA SubmitSound ==
    ASSUME PInv, NEW c \in Candidates, Submit(c)
    PROVE  PInv'
<1> DEFINE request == Request(c)
           Fits(reply) == /\ reply # Raised /\ reply.kind = "result"
                          /\ reply.value.request = request
<1>1. BindingsSound' /\ NamesSound'
  BY DEF Submit, PInv, BindingsSound, NamesSound
<1>2. PICK reply \in Answers(SubmitCall(request)) :
          results' = IF Fits(reply)
                     THEN results \cup {[candidate |-> c, result |-> reply.value]}
                     ELSE results
  BY DEF Submit
<1>3. Fits(reply) => ResultHolds(reply.value)
  BY AnswersHold
<1>4. c \in named /\ named' = named
  BY DEF Submit
<1>5. ResultsSound'
  BY <1>2, <1>3, <1>4 DEF PInv, ResultsSound
<1> QED BY <1>1, <1>5 DEF PInv

LEMMA Inductive == PInv /\ [Next]_pathVars => PInv'
<1> SUFFICES ASSUME PInv, [Next]_pathVars PROVE PInv'
  OBVIOUS
<1>1. ASSUME NEW c \in Candidates, Bind(c) PROVE PInv'
  BY <1>1, BindSound
<1>2. ASSUME NEW c \in Candidates, Register(c) PROVE PInv'
  BY <1>2, RegisterSound
<1>3. ASSUME NEW c \in Candidates, Submit(c) PROVE PInv'
  BY <1>3, SubmitSound
<1>4. ASSUME NEW c \in Candidates, Lookup(c) PROVE PInv'
  BY <1>4 DEF Lookup, PInv, BindingsSound, NamesSound, ResultsSound
<1>5. CASE Restart
  BY <1>5 DEF Restart, PInv, BindingsSound, NamesSound, ResultsSound
<1>6. CASE UNCHANGED pathVars
  BY <1>6 DEF pathVars, PInv, BindingsSound, NamesSound, ResultsSound
<1> QED BY <1>1, <1>2, <1>3, <1>4, <1>5, <1>6 DEF Next

\* The invariant of the two registries and of what was returned.
THEOREM PathInvariant == Spec => []PInv
  BY InitSound, Inductive, PTL DEF Spec

-----------------------------------------------------------------------------
LEMMA NamesAreOpportunities == PInv => ClientIdsNameOpportunities
<1> SUFFICES ASSUME PInv, NEW c \in named, NEW d \in named
             PROVE  ClientId(IdentityOf(c)) = ClientId(IdentityOf(d)) <=> c.key = d.key
  BY DEF ClientIdsNameOpportunities
<1>1. /\ c \in bindings /\ d \in bindings
      /\ c \in Candidates /\ d \in Candidates /\ BindingHolds(c) /\ BindingHolds(d)
  BY DEF PInv, BindingsSound, NamesSound
<1>2. ASSUME ClientId(IdentityOf(c)) = ClientId(IdentityOf(d)) PROVE c.key = d.key
  <2>1. IdentityOf(c) = IdentityOf(d)
    BY <1>2 DEF PInv, NamesSound
  <2> QED BY <2>1, <1>1, IdentityDeterminesKey
<1>3. ASSUME c.key = d.key PROVE ClientId(IdentityOf(c)) = ClientId(IdentityOf(d))
  <2>1. c = d
    BY <1>1, <1>3 DEF PInv, BindingsSound
  <2> QED BY <2>1
<1> QED BY <1>2, <1>3

\* A registered identifier and a source opportunity name each other, whatever is
\* redelivered and however digests are cut short. Code: bind and register.
THEOREM IdentifiersNameOpportunities == Spec => []ClientIdsNameOpportunities
  BY PathInvariant, NamesAreOpportunities, PTL

\* Whatever the script has, an acceptance that submit returns shows the instrument, side
\* and quantity asked for, and bears the identifier of that opportunity alone. Code:
\* SubmissionResult on top of the registries.
THEOREM AcceptancesAreCredited == Spec => []AcceptedOrderIsTheRequested
<1>1. PInv => AcceptedOrderIsTheRequested
  <2> SUFFICES ASSUME PInv,
                      NEW p \in results, NEW q \in results,
                      p.result.status = "accepted", q.result.status = "accepted"
               PROVE  /\ p.result.order.instrument = p.candidate.intent.instrument
                      /\ p.result.order.side = p.candidate.intent.side
                      /\ p.result.order.quantity = p.candidate.intent.quantity
                      /\ p.result.order.client = q.result.order.client
                            => p.candidate.key = q.candidate.key
    BY DEF AcceptedOrderIsTheRequested
  <2>1. ASSUME NEW r \in results, r.result.status = "accepted"
        PROVE  /\ r.result.order.client = ClientId(IdentityOf(r.candidate))
               /\ r.result.order.instrument = r.candidate.intent.instrument
               /\ r.result.order.side = r.candidate.intent.side
               /\ r.result.order.quantity = r.candidate.intent.quantity
    <3>1. r.result.request = Request(r.candidate) /\ ResultHolds(r.result)
      BY DEF PInv, ResultsSound
    <3>2. /\ r.result.order.client = r.result.request.client
          /\ r.result.order.instrument = r.result.request.instrument
          /\ r.result.order.side = r.result.request.side
          /\ r.result.order.quantity = r.result.request.quantity
      BY <2>1, <3>1 DEF ResultHolds
    <3> QED BY <3>1, <3>2 DEF Request
  <2>2. p.candidate \in named /\ q.candidate \in named
    BY DEF PInv, ResultsSound
  <2>3. p.result.order.client = q.result.order.client => p.candidate.key = q.candidate.key
    BY <2>1, <2>2, NamesAreOpportunities DEF ClientIdsNameOpportunities
  <2> QED BY <2>1, <2>3
<1> QED BY <1>1, PathInvariant, PTL

-----------------------------------------------------------------------------
\* Folds over digits: the number that they write.
Digits == INSTANCE FoldLemmas WITH op <- AddDigit

Numerals == Seq(0 .. 9)

\* The number that a sequence of digits writes.
Value(s) == Digits!Fold(0, s)

LEMMA ValueAppend ==
    /\ Value(<<>>) = 0
    /\ \A s \in Numerals, x \in 0 .. 9 : Value(Append(s, x)) = 10 * Value(s) + x
<1>1. \A s \in Numerals, x \in 0 .. 9 : Value(Append(s, x)) = AddDigit(Value(s), x)
  BY Digits!FoldAppend DEF Value, Numerals
<1>2. QED
  BY <1>1, Digits!FoldEmpty DEF Value, AddDigit

\* A numeral with one digit more.
LEMMA Longer ==
    ASSUME NEW s \in Numerals, NEW x \in 0 .. 9, NEW a, a = Append(s, x)
    PROVE  /\ a \in Numerals /\ a # <<>> /\ Value(a) = 10 * Value(s) + x
           /\ Len(s) \in Nat /\ DOMAIN s = 1 .. Len(s) /\ DOMAIN a = 1 .. Len(s) + 1
           /\ \A k \in 1 .. Len(s) : a[k] = s[k]
           /\ a[Len(s) + 1] = x
           /\ a[1] = IF s = <<>> THEN x ELSE s[1]
<1>1. a \in Numerals /\ a # <<>>
  BY AppendProperties DEF Numerals
<1>2. Value(a) = 10 * Value(s) + x
  BY ValueAppend
<1>3. Len(s) \in Nat /\ DOMAIN s = 1 .. Len(s)
  BY LenProperties DEF Numerals
<1>4. Len(a) = Len(s) + 1 /\ DOMAIN a = 1 .. Len(a)
  BY <1>1, AppendProperties, LenProperties DEF Numerals
<1>5. (\A k \in 1 .. Len(s) : a[k] = s[k]) /\ a[Len(s) + 1] = x
  BY AppendProperties DEF Numerals
<1>6. s # <<>> => 1 \in 1 .. Len(s)
  BY EmptySeq DEF Numerals
<1>7. s = <<>> => Len(s) = 0
  BY EmptySeq
<1>8. QED
  BY <1>1, <1>2, <1>3, <1>4, <1>5, <1>6, <1>7

LEMMA ValueNat == \A s \in Numerals : Value(s) \in Nat
<1> DEFINE P == {s \in Numerals : Value(s) \in Nat}
<1>1. <<>> \in P
  BY ValueAppend, EmptySeq DEF Numerals
<1>2. ASSUME NEW s \in Numerals, NEW x \in 0 .. 9, s \in P PROVE Append(s, x) \in P
  <2>1. Append(s, x) \in Numerals /\ Value(Append(s, x)) = 10 * Value(s) + x
    BY Longer
  <2>2. QED
    BY <1>2, <2>1
<1> HIDE DEF P
<1>3. \A s \in Numerals : s \in P
  BY <1>1, <1>2, Digits!InductionOnSeq DEF Numerals
<1>4. QED
  BY <1>3 DEF P

\* Without a leading zero, no digits or a positive number.
Leading(s) == s = <<>> \/ s[1] # 0

LEMMA ValuePositive == \A s \in Numerals : Leading(s) /\ s # <<>> => Value(s) > 0
<1> DEFINE P == {s \in Numerals : Leading(s) /\ s # <<>> => Value(s) > 0}
<1>1. <<>> \in P
  BY EmptySeq DEF Numerals
<1>2. ASSUME NEW s \in Numerals, NEW x \in 0 .. 9, s \in P PROVE Append(s, x) \in P
  <2>1. Leading(s) /\ s # <<>> => Value(s) > 0
    BY <1>2
  <2> HIDE DEF P
  <2>2. PICK a : a = Append(s, x)
    OBVIOUS
  <2>3. a \in Numerals /\ Value(a) = 10 * Value(s) + x /\ a[1] = IF s = <<>> THEN x ELSE s[1]
    BY <2>2, Longer
  <2>4. Value(s) \in Nat
    BY ValueNat
  <2>5. CASE s = <<>>
    <3>1. Value(s) = 0 /\ a[1] = x
      BY <2>3, <2>5, ValueAppend
    <3>2. x # 0 => Value(a) > 0
      BY <2>3, <3>1
    <3>3. a # <<>> /\ Leading(a) => x # 0
      BY <3>1 DEF Leading
    <3>4. QED
      BY <2>2, <2>3, <3>2, <3>3 DEF P
  <2>6. CASE s # <<>>
    <3>1. Leading(a) /\ a # <<>> => Leading(s)
      BY <2>3, <2>6 DEF Leading
    <3>2. Value(s) > 0 => Value(a) > 0
      BY <2>3, <2>4
    <3>3. QED
      BY <2>1, <2>2, <2>3, <2>6, <3>1, <3>2 DEF P
  <2>7. QED
    BY <2>5, <2>6
<1> HIDE DEF P
<1>3. \A s \in Numerals : s \in P
  BY <1>1, <1>2, Digits!InductionOnSeq DEF Numerals
<1>4. QED
  BY <1>3 DEF P

\* Two numerals without leading zeros that write one number are one.
LEMMA ValueInjective ==
    \A s, t \in Numerals : Leading(s) /\ Leading(t) /\ Value(s) = Value(t) => s = t
<1> DEFINE P == {s \in Numerals : \A t \in Numerals :
                     Leading(s) /\ Leading(t) /\ Value(s) = Value(t) => s = t}
<1>1. <<>> \in P
  <2>1. \A t \in Numerals : Leading(t) /\ Value(t) = 0 => t = <<>>
    BY ValuePositive, ValueNat
  <2>2. QED
    BY <2>1, ValueAppend, EmptySeq DEF Numerals
<1>2. ASSUME NEW s \in Numerals, NEW x \in 0 .. 9, s \in P PROVE Append(s, x) \in P
  <2>1. /\ Append(s, x) \in Numerals /\ Append(s, x) # <<>>
        /\ Value(Append(s, x)) = 10 * Value(s) + x /\ Value(s) \in Nat
    BY Longer, ValueNat
  <2>2. ASSUME NEW t \in Numerals, Leading(Append(s, x)), Leading(t), Value(t) = Value(Append(s, x))
        PROVE  Append(s, x) = t
    <3>1. t # <<>>
      <4>1. Value(Append(s, x)) > 0
        BY <2>1, <2>2, ValuePositive
      <4>2. QED
        BY <2>2, <4>1, ValueAppend
    <3>2. PICK u \in Numerals, y \in 0 .. 9 : t = Append(u, y)
      BY <3>1, SequenceEmptyOrAppend DEF Numerals
    <3>3. Value(t) = 10 * Value(u) + y /\ Value(u) \in Nat
      BY <3>2, ValueAppend, ValueNat
    <3>4. Value(u) = Value(s) /\ x = y
      <4>1. 10 * Value(u) + y = 10 * Value(s) + x
        BY <2>1, <2>2, <3>3
      <4>2. ASSUME NEW m \in Nat, NEW n \in Nat, 10 * m + y = 10 * n + x PROVE m = n /\ x = y
        BY <4>2
      <4>3. QED
        BY <2>1, <3>3, <4>1, <4>2
    <3>5. ASSUME NEW v \in Numerals, NEW z \in 0 .. 9, Leading(Append(v, z)) PROVE Leading(v)
      <4>1. v # <<>> => Append(v, z)[1] = v[1] /\ Append(v, z) # <<>>
        BY AppendProperties, EmptySeq DEF Numerals
      <4>2. QED
        BY <3>5, <4>1 DEF Leading
    <3>6. Leading(s) /\ Leading(u)
      BY <2>2, <3>2, <3>5
    <3>7. QED
      BY <1>2, <3>2, <3>4, <3>6
  <2>3. QED
    BY <2>1, <2>2
<1> HIDE DEF P
<1>3. \A s \in Numerals : s \in P
  BY <1>1, <1>2, Digits!InductionOnSeq DEF Numerals
<1>4. QED
  BY <1>3 DEF P

\* Nothing but zeros writes zero.
LEMMA ValueOfZeros == \A s \in Numerals : (\A k \in DOMAIN s : s[k] = 0) => Value(s) = 0
<1> DEFINE P == {s \in Numerals : (\A k \in DOMAIN s : s[k] = 0) => Value(s) = 0}
<1>1. <<>> \in P
  BY ValueAppend, EmptySeq DEF Numerals
<1>2. ASSUME NEW s \in Numerals, NEW x \in 0 .. 9, s \in P PROVE Append(s, x) \in P
  <2>1. (\A k \in DOMAIN s : s[k] = 0) => Value(s) = 0
    BY <1>2
  <2> HIDE DEF P
  <2>2. PICK a : a = Append(s, x)
    OBVIOUS
  <2>3. /\ a \in Numerals /\ Value(a) = 10 * Value(s) + x
        /\ Len(s) \in Nat /\ DOMAIN s = 1 .. Len(s) /\ DOMAIN a = 1 .. Len(s) + 1
        /\ \A k \in 1 .. Len(s) : a[k] = s[k]
        /\ a[Len(s) + 1] = x
    <3>1. a \in Numerals /\ Value(a) = 10 * Value(s) + x
      BY <2>2, Longer
    <3>2. Len(s) \in Nat /\ DOMAIN s = 1 .. Len(s) /\ DOMAIN a = 1 .. Len(s) + 1
      BY <2>2, Longer
    <3>3. (\A k \in 1 .. Len(s) : a[k] = s[k]) /\ a[Len(s) + 1] = x
      BY <2>2, Longer
    <3>4. QED
      BY <3>1, <3>2, <3>3
  <2>4. (\A k \in DOMAIN a : a[k] = 0) => (\A k \in DOMAIN s : s[k] = 0) /\ x = 0
    BY <2>3
  <2>5. (\A k \in DOMAIN a : a[k] = 0) => Value(a) = 0
    BY <2>1, <2>3, <2>4
  <2>6. QED
    BY <2>2, <2>3, <2>5 DEF P
<1> HIDE DEF P
<1>3. \A s \in Numerals : s \in P
  BY <1>1, <1>2, Digits!InductionOnSeq DEF Numerals
<1>4. QED
  BY <1>3 DEF P

-----------------------------------------------------------------------------
\* The digits of a Decimal down to the least exponent.
Units(d, least) == d.digits \o [k \in 1 .. d.exponent - least |-> 0]

IsZero(d) == \A k \in DOMAIN d.digits : d.digits[k] = 0

LEMMA UnitsOf ==
    ASSUME NEW d, IsDecimal(d), NEW least \in Int, least <= d.exponent, NEW u, u = Units(d, least)
    PROVE  /\ u \in Numerals /\ u # <<>> /\ Len(d.digits) \in Nat \ {0}
           /\ DOMAIN d.digits = 1 .. Len(d.digits) /\ DOMAIN u = 1 .. Len(u)
           /\ Len(u) = Len(d.digits) + (d.exponent - least)
           /\ \A k \in 1 .. Len(u) : u[k] = IF k <= Len(d.digits) THEN d.digits[k] ELSE 0
<1> DEFINE zeros == [k \in 1 .. d.exponent - least |-> 0]
<1>1. d.digits \in Numerals /\ d.digits # <<>> /\ d.exponent - least \in Nat
  BY DEF IsDecimal, Numerals
<1>2. zeros \in Numerals /\ Len(zeros) = d.exponent - least
  BY <1>1 DEF Numerals
<1>3. \A k \in 1 .. d.exponent - least : zeros[k] = 0
  OBVIOUS
<1>4. u = d.digits \o zeros
  BY DEF Units
<1> HIDE DEF zeros
<1>5. /\ u \in Numerals /\ Len(u) = Len(d.digits) + (d.exponent - least)
      /\ \A k \in 1 .. Len(d.digits) + Len(zeros) :
             u[k] = IF k <= Len(d.digits) THEN d.digits[k] ELSE zeros[k - Len(d.digits)]
  <2>1. ASSUME NEW s \in Seq(0 .. 9), NEW z \in Seq(0 .. 9)
        PROVE  /\ s \o z \in Seq(0 .. 9) /\ Len(s \o z) = Len(s) + Len(z)
               /\ \A i \in 1 .. Len(s) + Len(z) :
                      (s \o z)[i] = IF i <= Len(s) THEN s[i] ELSE z[i - Len(s)]
    BY ConcatProperties
  <2>2. d.digits \in Seq(0 .. 9) /\ zeros \in Seq(0 .. 9)
    BY <1>1, <1>2 DEF Numerals
  <2>3. u \in Numerals /\ Len(u) = Len(d.digits) + Len(zeros)
    BY <1>4, <2>1, <2>2 DEF Numerals
  <2>4. \A k \in 1 .. Len(d.digits) + Len(zeros) :
             u[k] = IF k <= Len(d.digits) THEN d.digits[k] ELSE zeros[k - Len(d.digits)]
    BY <1>4, <2>1, <2>2
  <2>5. QED
    BY <1>2, <2>3, <2>4
<1>6. Len(d.digits) \in Nat \ {0} /\ DOMAIN d.digits = 1 .. Len(d.digits) /\ DOMAIN u = 1 .. Len(u)
  BY <1>1, <1>5, LenProperties, EmptySeq DEF Numerals
<1>7. \A k \in 1 .. Len(u) : u[k] = IF k <= Len(d.digits) THEN d.digits[k] ELSE 0
  BY <1>1, <1>2, <1>3, <1>5, <1>6
<1>8. u # <<>>
  BY <1>1, <1>5, <1>6, EmptySeq
<1>9. QED
  BY <1>5, <1>6, <1>7, <1>8

\* A numeral of zeros alone, or with a last digit that is none.
LastNonzero(s, n) == n \in 1 .. Len(s) /\ s[n] # 0 /\ \A k \in n + 1 .. Len(s) : s[k] = 0

LEMMA ZerosOrLast ==
    \A s \in Numerals : (\A k \in DOMAIN s : s[k] = 0) \/ \E n \in 1 .. Len(s) : LastNonzero(s, n)
<1> DEFINE P == {s \in Numerals : (\A k \in DOMAIN s : s[k] = 0)
                                  \/ \E n \in 1 .. Len(s) : LastNonzero(s, n)}
<1>1. <<>> \in P
  BY EmptySeq DEF Numerals
<1>2. ASSUME NEW s \in Numerals, NEW x \in 0 .. 9, s \in P PROVE Append(s, x) \in P
  <2>1. (\A k \in DOMAIN s : s[k] = 0) \/ \E n \in 1 .. Len(s) : LastNonzero(s, n)
    BY <1>2
  <2> HIDE DEF P
  <2>2. PICK a : a = Append(s, x)
    OBVIOUS
  <2>3. /\ a \in Numerals /\ Len(a) = Len(s) + 1
        /\ Len(s) \in Nat /\ DOMAIN s = 1 .. Len(s) /\ DOMAIN a = 1 .. Len(s) + 1
        /\ \A k \in 1 .. Len(s) : a[k] = s[k]
        /\ a[Len(s) + 1] = x
    <3>1. a \in Numerals
      BY <2>2, Longer
    <3>2. Len(s) \in Nat /\ DOMAIN s = 1 .. Len(s) /\ DOMAIN a = 1 .. Len(s) + 1
      BY <2>2, Longer
    <3>3. (\A k \in 1 .. Len(s) : a[k] = s[k]) /\ a[Len(s) + 1] = x
      BY <2>2, Longer
    <3>4. Len(a) = Len(s) + 1
      BY <2>2, AppendProperties DEF Numerals
    <3>5. QED
      BY <3>1, <3>2, <3>3, <3>4
  <2>4. CASE x # 0
    <3>1. LastNonzero(a, Len(s) + 1) /\ Len(s) + 1 \in 1 .. Len(a)
      BY <2>3, <2>4 DEF LastNonzero
    <3>2. QED
      BY <2>2, <2>3, <3>1 DEF P
  <2>5. CASE x = 0 /\ \A k \in DOMAIN s : s[k] = 0
    <3>1. \A k \in DOMAIN a : a[k] = 0
      BY <2>3, <2>5
    <3>2. QED
      BY <2>2, <2>3, <3>1 DEF P
  <2>6. CASE x = 0 /\ \E n \in 1 .. Len(s) : LastNonzero(s, n)
    <3>1. PICK n \in 1 .. Len(s) : LastNonzero(s, n)
      BY <2>6
    <3>2. LastNonzero(a, n) /\ n \in 1 .. Len(a)
      BY <2>3, <2>6, <3>1 DEF LastNonzero
    <3>3. QED
      BY <2>2, <2>3, <3>2 DEF P
  <2>7. QED
    BY <2>1, <2>4, <2>5, <2>6
<1> HIDE DEF P
<1>3. \A s \in Numerals : s \in P
  BY <1>1, <1>2, Digits!InductionOnSeq DEF Numerals
<1>4. QED
  BY <1>3 DEF P

\* What the canonical form of a Decimal that is not zero keeps.
LEMMA TextOf ==
    ASSUME NEW d, IsDecimal(d), ~IsZero(d), NEW n, n = Significant(d.digits),
           NEW kept, kept = SubSeq(d.digits, 1, n)
    PROVE  /\ DecimalText(d) = <<d.sign, kept, d.exponent + Len(d.digits) - n>>
           /\ LastNonzero(d.digits, n) /\ d.digits[1] # 0
           /\ kept \in Numerals /\ Len(kept) = n
           /\ \A k \in 1 .. n : kept[k] = d.digits[k]
<1>1. d.digits \in Numerals /\ Len(d.digits) \in Nat \ {0} /\ DOMAIN d.digits = 1 .. Len(d.digits)
  BY LenProperties, EmptySeq DEF IsDecimal, Numerals
<1>2. LastNonzero(d.digits, n)
  <2>1. PICK k \in 1 .. Len(d.digits) : LastNonzero(d.digits, k)
    BY <1>1, ZerosOrLast DEF IsZero
  <2>2. /\ n \in 1 .. Len(d.digits) /\ (n = 1 \/ d.digits[n] # 0)
        /\ \A j \in n + 1 .. Len(d.digits) : d.digits[j] = 0
    BY <2>1 DEF Significant, LastNonzero
  <2>3. n = 1 => d.digits[n] # 0
    BY <1>1, <2>1, <2>2 DEF LastNonzero
  <2>4. QED
    BY <2>2, <2>3 DEF LastNonzero
<1>3. d.digits[1] # 0
  BY <1>1 DEF IsDecimal, IsZero
<1>4. DecimalText(d) = <<d.sign, kept, d.exponent + Len(d.digits) - n>>
  BY DEF DecimalText, IsZero
<1>5. n \in Nat /\ n >= 1 /\ n <= Len(d.digits)
  BY <1>1, <1>2 DEF LastNonzero
<1>6. kept \in Numerals /\ Len(kept) = n /\ \A k \in 1 .. n : kept[k] = d.digits[k]
  <2>1. \A k \in 1 .. n : d.digits[k] \in 0 .. 9
    BY <1>1, <1>5, ElementOfSeq DEF Numerals
  <2>2. QED
    BY <1>5, <2>1, SubSeqProperties DEF Numerals
<1>7. QED
  BY <1>2, <1>3, <1>4, <1>6

LEMMA KeptDigits ==
    ASSUME NEW d, IsDecimal(d), ~IsZero(d)
    PROVE  \A k \in 1 .. Significant(d.digits) :
               SubSeq(d.digits, 1, Significant(d.digits))[k] = d.digits[k]
<1>1. PICK n, kept : n = Significant(d.digits) /\ kept = SubSeq(d.digits, 1, n)
  OBVIOUS
<1>2. LastNonzero(d.digits, n)
  BY <1>1, TextOf
<1>3. n \in Nat /\ n <= Len(d.digits) /\ d.digits \in Numerals
  BY <1>2, LenProperties DEF LastNonzero, IsDecimal, Numerals
<1>4. \A k \in 1 .. n : d.digits[k] \in 0 .. 9
  BY <1>3, ElementOfSeq, LenProperties DEF Numerals
<1>5. \A k \in 1 .. n : kept[k] = d.digits[k]
  BY <1>1, <1>3, <1>4, SubSeqProperties
<1>6. QED
  BY <1>1, <1>5

-----------------------------------------------------------------------------
LEMMA FoldIsValue == \A s : FoldLeft(AddDigit, 0, s) = Value(s)
BY DEF Value, Digits!Fold, FoldLeft, Digits!FoldLeft, MapThenFoldSet, Digits!MapThenFoldSet,
       Max, Digits!Max

\* The number of a Decimal, in units of the least exponent.
Number(d, least) == IF d.sign = 1 THEN -Value(Units(d, least)) ELSE Value(Units(d, least))

LEMMA SameIsNumber ==
    ASSUME NEW d, NEW e, NEW least
    PROVE  SameNumber(d, e, least) <=> Number(d, least) = Number(e, least)
BY FoldIsValue DEF SameNumber, Number, Units

LEMMA NumberOfZero ==
    ASSUME NEW d, IsDecimal(d), NEW least \in Int, least <= d.exponent, IsZero(d)
    PROVE  Number(d, least) = 0 /\ DecimalText(d) = <<0, <<0>>, 0>>
<1> DEFINE u == Units(d, least)
<1>1. /\ u \in Numerals /\ DOMAIN u = 1 .. Len(u)
      /\ DOMAIN d.digits = 1 .. Len(d.digits)
      /\ Len(d.digits) \in Nat \ {0}
      /\ \A k \in 1 .. Len(u) : u[k] = IF k <= Len(d.digits) THEN d.digits[k] ELSE 0
  BY UnitsOf
<1>2. Len(u) \in Nat
  BY <1>1, LenProperties DEF Numerals
<1> HIDE DEF u
<1>3. \A k \in DOMAIN u : u[k] = 0
  BY <1>1, <1>2 DEF IsZero
<1>4. Value(u) = 0
  BY <1>1, <1>3, ValueOfZeros
<1>5. DecimalText(d) = <<0, <<0>>, 0>>
  BY DEF DecimalText, IsZero
<1>6. QED
  <2>1. Number(d, least) = 0
    <3>1. Value(Units(d, least)) = 0
      BY <1>4 DEF u
    <3>2. ASSUME NEW x \in Int, x <= 0, x >= 0 PROVE -x = 0
      BY <3>2
    <3>3. -Value(Units(d, least)) = 0
      <4>1. PICK x : x = Value(Units(d, least)) /\ x \in Int /\ x <= 0 /\ x >= 0
        BY <3>1
      <4>2. -x = 0
        BY <3>2, <4>1
      <4>3. QED
        BY <4>1, <4>2
    <3>4. QED
      BY <3>1, <3>3 DEF Number
  <2>2. QED
    BY <1>5, <2>1

\* A Decimal that is not zero: the last digit that is not zero is that of its units.
LEMMA NumberOfNonzero ==
    ASSUME NEW d, IsDecimal(d), NEW least \in Int, least <= d.exponent, ~IsZero(d),
           NEW n, n = Significant(d.digits), NEW u, u = Units(d, least)
    PROVE  /\ u \in Numerals /\ Leading(u) /\ Value(u) > 0 /\ Value(u) \in Nat
           /\ LastNonzero(u, n) /\ n \in Nat /\ Len(u) \in Nat
           /\ Len(u) = (d.exponent + Len(d.digits) - n) + n - least
           /\ \A k \in 1 .. n : u[k] = d.digits[k]
<1>1. /\ u \in Numerals /\ u # <<>> /\ DOMAIN u = 1 .. Len(u)
      /\ DOMAIN d.digits = 1 .. Len(d.digits) /\ Len(d.digits) \in Nat \ {0}
      /\ Len(u) = Len(d.digits) + (d.exponent - least)
      /\ \A k \in 1 .. Len(u) : u[k] = IF k <= Len(d.digits) THEN d.digits[k] ELSE 0
  BY UnitsOf
<1>2. LastNonzero(d.digits, n) /\ d.digits[1] # 0
  BY TextOf
<1>3. n \in 1 .. Len(d.digits) /\ d.exponent \in Int
  BY <1>2 DEF LastNonzero, IsDecimal
<1>4. Len(u) \in Nat /\ Len(u) >= Len(d.digits)
  BY <1>1, <1>3
<1>5. \A k \in 1 .. n : u[k] = d.digits[k]
  BY <1>1, <1>3, <1>4
<1>6. Leading(u)
  BY <1>2, <1>3, <1>5 DEF Leading
<1>7. LastNonzero(u, n)
  <2>1. n \in 1 .. Len(u) /\ u[n] # 0
    BY <1>1, <1>2, <1>3, <1>4, <1>5 DEF LastNonzero
  <2>2. ASSUME NEW k \in n + 1 .. Len(u) PROVE u[k] = 0
    <3>1. k \in 1 .. Len(u)
      BY <1>1, <1>3, <1>4
    <3>2. k <= Len(d.digits) => k \in n + 1 .. Len(d.digits)
      BY <1>1, <1>3, <1>4
    <3>3. QED
      BY <1>1, <1>2, <3>1, <3>2 DEF LastNonzero
  <2>3. QED
    BY <2>1, <2>2 DEF LastNonzero
<1>8. Value(u) > 0 /\ Value(u) \in Nat
  BY <1>1, <1>6, ValuePositive, ValueNat
<1>9. Len(u) = (d.exponent + Len(d.digits) - n) + n - least /\ n \in Nat
  BY <1>1, <1>3
<1>10. QED
  BY <1>1, <1>4, <1>5, <1>6, <1>7, <1>8, <1>9

\* The canonical forms of two Decimals are the same if and only if the Decimals compare as
\* equal, whatever their digits and exponents. Code: _decimal_text.
THEOREM OneTextPerNumber ==
    ASSUME NEW d, IsDecimal(d), NEW e, IsDecimal(e),
           NEW least \in Int, least <= d.exponent, least <= e.exponent
    PROVE  DecimalText(d) = DecimalText(e) <=> SameNumber(d, e, least)
<1> DEFINE n == Significant(d.digits)
           m == Significant(e.digits)
           u == Units(d, least)
           v == Units(e, least)
           keptD == SubSeq(d.digits, 1, n)
           keptE == SubSeq(e.digits, 1, m)
<1> SUFFICES DecimalText(d) = DecimalText(e) <=> Number(d, least) = Number(e, least)
  BY SameIsNumber
<1>1. d.sign \in {0, 1} /\ e.sign \in {0, 1} /\ d.exponent \in Int /\ e.exponent \in Int
  BY DEF IsDecimal
<1>2. ASSUME NEW z, IsDecimal(z), least <= z.exponent, ~IsZero(z)
      PROVE  Number(z, least) # 0 /\ DecimalText(z) # <<0, <<0>>, 0>>
  <2>1. Value(Units(z, least)) > 0 /\ Value(Units(z, least)) \in Nat
    BY <1>2, NumberOfNonzero
  <2>2. Number(z, least) # 0
    BY <2>1 DEF Number
  <2>3. PICK k : k = Significant(z.digits)
    OBVIOUS
  <2>4. PICK kept : kept = SubSeq(z.digits, 1, k)
    OBVIOUS
  <2>5. /\ DecimalText(z) = <<z.sign, kept, z.exponent + Len(z.digits) - k>>
        /\ LastNonzero(z.digits, k) /\ z.digits[1] # 0
        /\ \A j \in 1 .. k : kept[j] = z.digits[j]
    <3>1. DecimalText(z) = <<z.sign, kept, z.exponent + Len(z.digits) - k>>
      BY <1>2, <2>3, <2>4, TextOf
    <3>2. LastNonzero(z.digits, k) /\ z.digits[1] # 0
      BY <1>2, <2>3, <2>4, TextOf
    <3>3. \A j \in 1 .. k : kept[j] = z.digits[j]
      BY <1>2, <2>3, <2>4, KeptDigits
    <3>4. QED
      BY <3>1, <3>2, <3>3
  <2>6. 1 \in 1 .. k
    BY <2>5 DEF LastNonzero
  <2>7. kept[1] # 0
    BY <2>5, <2>6
  <2>8. kept # <<0>>
    BY <2>7
  <2>9. QED
    BY <2>2, <2>5, <2>8
<1>3. CASE IsZero(d) \/ IsZero(e)
  BY <1>2, <1>3, NumberOfZero
<1>4. CASE ~IsZero(d) /\ ~IsZero(e)
  <2>1. /\ DecimalText(d) = <<d.sign, keptD, d.exponent + Len(d.digits) - n>>
        /\ keptD \in Numerals /\ Len(keptD) = n
        /\ \A k \in 1 .. n : keptD[k] = d.digits[k]
    <3>1. DecimalText(d) = <<d.sign, keptD, d.exponent + Len(d.digits) - n>>
      BY <1>4, TextOf
    <3>2. keptD \in Numerals /\ Len(keptD) = n
      BY <1>4, TextOf
    <3>3. \A k \in 1 .. n : keptD[k] = d.digits[k]
      BY <1>4, KeptDigits
    <3> HIDE DEF n, keptD
    <3>4. QED
      BY <3>1, <3>2, <3>3
  <2>2. /\ DecimalText(e) = <<e.sign, keptE, e.exponent + Len(e.digits) - m>>
        /\ keptE \in Numerals /\ Len(keptE) = m
        /\ \A k \in 1 .. m : keptE[k] = e.digits[k]
    <3>1. DecimalText(e) = <<e.sign, keptE, e.exponent + Len(e.digits) - m>>
      BY <1>4, TextOf
    <3>2. keptE \in Numerals /\ Len(keptE) = m
      BY <1>4, TextOf
    <3>3. \A k \in 1 .. m : keptE[k] = e.digits[k]
      BY <1>4, KeptDigits
    <3> HIDE DEF m, keptE
    <3>4. QED
      BY <3>1, <3>2, <3>3
  <2>3. /\ u \in Numerals /\ Leading(u) /\ Value(u) > 0 /\ Value(u) \in Nat
        /\ LastNonzero(u, n) /\ n \in Nat /\ Len(u) \in Nat
        /\ Len(u) = (d.exponent + Len(d.digits) - n) + n - least
        /\ \A k \in 1 .. n : u[k] = d.digits[k]
    BY <1>4, NumberOfNonzero
  <2>4. /\ v \in Numerals /\ Leading(v) /\ Value(v) > 0 /\ Value(v) \in Nat
        /\ LastNonzero(v, m) /\ m \in Nat /\ Len(v) \in Nat
        /\ Len(v) = (e.exponent + Len(e.digits) - m) + m - least
        /\ \A k \in 1 .. m : v[k] = e.digits[k]
    BY <1>4, NumberOfNonzero
  <2>5. /\ Number(d, least) = IF d.sign = 1 THEN -Value(u) ELSE Value(u)
        /\ Number(e, least) = IF e.sign = 1 THEN -Value(v) ELSE Value(v)
    BY DEF Number
  <2> DEFINE a == d.exponent + Len(d.digits) - n
             b == e.exponent + Len(e.digits) - m
  <2>6. a \in Int /\ b \in Int
    <3>1. Len(d.digits) \in Nat /\ Len(e.digits) \in Nat
      BY LenProperties DEF IsDecimal
    <3>2. n \in Nat /\ m \in Nat
      BY <2>3, <2>4
    <3> HIDE DEF n, m
    <3>3. QED
      BY <1>1, <3>1, <3>2
  <2>7. Len(u) = a + n - least /\ Len(v) = b + m - least
    BY <2>3, <2>4
  <2>8. (DecimalText(d) = DecimalText(e)) <=> (d.sign = e.sign /\ keptD = keptE /\ a = b)
    BY <2>1, <2>2
  <2>9. (Number(d, least) = Number(e, least)) <=> (d.sign = e.sign /\ Value(u) = Value(v))
    <3>1. ASSUME NEW x \in Nat, NEW y \in Nat, x > 0, y > 0
          PROVE  ((IF d.sign = 1 THEN -x ELSE x) = (IF e.sign = 1 THEN -y ELSE y))
                   <=> (d.sign = e.sign /\ x = y)
      BY <1>1, <3>1
    <3> HIDE DEF u, v
    <3>2. QED
      BY <2>3, <2>4, <2>5, <3>1
  <2> HIDE DEF n, m, u, v, keptD, keptE, a, b
  <2>10. keptD = keptE /\ a = b => u = v
    <3>1. SUFFICES ASSUME keptD = keptE, a = b PROVE u = v
      OBVIOUS
    <3>2. n = m /\ Len(u) = Len(v)
      BY <2>1, <2>2, <2>7, <3>1
    <3>3. ASSUME NEW k \in 1 .. Len(u) PROVE u[k] = v[k]
      <4>1. CASE k \in 1 .. n
        BY <2>1, <2>2, <2>3, <2>4, <3>1, <3>2, <4>1
      <4>2. CASE k \in n + 1 .. Len(u)
        BY <2>3, <2>4, <3>2, <4>2 DEF LastNonzero
      <4>3. QED
        BY <2>3, <3>3, <4>1, <4>2
    <3>4. QED
      BY <2>3, <2>4, <3>2, <3>3, SeqEqual DEF Numerals
  <2>11. u = v => keptD = keptE /\ a = b
    <3>1. SUFFICES ASSUME u = v PROVE keptD = keptE /\ a = b
      OBVIOUS
    <3>2. n = m
      <4>1. \A i, j \in Nat : LastNonzero(u, i) /\ LastNonzero(u, j) => ~(i < j)
        BY <2>3 DEF LastNonzero
      <4>2. QED
        BY <2>3, <2>4, <3>1, <4>1
    <3>3. a = b
      BY <2>6, <2>7, <2>3, <3>1, <3>2
    <3>4. \A k \in 1 .. n : keptD[k] = keptE[k]
      BY <2>1, <2>2, <2>3, <2>4, <3>1, <3>2
    <3>5. QED
      BY <2>1, <2>2, <3>2, <3>3, <3>4, SeqEqual DEF Numerals
  <2>12. Value(u) = Value(v) <=> u = v
    BY <2>3, <2>4, ValueInjective
  <2>13. QED
    BY <2>8, <2>9, <2>10, <2>11, <2>12
<1>5. QED
  BY <1>3, <1>4

-----------------------------------------------------------------------------
\* Evidence with canonical values is the same if the rest is and the values are.
LEMMA FeatureSame ==
    ASSUME NEW f, NEW g, NEW x, NEW y,
           f = [instrument |-> f.instrument, lineage |-> f.lineage, bar |-> f.bar,
                received |-> f.received, feature |-> f.feature, value |-> f.value],
           g = [instrument |-> g.instrument, lineage |-> g.lineage, bar |-> g.bar,
                received |-> g.received, feature |-> g.feature, value |-> g.value]
    PROVE  [f EXCEPT !.value = x] = [g EXCEPT !.value = y]
             <=> x = y /\ [f EXCEPT !.value = 0] = [g EXCEPT !.value = 0]
<1>1. \A z : [f EXCEPT !.value = z]
        = [instrument |-> f.instrument, lineage |-> f.lineage, bar |-> f.bar,
           received |-> f.received, feature |-> f.feature, value |-> z]
  OBVIOUS
<1>2. \A z : [g EXCEPT !.value = z]
        = [instrument |-> g.instrument, lineage |-> g.lineage, bar |-> g.bar,
           received |-> g.received, feature |-> g.feature, value |-> z]
  OBVIOUS
<1>3. QED
  BY <1>1, <1>2

LEMMA SignalSame ==
    ASSUME NEW f, NEW g, NEW x, NEW y,
           f = [instrument |-> f.instrument, strategy |-> f.strategy, config |-> f.config,
                type |-> f.type, feature |-> f.feature, bar |-> f.bar,
                received |-> f.received, value |-> f.value, lineage |-> f.lineage],
           g = [instrument |-> g.instrument, strategy |-> g.strategy, config |-> g.config,
                type |-> g.type, feature |-> g.feature, bar |-> g.bar,
                received |-> g.received, value |-> g.value, lineage |-> g.lineage]
    PROVE  [f EXCEPT !.value = x] = [g EXCEPT !.value = y]
             <=> x = y /\ BusinessParts(f) = BusinessParts(g)
<1>1. [f EXCEPT !.value = x]
        = [instrument |-> f.instrument, strategy |-> f.strategy, config |-> f.config,
           type |-> f.type, feature |-> f.feature, bar |-> f.bar,
           received |-> f.received, value |-> x, lineage |-> f.lineage]
  OBVIOUS
<1>2. [g EXCEPT !.value = y]
        = [instrument |-> g.instrument, strategy |-> g.strategy, config |-> g.config,
           type |-> g.type, feature |-> g.feature, bar |-> g.bar,
           received |-> g.received, value |-> y, lineage |-> g.lineage]
  OBVIOUS
<1>3. QED
  BY <1>1, <1>2 DEF BusinessParts

LEMMA IntentSame ==
    ASSUME NEW f, NEW g, NEW x, NEW y,
           f = [scope |-> f.scope, signal |-> f.signal, instrument |-> f.instrument,
                side |-> f.side, quantity |-> f.quantity],
           g = [scope |-> g.scope, signal |-> g.signal, instrument |-> g.instrument,
                side |-> g.side, quantity |-> g.quantity]
    PROVE  [f EXCEPT !.signal = x] = [g EXCEPT !.signal = y]
             <=> x = y /\ [f EXCEPT !.signal = 0] = [g EXCEPT !.signal = 0]
<1>1. \A z : [f EXCEPT !.signal = z]
        = [scope |-> f.scope, signal |-> z, instrument |-> f.instrument,
           side |-> f.side, quantity |-> f.quantity]
  OBVIOUS
<1>2. \A z : [g EXCEPT !.signal = z]
        = [scope |-> g.scope, signal |-> z, instrument |-> g.instrument,
           side |-> g.side, quantity |-> g.quantity]
  OBVIOUS
<1>3. QED
  BY <1>1, <1>2

\* Two candidates have one digest if and only if feature, signal and intent compare as
\* equal. Code: evidence_digest, and the comparison of the dataclasses.
LEMMA DigestIsEvidence ==
    ASSUME NEW b \in Candidates, NEW c \in Candidates
    PROVE  EvidenceDigest(b) = EvidenceDigest(c) <=>
               /\ SameNumber(b.feature.value, c.feature.value, MinExponent)
               /\ [b.feature EXCEPT !.value = 0] = [c.feature EXCEPT !.value = 0]
               /\ SameSignal(b.signal, c.signal)
               /\ SameSignal(b.intent.signal, c.intent.signal)
               /\ [b.intent EXCEPT !.signal = 0] = [c.intent EXCEPT !.signal = 0]
<1> DEFINE Text(s) == [s EXCEPT !.value = DecimalText(s.value)]
<1>1. EvidenceDigest(b) = EvidenceDigest(c) <=>
          /\ [b.feature EXCEPT !.value = DecimalText(b.feature.value)]
                = [c.feature EXCEPT !.value = DecimalText(c.feature.value)]
          /\ Text(b.signal) = Text(c.signal)
          /\ [b.intent EXCEPT !.signal = Text(b.intent.signal)]
                = [c.intent EXCEPT !.signal = Text(c.intent.signal)]
  BY DEF EvidenceDigest
<1>2. /\ DecimalText(b.feature.value) = DecimalText(c.feature.value)
            <=> SameNumber(b.feature.value, c.feature.value, MinExponent)
      /\ DecimalText(b.signal.value) = DecimalText(c.signal.value)
            <=> SameNumber(b.signal.value, c.signal.value, MinExponent)
      /\ DecimalText(b.intent.signal.value) = DecimalText(c.intent.signal.value)
            <=> SameNumber(b.intent.signal.value, c.intent.signal.value, MinExponent)
  <2>1. /\ MinExponent \in Int
        /\ \A e \in {b, c} : \A d \in {e.feature.value, e.signal.value, e.intent.signal.value} :
              IsDecimal(d) /\ MinExponent <= d.exponent
    BY CandidatesAssumption
  <2>2. QED
    BY <2>1, OneTextPerNumber
<1>3. [b.feature EXCEPT !.value = DecimalText(b.feature.value)]
        = [c.feature EXCEPT !.value = DecimalText(c.feature.value)] <=>
          /\ SameNumber(b.feature.value, c.feature.value, MinExponent)
          /\ [b.feature EXCEPT !.value = 0] = [c.feature EXCEPT !.value = 0]
  BY <1>2, CandidatesAssumption, FeatureSame
<1>4. Text(b.signal) = Text(c.signal) <=> SameSignal(b.signal, c.signal)
  <2>1. PICK f, g : f = b.signal /\ g = c.signal
    OBVIOUS
  <2>2. \A s \in {f, g} :
            s = [instrument |-> s.instrument, strategy |-> s.strategy, config |-> s.config,
                 type |-> s.type, feature |-> s.feature, bar |-> s.bar,
                 received |-> s.received, value |-> s.value, lineage |-> s.lineage]
    BY <2>1, CandidatesAssumption
  <2>3. Text(f) = Text(g)
          <=> DecimalText(f.value) = DecimalText(g.value) /\ BusinessParts(f) = BusinessParts(g)
    BY <2>2, SignalSame
  <2>4. QED
    BY <1>2, <2>1, <2>3 DEF SameSignal
<1>5. Text(b.intent.signal) = Text(c.intent.signal)
        <=> SameSignal(b.intent.signal, c.intent.signal)
  <2>1. PICK f, g : f = b.intent.signal /\ g = c.intent.signal
    OBVIOUS
  <2>2. \A s \in {f, g} :
            s = [instrument |-> s.instrument, strategy |-> s.strategy, config |-> s.config,
                 type |-> s.type, feature |-> s.feature, bar |-> s.bar,
                 received |-> s.received, value |-> s.value, lineage |-> s.lineage]
    BY <2>1, CandidatesAssumption
  <2>3. Text(f) = Text(g)
          <=> DecimalText(f.value) = DecimalText(g.value) /\ BusinessParts(f) = BusinessParts(g)
    BY <2>2, SignalSame
  <2>4. QED
    BY <1>2, <2>1, <2>3 DEF SameSignal
<1>6. [b.intent EXCEPT !.signal = Text(b.intent.signal)]
        = [c.intent EXCEPT !.signal = Text(c.intent.signal)] <=>
          /\ SameSignal(b.intent.signal, c.intent.signal)
          /\ [b.intent EXCEPT !.signal = 0] = [c.intent EXCEPT !.signal = 0]
  BY <1>5, CandidatesAssumption, IntentSame
<1>7. QED
  BY <1>1, <1>3, <1>4, <1>6

\* A redelivery conflicts with the first binding if and only if it says something else, in
\* whatever digits it writes its numbers. Code: bind, evidence_digest and the codec's form
\* of a Decimal.
THEOREM ConflictsAreMaterial == Spec => []ConflictIffMateriallyChanged
<1>1. PInv => bindings \subseteq Candidates
  BY DEF PInv, BindingsSound
<1>2. bindings \subseteq Candidates => ConflictIffMateriallyChanged
  BY DigestIsEvidence DEF ConflictIffMateriallyChanged
<1> QED BY <1>1, <1>2, PathInvariant, PTL

=============================================================================
