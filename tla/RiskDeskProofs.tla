--------------------------- MODULE RiskDeskProofs ---------------------------
(***************************************************************************)
(* Theorems about RiskGate and RiskDesk for all values of their constants. *)
(*                                                                         *)
(* The gate: its capacity and exclusivity are not inductive alone. They    *)
(* rest on the finiteness of the reserve, on reservations standing and     *)
(* falling with authorizations, and on each live record owning the place   *)
(* of its token in the sequence of issued authorizations.                  *)
(*                                                                         *)
(* The desk: what the gate does for the account, for any number of         *)
(* callers, instruments and intents, however old the snapshots they decide *)
(* on. The invariant says what an old snapshot still tells: everything     *)
(* about an instrument that has no order in reserve, since only such an    *)
(* order moves a holding and the reserve only grows.                       *)
(***************************************************************************)
EXTENDS RiskDesk, FiniteSetTheorems, SequenceTheorems, FunctionTheorems, TLAPS

-----------------------------------------------------------------------------
\* The gate: RiskGate.

\* The reserve is finite: a gate holds one row for each authorization it issued.
ReserveFinite == IsFiniteSet(Reserved)

\* The record of an authorized identity owns its token: the authorization issued
\* there is the one of this record, from the gate in charge.
TokensMatch ==
    \A id \in Authorized :
        /\ history[id].token \in 1 .. Len(issued)
        /\ issued[history[id].token] =
              [grant |-> GrantId(history[id].intent, history[id].time), gate |-> gate]

\* Nothing was handed out by a gate still to come, and what the gate in charge
\* handed out is marked as dispatched.
HandedRecorded ==
    \A n \in DOMAIN handed :
        /\ handed[n].gate <= gate
        /\ handed[n].gate = gate =>
              LET id == handed[n].intent.id IN id \in Recorded /\ history[id].dispatched

\* The inductive invariant.
IInv ==
    /\ TypeOK
    /\ ReservedIffAuthorized
    /\ TokensMatch
    /\ HandedRecorded
    /\ HandedAsGranted
    /\ OneDispatchPerIntent
    /\ OneReservationPerInstrument
    /\ ReserveFinite
    /\ EntryCapacity

-----------------------------------------------------------------------------
\* An authorization says that no order was outstanding on the instrument and, for
\* an entry, that positions and outstanding entries were below the maximum.
LEMMA AuthorizedFacts ==
    ASSUME NEW intent, NEW policy, NEW state, NEW feature, NEW quote, NEW now,
           EvaluateRisk(intent, policy, state, feature, quote, now) = {}
    PROVE  /\ OrdersIn(state, intent.instrument) = {}
           /\ intent.side = "buy" =>
                 ~(Cardinality(state.positions) + Cardinality(EntryReservations(state))
                     >= policy.maximumPositions)
<1>1. InventoryReasons(intent, policy, state) = {}
  BY DEF EvaluateRisk
<1>2. Reject(OrdersIn(state, intent.instrument) # {}, "outstanding_order_exists") = {}
  BY <1>1 DEF InventoryReasons
<1>3. OrdersIn(state, intent.instrument) = {}
  BY <1>2 DEF Reject
<1>4. ASSUME intent.side = "buy"
      PROVE  ~(Cardinality(state.positions) + Cardinality(EntryReservations(state))
                 >= policy.maximumPositions)
  <2>1. Reject(Cardinality(state.positions) + Cardinality(EntryReservations(state))
                 >= policy.maximumPositions, "max_concurrent_positions") = {}
    BY <1>1, <1>4 DEF InventoryReasons
  <2>2. QED
    BY <2>1 DEF Reject
<1>5. QED
  BY <1>3, <1>4

\* When the gate authorizes, whatever the snapshot, its own reserve holds no order
\* on the instrument and, for an entry, fewer entries than the maximum.
LEMMA RoomInReserve ==
    ASSUME ReserveFinite,
           NEW intent \in Intents, NEW state, NEW feature, NEW quote, NEW now,
           IsFiniteSet(state.positions), IsFiniteSet(state.orders),
           EvaluateRisk(intent, Policy, EffectiveState(state), feature, quote, now) = {}
    PROVE  /\ \A o \in Reserved : o.instrument # intent.instrument
           /\ intent.side = "buy" => Cardinality(ReservedBuys) < Policy.maximumPositions
<1> DEFINE eff == EffectiveState(state)
<1>1. /\ OrdersIn(eff, intent.instrument) = {}
      /\ intent.side = "buy" =>
            ~(Cardinality(eff.positions) + Cardinality(EntryReservations(eff))
                >= Policy.maximumPositions)
  BY AuthorizedFacts
<1>2. /\ eff.orders = state.orders \cup Reserved
      /\ eff.positions = state.positions
  BY DEF EffectiveState
<1>3. \A o \in Reserved : o.instrument # intent.instrument
  BY <1>1, <1>2 DEF OrdersIn
<1>4. ASSUME intent.side = "buy"
      PROVE  Cardinality(ReservedBuys) < Policy.maximumPositions
  <2>1. /\ IsFiniteSet(state.positions)
        /\ IsFiniteSet(state.orders \cup Reserved)
    BY FS_Union DEF ReserveFinite
  <2>2. /\ EntryReservations(eff) \subseteq state.orders \cup Reserved
        /\ ReservedBuys \subseteq EntryReservations(eff)
    BY <1>2 DEF EntryReservations, ReservedBuys
  <2>3. IsFiniteSet(EntryReservations(eff))
    BY <2>1, <2>2, FS_Subset
  <2>4. /\ IsFiniteSet(ReservedBuys)
        /\ Cardinality(ReservedBuys) <= Cardinality(EntryReservations(eff))
    BY <2>2, <2>3, FS_Subset
  <2>5. /\ Cardinality(eff.positions) \in Nat
        /\ Cardinality(EntryReservations(eff)) \in Nat
        /\ Cardinality(ReservedBuys) \in Nat
    BY <1>2, <2>1, <2>3, <2>4, FS_CardinalityType
  <2>6. Cardinality(eff.positions) + Cardinality(EntryReservations(eff))
          < Policy.maximumPositions
    BY <1>1, <1>4, <2>5, PolicyAssumption
  <2>7. QED
    BY <2>4, <2>5, <2>6, PolicyAssumption
<1>5. QED
  BY <1>3, <1>4

-----------------------------------------------------------------------------
\* The initial states satisfy the inductive invariant: nothing is reserved.
LEMMA InitInvariant == Init => IInv
<1> SUFFICES ASSUME Init PROVE IInv
  OBVIOUS
<1> USE DEF Init
<1>1. Recorded = {} /\ Authorized = {} /\ Reserved = {} /\ ReservedBuys = {}
  BY DEF Recorded, Authorized, Reserved, ReservedBuys
<1>2. TypeOK
  BY <1>1, BoundAssumption DEF TypeOK
<1>3. ReservedIffAuthorized /\ TokensMatch /\ OneReservationPerInstrument
  BY <1>1 DEF ReservedIffAuthorized, TokensMatch, OneReservationPerInstrument
<1>4. HandedRecorded /\ HandedAsGranted /\ OneDispatchPerIntent
  BY DEF HandedRecorded, HandedAsGranted, OneDispatchPerIntent
<1>5. ReserveFinite /\ EntryCapacity
  BY <1>1, FS_EmptySet, PolicyAssumption DEF ReserveFinite, EntryCapacity
<1>6. QED
  BY <1>2, <1>3, <1>4, <1>5 DEF IInv

\* The types of what was handed out, call by call.
LEMMA HandedTypes ==
    ASSUME TypeOK, NEW n \in DOMAIN handed
    PROVE  /\ handed[n].token \in Nat \ {0}
           /\ handed[n].token <= Len(issued)
           /\ handed[n].intent \in Intents
           /\ handed[n].gate \in 0 .. MaxRestarts
<1>1. handed \in Seq([token : Nat \ {0}, intent : Intents, gate : 0 .. MaxRestarts])
  BY DEF TypeOK
<1>2. n \in 1 .. Len(handed)
  BY <1>1, LenProperties
<1>3. handed[n] \in [token : Nat \ {0}, intent : Intents, gate : 0 .. MaxRestarts]
  BY <1>1, <1>2, ElementOfSeq
<1>4. handed[n].token <= Len(issued)
  BY DEF TypeOK
<1>5. QED
  BY <1>3, <1>4

\* What recording a first decision does to the recorded identities.
LEMMA RecordAdded ==
    ASSUME TypeOK, NEW intent \in Intents, NEW now \in Times,
           NEW status \in {"authorized", "rejected"},
           history[intent.id] = NoRecord,
           history' = [history EXCEPT ![intent.id] = Record(intent, now, status)]
    PROVE  /\ intent.id \in Ids \ Recorded
           /\ history' \in [Ids -> AdmissionRecords \cup {NoRecord}]
           /\ history'[intent.id] = Record(intent, now, status)
           /\ \A k \in Ids \ {intent.id} : history'[k] = history[k]
           /\ Recorded' = Recorded \cup {intent.id}
           /\ Authorized' = IF status = "authorized" THEN Authorized \cup {intent.id}
                                                     ELSE Authorized
<1>1. intent.id \in Ids /\ Len(issued) \in Nat
  BY IntentsAssumption DEF TypeOK
<1>2. Record(intent, now, status) \in AdmissionRecords
  BY <1>1 DEF Record, AdmissionRecords
<1>3. Record(intent, now, status) # NoRecord
  BY <1>2, NoneAssumption
<1>4. /\ history' \in [Ids -> AdmissionRecords \cup {NoRecord}]
      /\ history'[intent.id] = Record(intent, now, status)
      /\ \A k \in Ids \ {intent.id} : history'[k] = history[k]
  BY <1>1, <1>2 DEF TypeOK
<1>5. intent.id \notin Recorded /\ Recorded' = Recorded \cup {intent.id}
  BY <1>1, <1>3, <1>4 DEF Recorded
<1>6. history'[intent.id].status = status
  BY <1>4 DEF Record
<1>7. Authorized' = IF status = "authorized" THEN Authorized \cup {intent.id}
                                            ELSE Authorized
  BY <1>1, <1>4, <1>5, <1>6 DEF Authorized, Recorded
<1>8. QED
  BY <1>1, <1>4, <1>5, <1>7

\* What issuing an authorization does to the reserve: it adds one row.
LEMMA ReservationAdded ==
    ASSUME TypeOK, ReservedIffAuthorized, NEW intent \in Intents, NEW now \in Times,
           history[intent.id] = NoRecord,
           reservations' = [reservations EXCEPT ![intent.id] = Reservation(intent, now)]
    PROVE  /\ Reservation(intent, now) \in OutstandingOrders
           /\ reservations' \in [Ids -> OutstandingOrders \cup {NoOrder}]
           /\ reservations'[intent.id] = Reservation(intent, now)
           /\ \A k \in Ids \ {intent.id} : reservations'[k] = reservations[k]
           /\ Reserved' = Reserved \cup {Reservation(intent, now)}
<1> DEFINE row == Reservation(intent, now)
<1>1. intent.id \in Ids \ Authorized
  BY IntentsAssumption DEF Authorized, Recorded
<1>2. row \in OutstandingOrders /\ row # NoOrder
  BY IntentsAssumption, NoneAssumption DEF Reservation, OutstandingOrders, GrantId, GrantIds
<1>3. /\ reservations' \in [Ids -> OutstandingOrders \cup {NoOrder}]
      /\ reservations'[intent.id] = row
      /\ \A k \in Ids \ {intent.id} : reservations'[k] = reservations[k]
  BY <1>1, <1>2 DEF TypeOK
<1>4. reservations[intent.id] = NoOrder
  BY <1>1 DEF ReservedIffAuthorized
<1>5. Reserved' = Reserved \cup {row}
  BY <1>1, <1>2, <1>3, <1>4 DEF Reserved
<1>6. QED
  BY <1>2, <1>3, <1>5

\* A first decision that rejects changes the history only.
LEMMA RejectionInvariant ==
    ASSUME IInv, NEW intent \in Intents, NEW now \in Times,
           history[intent.id] = NoRecord,
           history' = [history EXCEPT ![intent.id] = Record(intent, now, "rejected")],
           UNCHANGED <<reservations, issued, handed, gate>>
    PROVE  IInv'
<1> USE DEF IInv
<1>1. /\ intent.id \in Ids \ Recorded
      /\ history' \in [Ids -> AdmissionRecords \cup {NoRecord}]
      /\ history'[intent.id] = Record(intent, now, "rejected")
      /\ \A k \in Ids \ {intent.id} : history'[k] = history[k]
      /\ Recorded' = Recorded \cup {intent.id}
      /\ Authorized' = Authorized
  BY RecordAdded
<1>2. Authorized \subseteq Recorded
  BY DEF Authorized
<1>3. TypeOK'
  BY <1>1 DEF TypeOK, Recorded, Record
<1>4. ReservedIffAuthorized'
  BY <1>1, <1>2 DEF ReservedIffAuthorized
<1>5. TokensMatch'
  BY <1>1, <1>2 DEF TokensMatch, Recorded
<1>6. HandedRecorded'
  BY <1>1 DEF HandedRecorded, Recorded
<1>7. HandedAsGranted' /\ OneDispatchPerIntent'
  BY DEF HandedAsGranted, OneDispatchPerIntent
<1>8. OneReservationPerInstrument' /\ ReserveFinite' /\ EntryCapacity'
  BY DEF OneReservationPerInstrument, ReserveFinite, EntryCapacity, Reserved, ReservedBuys
<1>9. QED
  BY <1>3, <1>4, <1>5, <1>6, <1>7, <1>8

\* A first decision that authorizes: the room the evaluation found in the reserve
\* is what keeps the capacity and the exclusivity of instruments.
LEMMA AuthorizationInvariant ==
    ASSUME IInv, NEW intent \in Intents, NEW state, NEW feature, NEW quote,
           NEW now \in Times, IsFiniteSet(state.positions), IsFiniteSet(state.orders),
           EvaluateRisk(intent, Policy, EffectiveState(state), feature, quote, now) = {},
           history[intent.id] = NoRecord,
           history' = [history EXCEPT ![intent.id] = Record(intent, now, "authorized")],
           reservations' = [reservations EXCEPT ![intent.id] = Reservation(intent, now)],
           issued' = Append(issued, [grant |-> GrantId(intent, now), gate |-> gate]),
           UNCHANGED <<handed, gate>>
    PROVE  IInv'
<1> USE DEF IInv
<1> DEFINE row == Reservation(intent, now)
           auth == [grant |-> GrantId(intent, now), gate |-> gate]
<1>1. /\ intent.id \in Ids \ Recorded
      /\ history' \in [Ids -> AdmissionRecords \cup {NoRecord}]
      /\ history'[intent.id] = Record(intent, now, "authorized")
      /\ \A k \in Ids \ {intent.id} : history'[k] = history[k]
      /\ Recorded' = Recorded \cup {intent.id}
      /\ Authorized' = Authorized \cup {intent.id}
  BY RecordAdded
<1>2. /\ history'[intent.id].intent = intent
      /\ history'[intent.id].time = now
      /\ history'[intent.id].token = Len(issued) + 1
  BY <1>1 DEF Record
<1>3. Authorized \subseteq Recorded /\ Recorded \subseteq Ids
  BY DEF Authorized, Recorded
<1>4. /\ reservations' \in [Ids -> OutstandingOrders \cup {NoOrder}]
      /\ reservations'[intent.id] = row
      /\ \A k \in Ids \ {intent.id} : reservations'[k] = reservations[k]
      /\ Reserved' = Reserved \cup {row}
  BY ReservationAdded
<1>5. auth \in [grant : GrantIds, gate : 0 .. MaxRestarts]
  BY IntentsAssumption DEF TypeOK, GrantId, GrantIds
<1>6. /\ issued' \in Seq([grant : GrantIds, gate : 0 .. MaxRestarts])
      /\ Len(issued) \in Nat
      /\ Len(issued') = Len(issued) + 1
      /\ issued'[Len(issued) + 1] = auth
      /\ \A n \in 1 .. Len(issued) : issued'[n] = issued[n]
  BY <1>5 DEF TypeOK
<1>7. TypeOK'
  <2>1. \A id \in Recorded' : history'[id].intent.id = id
    BY <1>1, <1>2, <1>3 DEF TypeOK
  <2>2. /\ handed' \in Seq([token : Nat \ {0}, intent : Intents, gate : 0 .. MaxRestarts])
        /\ gate' \in 0 .. MaxRestarts
    BY DEF TypeOK
  <2>3. \A n \in DOMAIN handed' : handed'[n].token <= Len(issued')
    <3>1. \A n \in DOMAIN handed : handed[n].token \in Nat /\ handed[n].token <= Len(issued)
      BY HandedTypes
    <3>2. QED
      BY <1>6, <3>1
  <2>4. QED
    BY <1>1, <1>4, <1>6, <2>1, <2>2, <2>3 DEF TypeOK
<1>8. ReservedIffAuthorized'
  BY <1>1, <1>2, <1>3, <1>4 DEF ReservedIffAuthorized, Reservation, GrantId
<1>9. TokensMatch'
  <2>1. ASSUME NEW id \in Authorized'
        PROVE  /\ history'[id].token \in 1 .. Len(issued')
               /\ issued'[history'[id].token] =
                     [grant |-> GrantId(history'[id].intent, history'[id].time), gate |-> gate']
    <3>1. CASE id = intent.id
      BY <1>2, <1>6, <3>1 DEF GrantId
    <3>2. CASE id # intent.id
      <4>1. id \in Authorized /\ history'[id] = history[id]
        BY <1>1, <1>3, <3>2
      <4>2. /\ history[id].token \in 1 .. Len(issued)
            /\ issued[history[id].token] =
                  [grant |-> GrantId(history[id].intent, history[id].time), gate |-> gate]
        BY <4>1 DEF TokensMatch
      <4>3. QED
        BY <1>6, <4>1, <4>2 DEF GrantId
    <3>3. QED
      BY <3>1, <3>2
  <2>2. QED
    BY <2>1 DEF TokensMatch, GrantId
<1>10. HandedRecorded'
  BY <1>1, <1>3 DEF HandedRecorded
<1>11. HandedAsGranted'
  <2>1. ASSUME NEW n \in DOMAIN handed
        PROVE  handed[n].token \in 1 .. Len(issued)
    <3>1. handed[n].token \in Nat \ {0} /\ handed[n].token <= Len(issued)
      BY HandedTypes
    <3>2. QED
      BY <1>6, <3>1
  <2>2. QED
    BY <1>6, <2>1 DEF HandedAsGranted
<1>12. OneDispatchPerIntent'
  BY DEF OneDispatchPerIntent
<1>13. /\ \A o \in Reserved : o.instrument # intent.instrument
       /\ intent.side = "buy" => Cardinality(ReservedBuys) < Policy.maximumPositions
  BY RoomInReserve
<1>14. row.instrument = intent.instrument /\ row.side = intent.side
  BY DEF Reservation
<1>15. OneReservationPerInstrument'
  BY <1>4, <1>13, <1>14 DEF OneReservationPerInstrument
<1>16. ReserveFinite'
  BY <1>4, FS_AddElement DEF ReserveFinite
<1>17. EntryCapacity'
  <2>1. ReservedBuys \subseteq Reserved /\ IsFiniteSet(ReservedBuys)
    BY FS_Subset DEF ReservedBuys, ReserveFinite
  <2>2. CASE intent.side = "buy"
    <3>1. ReservedBuys' = ReservedBuys \cup {row} /\ row \notin ReservedBuys
      BY <1>4, <1>13, <1>14, <2>1, <2>2 DEF ReservedBuys
    <3>2. /\ Cardinality(ReservedBuys') = Cardinality(ReservedBuys) + 1
          /\ Cardinality(ReservedBuys) \in Nat
      BY <2>1, <3>1, FS_AddElement, FS_CardinalityType
    <3>3. QED
      BY <1>13, <2>2, <3>2, PolicyAssumption DEF EntryCapacity
  <2>3. CASE intent.side # "buy"
    <3>1. ReservedBuys' = ReservedBuys
      BY <1>4, <1>14, <2>3 DEF ReservedBuys
    <3>2. QED
      BY <3>1 DEF EntryCapacity
  <2>4. QED
    BY <2>2, <2>3
<1>18. QED
  BY <1>7, <1>8, <1>9, <1>10, <1>11, <1>12, <1>15, <1>16, <1>17

\* admit preserves the invariant: a first decision of either outcome, or a retry.
LEMMA AdmitInvariant ==
    ASSUME IInv, NEW intent \in Intents, NEW state, NEW feature, NEW quote,
           NEW now \in Times, IsFiniteSet(state.positions), IsFiniteSet(state.orders),
           Admit(intent, state, feature, quote, now)
    PROVE  IInv'
<1>1. CASE Retry(intent)
  <2>1. UNCHANGED gateVars
    BY <1>1 DEF Retry
  <2>2. QED
    BY <2>1 DEF gateVars, IInv, TypeOK, ReservedIffAuthorized, TokensMatch, HandedRecorded,
                HandedAsGranted, OneDispatchPerIntent, OneReservationPerInstrument,
                ReserveFinite, EntryCapacity, Recorded, Authorized, Reserved, ReservedBuys
<1>2. CASE Decide(intent, state, feature, quote, now)
  <2>1. CASE EvaluateRisk(intent, Policy, EffectiveState(state), feature, quote, now) = {}
    <3>1. /\ history[intent.id] = NoRecord
          /\ history' = [history EXCEPT ![intent.id] = Record(intent, now, "authorized")]
          /\ reservations' = [reservations EXCEPT ![intent.id] = Reservation(intent, now)]
          /\ issued' = Append(issued, [grant |-> GrantId(intent, now), gate |-> gate])
          /\ UNCHANGED <<handed, gate>>
      BY <1>2, <2>1 DEF Decide
    <3>2. QED
      BY <2>1, <3>1, AuthorizationInvariant
  <2>2. CASE EvaluateRisk(intent, Policy, EffectiveState(state), feature, quote, now) # {}
    <3>1. /\ history[intent.id] = NoRecord
          /\ history' = [history EXCEPT ![intent.id] = Record(intent, now, "rejected")]
          /\ UNCHANGED <<reservations, issued, handed, gate>>
      BY <1>2, <2>2 DEF Decide
    <3>2. QED
      BY <3>1, RejectionInvariant
  <2>3. QED
    BY <2>1, <2>2
<1>3. QED
  BY <1>1, <1>2 DEF Admit

\* A claim preserves the invariant: the identity it hands out was not dispatched,
\* hence not handed out before by this gate.
LEMMA ClaimInvariant ==
    ASSUME IInv, NEW token \in DOMAIN issued, Claim(token)
    PROVE  IInv'
<1> USE DEF IInv
<1> PICK id \in GrantRecords(issued[token].grant) :
        /\ history[id].token = token
        /\ ~history[id].dispatched
        /\ history' = [history EXCEPT ![id].dispatched = TRUE]
        /\ handed' = Append(handed, [token |-> token, intent |-> history[id].intent,
                                     gate |-> gate])
        /\ UNCHANGED <<reservations, issued, gate>>
  BY DEF Claim
<1> DEFINE call == [token |-> token, intent |-> history[id].intent, gate |-> gate]
           Call == [token : Nat \ {0}, intent : Intents, gate : 0 .. MaxRestarts]
<1>1. /\ id \in Authorized
      /\ id \in Recorded
      /\ id \in Ids
  BY DEF GrantRecords, Authorized, Recorded
<1>2. history[id] \in AdmissionRecords /\ history[id].intent.id = id
  BY <1>1 DEF TypeOK, Recorded
<1>3. /\ history' \in [Ids -> AdmissionRecords \cup {NoRecord}]
      /\ history'[id] = [history[id] EXCEPT !.dispatched = TRUE]
      /\ history'[id] \in AdmissionRecords
      /\ \A k \in Ids \ {id} : history'[k] = history[k]
  BY <1>1, <1>2 DEF TypeOK, AdmissionRecords
<1>4. /\ history'[id].intent = history[id].intent
      /\ history'[id].status = history[id].status
      /\ history'[id].time = history[id].time
      /\ history'[id].token = history[id].token
      /\ history'[id].dispatched
  BY <1>2, <1>3 DEF AdmissionRecords
<1>5. Recorded' = Recorded
  BY <1>1, <1>3, NoneAssumption DEF Recorded
<1>6. Authorized' = Authorized
  BY <1>1, <1>3, <1>4, <1>5 DEF Authorized, Recorded
<1>7. token \in Nat \ {0} /\ token <= Len(issued) /\ Len(issued) \in Nat
  <2>1. issued \in Seq([grant : GrantIds, gate : 0 .. MaxRestarts])
    BY DEF TypeOK
  <2>2. token \in 1 .. Len(issued) /\ Len(issued) \in Nat
    BY <2>1, LenProperties
  <2>3. QED
    BY <2>2
<1>8. /\ handed' \in Seq(Call)
      /\ Len(handed) \in Nat
      /\ DOMAIN handed = 1 .. Len(handed)
      /\ DOMAIN handed' = 1 .. Len(handed) + 1
      /\ handed'[Len(handed) + 1] = call
      /\ \A n \in 1 .. Len(handed) : handed'[n] = handed[n]
  <2>1. handed \in Seq(Call) /\ gate \in 0 .. MaxRestarts
    BY DEF TypeOK
  <2>2. history[id].intent \in Intents
    BY <1>2 DEF AdmissionRecords
  <2>3. call \in Call
    BY <1>7, <2>1, <2>2
  <2>4. handed' = Append(handed, call)
    OBVIOUS
  <2>5. QED
    BY <2>1, <2>3, <2>4, LenProperties, AppendProperties
<1>9. TypeOK'
  <2>1. \A n \in DOMAIN handed' : handed'[n].token <= Len(issued')
    BY <1>7, <1>8, HandedTypes
  <2>2. \A k \in Recorded' : history'[k].intent.id = k
    BY <1>2, <1>3, <1>4, <1>5 DEF TypeOK, Recorded
  <2>3. QED
    BY <1>3, <1>8, <2>1, <2>2 DEF TypeOK
<1>10. ReservedIffAuthorized'
  BY <1>3, <1>4, <1>6 DEF ReservedIffAuthorized, Reservation, GrantId, Authorized, Recorded
<1>11. TokensMatch'
  BY <1>3, <1>4, <1>6 DEF TokensMatch, GrantId, Authorized, Recorded
<1>12. HandedRecorded'
  <2>1. ASSUME NEW n \in DOMAIN handed'
        PROVE  /\ handed'[n].gate <= gate'
               /\ handed'[n].gate = gate' =>
                     LET k == handed'[n].intent.id
                     IN  k \in Recorded' /\ history'[k].dispatched
    <3>1. CASE n = Len(handed) + 1
      <4>1. gate \in Nat /\ gate' = gate
        BY BoundAssumption DEF TypeOK
      <4>2. handed'[n].gate = gate /\ handed'[n].intent.id = id
        BY <1>2, <1>8, <3>1
      <4>3. QED
        BY <1>1, <1>4, <1>5, <4>1, <4>2
    <3>2. CASE n \in 1 .. Len(handed)
      <4>1. handed'[n] = handed[n] /\ n \in DOMAIN handed
        BY <1>8, <3>2
      <4>2. \A k \in Recorded : history[k].dispatched => history'[k].dispatched
        BY <1>3, <1>4 DEF Recorded
      <4>3. QED
        BY <1>5, <4>1, <4>2 DEF HandedRecorded
    <3>3. QED
      BY <1>8, <3>1, <3>2
  <2>2. QED
    BY <2>1 DEF HandedRecorded
<1>13. HandedAsGranted'
  <2>1. issued[token] = [grant |-> GrantId(history[id].intent, history[id].time),
                         gate |-> gate]
    BY <1>1 DEF TokensMatch
  <2>2. /\ issued[token].gate = gate
        /\ issued[token].grant.intent = history[id].intent.id
        /\ issued[token].grant.payload = history[id].intent.payload
    BY <2>1 DEF GrantId
  <2>3. QED
    BY <1>8, <2>2 DEF HandedAsGranted
<1>14. OneDispatchPerIntent'
  <2>1. ASSUME NEW n \in 1 .. Len(handed), handed[n].gate = gate
        PROVE  handed[n].intent.id # id
    <3>1. handed[n].intent.id = id => history[id].dispatched
      BY <1>8, <2>1 DEF HandedRecorded
    <3>2. QED
      BY <3>1
  <2>2. \A m, n \in 1 .. Len(handed) :
           handed[m].gate = handed[n].gate /\ handed[m].intent.id = handed[n].intent.id
              => m = n
    BY <1>8 DEF OneDispatchPerIntent
  <2>3. \A n \in DOMAIN handed' : n \in 1 .. Len(handed) \/ n = Len(handed) + 1
    BY <1>8
  <2>4. handed'[Len(handed) + 1].intent.id = id /\ handed'[Len(handed) + 1].gate = gate
    BY <1>2, <1>8
  <2>5. ASSUME NEW m \in DOMAIN handed', NEW n \in DOMAIN handed',
               handed'[m].gate = handed'[n].gate,
               handed'[m].intent.id = handed'[n].intent.id
        PROVE  m = n
    <3>1. CASE m \in 1 .. Len(handed) /\ n \in 1 .. Len(handed)
      <4>1. handed'[m] = handed[m] /\ handed'[n] = handed[n]
        BY <1>8, <3>1
      <4>2. QED
        BY <2>2, <2>5, <3>1, <4>1
    <3>2. CASE m \in 1 .. Len(handed) /\ n = Len(handed) + 1
      <4>1. handed'[m] = handed[m]
        BY <1>8, <3>2
      <4>2. QED
        BY <2>1, <2>4, <2>5, <3>2, <4>1
    <3>3. CASE m = Len(handed) + 1 /\ n \in 1 .. Len(handed)
      <4>1. handed'[n] = handed[n]
        BY <1>8, <3>3
      <4>2. QED
        BY <2>1, <2>4, <2>5, <3>3, <4>1
    <3>4. QED
      BY <2>3, <2>5, <3>1, <3>2, <3>3
  <2>6. QED
    BY <2>5 DEF OneDispatchPerIntent
<1>15. OneReservationPerInstrument' /\ ReserveFinite' /\ EntryCapacity'
  BY DEF OneReservationPerInstrument, ReserveFinite, EntryCapacity, Reserved, ReservedBuys
<1>16. QED
  BY <1>9, <1>10, <1>11, <1>12, <1>13, <1>14, <1>15

\* A gate constructed again starts from an empty reserve and an empty history,
\* and nothing was handed out under its number.
LEMMA RestartInvariant == IInv /\ Restart => IInv'
<1> SUFFICES ASSUME IInv, Restart PROVE IInv'
  OBVIOUS
<1> USE DEF IInv, Restart
<1>1. Recorded' = {} /\ Authorized' = {} /\ Reserved' = {} /\ ReservedBuys' = {}
  BY DEF Recorded, Authorized, Reserved, ReservedBuys
<1>2. gate \in Nat /\ gate' \in 0 .. MaxRestarts /\ gate < gate'
  BY BoundAssumption DEF TypeOK
<1>3. TypeOK'
  BY <1>1, <1>2 DEF TypeOK
<1>4. ReservedIffAuthorized' /\ TokensMatch' /\ OneReservationPerInstrument'
  BY <1>1 DEF ReservedIffAuthorized, TokensMatch, OneReservationPerInstrument
<1>5. HandedRecorded'
  <2>1. ASSUME NEW n \in DOMAIN handed
        PROVE  handed[n].gate <= gate' /\ handed[n].gate # gate'
    <3>1. handed[n].gate \in 0 .. MaxRestarts /\ handed[n].gate <= gate
      BY HandedTypes DEF HandedRecorded
    <3>2. QED
      BY <1>2, <3>1, BoundAssumption
  <2>2. QED
    BY <2>1 DEF HandedRecorded
<1>6. HandedAsGranted' /\ OneDispatchPerIntent'
  BY DEF HandedAsGranted, OneDispatchPerIntent
<1>7. ReserveFinite' /\ EntryCapacity'
  BY <1>1, FS_EmptySet, PolicyAssumption DEF ReserveFinite, EntryCapacity
<1>8. QED
  BY <1>3, <1>4, <1>5, <1>6, <1>7

\* Every step preserves the inductive invariant.
LEMMA NextInvariant == IInv /\ [Next]_gateVars => IInv'
<1> SUFFICES ASSUME IInv, [Next]_gateVars PROVE IInv'
  OBVIOUS
<1>1. ASSUME NEW intent \in Intents, NEW state \in States, NEW feature \in Features,
             NEW quote \in Quotes, NEW now \in Times,
             Admit(intent, state, feature, quote, now)
      PROVE  IInv'
  BY <1>1, AdmitInvariant, StatesAssumption
<1>2. ASSUME NEW token \in DOMAIN issued, Claim(token) PROVE IInv'
  BY <1>2, ClaimInvariant
<1>3. CASE Restart
  BY <1>3, RestartInvariant
<1>4. CASE UNCHANGED gateVars
  BY <1>4 DEF gateVars, IInv, TypeOK, ReservedIffAuthorized, TokensMatch, HandedRecorded,
              HandedAsGranted, OneDispatchPerIntent, OneReservationPerInstrument,
              ReserveFinite, EntryCapacity, Recorded, Authorized, Reserved, ReservedBuys
<1>5. QED
  BY <1>1, <1>2, <1>3, <1>4 DEF Next

\* The inductive invariant holds in every reachable state of every gate.
THEOREM Invariance == Spec => []IInv
<1>1. QED
  BY InitInvariant, NextInvariant, PTL DEF Spec

\* Records, reservations, authorizations and claims keep their types.
THEOREM TypeCorrect == Spec => []TypeOK
<1>1. IInv => TypeOK
  BY DEF IInv
<1>2. QED
  BY <1>1, Invariance, PTL

\* However stale or wrong the snapshots presented, the gate holds at most one order
\* in reserve per instrument and no more entries than the policy's maximum.
THEOREM ReserveWithinPolicy == Spec => [](OneReservationPerInstrument /\ EntryCapacity)
<1>1. IInv => OneReservationPerInstrument /\ EntryCapacity
  BY DEF IInv
<1>2. QED
  BY <1>1, Invariance, PTL

\* Every reservation is of an authorized intent and no authorized intent loses its.
THEOREM ReservationsKept == Spec => []ReservedIffAuthorized
<1>1. IInv => ReservedIffAuthorized
  BY DEF IInv
<1>2. QED
  BY <1>1, Invariance, PTL

\* An intent leaves a gate at most once, whichever copies of authorizations are
\* presented, in whatever order.
THEOREM DispatchOnce == Spec => []OneDispatchPerIntent
<1>1. IInv => OneDispatchPerIntent
  BY DEF IInv
<1>2. QED
  BY <1>1, Invariance, PTL

\* What a claim returns is what the same gate granted under the token presented:
\* earlier gates' authorizations are worthless, equal as they may be.
THEOREM DispatchAsGranted == Spec => []HandedAsGranted
<1>1. IInv => HandedAsGranted
  BY DEF IInv
<1>2. QED
  BY <1>1, Invariance, PTL

-----------------------------------------------------------------------------
\* admit leaves every identity already recorded as it is.
LEMMA AdmitKeepsDecisions ==
    ASSUME IInv, NEW intent \in Intents, NEW state, NEW feature, NEW quote,
           NEW now \in Times, Admit(intent, state, feature, quote, now),
           NEW id \in Recorded
    PROVE  Final(id)
<1>1. id \in Ids /\ history[id] # NoRecord
  BY DEF Recorded
<1>2. CASE Retry(intent)
  BY <1>1, <1>2 DEF Retry, gateVars, Final
<1>3. CASE Decide(intent, state, feature, quote, now)
  <2>1. id # intent.id
    BY <1>1, <1>3 DEF Decide
  <2>2. history'[id] = history[id]
    BY <1>1, <1>3, <2>1 DEF Decide, IInv, TypeOK
  <2>3. reservations'[id] = reservations[id]
    BY <1>1, <1>3, <2>1 DEF Decide, IInv, TypeOK
  <2>4. QED
    BY <1>1, <2>2, <2>3 DEF Final
<1>4. QED
  BY <1>2, <1>3 DEF Admit

\* A claim changes nothing of a record but its dispatched mark.
LEMMA ClaimKeepsDecisions ==
    ASSUME IInv, NEW token, Claim(token), NEW id \in Recorded
    PROVE  Final(id)
<1> PICK k \in GrantRecords(issued[token].grant) :
        /\ history' = [history EXCEPT ![k].dispatched = TRUE]
        /\ UNCHANGED <<reservations, issued, gate>>
  BY DEF Claim
<1>1. /\ id \in Ids /\ history[id] # NoRecord
      /\ k \in Ids /\ history[k] # NoRecord
  BY DEF Recorded, GrantRecords, Authorized
<1>2. history[id] \in AdmissionRecords /\ history[k] \in AdmissionRecords
  BY <1>1 DEF IInv, TypeOK
<1>3. /\ history'[k] = [history[k] EXCEPT !.dispatched = TRUE]
      /\ history'[k] \in AdmissionRecords
  BY <1>1, <1>2 DEF IInv, TypeOK, AdmissionRecords
<1>4. CASE id = k
  <2>1. /\ history'[k].intent = history[k].intent
        /\ history'[k].status = history[k].status
        /\ history'[k].time = history[k].time
        /\ history'[k].token = history[k].token
        /\ history'[k].dispatched
    BY <1>2, <1>3 DEF AdmissionRecords
  <2>2. history'[k] # NoRecord
    BY <1>3, NoneAssumption
  <2>3. QED
    BY <1>4, <2>1, <2>2 DEF Final
<1>5. CASE id # k
  <2>1. history'[id] = history[id]
    BY <1>1, <1>5 DEF IInv, TypeOK
  <2>2. QED
    BY <1>1, <2>1 DEF Final
<1>6. QED
  BY <1>4, <1>5

\* No retry and no claim, whatever evidence it brings, changes a decision, its
\* authorization or its reservation before the gate is constructed again.
THEOREM DecisionsFinal == Spec => FirstDecisionFinal
<1> DEFINE Kept == gate' = gate => \A id \in Recorded : Final(id)
<1>1. ASSUME IInv, [Next]_gateVars PROVE [Kept]_gateVars
  <2>1. CASE UNCHANGED gateVars
    BY <2>1 DEF gateVars
  <2>2. CASE Restart
    <3>1. gate \in Nat
      BY <1>1, BoundAssumption DEF IInv, TypeOK
    <3>2. gate' # gate
      BY <2>2, <3>1 DEF Restart
    <3>3. QED
      BY <3>2
  <2>3. ASSUME NEW intent \in Intents, NEW state \in States, NEW feature \in Features,
               NEW quote \in Quotes, NEW now \in Times,
               Admit(intent, state, feature, quote, now)
        PROVE  Kept
    BY <1>1, <2>3, AdmitKeepsDecisions
  <2>4. ASSUME NEW token \in DOMAIN issued, Claim(token)
        PROVE  Kept
    BY <1>1, <2>4, ClaimKeepsDecisions
  <2>5. QED
    BY <1>1, <2>1, <2>2, <2>3, <2>4 DEF Next
<1>2. QED
  BY <1>1, Invariance, PTL DEF Spec, FirstDecisionFinal

-----------------------------------------------------------------------------
\* The account: RiskDesk.
\* No order in reserve is on the instrument.
Unreserved(i) == \A o \in Reserved : o.instrument # i

\* The order was not filled yet.
Unfilled(o) == \A n \in Filled : handed[n].intent.id # o.intent

\* The rows of the account for an instrument.
HeldRows(i) == {p \in Positions : p.instrument = i}

DeskTypes ==
    /\ gate = 0 /\ clock \in 0 .. MaxClock /\ killedSince \in 0 .. clock
    /\ DOMAIN watched = Callers /\ DOMAIN snap = Callers
    /\ held \in [Instruments -> Nat]
    /\ Filled \subseteq DOMAIN handed /\ \A n \in Filled : filledAt[n] \in 0 .. clock

\* What was handed out is the intent of an authorization that stands.
HandedIsAuthorized ==
    \A n \in DOMAIN handed :
        LET id == handed[n].intent.id IN id \in Authorized /\ history[id].intent = handed[n].intent

\* What is held of the instrument of an order: nothing before an entry and after an
\* exit, else what the order is for.
HoldingsFollowOrders ==
    \A o \in Reserved :
        /\ o.side \in {"buy", "sell"} /\ o.quantity \in Nat \ {0} /\ o.instrument \in Instruments
        /\ held[o.instrument] = IF (o.side = "buy") = Unfilled(o) THEN 0 ELSE o.quantity

\* What a snapshot tells, also when it is old: about instruments without an order it is
\* exact, it misses positions only where an entry is in reserve, and it shows the fills
\* that came before it.
SnapshotHolds(s) ==
    /\ IsFiniteSet(s.positions) /\ IsFiniteSet(s.orders) /\ s.observed \in 0 .. clock
    /\ \A i \in Instruments : Unreserved(i) => PositionsIn(s, i) = HeldRows(i)
    /\ Open \subseteq {p.instrument : p \in s.positions} \cup {o.instrument : o \in ReservedBuys}
    /\ \A n \in Filled : s.observed > filledAt[n] =>
          PositionsIn(s, handed[n].intent.instrument) = HeldRows(handed[n].intent.instrument)

\* Controls that do not show the kill switch were read before it was thrown.
ControlsHold(controls) ==
    /\ controls.observed \in 0 .. clock
    /\ kill /\ ~controls.killSwitch => controls.observed <= killedSince

\* What the callers read last.
Snapshots == {snap[c] : c \in Callers} \ {NoSnapshot}
ControlsRead == {watched[c] : c \in Callers} \cup {s.controls : s \in Snapshots}

\* The inductive invariant, but for what callers know.
Books ==
    /\ IInv /\ DeskTypes /\ HandedIsAuthorized /\ HoldingsFollowOrders
    /\ ExposureWithinLimit

DInv ==
    /\ Books
    /\ \A s \in Snapshots : SnapshotHolds(s)
    /\ \A w \in ControlsRead : ControlsHold(w)

-----------------------------------------------------------------------------
\* What an authorization says of the snapshot it was decided on.
LEMMA AuthorizedOn ==
    ASSUME NEW intent, NEW policy, NEW state, NEW feature, NEW quote, NEW now,
           EvaluateRisk(intent, policy, state, feature, quote, now) = {}
    PROVE  /\ ~state.controls.killSwitch /\ ~(intent.quantity <= 0)
           /\ ~Stale(state, now, policy.stateAge) /\ ~Future(state, now)
           /\ ~Stale(state.controls, now, policy.stateAge) /\ ~Future(state.controls, now)
           /\ ~InconsistentState(state)
           /\ LET rows == PositionsIn(state, intent.instrument) IN
              IF intent.side = "buy" THEN rows = {}
              ELSE /\ rows # {}
                   /\ Cardinality(rows) = 1 =>
                         \A p \in rows : /\ ~(intent.quantity < p.quantity)
                                         /\ ~(intent.quantity > p.quantity)
<1>1. /\ PolicyReasons(intent, policy, state) = {}
      /\ StateReasons(policy, state, now) = {}
      /\ InventoryReasons(intent, policy, state) = {}
  BY DEF EvaluateRisk
<1>2. ~state.controls.killSwitch /\ ~(intent.quantity <= 0)
  BY <1>1 DEF PolicyReasons, Reject
<1>3. /\ ~Stale(state, now, policy.stateAge) /\ ~Future(state, now)
      /\ ~Stale(state.controls, now, policy.stateAge) /\ ~Future(state.controls, now)
      /\ ~InconsistentState(state)
  BY <1>1 DEF StateReasons, Reject
<1>4. LET rows == PositionsIn(state, intent.instrument) IN
      IF intent.side = "buy" THEN rows = {}
      ELSE /\ rows # {}
           /\ Cardinality(rows) = 1 =>
                 \A p \in rows : /\ ~(intent.quantity < p.quantity)
                                 /\ ~(intent.quantity > p.quantity)
  BY <1>1 DEF InventoryReasons, Reject
<1>5. QED
  BY <1>2, <1>3, <1>4

\* The account has at most one row of an instrument.
LEMMA RowsHeld ==
    ASSUME DeskTypes, NEW i \in Instruments
    PROVE  HeldRows(i) = IF held[i] = 0 THEN {}
                         ELSE {[instrument |-> i, quantity |-> held[i], id |-> i]}
BY DEF HeldRows, Positions, Open

\* The initial states satisfy the invariant.
LEMMA DeskInitially == DeskInit => DInv
<1> SUFFICES ASSUME DeskInit PROVE DInv
  OBVIOUS
<1> USE DEF DeskInit
<1>1. /\ Reserved = {} /\ ReservedBuys = {}
      /\ Filled = {} /\ DOMAIN handed = {} /\ gate = 0
  BY DEF Init, Reserved, ReservedBuys, Filled
<1>2. IInv /\ HandedIsAuthorized /\ HoldingsFollowOrders
  BY <1>1, InitInvariant DEF HandedIsAuthorized, HoldingsFollowOrders
<1>3. DeskTypes
  <2>1. clock \in 0 .. MaxClock /\ killedSince \in 0 .. clock
    BY DeskAssumption
  <2>2. held \in [Instruments -> Nat]
    BY DeskAssumption
  <2>3. QED
    BY <1>1, <2>1, <2>2 DEF DeskTypes
<1>4. Snapshots = {} /\ \A w \in ControlsRead : ControlsHold(w)
  <2>1. Snapshots = {}
    BY DEF Snapshots
  <2>2. \A w \in ControlsRead : w.observed = 0 /\ ~w.killSwitch
    BY <2>1 DEF ControlsRead, ControlsNow
  <2>3. QED
    BY <2>1, <2>2 DEF ControlsHold
<1>5. ExposureWithinLimit
  <2>1. Open \cup {o.instrument : o \in ReservedBuys} = {i \in Instruments : held[i] # 0}
    BY <1>1 DEF Open
  <2>2. QED
    BY <2>1, DeskAssumption DEF ExposureWithinLimit
<1>6. QED
  BY <1>2, <1>3, <1>4, <1>5 DEF DInv, Books

-----------------------------------------------------------------------------
\* The rows in reserve are those of the authorized intents.
LEMMA RowsOfAuthorized ==
    ASSUME IInv
    PROVE  /\ \A id \in Authorized :
                 LET intent == history[id].intent
                     o == reservations[id] IN
                 /\ o \in Reserved /\ o.intent = id
                 /\ o.instrument = intent.instrument /\ o.side = intent.side
                 /\ o.quantity = intent.quantity
           /\ \A o \in Reserved : o.intent \in Authorized /\ o = reservations[o.intent]
<1> USE DEF IInv
<1>1. Authorized \subseteq Recorded /\ Recorded \subseteq Ids
  BY DEF Authorized, Recorded
<1>2. \A id \in Authorized :
          /\ history[id].intent.id = id
          /\ reservations[id] = Reservation(history[id].intent, history[id].time)
          /\ reservations[id] # NoOrder
  <2>1. \A id \in Authorized :
          /\ history[id].intent.id = id
          /\ reservations[id] = Reservation(history[id].intent, history[id].time)
    BY <1>1 DEF TypeOK, ReservedIffAuthorized
  <2>2. \A id \in Authorized : Reservation(history[id].intent, history[id].time) \in OutstandingOrders
    BY <1>1, IntentsAssumption
       DEF TypeOK, Recorded, AdmissionRecords, Reservation, OutstandingOrders, GrantId, GrantIds
  <2>3. QED
    BY <2>1, <2>2, NoneAssumption
<1>3. \A id \in Authorized :
          LET intent == history[id].intent
              o == reservations[id] IN
          /\ o \in Reserved /\ o.intent = id
          /\ o.instrument = intent.instrument /\ o.side = intent.side
          /\ o.quantity = intent.quantity
  <2>1. \A id \in Authorized : reservations[id] \in Reserved
    BY <1>1, <1>2 DEF Reserved
  <2>2. ASSUME NEW intent, NEW now
        PROVE  LET o == Reservation(intent, now) IN
               /\ o.intent = intent.id /\ o.instrument = intent.instrument
               /\ o.side = intent.side /\ o.quantity = intent.quantity
    BY DEF Reservation
  <2>3. QED
    BY <1>2, <2>1, <2>2
<1>4. \A o \in Reserved : o.intent \in Authorized /\ o = reservations[o.intent]
  <2>1. \A o \in Reserved : \E id \in Authorized : o = reservations[id]
    BY DEF Reserved, ReservedIffAuthorized
  <2>2. QED
    BY <1>3, <2>1
<1>5. QED
  BY <1>3, <1>4

\* What was handed out is in reserve, each order once.
LEMMA RowsOfHanded ==
    ASSUME IInv, DeskTypes, HandedIsAuthorized
    PROVE  /\ \A n \in DOMAIN handed :
                 LET intent == handed[n].intent
                     o == reservations[intent.id] IN
                 /\ o \in Reserved /\ o.intent = intent.id
                 /\ o.instrument = intent.instrument /\ o.side = intent.side
                 /\ o.quantity = intent.quantity
           /\ \A m, n \in DOMAIN handed :
                 handed[m].intent.instrument = handed[n].intent.instrument => m = n
<1>1. \A n \in DOMAIN handed :
          LET intent == handed[n].intent
              o == reservations[intent.id] IN
          /\ o \in Reserved /\ o.intent = intent.id
          /\ o.instrument = intent.instrument /\ o.side = intent.side
          /\ o.quantity = intent.quantity
  BY RowsOfAuthorized DEF HandedIsAuthorized
<1>2. \A n \in DOMAIN handed : handed[n].gate = 0
  <2>1. \A n \in DOMAIN handed : handed[n].gate \in Nat /\ handed[n].gate <= 0
    BY HandedTypes, BoundAssumption DEF IInv, HandedRecorded, DeskTypes
  <2>2. QED
    BY <2>1
<1>3. ASSUME NEW m \in DOMAIN handed, NEW n \in DOMAIN handed,
             handed[m].intent.instrument = handed[n].intent.instrument
      PROVE  m = n
  <2>1. reservations[handed[m].intent.id] = reservations[handed[n].intent.id]
    BY <1>1, <1>3 DEF IInv, OneReservationPerInstrument
  <2>2. handed[m].intent.id = handed[n].intent.id
    BY <1>1, <2>1
  <2>3. QED
    BY <1>2, <2>2 DEF IInv, OneDispatchPerIntent
<1>4. QED
  BY <1>1, <1>3

\* The image of a finite set is finite and no larger.
LEMMA FiniteImage ==
    ASSUME NEW S, NEW T, NEW f \in [S -> T], IsFiniteSet(S),
           \A t \in T : \E s \in S : f[s] = t
    PROVE  IsFiniteSet(T) /\ Cardinality(T) <= Cardinality(S)
BY Fun_IsSurj, FS_Surjection

\* The entries in reserve and what is held are finitely many.
LEMMA Finite ==
    ASSUME IInv
    PROVE  /\ IsFiniteSet(ReservedBuys) /\ IsFiniteSet({o.instrument : o \in ReservedBuys})
           /\ Cardinality({o.instrument : o \in ReservedBuys}) <= Cardinality(ReservedBuys)
           /\ IsFiniteSet(Open) /\ IsFiniteSet(Positions)
<1>1. IsFiniteSet(ReservedBuys)
  BY FS_Subset DEF IInv, ReserveFinite, ReservedBuys
<1>2. /\ IsFiniteSet({o.instrument : o \in ReservedBuys})
      /\ Cardinality({o.instrument : o \in ReservedBuys}) <= Cardinality(ReservedBuys)
  <2> DEFINE f == [o \in ReservedBuys |-> o.instrument]
  <2>1. /\ f \in [ReservedBuys -> {o.instrument : o \in ReservedBuys}]
        /\ \A i \in {o.instrument : o \in ReservedBuys} : \E o \in ReservedBuys : f[o] = i
    OBVIOUS
  <2>2. QED
    BY <1>1, <2>1, FiniteImage
<1>3. IsFiniteSet(Open)
  <2>1. Open \subseteq Instruments
    BY DEF Open
  <2>2. QED
    BY <2>1, FS_Subset, DeskAssumption
<1>4. IsFiniteSet(Positions)
  <2> DEFINE f == [i \in Open |-> [instrument |-> i, quantity |-> held[i], id |-> i]]
  <2>1. f \in [Open -> Positions] /\ \A p \in Positions : \E i \in Open : f[i] = p
    BY DEF Positions
  <2>2. QED
    BY <1>3, <2>1, FiniteImage
<1>5. QED
  BY <1>1, <1>2, <1>3, <1>4

-----------------------------------------------------------------------------
\* Steps that leave the gate and the account alone.
LEMMA IdleStep ==
    ASSUME Books, UNCHANGED <<gateVars, held, filledAt>>,
           clock' \in clock .. MaxClock, killedSince' \in 0 .. clock',
           DOMAIN watched' = Callers, DOMAIN snap' = Callers
    PROVE  Books' /\ \A s : SnapshotHolds(s) => SnapshotHolds(s)'
<1> USE DEF Books
<1>1. IInv'
  BY NextInvariant
<1>2. UNCHANGED <<history, reservations, issued, handed, gate>>
  BY DEF gateVars
<1>3. /\ Reserved' = Reserved /\ ReservedBuys' = ReservedBuys /\ Authorized' = Authorized
      /\ Open' = Open /\ Filled' = Filled /\ Positions' = Positions
  BY <1>2 DEF Reserved, ReservedBuys, Authorized, Recorded, Open, Filled, Positions
<1>4. clock \in Nat /\ clock <= clock' /\ clock' \in 0 .. MaxClock /\ clock' \in Nat
  BY DeskAssumption DEF DeskTypes
<1>5. DeskTypes'
  BY <1>2, <1>3, <1>4 DEF DeskTypes
<1>6. HandedIsAuthorized' /\ HoldingsFollowOrders' /\ ExposureWithinLimit'
  BY <1>2, <1>3 DEF HandedIsAuthorized, HoldingsFollowOrders, Unfilled, ExposureWithinLimit
<1>7. ASSUME NEW s, SnapshotHolds(s) PROVE SnapshotHolds(s)'
  BY <1>2, <1>3, <1>4, <1>7 DEF SnapshotHolds, Unreserved, HeldRows
<1>8. QED
  BY <1>1, <1>5, <1>6, <1>7

\* Controls that were read stay behind the clock and before the kill switch.
LEMMA ControlsLast ==
    ASSUME DeskTypes, clock' \in clock .. MaxClock,
           (kill' = kill /\ killedSince' = killedSince) \/ (kill' => killedSince' = clock)
    PROVE  \A w : ControlsHold(w) => ControlsHold(w)'
<1>1. ASSUME NEW w, ControlsHold(w) PROVE ControlsHold(w)'
  <2>1. /\ clock \in Nat /\ clock <= clock' /\ clock' \in Nat
        /\ w.observed \in Nat /\ w.observed <= clock
    BY <1>1, DeskAssumption DEF DeskTypes, ControlsHold
  <2>2. QED
    BY <1>1, <2>1 DEF ControlsHold
<1>2. QED
  BY <1>1

\* Reading the operator controls.
LEMMA ReadControlsStep ==
    ASSUME DInv, NEW c \in Callers, ReadControls(c)
    PROVE  DInv'
<1> USE DEF DInv, Books
<1>1. /\ UNCHANGED <<gateVars, clock, kill, killedSince, throws, held, filledAt, snap>>
      /\ watched' = [watched EXCEPT ![c] = ControlsNow]
  BY DEF ReadControls
<1>2. clock \in Nat /\ clock \in clock .. MaxClock
  BY DeskAssumption DEF DeskTypes
<1>3. Books' /\ \A s : SnapshotHolds(s) => SnapshotHolds(s)'
  BY <1>1, <1>2, IdleStep DEF DeskTypes
<1>4. Snapshots' = Snapshots
  BY <1>1 DEF Snapshots
<1>5. \A w \in ControlsRead' : w \in ControlsRead \/ w = ControlsNow
  BY <1>1, <1>4 DEF ControlsRead, DeskTypes
<1>6. \A w : ControlsHold(w) => ControlsHold(w)'
  BY <1>1, <1>2, ControlsLast
<1>7. ControlsHold(ControlsNow)
  BY <1>2 DEF ControlsHold, ControlsNow
<1>8. \A w \in ControlsRead' : ControlsHold(w)'
  BY <1>5, <1>6, <1>7
<1>9. QED
  BY <1>3, <1>4, <1>8

\* Reading the account.
LEMMA ReadAccountStep ==
    ASSUME DInv, NEW c \in Callers, ReadAccount(c)
    PROVE  DInv'
<1> USE DEF DInv, Books
<1> PICK orders \in {{}, Working, UnderBrokerReference(Working)} :
        snap' = [snap EXCEPT ![c] =
                    [scope |-> Scope, complete |-> TRUE, repeated |-> FALSE,
                     positions |-> Positions, orders |-> orders, observed |-> clock,
                     available |-> clock, controls |-> watched[c]]]
  BY DEF ReadAccount
<1> DEFINE new == [scope |-> Scope, complete |-> TRUE, repeated |-> FALSE,
                   positions |-> Positions, orders |-> orders, observed |-> clock,
                   available |-> clock, controls |-> watched[c]]
<1>1. UNCHANGED <<gateVars, clock, kill, killedSince, throws, held, filledAt, watched>>
  BY DEF ReadAccount
<1>2. clock \in Nat /\ clock \in clock .. MaxClock
  BY DeskAssumption DEF DeskTypes
<1>3. Books' /\ \A s : SnapshotHolds(s) => SnapshotHolds(s)'
  BY <1>1, <1>2, IdleStep DEF DeskTypes
<1>4. \A s \in Snapshots' : s \in Snapshots \/ s = new
  BY DEF Snapshots, DeskTypes
<1>5. IsFiniteSet(orders)
  <2>1. IsFiniteSet(Working)
    BY FS_Subset DEF Working, ReserveFinite, IInv
  <2>2. IsFiniteSet(UnderBrokerReference(Working))
    <3> DEFINE f == [o \in Working |-> [o EXCEPT !.reference.payload = "broker"]]
    <3>1. /\ f \in [Working -> UnderBrokerReference(Working)]
          /\ \A r \in UnderBrokerReference(Working) : \E o \in Working : f[o] = r
      BY DEF UnderBrokerReference
    <3>2. QED
      BY <2>1, <3>1, FiniteImage
  <2>3. QED
    BY <2>1, <2>2, FS_EmptySet
<1>6. SnapshotHolds(new)
  <2>1. \A i \in Instruments : PositionsIn(new, i) = HeldRows(i)
    BY DEF PositionsIn, HeldRows
  <2>2. Open \subseteq {p.instrument : p \in new.positions}
    <3>1. ASSUME NEW i \in Open PROVE \E p \in Positions : p.instrument = i
      <4>1. [instrument |-> i, quantity |-> held[i], id |-> i] \in Positions
        BY DEF Positions
      <4>2. QED
        BY <4>1
    <3>2. QED
      BY <3>1
  <2>3. \A n \in Filled : new.observed > filledAt[n] =>
            PositionsIn(new, handed[n].intent.instrument) = HeldRows(handed[n].intent.instrument)
    BY DEF PositionsIn, HeldRows
  <2>4. IsFiniteSet(new.positions) /\ IsFiniteSet(new.orders) /\ new.observed \in 0 .. clock
    BY <1>2, <1>5, Finite
  <2>5. QED
    BY <2>1, <2>2, <2>3, <2>4 DEF SnapshotHolds
<1>7. \A s \in Snapshots' : SnapshotHolds(s)'
  BY <1>3, <1>4, <1>6
<1>8. \A w : ControlsHold(w) => ControlsHold(w)'
  BY <1>1, <1>2, ControlsLast
<1>9. \A w \in ControlsRead' : w \in ControlsRead
  <2>1. new.controls \in ControlsRead
    BY DEF ControlsRead
  <2>2. QED
    BY <1>1, <1>4, <2>1 DEF ControlsRead
<1>10. QED
  BY <1>3, <1>7, <1>8, <1>9

\* What an authorization knows of the account when its snapshot was true to the
\* instrument: the order opens a position or closes it exactly.
LEMMA OrderFitsAccount ==
    ASSUME DInv, NEW s \in Snapshots, NEW intent \in Intents,
           NEW feature, NEW quote, NEW now \in 0 .. clock,
           EvaluateRisk(intent, Policy, EffectiveState(s), feature, quote, now) = {}
    PROVE  /\ Unreserved(intent.instrument)
           /\ intent.quantity \in Nat \ {0}
           /\ held[intent.instrument] = IF intent.side = "buy" THEN 0 ELSE intent.quantity
<1> USE DEF DInv, Books
<1> DEFINE i == intent.instrument
           rows == PositionsIn(s, i)
<1>1. /\ i \in Instruments /\ intent.side \in {"buy", "sell"} /\ intent.quantity \in Int
      /\ held[i] \in Nat
  BY IntentsAssumption DEF DeskTypes
<1>2. SnapshotHolds(s)
  OBVIOUS
<1>3. Unreserved(i)
  <2>1. IsFiniteSet(s.positions) /\ IsFiniteSet(s.orders) /\ ReserveFinite
    BY <1>2 DEF SnapshotHolds, IInv
  <2>2. QED
    BY <2>1, RoomInReserve DEF Unreserved
<1>4. PositionsIn(EffectiveState(s), i) = rows
  BY DEF PositionsIn, EffectiveState
<1>5. /\ ~(intent.quantity <= 0)
      /\ IF intent.side = "buy" THEN rows = {}
         ELSE /\ rows # {}
              /\ Cardinality(rows) = 1 =>
                    \A p \in rows : /\ ~(intent.quantity < p.quantity)
                                    /\ ~(intent.quantity > p.quantity)
  BY <1>4, AuthorizedOn
<1>6. rows = HeldRows(i)
  BY <1>1, <1>2, <1>3 DEF SnapshotHolds
<1> DEFINE row == [instrument |-> i, quantity |-> held[i], id |-> i]
<1>7. (held[i] = 0 => rows = {}) /\ (held[i] # 0 => rows = {row})
  BY <1>1, <1>6, RowsHeld
<1> HIDE DEF rows, row
<1>8. CASE intent.side = "buy"
  <2>1. held[i] = 0
    BY <1>5, <1>7, <1>8
  <2>2. QED
    BY <1>1, <1>3, <1>5, <1>8, <2>1
<1>9. CASE intent.side # "buy"
  <2>1. rows = {row}
    BY <1>5, <1>7, <1>9
  <2>2. Cardinality(rows) = 1
    BY <2>1, FS_Singleton
  <2>3. ~(intent.quantity < row.quantity) /\ ~(intent.quantity > row.quantity)
    BY <1>5, <1>9, <2>1, <2>2
  <2>4. intent.quantity = held[i]
    BY <1>1, <2>3 DEF row
  <2>5. QED
    BY <1>1, <1>3, <1>5, <1>9, <2>4
<1>10. QED
  BY <1>8, <1>9

\* What an authorization knows of the exposure: the snapshot misses a position only
\* where the gate has the entry in reserve, so both together count every one.
LEMMA RoomOnAccount ==
    ASSUME DInv, NEW s \in Snapshots, NEW intent \in Intents,
           NEW feature, NEW quote, NEW now, intent.side = "buy",
           EvaluateRisk(intent, Policy, EffectiveState(s), feature, quote, now) = {}
    PROVE  LET exposed == Open \cup {o.instrument : o \in ReservedBuys} IN
           /\ IsFiniteSet(exposed)
           /\ Cardinality(exposed) + 1 <= Policy.maximumPositions
<1> USE DEF DInv, Books
<1> DEFINE exposed == Open \cup {o.instrument : o \in ReservedBuys}
           eff == EffectiveState(s)
           shown == {p.instrument : p \in s.positions}
           entries == {o.instrument : o \in ReservedBuys}
<1>1. IsFiniteSet(s.positions) /\ IsFiniteSet(s.orders)
  BY DEF SnapshotHolds
<1>2. /\ ~(Cardinality(eff.positions) + Cardinality(EntryReservations(eff))
              >= Policy.maximumPositions)
      /\ eff.positions = s.positions /\ eff.orders = s.orders \cup Reserved
  BY AuthorizedFacts DEF EffectiveState
<1>3. exposed \subseteq shown \cup entries
  BY DEF SnapshotHolds
<1>4. IsFiniteSet(shown) /\ Cardinality(shown) <= Cardinality(s.positions)
  <2> DEFINE f == [p \in s.positions |-> p.instrument]
  <2>1. f \in [s.positions -> shown] /\ \A i \in shown : \E p \in s.positions : f[p] = i
    OBVIOUS
  <2>2. QED
    BY <1>1, <2>1, FiniteImage
<1>5. IsFiniteSet(entries) /\ Cardinality(entries) <= Cardinality(ReservedBuys)
  BY Finite
<1>6. /\ IsFiniteSet(EntryReservations(eff))
      /\ Cardinality(ReservedBuys) <= Cardinality(EntryReservations(eff))
  <2>1. IsFiniteSet(s.orders \cup Reserved)
    BY <1>1, FS_Union DEF IInv, ReserveFinite
  <2>2. /\ EntryReservations(eff) \subseteq s.orders \cup Reserved
        /\ ReservedBuys \subseteq EntryReservations(eff)
    BY <1>2 DEF EntryReservations, ReservedBuys
  <2>3. QED
    BY <2>1, <2>2, FS_Subset
<1>7. /\ IsFiniteSet(shown \cup entries)
      /\ Cardinality(shown \cup entries) <= Cardinality(shown) + Cardinality(entries)
  <2>1. /\ IsFiniteSet(shown \cup entries) /\ IsFiniteSet(shown \cap entries)
        /\ Cardinality(shown \cup entries)
              = Cardinality(shown) + Cardinality(entries) - Cardinality(shown \cap entries)
    BY <1>4, <1>5, FS_Union, FS_Intersection
  <2>2. Cardinality(shown \cap entries) \in Nat /\ Cardinality(shown) \in Nat
        /\ Cardinality(entries) \in Nat
    BY <1>4, <1>5, <2>1, FS_CardinalityType
  <2>3. QED
    BY <2>1, <2>2
<1>8. IsFiniteSet(exposed) /\ Cardinality(exposed) <= Cardinality(shown \cup entries)
  BY <1>3, <1>7, FS_Subset
<1>9. /\ Cardinality(exposed) \in Nat /\ Cardinality(shown \cup entries) \in Nat
      /\ Cardinality(shown) \in Nat /\ Cardinality(entries) \in Nat
      /\ Cardinality(s.positions) \in Nat /\ Cardinality(ReservedBuys) \in Nat
      /\ Cardinality(EntryReservations(eff)) \in Nat
  BY <1>1, <1>4, <1>5, <1>6, <1>7, <1>8, Finite, FS_CardinalityType
<1>10. Cardinality(s.positions) + Cardinality(EntryReservations(eff)) < Policy.maximumPositions
  BY <1>2, <1>9, PolicyAssumption
<1>11. QED
  BY <1>4, <1>5, <1>6, <1>7, <1>8, <1>9, <1>10, PolicyAssumption

\* The gate authorizes.
LEMMA AuthorizationStep ==
    ASSUME DInv, UNCHANGED deskVars, NEW s \in Snapshots, NEW intent \in Intents,
           NEW feature, NEW quote, NEW now \in 0 .. clock,
           EvaluateRisk(intent, Policy, EffectiveState(s), feature, quote, now) = {},
           IInv', history[intent.id] = NoRecord,
           history' = [history EXCEPT ![intent.id] = Record(intent, now, "authorized")],
           reservations' = [reservations EXCEPT ![intent.id] = Reservation(intent, now)],
           UNCHANGED <<handed, gate>>
    PROVE  DInv'
<1> USE DEF DInv, Books
<1> DEFINE row == Reservation(intent, now)
           i == intent.instrument
<1>1. UNCHANGED <<clock, kill, killedSince, held, filledAt, watched, snap>>
  BY DEF deskVars
<1>2. /\ Unreserved(i) /\ intent.quantity \in Nat \ {0}
      /\ held[i] = IF intent.side = "buy" THEN 0 ELSE intent.quantity
  BY OrderFitsAccount
<1>3. now \in Times
  BY DeskAssumption DEF DeskTypes
<1>4. /\ row.instrument = i /\ row.side = intent.side /\ row.quantity = intent.quantity
      /\ row.intent = intent.id /\ Reserved' = Reserved \cup {row}
      /\ i \in Instruments /\ intent.side \in {"buy", "sell"}
  BY <1>3, ReservationAdded, IntentsAssumption DEF Reservation, IInv
<1>5. /\ intent.id \notin Recorded
      /\ \A k \in Ids \ {intent.id} : history'[k] = history[k]
      /\ Authorized' = Authorized \cup {intent.id}
  BY <1>3, RecordAdded DEF IInv
<1>6. Filled' = Filled /\ Open' = Open /\ Positions' = Positions
  BY <1>1 DEF Filled, Open, Positions
<1>7. DeskTypes'
  BY <1>1, <1>6 DEF DeskTypes
<1>8. Authorized \subseteq Recorded /\ Recorded \subseteq Ids
  BY DEF Authorized, Recorded
<1>9. HandedIsAuthorized'
  BY <1>5, <1>8 DEF HandedIsAuthorized
<1>10. \A o : Unfilled(o)' = Unfilled(o)
  BY <1>1, <1>6 DEF Unfilled
<1>11. HoldingsFollowOrders'
  <2>1. Unfilled(row)
    BY <1>4, <1>5, <1>8 DEF Unfilled, HandedIsAuthorized, DeskTypes
  <2>2. held'[row.instrument] = IF (row.side = "buy") = Unfilled(row)' THEN 0 ELSE row.quantity
    BY <1>1, <1>2, <1>4, <1>10, <2>1
  <2>3. QED
    BY <1>1, <1>2, <1>4, <1>10, <2>2 DEF HoldingsFollowOrders
<1>12. ReservedBuys' = IF intent.side = "buy" THEN ReservedBuys \cup {row} ELSE ReservedBuys
  BY <1>4 DEF ReservedBuys
<1>13. ExposureWithinLimit'
  <2> DEFINE exposed == Open \cup {o.instrument : o \in ReservedBuys}
  <2>1. CASE intent.side = "buy"
    <3>1. IsFiniteSet(exposed) /\ Cardinality(exposed) + 1 <= Policy.maximumPositions
      BY <2>1, RoomOnAccount
    <3>2. Open' \cup {o.instrument : o \in ReservedBuys'} = exposed \cup {i}
      BY <1>4, <1>6, <1>12, <2>1
    <3>3. /\ Cardinality(exposed) \in Nat
          /\ Cardinality(exposed \cup {i}) \in {Cardinality(exposed), Cardinality(exposed) + 1}
      BY <3>1, FS_AddElement, FS_CardinalityType
    <3>4. QED
      BY <3>1, <3>2, <3>3, PolicyAssumption DEF ExposureWithinLimit
  <2>2. CASE intent.side # "buy"
    BY <1>6, <1>12, <2>2 DEF ExposureWithinLimit
  <2>3. QED
    BY <2>1, <2>2
<1>14. Snapshots' = Snapshots /\ ControlsRead' = ControlsRead
  BY <1>1 DEF Snapshots, ControlsRead
<1>15. ASSUME NEW t \in Snapshots PROVE SnapshotHolds(t)'
  <2>1. SnapshotHolds(t)
    OBVIOUS
  <2>2. \A j : HeldRows(j)' = HeldRows(j) /\ (Unreserved(j)' => Unreserved(j))
    BY <1>4, <1>6 DEF HeldRows, Unreserved
  <2>3. ReservedBuys \subseteq ReservedBuys'
    BY <1>12
  <2>4. QED
    BY <1>1, <1>6, <2>1, <2>2, <2>3 DEF SnapshotHolds
<1>16. \A w \in ControlsRead : ControlsHold(w)'
  BY <1>1 DEF ControlsHold
<1>17. QED
  BY <1>7, <1>9, <1>11, <1>13, <1>14, <1>15, <1>16

\* Asking the gate: a retry, a rejection or an authorization.
LEMMA AskGateStep ==
    ASSUME DInv, NEW c \in Callers, AskGate(c)
    PROVE  DInv'
<1> USE DEF DInv, Books
<1> DEFINE s == snap[c]
<1>1. s \in Snapshots /\ SnapshotHolds(s)
  BY DEF Snapshots, AskGate
<1> PICK intent \in Intents, feature \in Features, quote \in Quotes,
         now \in s.observed .. clock :
         Admit(intent, s, feature, quote, now)
  BY DEF AskGate
<1>2. UNCHANGED deskVars /\ UNCHANGED <<clock, kill, killedSince, held, filledAt, watched, snap>>
  BY DEF AskGate, deskVars
<1>3. now \in 0 .. clock /\ now \in Times /\ clock \in Nat
  BY <1>1, DeskAssumption DEF SnapshotHolds, DeskTypes
<1>4. IInv'
  BY <1>1, <1>3, AdmitInvariant DEF SnapshotHolds
<1>5. CASE /\ Decide(intent, s, feature, quote, now)
           /\ EvaluateRisk(intent, Policy, EffectiveState(s), feature, quote, now) = {}
  <2>1. /\ history[intent.id] = NoRecord
        /\ history' = [history EXCEPT ![intent.id] = Record(intent, now, "authorized")]
        /\ reservations' = [reservations EXCEPT ![intent.id] = Reservation(intent, now)]
        /\ UNCHANGED <<handed, gate>>
    BY <1>5 DEF Decide
  <2>2. \E t \in Snapshots : t = s
    BY <1>1
  <2>3. PICK t \in Snapshots : t = s
    BY <2>2
  <2>4. EvaluateRisk(intent, Policy, EffectiveState(t), feature, quote, now) = {}
    BY <1>5, <2>3
  <2>5. QED
    BY <1>2, <1>3, <1>4, <2>1, <2>4, AuthorizationStep
<1>6. CASE \/ Retry(intent)
           \/ (/\ Decide(intent, s, feature, quote, now)
               /\ EvaluateRisk(intent, Policy, EffectiveState(s), feature, quote, now) # {})
  <2>1. /\ UNCHANGED <<reservations, handed, gate>> /\ Authorized' = Authorized
        /\ \A id \in Authorized : history'[id] = history[id]
    <3>1. CASE Retry(intent)
      BY <3>1 DEF Retry, gateVars, Authorized, Recorded
    <3>2. CASE /\ Decide(intent, s, feature, quote, now)
               /\ EvaluateRisk(intent, Policy, EffectiveState(s), feature, quote, now) # {}
      <4>1. /\ history[intent.id] = NoRecord
            /\ history' = [history EXCEPT ![intent.id] = Record(intent, now, "rejected")]
            /\ UNCHANGED <<reservations, handed, gate>>
        BY <3>2 DEF Decide
      <4>2. /\ intent.id \notin Recorded /\ Authorized' = Authorized
            /\ \A k \in Ids \ {intent.id} : history'[k] = history[k]
        BY <1>3, <4>1, RecordAdded DEF IInv
      <4>3. QED
        BY <4>1, <4>2 DEF Authorized, Recorded
    <3>3. QED
      BY <1>6, <3>1, <3>2
  <2>2. /\ Reserved' = Reserved /\ ReservedBuys' = ReservedBuys /\ Open' = Open
        /\ Filled' = Filled /\ Positions' = Positions
        /\ Snapshots' = Snapshots /\ ControlsRead' = ControlsRead
    BY <1>2, <2>1 DEF Reserved, ReservedBuys, Open, Filled, Positions, Snapshots, ControlsRead
  <2>3. DeskTypes'
    BY <1>2, <2>1, <2>2 DEF DeskTypes
  <2>4. HandedIsAuthorized' /\ HoldingsFollowOrders' /\ ExposureWithinLimit'
    BY <1>2, <2>1, <2>2
       DEF HandedIsAuthorized, HoldingsFollowOrders, Unfilled, ExposureWithinLimit
  <2>5. \A t : SnapshotHolds(t) => SnapshotHolds(t)'
    BY <1>2, <2>1, <2>2 DEF SnapshotHolds, Unreserved, HeldRows
  <2>6. \A w : ControlsHold(w) => ControlsHold(w)'
    BY <1>2 DEF ControlsHold
  <2>7. QED
    BY <1>4, <2>2, <2>3, <2>4, <2>5, <2>6
<1>7. QED
  BY <1>5, <1>6 DEF Admit

-----------------------------------------------------------------------------
\* Claiming an authorization.
LEMMA ClaimGrantStep ==
    ASSUME DInv, ClaimGrant
    PROVE  DInv'
<1> USE DEF DInv, Books
<1> PICK token \in DOMAIN issued : Claim(token)
  BY DEF ClaimGrant
<1> PICK id \in GrantRecords(issued[token].grant) :
        /\ history' = [history EXCEPT ![id].dispatched = TRUE]
        /\ handed' = Append(handed, [token |-> token, intent |-> history[id].intent,
                                     gate |-> gate])
        /\ UNCHANGED <<reservations, issued, gate>>
  BY DEF Claim
<1>1. UNCHANGED <<clock, kill, killedSince, held, filledAt, watched, snap>>
  BY DEF ClaimGrant, deskVars
<1>2. IInv'
  BY ClaimInvariant
<1>3. /\ id \in Authorized /\ id \in Recorded /\ id \in Ids /\ history[id].intent.id = id
      /\ history[id] \in AdmissionRecords
  BY DEF GrantRecords, Authorized, Recorded, IInv, TypeOK
<1>4. /\ \A k \in Ids : history'[k].intent = history[k].intent
      /\ Authorized' = Authorized
  <2>1. /\ history'[id] = [history[id] EXCEPT !.dispatched = TRUE]
        /\ history'[id] \in AdmissionRecords
        /\ \A k \in Ids \ {id} : history'[k] = history[k]
    BY <1>3 DEF IInv, TypeOK, AdmissionRecords
  <2>2. history'[id].intent = history[id].intent /\ history'[id].status = history[id].status
    BY <1>3, <2>1 DEF AdmissionRecords
  <2>3. Recorded' = Recorded
    BY <1>3, <2>1, NoneAssumption DEF Recorded
  <2>4. Authorized' = Authorized
    BY <1>3, <2>1, <2>2, <2>3 DEF Authorized, Recorded
  <2>5. QED
    BY <2>1, <2>2, <2>4
<1>5. /\ DOMAIN handed \subseteq DOMAIN handed'
      /\ \A n \in DOMAIN handed : handed'[n] = handed[n]
      /\ \A n \in DOMAIN handed' : n \in DOMAIN handed \/ handed'[n].intent = history[id].intent
  <2> DEFINE call == [token |-> token, intent |-> history[id].intent, gate |-> gate]
             Call == [token : Nat \ {0}, intent : Intents, gate : 0 .. MaxRestarts]
  <2>1. handed \in Seq(Call) /\ issued \in Seq([grant : GrantIds, gate : 0 .. MaxRestarts])
    BY DEF IInv, TypeOK
  <2>2. token \in Nat \ {0}
    BY <2>1, LenProperties
  <2>3. call \in Call
    BY <1>3, <2>2 DEF IInv, TypeOK, AdmissionRecords
  <2>4. /\ Len(handed) \in Nat /\ DOMAIN handed = 1 .. Len(handed)
        /\ DOMAIN handed' = 1 .. Len(handed) + 1
        /\ handed'[Len(handed) + 1] = call
        /\ \A n \in 1 .. Len(handed) : handed'[n] = handed[n]
    BY <2>1, <2>3, LenProperties, AppendProperties
  <2>5. QED
    BY <2>4
<1>6. /\ Reserved' = Reserved /\ ReservedBuys' = ReservedBuys /\ Open' = Open
      /\ Filled' = Filled /\ Positions' = Positions
      /\ Snapshots' = Snapshots /\ ControlsRead' = ControlsRead
  BY <1>1 DEF Reserved, ReservedBuys, Open, Filled, Positions, Snapshots, ControlsRead
<1>7. DeskTypes'
  BY <1>1, <1>5, <1>6 DEF DeskTypes
<1>8. HandedIsAuthorized'
  <2>1. Authorized \subseteq Ids
    BY DEF Authorized, Recorded
  <2>2. QED
    BY <1>3, <1>4, <1>5, <2>1 DEF HandedIsAuthorized
<1>9. Filled \subseteq DOMAIN handed
  BY DEF DeskTypes
<1>10. HoldingsFollowOrders' /\ ExposureWithinLimit'
  <2>1. \A o : Unfilled(o)' = Unfilled(o)
    BY <1>5, <1>6, <1>9 DEF Unfilled
  <2>2. QED
    BY <1>1, <1>6, <2>1 DEF HoldingsFollowOrders, ExposureWithinLimit
<1>11. \A t : SnapshotHolds(t) => SnapshotHolds(t)'
  BY <1>1, <1>5, <1>6, <1>9 DEF SnapshotHolds, Unreserved, HeldRows
<1>12. \A w : ControlsHold(w) => ControlsHold(w)'
  BY <1>1 DEF ControlsHold
<1>13. QED
  BY <1>2, <1>6, <1>7, <1>8, <1>10, <1>11, <1>12

\* What the account does when an order that was handed out is filled.
LEMMA FillOpensOrCloses ==
    ASSUME DInv, NEW n \in DOMAIN handed, Fill(n)
    PROVE  LET order == handed[n].intent
               i == order.instrument IN
           /\ i \in Instruments /\ order.quantity \in Nat \ {0}
           /\ IF order.side = "buy" THEN held[i] = 0 /\ held'[i] = order.quantity
                                    ELSE held[i] = order.quantity /\ held'[i] = 0
           /\ \A j \in Instruments \ {i} : held'[j] = held[j]
           /\ held' \in [Instruments -> Nat]
<1> USE DEF DInv, Books
<1> DEFINE order == handed[n].intent
           i == order.instrument
           o == reservations[order.id]
<1>1. /\ o \in Reserved /\ o.intent = order.id /\ o.instrument = i /\ o.side = order.side
      /\ o.quantity = order.quantity
  BY RowsOfHanded
<1>2. Unfilled(o)
  <2>1. ASSUME NEW m \in Filled, handed[m].intent.id = o.intent PROVE FALSE
    <3>1. m \in DOMAIN handed /\ m # n
      BY DEF DeskTypes, Fill
    <3>2. reservations[handed[m].intent.id] = o
      BY <1>1, <2>1
    <3>3. handed[m].intent.instrument = i
      BY <1>1, <3>1, <3>2, RowsOfHanded
    <3>4. QED
      BY <3>1, <3>3, RowsOfHanded
  <2>2. QED
    BY <2>1 DEF Unfilled
<1>3. /\ i \in Instruments /\ order.quantity \in Nat \ {0}
      /\ held[i] = IF order.side = "buy" THEN 0 ELSE order.quantity
  BY <1>1, <1>2 DEF HoldingsFollowOrders
<1>4. held' = [held EXCEPT ![i] =
                  IF order.side = "buy" THEN @ + order.quantity ELSE @ - order.quantity]
  BY DEF Fill
<1>5. held \in [Instruments -> Nat]
  BY DEF DeskTypes
<1> HIDE DEF order, i, o, DInv, Books
<1>6. CASE order.side = "buy"
  BY <1>3, <1>4, <1>5, <1>6 DEF i, order
<1>7. CASE order.side # "buy"
  BY <1>3, <1>4, <1>5, <1>7 DEF i, order
<1>8. QED
  BY <1>6, <1>7

\* The account fills an order.
LEMMA FillStep ==
    ASSUME DInv, NEW n \in DOMAIN handed, Fill(n)
    PROVE  DInv'
<1> USE DEF DInv, Books
<1> DEFINE order == handed[n].intent
           i == order.instrument
<1>1. /\ UNCHANGED <<gateVars, clock, kill, killedSince, throws, watched, snap>>
      /\ UNCHANGED <<history, reservations, issued, handed, gate>>
  BY DEF Fill, gateVars
<1>2. IInv'
  BY <1>1, NextInvariant
<1>3. /\ Reserved' = Reserved /\ ReservedBuys' = ReservedBuys /\ Authorized' = Authorized
      /\ Snapshots' = Snapshots /\ ControlsRead' = ControlsRead
  BY <1>1 DEF Reserved, ReservedBuys, Authorized, Recorded, Snapshots, ControlsRead
<1>4. /\ i \in Instruments /\ order.quantity \in Nat \ {0}
      /\ IF order.side = "buy" THEN held[i] = 0 /\ held'[i] = order.quantity
                               ELSE held[i] = order.quantity /\ held'[i] = 0
      /\ \A j \in Instruments \ {i} : held'[j] = held[j]
      /\ held' \in [Instruments -> Nat]
  BY FillOpensOrCloses
<1> PICK o \in Reserved : o = reservations[order.id]
  BY RowsOfHanded
<1>5. /\ o.intent = order.id /\ o.instrument = i /\ o.side = order.side
      /\ o.quantity = order.quantity
      /\ \A m \in DOMAIN handed : handed[m].intent.instrument = i => m = n
  BY RowsOfHanded
<1>6. /\ n \notin Filled /\ Filled' = Filled \cup {n} /\ filledAt'[n] = clock
      /\ \A m \in Filled : filledAt'[m] = filledAt[m]
      /\ Filled \subseteq DOMAIN handed
  BY DEF Fill, Filled, DeskTypes
<1>7. clock \in Nat
  BY DeskAssumption DEF DeskTypes
<1>8. DeskTypes'
  BY <1>1, <1>4, <1>6, <1>7 DEF DeskTypes
<1>9. HandedIsAuthorized'
  BY <1>1, <1>3 DEF HandedIsAuthorized
<1>10. HoldingsFollowOrders'
  <2>1. ~Unfilled(o)'
    BY <1>1, <1>5, <1>6 DEF Unfilled
  <2>2. held'[o.instrument] = IF (o.side = "buy") = Unfilled(o)' THEN 0 ELSE o.quantity
    <3>1. Unfilled(o)' = FALSE
      BY <2>1 DEF Unfilled
    <3>2. CASE order.side = "buy"
      BY <1>4, <1>5, <3>1, <3>2
    <3>3. CASE order.side # "buy"
      BY <1>4, <1>5, <3>1, <3>3
    <3>4. QED
      BY <3>2, <3>3
  <2>3. ASSUME NEW p \in Reserved, p # o
        PROVE  p.instrument # i /\ Unfilled(p)' = Unfilled(p)
    <3>1. p.instrument # i
      BY <1>5, <2>3 DEF IInv, OneReservationPerInstrument
    <3>2. p.intent # order.id
      BY <1>5, <2>3, RowsOfAuthorized
    <3>3. Unfilled(p)' = Unfilled(p)
      BY <1>1, <1>6, <3>2 DEF Unfilled
    <3>4. QED
      BY <3>1, <3>3
  <2>4. ASSUME NEW p \in Reserved
        PROVE  /\ p.side \in {"buy", "sell"} /\ p.quantity \in Nat \ {0}
               /\ p.instrument \in Instruments
               /\ held'[p.instrument] = IF (p.side = "buy") = Unfilled(p)' THEN 0 ELSE p.quantity
    <3>1. /\ p.side \in {"buy", "sell"} /\ p.quantity \in Nat \ {0}
          /\ p.instrument \in Instruments
          /\ held[p.instrument] = IF (p.side = "buy") = Unfilled(p) THEN 0 ELSE p.quantity
      BY DEF HoldingsFollowOrders
    <3>2. CASE p = o
      BY <2>2, <3>1, <3>2
    <3>3. CASE p # o
      <4>1. held'[p.instrument] = held[p.instrument] /\ Unfilled(p)' = Unfilled(p)
        BY <1>4, <2>3, <3>1, <3>3
      <4>2. QED
        BY <3>1, <4>1
    <3>4. QED
      BY <3>2, <3>3
  <2>5. QED
    BY <1>3, <2>4 DEF HoldingsFollowOrders
<1>11. Open' \cup {p.instrument : p \in ReservedBuys'}
          \subseteq Open \cup {p.instrument : p \in ReservedBuys}
  <2>1. \A j \in Open' : j \in Open \/ (j = i /\ order.side = "buy")
    BY <1>4 DEF Open
  <2>2. order.side = "buy" => o \in ReservedBuys
    BY <1>5 DEF ReservedBuys
  <2>3. QED
    BY <1>3, <1>5, <2>1, <2>2
<1>12. ExposureWithinLimit'
  <2> DEFINE before == Open \cup {p.instrument : p \in ReservedBuys}
             after == Open' \cup {p.instrument : p \in ReservedBuys'}
  <2>1. IsFiniteSet(before)
    BY Finite, FS_Union
  <2>2. Cardinality(after) <= Cardinality(before) /\ IsFiniteSet(after)
    BY <1>11, <2>1, FS_Subset
  <2>3. Cardinality(after) \in Nat /\ Cardinality(before) \in Nat
    BY <2>1, <2>2, FS_CardinalityType
  <2>4. QED
    BY <2>2, <2>3, PolicyAssumption DEF ExposureWithinLimit
<1>13. \A j \in Instruments : j # i => HeldRows(j)' = HeldRows(j)
  BY <1>4 DEF HeldRows, Positions, Open
<1>14. ASSUME NEW s \in Snapshots PROVE SnapshotHolds(s)'
  <2>1. SnapshotHolds(s)
    OBVIOUS
  <2>2. \A j \in Instruments : Unreserved(j)' => PositionsIn(s, j) = HeldRows(j)'
    BY <1>3, <1>5, <1>13, <2>1 DEF SnapshotHolds, Unreserved
  <2>3. Open' \subseteq {p.instrument : p \in s.positions} \cup {p.instrument : p \in ReservedBuys'}
    BY <1>3, <1>11, <2>1 DEF SnapshotHolds
  <2>4. ASSUME NEW m \in Filled', s.observed > filledAt'[m]
        PROVE  (PositionsIn(s, handed[m].intent.instrument)
                  = HeldRows(handed[m].intent.instrument))'
    <3>1. m # n
      BY <1>6, <1>7, <2>1, <2>4 DEF SnapshotHolds
    <3>2. /\ m \in Filled /\ m \in DOMAIN handed /\ s.observed > filledAt[m]
          /\ handed[m].intent.instrument # i /\ handed[m].intent.instrument \in Instruments
      BY <1>5, <1>6, <2>4, <3>1, RowsOfHanded DEF HoldingsFollowOrders
    <3>3. PositionsIn(s, handed[m].intent.instrument) = HeldRows(handed[m].intent.instrument)
      BY <2>1, <3>2 DEF SnapshotHolds
    <3>4. PICK j \in Instruments : j = handed[m].intent.instrument
      BY <3>2
    <3>5. PositionsIn(s, j) = HeldRows(j)'
      BY <1>13, <3>2, <3>3, <3>4
    <3>6. QED
      BY <1>1, <3>4, <3>5 DEF HeldRows, PositionsIn
  <2>5. IsFiniteSet(s.positions) /\ IsFiniteSet(s.orders) /\ s.observed \in 0 .. clock'
    BY <1>1, <2>1 DEF SnapshotHolds
  <2>6. QED
    BY <1>3, <2>2, <2>3, <2>4, <2>5 DEF SnapshotHolds
<1>15. \A w : ControlsHold(w) => ControlsHold(w)'
  BY <1>1 DEF ControlsHold
<1>16. QED
  BY <1>2, <1>3, <1>8, <1>9, <1>10, <1>12, <1>14, <1>15

\* The kill switch and the clock.
LEMMA SwitchOrTickStep ==
    ASSUME DInv, ThrowKillSwitch \/ Tick
    PROVE  DInv'
<1> USE DEF DInv, Books
<1>1. clock \in 0 .. MaxClock /\ killedSince \in 0 .. clock /\ clock \in Nat /\ MaxClock \in Nat
  BY DeskAssumption DEF DeskTypes
<1>2. /\ UNCHANGED <<gateVars, held, filledAt, watched, snap>>
      /\ clock' \in clock .. MaxClock /\ killedSince' \in 0 .. clock'
      /\ (kill' = kill /\ killedSince' = killedSince) \/ (kill' => killedSince' = clock)
  <2>1. CASE ThrowKillSwitch
    BY <1>1, <2>1 DEF ThrowKillSwitch
  <2>2. CASE Tick
    BY <1>1, <2>2 DEF Tick
  <2>3. QED
    BY <2>1, <2>2
<1>3. Books' /\ \A s : SnapshotHolds(s) => SnapshotHolds(s)'
  BY <1>2, IdleStep DEF DeskTypes
<1>4. \A w : ControlsHold(w) => ControlsHold(w)'
  BY <1>2, ControlsLast
<1>5. Snapshots' = Snapshots /\ ControlsRead' = ControlsRead
  BY <1>2 DEF Snapshots, ControlsRead
<1>6. QED
  BY <1>3, <1>4, <1>5

\* Every step of the desk preserves the invariant.
LEMMA DeskNextInvariant == DInv /\ [DeskNext]_vars => DInv'
<1> SUFFICES ASSUME DInv, [DeskNext]_vars PROVE DInv'
  OBVIOUS
<1>1. ASSUME NEW c \in Callers, ReadControls(c) PROVE DInv'
  BY <1>1, ReadControlsStep
<1>2. ASSUME NEW c \in Callers, ReadAccount(c) PROVE DInv'
  BY <1>2, ReadAccountStep
<1>3. ASSUME NEW c \in Callers, AskGate(c) PROVE DInv'
  BY <1>3, AskGateStep
<1>4. CASE ClaimGrant
  BY <1>4, ClaimGrantStep
<1>5. ASSUME NEW n \in DOMAIN handed, Fill(n) PROVE DInv'
  BY <1>5, FillStep
<1>6. CASE ThrowKillSwitch \/ Tick
  BY <1>6, SwitchOrTickStep
<1>7. CASE UNCHANGED vars
  <2>1. UNCHANGED <<gateVars, clock, kill, killedSince, held, filledAt, watched, snap>>
    BY <1>7 DEF vars, deskVars
  <2>2. clock \in clock .. MaxClock /\ killedSince \in 0 .. clock
    BY DeskAssumption DEF DInv, Books, DeskTypes
  <2>3. Books' /\ \A s : SnapshotHolds(s) => SnapshotHolds(s)'
    BY <2>1, <2>2, IdleStep DEF DInv, Books, DeskTypes
  <2>4. Snapshots' = Snapshots /\ ControlsRead' = ControlsRead
    BY <2>1 DEF Snapshots, ControlsRead
  <2>5. \A w : ControlsHold(w) => ControlsHold(w)'
    BY <2>1 DEF ControlsHold
  <2>6. QED
    BY <2>3, <2>4, <2>5 DEF DInv
<1>8. QED
  BY <1>1, <1>2, <1>3, <1>4, <1>5, <1>6, <1>7 DEF DeskNext

\* The invariant of the desk: however callers, fills, operator and clock interleave.
THEOREM DeskInvariance == DeskSpec => []DInv
<1>1. QED
  BY DeskInitially, DeskNextInvariant, PTL DEF DeskSpec

\* What the account holds and the gate may still enter stays within the maximum
\* number of positions, however old the snapshots the gate is asked on.
THEOREM ExposureBounded == DeskSpec => []ExposureWithinLimit
<1>1. DInv => ExposureWithinLimit
  BY DEF DInv, Books
<1>2. QED
  BY <1>1, DeskInvariance, PTL

-----------------------------------------------------------------------------
\* Only a fill moves the account.
LEMMA HeldMovesByFill ==
    ASSUME [DeskNext]_vars, held' # held
    PROVE  \E n \in DOMAIN handed : Fill(n)
BY DEF DeskNext, vars, deskVars, ReadControls, ReadAccount, AskGate, ClaimGrant,
       ThrowKillSwitch, Tick

\* The account opens positions from nothing and closes them exactly.
THEOREM PositionsOpenOrClose == DeskSpec => OpenOrCloseExactly
<1>1. DInv /\ [DeskNext]_vars =>
          [\A i \in Instruments :
              held'[i] # held[i] => held'[i] >= 0 /\ (held[i] = 0 \/ held'[i] = 0)]_vars
  <2> SUFFICES ASSUME DInv, [DeskNext]_vars, NEW i \in Instruments, held'[i] # held[i]
               PROVE  held'[i] >= 0 /\ (held[i] = 0 \/ held'[i] = 0)
    OBVIOUS
  <2>1. PICK n \in DOMAIN handed : Fill(n)
    BY HeldMovesByFill
  <2>2. /\ held' \in [Instruments -> Nat]
        /\ i = handed[n].intent.instrument
        /\ held[i] = 0 \/ held'[i] = 0
    BY <2>1, FillOpensOrCloses
  <2>3. QED
    BY <2>2
<1>2. QED
  BY <1>1, DeskInvariance, PTL DEF DeskSpec, OpenOrCloseExactly

\* What is issued in a step was authorized on a snapshot some caller had read.
LEMMA IssuedOnSnapshot ==
    ASSUME DInv, [DeskNext]_vars, NEW grant \in IssuedNow
    PROVE  \E s \in Snapshots, now \in 0 .. clock, intent \in Intents : \E feature, quote :
              /\ grant.time = now
              /\ EvaluateRisk(intent, Policy, EffectiveState(s), feature, quote, now) = {}
<1>1. IssuedNow # {} => issued' # issued
  BY DEF IssuedNow
<1>2. PICK c \in Callers : AskGate(c)
  BY <1>1 DEF DeskNext, vars, deskVars, gateVars, ReadControls, ReadAccount, ClaimGrant, Claim,
              Fill, ThrowKillSwitch, Tick
<1> DEFINE s == snap[c]
<1>3. s \in Snapshots /\ SnapshotHolds(s)
  BY <1>2 DEF Snapshots, AskGate, DInv
<1>4. PICK intent \in Intents, feature \in Features, quote \in Quotes,
           now \in s.observed .. clock : Admit(intent, s, feature, quote, now)
  BY <1>2 DEF AskGate
<1>5. now \in 0 .. clock
  BY <1>3, DeskAssumption DEF SnapshotHolds, DInv, Books, DeskTypes
<1>6. /\ EvaluateRisk(intent, Policy, EffectiveState(s), feature, quote, now) = {}
      /\ issued' = Append(issued, [grant |-> GrantId(intent, now), gate |-> gate])
  BY <1>1, <1>4 DEF Admit, Decide, Retry, gateVars
<1>7. grant = GrantId(intent, now)
  <2>1. issued \in Seq([grant : GrantIds, gate : 0 .. MaxRestarts])
    BY DEF DInv, Books, IInv, TypeOK
  <2>2. [grant |-> GrantId(intent, now), gate |-> gate] \in [grant : GrantIds, gate : 0 .. MaxRestarts]
    BY <1>5, IntentsAssumption, DeskAssumption
       DEF GrantId, GrantIds, DInv, Books, DeskTypes, IInv, TypeOK
  <2>3. /\ Len(issued) \in Nat /\ DOMAIN issued = 1 .. Len(issued)
        /\ DOMAIN issued' = 1 .. Len(issued) + 1
        /\ issued'[Len(issued) + 1] = [grant |-> GrantId(intent, now), gate |-> gate]
    BY <1>6, <2>1, <2>2, LenProperties, AppendProperties
  <2>4. QED
    BY <2>3 DEF IssuedNow
<1>8. grant.time = now
  BY <1>7 DEF GrantId
<1>9. QED
  BY <1>3, <1>5, <1>6, <1>8

\* The kill switch, once it has been on for longer than controls may be old, stops
\* every authorization, although callers join fresh positions with old controls.
THEOREM KillSwitchStops == DeskSpec => KillSwitchFreezes
<1>1. DInv /\ [DeskNext]_vars =>
          [\A grant \in IssuedNow : kill => grant.time <= killedSince + Policy.stateAge]_vars
  <2> SUFFICES ASSUME DInv, [DeskNext]_vars, NEW grant \in IssuedNow, kill
               PROVE  grant.time <= killedSince + Policy.stateAge
    OBVIOUS
  <2>1. PICK s \in Snapshots, now \in 0 .. clock, intent \in Intents : \E feature, quote :
            /\ grant.time = now
            /\ EvaluateRisk(intent, Policy, EffectiveState(s), feature, quote, now) = {}
    BY IssuedOnSnapshot
  <2> DEFINE eff == EffectiveState(s)
  <2>2. /\ ~eff.controls.killSwitch /\ ~Stale(eff.controls, now, Policy.stateAge)
        /\ ~Future(eff.controls, now)
    BY <2>1, AuthorizedOn
  <2>3. eff.controls = s.controls
    BY DEF EffectiveState
  <2>4. ControlsHold(s.controls)
    BY DEF DInv, ControlsRead
  <2>5. /\ s.controls.observed \in 0 .. clock /\ s.controls.observed <= killedSince
        /\ ~(now - s.controls.observed > Policy.stateAge)
    BY <2>2, <2>3, <2>4 DEF ControlsHold, Stale
  <2>6. clock \in Nat /\ killedSince \in Nat /\ Policy.stateAge \in Nat
    BY DeskAssumption DEF DInv, Books, DeskTypes
  <2>7. QED
    BY <2>1, <2>5, <2>6
<1>2. QED
  BY <1>1, DeskInvariance, PTL DEF DeskSpec, KillSwitchFreezes

\* A snapshot that shows a fill contradicts the reservation the fill came from.
LEMMA FillContradicts ==
    ASSUME DInv, NEW s \in Snapshots, NEW n \in Filled, s.observed > filledAt[n]
    PROVE  InconsistentState(EffectiveState(s))
<1> USE DEF DInv, Books
<1> DEFINE eff == EffectiveState(s)
           i == handed[n].intent.instrument
<1>1. n \in DOMAIN handed
  BY DEF DeskTypes
<1> PICK o \in Reserved : o = reservations[handed[n].intent.id]
  BY <1>1, RowsOfHanded
<1>2. /\ o.instrument = i /\ o.intent = handed[n].intent.id /\ i \in Instruments
      /\ o.side \in {"buy", "sell"} /\ o.quantity \in Nat \ {0}
  BY <1>1, RowsOfHanded DEF HoldingsFollowOrders
<1>3. ~Unfilled(o)
  BY <1>2 DEF Unfilled
<1>4. held[i] = IF o.side = "buy" THEN o.quantity ELSE 0
  <2>1. Unfilled(o) = FALSE
    BY <1>3 DEF Unfilled
  <2>2. QED
    BY <1>2, <2>1 DEF HoldingsFollowOrders
<1>5. PositionsIn(eff, i) = HeldRows(i)
  <2>1. PositionsIn(s, i) = HeldRows(i)
    BY DEF SnapshotHolds
  <2>2. QED
    BY <2>1 DEF PositionsIn, EffectiveState
<1>6. InconsistentOrder(eff, o)
  <2>1. CASE o.side = "buy"
    <3>1. HeldRows(i) # {}
      BY <1>2, <1>4, <2>1, RowsHeld
    <3>2. QED
      BY <1>2, <1>5, <2>1, <3>1 DEF InconsistentOrder
  <2>2. CASE o.side # "buy"
    <3>1. HeldRows(i) = {}
      BY <1>2, <1>4, <2>2, RowsHeld
    <3>2. QED
      BY <1>2, <1>5, <2>2, <3>1 DEF InconsistentOrder
  <2>3. QED
    BY <2>1, <2>2
<1>7. o \in eff.orders
  BY DEF EffectiveState
<1>8. QED
  BY <1>6, <1>7 DEF InconsistentState

\* From the first fill on, the gate authorizes nothing on a snapshot that shows it:
\* its reservations outlive the orders they were for.
THEOREM FillsFreeze == DeskSpec => FillFreezesGate
<1>1. DInv /\ [DeskNext]_vars =>
          [\A grant \in IssuedNow : \A n \in Filled :
              handed[n].gate = gate => grant.time <= filledAt[n] + Policy.stateAge]_vars
  <2> SUFFICES ASSUME DInv, [DeskNext]_vars, NEW grant \in IssuedNow, NEW n \in Filled
               PROVE  grant.time <= filledAt[n] + Policy.stateAge
    OBVIOUS
  <2>1. PICK s \in Snapshots, now \in 0 .. clock, intent \in Intents : \E feature, quote :
            /\ grant.time = now
            /\ EvaluateRisk(intent, Policy, EffectiveState(s), feature, quote, now) = {}
    BY IssuedOnSnapshot
  <2> DEFINE eff == EffectiveState(s)
  <2>2. /\ ~Stale(eff, now, Policy.stateAge) /\ ~Future(eff, now)
        /\ ~InconsistentState(eff)
    BY <2>1, AuthorizedOn
  <2>3. eff.observed = s.observed
    BY DEF EffectiveState
  <2>4. ~(now - s.observed > Policy.stateAge)
    BY <2>2, <2>3 DEF Stale
  <2>5. ~(s.observed > filledAt[n])
    BY <2>2, FillContradicts
  <2>6. /\ clock \in Nat /\ filledAt[n] \in 0 .. clock /\ Policy.stateAge \in Nat
        /\ s.observed \in 0 .. clock
    BY DeskAssumption DEF DInv, Books, DeskTypes, SnapshotHolds
  <2>7. QED
    BY <2>1, <2>4, <2>5, <2>6
<1>2. QED
  BY <1>1, DeskInvariance, PTL DEF DeskSpec, FillFreezesGate
=============================================================================
