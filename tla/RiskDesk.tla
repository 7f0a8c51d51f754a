------------------------------ MODULE RiskDesk ------------------------------
(***************************************************************************)
(* The gate of RiskGate among what surrounds it: callers that read the     *)
(* account and the operator controls, decide later on what they read, and  *)
(* claim whatever authorization was issued; an account that fills what was *)
(* handed out; an operator with a kill switch; a clock.                    *)
(*                                                                         *)
(* src/ contains the gate and its tests and no caller: callers, account,   *)
(* operator and clock are the environment the contract of RiskState,       *)
(* OperatorControls and decision_time assumes, and are external. A fill is *)
(* complete or does not happen, and nothing else moves the account. The    *)
(* desk lives as long as one gate.                                         *)
(***************************************************************************)
EXTENDS RiskGate

CONSTANTS
    Callers,            \* the callers of the gate
    MaxClock,           \* bound: the last instant
    MaxThrows,          \* bound: how often the kill switch is thrown or reset
    InitialHoldings,    \* what the account may hold before the gate is used
    NoSnapshot          \* a caller that has not read the account yet

\* The account starts within the limits of the policy.
ASSUME DeskAssumption ==
    /\ MaxClock \in Nat /\ 0 .. MaxClock \subseteq Times
    /\ Policy.stateAge \in Nat
    /\ IsFiniteSet(Instruments)
    /\ \A h \in InitialHoldings :
          /\ h \in [Instruments -> Nat]
          /\ Cardinality({i \in Instruments : h[i] # 0}) <= Policy.maximumPositions

VARIABLES
    clock,        \* the current instant
    kill,         \* whether the kill switch is on
    killedSince,  \* when it was last switched on
    throws,       \* how often it was switched
    held,         \* the quantity the account holds of each instrument
    filledAt,     \* when the calls of "handed" were filled: place |-> instant
    watched,      \* the operator controls each caller read last
    snap          \* the snapshot each caller read last

deskVars == <<clock, kill, killedSince, throws, held, filledAt, watched, snap>>
vars == <<gateVars, deskVars>>

-----------------------------------------------------------------------------
Filled == DOMAIN filledAt
Open == {i \in Instruments : held[i] # 0}

Positions == {[instrument |-> i, quantity |-> held[i], id |-> i] : i \in Open}

\* The orders handed out and not filled yet, as the gate has them in reserve.
Working ==
    {o \in Reserved : \E n \in DOMAIN handed \ Filled :
                          handed[n].gate = gate /\ handed[n].intent.id = o.intent}

\* The same orders under the references of the broker.
UnderBrokerReference(orders) ==
    {[o EXCEPT !.reference.payload = "broker"] : o \in orders}

ControlsNow ==
    [tradingEnabled |-> TRUE, killSwitch |-> kill, observed |-> clock, available |-> clock]

DeskInit ==
    /\ Init
    /\ clock = 0
    /\ kill = FALSE
    /\ killedSince = 0
    /\ throws = 0
    /\ held \in InitialHoldings
    /\ filledAt = <<>>
    /\ watched = [c \in Callers |-> ControlsNow]
    /\ snap = [c \in Callers |-> NoSnapshot]

\* A caller reads the operator controls.
ReadControls(c) ==
    /\ watched' = [watched EXCEPT ![c] = ControlsNow]
    /\ UNCHANGED <<gateVars, clock, kill, killedSince, throws, held, filledAt, snap>>

\* A caller reads positions and outstanding orders and joins them with the
\* controls it read last. Orders may be missing from the account's list, be the
\* gate's own rows, or be rows with references of the broker.
ReadAccount(c) ==
    \E orders \in {{}, Working, UnderBrokerReference(Working)} :
        /\ snap' = [snap EXCEPT ![c] =
                       [scope |-> Scope, complete |-> TRUE, repeated |-> FALSE,
                        positions |-> Positions, orders |-> orders, observed |-> clock,
                        available |-> clock, controls |-> watched[c]]]
        /\ UNCHANGED <<gateVars, clock, kill, killedSince, throws, held, filledAt, watched>>

\* A caller asks the gate, on what it read, with the feature of the intent's signal
\* and a quote of its instrument, and at an instant it took for its decision time
\* after it read the account and before it got the gate's lock.
AskGate(c) ==
    /\ snap[c] # NoSnapshot
    /\ \E intent \in Intents, feature \in Features, quote \in Quotes,
          now \in snap[c].observed .. clock :
          /\ LineageMatches(intent, feature)
          /\ quote.instrument = intent.instrument
          /\ Admit(intent, snap[c], feature, quote, now)
    /\ UNCHANGED deskVars

\* Some caller claims some authorization, its own or a copy.
ClaimGrant ==
    /\ \E token \in DOMAIN issued : Claim(token)
    /\ UNCHANGED deskVars

\* The account fills an order that was handed out.
Fill(n) ==
    LET order == handed[n].intent IN
    /\ n \notin Filled
    /\ held' = [held EXCEPT ![order.instrument] =
                   IF order.side = "buy" THEN @ + order.quantity ELSE @ - order.quantity]
    /\ filledAt' = [k \in Filled \cup {n} |-> IF k = n THEN clock ELSE filledAt[k]]
    /\ UNCHANGED <<gateVars, clock, kill, killedSince, throws, watched, snap>>

\* The operator throws the kill switch or resets it.
ThrowKillSwitch ==
    /\ throws < MaxThrows
    /\ throws' = throws + 1
    /\ kill' = ~kill
    /\ killedSince' = IF kill' THEN clock ELSE killedSince
    /\ UNCHANGED <<gateVars, clock, held, filledAt, watched, snap>>

Tick ==
    /\ clock < MaxClock
    /\ clock' = clock + 1
    /\ UNCHANGED <<gateVars, kill, killedSince, throws, held, filledAt, watched, snap>>

DeskNext ==
    \/ \E c \in Callers : ReadControls(c) \/ ReadAccount(c) \/ AskGate(c)
    \/ ClaimGrant
    \/ \E n \in DOMAIN handed : Fill(n)
    \/ ThrowKillSwitch
    \/ Tick

DeskSpec == DeskInit /\ [][DeskNext]_vars

-----------------------------------------------------------------------------
\* What the account holds plus what the gate may still enter never exceeds the
\* maximum number of positions, although callers decide on snapshots taken before
\* other callers' orders were authorized, claimed or filled.
ExposureWithinLimit ==
    Cardinality(Open \cup {o.instrument : o \in ReservedBuys}) <= Policy.maximumPositions

\* Fills open a position from nothing or close it exactly: no pyramiding, no partial
\* exit, no sale of what the account does not hold, whatever the interleaving of
\* reading, deciding, claiming and filling.
OpenOrCloseExactly ==
    [][\A i \in Instruments :
          held'[i] # held[i] => held'[i] >= 0 /\ (held[i] = 0 \/ held'[i] = 0)]_vars

\* Authorizations issued in a step, each with its decision time.
IssuedNow == {issued'[n].grant : n \in DOMAIN issued' \ DOMAIN issued}

\* Once the kill switch has been on for longer than the operational state may be
\* old, no decision taken at such a time authorizes anything, although callers join
\* fresh positions with controls they read earlier.
KillSwitchFreezes ==
    [][\A grant \in IssuedNow :
          kill => grant.time <= killedSince + Policy.stateAge]_vars

\* Reservations are never released, so a fill contradicts the reservation it came
\* from: from the first fill on, every decision later than the admissible age of the
\* snapshot is rejected, on every instrument. The gate must be constructed again.
FillFreezesGate ==
    [][\A grant \in IssuedNow : \A n \in Filled :
          handed[n].gate = gate => grant.time <= filledAt[n] + Policy.stateAge]_vars

=============================================================================
