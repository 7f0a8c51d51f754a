--------------------------- MODULE LifecycleReplay ---------------------------
(***************************************************************************)
(* process_lifecycle (src/src/shadow/simulation/lifecycle.py) as the loop  *)
(* it is: any set of events and quotes, handled one event at a time in     *)
(* their canonical order, with the attempts and fills it leaves behind.    *)
(***************************************************************************)
EXTENDS Lifecycle

CONSTANTS
    Instruments,
    Universe,        \* the events a timeline may have
    QuoteUniverse,   \* the quotes that may be supplied
    MaxEvents,       \* bound: how many events a timeline has
    MaxQuotes        \* bound: how many quotes are supplied

ASSUME UniverseAssumption ==
    \A e, f \in Universe : e # f => Before(e, f) \/ Before(f, e)

\* What TimelineEvent enforces; ids and instruments are ranks.
ASSUME EventsAssumption ==
    \A e \in Universe :
        /\ e.id \in Int /\ e.time \in Int /\ e.instrument \in Instruments \cap Int
        /\ e.kind \in DOMAIN Precedence
        /\ e.kind = "signal" => e.type \in {"entry", "exit"}

\* SimulatedPosition, the opening action as its signal.
Positions == [opening : Universe, opened : Int]

ASSUME NoneAssumption == NoAction \notin Universe /\ NoPosition \notin Positions

\* Times of quotes are instants.
ASSUME QuotesAssumption == \A q \in QuoteUniverse : q.availability \in Int

VARIABLES
    events,     \* the timeline
    quotes,     \* the quotes supplied with it
    done,       \* the events handled so far
    states,     \* the lifecycle state of each instrument
    attempts    \* the execution attempts, with their outcomes

vars == <<events, quotes, done, states, attempts>>

Init ==
    /\ events \in {E \in SUBSET Universe : Cardinality(E) <= MaxEvents}
    /\ quotes \in {Q \in SUBSET QuoteUniverse : Cardinality(Q) <= MaxQuotes}
    /\ done = {}
    /\ states = [i \in Instruments |-> FlatState]
    /\ attempts = {}

\* The loop comes to event e.
IsNext(e) == e \in events \ done /\ \A f \in events \ (done \cup {e}) : Before(e, f)

Handle(e) ==
    LET s == states[e.instrument] IN
    /\ IsNext(e)
    /\ done' = done \cup {e}
    /\ states' = [states EXCEPT ![e.instrument] =
                     After(s, e, Conflicted(events), EligiblePairs(events), quotes)]
    /\ attempts' =
           IF e.kind = "opportunity" /\ Attempts(s, e, EligiblePairs(events))
           THEN attempts \cup
                    {[action |-> s.pending, opportunity |-> e,
                      outcome |-> Resolve(AttemptFor(s.pending, e), quotes)]}
           ELSE attempts
    /\ UNCHANGED <<events, quotes>>

HandleSignal == \E e \in Signals(events) : Handle(e)
HandleOpportunity == \E e \in Opportunities(events) : Handle(e)
HandleOther == \E e \in events \ (Signals(events) \cup Opportunities(events)) : Handle(e)

Next == HandleSignal \/ HandleOpportunity \/ HandleOther

Spec == Init /\ [][Next]_vars

-----------------------------------------------------------------------------
Fills == {a \in attempts : a.outcome.status = "filled"}

\* The types, and with them the agreement of state, action and position of which
\* InstrumentLifecycleState makes an error.
TypeOK ==
    /\ done \subseteq events /\ events \subseteq Universe
    /\ \A i \in Instruments :
          /\ WellFormed(states[i])
          /\ states[i].pending # NoAction => states[i].pending \in Signals(done)
          /\ states[i].position # NoPosition => states[i].position.opening \in Signals(done)

\* Entries and exits take turns. Between two fills of one direction of an instrument
\* lies one of the other, and the open position is of the last entry, which no exit
\* has followed: nothing pyramids and nothing is sold twice.
FillsAlternate ==
    \A i \in Instruments :
        LET fills == {a \in Fills : a.action.instrument = i}
            entries == {a \in fills : a.action.type = "entry"}
            Within(a, b) == {c \in fills : a.opportunity.time < c.opportunity.time
                                           /\ c.opportunity.time < b.opportunity.time}
        IN  /\ \A a, b \in fills :
                  /\ a # b => a.opportunity.time # b.opportunity.time
                  /\ a.action.type = b.action.type /\ a.opportunity.time < b.opportunity.time
                     => \E c \in Within(a, b) : c.action.type # a.action.type
            /\ states[i].position # NoPosition =>
                  \E a \in entries :
                      /\ a.action = states[i].position.opening
                      /\ a.opportunity.time = states[i].position.opened
                      /\ \A b \in fills : b.opportunity.time <= a.opportunity.time
            /\ states[i].position = NoPosition =>
                  2 * Cardinality(entries) = Cardinality(fills)

\* Of opposite signals of an instrument at one instant neither is ever acted on,
\* whatever the state and the order of their identifiers.
ConflictsActOnNothing ==
    \A s, t \in Signals(events) :
        /\ s.time = t.time /\ s.instrument = t.instrument /\ s.type # t.type
        => /\ \A a \in attempts : a.action \notin {s, t}
           /\ states[s.instrument].pending \notin {s, t}

\* A pending action is tried at every opportunity after its signal until one fills:
\* an attempt that fails neither drops it nor skips an opportunity.
NoOpportunitySkipped ==
    \A a \in {b.action : b \in attempts} \cup {states[i].pending : i \in Instruments} :
        a # NoAction =>
            \A o \in Opportunities(done) :
                /\ <<a, o>> \in EligiblePairs(events)
                /\ \A b \in Fills : b.action = a => ~Before(b.opportunity, o)
                => \E b \in attempts : b.action = a /\ b.opportunity = o

\* What is later does not count: after every event of an instant the states are those
\* of a timeline and of quotes that end there.
PrefixStable ==
    \A t \in {e.time : e \in events} :
        done = {e \in events : e.time <= t} =>
            states = ProcessLifecycle(Instruments, done, {q \in quotes : q.availability <= t})

Cycle ==
    INSTANCE PositionCycle WITH
        Times <- {e.time : e \in Universe},
        phase <- [i \in Instruments |-> states[i].state],
        due <- [i \in Instruments |->
                   IF states[i].pending = NoAction THEN 0 ELSE states[i].pending.time],
        reached <- {e.time : e \in done}

\* The loop implements the cycle: whatever the events, an instrument goes from flat
\* over a proposal to holding and back. The event that executes a proposal is of a
\* strictly later instant than the signal that made it, and instants come in order.
ImplementsCycle == Cycle!Spec

=============================================================================
