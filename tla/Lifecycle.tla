------------------------------ MODULE Lifecycle ------------------------------
(***************************************************************************)
(* The rules of the timeline (src/src/shadow/simulation/timeline.py) and   *)
(* of the lifecycle (lifecycle.py): the order of events, what makes an     *)
(* opportunity eligible, and what one event does to one instrument.        *)
(*                                                                         *)
(* An event is [id, kind, time, instrument, type]; ids and instruments     *)
(* stand by their rank in the order of their strings, and type is "none"   *)
(* unless the event is a signal. Events are told apart as whole records.   *)
(***************************************************************************)
EXTENDS QuoteExecution, Sequences, FiniteSets, SequencesExt

CONSTANTS
    NoAction,     \* no pending lifecycle action
    NoPosition    \* no open position

\* EVENT_PRECEDENCE.
Precedence == [observation |-> 10, feature |-> 20, signal |-> 30, opportunity |-> 40]

\* TimelineEvent.sort_key.
Before(e, f) ==
    \/ e.time < f.time
    \/ /\ e.time = f.time
       /\ \/ Precedence[e.kind] < Precedence[f.kind]
          \/ /\ e.kind = f.kind
             /\ \/ e.instrument < f.instrument
                \/ e.instrument = f.instrument /\ e.id < f.id

\* A finite set as a sequence that is sorted by a strict total order.
Sorted(S, Less(_, _)) ==
    [k \in 1 .. Cardinality(S) |-> CHOOSE x \in S : Cardinality({y \in S : Less(y, x)}) = k - 1]

\* _ordered_events.
Ordered(events) == Sorted(events, Before)

Signals(events) == {e \in events : e.kind = "signal"}
Opportunities(events) == {e \in events : e.kind = "opportunity"}

\* process_timeline and _eligible_pairs: every signal keeps every strictly later
\* opportunity of its instrument; nothing consumes a signal here.
EligiblePairs(events) ==
    {pair \in Signals(events) \X Opportunities(events) :
        /\ pair[1].instrument = pair[2].instrument
        /\ pair[2].time > pair[1].time}

\* Mutant: of two opposite signals at one instant only the exit is refused.
ConflictedExits(events) ==
    {s \in Signals(events) :
        /\ s.type = "exit"
        /\ \E t \in Signals(events) :
              t.time = s.time /\ t.instrument = s.instrument /\ t.type # s.type}

\* _conflicted_signal_references: opposite signals of an instrument at one instant.
Conflicted(events) ==
    LET signals == Signals(events) IN
    {s \in signals :
        \E t \in signals :
            t.time = s.time /\ t.instrument = s.instrument /\ t.type # s.type}

-----------------------------------------------------------------------------
\* InstrumentLifecycleState. An action is its signal; a position is the signal that
\* opened it and the time it was opened.
FlatState == [state |-> "flat", pending |-> NoAction, position |-> NoPosition]

\* The agreement of state, action and position that InstrumentLifecycleState demands.
WellFormed(s) ==
    \/ s = FlatState
    \/ /\ s.state = "pending_entry" /\ s.position = NoPosition
       /\ s.pending # NoAction /\ s.pending.type = "entry"
    \/ s.state = "holding" /\ s.pending = NoAction /\ s.position # NoPosition
    \/ /\ s.state = "pending_exit" /\ s.position # NoPosition
       /\ s.pending # NoAction /\ s.pending.type = "exit"

\* Mutant: an entry is accepted on top of an open position.
OnSignalPyramids(s, signal, conflicted) ==
    IF signal \in conflicted THEN s
    ELSE IF signal.type = "entry" /\ s.state \in {"flat", "holding"}
         THEN [state |-> "pending_entry", pending |-> signal, position |-> NoPosition]
    ELSE IF signal.type = "exit" /\ s.state = "holding"
         THEN [s EXCEPT !.state = "pending_exit", !.pending = signal]
    ELSE s

\* process_lifecycle at a signal: it creates an action from the one state that fits
\* and is refused or ignored in every other.
OnSignal(s, signal, conflicted) ==
    IF signal \in conflicted THEN s
    ELSE IF signal.type = "entry" /\ s.state = "flat"
         THEN [s EXCEPT !.state = "pending_entry", !.pending = signal]
    ELSE IF signal.type = "exit" /\ s.state = "holding"
         THEN [s EXCEPT !.state = "pending_exit", !.pending = signal]
    ELSE s

\* _attempt_for.
AttemptFor(signal, opportunity) ==
    [id |-> <<signal, opportunity>>, model |-> Model, instrument |-> signal.instrument,
     boundary |-> signal.time, time |-> opportunity.time, opportunity |-> opportunity]

\* Whether process_lifecycle resolves an attempt at an opportunity.
Attempts(s, opportunity, pairs) ==
    s.pending # NoAction /\ <<s.pending, opportunity>> \in pairs

\* Mutant: the position outlives the exit.
OnOpportunityKeepsPosition(s, opportunity, pairs, quotes) ==
    IF ~Attempts(s, opportunity, pairs) THEN s
    ELSE IF Resolve(AttemptFor(s.pending, opportunity), quotes).status # "filled" THEN s
    ELSE IF s.state = "pending_entry"
         THEN [state |-> "holding", pending |-> NoAction,
               position |-> [opening |-> s.pending, opened |-> opportunity.time]]
    ELSE [s EXCEPT !.state = "flat", !.pending = NoAction]

\* Mutant: an attempt that does not fill gives the action up.
OnOpportunityExpires(s, opportunity, pairs, quotes) ==
    IF ~Attempts(s, opportunity, pairs) THEN s
    ELSE IF Resolve(AttemptFor(s.pending, opportunity), quotes).status # "filled"
         THEN [s EXCEPT !.state = IF s.state = "pending_entry" THEN "flat" ELSE "holding",
                        !.pending = NoAction]
    ELSE IF s.state = "pending_entry"
         THEN [state |-> "holding", pending |-> NoAction,
               position |-> [opening |-> s.pending, opened |-> opportunity.time]]
    ELSE FlatState

\* Mutant: the boundary of an action is just before its signal, for the opportunities
\* it may have and for the attempts made of them, so that it executes at once.
OnOpportunityAtOnce(s, opportunity, pairs, quotes) ==
    LET attempt == [AttemptFor(s.pending, opportunity) EXCEPT !.boundary = @ - 1] IN
    IF s.pending = NoAction \/ opportunity.time < s.pending.time THEN s
    ELSE IF Resolve(attempt, quotes).status # "filled" THEN s
    ELSE IF s.state = "pending_entry"
         THEN [state |-> "holding", pending |-> NoAction,
               position |-> [opening |-> s.pending, opened |-> opportunity.time]]
    ELSE FlatState

\* process_lifecycle at an opportunity: only a fill moves the state.
OnOpportunity(s, opportunity, pairs, quotes) ==
    IF ~Attempts(s, opportunity, pairs) THEN s
    ELSE IF Resolve(AttemptFor(s.pending, opportunity), quotes).status # "filled" THEN s
    ELSE IF s.state = "pending_entry"
         THEN [state |-> "holding", pending |-> NoAction,
               position |-> [opening |-> s.pending, opened |-> opportunity.time]]
    ELSE FlatState

\* What one event does to the state of its instrument.
After(s, e, conflicted, pairs, quotes) ==
    CASE e.kind = "signal" -> OnSignal(s, e, conflicted)
      [] e.kind = "opportunity" -> OnOpportunity(s, e, pairs, quotes)
      [] OTHER -> s

\* One event more in a replay, which keeps what it was given beside the states.
Handled(replay, e) ==
    [replay EXCEPT !.states[e.instrument] =
        After(@, e, replay.conflicted, replay.pairs, replay.quotes)]

\* process_lifecycle: the final state of each instrument; the unseen are flat.
ProcessLifecycle(instruments, events, quotes) ==
    FoldLeft(Handled,
             [states |-> [i \in instruments |-> FlatState], conflicted |-> Conflicted(events),
              pairs |-> EligiblePairs(events), quotes |-> quotes],
             Ordered(events)).states

=============================================================================
