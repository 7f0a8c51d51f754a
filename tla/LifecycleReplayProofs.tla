------------------------ MODULE LifecycleReplayProofs ------------------------
(***************************************************************************)
(* What process_lifecycle keeps for every timeline and every history of    *)
(* quotes, of any size: the agreement that InstrumentLifecycleState checks *)
(* at run time, that conflicts act on nothing and no opportunity is        *)
(* skipped, that it implements PositionCycle, and that entries and exits   *)
(* take turns. For the last the invariant says of the fills of one         *)
(* instrument, and of its state, what the next fill needs: whose turn it   *)
(* is is told by the open position, and the pending action is newer than   *)
(* all of them, so that the next fill is the last one.                     *)
(* The next part is about the loop as a fold. Each step of LifecycleReplay *)
(* appends one event to what was handled, and so a replay of the events up *)
(* to any earlier instant grows with the loop, and stops growing when the  *)
(* loop is past that instant: what an instrument was then is what the      *)
(* evidence available then made of it.                                     *)
(* The last part is about reconstruct_trades, which reads the trace as a   *)
(* fold of its own. Its invariant is that, when the loop has come to some  *)
(* event, a reader of the records so far has in its books exactly what the *)
(* loop left behind: the states, the entries that are open, the attempts   *)
(* made, and the fills that follow one another as trades. From it comes    *)
(* what the reader says of a complete run, and that whatever is altered in *)
(* the evidence is missed when the tables are compared, or stops the turn  *)
(* at which it is read.                                                    *)
(***************************************************************************)
EXTENDS TradeReconstruction, FiniteSetTheorems, SequenceTheorems, WellFoundedInduction, TLAPS

InstrumentStates ==
    [state : {"flat", "pending_entry", "holding", "pending_exit"},
     pending : Universe \cup {NoAction}, position : Positions \cup {NoPosition}]

\* Types, the agreement of state, action and position, and that what an instrument acts
\* or acted on is an unconflicted signal of its own that was handled.
Replayed ==
    /\ TypeOK
    /\ states \in [Instruments -> InstrumentStates]
    /\ \A i \in Instruments : states[i].pending # NoAction =>
           /\ states[i].pending.instrument = i
           /\ states[i].pending \notin Conflicted(events)

\* What one event makes of a state that fits its action and position: the same, an
\* action proposed, or an action executed on a fill.
LEMMA AfterFits ==
    ASSUME NEW s \in InstrumentStates, WellFormed(s), NEW e \in Universe,
           NEW conflicted, NEW pairs, NEW evidence,
           NEW new, new = After(s, e, conflicted, pairs, evidence)
    PROVE  /\ new \in InstrumentStates /\ WellFormed(new)
           /\ \/ new = s
              \/ /\ e.kind = "signal" /\ e \notin conflicted
                 /\ s.state \in {"flat", "holding"} /\ s.pending = NoAction
                 /\ new.state = IF s.state = "flat" THEN "pending_entry" ELSE "pending_exit"
                 /\ new.pending = e /\ new.position = s.position
              \/ /\ e.kind = "opportunity" /\ Attempts(s, e, pairs)
                 /\ Resolve(AttemptFor(s.pending, e), evidence).status = "filled"
                 /\ s.state \in {"pending_entry", "pending_exit"}
                 /\ new.state = IF s.state = "pending_entry" THEN "holding" ELSE "flat"
                 /\ new.pending = NoAction
                 /\ new.position \in {NoPosition, [opening |-> s.pending, opened |-> e.time]}
  <1>1. /\ e.time \in Int
        /\ e.kind \in {"observation", "feature", "signal", "opportunity"}
        /\ e.kind = "signal" => e.type \in {"entry", "exit"}
    BY EventsAssumption DEF Precedence
  <1>2. CASE new = s
    BY <1>2
  <1>3. CASE e.kind = "signal" /\ new # s
    <2>1. new = OnSignal(s, e, conflicted)
      BY <1>3 DEF After
    <2>2. e \notin conflicted
      BY <1>3, <2>1 DEF OnSignal
    <2>3. CASE e.type = "entry" /\ s.state = "flat"
      <3>1. s = FlatState /\ new = [s EXCEPT !.state = "pending_entry", !.pending = e]
        BY <2>1, <2>2, <2>3 DEF OnSignal, WellFormed
      <3>2. new = [state |-> "pending_entry", pending |-> e, position |-> NoPosition]
            /\ s.state = "flat" /\ s.pending = NoAction /\ s.position = NoPosition
        BY <3>1 DEF FlatState
      <3>3. new \in InstrumentStates
        BY <3>2 DEF InstrumentStates
      <3>4. WellFormed(new)
        BY <2>3, <3>2, NoneAssumption DEF WellFormed
      <3> QED BY <1>3, <2>2, <3>2, <3>3, <3>4
    <2>4. CASE e.type = "exit" /\ s.state = "holding"
      <3>1. /\ s.pending = NoAction /\ s.position # NoPosition
            /\ s.position \in Positions \cup {NoPosition}
        BY <2>4 DEF WellFormed, FlatState, InstrumentStates
      <3>2. new = [s EXCEPT !.state = "pending_exit", !.pending = e]
        BY <2>1, <2>2, <2>4 DEF OnSignal
      <3>3. new = [state |-> "pending_exit", pending |-> e, position |-> s.position]
        BY <3>2 DEF InstrumentStates
      <3>4. new \in InstrumentStates
        BY <3>1, <3>3 DEF InstrumentStates
      <3>5. WellFormed(new)
        BY <2>4, <3>1, <3>3, NoneAssumption DEF WellFormed
      <3> QED BY <1>3, <2>2, <2>4, <3>1, <3>3, <3>4, <3>5
    <2> QED BY <1>3, <2>1, <2>3, <2>4 DEF OnSignal
  <1>4. CASE e.kind = "opportunity" /\ new # s
    <2>1. new = OnOpportunity(s, e, pairs, evidence)
      BY <1>4 DEF After
    <2>2. /\ Attempts(s, e, pairs)
          /\ Resolve(AttemptFor(s.pending, e), evidence).status = "filled"
      BY <1>4, <2>1 DEF OnOpportunity
    <2>3. s.pending # NoAction /\ s.pending \in Universe
          /\ s.state \in {"pending_entry", "pending_exit"}
      BY <2>2 DEF Attempts, InstrumentStates, WellFormed, FlatState
    <2>4. [opening |-> s.pending, opened |-> e.time] \in Positions
      BY <1>1, <2>3 DEF Positions
    <2>5. new = IF s.state = "pending_entry"
                THEN [state |-> "holding", pending |-> NoAction,
                      position |-> [opening |-> s.pending, opened |-> e.time]]
                ELSE FlatState
      BY <2>1, <2>2 DEF OnOpportunity
    <2>6. CASE s.state = "pending_entry"
      BY <1>4, <2>2, <2>3, <2>4, <2>5, <2>6, NoneAssumption DEF InstrumentStates, WellFormed
    <2>7. CASE s.state # "pending_entry"
      BY <1>4, <2>2, <2>3, <2>5, <2>7 DEF InstrumentStates, WellFormed, FlatState
    <2> QED BY <2>6, <2>7
  <1>5. e.kind \notin {"signal", "opportunity"} => new = s
    BY DEF After
  <1> QED BY <1>1, <1>2, <1>3, <1>4, <1>5

-----------------------------------------------------------------------------
\* A step is the handling of one event, and changes the state of its instrument alone.
LEMMA Stepped ==
    ASSUME Replayed, NEW e, Handle(e)
    PROVE  LET new == After(states[e.instrument], e, Conflicted(events),
                            EligiblePairs(events), quotes)
           IN  /\ e \in events \ done /\ e \in Universe /\ e.instrument \in Instruments
               /\ states[e.instrument] \in InstrumentStates /\ WellFormed(states[e.instrument])
               /\ states' = [states EXCEPT ![e.instrument] = new]
               /\ states'[e.instrument] = new
               /\ \A i \in Instruments \ {e.instrument} : states'[i] = states[i]
               /\ done' = done \cup {e} /\ events' = events /\ quotes' = quotes
  <1>1. e \in events \ done /\ e \in Universe
    BY DEF Handle, IsNext, Replayed, TypeOK
  <1>2. e.instrument \in Instruments
    BY <1>1, EventsAssumption
  <1> QED BY <1>1, <1>2 DEF Handle, Replayed, TypeOK

\* The loop starts with flat instruments and no attempts (lifecycle.py:362).
LEMMA StartsReplayed == Init => Replayed
  BY DEF Init, Replayed, TypeOK, FlatState, WellFormed, InstrumentStates

\* Handling an event keeps the agreement of state, action and position.
LEMMA ReplayedKept == ASSUME Replayed, NEW e, Handle(e) PROVE Replayed'
  <1> DEFINE s == states[e.instrument]
             new == After(s, e, Conflicted(events), EligiblePairs(events), quotes)
  <1>1. /\ e \in events \ done /\ e \in Universe /\ e.instrument \in Instruments
        /\ s \in InstrumentStates /\ WellFormed(s)
        /\ states' = [states EXCEPT ![e.instrument] = new]
        /\ states'[e.instrument] = new
        /\ \A i \in Instruments \ {e.instrument} : states'[i] = states[i]
        /\ done' = done \cup {e} /\ events' = events /\ quotes' = quotes
    BY Stepped
  <1>2. /\ new \in InstrumentStates /\ WellFormed(new)
        /\ \/ new = s
           \/ /\ e.kind = "signal" /\ e \notin Conflicted(events)
              /\ new.pending = e /\ new.position = s.position
           \/ /\ s.state \in {"pending_entry", "pending_exit"}
              /\ new.pending = NoAction
              /\ new.position \in {NoPosition, [opening |-> s.pending, opened |-> e.time]}
    BY <1>1, AfterFits
  <1> HIDE DEF new
  <1>3. states' \in [Instruments -> InstrumentStates]
    BY <1>1, <1>2 DEF Replayed
  <1>4. Signals(done) \subseteq Signals(done') /\ Signals(done)' = Signals(done')
        /\ Conflicted(events)' = Conflicted(events)
        /\ (e.kind = "signal" => e \in Signals(done'))
    BY <1>1 DEF Signals, Conflicted
  <1>5. s.state \in {"pending_entry", "pending_exit"} => s.pending # NoAction
    BY <1>1 DEF WellFormed, FlatState
  <1>6. /\ s.pending # NoAction => s.pending \in Signals(done)
        /\ s.position # NoPosition => s.position.opening \in Signals(done)
        /\ s.pending # NoAction => s.pending.instrument = e.instrument
                                   /\ s.pending \notin Conflicted(events)
    BY <1>1 DEF Replayed, TypeOK
  <1>7. /\ new.pending # NoAction => new.pending \in Signals(done')
        /\ new.position # NoPosition => new.position.opening \in Signals(done')
        /\ new.pending # NoAction => new.pending.instrument = e.instrument
                                     /\ new.pending \notin Conflicted(events)
    BY <1>2, <1>4, <1>5, <1>6
  <1>8. TypeOK'
    <2>1. done' \subseteq events' /\ events' \subseteq Universe
      BY <1>1 DEF Replayed, TypeOK
    <2>2. \A i \in Instruments :
              /\ WellFormed(states'[i])
              /\ states'[i].pending # NoAction => states'[i].pending \in Signals(done')
              /\ states'[i].position # NoPosition => states'[i].position.opening \in Signals(done')
      BY <1>1, <1>2, <1>4, <1>7 DEF Replayed, TypeOK
    <2> QED BY <2>1, <2>2, <1>4 DEF TypeOK, WellFormed
  <1>9. \A i \in Instruments : states'[i].pending # NoAction =>
            states'[i].pending.instrument = i /\ states'[i].pending \notin Conflicted(events)
    BY <1>1, <1>7 DEF Replayed
  <1> QED BY <1>3, <1>4, <1>8, <1>9 DEF Replayed, InstrumentStates

\* Every step of the loop handles one event of the timeline.
LEMMA NextHandles == Next => \E e \in events : Handle(e)
  BY DEF Next, HandleSignal, HandleOpportunity, HandleOther, Signals, Opportunities

\* The agreement holds all along the replay.
LEMMA ReplayedAlways == Spec => []Replayed
  <1>1. ASSUME Replayed, [Next]_vars PROVE Replayed'
    <2>1. CASE Next
      BY <1>1, <2>1, NextHandles, ReplayedKept
    <2>2. CASE UNCHANGED vars
      BY <1>1, <2>2 DEF vars, Replayed, TypeOK, Signals, Conflicted, InstrumentStates, WellFormed
    <2> QED BY <1>1, <2>1, <2>2
  <1> QED BY <1>1, StartsReplayed, PTL DEF Spec

\* InstrumentLifecycleState never raises in process_lifecycle: whatever the events, the
\* states it makes agree in state, action and position (lifecycle.py:146).
THEOREM StatesAgree == Spec => []TypeOK
  <1>1. Replayed => TypeOK
    BY DEF Replayed
  <1> QED BY <1>1, ReplayedAlways, PTL

-----------------------------------------------------------------------------
\* Every attempt is of an unconflicted signal that was handled, at an opportunity of its
\* own that was handled.
Attempted ==
    \A a \in attempts :
        /\ a.action \in Signals(done) \ Conflicted(events)
        /\ a.opportunity \in Opportunities(done)
        /\ <<a.action, a.opportunity>> \in EligiblePairs(events)

\* What was handled comes before what was not.
InOrder == \A e \in done, f \in events \ done : Before(e, f)

\* An attempted action that has not filled is still the pending one.
Remembered ==
    \A a \in attempts :
        \/ \E b \in Fills : b.action = a.action
        \/ states[a.action.instrument].pending = a.action

\* The inductive invariant.
RInv == Replayed /\ Attempted /\ InOrder /\ Remembered /\ NoOpportunitySkipped

\* The attempts after an event: the same, or one more, of the pending action.
LEMMA AttemptsAfter ==
    ASSUME Replayed, NEW e, Handle(e)
    PROVE  LET s == states[e.instrument]
               new == [action |-> s.pending, opportunity |-> e,
                       outcome |-> Resolve(AttemptFor(s.pending, e), quotes)]
           IN  \/ attempts' = attempts /\ ~(e.kind = "opportunity"
                                            /\ Attempts(s, e, EligiblePairs(events)))
               \/ /\ attempts' = attempts \cup {new}
                  /\ e.kind = "opportunity" /\ Attempts(s, e, EligiblePairs(events))
  BY DEF Handle

\* A new attempt is of the pending action, which was handled and is not in conflict.
LEMMA AttemptedKept == ASSUME Replayed, Attempted, NEW e, Handle(e) PROVE Attempted'
  <1> DEFINE s == states[e.instrument]
             new == [action |-> s.pending, opportunity |-> e,
                     outcome |-> Resolve(AttemptFor(s.pending, e), quotes)]
  <1>1. /\ e \in events \ done /\ e.instrument \in Instruments
        /\ done' = done \cup {e} /\ events' = events
    BY Stepped
  <1>2. /\ Signals(done) \subseteq Signals(done)'
        /\ Opportunities(done) \subseteq Opportunities(done)'
        /\ Conflicted(events)' = Conflicted(events)
        /\ EligiblePairs(events)' = EligiblePairs(events)
        /\ e.kind = "opportunity" => e \in Opportunities(done)'
    BY <1>1 DEF Signals, Opportunities, Conflicted, EligiblePairs
  <1>3. CASE attempts' = attempts
    BY <1>2, <1>3 DEF Attempted
  <1>4. CASE /\ attempts' = attempts \cup {new}
             /\ e.kind = "opportunity" /\ Attempts(s, e, EligiblePairs(events))
    <2>1. s.pending \in Signals(done) \ Conflicted(events)
      BY <1>1, <1>4 DEF Attempts, Replayed, TypeOK
    <2>2. /\ new.action \in Signals(done)' \ Conflicted(events)'
          /\ new.opportunity \in Opportunities(done)'
          /\ <<new.action, new.opportunity>> \in EligiblePairs(events)'
      BY <1>2, <1>4, <2>1 DEF Attempts
    <2>3. \A a \in attempts :
              /\ a.action \in Signals(done)' \ Conflicted(events)'
              /\ a.opportunity \in Opportunities(done)'
              /\ <<a.action, a.opportunity>> \in EligiblePairs(events)'
      BY <1>2 DEF Attempted
    <2> HIDE DEF new
    <2> QED BY <1>4, <2>2, <2>3 DEF Attempted
  <1> QED BY <1>3, <1>4, AttemptsAfter

\* The events are handled in their canonical order.
LEMMA OrderKept == ASSUME Replayed, InOrder, NEW e, Handle(e) PROVE InOrder'
  <1>1. IsNext(e) /\ done' = done \cup {e} /\ events' = events
    BY DEF Handle
  <1> QED BY <1>1 DEF InOrder, IsNext

\* Only a fill takes an action away (lifecycle.py:556 to 611): it is kept otherwise.
LEMMA RememberedKept ==
    ASSUME Replayed, Attempted, Remembered, NEW e, Handle(e)
    PROVE  Remembered'
  <1> DEFINE s == states[e.instrument]
             new == After(s, e, Conflicted(events), EligiblePairs(events), quotes)
             attempt == [action |-> s.pending, opportunity |-> e,
                         outcome |-> Resolve(AttemptFor(s.pending, e), quotes)]
  <1>1. /\ e \in Universe /\ e.instrument \in Instruments
        /\ s \in InstrumentStates /\ WellFormed(s)
        /\ states'[e.instrument] = new
        /\ \A i \in Instruments \ {e.instrument} : states'[i] = states[i]
        /\ events \subseteq Universe /\ done \subseteq events
    BY Stepped DEF Replayed, TypeOK
  <1>2. \/ new = s
        \/ s.pending = NoAction
        \/ /\ e.kind = "opportunity" /\ Attempts(s, e, EligiblePairs(events))
           /\ attempt.outcome.status = "filled"
    BY <1>1, AfterFits
  <1>3. \/ attempts' = attempts /\ ~(e.kind = "opportunity"
                                     /\ Attempts(s, e, EligiblePairs(events)))
        \/ attempts' = attempts \cup {attempt}
    BY AttemptsAfter
  <1> HIDE DEF new
  <1>4. ASSUME NEW a \in attempts
        PROVE  \/ \E b \in Fills' : b.action = a.action
               \/ states'[a.action.instrument].pending = a.action
    <2>1. a.action \in Universe /\ a.action.instrument \in Instruments /\ a.action # NoAction
      BY <1>1, EventsAssumption, NoneAssumption DEF Attempted, Signals
    <2>2. Fills \subseteq Fills'
      BY <1>3 DEF Fills
    <2>3. CASE \E b \in Fills : b.action = a.action
      BY <2>2, <2>3
    <2>4. CASE states[a.action.instrument].pending = a.action
      <3>1. CASE a.action.instrument # e.instrument \/ new = s
        BY <1>1, <2>1, <2>4, <3>1
      <3>2. CASE a.action.instrument = e.instrument /\ new # s
        <4>1. attempt \in Fills' /\ attempt.action = a.action
          BY <1>2, <1>3, <2>1, <2>4, <3>2 DEF Fills
        <4> QED BY <4>1
      <3> QED BY <3>1, <3>2
    <2> QED BY <2>3, <2>4 DEF Remembered
  <1>5. CASE attempts' = attempts
    BY <1>4, <1>5 DEF Remembered
  <1>6. CASE /\ attempts' = attempts \cup {attempt}
             /\ e.kind = "opportunity" /\ Attempts(s, e, EligiblePairs(events))
    <2>1. s.pending.instrument = e.instrument
      BY <1>6 DEF Attempts, EligiblePairs
    <2>2. CASE new = s
      BY <1>1, <1>4, <1>6, <2>1, <2>2 DEF Remembered
    <2>3. CASE new # s
      <3>1. attempt \in Fills' /\ attempt.action = s.pending
        BY <1>2, <1>6, <2>3 DEF Fills, Attempts
      <3> QED BY <1>4, <1>6, <3>1 DEF Remembered
    <2> QED BY <2>2, <2>3
  <1> QED BY <1>3, <1>5, <1>6, AttemptsAfter

\* No opportunity is skipped: an action pending or attempted before meets the event; if
\* it has not filled it is pending, so that an eligible opportunity is an attempt.
LEMMA NoneSkipped ==
    ASSUME RInv, NEW e, Handle(e)
    PROVE  NoOpportunitySkipped'
  <1> DEFINE s == states[e.instrument]
             new == After(s, e, Conflicted(events), EligiblePairs(events), quotes)
             attempt == [action |-> s.pending, opportunity |-> e,
                         outcome |-> Resolve(AttemptFor(s.pending, e), quotes)]
             tried == {b.action : b \in attempts} \cup {states[i].pending : i \in Instruments}
  <1> USE DEF RInv
  <1>1. /\ e \in Universe /\ e \in events \ done /\ e.instrument \in Instruments
        /\ s \in InstrumentStates /\ WellFormed(s)
        /\ states'[e.instrument] = new
        /\ \A i \in Instruments \ {e.instrument} : states'[i] = states[i]
        /\ events \subseteq Universe /\ done \subseteq events
        /\ done' = done \cup {e} /\ events' = events
    BY Stepped DEF Replayed, TypeOK
  <1>2. \/ new = s
        \/ e.kind = "signal" /\ new.pending = e
        \/ new.pending = NoAction
    BY <1>1, AfterFits
  <1>3. \/ attempts' = attempts /\ ~(e.kind = "opportunity"
                                     /\ Attempts(s, e, EligiblePairs(events)))
        \/ attempts' = attempts \cup {attempt}
    BY AttemptsAfter
  <1>4. EligiblePairs(events)' = EligiblePairs(events)
        /\ Opportunities(done)' \subseteq Opportunities(done) \cup {e}
    BY <1>1 DEF EligiblePairs, Opportunities, Signals
  <1>5. attempts \subseteq attempts' /\ Fills \subseteq Fills'
    BY <1>3 DEF Fills
  <1> HIDE DEF new
  <1>6. ASSUME NEW a \in tried, a # NoAction,
               NEW o \in Opportunities(done)',
               <<a, o>> \in EligiblePairs(events),
               \A b \in Fills' : b.action = a => ~Before(b.opportunity, o)
        PROVE  \E b \in attempts' : b.action = a /\ b.opportunity = o
    <2>1. CASE o \in Opportunities(done)
      <3>1. \E b \in attempts : b.action = a /\ b.opportunity = o
        BY <1>5, <1>6, <2>1 DEF NoOpportunitySkipped
      <3> QED BY <1>5, <3>1
    <2>2. CASE o = e /\ o \notin Opportunities(done)
      <3>1. a.instrument = e.instrument /\ e.kind = "opportunity"
        BY <1>6, <2>2 DEF EligiblePairs, Opportunities
      <3>2. ~ \E b \in Fills : b.action = a
        <4> SUFFICES ASSUME NEW b \in Fills, b.action = a PROVE FALSE
          OBVIOUS
        <4>1. Before(b.opportunity, e)
          BY <1>1 DEF Attempted, InOrder, Fills, Opportunities
        <4> QED BY <1>5, <1>6, <2>2, <4>1
      <3>3. s.pending = a
        <4>1. CASE \E b \in attempts : b.action = a
          BY <3>1, <3>2, <4>1 DEF Remembered
        <4>2. CASE \E i \in Instruments : states[i].pending = a
          BY <1>6, <3>1, <4>2 DEF Replayed
        <4> QED BY <4>1, <4>2
      <3>4. attempts' = attempts \cup {attempt}
        BY <1>3, <1>6, <2>2, <3>1, <3>3 DEF Attempts
      <3>5. attempt \in attempts' /\ attempt.action = a /\ attempt.opportunity = o
        BY <2>2, <3>3, <3>4
      <3> QED BY <3>5
    <2> QED BY <1>4, <2>1, <2>2
  <1>7. ASSUME NEW o \in Opportunities(done)', <<e, o>> \in EligiblePairs(events)
        PROVE  FALSE
    <2>1. o.time > e.time /\ e.kind = "signal" /\ o \in done /\ o \in Universe
      BY <1>1, <1>4, <1>7 DEF EligiblePairs, Signals, Opportunities
    <2>2. Before(o, e)
      BY <1>1, <2>1 DEF InOrder
    <2> QED BY <1>1, <2>1, <2>2, EventsAssumption DEF Before
  <1>8. {b.action : b \in attempts'} \cup {states'[i].pending : i \in Instruments}
            \subseteq tried \cup {e, NoAction}
    <2>1. \A b \in attempts' : b.action \in tried
      BY <1>1, <1>3
    <2>2. \A i \in Instruments : states'[i].pending \in tried \cup {e, NoAction}
      BY <1>1, <1>2
    <2> QED BY <2>1, <2>2
  <1> HIDE DEF tried
  <1>9. ASSUME NEW a \in tried \cup {e, NoAction}, a # NoAction,
               NEW o \in Opportunities(done)',
               <<a, o>> \in EligiblePairs(events)',
               \A b \in Fills' : b.action = a => ~Before(b.opportunity, o)
        PROVE  \E b \in attempts' : b.action = a /\ b.opportunity = o
    BY <1>4, <1>6, <1>7, <1>9
  <1> QED BY <1>8, <1>9 DEF NoOpportunitySkipped

\* The inductive invariant holds all along the replay.
LEMMA RInvAlways == Spec => []RInv
  <1>1. Init => RInv
    BY StartsReplayed
    DEF Init, RInv, Attempted, InOrder, Remembered, NoOpportunitySkipped, FlatState,
        Opportunities
  <1>2. ASSUME RInv, [Next]_vars PROVE RInv'
    <2>1. ASSUME NEW e \in events, Handle(e) PROVE RInv'
      BY <1>2, <2>1, ReplayedKept, AttemptedKept, OrderKept, RememberedKept, NoneSkipped
      DEF RInv
    <2>2. CASE UNCHANGED vars
      <3>1. Replayed'
        BY <1>2, <2>2
        DEF vars, RInv, Replayed, TypeOK, Signals, Conflicted, InstrumentStates, WellFormed
      <3>2. Attempted' /\ InOrder' /\ Remembered'
        BY <1>2, <2>2
        DEF vars, RInv, Attempted, InOrder, Remembered, Fills, Signals, Opportunities,
            Conflicted, EligiblePairs
      <3>3. NoOpportunitySkipped'
        BY <1>2, <2>2
        DEF vars, RInv, NoOpportunitySkipped, Fills, Signals, Opportunities, EligiblePairs
      <3> QED BY <3>1, <3>2, <3>3 DEF RInv
    <2> QED BY <1>2, <2>1, <2>2, NextHandles
  <1> QED BY <1>1, <1>2, PTL DEF Spec

\* Retry without limit: whatever the quotes, an action meets every opportunity between
\* its signal and its fill, and each meeting is an attempt (lifecycle.py:556 to 611).
THEOREM OpportunitiesAreTried == Spec => []NoOpportunitySkipped
  <1>1. RInv => NoOpportunitySkipped
    BY DEF RInv
  <1> QED BY <1>1, RInvAlways, PTL

\* Of opposite signals at one instant neither is ever pending or attempted, so that the
\* order of their identifiers decides nothing (lifecycle.py:254 to 271).
THEOREM ConflictsAreInert == Spec => []ConflictsActOnNothing
  <1>1. ASSUME RInv, NEW x \in Signals(events), NEW y \in Signals(events),
               x.time = y.time, x.instrument = y.instrument, x.type # y.type
        PROVE  /\ \A a \in attempts : a.action \notin {x, y}
               /\ states[x.instrument].pending \notin {x, y}
    <2>1. x \in Conflicted(events) /\ y \in Conflicted(events)
      BY <1>1 DEF Conflicted
    <2>2. x.instrument \in Instruments /\ x # NoAction /\ y # NoAction
      BY <1>1, EventsAssumption, NoneAssumption DEF RInv, Replayed, TypeOK, Signals
    <2> QED BY <1>1, <2>1, <2>2 DEF RInv, Attempted, Replayed
  <1>2. RInv => ConflictsActOnNothing
    BY <1>1 DEF ConflictsActOnNothing
  <1> QED BY <1>2, RInvAlways, PTL

-----------------------------------------------------------------------------
\* Handling an event is a step of the cycle of its instrument, or none.
LEMMA CycleStep == ASSUME Replayed, InOrder, NEW e, Handle(e) PROVE [Cycle!Next]_(Cycle!cycle)
  <1> DEFINE i == e.instrument
             s == states[i]
             new == After(s, e, Conflicted(events), EligiblePairs(events), quotes)
             phase == [j \in Instruments |-> states[j].state]
             due == [j \in Instruments |->
                        IF states[j].pending = NoAction THEN 0 ELSE states[j].pending.time]
             reached == {f.time : f \in done}
  <1>1. /\ e \in Universe /\ i \in Instruments
        /\ s \in InstrumentStates /\ WellFormed(s)
        /\ states'[i] = new
        /\ \A j \in Instruments \ {i} : states'[j] = states[j]
    BY Stepped
  <1>2. \/ new = s
        \/ /\ s.state \in {"flat", "holding"} /\ s.pending = NoAction
           /\ new.state = IF s.state = "flat" THEN "pending_entry" ELSE "pending_exit"
           /\ new.pending = e
        \/ /\ Attempts(s, e, EligiblePairs(events))
           /\ s.state \in {"pending_entry", "pending_exit"}
           /\ new.state = IF s.state = "pending_entry" THEN "holding" ELSE "flat"
           /\ new.pending = NoAction
    BY <1>1, AfterFits
  <1> HIDE DEF new
  <1>3. e.time \in {f.time : f \in Universe} /\ e # NoAction
    BY <1>1, NoneAssumption
  <1>4. (\A u \in reached : u <= e.time) /\ reached' = reached \cup {e.time}
    <2>1. \A f \in done : f \in Universe /\ Before(f, e)
      BY Stepped DEF InOrder, Replayed, TypeOK
    <2>2. \A f \in done : f.time <= e.time
      BY <1>1, <2>1, EventsAssumption DEF Before
    <2>3. done' = done \cup {e}
      BY DEF Handle
    <2> QED BY <2>2, <2>3
  <1>5. CASE new = s
    <2>1. phase' = phase /\ due' = due
      BY <1>1, <1>5
    <2> QED BY <1>3, <1>4, <2>1 DEF Cycle!Next, Cycle!Pass, Cycle!Reaches
  <1>6. CASE /\ s.state \in {"flat", "holding"} /\ s.pending = NoAction
             /\ new.state = IF s.state = "flat" THEN "pending_entry" ELSE "pending_exit"
             /\ new.pending = e
    <2>1. phase' = [phase EXCEPT ![i] = IF @ = "flat" THEN "pending_entry" ELSE "pending_exit"]
      BY <1>1, <1>6
    <2>2. due' = [due EXCEPT ![i] = e.time]
      BY <1>1, <1>3, <1>6
    <2>3. phase[i] \in {"flat", "holding"}
      BY <1>1, <1>6
    <2> QED BY <1>1, <1>3, <1>4, <2>1, <2>2, <2>3 DEF Cycle!Next, Cycle!Propose, Cycle!Reaches
  <1>7. CASE /\ Attempts(s, e, EligiblePairs(events))
             /\ s.state \in {"pending_entry", "pending_exit"}
             /\ new.state = IF s.state = "pending_entry" THEN "holding" ELSE "flat"
             /\ new.pending = NoAction
    <2>1. phase' = [phase EXCEPT ![i] = IF @ = "pending_entry" THEN "holding" ELSE "flat"]
      BY <1>1, <1>7
    <2>2. due' = [due EXCEPT ![i] = 0]
      BY <1>1, <1>7
    <2>3. phase[i] \in {"pending_entry", "pending_exit"} /\ e.time > due[i]
      BY <1>1, <1>7 DEF Attempts, EligiblePairs
    <2> QED BY <1>1, <1>3, <1>4, <2>1, <2>2, <2>3 DEF Cycle!Next, Cycle!Execute, Cycle!Reaches
  <1> QED BY <1>2, <1>5, <1>6, <1>7

\* process_lifecycle implements the cycle of PositionCycle for every timeline and every
\* history of quotes: nothing pyramids or is sold twice, and the event that executes an
\* action is of a later instant than its signal (lifecycle.py:370 to 624).
THEOREM ReplayImplementsCycle == Spec => ImplementsCycle
  <1>1. Init => Cycle!Init
    BY DEF Init, Cycle!Init, FlatState
  <1>2. ASSUME RInv, [Next]_vars PROVE [Cycle!Next]_(Cycle!cycle)
    <2>1. CASE Next
      BY <1>2, <2>1, NextHandles, CycleStep DEF RInv
    <2>2. CASE UNCHANGED vars
      BY <2>2 DEF vars, Cycle!cycle
    <2> QED BY <1>2, <2>1, <2>2
  <1> QED BY <1>1, <1>2, RInvAlways, PTL DEF Spec, ImplementsCycle, Cycle!Spec

-----------------------------------------------------------------------------
Time(a) == a.opportunity.time
Entries(F) == {a \in F : a.action.type = "entry"}

\* Fills of one instant do not occur, and of one direction do not follow one another.
Alternate(F) ==
    \A a, b \in F :
        /\ a # b => Time(a) # Time(b)
        /\ a.action.type = b.action.type /\ Time(a) < Time(b)
           => \E c \in F : /\ Time(a) < Time(c) /\ Time(c) < Time(b)
                           /\ c.action.type # a.action.type

\* The last fill opened the position; entries are one ahead.
OpenOn(F, position) ==
    /\ \E a \in Entries(F) :
          /\ a.action = position.opening /\ Time(a) = position.opened
          /\ \A b \in F : Time(b) <= Time(a)
    /\ 2 * Cardinality(Entries(F)) = Cardinality(F) + 1

\* Every entry was followed by an exit, one for one.
ClosedOn(F) ==
    /\ \A a \in Entries(F) : \E c \in F \ Entries(F) : Time(a) < Time(c)
    /\ 2 * Cardinality(Entries(F)) = Cardinality(F)

\* What the fills F of an instrument and its state s have to do with one another.
Turns(F, s) ==
    /\ IsFiniteSet(F) /\ \A a \in F : Time(a) \in Int
    /\ s.pending # NoAction => \A a \in F : Time(a) <= s.pending.time
    /\ Alternate(F)
    /\ IF s.position # NoPosition THEN OpenOn(F, s.position) ELSE ClosedOn(F)

-----------------------------------------------------------------------------
\* A fill that is later than all others makes one more entry, or one more fill only.
LEMMA CountedOnce ==
    ASSUME NEW F, IsFiniteSet(F), NEW a, a \notin F
    PROVE  /\ IsFiniteSet(F \cup {a}) /\ Cardinality(F \cup {a}) = Cardinality(F) + 1
           /\ Cardinality(F) \in Nat /\ Cardinality(Entries(F)) \in Nat
           /\ a.action.type = "entry" =>
                 Cardinality(Entries(F \cup {a})) = Cardinality(Entries(F)) + 1
           /\ a.action.type # "entry" => Entries(F \cup {a}) = Entries(F)
<1>1. IsFiniteSet(Entries(F))
  BY FS_Subset DEF Entries
<1>2. a.action.type = "entry" => Entries(F \cup {a}) = Entries(F) \cup {a}
  BY DEF Entries
<1>3. a.action.type # "entry" => Entries(F \cup {a}) = Entries(F)
  BY DEF Entries
<1>4. a \notin Entries(F)
  BY DEF Entries
<1>5. Cardinality(Entries(F) \cup {a}) = Cardinality(Entries(F)) + 1
  BY <1>1, <1>4, FS_AddElement
<1>6. IsFiniteSet(F \cup {a}) /\ Cardinality(F \cup {a}) = Cardinality(F) + 1
  BY FS_AddElement
<1>7. Cardinality(F) \in Nat /\ Cardinality(Entries(F)) \in Nat
  BY <1>1, FS_CardinalityType
<1> QED BY <1>2, <1>3, <1>5, <1>6, <1>7

\* An event that fills nothing keeps the turns, if a new action is newer than the fills.
LEMMA TurnsKept ==
    ASSUME NEW F, NEW s, NEW new, Turns(F, s), new.position = s.position,
           \/ new.pending = s.pending
           \/ new.pending # NoAction => \A a \in F : Time(a) <= new.pending.time
    PROVE  Turns(F, new)
BY DEF Turns

\* A filled entry takes the turn of an instrument without a position.
LEMMA EntryTaken ==
    ASSUME NEW F, NEW s, NEW a, NEW new, Turns(F, s), s.pending # NoAction,
           s.position = NoPosition, a.action = s.pending, a.action.type = "entry",
           s.pending.time \in Int, Time(a) \in Int, Time(a) > s.pending.time,
           new.pending = NoAction, new.position # NoPosition,
           new.position = [opening |-> a.action, opened |-> Time(a)]
    PROVE  Turns(F \cup {a}, new)
<1>1. /\ IsFiniteSet(F) /\ Alternate(F) /\ ClosedOn(F)
      /\ \A b \in F : Time(b) \in Int /\ Time(b) < Time(a)
  BY DEF Turns
<1>2. a \notin F
  BY <1>1
<1>3. Alternate(F \cup {a})
  <2> SUFFICES ASSUME NEW b \in F \cup {a}, NEW d \in F \cup {a}
               PROVE  /\ b # d => Time(b) # Time(d)
                      /\ b.action.type = d.action.type /\ Time(b) < Time(d)
                         => \E c \in F \cup {a} :
                               /\ Time(b) < Time(c) /\ Time(c) < Time(d)
                               /\ c.action.type # b.action.type
    BY DEF Alternate
  <2>1. CASE b \in F /\ d \in F
    BY <1>1, <2>1 DEF Alternate
  <2>2. CASE b \in F /\ d = a
    <3>1. ASSUME b.action.type = "entry"
          PROVE  \E c \in F : Time(b) < Time(c) /\ c.action.type # "entry"
      BY <1>1, <2>2, <3>1 DEF ClosedOn, Entries
    <3> QED BY <1>1, <2>2, <3>1
  <2>3. CASE b = a
    BY <1>1, <2>3
  <2> QED BY <2>1, <2>2, <2>3
<1>4. OpenOn(F \cup {a}, new.position)
  <2>1. 2 * Cardinality(Entries(F \cup {a})) = Cardinality(F \cup {a}) + 1
    BY <1>1, <1>2, CountedOnce DEF ClosedOn
  <2>2. a \in Entries(F \cup {a}) /\ \A b \in F \cup {a} : Time(b) <= Time(a)
    BY <1>1 DEF Entries
  <2> QED BY <2>1, <2>2 DEF OpenOn
<1>5. IsFiniteSet(F \cup {a})
  BY <1>1, <1>2, CountedOnce
<1> QED BY <1>1, <1>3, <1>4, <1>5 DEF Turns

\* A filled exit takes the turn of an instrument that has a position.
LEMMA ExitTaken ==
    ASSUME NEW F, NEW s, NEW a, NEW new, Turns(F, s), s.pending # NoAction,
           s.position # NoPosition, a.action = s.pending, a.action.type = "exit",
           s.pending.time \in Int, Time(a) \in Int, Time(a) > s.pending.time,
           new.pending = NoAction, new.position = NoPosition
    PROVE  Turns(F \cup {a}, new)
<1>1. /\ IsFiniteSet(F) /\ Alternate(F) /\ OpenOn(F, s.position)
      /\ \A b \in F : Time(b) \in Int /\ Time(b) < Time(a)
  BY DEF Turns
<1>2. a \notin F
  BY <1>1
<1>3. PICK o \in F : o.action.type = "entry" /\ \A b \in F : Time(b) <= Time(o)
  BY <1>1 DEF OpenOn, Entries
<1>4. Alternate(F \cup {a})
  <2> SUFFICES ASSUME NEW b \in F \cup {a}, NEW d \in F \cup {a}
               PROVE  /\ b # d => Time(b) # Time(d)
                      /\ b.action.type = d.action.type /\ Time(b) < Time(d)
                         => \E c \in F \cup {a} :
                               /\ Time(b) < Time(c) /\ Time(c) < Time(d)
                               /\ c.action.type # b.action.type
    BY DEF Alternate
  <2>1. CASE b \in F /\ d \in F
    BY <1>1, <2>1 DEF Alternate
  <2>2. CASE b \in F /\ d = a
    <3>1. ASSUME b.action.type = "exit"
          PROVE  Time(b) < Time(o) /\ Time(o) < Time(a)
      <4>1. b # o /\ Time(b) # Time(o)
        BY <1>1, <1>3, <2>2, <3>1 DEF Alternate
      <4> QED BY <1>1, <1>3, <2>2, <4>1
    <3> QED BY <1>1, <1>3, <2>2, <3>1
  <2>3. CASE b = a
    BY <1>1, <2>3
  <2> QED BY <2>1, <2>2, <2>3
<1>5. ClosedOn(F \cup {a})
  <2>1. 2 * Cardinality(Entries(F \cup {a})) = Cardinality(F \cup {a})
    BY <1>1, <1>2, CountedOnce DEF OpenOn
  <2>2. a \in (F \cup {a}) \ Entries(F \cup {a})
    BY DEF Entries
  <2>3. \A b \in Entries(F \cup {a}) : Time(b) < Time(a)
    BY <1>1, <2>2 DEF Entries
  <2> QED BY <2>1, <2>2, <2>3 DEF ClosedOn
<1>6. IsFiniteSet(F \cup {a})
  BY <1>1, <1>2, CountedOnce
<1> QED BY <1>1, <1>4, <1>5, <1>6 DEF Turns

-----------------------------------------------------------------------------
FillsOf(i) == {a \in Fills : a.action.instrument = i}

\* The inductive invariant: of every instrument, fills and state take turns.
TInv == RInv /\ \A i \in Instruments : Turns(FillsOf(i), states[i])

\* No instrument has filled at the start.
LEMMA StartsInTurn == Init => \A i \in Instruments : Turns(FillsOf(i), states[i])
<1> SUFFICES ASSUME Init, NEW i \in Instruments PROVE Turns(FillsOf(i), states[i])
  OBVIOUS
<1>1. FillsOf(i) = {} /\ states[i] = FlatState /\ Entries({}) = {}
  BY DEF Init, FillsOf, Fills, Entries
<1>2. IsFiniteSet({}) /\ Cardinality({}) = 0
  BY FS_EmptySet
<1> QED BY <1>1, <1>2 DEF Turns, Alternate, ClosedOn, FlatState

\* Handling an event is a turn of its instrument, or none (lifecycle.py:500 to 611).
LEMMA TurnsTaken ==
    ASSUME TInv, NEW e, Handle(e), NEW i \in Instruments
    PROVE  Turns(FillsOf(i), states[i])'
<1> DEFINE s == states[e.instrument]
           new == After(s, e, Conflicted(events), EligiblePairs(events), quotes)
           attempt == [action |-> s.pending, opportunity |-> e,
                       outcome |-> Resolve(AttemptFor(s.pending, e), quotes)]
           F == FillsOf(e.instrument)
<1>1. /\ e \in Universe /\ e \in events \ done /\ e.instrument \in Instruments
      /\ s \in InstrumentStates /\ WellFormed(s)
      /\ states'[e.instrument] = new
      /\ \A j \in Instruments \ {e.instrument} : states'[j] = states[j]
      /\ events \subseteq Universe /\ done \subseteq events
  BY Stepped DEF TInv, RInv, Replayed, TypeOK
<1>2. /\ new \in InstrumentStates /\ WellFormed(new)
      /\ \/ new = s
         \/ /\ e.kind = "signal" /\ new.pending = e /\ new.position = s.position
         \/ /\ e.kind = "opportunity" /\ Attempts(s, e, EligiblePairs(events))
            /\ attempt.outcome.status = "filled"
            /\ s.state \in {"pending_entry", "pending_exit"}
            /\ new.state = IF s.state = "pending_entry" THEN "holding" ELSE "flat"
            /\ new.pending = NoAction
            /\ new.position \in {NoPosition, [opening |-> s.pending, opened |-> e.time]}
  BY <1>1, AfterFits
<1>3. \/ attempts' = attempts /\ ~(e.kind = "opportunity"
                                   /\ Attempts(s, e, EligiblePairs(events)))
      \/ attempts' = attempts \cup {attempt}
  BY AttemptsAfter DEF TInv, RInv
<1>4. \A a \in F : Time(a) \in Int /\ Time(a) <= e.time
  <2> SUFFICES ASSUME NEW a \in F PROVE Time(a) \in Int /\ Time(a) <= e.time
    OBVIOUS
  <2>1. a.opportunity \in done /\ a.opportunity \in Universe
    BY <1>1 DEF FillsOf, Fills, TInv, RInv, Attempted, Opportunities
  <2>2. Before(a.opportunity, e)
    BY <1>1, <2>1 DEF TInv, RInv, InOrder
  <2> QED BY <1>1, <2>1, <2>2, EventsAssumption DEF Before, Time
<1>5. Turns(F, s)
  BY <1>1 DEF TInv
<1>6. s.pending # NoAction => s.pending.instrument = e.instrument /\ s.pending \in Universe
  BY <1>1 DEF TInv, RInv, Replayed, TypeOK, InstrumentStates
<1> HIDE DEF new
<1>7. CASE i # e.instrument
  <2>1. ASSUME attempts' # attempts PROVE s.pending # NoAction
    <3>1. attempts' = attempts \cup {attempt} /\ Attempts(s, e, EligiblePairs(events))
      BY <2>1, AttemptsAfter DEF TInv, RInv
    <3> QED BY <3>1 DEF Attempts
  <2>2. FillsOf(i)' = FillsOf(i)
    BY <1>3, <1>6, <1>7, <2>1 DEF FillsOf, Fills
  <2> QED BY <1>1, <1>7, <2>2 DEF TInv
<1>8. CASE i = e.instrument /\ FillsOf(i)' = F
  <2>1. \/ new = s
        \/ new.pending = e /\ new.position = s.position
    <3>1. CASE /\ e.kind = "opportunity" /\ Attempts(s, e, EligiblePairs(events))
               /\ attempt.outcome.status = "filled"
      <4>1. attempts' = attempts \cup {attempt}
        BY <1>3, <3>1
      <4>2. attempt \in FillsOf(i)'
        BY <1>6, <1>8, <3>1, <4>1 DEF FillsOf, Fills, Attempts
      <4>3. attempt \in F /\ Time(attempt) = e.time
        BY <1>8, <4>2 DEF Time
      <4>4. attempt.opportunity \in done
        BY <4>3 DEF FillsOf, Fills, TInv, RInv, Attempted, Opportunities
      <4> QED BY <1>1, <4>4
    <3> QED BY <1>2, <3>1
  <2>2. Turns(F, new)
    <3>1. CASE new = s
      BY <1>5, <3>1
    <3>2. CASE new.pending = e /\ new.position = s.position
      BY <1>4, <1>5, <3>2, TurnsKept
    <3> QED BY <2>1, <3>1, <3>2
  <2> QED BY <1>1, <1>8, <2>2
<1>9. CASE i = e.instrument /\ FillsOf(i)' # F
  <2>1. /\ attempts' = attempts \cup {attempt} /\ attempt.outcome.status = "filled"
        /\ e.kind = "opportunity" /\ Attempts(s, e, EligiblePairs(events))
    <3>1. attempts' # attempts
      BY <1>9 DEF FillsOf, Fills
    <3>2. /\ attempts' = attempts \cup {attempt}
          /\ e.kind = "opportunity" /\ Attempts(s, e, EligiblePairs(events))
      BY <3>1, AttemptsAfter DEF TInv, RInv
    <3>3. attempt.outcome.status = "filled"
      BY <1>9, <3>2 DEF FillsOf, Fills
    <3> QED BY <3>2, <3>3
  <2>2. s.pending # NoAction /\ e.time > s.pending.time /\ s.pending.time \in Int
        /\ e.time \in Int
    BY <1>1, <1>6, <2>1, EventsAssumption DEF Attempts, EligiblePairs
  <2>3. FillsOf(i)' = F \cup {attempt}
    BY <1>6, <1>9, <2>1, <2>2 DEF FillsOf, Fills
  <2>4. attempt.action = s.pending /\ Time(attempt) = e.time
    BY DEF Time
  <2>5. new # s
    <3>1. new = OnOpportunity(s, e, EligiblePairs(events), quotes)
      BY <2>1 DEF new, After
    <3>2. new = IF s.state = "pending_entry"
                THEN [state |-> "holding", pending |-> NoAction,
                      position |-> [opening |-> s.pending, opened |-> e.time]]
                ELSE FlatState
      BY <2>1, <3>1 DEF OnOpportunity
    <3>3. new.pending = NoAction
      BY <3>2 DEF FlatState
    <3> QED BY <2>2, <3>3
  <2>6. /\ s.state \in {"pending_entry", "pending_exit"}
        /\ new.state = IF s.state = "pending_entry" THEN "holding" ELSE "flat"
        /\ new.pending = NoAction
        /\ new.position \in {NoPosition, [opening |-> s.pending, opened |-> e.time]}
    BY <1>2, <2>1, <2>5
  <2> HIDE DEF attempt, F
  <2>7. CASE s.state = "pending_entry"
    <3>1. s.position = NoPosition /\ s.pending.type = "entry"
      BY <1>1, <2>2, <2>7 DEF WellFormed, FlatState
    <3>2. new.position # NoPosition
      BY <1>2, <2>6, <2>7 DEF WellFormed, FlatState
    <3>3. new.position = [opening |-> attempt.action, opened |-> Time(attempt)]
      BY <2>4, <2>6, <3>2
    <3>4. Turns(F \cup {attempt}, new)
      BY <1>5, <2>2, <2>4, <2>6, <3>1, <3>2, <3>3, EntryTaken
    <3> QED BY <1>1, <1>9, <2>3, <3>4
  <2>8. CASE s.state = "pending_exit"
    <3>1. s.position # NoPosition /\ s.pending.type = "exit"
      BY <1>1, <2>2, <2>8 DEF WellFormed, FlatState
    <3>2. new.position = NoPosition
      BY <1>2, <2>6, <2>8 DEF WellFormed, FlatState
    <3>3. Turns(F \cup {attempt}, new)
      BY <1>5, <2>2, <2>4, <2>6, <3>1, <3>2, ExitTaken
    <3> QED BY <1>1, <1>9, <2>3, <3>3
  <2> QED BY <2>6, <2>7, <2>8
<1> QED BY <1>7, <1>8, <1>9

LEMMA TInvAlways == Spec => []TInv
<1>1. Init => \A i \in Instruments : Turns(FillsOf(i), states[i])
  BY StartsInTurn
<1>2. ASSUME TInv, [Next]_vars
      PROVE  \A i \in Instruments : Turns(FillsOf(i), states[i])'
  <2>1. ASSUME NEW e \in events, Handle(e)
        PROVE  \A i \in Instruments : Turns(FillsOf(i), states[i])'
    BY <1>2, <2>1, TurnsTaken
  <2>2. CASE UNCHANGED vars
    BY <1>2, <2>2 DEF vars, TInv, FillsOf, Fills
  <2> QED BY <1>2, <2>1, <2>2, NextHandles
<1>3. DEFINE T == \A i \in Instruments : Turns(FillsOf(i), states[i])
<1>4. RInv /\ T /\ [Next]_vars => T'
  BY <1>2 DEF TInv
<1>5. Init => T
  BY <1>1
<1> HIDE DEF T
<1>6. Spec => []T
  BY <1>4, <1>5, RInvAlways, PTL DEF Spec
<1>7. RInv /\ T => TInv
  BY DEF TInv, T
<1> QED BY <1>6, <1>7, RInvAlways, PTL

\* Entries and exits of an instrument take turns, for every timeline and every history of
\* quotes: nothing pyramids and nothing is sold twice (lifecycle.py:374 to 611).
THEOREM EntriesAndExitsTakeTurns == Spec => []FillsAlternate
<1>1. ASSUME TInv, NEW i \in Instruments
      PROVE  LET fills == {a \in Fills : a.action.instrument = i}
                 entries == {a \in fills : a.action.type = "entry"}
                 Within(a, b) == {c \in fills : a.opportunity.time < c.opportunity.time
                                                /\ c.opportunity.time < b.opportunity.time}
             IN  /\ \A a, b \in fills :
                       /\ a # b => a.opportunity.time # b.opportunity.time
                       /\ a.action.type = b.action.type
                          /\ a.opportunity.time < b.opportunity.time
                          => \E c \in Within(a, b) : c.action.type # a.action.type
                 /\ states[i].position # NoPosition =>
                       \E a \in entries :
                           /\ a.action = states[i].position.opening
                           /\ a.opportunity.time = states[i].position.opened
                           /\ \A b \in fills : b.opportunity.time <= a.opportunity.time
                 /\ states[i].position = NoPosition =>
                       2 * Cardinality(entries) = Cardinality(fills)
  <2>1. Turns(FillsOf(i), states[i])
    BY <1>1 DEF TInv
  <2>2. Alternate(FillsOf(i))
    BY <2>1 DEF Turns
  <2>3. states[i].position # NoPosition => OpenOn(FillsOf(i), states[i].position)
    BY <2>1 DEF Turns
  <2>4. states[i].position = NoPosition => ClosedOn(FillsOf(i))
    BY <2>1 DEF Turns
  <2> QED BY <2>2, <2>3, <2>4 DEF Alternate, OpenOn, ClosedOn, Entries, FillsOf, Time
<1>2. TInv => FillsAlternate
  BY <1>1 DEF FillsAlternate
<1> QED BY <1>2, TInvAlways, PTL

-----------------------------------------------------------------------------
\* A newest event is handled last: the order of the others does not depend on it.
LEMMA OrderedAppend ==
    ASSUME NEW S, IsFiniteSet(S), NEW e, e \notin S, ~Before(e, e),
           \A f \in S : Before(f, e) /\ ~Before(e, f) /\ ~Before(f, f)
    PROVE  Ordered(S \cup {e}) = Append(Ordered(S), e)
<1> DEFINE n == Cardinality(S)
           T == S \cup {e}
           Rank(U, x) == Cardinality({y \in U : Before(y, x)})
           At(U, k) == CHOOSE x \in U : Rank(U, x) = k - 1
<1>1. n \in Nat /\ Cardinality(T) = n + 1
  BY FS_CardinalityType, FS_AddElement
<1>2. \A x \in S : Rank(T, x) = Rank(S, x) /\ Rank(S, x) \in Nat
  <2>1. ASSUME NEW x \in S PROVE {y \in T : Before(y, x)} = {y \in S : Before(y, x)}
    BY <2>1
  <2>2. ASSUME NEW x \in S PROVE Rank(S, x) \in Nat
    BY FS_CardinalityType, FS_Subset
  <2>3. QED
    BY <2>1, <2>2
<1>3. Rank(T, e) = n
  <2>1. {y \in T : Before(y, e)} = S
    OBVIOUS
  <2>2. QED
    BY <2>1
<1>4. \A x \in S : Rank(S, x) < n
  <2>1. TAKE x \in S
  <2>2. {y \in S : Before(y, x)} \subseteq S \ {x}
    BY <2>1
  <2>3. Cardinality(S \ {x}) = n - 1 /\ IsFiniteSet(S \ {x})
    BY FS_RemoveElement
  <2>4. QED
    BY <1>1, <1>2, <2>2, <2>3, FS_Subset
<1>5. ASSUME NEW k \in 1 .. n
      PROVE  At(T, k) = At(S, k)
  <2>1. \A x : (x \in T /\ Rank(T, x) = k - 1) <=> (x \in S /\ Rank(S, x) = k - 1)
    <3>1. n # k - 1
      BY <1>1, <1>5
    <3> HIDE DEF n, Rank
    <3>2. QED
      BY <1>2, <1>3, <3>1
  <2> HIDE DEF Rank, T
  <2>2. QED
    BY <2>1, Zenon
<1>6. At(T, n + 1) = e
  <2>1. \A x : (x \in T /\ Rank(T, x) = (n + 1) - 1) <=> x = e
    <3>1. (n + 1) - 1 = n
      BY <1>1
    <3>2. \A x \in S : Rank(S, x) # n
      BY <1>1, <1>2, <1>4
    <3> HIDE DEF n, Rank
    <3>3. QED
      BY <1>2, <1>3, <3>1, <3>2
  <2> HIDE DEF Rank, T, n
  <2>2. QED
    BY <2>1
<1>7. Ordered(S) = [k \in 1 .. n |-> At(S, k)] /\ Ordered(T) = [k \in 1 .. n + 1 |-> At(T, k)]
  BY <1>1 DEF Ordered, Sorted
<1> HIDE DEF n, At, T
<1>8. Append(Ordered(S), e) = [k \in 1 .. n + 1 |-> IF k = n + 1 THEN e ELSE Ordered(S)[k]]
  BY <1>1, <1>7
<1>9. Append(Ordered(S), e) = Ordered(T)
  BY <1>1, <1>5, <1>6, <1>7, <1>8
<1>10. QED
  BY <1>9 DEF T
\* The fold of process_lifecycle, event by event.
Events == INSTANCE FoldLemmas WITH op <- Handled

\* The instants of the timeline, and the replay of what was handled as if timeline and
\* quotes ended with one of them.
UpTo(t) == {e \in events : e.time <= t}
QuotesUpTo(t) == {q \in quotes : q.availability <= t}

Replay(t, s) ==
    [states |-> s, conflicted |-> Conflicted(UpTo(t)), pairs |-> EligiblePairs(UpTo(t)),
     quotes |-> QuotesUpTo(t)]

NoneSeen == [i \in Instruments |-> FlatState]

\* However much later the timeline may go on, the states are those of the replay.
Replays ==
    /\ quotes \subseteq QuoteUniverse
    /\ IsFiniteSet(done) /\ Ordered(done) \in Seq(Universe)
    /\ \A t \in {e.time : e \in events} :
          done \subseteq UpTo(t) =>
              Events!Fold(Replay(t, NoneSeen), Ordered(done)) = Replay(t, states)

\* The newest legal quote of an attempt is among those known at its time.
LEMMA ResolveUpTo ==
    ASSUME NEW t \in Int, NEW attempt, attempt.time \in Int, attempt.time <= t,
           quotes \subseteq QuoteUniverse
    PROVE  Resolve(attempt, QuotesUpTo(t)) = Resolve(attempt, quotes)
<1>1. Legal(attempt, QuotesUpTo(t)) = Legal(attempt, quotes)
  BY QuotesAssumption DEF Legal, QuotesUpTo
<1>2. QED
  BY <1>1 DEF Resolve

\* What an event does to a state that knows only events handled before does not depend on
\* anything later.
LEMMA AfterUpTo ==
    ASSUME Replayed, NEW e \in events \ done, NEW t \in Int, done \cup {e} \subseteq UpTo(t),
           quotes \subseteq QuoteUniverse
    PROVE  LET s == states[e.instrument] IN
           After(s, e, Conflicted(UpTo(t)), EligiblePairs(UpTo(t)), QuotesUpTo(t))
               = After(s, e, Conflicted(events), EligiblePairs(events), quotes)
<1> DEFINE s == states[e.instrument]
<1>1. /\ e \in Universe /\ e.time \in Int /\ e.time <= t /\ e.instrument \in Instruments
      /\ s.pending # NoAction => s.pending \in Signals(done)
  BY EventsAssumption DEF Replayed, TypeOK, UpTo
<1>2. e.kind = "signal" => (e \in Conflicted(UpTo(t)) <=> e \in Conflicted(events))
  BY <1>1 DEF Conflicted, Signals, UpTo
<1>3. Attempts(s, e, EligiblePairs(UpTo(t))) <=> Attempts(s, e, EligiblePairs(events))
  <2>1. CASE s.pending # NoAction
    <3>1. s.pending \in UpTo(t) /\ s.pending \in events /\ e \in UpTo(t)
      BY <1>1, <2>1 DEF Signals, UpTo
    <3>2. QED
      BY <3>1 DEF Attempts, EligiblePairs, Signals, Opportunities
  <2>2. QED
    BY <2>1 DEF Attempts
<1>4. Resolve(AttemptFor(s.pending, e), QuotesUpTo(t)) = Resolve(AttemptFor(s.pending, e), quotes)
  BY <1>1, ResolveUpTo DEF AttemptFor
<1> HIDE DEF s
<1>5. e.kind = "signal" => OnSignal(s, e, Conflicted(UpTo(t))) = OnSignal(s, e, Conflicted(events))
  BY <1>2 DEF OnSignal
<1>6. OnOpportunity(s, e, EligiblePairs(UpTo(t)), QuotesUpTo(t))
        = OnOpportunity(s, e, EligiblePairs(events), quotes)
  BY <1>3, <1>4 DEF OnOpportunity
<1>7. QED
  BY <1>5, <1>6 DEF After, s

LEMMA ReplaysKept ==
    ASSUME Replayed, InOrder, Replays, NEW e, Handle(e)
    PROVE  Replays'
<1> DEFINE new == After(states[e.instrument], e, Conflicted(events), EligiblePairs(events), quotes)
<1>1. /\ e \in events \ done /\ e \in Universe /\ e.instrument \in Instruments
      /\ states' = [states EXCEPT ![e.instrument] = new]
      /\ done' = done \cup {e} /\ events' = events /\ quotes' = quotes
      /\ done \subseteq Universe /\ events \subseteq Universe
  BY Stepped DEF Replayed, TypeOK
<1>2. Ordered(done') = Append(Ordered(done), e)
  <2>1. ~Before(e, e) /\ \A f \in done : Before(f, e) /\ ~Before(e, f) /\ ~Before(f, f)
    BY <1>1, EventsAssumption DEF InOrder, Before, Precedence
  <2>2. QED
    BY <1>1, <2>1, OrderedAppend DEF Replays
<1>3. IsFiniteSet(done') /\ Ordered(done') \in Seq(Universe)
  <2>1. IsFiniteSet(done \cup {e})
    BY <1>1, FS_AddElement DEF Replays
  <2>2. Append(Ordered(done), e) \in Seq(Universe)
    BY <1>1, AppendProperties DEF Replays
  <2>3. QED
    BY <1>1, <1>2, <2>1, <2>2
<1>4. ASSUME NEW t \in {f.time : f \in events}, done' \subseteq UpTo(t)
      PROVE  Events!Fold(Replay(t, NoneSeen), Ordered(done')) = Replay(t, states')
  <2>1. t \in Int
    BY <1>1, <1>4, EventsAssumption
  <2>2. Events!Fold(Replay(t, NoneSeen), Ordered(done)) = Replay(t, states)
    BY <1>1, <1>4 DEF Replays
  <2>3. Events!Fold(Replay(t, NoneSeen), Ordered(done')) = Handled(Replay(t, states), e)
    <3>1. Ordered(done) \in Seq(Universe) /\ e \in Universe
      BY <1>1 DEF Replays
    <3>2. \A base : Events!Fold(base, Append(Ordered(done), e))
                      = Handled(Events!Fold(base, Ordered(done)), e)
      BY <3>1, Events!FoldAppend
    <3>3. QED
      BY <1>2, <2>2, <3>2
  <2>4. After(states[e.instrument], e, Conflicted(UpTo(t)), EligiblePairs(UpTo(t)),
              QuotesUpTo(t)) = new
    BY <1>1, <1>4, <2>1, AfterUpTo DEF Replays
  <2> HIDE DEF new
  <2>5. Handled(Replay(t, states), e) = Replay(t, states')
    BY <1>1, <2>4 DEF Handled, Replay
  <2>6. QED
    BY <2>3, <2>5
<1>5. ASSUME NEW t PROVE UpTo(t)' = UpTo(t) /\ QuotesUpTo(t)' = QuotesUpTo(t)
  BY <1>1 DEF UpTo, QuotesUpTo
<1>6. ASSUME NEW t
      PROVE  Replay(t, states)' = Replay(t, states') /\ Replay(t, NoneSeen)' = Replay(t, NoneSeen)
  BY <1>5 DEF Replay, NoneSeen
<1>7. {f.time : f \in events}' = {f.time : f \in events} /\ quotes' \subseteq QuoteUniverse
  BY <1>1 DEF Replays
<1>8. QED
  BY <1>3, <1>4, <1>5, <1>6, <1>7 DEF Replays

\* Before any event all is flat.
LEMMA StartsReplay == Init => Replays
<1>1. SUFFICES ASSUME Init PROVE Replays
  OBVIOUS
<1>2. done = {} /\ quotes \subseteq QuoteUniverse /\ states = NoneSeen
  BY <1>1 DEF Init, NoneSeen
<1>3. IsFiniteSet({}) /\ Cardinality({}) = 0
  BY FS_EmptySet
<1>4. Ordered({}) = <<>>
  BY <1>3 DEF Ordered, Sorted
<1>5. Ordered(done) \in Seq(Universe)
  BY <1>2, <1>4, EmptySeq
<1>6. \A t : Events!Fold(Replay(t, NoneSeen), Ordered(done)) = Replay(t, states)
  BY <1>2, <1>4, Events!FoldEmpty
<1>7. QED
  BY <1>2, <1>3, <1>5, <1>6 DEF Replays

LEMMA ReplaysAlways == Spec => []Replays
<1>1. ASSUME Replayed, InOrder, Replays, [Next]_vars PROVE Replays'
  <2>1. CASE Next
    BY <1>1, <2>1, NextHandles, ReplaysKept
  <2>2. CASE UNCHANGED vars
    BY <1>1, <2>2 DEF vars, Replays, Replay, UpTo, QuotesUpTo, NoneSeen
  <2>3. QED
    BY <1>1, <2>1, <2>2
<1>2. RInv => Replayed /\ InOrder
  BY DEF RInv
<1>3. QED
  BY <1>1, <1>2, StartsReplay, RInvAlways, PTL DEF Spec

\* Nothing that is later counts, neither events nor quotes nor what was known of them later:
\* after every event of an instant the states are those of a timeline and of quotes that end
\* there (lifecycle.py:362 to 611, models.py:419).
THEOREM FutureDoesNotCount == Spec => []PrefixStable
<1>1. ASSUME Replays PROVE PrefixStable
  <2>1. SUFFICES ASSUME NEW t \in {e.time : e \in events}, done = UpTo(t)
                 PROVE  states = ProcessLifecycle(Instruments, done, QuotesUpTo(t))
    BY DEF PrefixStable, UpTo, QuotesUpTo
  <2>2. Events!Fold(Replay(t, NoneSeen), Ordered(done)) = Replay(t, states)
    BY <1>1, <2>1 DEF Replays
  <2>3. FoldLeft(Handled, Replay(t, NoneSeen), Ordered(done)) = Replay(t, states)
    BY <2>2 DEF Events!Fold, FoldLeft, Events!FoldLeft, MapThenFoldSet, Events!MapThenFoldSet,
                Max, Events!Max
  <2>4. ProcessLifecycle(Instruments, done, QuotesUpTo(t))
          = FoldLeft(Handled, Replay(t, NoneSeen), Ordered(done)).states
    BY <2>1 DEF ProcessLifecycle, Replay, NoneSeen
  <2>5. QED
    BY <2>3, <2>4 DEF Replay
<1>2. QED
  BY <1>1, ReplaysAlways, PTL

-----------------------------------------------------------------------------
\* The loop of reconstruct_trades as a fold.
Readings == INSTANCE FoldLemmas WITH op <- ReadEvent

ReadAll(run, s) == Readings!Fold([run |-> run, books |-> Blank], s)

\* The reader takes one event at a time.
LEMMA ReadStarts ==
    ASSUME NEW run
    PROVE  ReadAll(run, <<>>) = [run |-> run, books |-> Blank]
BY Readings!FoldEmpty DEF ReadAll

LEMMA ReadGoesOn ==
    ASSUME NEW run, NEW S, NEW s \in Seq(S), NEW e \in S, NEW books,
           ReadAll(run, s) = [run |-> run, books |-> books]
    PROVE  ReadAll(run, Append(s, e))
               = [run |-> run, books |-> ReadNext(run, books, RecordFor(run, e))]
<1>1. ReadAll(run, Append(s, e)) = ReadEvent(ReadAll(run, s), e)
  <2>1. \A base : Readings!Fold(base, Append(s, e)) = ReadEvent(Readings!Fold(base, s), e)
    BY Readings!FoldAppend
  <2>2. QED
    BY <2>1 DEF ReadAll
<1>2. QED
  BY <1>1 DEF ReadEvent

\* What the reader has read is of the run it was given.
LEMMA ReadsItsRun ==
    ASSUME NEW run, NEW S, NEW s \in Seq(S)
    PROVE  ReadAll(run, s) = [run |-> run, books |-> ReadAll(run, s).books]
<1> DEFINE P == {t \in Seq(S) : ReadAll(run, t) = [run |-> run, books |-> ReadAll(run, t).books]}
<1>1. <<>> \in P
  BY ReadStarts, EmptySeq
<1>2. ASSUME NEW t \in Seq(S), NEW x \in S, t \in P PROVE Append(t, x) \in P
  <2>1. ReadAll(run, t) = [run |-> run, books |-> ReadAll(run, t).books]
    BY <1>2
  <2>2. ReadAll(run, Append(t, x))
          = [run |-> run, books |-> ReadNext(run, ReadAll(run, t).books, RecordFor(run, x))]
    BY <1>2, <2>1, ReadGoesOn
  <2>3. QED
    BY <2>2, AppendProperties
<1> HIDE DEF P
<1>3. \A t \in Seq(S) : t \in P
  BY <1>1, <1>2, Readings!InductionOnSeq
<1>4. QED
  BY <1>3 DEF P

\* Books are not a refusal.
LEMMA BooksAreNotRefused ==
    ASSUME NEW a, NEW b, NEW c, NEW d
    PROVE  [states |-> a, openings |-> b, used |-> c, trades |-> d] # Refused
<1> DEFINE books == [states |-> a, openings |-> b, used |-> c, trades |-> d]
<1>1. "states" \in DOMAIN books
  OBVIOUS
<1>2. "states" \notin DOMAIN [refused |-> TRUE]
  OBVIOUS
<1>3. QED
  BY <1>1, <1>2 DEF Refused

\* What is refused stays refused.
LEMMA RefusedRemains ==
    ASSUME NEW run, NEW r
    PROVE  ReadNext(run, Refused, r) = Refused
BY DEF ReadNext

\* Of the run a record is read against, only the outcomes and the quotes are looked at.
LEMMA SameReading ==
    ASSUME NEW run, NEW other, NEW books, NEW r, ReadNext(run, books, r) # Refused,
           run.outcomes \subseteq other.outcomes, run.quotes = other.quotes
    PROVE  ReadNext(other, books, r) = ReadNext(run, books, r)
<1>1. Read(run, books, r) # Refused /\ books # Refused
  BY DEF ReadNext
<1>2. ASSUME r.outcome # NoOutcome, r.decision # "action_created"
      PROVE  Execute(other, books, r) = Execute(run, books, r)
  <2>1. Execute(run, books, r) # Refused
    BY <1>1, <1>2 DEF Read
  <2>2. ExecutionHolds(run, books.used, books.states[r.event.instrument], r)
    BY <2>1 DEF Execute
  <2>3. ExecutionHolds(other, books.used, books.states[r.event.instrument], r)
    BY <2>2 DEF ExecutionHolds
  <2>4. QED
    BY <2>2, <2>3 DEF Execute
<1>3. Read(other, books, r) = Read(run, books, r)
  BY <1>2 DEF Read
<1>4. QED
  BY <1>3 DEF ReadNext

\* Two runs that have the same records for some events are read to the same books.
LEMMA RunsAgree ==
    ASSUME NEW run, NEW other, NEW D, \A e \in D : RecordFor(run, e) = RecordFor(other, e),
           run.outcomes \subseteq other.outcomes, run.quotes = other.quotes,
           NEW s \in Seq(D), ReadAll(run, s).books # Refused
    PROVE  ReadAll(other, s).books = ReadAll(run, s).books
<1> DEFINE P == {t \in Seq(D) : ReadAll(run, t).books # Refused
                                   => ReadAll(other, t).books = ReadAll(run, t).books}
<1>1. <<>> \in P
  BY ReadStarts, EmptySeq
<1>2. ASSUME NEW t \in Seq(D), NEW x \in D, t \in P PROVE Append(t, x) \in P
  <2> DEFINE b == ReadAll(run, t).books
             c == ReadAll(other, t).books
  <2>1. /\ ReadAll(run, Append(t, x))
             = [run |-> run, books |-> ReadNext(run, b, RecordFor(run, x))]
        /\ ReadAll(other, Append(t, x))
             = [run |-> other, books |-> ReadNext(other, c, RecordFor(other, x))]
    BY ReadsItsRun, ReadGoesOn
  <2>2. /\ ReadAll(run, Append(t, x)).books = ReadNext(run, b, RecordFor(run, x))
        /\ ReadAll(other, Append(t, x)).books = ReadNext(other, c, RecordFor(run, x))
    BY <2>1
  <2>3. b # Refused => c = b
    BY <1>2
  <2>4. Append(t, x) \in Seq(D)
    BY AppendProperties
  <2> HIDE DEF b, c
  <2>5. ASSUME ReadNext(run, b, RecordFor(run, x)) # Refused
        PROVE  ReadNext(other, c, RecordFor(run, x)) = ReadNext(run, b, RecordFor(run, x))
    <3>1. b # Refused
      BY <2>5, RefusedRemains
    <3>2. QED
      BY <2>3, <2>5, <3>1, SameReading
  <2>6. QED
    BY <2>2, <2>4, <2>5
<1> HIDE DEF P
<1>3. \A t \in Seq(D) : t \in P
  BY <1>1, <1>2, Readings!InductionOnSeq
<1>4. QED
  BY <1>3 DEF P

-----------------------------------------------------------------------------
\* The quotes that execution selects.

Outcomes ==
    [status : {"filled", "unfilled", "rejected"},
     reason : {"filled", "no_legal_quote", "stale_quote", "crossed_quote", "inconsistent"},
     quote : QuoteUniverse \cup {NoQuote}]

\* The newest of some quotes of an instrument is one of them.
LEMMA NewestIsSelected ==
    ASSUME NEW Q \in SUBSET QuoteUniverse, Q # {},
           \A q, r \in Q : q.instrument = r.instrument
    PROVE  Newest(Q) \in Q
<1> DEFINE R == {p \in Q \X Q : Newer(p[2], p[1])}
           n == Cardinality(Q)
           s == Readings!SortedBy(Q, R)
<1>1. \A q \in Q : q.availability \in Int /\ q.observation \in Int /\ q.ref \in Int
  BY QuotesAssumption, EvidenceAssumption
<1>2. Readings!Orders(R, Q)
  <2>1. \A x, y \in Q : x # y => Newer(x, y) \/ Newer(y, x)
    BY EvidenceAssumption
  <2>2. \A x, y, z \in Q : Newer(y, x) /\ Newer(z, y) => Newer(z, x)
    BY <1>1 DEF Newer
  <2>3. \A x \in Q : ~Newer(x, x)
    BY <1>1 DEF Newer
  <2>4. \A x, y \in Q : <<x, y>> \in R <=> Newer(y, x)
    OBVIOUS
  <2> HIDE DEF R
  <2>5. QED
    BY <2>1, <2>2, <2>3, <2>4 DEF Readings!Orders
<1>3. IsFiniteSet(Q)
  BY FS_Subset, EvidenceAssumption
<1>4. n \in Nat /\ n # 0
  BY <1>3, FS_CardinalityType, FS_EmptySet
<1>5. /\ s \in Seq(Q) /\ Len(s) = n
      /\ \A x \in Q : \E k \in 1 .. n : s[k] = x
      /\ \A j, k \in 1 .. n : j < k => <<s[j], s[k]>> \in R
  <2>1. Readings!IsFiniteSet(Q) /\ Readings!Cardinality(Q) = n
    BY <1>3 DEF Readings!IsFiniteSet, IsFiniteSet, Readings!Cardinality, Cardinality
  <2> HIDE DEF R, n
  <2>2. QED
    BY <1>2, <2>1, Readings!SortedEnumerates
<1> HIDE DEF s
<1>6. s[n] \in Q
  BY <1>4, <1>5, ElementOfSeq
<1>7. \A x \in Q \ {s[n]} : Newer(s[n], x)
  <2>1. TAKE x \in Q \ {s[n]}
  <2>2. PICK k \in 1 .. n : s[k] = x
    BY <1>5
  <2>3. n \in 1 .. n /\ k < n
    BY <1>4, <2>1, <2>2
  <2>4. <<s[k], s[n]>> \in R
    BY <1>5, <2>3
  <2>5. QED
    BY <2>2, <2>4
<1>8. QED
  BY <1>6, <1>7 DEF Newest

\* What a resolved attempt says, and of which quote.
LEMMA ResolveSays ==
    ASSUME NEW attempt, attempt.time \in Int, quotes \subseteq QuoteUniverse,
           NEW outcome, outcome = Resolve(attempt, quotes)
    PROVE  /\ outcome \in Outcomes /\ outcome.quote \in quotes \cup {NoQuote}
           /\ outcome.status = "filled" =>
                 /\ outcome.quote # NoQuote /\ outcome.quote.availability <= attempt.time
                 /\ attempt.time - outcome.quote.observation <= MaxQuoteAge
<1> DEFINE legal == Legal(attempt, quotes)
           selected == Newest(legal)
<1>1. legal # {} => selected \in legal
  BY NewestIsSelected DEF Legal
<1>2. \A q \in legal : q \in quotes /\ q \in QuoteUniverse /\ q.availability <= attempt.time
  BY DEF Legal
<1>3. \A q \in QuoteUniverse : q.observation \in Int /\ q # NoQuote
  BY EvidenceAssumption
<1>4. outcome \in {Outcome("rejected", "inconsistent", NoQuote),
                   Outcome("unfilled", "no_legal_quote", NoQuote)}
      \/ /\ legal # {}
         /\ \/ outcome \in {Outcome("rejected", "crossed_quote", selected),
                            Outcome("unfilled", "stale_quote", selected)}
            \/ /\ outcome = Outcome("filled", "filled", selected)
               /\ ~(attempt.time - selected.observation > MaxQuoteAge)
  BY DEF Resolve
<1> HIDE DEF legal, selected
<1>5. QED
  BY <1>1, <1>2, <1>3, <1>4, EvidenceAssumption DEF Outcome, Outcomes

-----------------------------------------------------------------------------
\* The attempt that is made at an opportunity.
AttemptAt(e) ==
    [action |-> states[e.instrument].pending, opportunity |-> e,
     outcome |-> Resolve(AttemptFor(states[e.instrument].pending, e), quotes)]

\* The five things that an event may be to its instrument.
Created(e, s, t) ==
    /\ e.kind = "signal" /\ e \notin Conflicted(events) /\ e.type \in {"entry", "exit"}
    /\ s.state = IF e.type = "entry" THEN "flat" ELSE "holding"
    /\ s.pending = NoAction /\ attempts' = attempts
    /\ t = [state |-> IF e.type = "entry" THEN "pending_entry" ELSE "pending_exit",
            pending |-> e, position |-> s.position]

Idle(e, s, t) == t = s /\ attempts' = attempts

Tried(e, s) ==
    /\ e.kind = "opportunity" /\ Attempts(s, e, EligiblePairs(events))
    /\ attempts' = attempts \cup {AttemptAt(e)} /\ s.pending # NoAction

Failed(e, s, t) == t = s /\ Tried(e, s) /\ AttemptAt(e).outcome.status # "filled"

Entered(e, s, t) ==
    /\ Tried(e, s) /\ AttemptAt(e).outcome.status = "filled"
    /\ s.state = "pending_entry" /\ s.pending.type = "entry" /\ s.position = NoPosition
    /\ t = [state |-> "holding", pending |-> NoAction,
            position |-> [opening |-> s.pending, opened |-> e.time]]

Exited(e, s, t) ==
    /\ Tried(e, s) /\ AttemptAt(e).outcome.status = "filled"
    /\ s.state = "pending_exit" /\ s.pending.type = "exit" /\ s.position # NoPosition
    /\ t = FlatState

LEMMA EventDoes ==
    ASSUME Replayed, NEW e, Handle(e), NEW s, s = states[e.instrument],
           NEW t, t = states'[e.instrument]
    PROVE  Created(e, s, t) \/ Idle(e, s, t) \/ Failed(e, s, t)
               \/ Entered(e, s, t) \/ Exited(e, s, t)
<1>1. /\ e \in events \ done /\ e \in Universe /\ e.instrument \in Instruments
      /\ s \in InstrumentStates /\ WellFormed(s)
      /\ t = After(s, e, Conflicted(events), EligiblePairs(events), quotes)
  BY Stepped
<1>2. s = [state |-> s.state, pending |-> s.pending, position |-> s.position]
  BY <1>1 DEF InstrumentStates
<1>3. attempts' = IF e.kind = "opportunity" /\ Attempts(s, e, EligiblePairs(events))
                  THEN attempts \cup {AttemptAt(e)} ELSE attempts
  BY DEF Handle, AttemptAt
<1>4. CASE e.kind = "signal"
  <2>1. t = OnSignal(s, e, Conflicted(events)) /\ attempts' = attempts
    BY <1>1, <1>3, <1>4 DEF After
  <2>2. e.type \in {"entry", "exit"}
    BY <1>1, <1>4, EventsAssumption
  <2>3. CASE t = s
    BY <2>1, <2>3 DEF Idle
  <2>4. CASE /\ e \notin Conflicted(events) /\ e.type = "entry" /\ s.state = "flat"
             /\ t = [s EXCEPT !.state = "pending_entry", !.pending = e]
    <3>1. s.pending = NoAction
      BY <1>1, <2>4 DEF WellFormed, FlatState
    <3>2. QED
      BY <1>2, <1>4, <2>1, <2>4, <3>1 DEF Created
  <2>5. CASE /\ e \notin Conflicted(events) /\ e.type = "exit" /\ s.state = "holding"
             /\ t = [s EXCEPT !.state = "pending_exit", !.pending = e]
    <3>1. s.pending = NoAction
      BY <1>1, <2>5 DEF WellFormed, FlatState
    <3>2. QED
      BY <1>2, <1>4, <2>1, <2>5, <3>1 DEF Created
  <2>6. QED
    BY <2>1, <2>3, <2>4, <2>5 DEF OnSignal
<1>5. CASE e.kind = "opportunity"
  <2>1. t = OnOpportunity(s, e, EligiblePairs(events), quotes)
    BY <1>1, <1>5 DEF After
  <2>2. CASE ~Attempts(s, e, EligiblePairs(events))
    BY <1>3, <2>1, <2>2 DEF OnOpportunity, Idle
  <2>3. CASE Attempts(s, e, EligiblePairs(events))
    <3>1. Tried(e, s)
      BY <1>3, <1>5, <2>3 DEF Tried, Attempts
    <3>2. AttemptAt(e).outcome = Resolve(AttemptFor(s.pending, e), quotes)
      BY DEF AttemptAt
    <3>3. CASE AttemptAt(e).outcome.status # "filled"
      BY <2>1, <2>3, <3>1, <3>2, <3>3 DEF OnOpportunity, Failed
    <3>4. CASE AttemptAt(e).outcome.status = "filled"
      <4>1. CASE s.state = "pending_entry"
        <5>1. s.pending.type = "entry" /\ s.position = NoPosition
          BY <1>1, <4>1 DEF WellFormed, FlatState
        <5>2. QED
          BY <2>1, <2>3, <3>1, <3>2, <3>4, <4>1, <5>1 DEF OnOpportunity, Entered
      <4>2. CASE s.state # "pending_entry"
        <5>1. s.state = "pending_exit" /\ s.pending.type = "exit" /\ s.position # NoPosition
          BY <1>1, <2>3, <4>2 DEF WellFormed, FlatState, Attempts
        <5>2. QED
          BY <2>1, <2>3, <3>1, <3>2, <3>4, <4>2, <5>1 DEF OnOpportunity, Exited
      <4>3. QED
        BY <4>1, <4>2
    <3>5. QED
      BY <3>3, <3>4
  <2>4. QED
    BY <2>2, <2>3
<1>6. CASE e.kind \notin {"signal", "opportunity"}
  BY <1>1, <1>3, <1>6 DEF After, Idle
<1>7. QED
  BY <1>4, <1>5, <1>6

-----------------------------------------------------------------------------
AttemptRecords == [action : Universe, opportunity : Universe, outcome : Outcomes]

\* The record that ReconstructionNext adds when the loop has handled e.
RecordAt(e) ==
    RecordOf(states[e.instrument], states'[e.instrument], e,
             {a \in attempts' : a.opportunity = e})

\* Attempts are made once at an opportunity.
Made ==
    /\ attempts \subseteq AttemptRecords
    /\ \A a, b \in attempts : a.opportunity = b.opportunity => a = b

\* A new attempt is at an opportunity at which there was none.
LEMMA AttemptIsNew ==
    ASSUME TInv, Made, quotes \subseteq QuoteUniverse, NEW e, Handle(e),
           NEW s, s = states[e.instrument], Tried(e, s)
    PROVE  LET a == AttemptAt(e) IN
           /\ a \in AttemptRecords /\ a \notin attempts
           /\ a.action = s.pending /\ a.opportunity = e
           /\ a.outcome.quote \in quotes \cup {NoQuote}
           /\ s.pending.instrument = e.instrument /\ s.pending.time < e.time
           /\ s.pending \in Signals(events) /\ e \notin Conflicted(events)
           /\ a.outcome.status = "filled" =>
                 /\ a.outcome.quote # NoQuote /\ a.outcome.quote.availability <= e.time
                 /\ e.time - a.outcome.quote.observation <= MaxQuoteAge
           /\ {b \in attempts' : b.opportunity = e} = {a}
<1> DEFINE a == AttemptAt(e)
<1>1. e \in events \ done /\ e \in Universe /\ e.time \in Int
  BY Stepped, EventsAssumption DEF TInv, RInv
<1>2. <<s.pending, e>> \in EligiblePairs(events) /\ s.pending \in Universe
  BY DEF Tried, Attempts, EligiblePairs, Signals, TInv, RInv, Replayed, TypeOK
<1>3. /\ s.pending.instrument = e.instrument /\ s.pending.time < e.time
      /\ s.pending \in Signals(events)
  BY <1>1, <1>2, EventsAssumption DEF EligiblePairs
<1>4. a = [action |-> s.pending, opportunity |-> e,
           outcome |-> Resolve(AttemptFor(s.pending, e), quotes)]
  BY DEF AttemptAt
<1>5. AttemptFor(s.pending, e).time = e.time
  BY DEF AttemptFor
<1>6. /\ a.outcome \in Outcomes /\ a.outcome.quote \in quotes \cup {NoQuote}
      /\ a.outcome.status = "filled" =>
            /\ a.outcome.quote # NoQuote /\ a.outcome.quote.availability <= e.time
            /\ e.time - a.outcome.quote.observation <= MaxQuoteAge
  BY <1>1, <1>4, <1>5, ResolveSays
<1> HIDE DEF a
<1>7. \A b \in attempts : b.opportunity \in done
  BY DEF TInv, RInv, Attempted, Opportunities
<1>8. a \notin attempts /\ {b \in attempts' : b.opportunity = e} = {a}
  <2>1. attempts' = attempts \cup {a}
    BY DEF Tried, a
  <2>2. QED
    BY <1>1, <1>4, <1>7, <2>1
<1>9. e \notin Conflicted(events)
  BY DEF Tried, Conflicted, Signals
<1>10. a \in AttemptRecords
  BY <1>1, <1>2, <1>4, <1>6 DEF AttemptRecords
<1>11. QED
  BY <1>3, <1>4, <1>6, <1>8, <1>9, <1>10 DEF a

\* What the record of an event says.
LEMMA CreationIsRecorded ==
    ASSUME TInv, NEW e, Handle(e), NEW s, s = states[e.instrument],
           NEW t, t = states'[e.instrument], Created(e, s, t)
    PROVE  RecordAt(e) =
               [event |-> e, header |-> Header(e),
                prior |-> s.state, resulting |-> t.state,
                decision |-> "action_created", action |-> e, position |-> s.position,
                attempt |-> NoAttempt, outcome |-> NoOutcome]
<1>1. {a \in attempts' : a.opportunity = e} = {}
  BY DEF Created, TInv, RInv, Attempted, Opportunities
<1>2. t # s /\ t.position = s.position /\ e.kind = "signal" /\ e \notin Conflicted(events)
  <2>1. e # NoAction
    BY Stepped, NoneAssumption DEF TInv, RInv
  <2>2. QED
    BY <2>1 DEF Created
<1>3. SignalDecision(s, t, e) = "action_created"
  BY <1>2 DEF SignalDecision, Created
<1>4. (IF t.position = NoPosition THEN s.position ELSE t.position) = s.position
  BY <1>2
<1>5. QED
  BY <1>1, <1>2, <1>3, <1>4 DEF RecordAt, RecordOf

LEMMA IdlenessIsRecorded ==
    ASSUME TInv, NEW e, Handle(e), NEW s, s = states[e.instrument],
           NEW t, t = states'[e.instrument], Idle(e, s, t), NEW r, r = RecordAt(e)
    PROVE  /\ r = [event |-> e, header |-> Header(e),
                   prior |-> s.state, resulting |-> s.state,
                   decision |-> r.decision, action |-> r.action, position |-> r.position,
                   attempt |-> NoAttempt, outcome |-> NoOutcome]
           /\ r.decision \in {"rejected", "ignored_redundant", "not_applicable", "ineligible"}
           /\ r.action \in {NoAction, s.pending} /\ r.position \in {NoPosition, s.position}
<1>1. {a \in attempts' : a.opportunity = e} = {}
  <2>1. e \notin done
    BY Stepped DEF TInv, RInv
  <2>2. QED
    BY <2>1 DEF Idle, TInv, RInv, Attempted, Opportunities
<1>2. SignalDecision(s, t, e) \in {"rejected", "ignored_redundant"}
  BY DEF Idle, SignalDecision
<1>3. OpportunityDecision(s, e, {}) \in {"not_applicable", "ineligible"}
  BY DEF OpportunityDecision
<1>4. /\ r.event = e /\ r.header = Header(e) /\ r.prior = s.state /\ r.resulting = t.state
      /\ r.attempt = NoAttempt /\ r.outcome = NoOutcome
      /\ r.decision = CASE e.kind = "signal" -> SignalDecision(s, t, e)
                        [] e.kind = "opportunity" -> OpportunityDecision(s, e, {})
                        [] OTHER -> "not_applicable"
      /\ r.action = IF e \in Conflicted(events) \/ e.kind \notin {"signal", "opportunity"}
                    THEN NoAction ELSE IF r.decision = "action_created" THEN e ELSE s.pending
      /\ r.position = IF e \in Conflicted(events) THEN NoPosition
                      ELSE IF t.position = NoPosition THEN s.position ELSE t.position
      /\ r = [event |-> r.event, header |-> r.header,
              prior |-> r.prior, resulting |-> r.resulting,
              decision |-> r.decision, action |-> r.action, position |-> r.position,
              attempt |-> r.attempt, outcome |-> r.outcome]
  BY <1>1 DEF RecordAt, RecordOf
<1>5. r.decision \in {"rejected", "ignored_redundant", "not_applicable", "ineligible"}
  <2>1. CASE e.kind = "signal"
    BY <1>2, <1>4, <2>1
  <2>2. CASE e.kind = "opportunity"
    BY <1>3, <1>4, <2>2
  <2>3. CASE e.kind \notin {"signal", "opportunity"}
    BY <1>4, <2>3
  <2>4. QED
    BY <2>1, <2>2, <2>3
<1>6. QED
  BY <1>4, <1>5 DEF Idle

LEMMA AttemptIsRecorded ==
    ASSUME TInv, Made, quotes \subseteq QuoteUniverse, NEW e, Handle(e),
           NEW s, s = states[e.instrument], NEW t, t = states'[e.instrument], Tried(e, s)
    PROVE  LET a == AttemptAt(e) IN
           RecordAt(e) =
               [event |-> e, header |-> Header(e),
                prior |-> s.state, resulting |-> t.state,
                decision |-> IF a.outcome.status = "filled" THEN "action_filled"
                             ELSE IF a.outcome.status = "unfilled" THEN "attempt_unfilled"
                             ELSE "attempt_rejected",
                action |-> s.pending,
                position |-> IF t.position = NoPosition THEN s.position ELSE t.position,
                attempt |-> AttemptOf(a), outcome |-> a]
<1> DEFINE a == AttemptAt(e)
<1>1. /\ {b \in attempts' : b.opportunity = e} = {a} /\ e \notin Conflicted(events)
      /\ e.kind = "opportunity" /\ s.pending # NoAction
  BY AttemptIsNew DEF Tried
<1> HIDE DEF a
<1>2. (CHOOSE b \in {a} : TRUE) = a
  OBVIOUS
<1>3. OpportunityDecision(s, e, {a}) =
          IF a.outcome.status = "filled" THEN "action_filled"
          ELSE IF a.outcome.status = "unfilled" THEN "attempt_unfilled" ELSE "attempt_rejected"
  BY <1>1 DEF OpportunityDecision
<1>4. OpportunityDecision(s, e, {a}) # "action_created"
  BY <1>3
<1>5. QED
  BY <1>1, <1>2, <1>3, <1>4 DEF RecordAt, RecordOf, a

-----------------------------------------------------------------------------
\* A record is of a creation, of nothing, or of one of the attempts.
RecordHolds(r, tried) ==
    /\ r = [event |-> r.event, header |-> r.header,
            prior |-> r.prior, resulting |-> r.resulting,
            decision |-> r.decision, action |-> r.action, position |-> r.position,
            attempt |-> r.attempt, outcome |-> r.outcome]
    /\ r.header = Header(r.event)
    /\ \/ /\ r.outcome = NoOutcome /\ r.attempt = NoAttempt
          /\ \/ r.decision = "action_created" /\ r.action = r.event /\ r.event.kind = "signal"
             \/ /\ r.decision \in {"rejected", "ignored_redundant", "not_applicable", "ineligible"}
                /\ r.action # r.event
       \/ /\ r.outcome \in tried /\ r.outcome.opportunity = r.event
          /\ r.action = r.outcome.action /\ r.attempt = AttemptOf(r.outcome)
          /\ r.decision # "action_created" /\ r.event.kind = "opportunity"
          /\ r.outcome.outcome.status = "filled" => FillHolds(r)

\* The trace has one record of each event handled and of each attempt made.
Recorded ==
    /\ Made
    /\ {r.event : r \in records} = done
    /\ \A r, q \in records : r.event = q.event => r = q
    /\ \A r \in records : RecordHolds(r, attempts)
    /\ \A a \in attempts : \E r \in records : r.outcome = a

LEMMA NewRecordHolds ==
    ASSUME TInv, Made, quotes \subseteq QuoteUniverse, NEW e, Handle(e)
    PROVE  RecordHolds(RecordAt(e), attempts')
<1> DEFINE s == states[e.instrument]
           t == states'[e.instrument]
           r == RecordAt(e)
<1>1. /\ e \in events \ done /\ e \in Universe /\ e.time \in Int /\ e # NoAction
      /\ s \in InstrumentStates /\ e.instrument \in Instruments
  BY Stepped, EventsAssumption, NoneAssumption DEF TInv, RInv
<1>2. CASE Created(e, s, t)
  <2>1. r = [event |-> e, header |-> Header(e),
             prior |-> s.state, resulting |-> t.state,
             decision |-> "action_created", action |-> e, position |-> s.position,
             attempt |-> NoAttempt, outcome |-> NoOutcome]
    BY <1>2, CreationIsRecorded
  <2>2. e.kind = "signal"
    BY <1>2 DEF Created
  <2> HIDE DEF r
  <2>3. QED
    BY <2>1, <2>2 DEF RecordHolds, r
<1>3. CASE Idle(e, s, t)
  <2>1. /\ r = [event |-> e, header |-> Header(e),
                prior |-> s.state, resulting |-> s.state,
                decision |-> r.decision, action |-> r.action, position |-> r.position,
                attempt |-> NoAttempt, outcome |-> NoOutcome]
        /\ r.decision \in {"rejected", "ignored_redundant", "not_applicable", "ineligible"}
        /\ r.action \in {NoAction, s.pending}
    BY <1>3, IdlenessIsRecorded
  <2>2. s.pending # e
    <3>1. s.pending = NoAction \/ s.pending \in Signals(done)
      BY <1>1 DEF TInv, RInv, Replayed, TypeOK
    <3> HIDE DEF r, s
    <3>2. QED
      BY <1>1, <3>1 DEF Signals
  <2> HIDE DEF r, s
  <2>3. QED
    BY <1>1, <2>1, <2>2 DEF RecordHolds, r
<1>4. CASE Tried(e, s)
  <2> DEFINE a == AttemptAt(e)
  <2>1. r = [event |-> e, header |-> Header(e),
             prior |-> s.state, resulting |-> t.state,
             decision |-> IF a.outcome.status = "filled" THEN "action_filled"
                          ELSE IF a.outcome.status = "unfilled" THEN "attempt_unfilled"
                          ELSE "attempt_rejected",
             action |-> s.pending,
             position |-> IF t.position = NoPosition THEN s.position ELSE t.position,
             attempt |-> AttemptOf(a), outcome |-> a]
    BY <1>4, AttemptIsRecorded
  <2>2. /\ a.action = s.pending /\ a.opportunity = e /\ a \in AttemptRecords
        /\ s.pending.instrument = e.instrument /\ s.pending \in Signals(events)
        /\ a.outcome.status = "filled" =>
              /\ a.outcome.quote # NoQuote /\ a.outcome.quote.availability <= e.time
              /\ e.time - a.outcome.quote.observation <= MaxQuoteAge
    BY <1>4, AttemptIsNew
  <2>3. a \in attempts' /\ e.kind = "opportunity"
    BY <1>4 DEF Tried
  <2>4. ASSUME a.outcome.status = "filled" PROVE FillHolds(r)
    <3>1. Entered(e, s, t) \/ Exited(e, s, t)
      <4>1. ~Failed(e, s, t) /\ ~Created(e, s, t)
        BY <2>3, <2>4 DEF Failed, Created
      <4>2. ~Idle(e, s, t)
        <5>1. attempts' # attempts
          BY <1>4, <2>3, AttemptIsNew
        <5>2. QED
          BY <5>1 DEF Idle
      <4>3. QED
        BY <4>1, <4>2, EventDoes DEF TInv, RInv
    <3>2. CASE Entered(e, s, t)
      <4>1. /\ s.state = "pending_entry" /\ s.pending.type = "entry"
            /\ t.state = "holding" /\ t.position = [opening |-> s.pending, opened |-> e.time]
        BY <3>2 DEF Entered
      <4>2. t.position # NoPosition
        <5>1. s.pending \in Universe
          BY <2>2 DEF Signals, TInv, RInv, Replayed, TypeOK
        <5>2. t.position \in Positions
          BY <1>1, <4>1, <5>1 DEF Positions
        <5>3. QED
          BY <5>2, NoneAssumption
      <4> HIDE DEF r, s, t, a
      <4>3. /\ r.event = e /\ r.prior = "pending_entry" /\ r.resulting = "holding"
            /\ r.decision = "action_filled" /\ r.action = s.pending /\ r.outcome = a
            /\ r.position = [opening |-> s.pending, opened |-> e.time]
        BY <2>1, <2>4, <4>1, <4>2
      <4>4. r.position # NoPosition /\ r.position.opening = s.pending
        BY <4>1, <4>2, <4>3
      <4>5. QED
        BY <2>2, <2>4, <4>1, <4>3, <4>4 DEF FillHolds
    <3>3. CASE Exited(e, s, t)
      <4>1. /\ s.state = "pending_exit" /\ s.pending.type = "exit" /\ s.position # NoPosition
            /\ t.state = "flat" /\ t.position = NoPosition
        BY <3>3 DEF Exited, FlatState
      <4>2. s.position.opening.instrument = e.instrument
        <5>1. OpenOn(FillsOf(e.instrument), s.position)
          BY <4>1, Stepped DEF TInv, RInv, Turns
        <5>2. PICK b \in FillsOf(e.instrument) : b.action = s.position.opening
          BY <5>1 DEF OpenOn, Entries
        <5>3. QED
          BY <5>2 DEF FillsOf
      <4> HIDE DEF r, s, t, a
      <4>3. /\ r.event = e /\ r.prior = "pending_exit" /\ r.resulting = "flat"
            /\ r.decision = "action_filled" /\ r.action = s.pending /\ r.outcome = a
            /\ r.position = s.position
        BY <2>1, <2>4, <4>1
      <4>4. QED
        BY <2>2, <2>4, <4>1, <4>2, <4>3 DEF FillHolds
    <3>4. QED
      BY <3>1, <3>2, <3>3
  <2> HIDE DEF r, s, t, a
  <2>5. r.decision # "action_created" /\ r.outcome = a /\ r.event = e /\ r.action = s.pending
        /\ r.attempt = AttemptOf(a) /\ r.header = Header(e)
    BY <2>1
  <2>6. r = [event |-> r.event, header |-> r.header,
             prior |-> r.prior, resulting |-> r.resulting,
            decision |-> r.decision, action |-> r.action, position |-> r.position,
            attempt |-> r.attempt, outcome |-> r.outcome]
    BY <2>1
  <2>7. QED
    BY <2>2, <2>3, <2>4, <2>5, <2>6 DEF RecordHolds, r
<1>5. QED
  BY <1>2, <1>3, <1>4, EventDoes DEF Failed, Entered, Exited, TInv, RInv

LEMMA RecordedKept ==
    ASSUME TInv, Recorded, quotes \subseteq QuoteUniverse, NEW e, Handle(e),
           records' = records \cup {RecordAt(e)}
    PROVE  Recorded'
<1> DEFINE s == states[e.instrument]
           r == RecordAt(e)
<1>1. RecordHolds(r, attempts')
  BY NewRecordHolds DEF Recorded
<1>2. e \notin done /\ done' = done \cup {e}
  BY Stepped DEF TInv, RInv
<1>3. r.event = e
  BY DEF RecordAt, RecordOf
<1>4. \/ attempts' = attempts
      \/ Tried(e, s) /\ attempts' = attempts \cup {AttemptAt(e)}
  BY EventDoes DEF TInv, RInv, Created, Idle, Failed, Entered, Exited, Tried
<1>5. Made'
  <2>1. CASE attempts' = attempts
    BY <2>1 DEF Made, Recorded
  <2>2. CASE Tried(e, s) /\ attempts' = attempts \cup {AttemptAt(e)}
    <3>1. AttemptAt(e) \in AttemptRecords /\ AttemptAt(e).opportunity = e
      BY <2>2, AttemptIsNew DEF Recorded
    <3>2. \A a \in attempts : a.opportunity # e
      BY <1>2 DEF TInv, RInv, Attempted, Opportunities
    <3>3. QED
      BY <2>2, <3>1, <3>2 DEF Made, Recorded
  <2>3. QED
    BY <1>4, <2>1, <2>2
<1>6. \A a \in attempts' : \E q \in records' : q.outcome = a
  <2>1. CASE attempts' = attempts
    BY <2>1 DEF Recorded
  <2>2. CASE Tried(e, s) /\ attempts' = attempts \cup {AttemptAt(e)}
    <3>1. r.outcome = AttemptAt(e)
      BY <2>2, AttemptIsRecorded DEF Recorded
    <3>2. QED
      BY <2>2, <3>1 DEF Recorded
  <2>3. QED
    BY <1>4, <2>1, <2>2
<1>7. \A q \in records : RecordHolds(q, attempts')
  <2>1. attempts \subseteq attempts'
    BY <1>4
  <2>2. QED
    BY <2>1 DEF Recorded, RecordHolds
<1>8. {q.event : q \in records} = done
  BY DEF Recorded
<1> HIDE DEF r
<1>9. {q.event : q \in records'} = done'
  BY <1>2, <1>3, <1>8 DEF r
<1>10. \A p, q \in records' : p.event = q.event => p = q
  BY <1>2, <1>3, <1>8 DEF Recorded, r
<1>11. \A q \in records' : RecordHolds(q, attempts')
  BY <1>1, <1>7 DEF r
<1>12. QED
  BY <1>5, <1>6, <1>9, <1>10, <1>11 DEF Recorded

-----------------------------------------------------------------------------
\* Fills of an instrument with none between them.
Follows(a, b) ==
    /\ a.action.instrument = b.action.instrument /\ Time(a) < Time(b)
    /\ ~\E c \in Fills : /\ c.action.instrument = a.action.instrument
                         /\ Time(a) < Time(c) /\ Time(c) < Time(b)

FillRecords == {r \in records : r.outcome \in Fills}

\* What the reader should have in its books when the loop has come this far.
OpenRecords ==
    {r \in FillRecords :
        r.action.type = "entry" /\ r.position = states[r.event.instrument].position}

TradePairs ==
    {p \in FillRecords \X FillRecords :
        /\ p[1].action.type = "entry" /\ p[2].action.type # "entry"
        /\ Follows(p[1].outcome, p[2].outcome)}

ClosedTrades == {[entry |-> p[1], exit |-> p[2]] : p \in TradePairs}

Used == {AttemptOf(a) : a \in attempts}

Ledger(s, openings, used, trades) ==
    [states |-> s, openings |-> openings, used |-> used, trades |-> trades]

Books == Ledger(states, OpenRecords, Used, ClosedTrades)

\* An exit is signalled after the entry was filled.
LaterSignals ==
    \A i \in Instruments :
        states[i].pending # NoAction /\ states[i].position # NoPosition
        => states[i].position.opened < states[i].pending.time

LEMMA LaterSignalsKept ==
    ASSUME TInv, LaterSignals, NEW e, Handle(e)
    PROVE  LaterSignals'
<1> DEFINE s == states[e.instrument]
           t == states'[e.instrument]
<1>1. /\ e \in events \ done /\ e \in Universe /\ e.instrument \in Instruments
      /\ \A i \in Instruments \ {e.instrument} : states'[i] = states[i]
      /\ done \subseteq Universe /\ e.time \in Int
  BY Stepped, EventsAssumption DEF TInv, RInv, Replayed, TypeOK
<1>2. ASSUME t.pending # NoAction, t.position # NoPosition
      PROVE  t.position.opened < t.pending.time
  <2>1. CASE Created(e, s, t)
    <3>1. t.pending = e /\ t.position = s.position /\ e.kind = "signal"
      BY <2>1 DEF Created
    <3>2. OpenOn(FillsOf(e.instrument), s.position)
      BY <1>1, <1>2, <3>1 DEF TInv, Turns
    <3>3. PICK a \in FillsOf(e.instrument) : Time(a) = s.position.opened
      BY <3>2 DEF OpenOn, Entries
    <3>4. a.opportunity \in done /\ a.opportunity.kind = "opportunity"
      BY <3>3 DEF FillsOf, Fills, TInv, RInv, Attempted, Opportunities
    <3>5. Before(a.opportunity, e)
      BY <1>1, <3>4 DEF TInv, RInv, InOrder
    <3>6. a.opportunity.time < e.time
      <4>1. a.opportunity.time \in Int
        BY <1>1, <3>4, EventsAssumption
      <4>2. QED
        BY <1>1, <3>1, <3>4, <3>5, <4>1 DEF Before, Precedence
    <3>7. QED
      BY <3>1, <3>3, <3>6 DEF Time
  <2>2. CASE t = s
    BY <1>1, <1>2, <2>2 DEF LaterSignals
  <2>3. CASE Entered(e, s, t) \/ Exited(e, s, t)
    BY <1>2, <2>3 DEF Entered, Exited, FlatState
  <2>4. QED
    BY <2>1, <2>2, <2>3, EventDoes DEF Idle, Failed, TInv, RInv
<1>3. QED
  BY <1>1, <1>2 DEF LaterSignals

-----------------------------------------------------------------------------
\* A fill and its record.
LEMMA FillIsRecorded ==
    ASSUME TInv, Recorded, NEW r \in FillRecords
    PROVE  /\ r.outcome \in FillsOf(r.event.instrument) /\ FillHolds(r)
           /\ r.event.instrument \in Instruments /\ r.event \in done
           /\ r.action = r.outcome.action /\ Time(r.outcome) = r.event.time
           /\ r.action.instrument = r.event.instrument /\ r.event.time \in Int
           /\ r.position # NoPosition
           /\ r.action.type = "entry" =>
                 r.position = [opening |-> r.action, opened |-> r.event.time]
<1>1. r \in records /\ r.outcome \in attempts /\ r.outcome.outcome.status = "filled"
  BY DEF FillRecords, Fills
<1>2. r.outcome # NoOutcome
  BY <1>1, EvidenceAssumption DEF Recorded, Made, AttemptRecords, Outcomes
<1>3. /\ r.outcome.opportunity = r.event /\ r.action = r.outcome.action /\ FillHolds(r)
  BY <1>1, <1>2 DEF Recorded, RecordHolds
<1>4. /\ r.event \in done /\ r.event \in Universe
      /\ r.action.instrument = r.event.instrument
  BY <1>1, <1>3 DEF TInv, RInv, Replayed, TypeOK, Attempted, EligiblePairs, Opportunities
<1>5. r.event.instrument \in Instruments /\ r.event.time \in Int
  BY <1>4, EventsAssumption
<1>6. r.outcome \in FillsOf(r.event.instrument)
  BY <1>1, <1>3, <1>4 DEF FillsOf, Fills
<1>7. /\ r.position # NoPosition
      /\ r.action.type = "entry" => r.position = [opening |-> r.action, opened |-> r.event.time]
  BY <1>3 DEF FillHolds
<1>8. QED
  BY <1>3, <1>4, <1>5, <1>6, <1>7 DEF Time

LEMMA FillHasRecord ==
    ASSUME Recorded, NEW a \in Fills
    PROVE  \E r \in FillRecords : r.outcome = a
BY DEF Recorded, FillRecords, Fills

LEMMA OneRecordOfFill ==
    ASSUME TInv, Recorded, NEW r \in FillRecords, NEW q \in FillRecords,
           r.event.instrument = q.event.instrument, r.event.time = q.event.time
    PROVE  r = q
<1>1. Alternate(FillsOf(r.event.instrument))
  BY FillIsRecorded DEF TInv, Turns
<1>2. r.outcome = q.outcome
  <2>1. /\ r.outcome \in FillsOf(r.event.instrument) /\ Time(r.outcome) = r.event.time
        /\ q.outcome \in FillsOf(r.event.instrument) /\ Time(q.outcome) = r.event.time
    BY FillIsRecorded
  <2>2. QED
    BY <1>1, <2>1 DEF Alternate
<1>3. r.event = q.event
  <2>1. r.outcome # NoOutcome /\ r \in records /\ q \in records
    BY EvidenceAssumption DEF Recorded, Made, AttemptRecords, Outcomes, FillRecords, Fills
  <2>2. QED
    BY <1>2, <2>1 DEF Recorded, RecordHolds
<1>4. QED
  BY <1>3 DEF Recorded, FillRecords

\* The record of the last fill of an instrument that has a position is the open one.
LEMMA OneIsOpen ==
    ASSUME TInv, Recorded, NEW i \in Instruments, states[i].position # NoPosition
    PROVE  \E o \in OpenRecords :
               /\ o.event.instrument = i /\ o.position = states[i].position
               /\ o.action = states[i].position.opening
               /\ o.event.time = states[i].position.opened
               /\ \A b \in FillsOf(i) : Time(b) <= o.event.time
               /\ \A q \in OpenRecords :
                     q.event.instrument = i \/ q.action = states[i].position.opening => q = o
<1> DEFINE p == states[i].position
<1>1. OpenOn(FillsOf(i), p) /\ p \in Positions
  BY DEF TInv, RInv, Replayed, InstrumentStates, Turns
<1>2. PICK a \in FillsOf(i) : /\ a.action.type = "entry" /\ a.action = p.opening
                              /\ Time(a) = p.opened /\ \A b \in FillsOf(i) : Time(b) <= Time(a)
  BY <1>1 DEF OpenOn, Entries
<1>3. PICK o \in FillRecords : o.outcome = a
  BY <1>2, FillHasRecord DEF FillsOf
<1>4. /\ o.event.instrument = i /\ o.action = p.opening /\ o.event.time = p.opened
      /\ o.action.type = "entry" /\ o.position = [opening |-> p.opening, opened |-> p.opened]
  BY <1>2, <1>3, FillIsRecorded DEF FillsOf
<1>5. o.position = p
  BY <1>1, <1>4 DEF Positions
<1>6. o \in OpenRecords
  BY <1>4, <1>5 DEF OpenRecords
<1>7. ASSUME NEW q \in OpenRecords, q.event.instrument = i \/ q.action = p.opening
      PROVE  q = o
  <2>1. q \in FillRecords /\ q.action.type = "entry"
    BY DEF OpenRecords
  <2>2. q.event.instrument = i
    <3>1. q.event.instrument = q.action.instrument /\ o.event.instrument = o.action.instrument
      BY <2>1, FillIsRecorded
    <3>2. QED
      BY <1>4, <1>7, <3>1
  <2>3. q.position = p
    BY <1>7, <2>2 DEF OpenRecords
  <2>4. q.event.time = p.opened
    <3>1. q.position = [opening |-> q.action, opened |-> q.event.time]
      BY <2>1, FillIsRecorded
    <3>2. QED
      BY <2>3, <3>1
  <2>5. QED
    BY <1>4, <2>1, <2>2, <2>4, OneRecordOfFill
<1>8. QED
  BY <1>2, <1>3, <1>4, <1>5, <1>6, <1>7, FillIsRecorded

-----------------------------------------------------------------------------
\* What an event without a fill does to the books.
LEMMA NoFillNoChange ==
    ASSUME TInv, Recorded, NEW e, Handle(e), Recorded', Fills' = Fills,
           records' = records \cup {RecordAt(e)}, RecordAt(e).outcome \notin Fills,
           states'[e.instrument].position = states[e.instrument].position
    PROVE  OpenRecords' = OpenRecords /\ ClosedTrades' = ClosedTrades
<1>1. FillRecords' = FillRecords
  BY DEF FillRecords
<1>2. \A r \in FillRecords :
          states'[r.event.instrument].position = states[r.event.instrument].position
  <2>1. TAKE r \in FillRecords
  <2>2. r.event.instrument \in Instruments
    BY FillIsRecorded
  <2>3. QED
    BY <2>2, Stepped DEF TInv, RInv
<1>3. OpenRecords' = OpenRecords
  BY <1>1, <1>2 DEF OpenRecords
<1>4. \A a, b : Follows(a, b)' <=> Follows(a, b)
  BY DEF Follows
<1>5. QED
  BY <1>1, <1>3, <1>4 DEF TradePairs, ClosedTrades

\* A new fill is later than all of its instrument.
LEMMA FillIsLatest ==
    ASSUME TInv, Recorded, quotes \subseteq QuoteUniverse, NEW e, Handle(e),
           NEW s, s = states[e.instrument], Tried(e, s),
           AttemptAt(e).outcome.status = "filled",
           records' = records \cup {RecordAt(e)}
    PROVE  LET a == AttemptAt(e) IN
           /\ Fills' = Fills \cup {a} /\ a \notin Fills
           /\ FillRecords' = FillRecords \cup {RecordAt(e)}
           /\ a.action.instrument = e.instrument /\ Time(a) = e.time /\ e.time \in Int
           /\ \A b \in FillsOf(e.instrument) : Time(b) \in Int /\ Time(b) < e.time
           /\ \A r \in FillRecords :
                 r.event.instrument = e.instrument => r.event.time < e.time
           /\ \A b, c \in Fills : Follows(b, c)' <=> Follows(b, c)
           /\ \A b : b = a => \A c \in Fills : ~Follows(b, c)'
<1> DEFINE a == AttemptAt(e)
           F == FillsOf(e.instrument)
<1>1. /\ e \in events \ done /\ e.instrument \in Instruments /\ e.time \in Int
  BY Stepped, EventsAssumption DEF TInv, RInv
<1>2. /\ a \notin attempts /\ a.action = s.pending /\ a.opportunity = e
      /\ s.pending.instrument = e.instrument /\ s.pending.time < e.time
      /\ s.pending \in Signals(events) /\ s.pending # NoAction
  BY AttemptIsNew DEF Recorded, Tried
<1>3. Fills' = Fills \cup {a} /\ a \notin Fills
  BY <1>2 DEF Fills, Tried
<1>4. \A b \in F : Time(b) \in Int /\ Time(b) < e.time
  <2>1. s.pending.time \in Int
    BY <1>2, EventsAssumption DEF Signals, TInv, RInv, Replayed, TypeOK
  <2>2. \A b \in F : Time(b) \in Int /\ Time(b) <= s.pending.time
    BY <1>1, <1>2 DEF TInv, Turns
  <2>3. QED
    BY <1>1, <1>2, <2>1, <2>2
<1>5. RecordAt(e).outcome = a
  BY AttemptIsRecorded DEF Recorded
<1>6. FillRecords' = FillRecords \cup {RecordAt(e)}
  <2>1. \A r \in records : r.outcome # a
    <3>1. \A r \in records : r.outcome \in attempts \/ r.outcome = NoOutcome
      BY DEF Recorded, RecordHolds
    <3>2. a # NoOutcome
      BY AttemptIsNew, EvidenceAssumption DEF Recorded, AttemptRecords, Outcomes
    <3>3. QED
      BY <1>2, <3>1, <3>2
  <2> HIDE DEF a
  <2>2. QED
    BY <1>3, <1>5, <2>1 DEF FillRecords
<1> HIDE DEF a
<1>7. Time(a) = e.time /\ a.action.instrument = e.instrument
  BY <1>2 DEF Time
<1>8. \A r \in FillRecords : r.event.instrument = e.instrument => r.event.time < e.time
  <2>1. TAKE r \in FillRecords
  <2>2. r.outcome \in FillsOf(r.event.instrument) /\ Time(r.outcome) = r.event.time
    BY FillIsRecorded
  <2>3. QED
    BY <1>4, <2>2
<1>9. \A c \in Fills : c.action.instrument = e.instrument => Time(c) \in Int /\ Time(c) < e.time
  BY <1>4 DEF FillsOf
<1>10. \A b, c \in Fills : Follows(b, c)' <=> Follows(b, c)
  <2>1. ASSUME NEW b \in Fills, NEW c \in Fills, b.action.instrument = c.action.instrument
        PROVE  ~(/\ a.action.instrument = b.action.instrument
                 /\ Time(b) < Time(a) /\ Time(a) < Time(c))
    BY <1>1, <1>7, <1>9, <2>1
  <2>2. QED
    BY <1>3, <2>1 DEF Follows
<1>11. \A b : b = a => \A c \in Fills : ~Follows(b, c)'
  BY <1>1, <1>7, <1>9 DEF Follows
<1>12. QED
  BY <1>1, <1>3, <1>4, <1>6, <1>7, <1>8, <1>10, <1>11 DEF a

\* A filled entry is open and in no trade yet.
LEMMA EntryOpens ==
    ASSUME TInv, Recorded, quotes \subseteq QuoteUniverse, NEW e, Handle(e),
           NEW s, s = states[e.instrument], NEW t, t = states'[e.instrument], Entered(e, s, t),
           records' = records \cup {RecordAt(e)}
    PROVE  OpenRecords' = OpenRecords \cup {RecordAt(e)} /\ ClosedTrades' = ClosedTrades
<1> DEFINE a == AttemptAt(e)
           r == RecordAt(e)
<1>1. /\ e.instrument \in Instruments
      /\ \A i \in Instruments \ {e.instrument} : states'[i] = states[i]
  BY Stepped DEF TInv, RInv
<1>2. /\ Fills' = Fills \cup {a} /\ a \notin Fills /\ FillRecords' = FillRecords \cup {r}
      /\ e.time \in Int
      /\ \A q \in FillRecords : q.event.instrument = e.instrument => q.event.time < e.time
      /\ \A b, c \in Fills : Follows(b, c)' <=> Follows(b, c)
      /\ \A b : b = a => \A c \in Fills : ~Follows(b, c)'
  BY FillIsLatest DEF Entered
<1>3. /\ r.event = e /\ r.outcome = a /\ r.action = s.pending /\ r.action.type = "entry"
      /\ r.position = t.position /\ t.position = [opening |-> s.pending, opened |-> e.time]
  <2>1. t.position = [opening |-> s.pending, opened |-> e.time] /\ t.position # NoPosition
    <3>1. t \in InstrumentStates /\ WellFormed(t)
      BY <1>1, ReplayedKept DEF TInv, RInv, Replayed, TypeOK
    <3>2. QED
      BY <3>1 DEF Entered, WellFormed, FlatState
  <2>2. /\ r.event = e /\ r.outcome = a /\ r.action = s.pending
        /\ r.position = IF t.position = NoPosition THEN s.position ELSE t.position
    <3>1. Tried(e, s) /\ Made
      BY DEF Entered, Recorded
    <3>2. QED
      BY <3>1, AttemptIsRecorded
  <2>3. QED
    BY <2>1, <2>2 DEF Entered
<1> HIDE DEF a, r
<1>4. \A q \in FillRecords : /\ q.event.instrument \in Instruments /\ q.position # NoPosition
                             /\ q.action.type = "entry" => q.position.opened = q.event.time
                             /\ q.outcome \in Fills /\ q.event.time \in Int
  <2>1. TAKE q \in FillRecords
  <2>2. q.action.type = "entry" => q.position = [opening |-> q.action, opened |-> q.event.time]
    BY FillIsRecorded
  <2>3. QED
    BY <2>2, FillIsRecorded DEF FillRecords
<1>5. \A q \in FillRecords :
          q.action.type = "entry" =>
             (q.position = states'[q.event.instrument].position
                 <=> q.position = states[q.event.instrument].position)
  <2>1. TAKE q \in FillRecords
  <2>2. CASE q.event.instrument # e.instrument
    BY <1>1, <1>4, <2>2
  <2>3. CASE q.event.instrument = e.instrument
    <3>1. states[q.event.instrument].position = NoPosition
      BY <2>3 DEF Entered
    <3>2. states'[q.event.instrument].position.opened = e.time
      BY <1>3, <2>3
    <3>3. QED
      BY <1>2, <1>4, <2>3, <3>1, <3>2
  <2>4. QED
    BY <2>2, <2>3
<1>6. OpenRecords' = OpenRecords \cup {r}
  BY <1>2, <1>3, <1>5 DEF OpenRecords
<1>7. TradePairs' = TradePairs
  <2>1. ASSUME NEW p \in FillRecords' \X FillRecords'
        PROVE  p \in TradePairs' <=> p \in TradePairs
    <3>1. CASE p[1] \in FillRecords /\ p[2] \in FillRecords
      BY <1>2, <1>4, <3>1 DEF TradePairs
    <3>2. CASE p[2] = r
      <4>1. r \notin FillRecords
        BY <1>2, <1>3, <1>4
      <4>2. QED
        BY <1>3, <3>2, <4>1 DEF TradePairs
    <3>3. CASE p[1] = r /\ p[2] \in FillRecords
      <4>1. r \notin FillRecords
        BY <1>2, <1>3, <1>4
      <4>2. ~Follows(p[1].outcome, p[2].outcome)'
        BY <1>2, <1>3, <1>4, <3>3
      <4>3. QED
        BY <3>3, <4>1, <4>2 DEF TradePairs
    <3>4. QED
      BY <1>2, <2>1, <3>1, <3>2, <3>3
  <2>2. TradePairs \subseteq FillRecords' \X FillRecords'
    BY <1>2 DEF TradePairs
  <2>3. TradePairs' \subseteq FillRecords' \X FillRecords'
    BY DEF TradePairs
  <2>4. QED
    BY <2>1, <2>2, <2>3
<1>8. QED
  BY <1>6, <1>7 DEF ClosedTrades, r

\* A filled exit closes the open entry of its instrument and makes a trade with it.
LEMMA ExitCloses ==
    ASSUME TInv, Recorded, quotes \subseteq QuoteUniverse, NEW e, Handle(e),
           NEW s, s = states[e.instrument], NEW t, t = states'[e.instrument], Exited(e, s, t),
           records' = records \cup {RecordAt(e)},
           NEW o \in OpenRecords, o.event.instrument = e.instrument, o.position = s.position,
           \A b \in FillsOf(e.instrument) : Time(b) <= o.event.time
    PROVE  /\ OpenRecords' = OpenRecords \ {o}
           /\ ClosedTrades' = ClosedTrades \cup {[entry |-> o, exit |-> RecordAt(e)]}
<1> DEFINE a == AttemptAt(e)
           r == RecordAt(e)
<1>1. /\ e.instrument \in Instruments
      /\ \A i \in Instruments \ {e.instrument} : states'[i] = states[i]
  BY Stepped DEF TInv, RInv
<1>2. /\ Fills' = Fills \cup {a} /\ a \notin Fills /\ FillRecords' = FillRecords \cup {r}
      /\ a.action.instrument = e.instrument /\ Time(a) = e.time /\ e.time \in Int
      /\ \A b \in FillsOf(e.instrument) : Time(b) \in Int /\ Time(b) < e.time
      /\ \A b, c \in Fills : Follows(b, c)' <=> Follows(b, c)
      /\ \A b : b = a => \A c \in Fills : ~Follows(b, c)'
  BY FillIsLatest DEF Exited
<1>3. r.event = e /\ r.outcome = a /\ r.action = s.pending /\ r.action.type = "exit"
  <2>1. Tried(e, s) /\ Made /\ s.pending.type = "exit"
    BY DEF Exited, Recorded
  <2>2. QED
    BY <2>1, AttemptIsRecorded
<1> HIDE DEF a, r
<1>4. \A q \in FillRecords : /\ q.event.instrument \in Instruments /\ q.position # NoPosition
                             /\ q.outcome \in FillsOf(q.event.instrument) /\ q.outcome \in Fills
                             /\ Time(q.outcome) = q.event.time /\ q.event.time \in Int
                             /\ q.outcome.action.instrument = q.event.instrument
  BY FillIsRecorded DEF FillRecords
<1>5. o \in FillRecords /\ o.action.type = "entry"
  BY DEF OpenRecords
<1>6. r \notin FillRecords
  BY <1>2, <1>3, <1>4
<1>7. OpenRecords' = OpenRecords \ {o}
  <2>1. ASSUME NEW q \in FillRecords, q.action.type = "entry"
        PROVE  q.position = states'[q.event.instrument].position
                 <=> q.position = states[q.event.instrument].position /\ q # o
    <3>1. CASE q.event.instrument # e.instrument
      BY <1>1, <1>4, <3>1
    <3>2. CASE q.event.instrument = e.instrument
      <4>1. states'[q.event.instrument].position = NoPosition
        <5>1. t.position = NoPosition
          BY DEF Exited, FlatState
        <5>2. QED
          BY <3>2, <5>1
      <4>2. ASSUME q.position = states[q.event.instrument].position PROVE q = o
        <5>1. /\ q.position = [opening |-> q.action, opened |-> q.event.time]
              /\ o.position = [opening |-> o.action, opened |-> o.event.time]
          BY <1>5, <2>1, FillIsRecorded
        <5>2. q.event.time = o.event.time
          BY <3>2, <4>2, <5>1
        <5>3. QED
          BY <1>5, <3>2, <5>2, OneRecordOfFill
      <4>3. QED
        BY <1>4, <4>1, <4>2
    <3>3. QED
      BY <3>1, <3>2
  <2>2. QED
    BY <1>2, <1>3, <2>1 DEF OpenRecords
<1>8. \A b : b = a => \A x \in Fills : Follows(x, b)' <=> x = o.outcome
  <2>1. SUFFICES ASSUME NEW b, b = a, NEW x \in Fills PROVE Follows(x, b)' <=> x = o.outcome
    OBVIOUS
  <2>2. /\ o.outcome \in FillsOf(e.instrument) /\ o.outcome.action.instrument = e.instrument
        /\ Time(o.outcome) = o.event.time /\ o.outcome \in Fills
    BY <1>4, <1>5
  <2>3. ASSUME Follows(x, b)' PROVE x = o.outcome
    <3>1. x \in FillsOf(e.instrument)
      BY <1>2, <2>1, <2>3 DEF Follows, FillsOf
    <3>2. x # o.outcome => Time(x) # Time(o.outcome)
      BY <1>1, <2>2, <3>1 DEF TInv, Turns, Alternate
    <3>3. ~(Time(x) < Time(o.outcome) /\ Time(o.outcome) < Time(b))
      <4>1. o.outcome \in Fills' /\ o.outcome.action.instrument = x.action.instrument
        BY <1>2, <2>2, <3>1 DEF FillsOf
      <4>2. QED
        BY <2>3, <4>1 DEF Follows
    <3>4. Time(x) \in Int /\ Time(x) <= Time(o.outcome) /\ Time(o.outcome) < Time(b)
          /\ Time(o.outcome) \in Int
      BY <1>2, <1>4, <2>1, <2>2, <3>1
    <3>5. QED
      BY <3>2, <3>3, <3>4
  <2>4. ASSUME x = o.outcome PROVE Follows(x, b)'
    <3>1. x.action.instrument = b.action.instrument /\ Time(x) < Time(b)
      BY <1>2, <2>1, <2>2, <2>4
    <3>2. \A c \in Fills' : c.action.instrument = x.action.instrument
             => ~(Time(x) < Time(c) /\ Time(c) < Time(b))
      <4>1. \A c \in Fills : c.action.instrument = e.instrument
               => Time(c) \in Int /\ Time(c) <= o.event.time
        BY <1>2 DEF FillsOf
      <4>2. Time(x) \in Int /\ Time(x) = o.event.time
        BY <1>4, <1>5, <2>2, <2>4
      <4>3. QED
        BY <1>2, <2>1, <2>2, <2>4, <4>1, <4>2
    <3>3. QED
      BY <3>1, <3>2 DEF Follows
  <2>5. QED
    BY <2>3, <2>4
<1>9. TradePairs' = TradePairs \cup {<<o, r>>}
  <2>1. ASSUME NEW p \in FillRecords' \X FillRecords'
        PROVE  p \in TradePairs' <=> p \in TradePairs \cup {<<o, r>>}
    <3>0. p = <<p[1], p[2]>>
      OBVIOUS
    <3>1. CASE p[1] \in FillRecords /\ p[2] \in FillRecords
      BY <1>2, <1>4, <1>6, <3>0, <3>1 DEF TradePairs
    <3>2. CASE p[1] = r
      BY <1>3, <1>5, <1>6, <3>0, <3>2 DEF TradePairs
    <3>3. CASE p[1] \in FillRecords /\ p[2] = r
      <4>1. p[1].outcome \in Fills /\ p[2].outcome = a
        BY <1>3, <1>4, <3>3
      <4>2. Follows(p[1].outcome, p[2].outcome)' <=> p[1].outcome = o.outcome
        BY <1>8, <4>1
      <4>3. p[1].outcome = o.outcome <=> p[1] = o
        <5>1. ASSUME p[1].outcome = o.outcome PROVE p[1] = o
          <6>1. /\ p[1].event.instrument = o.event.instrument
                /\ p[1].event.time = o.event.time
            BY <1>4, <1>5, <3>3, <5>1
          <6>2. QED
            BY <1>5, <3>3, <6>1, OneRecordOfFill
        <5>2. QED
          BY <5>1
      <4>4. p \notin TradePairs
        BY <1>6, <3>3 DEF TradePairs
      <4>5. p \in TradePairs' <=> p[1] = o
        BY <1>2, <1>3, <1>5, <2>1, <3>3, <4>2, <4>3 DEF TradePairs
      <4>6. QED
        BY <3>0, <3>3, <4>4, <4>5
    <3>4. QED
      BY <1>2, <2>1, <3>1, <3>2, <3>3
  <2>2. TradePairs \cup {<<o, r>>} \subseteq FillRecords' \X FillRecords'
    BY <1>2, <1>5 DEF TradePairs
  <2>3. TradePairs' \subseteq FillRecords' \X FillRecords'
    BY DEF TradePairs
  <2>4. QED
    BY <2>1, <2>2, <2>3
<1>10. ClosedTrades' = ClosedTrades \cup {[entry |-> o, exit |-> r]}
  <2>1. ClosedTrades' = {[entry |-> p[1], exit |-> p[2]] : p \in TradePairs \cup {<<o, r>>}}
    BY <1>9 DEF ClosedTrades
  <2>2. <<o, r>>[1] = o /\ <<o, r>>[2] = r
    OBVIOUS
  <2>3. QED
    BY <2>1, <2>2, Zenon DEF ClosedTrades
<1>11. QED
  BY <1>7, <1>10 DEF r

-----------------------------------------------------------------------------
\* A turn of the reader whose record claims the states that it joins.
LEMMA TurnReads ==
    ASSUME NEW run, NEW r, NEW s, NEW o, NEW u, NEW c, NEW t, NEW p, NEW v, NEW d,
           r.header = Header(r.event), s[r.event.instrument].state = r.prior,
           Read(run, Ledger(s, o, u, c), r) = Ledger(t, p, v, d),
           t[r.event.instrument].state = r.resulting
    PROVE  ReadNext(run, Ledger(s, o, u, c), r) = Ledger(t, p, v, d)
<1>1. Ledger(s, o, u, c) # Refused /\ Ledger(t, p, v, d) # Refused
  BY BooksAreNotRefused DEF Ledger
<1>2. Ledger(s, o, u, c).states = s /\ Ledger(t, p, v, d).states = t
  BY DEF Ledger
<1>3. QED
  BY <1>1, <1>2 DEF ReadNext

\* What the reader is given of a run so far.
ReadableAs(run, tried) == run.outcomes = tried /\ run.quotes = quotes

LEMMA CreationReads ==
    ASSUME TInv, Recorded, NEW e, Handle(e), Recorded',
           NEW s, s = states[e.instrument], NEW t, t = states'[e.instrument], Created(e, s, t),
           records' = records \cup {RecordAt(e)}, NEW run
    PROVE  ReadNext(run, Books, RecordAt(e)) = Ledger(states', OpenRecords', Used', ClosedTrades')
<1> DEFINE r == RecordAt(e)
<1>1. /\ e.instrument \in Instruments /\ s \in InstrumentStates
      /\ states' = [states EXCEPT ![e.instrument] = t] /\ e # NoAction
  BY Stepped, NoneAssumption DEF TInv, RInv
<1>2. r = [event |-> e, header |-> Header(e),
           prior |-> s.state, resulting |-> t.state,
           decision |-> "action_created", action |-> e, position |-> s.position,
           attempt |-> NoAttempt, outcome |-> NoOutcome]
  BY CreationIsRecorded
<1>3. attempts' = attempts /\ Fills' = Fills /\ t.position = s.position
  BY DEF Created, Fills
<1>4. r.outcome \notin Fills
  BY <1>2, EvidenceAssumption DEF Fills, Recorded, Made, AttemptRecords, Outcomes
<1>5. OpenRecords' = OpenRecords /\ ClosedTrades' = ClosedTrades /\ Used' = Used
  <2>1. OpenRecords' = OpenRecords /\ ClosedTrades' = ClosedTrades
    BY <1>3, <1>4, NoFillNoChange
  <2>2. QED
    BY <1>3, <2>1 DEF Used
<1>6. /\ r.event = e /\ r.header = Header(e) /\ r.prior = s.state /\ r.resulting = t.state
      /\ r.decision = "action_created" /\ r.action = e /\ r.position = s.position
      /\ r.attempt = NoAttempt /\ r.outcome = NoOutcome
  BY <1>2
<1> HIDE DEF r
<1>7. CreationHolds(s, r)
  BY <1>6 DEF CreationHolds, Created
<1>8. Create(Books, r) = [Books EXCEPT !.states[e.instrument] = t]
  <2>1. Books.states[e.instrument] = s
    BY DEF Books, Ledger
  <2>2. t = [state |-> IF e.type = "entry" THEN "pending_entry" ELSE "pending_exit",
             pending |-> e, position |-> s.position]
    BY DEF Created
  <2>3. QED
    BY <1>6, <1>7, <2>1, <2>2 DEF Create
<1>9. Create(Books, r) = Ledger(states', OpenRecords, Used, ClosedTrades)
  BY <1>1, <1>8 DEF Books, Ledger
<1>10. Read(run, Books, r) = Ledger(states', OpenRecords, Used, ClosedTrades)
  BY <1>6, <1>9 DEF Read
<1>11. /\ r.header = Header(r.event) /\ states[r.event.instrument].state = r.prior
       /\ states'[r.event.instrument].state = r.resulting
  BY <1>6
<1>12. ReadNext(run, Books, r) = Ledger(states', OpenRecords, Used, ClosedTrades)
  BY <1>10, <1>11, TurnReads DEF Books
<1>13. QED
  BY <1>5, <1>12 DEF r

LEMMA IdlenessReads ==
    ASSUME TInv, Recorded, NEW e, Handle(e), Recorded',
           NEW s, s = states[e.instrument], NEW t, t = states'[e.instrument], Idle(e, s, t),
           records' = records \cup {RecordAt(e)}, NEW run
    PROVE  ReadNext(run, Books, RecordAt(e)) = Ledger(states', OpenRecords', Used', ClosedTrades')
<1> DEFINE r == RecordAt(e)
<1>1. e.instrument \in Instruments /\ states' = [states EXCEPT ![e.instrument] = t]
  BY Stepped DEF TInv, RInv
<1>2. /\ r = [event |-> e, header |-> Header(e),
              prior |-> s.state, resulting |-> s.state,
              decision |-> r.decision, action |-> r.action, position |-> r.position,
              attempt |-> NoAttempt, outcome |-> NoOutcome]
      /\ r.decision \in {"rejected", "ignored_redundant", "not_applicable", "ineligible"}
      /\ r.action \in {NoAction, s.pending} /\ r.position \in {NoPosition, s.position}
  BY IdlenessIsRecorded
<1>3. attempts' = attempts /\ Fills' = Fills /\ t = s
  BY DEF Idle, Fills
<1>4. r.outcome \notin Fills
  <2>1. r.outcome = NoOutcome
    BY <1>2
  <2> HIDE DEF r
  <2>2. QED
    BY <2>1, EvidenceAssumption DEF Fills, Recorded, Made, AttemptRecords, Outcomes
<1>5. OpenRecords' = OpenRecords /\ ClosedTrades' = ClosedTrades /\ Used' = Used
  <2>1. OpenRecords' = OpenRecords /\ ClosedTrades' = ClosedTrades
    BY <1>3, <1>4, NoFillNoChange
  <2>2. QED
    BY <1>3, <2>1 DEF Used
<1> HIDE DEF r
<1>6. /\ r.event = e /\ r.header = Header(e) /\ r.prior = s.state /\ r.resulting = s.state
      /\ r.attempt = NoAttempt /\ r.outcome = NoOutcome
  BY <1>2
<1>7. states' = states
  BY <1>1, <1>3 DEF TInv, RInv, Replayed
<1>8. Read(run, Books, r) = Books
  <2>1. Books.states[e.instrument] = s
    BY DEF Books, Ledger
  <2>2. QED
    BY <1>2, <1>6, <2>1 DEF Read, InactionHolds
<1>9. ReadNext(run, Books, r) = Books
  BY <1>6, <1>8, TurnReads DEF Books
<1>10. QED
  BY <1>5, <1>7, <1>9 DEF r, Books

\* What every attempt has that is read.
AttemptRead(e, s, t, a, r, run) ==
    /\ r.event = e /\ r.header = Header(e)
    /\ r.prior = s.state /\ r.outcome = a /\ r.resulting = t.state
    /\ r.action = s.pending /\ r.outcome # NoOutcome /\ r.decision # "action_created"
    /\ r.decision = IF a.outcome.status = "filled" THEN "action_filled"
                    ELSE IF a.outcome.status = "unfilled" THEN "attempt_unfilled"
                    ELSE "attempt_rejected"
    /\ r.position = IF t.position = NoPosition THEN s.position ELSE t.position
    /\ Books.states[e.instrument] = s /\ ExecutionHolds(run, Books.used, s, r)

Counted(books, r) == [books EXCEPT !.used = @ \cup {r.attempt}]

LEMMA AttemptReads ==
    ASSUME TInv, Recorded, quotes \subseteq QuoteUniverse, NEW e, Handle(e),
           NEW s, s = states[e.instrument], Tried(e, s), NEW r, r = RecordAt(e),
           NEW run, ReadableAs(run, attempts')
    PROVE  /\ AttemptRead(e, s, states'[e.instrument], AttemptAt(e), r, run)
           /\ Counted(Books, r) = Ledger(states, OpenRecords, Used', ClosedTrades)
<1> DEFINE a == AttemptAt(e)
           t == states'[e.instrument]
<1>1. r = [event |-> e, header |-> Header(e),
           prior |-> s.state, resulting |-> t.state,
           decision |-> IF a.outcome.status = "filled" THEN "action_filled"
                        ELSE IF a.outcome.status = "unfilled" THEN "attempt_unfilled"
                        ELSE "attempt_rejected",
           action |-> s.pending,
           position |-> IF t.position = NoPosition THEN s.position ELSE t.position,
           attempt |-> AttemptOf(a), outcome |-> a]
  BY AttemptIsRecorded DEF Recorded
<1>2. /\ a \in AttemptRecords /\ a.action = s.pending /\ a.opportunity = e
      /\ s.pending.time < e.time /\ a.outcome.quote \in quotes \cup {NoQuote}
  BY AttemptIsNew DEF Recorded
<1>3. a # NoOutcome
  BY <1>2, EvidenceAssumption DEF AttemptRecords, Outcomes
<1>4. attempts' = attempts \cup {a} /\ e.kind = "opportunity" /\ s.pending # NoAction
  BY DEF Tried
<1>5. AttemptOf(a) \notin Used
  <2>1. \A b \in attempts : b.opportunity # e
    BY Stepped DEF TInv, RInv, Attempted, Opportunities
  <2>2. AttemptOf(a).opportunity = e
    BY <1>2 DEF AttemptOf
  <2>3. QED
    BY <2>1, <2>2 DEF Used, AttemptOf
<1>6. e.time > s.pending.time
  <2>1. e.time \in Int /\ s.pending.time \in Int
    <3>1. s.pending \in Universe /\ e \in Universe
      BY Stepped, AttemptIsNew DEF Recorded, Signals, TInv, RInv, Replayed, TypeOK
    <3>2. QED
      BY <3>1, EventsAssumption
  <2>2. QED
    BY <1>2, <2>1
<1> HIDE DEF a, t
<1>7. /\ r.event = e /\ r.header = Header(e) /\ r.prior = s.state /\ r.resulting = t.state
      /\ r.outcome = a /\ r.action = s.pending /\ r.attempt = AttemptOf(a)
      /\ r.decision # "action_created"
  BY <1>1
<1>8. Books.states[e.instrument] = s /\ Books.used = Used
  BY DEF Books, Ledger
<1>9. ExecutionHolds(run, Used, s, r)
  <2>1. AttemptOf(a) = [action |-> s.pending, opportunity |-> e]
    BY <1>2 DEF AttemptOf
  <2>2. QED
    BY <1>2, <1>4, <1>5, <1>6, <1>7, <2>1 DEF ExecutionHolds, ReadableAs
<1>10. Used' = Used \cup {AttemptOf(a)}
  BY <1>4 DEF Used
<1>11. Counted(Books, r) = Ledger(states, OpenRecords, Used', ClosedTrades)
  BY <1>7, <1>10 DEF Books, Ledger, Counted
<1>12. /\ r.decision = IF a.outcome.status = "filled" THEN "action_filled"
                       ELSE IF a.outcome.status = "unfilled" THEN "attempt_unfilled"
                       ELSE "attempt_rejected"
       /\ r.position = IF t.position = NoPosition THEN s.position ELSE t.position
  BY <1>1
<1>13. AttemptRead(e, s, t, a, r, run)
  BY <1>3, <1>7, <1>8, <1>9, <1>12 DEF AttemptRead
<1>14. QED
  BY <1>11, <1>13 DEF a, t

LEMMA FailureReads ==
    ASSUME TInv, Recorded, quotes \subseteq QuoteUniverse, NEW e, Handle(e), Recorded',
           NEW s, s = states[e.instrument], NEW t, t = states'[e.instrument], Failed(e, s, t),
           records' = records \cup {RecordAt(e)}, NEW run, ReadableAs(run, attempts')
    PROVE  ReadNext(run, Books, RecordAt(e)) = Ledger(states', OpenRecords', Used', ClosedTrades')
<1> DEFINE r == RecordAt(e)
           a == AttemptAt(e)
<1>1. e.instrument \in Instruments /\ states' = [states EXCEPT ![e.instrument] = t]
  BY Stepped DEF TInv, RInv
<1>2. Tried(e, s) /\ a.outcome.status # "filled" /\ t = s /\ attempts' = attempts \cup {a}
  BY DEF Failed, Tried
<1>3. /\ AttemptRead(e, s, t, a, r, run)
      /\ Counted(Books, r) = Ledger(states, OpenRecords, Used', ClosedTrades)
  BY <1>2, AttemptReads
<1> USE DEF AttemptRead
<1>4. /\ r.decision = IF a.outcome.status = "unfilled" THEN "attempt_unfilled"
                                                       ELSE "attempt_rejected"
      /\ r.position = s.position
  BY <1>2, <1>3
<1>5. Fills' = Fills /\ r.outcome \notin Fills
  BY <1>2, <1>3 DEF Fills
<1>6. OpenRecords' = OpenRecords /\ ClosedTrades' = ClosedTrades
  BY <1>2, <1>5, NoFillNoChange
<1> HIDE DEF a, r
<1>7. states' = states
  BY <1>1, <1>2 DEF TInv, RInv, Replayed
<1>8. FailureHolds(s, r)
  BY <1>3, <1>4 DEF FailureHolds
<1>9. Execute(run, Books, r) = Ledger(states, OpenRecords, Used', ClosedTrades)
  BY <1>2, <1>3, <1>8 DEF Execute, Counted
<1>10. Read(run, Books, r) = Ledger(states, OpenRecords, Used', ClosedTrades)
  BY <1>3, <1>9 DEF Read
<1>11. /\ r.header = Header(r.event) /\ states[r.event.instrument].state = r.prior
       /\ states[r.event.instrument].state = r.resulting
  BY <1>2, <1>3
<1>12. ReadNext(run, Books, r) = Ledger(states, OpenRecords, Used', ClosedTrades)
  <2> DEFINE after == Ledger(states, OpenRecords, Used', ClosedTrades)
  <2>1. Books.states = states /\ after.states = states
    BY DEF Books, Ledger
  <2>2. Books # Refused /\ after # Refused
    BY BooksAreNotRefused DEF Books, Ledger
  <2> HIDE DEF after
  <2>3. QED
    BY <1>10, <1>11, <2>1, <2>2 DEF ReadNext, after
<1>13. QED
  BY <1>6, <1>7, <1>12 DEF r

LEMMA EntryReads ==
    ASSUME TInv, Recorded, quotes \subseteq QuoteUniverse, NEW e, Handle(e), Recorded',
           NEW s, s = states[e.instrument], NEW t, t = states'[e.instrument], Entered(e, s, t),
           records' = records \cup {RecordAt(e)}, NEW run, ReadableAs(run, attempts')
    PROVE  ReadNext(run, Books, RecordAt(e)) = Ledger(states', OpenRecords', Used', ClosedTrades')
<1> DEFINE r == RecordAt(e)
           a == AttemptAt(e)
<1>1. e.instrument \in Instruments /\ states' = [states EXCEPT ![e.instrument] = t]
  BY Stepped DEF TInv, RInv
<1>2. /\ Tried(e, s) /\ a.outcome.status = "filled" /\ attempts' = attempts \cup {a}
      /\ s.pending.type = "entry" /\ s.position = NoPosition
      /\ t = [state |-> "holding", pending |-> NoAction,
              position |-> [opening |-> s.pending, opened |-> e.time]]
  BY DEF Entered, Tried
<1>3. /\ AttemptRead(e, s, t, a, r, run)
      /\ Counted(Books, r) = Ledger(states, OpenRecords, Used', ClosedTrades)
  BY <1>2, AttemptReads
<1> USE DEF AttemptRead
<1>4. OpenRecords' = OpenRecords \cup {r} /\ ClosedTrades' = ClosedTrades
  BY EntryOpens
<1>5. FillHolds(r)
  <2>1. r \in records' /\ r.outcome \in attempts'
    BY <1>2, <1>3
  <2>2. RecordHolds(r, attempts')
    BY NewRecordHolds DEF Recorded
  <2>3. QED
    BY <1>2, <1>3, <2>2 DEF RecordHolds
<1> HIDE DEF a, r
<1>6. r.position = [opening |-> s.pending, opened |-> e.time]
  BY <1>2, <1>3, <1>5 DEF FillHolds
<1>7. [state |-> "holding", pending |-> NoAction, position |-> r.position] = t
  BY <1>2, <1>6
<1>8. Open(Ledger(states, OpenRecords, Used', ClosedTrades), r)
        = Ledger(states', OpenRecords', Used', ClosedTrades)
  BY <1>1, <1>3, <1>4, <1>5, <1>7 DEF Open, Ledger
<1>9. Execute(run, Books, r) = Ledger(states', OpenRecords', Used', ClosedTrades)
  BY <1>2, <1>3, <1>8 DEF Execute, Counted
<1>10. Read(run, Books, r) = Ledger(states', OpenRecords', Used', ClosedTrades)
  BY <1>3, <1>9 DEF Read
<1>11. /\ r.header = Header(r.event) /\ states[r.event.instrument].state = r.prior
       /\ states'[r.event.instrument].state = r.resulting
  BY <1>3
<1>12. ReadNext(run, Books, r) = Ledger(states', OpenRecords', Used', ClosedTrades)
  BY <1>10, <1>11, TurnReads DEF Books
<1>13. QED
  BY <1>4, <1>12 DEF r

LEMMA ExitReads ==
    ASSUME TInv, LaterSignals, Recorded, quotes \subseteq QuoteUniverse, NEW e, Handle(e),
           Recorded',
           NEW s, s = states[e.instrument], NEW t, t = states'[e.instrument], Exited(e, s, t),
           records' = records \cup {RecordAt(e)}, NEW run, ReadableAs(run, attempts')
    PROVE  ReadNext(run, Books, RecordAt(e)) = Ledger(states', OpenRecords', Used', ClosedTrades')
<1> DEFINE r == RecordAt(e)
           a == AttemptAt(e)
<1>1. /\ e.instrument \in Instruments /\ states' = [states EXCEPT ![e.instrument] = t]
      /\ e.time \in Int
  BY Stepped, EventsAssumption DEF TInv, RInv
<1>2. /\ Tried(e, s) /\ a.outcome.status = "filled" /\ attempts' = attempts \cup {a}
      /\ s.pending.type = "exit" /\ s.position # NoPosition /\ t = FlatState
      /\ s.pending # NoAction
  BY DEF Exited, Tried
<1>3. /\ AttemptRead(e, s, t, a, r, run)
      /\ Counted(Books, r) = Ledger(states, OpenRecords, Used', ClosedTrades)
  BY <1>2, AttemptReads
<1> USE DEF AttemptRead
<1>4. PICK o \in OpenRecords :
          /\ o.event.instrument = e.instrument /\ o.position = s.position
          /\ o.action = s.position.opening /\ o.event.time = s.position.opened
          /\ \A b \in FillsOf(e.instrument) : Time(b) <= o.event.time
          /\ \A q \in OpenRecords :
                q.event.instrument = e.instrument \/ q.action = s.position.opening => q = o
  BY <1>1, <1>2, OneIsOpen
<1>5. /\ OpenRecords' = OpenRecords \ {o}
      /\ ClosedTrades' = ClosedTrades \cup {[entry |-> o, exit |-> r]}
  BY <1>4, ExitCloses
<1>6. FillHolds(r)
  <2>1. RecordHolds(r, attempts')
    BY NewRecordHolds DEF Recorded
  <2>2. QED
    BY <1>2, <1>3, <2>1 DEF RecordHolds
<1>7. r.position = s.position
  <2>1. t.position = NoPosition
    BY <1>2 DEF FlatState
  <2>2. QED
    BY <1>3, <2>1
<1>8. /\ FillHolds(o) /\ o.action.type = "entry"
      /\ \A q \in FillRecords : q.event.instrument = e.instrument => q.event.time < e.time
  BY FillIsRecorded, FillIsLatest, <1>2 DEF OpenRecords
<1>9. e.time > o.event.time /\ s.pending.time > o.event.time
  <2>1. s.position.opened < s.pending.time
    BY <1>1, <1>2 DEF LaterSignals
  <2>2. o.event.time < e.time
    BY <1>4, <1>8 DEF OpenRecords
  <2>3. QED
    BY <1>4, <2>1, <2>2
<1> HIDE DEF a, r
<1>10. TradeHolds(o, r)
  BY <1>2, <1>3, <1>4, <1>6, <1>7, <1>8, <1>9 DEF TradeHolds
<1> DEFINE counted == Ledger(states, OpenRecords, Used', ClosedTrades)
           opening == {q \in OpenRecords : q.action = r.position.opening}
<1>11. opening = {o}
  BY <1>4, <1>7
<1> HIDE DEF opening
<1>12. Close(counted, r) = Ledger(states', OpenRecords', Used', ClosedTrades')
  <2>1. /\ counted.states = states /\ counted.openings = OpenRecords
        /\ counted.trades = ClosedTrades
    BY DEF Ledger
  <2>2. r.position # NoPosition /\ r.position = counted.states[e.instrument].position
    BY <1>2, <1>7, <2>1
  <2>3. opening # {} /\ ~\E q \in opening : ~TradeHolds(q, r)
    BY <1>10, <1>11
  <2>4. {[entry |-> q, exit |-> r] : q \in opening} = {[entry |-> o, exit |-> r]}
    BY <1>11
  <2>5. Close(counted, r) =
          [counted EXCEPT !.states[e.instrument] = FlatState, !.openings = @ \ opening,
                          !.trades = @ \cup {[entry |-> q, exit |-> r] : q \in opening}]
    BY <1>3, <2>1, <2>2, <2>3 DEF Close, opening
  <2>6. QED
    BY <1>1, <1>2, <1>5, <1>11, <2>4, <2>5 DEF Ledger
<1>13. Execute(run, Books, r) = Ledger(states', OpenRecords', Used', ClosedTrades')
  BY <1>2, <1>3, <1>12 DEF Execute, Counted
<1>14. Read(run, Books, r) = Ledger(states', OpenRecords', Used', ClosedTrades')
  BY <1>3, <1>13 DEF Read
<1>15. /\ r.header = Header(r.event) /\ states[r.event.instrument].state = r.prior
       /\ states'[r.event.instrument].state = r.resulting
  BY <1>3
<1>16. ReadNext(run, Books, r) = Ledger(states', OpenRecords', Used', ClosedTrades')
  BY <1>14, <1>15, TurnReads DEF Books
<1>17. QED
  BY <1>16 DEF r

\* Whatever the event is, the reader makes of its record what the loop makes of the event.
LEMMA EventReads ==
    ASSUME TInv, LaterSignals, Recorded, quotes \subseteq QuoteUniverse, NEW e, Handle(e),
           records' = records \cup {RecordAt(e)}, NEW run, ReadableAs(run, attempts')
    PROVE  ReadNext(run, Books, RecordAt(e)) = Ledger(states', OpenRecords', Used', ClosedTrades')
<1>1. Recorded'
  BY RecordedKept
<1> DEFINE s == states[e.instrument]
           t == states'[e.instrument]
<1>2. Created(e, s, t) \/ Idle(e, s, t) \/ Failed(e, s, t) \/ Entered(e, s, t) \/ Exited(e, s, t)
  BY EventDoes DEF TInv, RInv
<1>3. CASE Created(e, s, t)
  BY <1>1, <1>3, CreationReads
<1>4. CASE Idle(e, s, t)
  BY <1>1, <1>4, IdlenessReads
<1>5. CASE Failed(e, s, t)
  BY <1>1, <1>5, FailureReads
<1>6. CASE Entered(e, s, t)
  BY <1>1, <1>6, EntryReads
<1>7. CASE Exited(e, s, t)
  BY <1>1, <1>7, ExitReads
<1>8. QED
  BY <1>2, <1>3, <1>4, <1>5, <1>6, <1>7

-----------------------------------------------------------------------------
\* The record of an event is the one that names it.
LEMMA RecordIsFound ==
    ASSUME NEW run, NEW r \in run.records,
           \A p, q \in run.records : p.event = q.event => p = q
    PROVE  RecordFor(run, r.event) = r
<1> DEFINE q == CHOOSE q \in run.records : q.event = r.event
<1>1. q \in run.records /\ q.event = r.event
  OBVIOUS
<1> HIDE DEF q
<1>2. q = r
  BY <1>1
<1>3. QED
  BY <1>2 DEF RecordFor, q

\* The reader has read what was handled, and has in its books what the loop left behind.
TraceRead ==
    /\ Ordered(done) \in Seq(done)
    /\ \A e \in done : \E k \in 1 .. Len(Ordered(done)) : Ordered(done)[k] = e
    /\ ReadAll(Evidence, Ordered(done)).books = Books

TradeInv == TInv /\ Replays /\ LaterSignals /\ Recorded /\ TraceRead

LEMMA TraceReadKept ==
    ASSUME TradeInv, NEW e, Handle(e), records' = records \cup {RecordAt(e)}
    PROVE  TraceRead'
<1> DEFINE s == Ordered(done)
           run == Evidence
           other == Evidence'
           r == RecordAt(e)
<1> USE DEF TradeInv
<1>1. /\ e \in events \ done /\ e \in Universe
      /\ done' = done \cup {e} /\ events' = events /\ quotes' = quotes
      /\ done \subseteq Universe /\ quotes \subseteq QuoteUniverse
  BY Stepped DEF TInv, RInv, Replayed, TypeOK, Replays
<1>2. Ordered(done') = Append(s, e)
  <2>1. ~Before(e, e) /\ \A f \in done : Before(f, e) /\ ~Before(e, f) /\ ~Before(f, f)
    BY <1>1, EventsAssumption DEF TInv, RInv, InOrder, Before, Precedence
  <2>2. QED
    BY <1>1, <2>1, OrderedAppend DEF Replays
<1>3. s \in Seq(done) /\ s \in Seq(done') /\ Append(s, e) \in Seq(done')
  <2>1. s \in Seq(done)
    BY DEF TraceRead
  <2> HIDE DEF s
  <2>2. s \in Seq(done')
    BY <1>1, <2>1
  <2>3. QED
    BY <1>1, <2>1, <2>2, AppendProperties
<1>4. Recorded /\ Recorded'
  BY <1>1, RecordedKept
<1>5. \A d \in done' : \E k \in 1 .. Len(Append(s, e)) : Append(s, e)[k] = d
  <2>1. \A d \in done : \E k \in 1 .. Len(s) : s[k] = d
    BY DEF TraceRead
  <2> HIDE DEF s
  <2>2. /\ Len(Append(s, e)) = Len(s) + 1 /\ Append(s, e)[Len(s) + 1] = e /\ Len(s) \in Nat
        /\ \A k \in 1 .. Len(s) : Append(s, e)[k] = s[k]
    BY <1>3, AppendProperties, LenProperties
  <2>3. QED
    BY <1>1, <2>1, <2>2
<1>6. /\ run.records = records /\ run.outcomes = attempts /\ run.quotes = quotes
      /\ other.records = records' /\ other.outcomes = attempts' /\ other.quotes = quotes
  BY <1>1 DEF Evidence
<1> HIDE DEF run, other, s, r
<1>7. /\ \A q \in records : q \in records' /\ RecordFor(run, q.event) = q
      /\ \A q \in records' : RecordFor(other, q.event) = q
  BY <1>4, <1>6, RecordIsFound DEF Recorded
<1>8. \A d \in done : RecordFor(run, d) = RecordFor(other, d)
  <2>1. TAKE d \in done
  <2>2. PICK q \in records : q.event = d
    BY <1>4 DEF Recorded
  <2>3. QED
    BY <1>7, <2>2
<1>9. RecordFor(other, e) = r
  <2>1. r \in records' /\ r.event = e
    BY DEF r, RecordAt, RecordOf
  <2>2. QED
    BY <1>7, <2>1
<1>10. attempts \subseteq attempts'
  BY DEF Handle
<1>11. ReadAll(run, s).books = Books /\ Books # Refused
  BY BooksAreNotRefused DEF TraceRead, Books, Ledger, run, s
<1>12. ReadAll(other, s).books = Books
  BY <1>3, <1>6, <1>8, <1>10, <1>11, RunsAgree
<1>13. ReadAll(other, s) = [run |-> other, books |-> Books]
  BY <1>3, <1>12, ReadsItsRun
<1>14. ReadAll(other, Append(s, e))
         = [run |-> other, books |-> ReadNext(other, Books, RecordFor(other, e))]
  BY <1>1, <1>3, <1>13, ReadGoesOn
<1>15. ReadNext(other, Books, r) = Ledger(states', OpenRecords', Used', ClosedTrades')
  BY <1>1, <1>4, <1>6, EventReads DEF ReadableAs, r
<1>16. ReadAll(other, Append(s, e)).books = Books'
  BY <1>9, <1>14, <1>15 DEF Books, Ledger
<1>17. QED
  BY <1>5, <1>2, <1>3, <1>16 DEF TraceRead, other

LEMMA StartsRead == ReconstructionInit => LaterSignals /\ Recorded /\ TraceRead
<1>1. SUFFICES ASSUME ReconstructionInit PROVE LaterSignals /\ Recorded /\ TraceRead
  OBVIOUS
<1>2. /\ done = {} /\ attempts = {} /\ records = {}
      /\ states = [i \in Instruments |-> FlatState]
  BY <1>1 DEF ReconstructionInit, Init
<1>3. Ordered(done) = <<>>
  <2>1. IsFiniteSet({}) /\ Cardinality({}) = 0
    BY FS_EmptySet
  <2>2. QED
    BY <1>2, <2>1 DEF Ordered, Sorted
<1>4. LaterSignals
  BY <1>2 DEF LaterSignals, FlatState
<1>5. Recorded
  BY <1>2 DEF Recorded, Made
<1>6. Books = Blank
  <2>1. FillRecords = {} /\ Used = {}
    BY <1>2 DEF FillRecords, Used
  <2>2. OpenRecords = {} /\ TradePairs = {}
    BY <2>1 DEF OpenRecords, TradePairs
  <2>3. ClosedTrades = {}
    BY <2>2 DEF ClosedTrades
  <2>4. QED
    BY <1>2, <2>1, <2>2, <2>3 DEF Books, Ledger, Blank
<1>7. TraceRead
  <2>1. \A e \in done : \E k \in 1 .. Len(Ordered(done)) : Ordered(done)[k] = e
    BY <1>2
  <2>2. QED
    BY <1>3, <1>6, <2>1, ReadStarts, EmptySeq DEF TraceRead
<1>8. QED
  BY <1>4, <1>5, <1>7

\* A step of the loop with its trace is the handling of one event, whose record it adds.
LEMMA NextRecords ==
    ASSUME Replayed, ReconstructionNext
    PROVE  \E e \in events : Handle(e) /\ records' = records \cup {RecordAt(e)}
<1>1. PICK e \in events : Handle(e)
  BY NextHandles DEF ReconstructionNext
<1>2. done' \ done = {e}
  BY <1>1, Stepped
<1>3. records' = records \cup {RecordAt(e)}
  BY <1>2 DEF ReconstructionNext, RecordAt
<1>4. QED
  BY <1>1, <1>3

LEMMA TradeInvAlways == ReconstructionSpec => []TradeInv
<1> DEFINE Trace == LaterSignals /\ Recorded /\ TraceRead
<1>1. ASSUME TInv, Replays, Trace, [ReconstructionNext]_reconstructionVars PROVE Trace'
  <2>1. CASE ReconstructionNext
    <3>1. PICK e \in events : Handle(e) /\ records' = records \cup {RecordAt(e)}
      BY <1>1, <2>1, NextRecords DEF TInv, RInv
    <3>2. LaterSignals'
      BY <1>1, <3>1, LaterSignalsKept
    <3>3. Recorded'
      BY <1>1, <3>1, RecordedKept DEF Replays
    <3>4. TraceRead'
      BY <1>1, <3>1, TraceReadKept DEF TradeInv
    <3>5. QED
      BY <3>2, <3>3, <3>4
  <2>2. CASE UNCHANGED reconstructionVars
    BY <1>1, <2>2 DEF reconstructionVars, vars, LaterSignals, Recorded, Made, TraceRead,
       Evidence, Fills, Books, OpenRecords, FillRecords, Used, ClosedTrades, TradePairs, Follows
  <2>3. QED
    BY <1>1, <2>1, <2>2
<1>2. ReconstructionInit => Trace
  BY StartsRead
<1>3. ReconstructionInit => Init
  BY DEF ReconstructionInit
<1>4. [ReconstructionNext]_reconstructionVars => [Next]_vars
  BY DEF ReconstructionNext, reconstructionVars, vars
<1>5. ReconstructionSpec => Spec
  BY <1>3, <1>4, PTL DEF ReconstructionSpec, Spec
<1>6. TInv /\ Replays /\ Trace => TradeInv
  BY DEF TradeInv
<1> HIDE DEF Trace
<1>7. QED
  BY <1>1, <1>2, <1>5, <1>6, TInvAlways, ReplaysAlways, PTL DEF ReconstructionSpec

-----------------------------------------------------------------------------
\* Of the fills of an instrument that are later than one of them, one is next.
LEMMA NextFillExists ==
    ASSUME TInv, NEW i \in Instruments, NEW a \in FillsOf(i), NEW c \in FillsOf(i),
           Time(a) < Time(c)
    PROVE  \E b \in Fills : Follows(a, b)
<1> DEFINE Later == {b \in FillsOf(i) : Time(a) < Time(b)}
           Gaps == {Time(b) - Time(a) : b \in Later}
           Shorter == {p \in Nat \X Nat : p[1] < p[2]}
<1>1. \A b \in FillsOf(i) : Time(b) \in Int
  BY DEF TInv, Turns
<1>2. Gaps \subseteq Nat /\ Gaps # {}
  BY <1>1
<1>3. IsWellFoundedOn(Shorter, Nat)
  BY NatLessThanWellFounded, Zenon DEF OpToRel
<1> HIDE DEF Gaps, Shorter
<1>4. PICK n \in Gaps : \A m \in Gaps : <<m, n>> \notin Shorter
  BY <1>2, <1>3, WFMin
<1>5. PICK b \in Later : n = Time(b) - Time(a)
  BY DEF Gaps
<1>6. \A d \in Later : ~(Time(d) < Time(b))
  <2>1. TAKE d \in Later
  <2>2. Time(d) - Time(a) \in Gaps
    BY DEF Gaps
  <2>3. ~(Time(d) - Time(a) < n)
    <3>1. Time(d) - Time(a) \in Nat /\ n \in Nat
      BY <1>2, <2>2
    <3>2. <<Time(d) - Time(a), n>> \notin Shorter
      BY <1>4, <2>2
    <3>3. QED
      BY <3>1, <3>2 DEF Shorter
  <2>4. QED
    BY <1>1, <1>5, <2>3
<1>7. \A d \in Fills : d.action.instrument = a.action.instrument => d \in FillsOf(i)
  BY DEF FillsOf
<1>8. QED
  BY <1>5, <1>6, <1>7 DEF Follows, FillsOf

\* The open entries are those that no fill followed.
LEMMA OpenIsNotFollowed ==
    ASSUME TInv, Recorded
    PROVE  {o.outcome : o \in OpenRecords}
               = {a \in {b \in Fills : b.action.type = "entry"} : ~\E b \in Fills : Follows(a, b)}
<1>1. ASSUME NEW o \in OpenRecords
      PROVE  /\ o.outcome \in Fills /\ o.outcome.action.type = "entry"
             /\ ~\E b \in Fills : Follows(o.outcome, b)
  <2> DEFINE i == o.event.instrument
  <2>1. /\ o \in FillRecords /\ o.action.type = "entry" /\ o.position = states[i].position
        /\ i \in Instruments /\ o.position # NoPosition /\ o.action = o.outcome.action
        /\ o.outcome \in FillsOf(i) /\ Time(o.outcome) = o.event.time
    BY FillIsRecorded DEF OpenRecords
  <2>2. \A b \in FillsOf(i) : Time(b) <= o.event.time /\ Time(b) \in Int
    <3>1. PICK q \in OpenRecords : /\ \A b \in FillsOf(i) : Time(b) <= q.event.time
                                   /\ \A p \in OpenRecords : p.event.instrument = i => p = q
      BY <2>1, OneIsOpen
    <3>2. \A b \in FillsOf(i) : Time(b) \in Int
      BY <2>1 DEF TInv, Turns
    <3>3. QED
      BY <3>1, <3>2
  <2>3. ASSUME NEW b \in Fills, Follows(o.outcome, b) PROVE FALSE
    <3>1. b \in FillsOf(i) /\ Time(o.outcome) < Time(b)
      BY <2>1, <2>3 DEF Follows, FillsOf
    <3>2. Time(b) <= Time(o.outcome) /\ Time(b) \in Int /\ Time(o.outcome) \in Int
      BY <2>1, <2>2, <3>1
    <3>3. QED
      BY <3>1, <3>2
  <2>4. QED
    BY <2>1, <2>3 DEF FillsOf
<1>2. ASSUME NEW a \in Fills, a.action.type = "entry", ~\E b \in Fills : Follows(a, b)
      PROVE  \E o \in OpenRecords : o.outcome = a
  <2> DEFINE i == a.action.instrument
             F == FillsOf(i)
  <2>1. PICK r \in FillRecords : r.outcome = a
    BY FillHasRecord
  <2>2. /\ i \in Instruments /\ a \in F /\ r.event.instrument = i /\ r.action = a.action
        /\ r.position = [opening |-> r.action, opened |-> r.event.time] /\ Time(a) = r.event.time
    BY <1>2, <2>1, FillIsRecorded DEF FillsOf
  <2>3. Turns(F, states[i])
    BY <2>2 DEF TInv
  <2>4. \A b \in F : ~(Time(a) < Time(b))
    BY <1>2, <2>2, NextFillExists
  <2> HIDE DEF F
  <2>5. states[i].position # NoPosition
    BY <1>2, <2>2, <2>3, <2>4 DEF Turns, ClosedOn, Entries
  <2>6. OpenOn(F, states[i].position)
    BY <2>3, <2>5 DEF Turns
  <2>7. PICK b \in F : /\ b.action = states[i].position.opening
                       /\ Time(b) = states[i].position.opened
                       /\ \A c \in F : Time(c) <= Time(b)
    BY <2>6 DEF OpenOn, Entries
  <2>8. b = a
    BY <2>2, <2>3, <2>4, <2>7 DEF Turns, Alternate
  <2>9. states[i].position \in Positions
    BY <2>2, <2>5 DEF TInv, RInv, Replayed, InstrumentStates
  <2>10. r.position = states[i].position
    BY <2>2, <2>7, <2>8, <2>9 DEF Positions
  <2>11. r \in OpenRecords
    BY <1>2, <2>2, <2>10 DEF OpenRecords
  <2>12. QED
    BY <2>1, <2>11
<1>3. QED
  BY <1>1, <1>2

\* What the trades are made of.
LEMMA TradesArePaired ==
    ASSUME TInv, Recorded, NEW entries, entries = {a \in Fills : a.action.type = "entry"}
    PROVE  {<<t.entry.outcome, t.exit.outcome>> : t \in ClosedTrades}
               = {p \in entries \X (Fills \ entries) : Follows(p[1], p[2])}
<1>1. ASSUME NEW t \in ClosedTrades
      PROVE  /\ <<t.entry.outcome, t.exit.outcome>> \in entries \X (Fills \ entries)
             /\ Follows(t.entry.outcome, t.exit.outcome)
  <2>1. PICK p \in TradePairs : t = [entry |-> p[1], exit |-> p[2]]
    BY DEF ClosedTrades
  <2>2. /\ p[1] \in FillRecords /\ p[2] \in FillRecords
        /\ p[1].action.type = "entry" /\ p[2].action.type # "entry"
        /\ Follows(p[1].outcome, p[2].outcome)
    BY DEF TradePairs
  <2>3. p[1].outcome \in Fills /\ p[2].outcome \in Fills
    BY <2>2 DEF FillRecords
  <2>4. p[1].action = p[1].outcome.action /\ p[2].action = p[2].outcome.action
    BY <2>2, FillIsRecorded
  <2>5. t.entry = p[1] /\ t.exit = p[2]
    BY <2>1
  <2>6. QED
    BY <2>2, <2>3, <2>4, <2>5
<1>2. ASSUME NEW a \in entries, NEW b \in Fills \ entries, Follows(a, b)
      PROVE  \E t \in ClosedTrades : <<t.entry.outcome, t.exit.outcome>> = <<a, b>>
  <2>1. PICK r \in FillRecords : r.outcome = a
    BY FillHasRecord
  <2>2. PICK q \in FillRecords : q.outcome = b
    BY FillHasRecord
  <2>3. r.action = a.action /\ q.action = b.action
    BY <2>1, <2>2, FillIsRecorded
  <2>4. <<r, q>> \in TradePairs
    BY <1>2, <2>1, <2>2, <2>3 DEF TradePairs
  <2>5. [entry |-> <<r, q>>[1], exit |-> <<r, q>>[2]] \in ClosedTrades
    BY <2>4, Zenon DEF ClosedTrades
  <2>6. [entry |-> r, exit |-> q] \in ClosedTrades
    BY <2>5
  <2>7. QED
    BY <2>1, <2>2, <2>6
<1>3. QED
  BY <1>1, <1>2

\* The tables cover one another.
LEMMA EvidenceCovers ==
    ASSUME TInv, Recorded, IsFiniteSet(done), done = events
    PROVE  Covered(Evidence)
<1> DEFINE f == [r \in records |-> r.event]
           g == [a \in attempts |-> AttemptOf(a)]
           h == [a \in attempts |-> a.opportunity]
<1>1. {r.event : r \in records} = done /\ \A r, q \in records : r.event = q.event => r = q
  BY DEF Recorded
<1>2. IsFiniteSet(records) /\ Cardinality(records) = Cardinality(done)
  <2>1. f \in Injection(records, done) /\ f \in Surjection(records, done)
    BY <1>1 DEF Injection, IsInjective, Surjection
  <2> HIDE DEF f
  <2>2. QED
    BY <2>1, FS_Injection
<1>3. IsFiniteSet(attempts)
  <2>1. \A a \in attempts : a.opportunity \in done
    BY DEF TInv, RInv, Attempted, Opportunities
  <2>2. h \in Injection(attempts, done)
    BY <2>1 DEF Injection, IsInjective, Recorded, Made
  <2> HIDE DEF h
  <2>3. QED
    BY <2>2, FS_Injection
<1>4. Cardinality(Used) = Cardinality(attempts)
  <2>1. g \in Injection(attempts, Used) /\ g \in Surjection(attempts, Used)
    BY DEF Injection, IsInjective, Surjection, Recorded, Made, AttemptOf, Used
  <2> HIDE DEF g
  <2>2. QED
    BY <1>3, <2>1, FS_Surjection
<1>5. QED
  BY <1>1, <1>2, <1>4 DEF Covered, Evidence, Used, Fills

\* The openings are the actions of the positions held.
LEMMA OpeningsAreHeld ==
    ASSUME TInv, Recorded, done = events
    PROVE  {o.action : o \in OpenRecords}
               = {p.opening : p \in OpenPositions(FinalStates(events, states))}
<1> DEFINE held == OpenPositions(FinalStates(events, states))
<1>1. held = {states[e.instrument].position : e \in events} \ {NoPosition}
  <2>1. {s[2].position : s \in FinalStates(events, states)}
            = {states[e.instrument].position : e \in events}
    <3>1. ASSUME NEW e \in events
          PROVE  \E s \in FinalStates(events, states) : s[2].position = states[e.instrument].position
      <4>1. <<e.instrument, states[e.instrument]>> \in FinalStates(events, states)
        BY DEF FinalStates
      <4>2. QED
        BY <4>1
    <3>2. ASSUME NEW s \in FinalStates(events, states)
          PROVE  \E e \in events : s[2].position = states[e.instrument].position
      BY DEF FinalStates
    <3>3. QED
      BY <3>1, <3>2
  <2>2. QED
    BY <2>1 DEF OpenPositions
<1> HIDE DEF held
<1>2. ASSUME NEW o \in OpenRecords
      PROVE  o.position \in held /\ o.position.opening = o.action
  <2>1. /\ o.event \in events /\ o.position # NoPosition
        /\ o.position = [opening |-> o.action, opened |-> o.event.time]
        /\ o.position = states[o.event.instrument].position
    BY FillIsRecorded DEF OpenRecords
  <2>2. QED
    BY <1>1, <2>1
<1>3. ASSUME NEW p \in held PROVE \E o \in OpenRecords : o.action = p.opening
  <2>1. PICK e \in events : p = states[e.instrument].position /\ p # NoPosition
    BY <1>1
  <2>2. e.instrument \in Instruments
    BY <2>1, EventsAssumption DEF TInv, RInv, Replayed, TypeOK
  <2>3. QED
    BY <2>1, <2>2, OneIsOpen
<1>4. QED
  BY <1>2, <1>3 DEF held

\* The evidence of every complete run, of any size, is accepted, its trades are the fills of an
\* instrument that follow one another, and what no exit follows is open (trades.py:52 to 260).
THEOREM TradesAreAccounted == ReconstructionSpec => []ReconstructionAccounts
<1>1. ASSUME TradeInv PROVE ReconstructionAccounts
  <2> DEFINE entries == {a \in Fills : a.action.type = "entry"}
             seen == FinalStates(events, states)
  <2>1. SUFFICES ASSUME done = events
                 PROVE  Reconstruct(Evidence) =
                          [trades |-> {p \in entries \X (Fills \ entries) : Follows(p[1], p[2])},
                           open |-> {a \in entries : ~\E b \in Fills : Follows(a, b)},
                           incomplete |-> {<<e.instrument, states[e.instrument]>> :
                                              e \in {f \in events :
                                                        states[f.instrument].state # "flat"}},
                           unsuccessful |-> attempts \ Fills]
    BY DEF ReconstructionAccounts, Follows, Time
  <2>2. TInv /\ Recorded /\ IsFiniteSet(done) /\ ReadAll(Evidence, Ordered(done)).books = Books
    BY <1>1 DEF TradeInv, Replays, TraceRead
  <2>3. FoldLeft(ReadEvent, [run |-> Evidence, books |-> Blank], Ordered(events)).books = Books
    BY <2>1, <2>2 DEF ReadAll, Readings!Fold, FoldLeft, Readings!FoldLeft, MapThenFoldSet,
                      Readings!MapThenFoldSet, Max, Readings!Max
  <2>4. /\ Evidence.events = events /\ Evidence.attempts = Used /\ Evidence.outcomes = attempts
        /\ Evidence.finals = seen /\ Evidence.unresolved = Unresolved(seen)
        /\ Evidence.positions = OpenPositions(seen)
    BY DEF Evidence, Used
  <2>5. /\ Books.states = states /\ Books.openings = OpenRecords /\ Books.used = Used
        /\ Books.trades = ClosedTrades /\ Books # Refused
    BY BooksAreNotRefused DEF Books, Ledger
  <2>6. Covered(Evidence)
    BY <2>1, <2>2, EvidenceCovers
  <2>7. Settled(Evidence, Books)
    <3>1. {o.action : o \in OpenRecords} = {p.opening : p \in OpenPositions(seen)}
      BY <2>1, <2>2, OpeningsAreHeld
    <3> HIDE DEF seen
    <3>2. QED
      BY <2>4, <2>5, <3>1 DEF Settled, seen
  <2>8. {s \in seen : s[2].state # "flat"}
          = {<<e.instrument, states[e.instrument]>> :
                e \in {f \in events : states[f.instrument].state # "flat"}}
    BY DEF FinalStates
  <2>9. {o \in attempts : o.outcome.status # "filled"} = attempts \ Fills
    BY DEF Fills
  <2>10. Reconstruct(Evidence) =
           [trades |-> {<<t.entry.outcome, t.exit.outcome>> : t \in ClosedTrades},
            open |-> {o.outcome : o \in OpenRecords},
            incomplete |-> {s \in seen : s[2].state # "flat"},
            unsuccessful |-> {o \in attempts : o.outcome.status # "filled"}]
    <3> DEFINE books == IF ~Covered(Evidence) THEN Refused
                        ELSE FoldLeft(ReadEvent, [run |-> Evidence, books |-> Blank],
                                      Ordered(Evidence.events)).books
    <3>1. books = Books
      BY <2>3, <2>4, <2>6
    <3>2. Reconstruct(Evidence) =
            IF books = Refused \/ ~Settled(Evidence, books) THEN NoReconstruction
            ELSE [trades |-> {<<t.entry.outcome, t.exit.outcome>> : t \in books.trades},
                  open |-> {o.outcome : o \in books.openings},
                  incomplete |-> {s \in FinalStates(Evidence.events, books.states) :
                                     s[2].state # "flat"},
                  unsuccessful |-> {o \in Evidence.outcomes : o.outcome.status # "filled"}]
      BY DEF Reconstruct
    <3> HIDE DEF books
    <3>3. QED
      BY <2>4, <2>5, <2>7, <3>1, <3>2
  <2>11. {<<t.entry.outcome, t.exit.outcome>> : t \in ClosedTrades}
           = {p \in entries \X (Fills \ entries) : Follows(p[1], p[2])}
    BY <2>2, TradesArePaired
  <2>12. {o.outcome : o \in OpenRecords}
           = {a \in entries : ~\E b \in Fills : Follows(a, b)}
    BY <2>2, OpenIsNotFollowed
  <2>13. QED
    BY <2>8, <2>9, <2>10, <2>11, <2>12
<1>2. QED
  BY <1>1, TradeInvAlways, PTL

-----------------------------------------------------------------------------
\* Two runs with the same records but for one event: if both are read to the end, then there
\* were books that went on with either record of it.
LEMMA ReadToTheEvent ==
    ASSUME NEW run, NEW other, NEW S, NEW e \in S, run.outcomes = other.outcomes,
           run.quotes = other.quotes, \A d \in S \ {e} : RecordFor(run, d) = RecordFor(other, d),
           NEW s \in Seq(S), \E k \in 1 .. Len(s) : s[k] = e,
           ReadAll(run, s).books # Refused, ReadAll(other, s).books # Refused
    PROVE  \E b : /\ ReadNext(run, b, RecordFor(run, e)) # Refused
                  /\ ReadNext(other, b, RecordFor(other, e)) # Refused
<1> DEFINE Both == \E b : /\ ReadNext(run, b, RecordFor(run, e)) # Refused
                          /\ ReadNext(other, b, RecordFor(other, e)) # Refused
           P == {t \in Seq(S) :
                    \/ ReadAll(run, t).books = Refused \/ ReadAll(other, t).books = Refused
                    \/ Both
                    \/ /\ ReadAll(run, t).books = ReadAll(other, t).books
                       /\ \A k \in 1 .. Len(t) : t[k] # e}
<1>1. <<>> \in P
  <2>1. <<>> \in Seq(S) /\ Len(<<>>) = 0
    BY EmptySeq
  <2>2. ReadAll(run, <<>>).books = ReadAll(other, <<>>).books
    BY ReadStarts
  <2>3. QED
    BY <2>1, <2>2
<1>2. ASSUME NEW t \in Seq(S), NEW x \in S, t \in P PROVE Append(t, x) \in P
  <2> DEFINE b == ReadAll(run, t).books
             c == ReadAll(other, t).books
             u == Append(t, x)
  <2>1. /\ ReadAll(run, u) = [run |-> run, books |-> ReadNext(run, b, RecordFor(run, x))]
        /\ ReadAll(other, u) = [run |-> other, books |-> ReadNext(other, c, RecordFor(other, x))]
    BY ReadsItsRun, ReadGoesOn
  <2>2. /\ ReadAll(run, u).books = ReadNext(run, b, RecordFor(run, x))
        /\ ReadAll(other, u).books = ReadNext(other, c, RecordFor(other, x))
    BY <2>1
  <2>3. u \in Seq(S) /\ u[Len(u)] = x /\ Len(u) = Len(t) + 1 /\ Len(t) \in Nat
        /\ \A k \in 1 .. Len(t) : u[k] = t[k]
    BY AppendProperties, LenProperties
  <2>4. b = Refused \/ c = Refused \/ Both \/ (b = c /\ \A k \in 1 .. Len(t) : t[k] # e)
    BY <1>2
  <2> HIDE DEF b, c, u
  <2>5. CASE b = Refused \/ c = Refused
    <3>1. ReadAll(run, u).books = Refused \/ ReadAll(other, u).books = Refused
      BY <2>2, <2>5, RefusedRemains
    <3>2. QED
      BY <2>3, <3>1 DEF u
  <2>6. CASE Both
    BY <2>3, <2>6 DEF u
  <2>7. CASE /\ b = c /\ \A k \in 1 .. Len(t) : t[k] # e
             /\ ReadNext(run, b, RecordFor(run, x)) # Refused
             /\ ReadNext(other, c, RecordFor(other, x)) # Refused
    <3>1. CASE x = e
      BY <2>3, <2>7, <3>1 DEF u
    <3>2. CASE x # e
      <4>1. RecordFor(run, x) = RecordFor(other, x)
        BY <3>2
      <4>2. ReadNext(run, b, RecordFor(run, x)) = ReadNext(other, c, RecordFor(other, x))
        BY <2>7, <4>1, SameReading
      <4>3. \A k \in 1 .. Len(u) : u[k] # e
        <5>1. \A k \in 1 .. Len(u) : k \in 1 .. Len(t) \/ k = Len(u)
          BY <2>3
        <5>2. QED
          BY <2>3, <2>7, <3>2, <5>1
      <4>4. QED
        BY <2>2, <2>3, <4>2, <4>3 DEF u
    <3>3. QED
      BY <3>1, <3>2
  <2>8. QED
    <3>1. ReadNext(run, b, RecordFor(run, x)) = Refused
            \/ ReadNext(other, c, RecordFor(other, x)) = Refused => u \in P
      BY <2>2, <2>3
    <3>2. QED
      BY <2>4, <2>5, <2>6, <2>7, <3>1 DEF u
<1> HIDE DEF P
<1>3. \A t \in Seq(S) : t \in P
  BY <1>1, <1>2, Readings!InductionOnSeq
<1>4. QED
  BY <1>3 DEF P

\* An altered record is as it was but for one field.
LEMMA OneFieldIsAltered ==
    ASSUME Recorded, NEW r \in records, NEW q \in AlteredRecords(r), q.event = r.event
    PROVE  /\ q = [event |-> q.event, header |-> q.header,
                   prior |-> q.prior, resulting |-> q.resulting,
                   decision |-> q.decision, action |-> q.action, position |-> q.position,
                   attempt |-> q.attempt, outcome |-> q.outcome]
           /\ q.outcome \in attempts \cup {r.outcome, NoOutcome}
           /\ q.outcome # r.outcome => q.decision = r.decision /\ q.attempt = r.attempt
           /\ q.decision # r.decision => q.action = r.action /\ q.outcome = r.outcome
<1>1. r = [event |-> r.event, header |-> r.header,
           prior |-> r.prior, resulting |-> r.resulting,
           decision |-> r.decision, action |-> r.action, position |-> r.position,
           attempt |-> r.attempt, outcome |-> r.outcome]
  BY DEF Recorded, RecordHolds
<1>2. \E v : \/ q = [r EXCEPT !.event = v] \/ q = [r EXCEPT !.header = v]
             \/ q = [r EXCEPT !.prior = v] \/ q = [r EXCEPT !.resulting = v]
             \/ q = [r EXCEPT !.decision = v] \/ q = [r EXCEPT !.action = v]
             \/ q = [r EXCEPT !.position = v] \/ q = [r EXCEPT !.attempt = v]
             \/ v \in attempts \cup {NoOutcome} /\ q = [r EXCEPT !.outcome = v]
  BY DEF AlteredRecords
<1>3. PICK v : \/ q = [r EXCEPT !.event = v] \/ q = [r EXCEPT !.header = v]
               \/ q = [r EXCEPT !.prior = v] \/ q = [r EXCEPT !.resulting = v]
               \/ q = [r EXCEPT !.decision = v] \/ q = [r EXCEPT !.action = v]
               \/ q = [r EXCEPT !.position = v] \/ q = [r EXCEPT !.attempt = v]
               \/ v \in attempts \cup {NoOutcome} /\ q = [r EXCEPT !.outcome = v]
  BY <1>2
<1>4. CASE q = [r EXCEPT !.prior = v]
  BY <1>1, <1>4
<1>5. CASE q = [r EXCEPT !.resulting = v]
  BY <1>1, <1>5
<1>6. CASE q = [r EXCEPT !.decision = v]
  BY <1>1, <1>6
<1>7. CASE q = [r EXCEPT !.action = v]
  BY <1>1, <1>7
<1>8. CASE q = [r EXCEPT !.position = v]
  BY <1>1, <1>8
<1>9. CASE q = [r EXCEPT !.attempt = v]
  BY <1>1, <1>9
<1>10. CASE v \in attempts \cup {NoOutcome} /\ q = [r EXCEPT !.outcome = v]
  BY <1>1, <1>10
<1>11. CASE q = [r EXCEPT !.event = v]
  <2>1. q = r
    BY <1>1, <1>11
  <2>2. QED
    BY <1>1, <2>1
<1>12. CASE q = [r EXCEPT !.header = v]
  BY <1>1, <1>12
<1>13. QED
  BY <1>3, <1>4, <1>5, <1>6, <1>7, <1>8, <1>9, <1>10, <1>11, <1>12

\* What a record says that is read.
LEMMA ReadRecordHolds ==
    ASSUME NEW run, NEW b, NEW r, ReadNext(run, b, r) # Refused,
           NEW s, s = b.states[r.event.instrument]
    PROVE  /\ r.header = Header(r.event) /\ r.prior = s.state
           /\ Read(run, b, r).states[r.event.instrument].state = r.resulting
           /\ r.decision = "action_created" => CreationHolds(s, r) /\ Read(run, b, r) = Create(b, r)
           /\ r.decision # "action_created" /\ r.outcome # NoOutcome =>
                 /\ ExecutionHolds(run, b.used, s, r)
                 /\ r.outcome.outcome.status # "filled" =>
                       FailureHolds(s, r) /\ Read(run, b, r) = Counted(b, r)
                 /\ r.outcome.outcome.status = "filled" =>
                       /\ FillHolds(r)
                       /\ r.action.type # "entry" =>
                             r.position = Counted(b, r).states[r.event.instrument].position
           /\ r.decision # "action_created" /\ r.outcome = NoOutcome =>
                 InactionHolds(s, r) /\ Read(run, b, r) = b
<1>1. /\ Read(run, b, r) # Refused /\ r.header = Header(r.event) /\ s.state = r.prior
      /\ Read(run, b, r).states[r.event.instrument].state = r.resulting
  BY DEF ReadNext
<1>2. ASSUME r.decision = "action_created"
      PROVE  CreationHolds(s, r) /\ Read(run, b, r) = Create(b, r)
  BY <1>1, <1>2 DEF Read, Create
<1>3. ASSUME r.decision # "action_created", r.outcome # NoOutcome
      PROVE  /\ ExecutionHolds(run, b.used, s, r)
             /\ r.outcome.outcome.status # "filled" =>
                   FailureHolds(s, r) /\ Read(run, b, r) = Counted(b, r)
             /\ r.outcome.outcome.status = "filled" =>
                   /\ FillHolds(r)
                   /\ r.action.type # "entry" =>
                         r.position = Counted(b, r).states[r.event.instrument].position
  <2>1. Read(run, b, r) = Execute(run, b, r)
    BY <1>3 DEF Read
  <2>2. ExecutionHolds(run, b.used, s, r)
    BY <1>1, <2>1 DEF Execute
  <2>3. ASSUME r.outcome.outcome.status # "filled"
        PROVE  FailureHolds(s, r) /\ Read(run, b, r) = Counted(b, r)
    BY <1>1, <2>1, <2>2, <2>3 DEF Execute, Counted
  <2>4. ASSUME r.outcome.outcome.status = "filled"
        PROVE  /\ FillHolds(r)
               /\ r.action.type # "entry" =>
                     r.position = Counted(b, r).states[r.event.instrument].position
    <3>1. CASE r.action.type = "entry"
      <4>1. Open(Counted(b, r), r) # Refused
        BY <1>1, <2>1, <2>2, <2>4, <3>1 DEF Execute, Counted
      <4>2. QED
        BY <3>1, <4>1 DEF Open
    <3>2. CASE r.action.type # "entry"
      <4>1. Close(Counted(b, r), r) # Refused
        BY <1>1, <2>1, <2>2, <2>4, <3>2 DEF Execute, Counted
      <4>2. /\ r.position = Counted(b, r).states[r.event.instrument].position
            /\ \E o : TradeHolds(o, r)
        BY <4>1 DEF Close
      <4>3. QED
        BY <4>2 DEF TradeHolds
    <3>3. QED
      BY <3>1, <3>2
  <2>5. QED
    BY <2>2, <2>3, <2>4
<1>4. ASSUME r.decision # "action_created", r.outcome = NoOutcome
      PROVE  InactionHolds(s, r) /\ Read(run, b, r) = b
  BY <1>1, <1>4 DEF Read
<1>5. QED
  BY <1>1, <1>2, <1>3, <1>4

\* What counts of a record.
Stripped(r) ==
    IF r.outcome = NoOutcome /\ r.decision # "action_created"
    THEN [r EXCEPT !.decision = "idle", !.action = NoAction, !.position = NoPosition]
    ELSE r

\* A record that goes on from the books that its original goes on from says what that says.
LEMMA NothingIsAltered ==
    ASSUME TInv, Recorded, NEW r \in records, NEW q \in AlteredRecords(r), q.event = r.event,
           NEW run, NEW other, NEW b,
           ReadNext(run, b, r) # Refused, ReadNext(other, b, q) # Refused
    PROVE  Stripped(q) = Stripped(r)
<1> DEFINE s == b.states[r.event.instrument]
<1>1. /\ r.event \in done /\ r.event # NoAction /\ RecordHolds(r, attempts)
      /\ attempts \subseteq AttemptRecords
      /\ \A x, y \in attempts : x.opportunity = y.opportunity => x = y
  BY NoneAssumption DEF Recorded, Made, TInv, RInv, Replayed, TypeOK
<1>2. /\ r = [event |-> r.event, header |-> r.header,
              prior |-> r.prior, resulting |-> r.resulting,
              decision |-> r.decision, action |-> r.action, position |-> r.position,
              attempt |-> r.attempt, outcome |-> r.outcome]
      /\ q = [event |-> q.event, header |-> q.header,
              prior |-> q.prior, resulting |-> q.resulting,
              decision |-> q.decision, action |-> q.action, position |-> q.position,
              attempt |-> q.attempt, outcome |-> q.outcome]
      /\ q.event = r.event /\ q.outcome \in attempts \cup {r.outcome, NoOutcome}
      /\ q.outcome # r.outcome => q.decision = r.decision /\ q.attempt = r.attempt
      /\ q.decision # r.decision => q.action = r.action /\ q.outcome = r.outcome
  BY <1>1, OneFieldIsAltered DEF RecordHolds
<1>3. \A x \in attempts : AttemptOf(x) # NoAttempt /\ x # NoOutcome
  BY <1>1, EvidenceAssumption DEF AttemptRecords, Outcomes, AttemptOf
<1>4. /\ r.prior = s.state /\ q.prior = s.state /\ q.header = r.header
      /\ Read(run, b, r).states[r.event.instrument].state = r.resulting
      /\ Read(other, b, q).states[r.event.instrument].state = q.resulting
  BY <1>2, ReadRecordHolds
<1>5. /\ r.decision = "action_created" => CreationHolds(s, r) /\ Read(run, b, r) = Create(b, r)
      /\ q.decision = "action_created" => CreationHolds(s, q) /\ Read(other, b, q) = Create(b, q)
  BY <1>2, ReadRecordHolds
<1>6. /\ r.decision # "action_created" /\ r.outcome = NoOutcome =>
            InactionHolds(s, r) /\ Read(run, b, r) = b
      /\ q.decision # "action_created" /\ q.outcome = NoOutcome =>
            InactionHolds(s, q) /\ Read(other, b, q) = b
  BY <1>2, ReadRecordHolds
<1>7. ASSUME q.decision # "action_created", q.outcome # NoOutcome
      PROVE  /\ ExecutionHolds(other, b.used, s, q)
             /\ q.outcome.outcome.status # "filled" =>
                   FailureHolds(s, q) /\ Read(other, b, q) = Counted(b, q)
             /\ q.outcome.outcome.status = "filled" =>
                   /\ FillHolds(q)
                   /\ q.action.type # "entry" =>
                         q.position = Counted(b, q).states[r.event.instrument].position
  BY <1>2, <1>7, ReadRecordHolds
<1>8. ASSUME r.decision # "action_created", r.outcome # NoOutcome
      PROVE  /\ ExecutionHolds(run, b.used, s, r)
             /\ r.outcome.outcome.status # "filled" =>
                   FailureHolds(s, r) /\ Read(run, b, r) = Counted(b, r)
             /\ r.outcome.outcome.status = "filled" =>
                   /\ FillHolds(r)
                   /\ r.action.type # "entry" =>
                         r.position = Counted(b, r).states[r.event.instrument].position
  BY <1>8, ReadRecordHolds
<1> HIDE DEF s
<1>9. CASE r.decision = "action_created"
  <2>1. CreationHolds(s, r) /\ Read(run, b, r) = Create(b, r)
    BY <1>5, <1>9
  <2>2. q.decision = "action_created"
    <3>1. SUFFICES ASSUME q.decision # "action_created" PROVE FALSE
      OBVIOUS
    <3>2. q.action = r.event /\ q.outcome = NoOutcome
      BY <1>2, <1>9, <2>1, <3>1 DEF CreationHolds
    <3>3. q.action \in {NoAction, s.pending} /\ s.pending = NoAction
      BY <1>6, <2>1, <3>1, <3>2 DEF CreationHolds, InactionHolds
    <3>4. QED
      BY <1>1, <3>2, <3>3
  <2>3. CreationHolds(s, q) /\ Read(other, b, q) = Create(b, q)
    BY <1>5, <2>2
  <2>4. /\ q.action = r.action /\ q.position = r.position /\ q.attempt = r.attempt
        /\ q.outcome = r.outcome
    BY <1>2, <2>1, <2>3 DEF CreationHolds
  <2>5. Create(b, q) = Create(b, r)
    BY <1>2, <2>1, <2>3, <2>4 DEF Create, s
  <2>6. q = r
    BY <1>2, <1>4, <1>9, <2>1, <2>2, <2>3, <2>4, <2>5
  <2>7. QED
    BY <2>6
<1>10. CASE r.decision # "action_created" /\ r.outcome # NoOutcome
  <2>1. /\ r.outcome \in attempts /\ r.attempt = AttemptOf(r.outcome)
        /\ ExecutionHolds(run, b.used, s, r)
    BY <1>1, <1>8, <1>10 DEF RecordHolds
  <2>2. q.decision # "action_created"
    <3>1. ASSUME q.decision = "action_created" PROVE FALSE
      <4>1. q.outcome = NoOutcome /\ q.outcome = r.outcome
        BY <1>2, <1>5, <1>10, <3>1 DEF CreationHolds
      <4>2. QED
        BY <1>10, <4>1
    <3>2. QED
      BY <3>1
  <2>3. q.outcome = r.outcome
    <3>1. SUFFICES ASSUME q.outcome # r.outcome PROVE FALSE
      OBVIOUS
    <3>2. q.attempt = AttemptOf(r.outcome)
      BY <1>2, <2>1, <3>1
    <3>3. CASE q.outcome = NoOutcome
      <4>1. q.attempt = NoAttempt
        BY <1>6, <2>2, <3>3 DEF InactionHolds
      <4>2. QED
        BY <1>3, <2>1, <3>2, <4>1
    <3>4. CASE q.outcome # NoOutcome
      <4>1. q.outcome \in attempts /\ q.attempt = AttemptOf(q.outcome)
        BY <1>2, <1>7, <2>2, <3>1, <3>4 DEF ExecutionHolds
      <4>2. q.outcome.opportunity = r.outcome.opportunity
        BY <3>2, <4>1 DEF AttemptOf
      <4>3. QED
        BY <1>1, <2>1, <3>1, <4>1, <4>2
    <3>5. QED
      BY <3>3, <3>4
  <2>4. ExecutionHolds(other, b.used, s, q)
    BY <1>7, <1>10, <2>2, <2>3
  <2>5. q.action = r.action /\ q.attempt = r.attempt
    BY <2>1, <2>3, <2>4 DEF ExecutionHolds
  <2>6. Counted(b, q) = Counted(b, r)
    BY <2>5 DEF Counted
  <2>7. CASE r.outcome.outcome.status # "filled"
    <3>1. /\ FailureHolds(s, r) /\ Read(run, b, r) = Counted(b, r)
          /\ FailureHolds(s, q) /\ Read(other, b, q) = Counted(b, q)
      BY <1>7, <1>8, <1>10, <2>2, <2>3, <2>7
    <3>2. q.decision = r.decision /\ q.position = r.position
      BY <2>3, <3>1 DEF FailureHolds
    <3>3. q.resulting = r.resulting
      BY <1>4, <2>6, <3>1
    <3>4. q = r
      BY <1>2, <1>4, <2>3, <2>5, <3>2, <3>3
    <3>5. QED
      BY <3>4
  <2>8. CASE r.outcome.outcome.status = "filled"
    <3>1. FillHolds(r) /\ FillHolds(q)
      BY <1>7, <1>8, <1>10, <2>2, <2>3, <2>8
    <3>2. r.action.type # "entry" => q.position = r.position
      BY <1>7, <1>8, <1>10, <2>2, <2>3, <2>5, <2>6, <2>8
    <3>3. q.decision = r.decision /\ q.position = r.position /\ q.resulting = r.resulting
      BY <1>2, <2>5, <3>1, <3>2 DEF FillHolds
    <3>4. q = r
      BY <1>2, <1>4, <2>3, <2>5, <3>3
    <3>5. QED
      BY <3>4
  <2>9. QED
    BY <2>7, <2>8
<1>11. CASE r.decision # "action_created" /\ r.outcome = NoOutcome
  <2>1. r.attempt = NoAttempt /\ r.action # r.event /\ InactionHolds(s, r) /\ Read(run, b, r) = b
    BY <1>1, <1>3, <1>6, <1>11 DEF RecordHolds
  <2>2. q.decision # "action_created"
    <3>1. ASSUME q.decision = "action_created" PROVE FALSE
      <4>1. q.action = q.event /\ q.action = r.action
        BY <1>2, <1>5, <1>11, <3>1 DEF CreationHolds
      <4>2. QED
        BY <1>2, <2>1, <4>1
    <3>2. QED
      BY <3>1
  <2>3. q.outcome = NoOutcome
    <3>1. SUFFICES ASSUME q.outcome # NoOutcome PROVE FALSE
      OBVIOUS
    <3>2. q.outcome \in attempts /\ q.attempt = NoAttempt
      BY <1>2, <1>11, <2>1, <3>1
    <3>3. q.attempt = AttemptOf(q.outcome)
      BY <1>7, <2>2, <3>1 DEF ExecutionHolds
    <3>4. QED
      BY <1>3, <3>2, <3>3
  <2>4. InactionHolds(s, q) /\ Read(other, b, q) = b
    BY <1>6, <2>2, <2>3
  <2>5. /\ q.attempt = NoAttempt
        /\ q.header = r.header /\ q.prior = r.prior /\ q.resulting = r.resulting
    BY <1>4, <2>1, <2>4 DEF InactionHolds
  <2>6. /\ Stripped(r) = [event |-> r.event, header |-> r.header,
                          prior |-> r.prior, resulting |-> r.resulting,
                          decision |-> "idle", action |-> NoAction, position |-> NoPosition,
                          attempt |-> NoAttempt, outcome |-> NoOutcome]
        /\ Stripped(q) = [event |-> r.event, header |-> r.header,
                          prior |-> r.prior, resulting |-> r.resulting,
                          decision |-> "idle", action |-> NoAction, position |-> NoPosition,
                          attempt |-> NoAttempt, outcome |-> NoOutcome]
    <3>1. Stripped(r) = [r EXCEPT !.decision = "idle", !.action = NoAction,
                                  !.position = NoPosition]
      BY <1>11 DEF Stripped
    <3>2. Stripped(q) = [q EXCEPT !.decision = "idle", !.action = NoAction,
                                  !.position = NoPosition]
      BY <2>2, <2>3 DEF Stripped
    <3>3. QED
      BY <1>2, <1>11, <2>1, <2>3, <2>5, <3>1, <3>2
  <2>7. QED
    BY <2>6
<1>12. QED
  BY <1>9, <1>10, <1>11

-----------------------------------------------------------------------------
\* A run that is accepted is covered, was read to its end, and is settled there.
LEMMA AcceptedRunHolds ==
    ASSUME NEW run, Reconstruct(run) # NoReconstruction,
           NEW books, books = ReadAll(run, Ordered(run.events)).books
    PROVE  Covered(run) /\ books # Refused /\ Settled(run, books)
<1> DEFINE read == FoldLeft(ReadEvent, [run |-> run, books |-> Blank], Ordered(run.events)).books
           result == IF ~Covered(run) THEN Refused ELSE read
<1>1. result # Refused /\ Settled(run, result)
  BY DEF Reconstruct
<1>2. read = ReadAll(run, Ordered(run.events)).books
  BY DEF ReadAll, Readings!Fold, FoldLeft, Readings!FoldLeft, MapThenFoldSet,
         Readings!MapThenFoldSet, Max, Readings!Max
<1> HIDE DEF read
<1>3. Covered(run) /\ result = read
  BY <1>1
<1>4. QED
  BY <1>1, <1>2, <1>3

\* A table with one row left out or altered lacks that row.
LEMMA OneOffMisses ==
    ASSUME NEW T, NEW others, NEW U \in OneOff(T, others)
    PROVE  \E x \in T : /\ x \notin U
                        /\ U = T \ {x} \/ \E y \in others[x] \ {x} : U = (T \ {x}) \cup {y}
<1>1. ASSUME NEW x \in T, U = T \ {x} PROVE x \notin U
  BY <1>1
<1>2. ASSUME NEW x \in T, NEW y \in others[x] \ {x}, U = (T \ {x}) \cup {y} PROVE x \notin U
  BY <1>2
<1>3. QED
  BY <1>1, <1>2 DEF OneOff

\* A run with the same records, outcomes and quotes is read to the same books, and so the
\* tables that these are compared with are as they were.
LEMMA TablesAreCompared ==
    ASSUME TradeInv, done = events, NEW run, Reconstruct(run) # NoReconstruction,
           run.events = events, run.records = records, run.outcomes = attempts,
           run.quotes = quotes
    PROVE  /\ run.timeline = events /\ run.attempts = Used /\ run.economics = Fills
           /\ run.finals = Evidence.finals /\ run.unresolved = Evidence.unresolved
           /\ run.positions = Evidence.positions
<1>1. Evidence.records = records /\ Evidence.outcomes = attempts /\ Evidence.quotes = quotes
  BY DEF Evidence
<1>2. \A e \in events : RecordFor(Evidence, e) = RecordFor(run, e)
  BY <1>1 DEF RecordFor
<1>3. /\ Ordered(events) \in Seq(events) /\ ReadAll(Evidence, Ordered(events)).books = Books
      /\ Books # Refused /\ Books.states = states
  BY BooksAreNotRefused DEF TradeInv, TraceRead, Books, Ledger
<1>4. ReadAll(run, Ordered(events)).books = Books
  BY <1>1, <1>2, <1>3, RunsAgree
<1>5. Covered(run) /\ Settled(run, Books)
  BY <1>4, AcceptedRunHolds
<1>6. run.timeline = events /\ run.attempts = Used /\ run.economics = Fills
  BY <1>5 DEF Covered, Used, Fills
<1>7. LET finals == FinalStates(events, states) IN
      /\ finals = run.finals /\ Unresolved(finals) = run.unresolved
      /\ OpenPositions(finals) = run.positions
  BY <1>3, <1>5 DEF Settled
<1>8. QED
  BY <1>6, <1>7 DEF Evidence

\* With every record as it was, each outcome must be there, and its quote.
LEMMA OutcomesAreLookedUp ==
    ASSUME TradeInv, done = events, NEW run, run.records = records,
           ReadAll(run, Ordered(events)).books # Refused, NEW o \in attempts
    PROVE  o \in run.outcomes /\ o.outcome.quote \in run.quotes \cup {NoQuote}
<1>1. PICK r \in records : r.outcome = o
  BY DEF TradeInv, Recorded
<1>2. /\ r.event \in events /\ RecordHolds(r, attempts)
      /\ \A p, q \in records : p.event = q.event => p = q
  BY DEF TradeInv, Recorded
<1>3. o # NoOutcome
  BY EvidenceAssumption DEF TradeInv, Recorded, Made, AttemptRecords, Outcomes
<1>4. r.decision # "action_created"
  BY <1>1, <1>2, <1>3 DEF RecordHolds
<1>5. RecordFor(run, r.event) = r
  BY <1>2, RecordIsFound
<1>6. /\ Ordered(events) \in Seq(events)
      /\ \E k \in 1 .. Len(Ordered(events)) : Ordered(events)[k] = r.event
  BY <1>2 DEF TradeInv, TraceRead
<1>7. PICK b : ReadNext(run, b, r) # Refused
  <2>1. \E b : ReadNext(run, b, RecordFor(run, r.event)) # Refused
    BY <1>2, <1>6, ReadToTheEvent
  <2>2. QED
    BY <1>5, <2>1
<1>8. ExecutionHolds(run, b.used, b.states[r.event.instrument], r)
  BY <1>1, <1>3, <1>4, <1>7, ReadRecordHolds
<1>9. QED
  BY <1>1, <1>8 DEF ExecutionHolds

\* An altered record is refused by the turn that reads it.
LEMMA AlteredRecordIsRefused ==
    ASSUME TradeInv, done = events, NEW r \in records, NEW q \in AlteredRecords(r), NEW run,
           run.records = (records \ {r}) \cup {q}, run.outcomes = attempts, run.quotes = quotes,
           {x.event : x \in run.records} = events,
           ReadAll(run, Ordered(events)).books # Refused
    PROVE  Stripped(q) = Stripped(r)
<1> USE DEF TradeInv
<1>1. Evidence.records = records /\ Evidence.outcomes = attempts /\ Evidence.quotes = quotes
  BY DEF Evidence
<1>2. /\ {x.event : x \in records} = events
      /\ \A x, y \in records : x.event = y.event => x = y
  BY DEF Recorded
<1>3. q.event = r.event /\ r.event \in events
  <2>1. PICK x \in run.records : x.event = r.event
    BY <1>2
  <2>2. QED
    BY <1>2, <2>1
<1>4. \A x, y \in run.records : x.event = y.event => x = y
  BY <1>1, <1>2, <1>3
<1>5. RecordFor(run, r.event) = q /\ RecordFor(Evidence, r.event) = r
  BY <1>1, <1>2, <1>3, <1>4, RecordIsFound
<1>6. \A d \in events \ {r.event} : RecordFor(Evidence, d) = RecordFor(run, d)
  <2>1. TAKE d \in events \ {r.event}
  <2>2. PICK x \in records : x.event = d
    BY <1>2
  <2>3. x \in run.records
    BY <1>1, <2>2
  <2>4. QED
    BY <1>1, <1>2, <1>4, <2>2, <2>3, RecordIsFound
<1>7. /\ Ordered(events) \in Seq(events)
      /\ \E k \in 1 .. Len(Ordered(events)) : Ordered(events)[k] = r.event
      /\ ReadAll(Evidence, Ordered(events)).books # Refused
  BY <1>3, BooksAreNotRefused DEF TraceRead, Books, Ledger
<1>8. PICK b : ReadNext(Evidence, b, r) # Refused /\ ReadNext(run, b, q) # Refused
  <2> HIDE DEF TradeInv
  <2>1. \E b : /\ ReadNext(Evidence, b, RecordFor(Evidence, r.event)) # Refused
               /\ ReadNext(run, b, RecordFor(run, r.event)) # Refused
    BY <1>1, <1>3, <1>6, <1>7, ReadToTheEvent
  <2>2. QED
    BY <1>5, <2>1
<1>9. QED
  BY <1>3, <1>8, NothingIsAltered

\* The quotes that count.
Witnesses(run) == {q \in run.quotes : \E o \in run.outcomes : o.outcome.quote = q}

LEMMA EssenceIs ==
    ASSUME NEW run
    PROVE  Essence(run) = [run EXCEPT !.records = {Stripped(r) : r \in run.records},
                                      !.quotes = Witnesses(run)]
BY DEF Essence, Stripped, Witnesses

\* The quotes that are the evidence of an outcome are those that were.
LEMMA QuotesAreLookedUp ==
    ASSUME TradeInv, done = events, NEW run, NEW x \in quotes, NEW Q,
           Q = quotes \ {x} \/ \E y \in QuoteUniverse : Q = (quotes \ {x}) \cup {y},
           run.quotes = Q, run.records = records,
           ReadAll(run, Ordered(events)).books # Refused
    PROVE  {q \in Q : \E o \in attempts : o.outcome.quote = q}
               = {q \in quotes : \E o \in attempts : o.outcome.quote = q}
<1>1. \A o \in attempts : o.outcome.quote \in Q \cup {NoQuote}
  BY OutcomesAreLookedUp
<1>2. \A o \in attempts : o.outcome.quote \in quotes \cup {NoQuote}
  <2>1. Evidence.records = records /\ Evidence.quotes = quotes
    BY DEF Evidence
  <2>2. ReadAll(Evidence, Ordered(events)).books # Refused
    BY BooksAreNotRefused DEF TradeInv, TraceRead, Books, Ledger
  <2>3. QED
    BY <2>1, <2>2, OutcomesAreLookedUp
<1>3. NoQuote \notin quotes /\ NoQuote \notin Q
  BY EvidenceAssumption DEF TradeInv, Replays
<1>4. QED
  BY <1>1, <1>2, <1>3

\* In the evidence of a complete run, of any size, no row of a table can be left out or altered
\* unnoticed, but what an idle record remarks and a quote of no outcome (trades.py:52 to 260).
THEOREM AlterationsAreNoticed == ReconstructionSpec => []AlterationsAreRefused
<1>1. ASSUME TradeInv, done = events, NEW run \in Altered(Evidence),
             Reconstruct(run) # NoReconstruction
      PROVE  Essence(run) = Essence(Evidence)
  <2>1. /\ Evidence.timeline = events /\ Evidence.events = events /\ Evidence.quotes = quotes
        /\ Evidence.records = records /\ Evidence.outcomes = attempts
        /\ Evidence.attempts = Used /\ Evidence.economics = Fills
        /\ DOMAIN Evidence = {"timeline", "events", "quotes", "records", "outcomes", "attempts",
                              "economics", "finals", "unresolved", "positions"}
    BY DEF Evidence, Used
  <2>2. /\ Covered(run) /\ ReadAll(run, Ordered(run.events)).books # Refused
    BY <1>1, AcceptedRunHolds
  <2>3. ASSUME NEW others, NEW t \in OneOff(Evidence.timeline, others),
               run = [Evidence EXCEPT !.timeline = t]
        PROVE  FALSE
    <3>1. run.timeline = t /\ run.events = events
      BY <2>1, <2>3
    <3>2. QED
      BY <2>1, <2>2, <2>3, <3>1, OneOffMisses DEF Covered
  <2>4. ASSUME NEW others, NEW t \in OneOff(Evidence.events, others),
               run = [Evidence EXCEPT !.events = t]
        PROVE  FALSE
    <3>1. run.timeline = events /\ run.events = t
      BY <2>1, <2>4
    <3>2. QED
      BY <2>1, <2>2, <2>4, <3>1, OneOffMisses DEF Covered
  <2>5. ASSUME NEW others, NEW t,
               \/ t \in OneOff(Evidence.attempts, others) /\ run = [Evidence EXCEPT !.attempts = t]
               \/ t \in OneOff(Evidence.economics, others) /\ run = [Evidence EXCEPT !.economics = t]
               \/ t \in OneOff(Evidence.finals, others) /\ run = [Evidence EXCEPT !.finals = t]
               \/ t \in OneOff(Evidence.unresolved, others)
                     /\ run = [Evidence EXCEPT !.unresolved = t]
               \/ t \in OneOff(Evidence.positions, others)
                     /\ run = [Evidence EXCEPT !.positions = t]
        PROVE  FALSE
    <3>1. /\ run.events = events /\ run.records = records /\ run.outcomes = attempts
          /\ run.quotes = quotes
      BY <2>1, <2>5
    <3>2. /\ run.attempts = Evidence.attempts /\ run.economics = Evidence.economics
          /\ run.finals = Evidence.finals /\ run.unresolved = Evidence.unresolved
          /\ run.positions = Evidence.positions
      BY <1>1, <2>1, <3>1, TablesAreCompared
    <3>3. \A T : t \in OneOff(T, others) => t # T
      BY OneOffMisses
    <3>4. QED
      BY <2>1, <2>5, <3>2, <3>3
  <2>6. ASSUME NEW others, NEW t \in OneOff(Evidence.outcomes, others),
               run = [Evidence EXCEPT !.outcomes = t]
        PROVE  FALSE
    <3>1. run.outcomes = t /\ run.events = events /\ run.records = records
      BY <2>1, <2>6
    <3>2. PICK o \in attempts : o \notin t
      BY <2>1, OneOffMisses
    <3>3. QED
      BY <1>1, <2>2, <3>1, <3>2, OutcomesAreLookedUp
  <2>7. ASSUME NEW t \in OneOff(Evidence.quotes, [q \in Evidence.quotes |-> QuoteUniverse]),
               run = [Evidence EXCEPT !.quotes = t]
        PROVE  Essence(run) = Essence(Evidence)
    <3>1. /\ run.quotes = t /\ run.events = events /\ run.records = records
          /\ run.outcomes = attempts
      BY <2>1, <2>7
    <3>2. PICK x \in quotes :
              t = quotes \ {x} \/ \E y \in QuoteUniverse : t = (quotes \ {x}) \cup {y}
      BY <2>1, OneOffMisses
    <3>3. {q \in t : \E o \in attempts : o.outcome.quote = q}
              = {q \in quotes : \E o \in attempts : o.outcome.quote = q}
      BY <1>1, <2>2, <3>1, <3>2, QuotesAreLookedUp
    <3>4. Witnesses(run) = Witnesses(Evidence)
      BY <2>1, <3>1, <3>3 DEF Witnesses
    <3>5. QED
      BY <2>1, <2>7, <3>1, <3>4, EssenceIs
  <2>8. ASSUME NEW t \in OneOff(Evidence.records,
                                [r \in Evidence.records |-> AlteredRecords(r)]),
               run = [Evidence EXCEPT !.records = t]
        PROVE  Essence(run) = Essence(Evidence)
    <3>1. /\ run.records = t /\ run.events = events /\ run.outcomes = attempts
          /\ run.quotes = quotes
      BY <2>1, <2>8
    <3>2. /\ {x.event : x \in t} = events /\ {x.event : x \in records} = events
          /\ \A x, y \in records : x.event = y.event => x = y
      BY <1>1, <2>2, <3>1 DEF Covered, TradeInv, Recorded
    <3>3. PICK r \in records : \E q \in AlteredRecords(r) : t = (records \ {r}) \cup {q}
      <4>1. PICK r \in records :
                t = records \ {r} \/ \E q \in AlteredRecords(r) : t = (records \ {r}) \cup {q}
        BY <2>1, OneOffMisses
      <4>2. t # records \ {r}
        BY <3>2
      <4>3. QED
        BY <4>1, <4>2
    <3>4. PICK q \in AlteredRecords(r) : t = (records \ {r}) \cup {q}
      BY <3>3
    <3>5. Stripped(q) = Stripped(r)
      BY <1>1, <2>2, <3>1, <3>2, <3>4, AlteredRecordIsRefused
    <3>6. {Stripped(x) : x \in t} = {Stripped(x) : x \in records}
      <4> HIDE DEF Stripped
      <4>1. QED
        BY <3>4, <3>5
    <3>7. Witnesses(run) = Witnesses(Evidence)
      BY <2>1, <3>1 DEF Witnesses
    <3>8. QED
      BY <2>1, <2>8, <3>1, <3>6, <3>7, EssenceIs
  <2>9. QED
    <3> DEFINE opened == {e.time : e \in Opportunities(events)}
               ofAttempts == [a \in Evidence.attempts |->
                                 [action : Signals(events), opportunity : Opportunities(events)]]
               ofPositions == [p \in Evidence.positions |->
                                  [opening : Signals(events), opened : opened]]
    <3>1. \/ run \in {[Evidence EXCEPT !.timeline = t] :
                    t \in OneOff(Evidence.timeline, [e \in Evidence.timeline |-> Universe])}
          \/ run \in {[Evidence EXCEPT !.events = t] :
                    t \in OneOff(Evidence.events, [e \in Evidence.events |-> Universe])}
          \/ run \in {[Evidence EXCEPT !.quotes = t] :
                    t \in OneOff(Evidence.quotes, [q \in Evidence.quotes |-> QuoteUniverse])}
          \/ run \in {[Evidence EXCEPT !.records = t] :
                    t \in OneOff(Evidence.records, [r \in Evidence.records |-> AlteredRecords(r)])}
          \/ run \in {[Evidence EXCEPT !.attempts = t] :
                    t \in OneOff(Evidence.attempts, ofAttempts)}
          \/ run \in {[Evidence EXCEPT !.outcomes = t] :
                    t \in OneOff(Evidence.outcomes, [o \in Evidence.outcomes |-> AlteredOutcomes(o)])}
          \/ run \in {[Evidence EXCEPT !.economics = t] :
                    t \in OneOff(Evidence.economics, [o \in Evidence.economics |-> AlteredOutcomes(o)])}
          \/ run \in {[Evidence EXCEPT !.finals = t] :
                    t \in OneOff(Evidence.finals, [f \in Evidence.finals |-> AlteredFinals(f)])}
          \/ run \in {[Evidence EXCEPT !.unresolved = t] :
                    t \in OneOff(Evidence.unresolved, [a \in Evidence.unresolved |-> Signals(events)])}
          \/ run \in {[Evidence EXCEPT !.positions = t] :
                    t \in OneOff(Evidence.positions, ofPositions)}
      BY <1>1 DEF Altered
    <3> HIDE DEF ofAttempts, ofPositions
    <3>2. QED
      BY <2>3, <2>4, <2>5, <2>6, <2>7, <2>8, <3>1
<1>2. TradeInv => AlterationsAreRefused
  BY <1>1 DEF AlterationsAreRefused
<1>3. QED
  BY <1>2, TradeInvAlways, PTL

=============================================================================
