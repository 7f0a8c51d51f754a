-------------------------- MODULE TradeReconstruction --------------------------
(***************************************************************************)
(* reconstruct_trades (src/src/shadow/evaluation/trades.py) on the trace   *)
(* that process_lifecycle leaves behind: a second reader, which is given   *)
(* the records and nothing of the loop, pairs every fill into a trade or   *)
(* an open entry, or refuses the whole run.                                *)
(*                                                                         *)
(* Attempts and outcomes, which a result carries twice (in the simulation  *)
(* and in its lifecycle), are one table here; prices, fees, references to  *)
(* sources and the text of identifiers are left out. An action stands by   *)
(* the signal that made it, and a position by that signal and its time.    *)
(***************************************************************************)
EXTENDS LifecycleReplay

CONSTANTS
    NoAttempt,          \* no execution attempt in a record
    NoOutcome,          \* no execution outcome in a record
    NoReconstruction,   \* EvaluationError
    MaxAltered          \* bound: how many events a run has whose evidence is altered

\* A quote has times, and no other quote its instrument, times and reference. Nothing that
\* stands for the absence of something is such a thing.
ASSUME EvidenceAssumption ==
    /\ IsFiniteSet(QuoteUniverse) /\ NoQuote \notin QuoteUniverse /\ MaxQuoteAge \in Int
    /\ \A q, r \in QuoteUniverse :
          /\ q.observation \in Int /\ q.ref \in Int
          /\ q # r /\ q.instrument = r.instrument => Newer(q, r) \/ Newer(r, q)
    /\ NoAttempt \notin [action : Universe, opportunity : Universe]
    /\ NoOutcome \notin
          [action : Universe, opportunity : Universe,
           outcome : [status : {"filled", "unfilled", "rejected"},
                      reason : {"filled", "no_legal_quote", "stale_quote", "crossed_quote",
                                "inconsistent"},
                      quote : QuoteUniverse \cup {NoQuote}]]

VARIABLE records        \* the LifecycleRecord of each event handled

reconstructionVars == <<vars, records>>

-----------------------------------------------------------------------------
AttemptOf(o) == [action |-> o.action, opportunity |-> o.opportunity]

\* LifecycleDecision of the signal e, of which state s made state t.
SignalDecision(s, t, e) ==
    CASE e \in Conflicted(events) -> "rejected"
      [] t # s -> "action_created"
      [] s.pending # NoAction /\ s.pending.type = e.type -> "ignored_redundant"
      [] OTHER -> "rejected"

\* LifecycleDecision of the opportunity e, with the attempts made of it.
OpportunityDecision(s, e, tried) ==
    CASE s.pending = NoAction -> "not_applicable"
      [] tried = {} -> "ineligible"
      [] \E a \in tried : a.outcome.status = "filled" -> "action_filled"
      [] \E a \in tried : a.outcome.status = "unfilled" -> "attempt_unfilled"
      [] OTHER -> "attempt_rejected"

\* What a record says of its event beside the reference that it is found by.
Header(e) == [kind |-> e.kind, time |-> e.time, instrument |-> e.instrument]

\* _record, from the states of the instrument before and after the event and from
\* the attempts made of it, of which there is at most one.
RecordOf(s, t, e, tried) ==
    LET conflicted == e \in Conflicted(events)
        decision == CASE e.kind = "signal" -> SignalDecision(s, t, e)
                      [] e.kind = "opportunity" -> OpportunityDecision(s, e, tried)
                      [] OTHER -> "not_applicable"
    IN  [event |-> e, header |-> Header(e),
         prior |-> s.state, resulting |-> t.state, decision |-> decision,
         action |-> IF conflicted \/ e.kind \notin {"signal", "opportunity"} THEN NoAction
                    ELSE IF decision = "action_created" THEN e ELSE s.pending,
         position |-> IF conflicted THEN NoPosition
                      ELSE IF t.position = NoPosition THEN s.position ELSE t.position,
         attempt |-> IF tried = {} THEN NoAttempt ELSE AttemptOf(CHOOSE a \in tried : TRUE),
         outcome |-> IF tried = {} THEN NoOutcome ELSE CHOOSE a \in tried : TRUE]

ReconstructionInit == Init /\ records = {}

\* An event is handled, and its record appended to the trace.
ReconstructionNext ==
    /\ Next
    /\ records' = records \cup
           {RecordOf(states[e.instrument], states'[e.instrument], e,
                     {a \in attempts' : a.opportunity = e}) : e \in done' \ done}

ReconstructionSpec == ReconstructionInit /\ [][ReconstructionNext]_reconstructionVars

-----------------------------------------------------------------------------
\* The final state of each instrument that has an event, given the states that were
\* reached, and what these leave open: process_lifecycle and its reader both ask so.
FinalStates(timeline, reached) == {<<e.instrument, reached[e.instrument]>> : e \in timeline}
Unresolved(finals) == {s[2].pending : s \in finals} \ {NoAction}
OpenPositions(finals) == {s[2].position : s \in finals} \ {NoPosition}

\* A SimulationResult: its economics are the outcomes attach_execution_economics
\* gives a value to. The events are there twice, in the timeline and in its lifecycle.
Evidence ==
    LET finals == FinalStates(events, states) IN
    [timeline |-> events, events |-> events, quotes |-> quotes, records |-> records,
     outcomes |-> attempts, attempts |-> {AttemptOf(a) : a \in attempts},
     economics |-> Fills, finals |-> finals,
     unresolved |-> Unresolved(finals), positions |-> OpenPositions(finals)]

\* The tables cover one another exactly, before any record is read.
Covered(run) ==
    /\ run.timeline = run.events
    /\ {r.event : r \in run.records} = run.events
    /\ Cardinality(run.records) = Cardinality(run.events)
    /\ run.attempts = {AttemptOf(o) : o \in run.outcomes}
    /\ Cardinality(run.attempts) = Cardinality(run.outcomes)
    /\ run.economics = {o \in run.outcomes : o.outcome.status = "filled"}

\* validate_fill: the chain of references of one fill.
FillHolds(r) ==
    LET quote == r.outcome.outcome.quote IN
    /\ r.decision = "action_filled" /\ r.position # NoPosition
    /\ r.position.opening.instrument = r.event.instrument
    /\ <<r.prior, r.resulting>> = IF r.action.type = "entry" THEN <<"pending_entry", "holding">>
                                                             ELSE <<"pending_exit", "flat">>
    /\ r.action.type = "entry" =>
          r.position = [opening |-> r.action, opened |-> r.event.time]
    /\ quote # NoQuote
    /\ quote.availability <= r.event.time
    /\ r.event.time - quote.observation <= MaxQuoteAge

\* TradeRecord: two fills share the position that the first opened, and the exit was
\* signalled and filled after the entry was.
TradeHolds(opening, closing) ==
    /\ FillHolds(opening) /\ FillHolds(closing)
    /\ opening.action.type = "entry" /\ closing.action.type = "exit"
    /\ opening.event.instrument = closing.event.instrument
    /\ opening.position = closing.position
    /\ closing.event.time > opening.event.time
    /\ closing.action.time > opening.event.time

\* An action is created by its own signal, from the state its type starts from.
CreationHolds(s, r) ==
    /\ r.event.kind = "signal" /\ r.action = r.event
    /\ r.attempt = NoAttempt /\ r.outcome = NoOutcome
    /\ s.state = IF r.event.type = "entry" THEN "flat" ELSE "holding"
    /\ s.pending = NoAction /\ r.position = s.position

\* An attempt is of the pending action at this very opportunity, and counts once.
ExecutionHolds(run, used, s, r) ==
    /\ r.action # NoAction /\ r.action = s.pending
    /\ r.attempt = AttemptOf(r.outcome) /\ r.outcome \in run.outcomes
    /\ r.attempt \notin used
    /\ r.attempt = [action |-> r.action, opportunity |-> r.event]
    /\ r.event.kind = "opportunity" /\ r.event.time > r.action.time
    /\ r.outcome.outcome.quote \in run.quotes \cup {NoQuote}

FailureHolds(s, r) ==
    /\ r.decision = IF r.outcome.outcome.status = "unfilled" THEN "attempt_unfilled"
                                                             ELSE "attempt_rejected"
    /\ r.position = s.position

\* A record that moves nothing may name only what its instrument has.
InactionHolds(s, r) ==
    /\ r.attempt = NoAttempt
    /\ r.decision \notin {"action_filled", "attempt_unfilled", "attempt_rejected"}
    /\ r.action \in {NoAction, s.pending} /\ r.position \in {NoPosition, s.position}

\* The books of the reader: the state of each instrument, the records of the entries
\* that are open, the attempts used and the trades closed; or none of it.
Blank == [states |-> [i \in Instruments |-> FlatState],
          openings |-> {}, used |-> {}, trades |-> {}]
Refused == [refused |-> TRUE]

Create(books, r) ==
    LET i == r.event.instrument IN
    IF ~CreationHolds(books.states[i], r) THEN Refused
    ELSE [books EXCEPT !.states[i] =
             [state |-> IF r.action.type = "entry" THEN "pending_entry" ELSE "pending_exit",
              pending |-> r.action, position |-> @.position]]

Open(books, r) ==
    IF ~FillHolds(r) THEN Refused
    ELSE [books EXCEPT !.states[r.event.instrument] =
                           [state |-> "holding", pending |-> NoAction, position |-> r.position],
                       !.openings = @ \cup {r}]

\* Mutant: a filled entry stays among the openings when an exit is paired with it.
CloseKeepsOpening(books, r) ==
    LET i == r.event.instrument
        opening == {o \in books.openings : o.action = r.position.opening}
    IN  IF r.position = NoPosition \/ r.position # books.states[i].position THEN Refused
        ELSE IF opening = {} \/ \E o \in opening : ~TradeHolds(o, r) THEN Refused
        ELSE [books EXCEPT !.states[i] = FlatState,
                           !.trades = @ \cup {[entry |-> o, exit |-> r] : o \in opening}]

\* The exit takes the entry that opened its position out of the openings.
Close(books, r) ==
    LET i == r.event.instrument
        opening == {o \in books.openings : o.action = r.position.opening}
    IN  IF r.position = NoPosition \/ r.position # books.states[i].position THEN Refused
        ELSE IF opening = {} \/ \E o \in opening : ~TradeHolds(o, r) THEN Refused
        ELSE [books EXCEPT !.states[i] = FlatState, !.openings = @ \ opening,
                           !.trades = @ \cup {[entry |-> o, exit |-> r] : o \in opening}]

Execute(run, books, r) ==
    LET s == books.states[r.event.instrument]
        status == r.outcome.outcome.status
        counted == [books EXCEPT !.used = @ \cup {r.attempt}]
    IN  IF ~ExecutionHolds(run, books.used, s, r) THEN Refused
        ELSE IF status # "filled" THEN IF FailureHolds(s, r) THEN counted ELSE Refused
        ELSE IF r.action.type = "entry"
             THEN IF s.position # NoPosition THEN Refused ELSE Open(counted, r)
        ELSE Close(counted, r)

\* What one record does to the books, whatever states it claims.
Read(run, books, r) ==
    IF r.decision = "action_created" THEN Create(books, r)
    ELSE IF r.outcome # NoOutcome THEN Execute(run, books, r)
    ELSE IF InactionHolds(books.states[r.event.instrument], r) THEN books
    ELSE Refused

\* Mutant: the state a record claims to come from is not compared.
ReadNextAnyPrior(run, books, r) ==
    LET after == IF books = Refused \/ r.header # Header(r.event) THEN Refused
                 ELSE Read(run, books, r)
    IN  IF after # Refused /\ after.states[r.event.instrument].state = r.resulting
        THEN after ELSE Refused

\* One turn of the loop: the record must describe its event, come from the state the
\* books have, and lead to the one they get.
ReadNext(run, books, r) ==
    LET i == r.event.instrument
        after == IF \/ books = Refused \/ r.header # Header(r.event)
                    \/ books.states[i].state # r.prior
                 THEN Refused ELSE Read(run, books, r)
    IN  IF after # Refused /\ after.states[i].state = r.resulting THEN after ELSE Refused

\* The record of an event, and one turn of the loop with what it reads in.
RecordFor(run, e) == CHOOSE r \in run.records : r.event = e

ReadEvent(reading, e) ==
    [reading EXCEPT !.books = ReadNext(reading.run, @, RecordFor(reading.run, e))]

\* Mutant: what is said to be left open is not compared with the final states.
SettledByStates(run, books) ==
    LET finals == FinalStates(run.events, books.states) IN
    /\ books.used = run.attempts
    /\ finals = run.finals
    /\ {o.action : o \in books.openings} = {p.opening : p \in OpenPositions(finals)}

\* The books at the end of the trace against the tables of what was left over.
Settled(run, books) ==
    LET finals == FinalStates(run.events, books.states) IN
    /\ books.used = run.attempts
    /\ finals = run.finals
    /\ Unresolved(finals) = run.unresolved
    /\ OpenPositions(finals) = run.positions
    /\ {o.action : o \in books.openings} = {p.opening : p \in OpenPositions(finals)}

\* reconstruct_trades.
Reconstruct(run) ==
    LET books == IF ~Covered(run) THEN Refused
                 ELSE FoldLeft(ReadEvent, [run |-> run, books |-> Blank],
                               Ordered(run.events)).books
    IN  IF books = Refused \/ ~Settled(run, books) THEN NoReconstruction
        ELSE [trades |-> {<<t.entry.outcome, t.exit.outcome>> : t \in books.trades},
              open |-> {o.outcome : o \in books.openings},
              incomplete |-> {s \in FinalStates(run.events, books.states) :
                                 s[2].state # "flat"},
              unsuccessful |-> {o \in run.outcomes : o.outcome.status # "filled"}]

-----------------------------------------------------------------------------
\* The reader and the loop agree on every run, though nothing but the trace passes
\* between them: the evidence of a complete run is never refused, its trades are the
\* fills of an instrument that follow one another, entry and exit, and what no exit
\* follows is reported as open. No fill is lost, and none counts twice.
ReconstructionAccounts ==
    LET Follows(a, b) ==
            /\ a.action.instrument = b.action.instrument
            /\ a.opportunity.time < b.opportunity.time
            /\ ~\E c \in Fills : /\ c.action.instrument = a.action.instrument
                                 /\ a.opportunity.time < c.opportunity.time
                                 /\ c.opportunity.time < b.opportunity.time
        entries == {a \in Fills : a.action.type = "entry"}
    IN  done = events =>
            Reconstruct(Evidence) =
                [trades |-> {p \in entries \X (Fills \ entries) : Follows(p[1], p[2])},
                 open |-> {a \in entries : ~\E b \in Fills : Follows(a, b)},
                 incomplete |-> {<<e.instrument, states[e.instrument]>> :
                                    e \in {f \in events :
                                              states[f.instrument].state # "flat"}},
                 unsuccessful |-> attempts \ Fills]

Decisions ==
    {"rejected", "action_created", "ignored_redundant", "not_applicable", "ineligible",
     "action_filled", "attempt_unfilled", "attempt_rejected"}
LifecycleStates == {"flat", "pending_entry", "holding", "pending_exit"}

\* A record, an outcome or a final state with one field set to something else.
AlteredRecords(r) ==
    {[r EXCEPT !.event = e] : e \in events}
    \cup {[r EXCEPT !.header = Header(e)] : e \in Universe}
    \cup {[r EXCEPT !.prior = s] : s \in LifecycleStates}
    \cup {[r EXCEPT !.resulting = s] : s \in LifecycleStates}
    \cup {[r EXCEPT !.decision = d] : d \in Decisions}
    \cup {[r EXCEPT !.action = a] : a \in Signals(events) \cup {NoAction}}
    \cup {[r EXCEPT !.position = p] :
             p \in {NoPosition} \cup {q.position : q \in records}
                   \cup [opening : Signals(events), opened : {r.event.time}]}
    \cup {[r EXCEPT !.attempt = a] : a \in {NoAttempt} \cup {AttemptOf(o) : o \in attempts}}
    \cup {[r EXCEPT !.outcome = o] : o \in {NoOutcome} \cup attempts}

AlteredOutcomes(o) ==
    {[o EXCEPT !.action = a] : a \in Signals(events)}
    \cup {[o EXCEPT !.opportunity = e] : e \in Opportunities(events)}
    \cup {[o EXCEPT !.outcome.status = s] : s \in {"filled", "unfilled", "rejected"}}
    \cup {[o EXCEPT !.outcome.reason = w] :
             w \in {"filled", "no_legal_quote", "stale_quote", "crossed_quote", "inconsistent"}}
    \cup {[o EXCEPT !.outcome.quote = q] : q \in quotes \cup {NoQuote}}

AlteredFinals(f) ==
    {<<f[1], s>> : s \in {[f[2] EXCEPT !.state = t] : t \in LifecycleStates}
                         \cup {[f[2] EXCEPT !.pending = a] : a \in Signals(events) \cup {NoAction}}
                         \cup {[f[2] EXCEPT !.position = p] :
                                  p \in {NoPosition} \cup {q.position : q \in records}}}

\* A table with one row left out, or set to one of the others that stand for it.
OneOff(table, others) ==
    {table \ {x} : x \in table}
    \cup UNION {{(table \ {x}) \cup {y} : y \in others[x] \ {x}} : x \in table}

\* A run with one row of one of its tables left out or altered.
Altered(run) ==
    LET opened == {e.time : e \in Opportunities(events)} IN
    UNION
    {{[run EXCEPT !.timeline = t] : t \in OneOff(run.timeline, [e \in run.timeline |-> Universe])},
     {[run EXCEPT !.events = t] : t \in OneOff(run.events, [e \in run.events |-> Universe])},
     {[run EXCEPT !.quotes = t] : t \in OneOff(run.quotes, [q \in run.quotes |-> QuoteUniverse])},
     {[run EXCEPT !.records = t] :
         t \in OneOff(run.records, [r \in run.records |-> AlteredRecords(r)])},
     {[run EXCEPT !.attempts = t] :
         t \in OneOff(run.attempts,
                      [a \in run.attempts |-> [action : Signals(events),
                                               opportunity : Opportunities(events)]])},
     {[run EXCEPT !.outcomes = t] :
         t \in OneOff(run.outcomes, [o \in run.outcomes |-> AlteredOutcomes(o)])},
     {[run EXCEPT !.economics = t] :
         t \in OneOff(run.economics, [o \in run.economics |-> AlteredOutcomes(o)])},
     {[run EXCEPT !.finals = t] :
         t \in OneOff(run.finals, [f \in run.finals |-> AlteredFinals(f)])},
     {[run EXCEPT !.unresolved = t] :
         t \in OneOff(run.unresolved, [a \in run.unresolved |-> Signals(events)])},
     {[run EXCEPT !.positions = t] :
         t \in OneOff(run.positions,
                      [p \in run.positions |-> [opening : Signals(events), opened : opened]])}}

\* What has a bearing: of a record that moves nothing, the states it joins, and of the
\* quotes, those that are the evidence of an outcome.
Essence(run) ==
    LET Idle(r) == r.outcome = NoOutcome /\ r.decision # "action_created"
        Stripped(r) == IF Idle(r) THEN [r EXCEPT !.decision = "idle", !.action = NoAction,
                                                 !.position = NoPosition]
                       ELSE r
    IN  [run EXCEPT !.records = {Stripped(r) : r \in run.records},
                    !.quotes = {q \in run.quotes :
                                   \E o \in run.outcomes : o.outcome.quote = q}]

\* No single row of the evidence, in whichever of its tables, can be left out or have
\* a field changed unnoticed: the run is then refused, unless it was the remark of a
\* record that moves nothing, or a quote that is the evidence of no outcome.
AlterationsAreRefused ==
    done = events /\ Fills # {} /\ Cardinality(events) <= MaxAltered =>
        LET essence == Essence(Evidence) IN
        \A run \in Altered(Evidence) :
            Reconstruct(run) # NoReconstruction => Essence(run) = essence

=============================================================================
