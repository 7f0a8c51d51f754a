--------------------------- MODULE ShadowSession ---------------------------
(***************************************************************************)
(* ShadowSession (src/src/shadow/application/shadow.py): the append-only   *)
(* record of one live session. Its three calls are operators from a        *)
(* session to a session, so that the live stream and a replay of a capture *)
(* use the same ones. A call that raises adds no record; one that returns  *)
(* adds exactly one.                                                       *)
(*                                                                         *)
(* An observation is [kind, instrument, time, received, value, reference]: *)
(* time is observation_time, received availability_time, value the close   *)
(* of a bar or the content of a quote, and reference the hash of the       *)
(* payload it came in, 0 if none is given.                                 *)
(***************************************************************************)
EXTENDS Integers, Sequences

CONSTANTS
    Instruments,      \* the instruments that have a strategy
    Window,           \* rolling_window, one for all of them here
    MaximumBarAge,    \* ShadowConfig.maximum_bar_age
    MaximumQuoteAge,  \* ShadowConfig.maximum_quote_age
    MaximumFeatureAge, \* MeanReversionConfig.maximum_feature_age
    MaximumRecords,   \* ShadowConfig.maximum_records
    None              \* no observation

ASSUME SessionAssumption ==
    /\ Window \in Nat \ {0} /\ MaximumRecords \in Nat \ {0}
    /\ MaximumBarAge \in Nat \ {0} /\ MaximumQuoteAge \in Nat \ {0}
    /\ MaximumFeatureAge \in Nat

Controls == {"connected", "disconnected", "failed", "stopped", "tick"}
TerminalHealth == {"failed", "stopped"}
FeedHealth == {"starting", "healthy", "stale", "disconnected"} \cup TerminalHealth
Kinds == {"bar", "quote"}

\* __init__. The clock is unset until the first call: 0 is before every time.
NewSession ==
    [health |-> "starting", connected |-> FALSE, now |-> 0, records |-> <<>>,
     bars |-> [i \in Instruments |-> <<>>],
     latest |-> [k \in Kinds \X Instruments |-> None],
     seen |-> {}]

Terminal(s) == s.health \in TerminalHealth

-----------------------------------------------------------------------------
\* _advance raises, and the session has failed, with no record of it.
Refused(s, t) == t < s.now \/ Len(s.records) >= MaximumRecords

\* _advance.
Advance(s, t) ==
    IF Refused(s, t) THEN [s EXCEPT !.health = "failed"] ELSE [s EXCEPT !.now = t]

\* _bar_is_fresh.
BarIsFresh(s, i) ==
    LET b == s.latest[<<"bar", i>>] IN
    b # None /\ b.received <= s.now /\ s.now - b.time <= MaximumBarAge

\* Mutant: the age of a quote is not looked at.
QuoteIsFreshAtAnyAge(s, i) == s.latest[<<"quote", i>>] # None

\* _quote_is_fresh.
QuoteIsFresh(s, i) ==
    LET q == s.latest[<<"quote", i>>] IN
    q # None /\ q.received <= s.now /\ s.now - q.time <= MaximumQuoteAge

\* _refresh.
Refresh(s) ==
    IF ~s.connected \/ Terminal(s) THEN s
    ELSE [s EXCEPT !.health =
            IF \A i \in Instruments : BarIsFresh(s, i) THEN "healthy"
            ELSE IF \E i \in Instruments : s.latest[<<"bar", i>>] # None THEN "stale"
            ELSE "starting"]

\* ShadowRecord: feature is the window it was computed from, risk what became of the
\* candidate.
Entry(s, action, disposition, observation, derived) ==
    [action |-> action, disposition |-> disposition, time |-> s.now, health |-> s.health,
     observation |-> observation, feature |-> derived.feature, signal |-> derived.signal,
     risk |-> derived.risk]

NothingDerived == [feature |-> <<>>, signal |-> FALSE, risk |-> "none"]

\* _record.
Recorded(s, action, disposition, observation, derived) ==
    [s EXCEPT !.records = Append(@, Entry(s, action, disposition, observation, derived))]

-----------------------------------------------------------------------------
\* Mutant: a session that was stopped can be connected again.
ControlAfterStop(s, action, t) ==
    LET c == Advance(s, t) IN
    IF Refused(s, t) \/ c.health = "failed" \/ action \notin Controls THEN c
    ELSE LET d == IF action \in {"connected", "tick"}
                  THEN Refresh([c EXCEPT !.connected = @ \/ action = "connected",
                                         !.health = IF @ = "stopped" THEN "starting" ELSE @])
                  ELSE [c EXCEPT !.connected = FALSE, !.health = action]
         IN  Recorded(d, action, action, None, NothingDerived)

\* Mutant: an unknown control is found out only after it was acted on.
ControlUnknownActs(s, action, t) ==
    LET c == Advance(s, t) IN
    IF Refused(s, t) \/ Terminal(c) THEN c
    ELSE IF action \notin Controls THEN [c EXCEPT !.connected = FALSE]
    ELSE LET d == IF action \in {"connected", "tick"}
                  THEN Refresh([c EXCEPT !.connected = @ \/ action = "connected"])
                  ELSE [c EXCEPT !.connected = FALSE, !.health = action]
         IN  Recorded(d, action, action, None, NothingDerived)

\* control; the details of a control are not modelled.
Control(s, action, t) ==
    LET c == Advance(s, t) IN
    IF Refused(s, t) \/ Terminal(c) \/ action \notin Controls THEN c
    ELSE LET d == IF action \in {"connected", "tick"}
                  THEN Refresh([c EXCEPT !.connected = @ \/ action = "connected"])
                  ELSE [c EXCEPT !.connected = FALSE, !.health = action]
         IN  Recorded(d, action, action, None, NothingDerived)

\* invalid.
Invalid(s, t) ==
    LET c == Advance(s, t) IN
    IF Refused(s, t) \/ Terminal(c) THEN c
    ELSE Recorded(Refresh(c), "observation", "invalid", None, NothingDerived)

-----------------------------------------------------------------------------
Key(o) == <<o.kind, o.instrument>>

\* The identity under which _seen keeps an observation.
SameIdentity(o, p) == Key(o) = Key(p) /\ o.time = p.time

\* _same_logical_observation and the comparison of the delivery references: o is a
\* redelivery of p.
SameContent(o, p) ==
    /\ SameIdentity(o, p) /\ o.value = p.value
    /\ o.reference = 0 \/ p.reference = 0 \/ o.reference = p.reference

\* Mutant: an observation older than the latest is taken in as well.
DispositionAnyOrder(s, o) ==
    IF ~s.connected THEN "disconnected"
    ELSE IF \E p \in s.seen : SameContent(o, p) THEN "duplicate"
    ELSE IF \E p \in s.seen : SameIdentity(o, p) THEN "same_time_variant"
    ELSE "accepted"

\* The disposition of accept.
Disposition(s, o) ==
    IF ~s.connected THEN "disconnected"
    ELSE IF \E p \in s.seen : SameContent(o, p) THEN "duplicate"
    ELSE IF \E p \in s.seen : SameIdentity(o, p) THEN "same_time_variant"
    ELSE IF s.latest[Key(o)] # None /\ o.time < s.latest[Key(o)].time THEN "out_of_order"
    ELSE "accepted"

\* The last n elements of a sequence: del history[:-n].
LastOf(n, history) ==
    IF Len(history) <= n THEN history ELSE SubSeq(history, Len(history) - n + 1, Len(history))

\* evaluate_mean_reversion from FLAT, on a feature available now: the feature is recent,
\* its window full and the last close below all others. With a window of 2 that is a
\* z-score of -1, the lowest there is.
IsEntry(s, history) ==
    /\ Len(history) = Window /\ s.now - history[Window].time <= MaximumFeatureAge
    /\ \A j \in 1 .. Window - 1 : history[Window].value < history[j].value

\* _risk_observability: of a candidate, whether a quote is at hand. With one the
\* configuration decides between "evaluated" and "operational_state_unavailable".
RiskObservability(s, i) == IF QuoteIsFresh(s, i) THEN "quote_ready" ELSE "quote_not_ready"

\* Mutant: a signal is looked for on any bar that was taken in.
DeriveStale(s, o) ==
    IF o.kind = "quote" THEN NothingDerived
    ELSE LET signal == IsEntry(s, s.bars[o.instrument])
         IN  [feature |-> s.bars[o.instrument], signal |-> signal,
              risk |-> IF signal THEN RiskObservability(s, o.instrument) ELSE "none"]

\* What accept derives from an accepted observation, the session already holding it.
Derive(s, o) ==
    IF o.kind = "quote" THEN NothingDerived
    ELSE LET signal == BarIsFresh(s, o.instrument) /\ IsEntry(s, s.bars[o.instrument])
         IN  [feature |-> s.bars[o.instrument], signal |-> signal,
              risk |-> IF signal THEN RiskObservability(s, o.instrument) ELSE "none"]

\* The state that accept keeps of an accepted observation.
Kept(s, o) ==
    [s EXCEPT !.seen = @ \cup {o}, !.latest[Key(o)] = o,
              !.bars[o.instrument] =
                  IF o.kind = "bar" THEN LastOf(Window, Append(@, o)) ELSE @]

\* accept. An instrument without a strategy stands for every breach of the scope.
Accept(s, o) ==
    LET c == Advance(s, o.received) IN
    IF Refused(s, o.received) \/ Terminal(c) THEN c
    ELSE IF o.instrument \notin Instruments THEN [c EXCEPT !.health = "failed"]
    ELSE LET disposition == Disposition(c, o)
             d == IF disposition = "accepted" THEN Kept(c, o) ELSE c
             derived == IF disposition = "accepted" THEN Derive(d, o) ELSE NothingDerived
         IN  Recorded(Refresh(d), "observation", disposition, o, derived)
=============================================================================
