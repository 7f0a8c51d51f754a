-------------------------- MODULE LiveStreamProofs --------------------------
(***************************************************************************)
(* First, what a session is under any calls at any times, and what its     *)
(* records tell of it. All rests on what a call does to the session: it    *)
(* writes one record, of which the call can be made again, or none. The    *)
(* histories of the session are tied to a fold over its records, and the   *)
(* session itself to their replay.                                         *)
(*                                                                         *)
(* Then, what a live run does to its session and to its capture, whatever  *)
(* is received, however often the connection is lost, writes fail or the   *)
(* clock is set back. A step makes one call of the session or none, so     *)
(* that what holds of a session under any calls holds of that of a run;    *)
(* the rest is about the writes and the phases.                            *)
(***************************************************************************)
EXTENDS LiveStream, SequenceTheorems, TLAPS

\* A session is a record of these fields.
IsSession(s) ==
    s = [health |-> s.health, connected |-> s.connected, now |-> s.now, records |-> s.records,
         bars |-> s.bars, latest |-> s.latest, seen |-> s.seen]

\* What a call makes of a session: after has the records of before or one more, and a
\* terminal session gets no more and stays terminal.
Called(before, after) ==
    /\ IsSession(after)
    /\ \/ after.records = before.records
       \/ /\ ~Terminal(before)
          /\ \E e : after.records = Append(before.records, e)
    /\ Terminal(before) => Terminal(after)

Typed(s) == s.health \in FeedHealth /\ s.connected \in BOOLEAN

\* What a call at time t makes of the clock, and how it ends a session: if the call is not
\* refused, by a record of that end.
CalledAt(before, after, t) ==
    /\ Typed(before) => Typed(after)
    /\ after.now = IF Refused(before, t) THEN before.now ELSE t
    /\ Refused(before, t) => after.records = before.records
    /\ ~Refused(before, t) /\ Terminal(after) =>
          IF Terminal(before)
          THEN after.health = before.health /\ after.records = before.records
          ELSE \E e : e.action = after.health /\ after.records = Append(before.records, e)

-----------------------------------------------------------------------------
\* _advance, _refresh, _record and what accept keeps.
LEMMA AdvanceKeeps ==
    ASSUME NEW s, NEW t, IsSession(s)
    PROVE  /\ IsSession(Advance(s, t))
           /\ Advance(s, t).records = s.records
           /\ Advance(s, t).connected = s.connected
           /\ Advance(s, t).health = IF Refused(s, t) THEN "failed" ELSE s.health
           /\ Advance(s, t).now = IF Refused(s, t) THEN s.now ELSE t
<1>1. CASE Refused(s, t)
  <2>1. Advance(s, t) = [s EXCEPT !.health = "failed"]
    BY <1>1 DEF Advance
  <2>2. QED
    BY <1>1, <2>1 DEF IsSession
<1>2. CASE ~Refused(s, t)
  <2>1. Advance(s, t) = [s EXCEPT !.now = t]
    BY <1>2 DEF Advance
  <2>2. QED
    BY <1>2, <2>1 DEF IsSession
<1>3. QED
  BY <1>1, <1>2

LEMMA RefreshKeeps ==
    ASSUME NEW s, IsSession(s)
    PROVE  /\ IsSession(Refresh(s))
           /\ Refresh(s).records = s.records
           /\ Refresh(s).connected = s.connected
           /\ Refresh(s).now = s.now
           /\ ~s.connected => Refresh(s).health = s.health
           /\ Typed(s) => Typed(Refresh(s))
           /\ Terminal(Refresh(s)) => Terminal(s)
<1>1. CASE ~s.connected \/ Terminal(s)
  <2>1. Refresh(s) = s
    BY <1>1 DEF Refresh
  <2>2. QED
    BY <1>1, <2>1
<1>2. CASE ~(~s.connected \/ Terminal(s))
  <2>1. PICK h \in {"healthy", "stale", "starting"} : Refresh(s) = [s EXCEPT !.health = h]
    BY <1>2 DEF Refresh
  <2>2. QED
    BY <1>2, <2>1 DEF IsSession, Terminal, TerminalHealth, Typed, FeedHealth
<1>3. QED
  BY <1>1, <1>2

LEMMA RecordedAppends ==
    ASSUME NEW s, NEW action, NEW disposition, NEW observation, NEW derived, IsSession(s)
    PROVE  LET after == Recorded(s, action, disposition, observation, derived) IN
           /\ IsSession(after)
           /\ after.records = Append(s.records, Entry(s, action, disposition, observation, derived))
           /\ after.health = s.health /\ after.connected = s.connected /\ after.now = s.now
BY DEF Recorded, IsSession

LEMMA KeptKeeps ==
    ASSUME NEW s, NEW o, IsSession(s)
    PROVE  /\ IsSession(Kept(s, o))
           /\ Kept(s, o).records = s.records /\ Kept(s, o).connected = s.connected
           /\ Kept(s, o).health = s.health /\ Kept(s, o).now = s.now
<1>1. PICK l, b : Kept(s, o) = [s EXCEPT !.seen = s.seen \cup {o}, !.latest = l, !.bars = b]
  BY DEF Kept, IsSession
<1>2. QED
  BY <1>1 DEF IsSession

\* control.
LEMMA ControlCalls ==
    ASSUME NEW s, NEW action, NEW t, IsSession(s)
    PROVE  /\ Called(s, Control(s, action, t)) /\ CalledAt(s, Control(s, action, t), t)
           /\ action \in {"failed", "stopped"} => Terminal(Control(s, action, t))
           /\ action \in {"disconnected", "failed", "stopped"}
                /\ Control(s, action, t).records # s.records =>
                   ~Control(s, action, t).connected /\ Control(s, action, t).health = action
<1> DEFINE c == Advance(s, t)
<1>1. /\ IsSession(c) /\ c.records = s.records
      /\ c.health = IF Refused(s, t) THEN "failed" ELSE s.health
      /\ c.now = IF Refused(s, t) THEN s.now ELSE t
  BY AdvanceKeeps
<1>2. /\ Terminal(s) => Terminal(c)
      /\ Refused(s, t) => Terminal(c)
      /\ ~Refused(s, t) /\ Terminal(c) => Terminal(s)
      /\ Typed(s) => Typed(c)
  BY <1>1, AdvanceKeeps DEF Terminal, TerminalHealth, Typed, FeedHealth
<1>3. CASE Refused(s, t) \/ Terminal(c) \/ action \notin Controls
  <2>1. Control(s, action, t) = c
    BY <1>3 DEF Control
  <2>2. Called(s, c) /\ CalledAt(s, c, t)
    BY <1>1, <1>2 DEF Called, CalledAt
  <2>3. action \in {"failed", "stopped"} => Terminal(c)
    BY <1>2, <1>3 DEF Controls
  <2>4. QED
    BY <1>1, <2>1, <2>2, <2>3
<1>4. CASE ~(Refused(s, t) \/ Terminal(c) \/ action \notin Controls)
  <2> DEFINE d == IF action \in {"connected", "tick"}
                  THEN Refresh([c EXCEPT !.connected = @ \/ action = "connected"])
                  ELSE [c EXCEPT !.connected = FALSE, !.health = action]
             entry == Entry(d, action, action, None, NothingDerived)
  <2>1. Control(s, action, t) = Recorded(d, action, action, None, NothingDerived)
    BY <1>4 DEF Control
  <2>2. /\ IsSession(d) /\ d.records = s.records /\ d.now = t
        /\ action \notin {"connected", "tick"} => ~d.connected /\ d.health = action
        /\ action \in {"connected", "tick"} => ~Terminal(d)
        /\ Typed(s) => Typed(d)
    <3>1. CASE action \in {"connected", "tick"}
      <4>1. PICK v \in BOOLEAN :
                [c EXCEPT !.connected = @ \/ action = "connected"] = [c EXCEPT !.connected = v]
        OBVIOUS
      <4>2. /\ IsSession([c EXCEPT !.connected = v])
            /\ [c EXCEPT !.connected = v].records = s.records
            /\ [c EXCEPT !.connected = v].now = t
            /\ ~Terminal([c EXCEPT !.connected = v])
            /\ Typed(s) => Typed([c EXCEPT !.connected = v])
        BY <1>1, <1>2, <1>4 DEF IsSession, Terminal, Typed
      <4>3. d = Refresh([c EXCEPT !.connected = v])
        BY <3>1, <4>1
      <4>4. QED
        BY <3>1, <4>2, <4>3, RefreshKeeps
    <3>2. CASE action \notin {"connected", "tick"}
      <4>1. d = [c EXCEPT !.connected = FALSE, !.health = action]
        BY <3>2
      <4>2. QED
        BY <1>1, <1>4, <3>2, <4>1 DEF IsSession, Typed, FeedHealth, TerminalHealth, Controls
    <3>3. QED
      BY <3>1, <3>2
  <2> HIDE DEF d
  <2>3. /\ IsSession(Control(s, action, t))
        /\ Control(s, action, t).records = Append(s.records, entry)
        /\ Control(s, action, t).health = d.health /\ Control(s, action, t).connected = d.connected
        /\ Control(s, action, t).now = t
    BY <2>1, <2>2, RecordedAppends
  <2>4. ~Terminal(s) /\ ~Refused(s, t)
    BY <1>2, <1>4
  <2>5. entry.action = action
    BY DEF Entry
  <2> HIDE DEF entry
  <2>6. Called(s, Control(s, action, t))
    BY <2>3, <2>4 DEF Called
  <2>7. CalledAt(s, Control(s, action, t), t)
    BY <2>2, <2>3, <2>4, <2>5 DEF CalledAt, Terminal, Typed
  <2>8. action \in {"failed", "stopped"} => Terminal(Control(s, action, t))
    BY <2>2, <2>3 DEF Terminal, TerminalHealth
  <2>9. QED
    BY <2>2, <2>3, <2>6, <2>7, <2>8
<1>5. QED
  BY <1>3, <1>4

\* invalid.
LEMMA InvalidCalls ==
    ASSUME NEW s, NEW t, IsSession(s)
    PROVE  Called(s, Invalid(s, t)) /\ CalledAt(s, Invalid(s, t), t)
<1> DEFINE c == Advance(s, t)
<1>1. /\ IsSession(c) /\ c.records = s.records
      /\ c.health = IF Refused(s, t) THEN "failed" ELSE s.health
      /\ c.now = IF Refused(s, t) THEN s.now ELSE t
  BY AdvanceKeeps
<1>2. /\ Terminal(s) => Terminal(c)
      /\ Refused(s, t) => Terminal(c)
      /\ ~Refused(s, t) /\ Terminal(c) => Terminal(s)
      /\ Typed(s) => Typed(c)
  BY <1>1, AdvanceKeeps DEF Terminal, TerminalHealth, Typed, FeedHealth
<1>3. CASE Refused(s, t) \/ Terminal(c)
  <2>1. Invalid(s, t) = c
    BY <1>3 DEF Invalid
  <2>2. QED
    BY <1>1, <1>2, <2>1 DEF Called, CalledAt
<1>4. CASE ~(Refused(s, t) \/ Terminal(c))
  <2> DEFINE d == Refresh(c)
  <2>1. Invalid(s, t) = Recorded(d, "observation", "invalid", None, NothingDerived)
    BY <1>4 DEF Invalid
  <2>2. /\ IsSession(d) /\ d.records = s.records /\ d.now = t /\ ~Terminal(d)
        /\ Typed(s) => Typed(d)
    BY <1>1, <1>2, <1>4, RefreshKeeps
  <2> HIDE DEF d
  <2>3. /\ IsSession(Invalid(s, t)) /\ Invalid(s, t).now = t /\ Invalid(s, t).health = d.health
        /\ Invalid(s, t).connected = d.connected
        /\ Invalid(s, t).records
              = Append(s.records, Entry(d, "observation", "invalid", None, NothingDerived))
    BY <2>1, <2>2, RecordedAppends
  <2>4. QED
    BY <1>2, <1>4, <2>2, <2>3 DEF Called, CalledAt, Terminal, Typed
<1>5. QED
  BY <1>3, <1>4

\* accept.
LEMMA AcceptCalls ==
    ASSUME NEW s, NEW o, IsSession(s)
    PROVE  /\ Called(s, Accept(s, o))
           /\ o.instrument \in Instruments => CalledAt(s, Accept(s, o), o.received)
<1> DEFINE c == Advance(s, o.received)
<1>1. /\ IsSession(c) /\ c.records = s.records
      /\ c.health = IF Refused(s, o.received) THEN "failed" ELSE s.health
      /\ c.now = IF Refused(s, o.received) THEN s.now ELSE o.received
  BY AdvanceKeeps
<1>2. /\ Terminal(s) => Terminal(c)
      /\ ~Refused(s, o.received) /\ Terminal(c) => Terminal(s)
      /\ Typed(s) => Typed(c)
  BY <1>1, AdvanceKeeps DEF Terminal, TerminalHealth, Typed, FeedHealth
<1>3. CASE Refused(s, o.received) \/ Terminal(c)
  <2>1. Accept(s, o) = c
    BY <1>3 DEF Accept
  <2>2. QED
    BY <1>1, <1>2, <2>1 DEF Called, CalledAt
<1>4. CASE ~(Refused(s, o.received) \/ Terminal(c)) /\ o.instrument \notin Instruments
  <2>1. Accept(s, o) = [c EXCEPT !.health = "failed"]
    BY <1>4 DEF Accept
  <2>2. QED
    BY <1>1, <1>4, <2>1 DEF Called, IsSession, Terminal, TerminalHealth
<1>5. CASE ~(Refused(s, o.received) \/ Terminal(c)) /\ o.instrument \in Instruments
  <2> DEFINE disposition == Disposition(c, o)
             d == IF disposition = "accepted" THEN Kept(c, o) ELSE c
             derived == IF disposition = "accepted" THEN Derive(d, o) ELSE NothingDerived
  <2>1. Accept(s, o) = Recorded(Refresh(d), "observation", disposition, o, derived)
    BY <1>5 DEF Accept
  <2>2. /\ IsSession(d) /\ d.records = s.records /\ d.now = o.received /\ ~Terminal(d)
        /\ Typed(s) => Typed(d)
    BY <1>1, <1>2, <1>5, KeptKeeps DEF Terminal, Typed
  <2> HIDE DEF d, disposition, derived
  <2>3. /\ IsSession(Refresh(d)) /\ Refresh(d).records = s.records
        /\ Refresh(d).now = o.received /\ ~Terminal(Refresh(d))
        /\ Typed(s) => Typed(Refresh(d))
    BY <2>2, RefreshKeeps
  <2>4. /\ IsSession(Accept(s, o)) /\ Accept(s, o).now = o.received
        /\ Accept(s, o).health = Refresh(d).health
        /\ Accept(s, o).connected = Refresh(d).connected
        /\ Accept(s, o).records
              = Append(s.records, Entry(Refresh(d), "observation", disposition, o, derived))
    BY <2>1, <2>3, RecordedAppends
  <2>5. QED
    BY <1>2, <1>5, <2>3, <2>4 DEF Called, CalledAt, Terminal, Typed
<1>6. QED
  BY <1>3, <1>4, <1>5

-----------------------------------------------------------------------------
\* A session is well formed, and told healthy or stale only while it is connected.
WellFormed(s) ==
    /\ IsSession(s) /\ Typed(s) /\ s.now \in Nat
    /\ s.health \in {"healthy", "stale"} => s.connected

SameHistory(s, d) == d.bars = s.bars /\ d.latest = s.latest /\ d.seen = s.seen

\* A call that leaves no record moves the clock at most, and may fail the session.
Quiet(s, after) ==
    /\ IsSession(after) /\ SameHistory(s, after)
    /\ after.records = s.records /\ after.connected = s.connected
    /\ after.now \in Nat /\ s.now <= after.now /\ after.health \in {s.health, "failed"}

\* The session d has just accepted what e tells.
Accepts(s, d, e) ==
    LET o == e.observation IN
    /\ o \in Observations /\ o.instrument \in Instruments /\ d.connected
    /\ \A p \in s.seen : ~SameIdentity(o, p)
    /\ s.latest[Key(o)] = None \/ ~(o.time < s.latest[Key(o)].time)
    /\ SameHistory(Kept(s, o), d)
    /\ e.feature # <<>> => o.kind = "bar" /\ e.feature = d.bars[o.instrument]
    /\ e.signal => o.kind = "bar" /\ BarIsFresh(d, o.instrument)
    /\ e.risk = "quote_ready" => QuoteIsFresh(d, o.instrument)

\* A call that writes the record e, from d: what the record tells is so in d, and the
\* same call of any session that agrees with s on all but its clock gives the same.
Writes(s, after, d, e) ==
    /\ ~Terminal(s) /\ ~Refused(s, e.time)
    /\ IsSession(d) /\ Typed(d) /\ d.now = e.time /\ d.now \in Nat /\ d.health = e.health
    /\ d.records = s.records /\ after = [d EXCEPT !.records = Append(s.records, e)]
    /\ \A r : ~Refused(r, e.time) /\ Advance(r, e.time) = Advance(s, e.time) => Again(r, e) = after
    /\ d.connected => /\ s.connected \/ e.action = "connected"
                      /\ e.action \notin {"disconnected", "failed", "stopped"}
    /\ e.action \in TerminalHealth => d.health = e.action
    /\ d.health \in {"healthy", "stale"} => d.connected
    /\ d.health = "healthy" => \A i \in Instruments : BarIsFresh(d, i)
    /\ IF IsAccepted(e) THEN Accepts(s, d, e)
       ELSE SameHistory(s, d) /\ e.feature = <<>> /\ ~e.signal /\ e.risk = "none"

\* What a call makes of a session.
CallMakes(s, after) == Quiet(s, after) \/ \E d, e : Writes(s, after, d, e)

LEMMA RefreshTells ==
    ASSUME NEW s, IsSession(s), s.health \in {"healthy", "stale"} => s.connected
    PROVE  /\ SameHistory(s, Refresh(s))
           /\ Refresh(s).health \in {"healthy", "stale"} => Refresh(s).connected
           /\ Refresh(s).health = "healthy" /\ ~Terminal(s) =>
                 \A i \in Instruments : BarIsFresh(Refresh(s), i)
           /\ \A i \in Instruments :
                 /\ BarIsFresh(Refresh(s), i) = BarIsFresh(s, i)
                 /\ QuoteIsFresh(Refresh(s), i) = QuoteIsFresh(s, i)
<1>1. CASE ~s.connected \/ Terminal(s)
  <2>1. Refresh(s) = s
    BY <1>1 DEF Refresh
  <2>2. QED
    BY <1>1, <2>1 DEF SameHistory
<1>2. CASE ~(~s.connected \/ Terminal(s))
  <2> DEFINE h == IF \A i \in Instruments : BarIsFresh(s, i) THEN "healthy"
                  ELSE IF \E i \in Instruments : s.latest[<<"bar", i>>] # None THEN "stale"
                  ELSE "starting"
  <2>1. Refresh(s) = [s EXCEPT !.health = h]
    BY <1>2 DEF Refresh
  <2>2. h = "healthy" => \A i \in Instruments : BarIsFresh(s, i)
    OBVIOUS
  <2> HIDE DEF h
  <2>3. /\ SameHistory(s, Refresh(s)) /\ Refresh(s).now = s.now
        /\ Refresh(s).health = h /\ Refresh(s).connected = s.connected
    BY <2>1 DEF IsSession, SameHistory
  <2>4. \A i \in Instruments : /\ BarIsFresh(Refresh(s), i) = BarIsFresh(s, i)
                               /\ QuoteIsFresh(Refresh(s), i) = QuoteIsFresh(s, i)
    BY <2>3 DEF SameHistory, BarIsFresh, QuoteIsFresh
  <2>5. QED
    BY <1>2, <2>2, <2>3, <2>4
<1>3. QED
  BY <1>1, <1>2

\* _advance by itself.
LEMMA AdvanceQuiet ==
    ASSUME NEW s, WellFormed(s), NEW t \in Nat
    PROVE  /\ Quiet(s, Advance(s, t))
           /\ ~Refused(s, t) => WellFormed(Advance(s, t)) /\ Advance(s, t).health = s.health
<1>1. CASE Refused(s, t)
  <2>1. Advance(s, t) = [s EXCEPT !.health = "failed"]
    BY <1>1 DEF Advance
  <2>2. QED
    BY <1>1, <2>1 DEF Quiet, WellFormed, IsSession, SameHistory
<1>2. CASE ~Refused(s, t)
  <2>1. Advance(s, t) = [s EXCEPT !.now = t] /\ s.now <= t
    BY <1>2 DEF Advance, Refused, WellFormed
  <2>2. QED
    BY <1>2, <2>1 DEF Quiet, WellFormed, IsSession, Typed, SameHistory
<1>3. QED
  BY <1>1, <1>2

\* invalid.
LEMMA InvalidMakes ==
    ASSUME NEW s, WellFormed(s), NEW t \in Nat
    PROVE  CallMakes(s, Invalid(s, t))
<1> DEFINE c == Advance(s, t)
           after == Invalid(s, t)
<1>1. CASE Refused(s, t) \/ Terminal(c)
  BY <1>1, AdvanceQuiet DEF Invalid, CallMakes
<1>2. CASE ~(Refused(s, t) \/ Terminal(c))
  <2> DEFINE d == Refresh(c)
             e == Entry(d, "observation", "invalid", None, NothingDerived)
  <2>1. after = [d EXCEPT !.records = Append(@, e)]
    BY <1>2 DEF Invalid, Recorded
  <2>2. /\ WellFormed(c) /\ c.records = s.records /\ c.now = t /\ SameHistory(s, c)
        /\ c.connected = s.connected /\ ~Terminal(c) /\ ~Terminal(s)
    BY <1>2, AdvanceQuiet, AdvanceKeeps DEF WellFormed, Quiet, Terminal
  <2>3. /\ IsSession(d) /\ Typed(d) /\ d.records = s.records /\ d.now = t /\ SameHistory(s, d)
        /\ d.connected = s.connected
        /\ d.health \in {"healthy", "stale"} => d.connected
        /\ d.health = "healthy" => \A i \in Instruments : BarIsFresh(d, i)
    BY <2>2, RefreshKeeps, RefreshTells DEF WellFormed, SameHistory
  <2>4. ASSUME NEW r, ~Refused(r, t), Advance(r, t) = c PROVE Invalid(r, t) = after
    BY <1>2, <2>4 DEF Invalid
  <2> HIDE DEF c, d, after
  <2>5. /\ e.action = "observation" /\ e.disposition = "invalid" /\ e.time = t
        /\ e.health = d.health /\ e.observation = None /\ e.feature = <<>> /\ ~e.signal
        /\ e.risk = "none"
    BY <2>3 DEF Entry, NothingDerived
  <2> HIDE DEF e
  <2>6. \A r : Again(r, e) = Invalid(r, t)
    BY <2>5 DEF Again
  <2>7. Writes(s, after, d, e)
    BY <1>2, <2>1, <2>2, <2>3, <2>4, <2>5, <2>6 DEF Writes, IsAccepted, TerminalHealth, c
  <2>8. QED
    BY <2>7 DEF CallMakes, after
<1>3. QED
  BY <1>1, <1>2

\* control.
LEMMA ControlMakes ==
    ASSUME NEW s, WellFormed(s), NEW action, NEW t \in Nat
    PROVE  CallMakes(s, Control(s, action, t))
<1> DEFINE c == Advance(s, t)
           after == Control(s, action, t)
<1>1. CASE Refused(s, t) \/ Terminal(c) \/ action \notin Controls
  BY <1>1, AdvanceQuiet DEF Control, CallMakes
<1>2. CASE ~(Refused(s, t) \/ Terminal(c) \/ action \notin Controls)
  <2> DEFINE up == [c EXCEPT !.connected = @ \/ action = "connected"]
             down == [c EXCEPT !.connected = FALSE, !.health = action]
             d == IF action \in {"connected", "tick"} THEN Refresh(up) ELSE down
             e == Entry(d, action, action, None, NothingDerived)
  <2>1. after = [d EXCEPT !.records = Append(@, e)]
    BY <1>2 DEF Control, Recorded
  <2>2. /\ WellFormed(c) /\ c.records = s.records /\ c.now = t /\ SameHistory(s, c)
        /\ c.connected = s.connected /\ ~Terminal(c) /\ ~Terminal(s)
    BY <1>2, AdvanceQuiet, AdvanceKeeps DEF WellFormed, Quiet, Terminal
  <2>3. /\ IsSession(d) /\ Typed(d) /\ d.records = s.records /\ d.now = t /\ SameHistory(s, d)
        /\ d.connected => /\ s.connected \/ action = "connected"
                          /\ action \notin {"disconnected", "failed", "stopped"}
        /\ action \in TerminalHealth => d.health = action
        /\ d.health \in {"healthy", "stale"} => d.connected
        /\ d.health = "healthy" => \A i \in Instruments : BarIsFresh(d, i)
    <3>1. CASE action \in {"connected", "tick"}
      <4>1. /\ WellFormed(up) /\ up.records = s.records /\ up.now = t /\ SameHistory(s, up)
            /\ up.connected = (s.connected \/ action = "connected") /\ ~Terminal(up)
        BY <2>2 DEF WellFormed, IsSession, Typed, SameHistory, Terminal
      <4>2. d = Refresh(up)
        BY <3>1
      <4> HIDE DEF up, d
      <4>3. QED
        BY <3>1, <4>1, <4>2, RefreshKeeps, RefreshTells
        DEF WellFormed, SameHistory, TerminalHealth
    <3>2. CASE action \notin {"connected", "tick"}
      <4>1. d = down /\ action \in {"disconnected", "failed", "stopped"}
        BY <1>2, <3>2 DEF Controls
      <4>2. QED
        BY <2>2, <4>1 DEF WellFormed, IsSession, Typed, SameHistory, TerminalHealth, FeedHealth
    <3>3. QED
      BY <3>1, <3>2
  <2>4. ASSUME NEW r, ~Refused(r, t), Advance(r, t) = c PROVE Control(r, action, t) = after
    BY <1>2, <2>4 DEF Control
  <2>5. action # "observation" /\ action # "accepted"
    BY <1>2 DEF Controls
  <2> HIDE DEF c, d, after
  <2>6. /\ e.action = action /\ e.disposition = action /\ e.time = t
        /\ e.health = d.health /\ e.observation = None /\ e.feature = <<>> /\ ~e.signal
        /\ e.risk = "none"
    BY <2>3 DEF Entry, NothingDerived
  <2> HIDE DEF e
  <2>7. \A r : Again(r, e) = Control(r, action, t)
    BY <2>5, <2>6 DEF Again
  <2>8. Writes(s, after, d, e)
    BY <1>2, <2>1, <2>2, <2>3, <2>4, <2>5, <2>6, <2>7 DEF Writes, IsAccepted, c
  <2>9. QED
    BY <2>8 DEF CallMakes, after
<1>3. QED
  BY <1>1, <1>2

\* accept: what it keeps of an observation.
LEMMA AcceptedKeeps ==
    ASSUME NEW c, WellFormed(c), NEW o \in Observations, o.instrument \in Instruments,
           Disposition(c, o) = "accepted"
    PROVE  /\ WellFormed(Kept(c, o)) /\ Terminal(Kept(c, o)) = Terminal(c)
           /\ Kept(c, o).now = c.now /\ Kept(c, o).records = c.records
           /\ Kept(c, o).connected = c.connected
           /\ c.connected
           /\ \A p \in c.seen : ~SameIdentity(o, p)
           /\ c.latest[Key(o)] = None \/ ~(o.time < c.latest[Key(o)].time)
<1>1. /\ IsSession(Kept(c, o)) /\ Kept(c, o).records = c.records
      /\ Kept(c, o).connected = c.connected
      /\ Kept(c, o).health = c.health /\ Kept(c, o).now = c.now
  BY KeptKeeps DEF WellFormed
<1>2. WellFormed(Kept(c, o)) /\ Terminal(Kept(c, o)) = Terminal(c)
  BY <1>1 DEF WellFormed, Typed, Terminal
<1>3. /\ c.connected /\ \A p \in c.seen : ~SameIdentity(o, p)
      /\ c.latest[Key(o)] = None \/ ~(o.time < c.latest[Key(o)].time)
  BY DEF Disposition
<1>4. QED
  BY <1>1, <1>2, <1>3

\* accept: what it derives from an observation that it holds.
LEMMA DerivedTells ==
    ASSUME NEW d, NEW o, o.kind \in Kinds
    PROVE  LET derived == Derive(d, o) IN
           /\ derived.feature # <<>> => o.kind = "bar" /\ derived.feature = d.bars[o.instrument]
           /\ derived.signal => o.kind = "bar" /\ BarIsFresh(d, o.instrument)
           /\ derived.risk = "quote_ready" => QuoteIsFresh(d, o.instrument)
BY DEF Derive, NothingDerived, RiskObservability, Kinds

\* accept.
LEMMA AcceptMakes ==
    ASSUME NEW s, WellFormed(s), NEW o \in Observations
    PROVE  CallMakes(s, Accept(s, o))
<1> DEFINE t == o.received
           c == Advance(s, t)
           after == Accept(s, o)
<1>1. t \in Nat /\ o.kind \in Kinds /\ o # None
  BY CallsAssumption
<1>2. CASE Refused(s, t) \/ Terminal(c)
  BY <1>1, <1>2, AdvanceQuiet DEF Accept, CallMakes
<1>3. CASE ~(Refused(s, t) \/ Terminal(c)) /\ o.instrument \notin Instruments
  <2>1. after = [c EXCEPT !.health = "failed"]
    BY <1>3 DEF Accept
  <2>2. Quiet(s, c) /\ IsSession(c)
    BY <1>1, AdvanceQuiet DEF Quiet
  <2>3. Quiet(s, after)
    BY <2>1, <2>2 DEF Quiet, IsSession, SameHistory
  <2>4. QED
    BY <2>3 DEF CallMakes
<1>4. CASE ~(Refused(s, t) \/ Terminal(c)) /\ o.instrument \in Instruments
  <2> DEFINE disposition == Disposition(c, o)
             k == IF disposition = "accepted" THEN Kept(c, o) ELSE c
             derived == IF disposition = "accepted" THEN Derive(k, o) ELSE NothingDerived
             d == Refresh(k)
             e == Entry(d, "observation", disposition, o, derived)
  <2>1. after = [d EXCEPT !.records = Append(@, e)]
    BY <1>4 DEF Accept, Recorded
  <2>2. /\ WellFormed(c) /\ c.records = s.records /\ c.now = t /\ SameHistory(s, c)
        /\ c.connected = s.connected /\ ~Terminal(c) /\ ~Terminal(s)
    BY <1>1, <1>4, AdvanceQuiet, AdvanceKeeps DEF WellFormed, Quiet, Terminal
  <2>3. /\ WellFormed(k) /\ k.records = s.records /\ k.now = t /\ k.connected = s.connected
        /\ ~Terminal(k)
    BY <1>4, <2>2, AcceptedKeeps
  <2> HIDE DEF k
  <2>4. /\ IsSession(d) /\ Typed(d) /\ d.records = s.records /\ d.now = t /\ SameHistory(k, d)
        /\ d.connected = s.connected
        /\ d.health \in {"healthy", "stale"} => d.connected
        /\ d.health = "healthy" => \A i \in Instruments : BarIsFresh(d, i)
        /\ \A i \in Instruments : /\ BarIsFresh(d, i) = BarIsFresh(k, i)
                                  /\ QuoteIsFresh(d, i) = QuoteIsFresh(k, i)
    BY <2>3, RefreshKeeps, RefreshTells DEF WellFormed
  <2>5. ASSUME NEW r, ~Refused(r, t), Advance(r, t) = c PROVE Accept(r, o) = after
    BY <1>4, <2>5 DEF Accept, k
  <2> HIDE DEF d, derived
  <2>6. /\ e.action = "observation" /\ e.disposition = disposition /\ e.time = t
        /\ e.health = d.health /\ e.observation = o /\ e.feature = derived.feature
        /\ e.signal = derived.signal /\ e.risk = derived.risk
    BY <2>4 DEF Entry
  <2> HIDE DEF e
  <2>7. \A r : Again(r, e) = Accept(r, o)
    BY <1>1, <2>6 DEF Again
  <2>8. IF IsAccepted(e) THEN Accepts(s, d, e)
        ELSE SameHistory(s, d) /\ e.feature = <<>> /\ ~e.signal /\ e.risk = "none"
    <3>1. CASE disposition = "accepted"
      <4>1. k = Kept(c, o) /\ derived = Derive(k, o) /\ IsAccepted(e)
        BY <2>6, <3>1 DEF k, derived, IsAccepted
      <4>2. /\ s.connected /\ \A p \in s.seen : ~SameIdentity(o, p)
            /\ s.latest[Key(o)] = None \/ ~(o.time < s.latest[Key(o)].time)
        BY <1>4, <2>2, <3>1, AcceptedKeeps DEF SameHistory
      <4>3. SameHistory(Kept(s, o), Kept(c, o))
        BY <2>2 DEF SameHistory, Kept, WellFormed, IsSession
      <4>4. SameHistory(Kept(s, o), d)
        BY <2>4, <4>1, <4>3 DEF SameHistory
      <4>5. /\ e.feature # <<>> => o.kind = "bar" /\ e.feature = d.bars[o.instrument]
            /\ e.signal => o.kind = "bar" /\ BarIsFresh(d, o.instrument)
            /\ e.risk = "quote_ready" => QuoteIsFresh(d, o.instrument)
        BY <1>1, <1>4, <2>4, <2>6, <4>1, DerivedTells DEF SameHistory
      <4>6. QED
        BY <1>4, <2>4, <2>6, <4>1, <4>2, <4>4, <4>5 DEF Accepts
    <3>2. CASE disposition # "accepted"
      <4>1. k = c /\ derived = NothingDerived /\ ~IsAccepted(e)
        BY <2>6, <3>2 DEF k, derived, IsAccepted
      <4>2. QED
        BY <2>2, <2>4, <2>6, <4>1 DEF SameHistory, NothingDerived
    <3>3. QED
      BY <3>1, <3>2
  <2> HIDE DEF c, after, disposition
  <2>9. Writes(s, after, d, e)
    BY <1>1, <1>4, <2>1, <2>2, <2>3, <2>4, <2>5, <2>6, <2>7, <2>8 DEF Writes, TerminalHealth, c
  <2>10. QED
    BY <2>9 DEF CallMakes, after
<1>5. QED
  BY <1>2, <1>3, <1>4

-----------------------------------------------------------------------------
\* Folds over records: the session that they give again, and what was accepted in them.
Replayed == INSTANCE FoldLemmas WITH op <- Again
Taken == INSTANCE FoldLemmas WITH op <- Take

TakenIn(r) == FoldLeft(Take, NothingTaken, r)

LEMMA FoldsAreFolds ==
    ASSUME NEW r
    PROVE  /\ Replay(r) = Replayed!Fold(NewSession, r)
           /\ TakenIn(r) = Taken!Fold(NothingTaken, r)
BY DEF Replay, TakenIn, Replayed!Fold, Taken!Fold, FoldLeft, Replayed!FoldLeft, Taken!FoldLeft,
       MapThenFoldSet, Replayed!MapThenFoldSet, Taken!MapThenFoldSet, Max, Replayed!Max, Taken!Max

IsRecords(r) == \E S : r \in Seq(S)

LEMMA NoRecords ==
    IsRecords(<<>>) /\ Replay(<<>>) = NewSession /\ TakenIn(<<>>) = NothingTaken
BY EmptySeq, FoldsAreFolds, Replayed!FoldEmpty, Taken!FoldEmpty DEF IsRecords

\* One more record leaves all prefixes as they were, and is replayed and taken last.
LEMMA OneMoreRecord ==
    ASSUME NEW r, IsRecords(r), NEW e
    PROVE  LET q == Append(r, e)
               n == Len(r)
           IN  /\ IsRecords(q) /\ n \in Nat /\ Len(q) = n + 1
               /\ DOMAIN r = 1 .. n /\ DOMAIN q = 1 .. n + 1 /\ q # <<>>
               /\ q[n + 1] = e /\ \A i \in 1 .. n : q[i] = r[i]
               /\ \A k \in 0 .. n : SubSeq(q, 1, k) = SubSeq(r, 1, k)
               /\ SubSeq(q, 1, n + 1) = q /\ SubSeq(r, 1, n) = r
               /\ Replay(q) = Again(Replay(r), e)
               /\ TakenIn(q) = Take(TakenIn(r), e)
<1> DEFINE q == Append(r, e)
           n == Len(r)
<1>1. PICK T : r \in Seq(T)
  BY DEF IsRecords
<1> DEFINE S == T \cup {e}
<1>2. r \in Seq(S) /\ e \in S
  BY <1>1, SeqMonotonic
<1> HIDE DEF S
<1>3. /\ q \in Seq(S) /\ n \in Nat /\ Len(q) = n + 1 /\ q # <<>>
      /\ DOMAIN r = 1 .. n /\ DOMAIN q = 1 .. n + 1
      /\ q[n + 1] = e /\ \A i \in 1 .. n : q[i] = r[i]
  BY <1>2, AppendProperties, LenProperties
<1>4. ASSUME NEW k \in 0 .. n PROVE SubSeq(q, 1, k) = SubSeq(r, 1, k)
  BY <1>3, SMT
<1>5. SubSeq(q, 1, n + 1) = q /\ SubSeq(r, 1, n) = r
  BY <1>2, <1>3, SubSeqFull
<1>6. Replay(q) = Again(Replay(r), e)
  BY <1>2, FoldsAreFolds, Replayed!FoldAppend
<1>7. TakenIn(q) = Take(TakenIn(r), e)
  BY <1>2, FoldsAreFolds, Taken!FoldAppend
<1>8. QED
  BY <1>3, <1>4, <1>5, <1>6, <1>7 DEF IsRecords

-----------------------------------------------------------------------------
\* The session is the replay of its records, but for the clock and a failure since.
Replays(s) ==
    LET again == Replay(s.records) IN
    /\ IsSession(again) /\ SameHistory(s, again)
    /\ again.records = s.records /\ again.connected = s.connected
    /\ again.now \in Nat /\ again.now <= s.now
    /\ s.health \in {again.health, "failed"}
    /\ s.records # <<>> => again.health = s.records[Len(s.records)].health

\* The first n records are those of their replay, which ends in the health that the last
\* of them tells.
Verifies(r, n) ==
    LET again == Replay(SubSeq(r, 1, n)) IN
    /\ again.records = SubSeq(r, 1, n)
    /\ n # 0 => again.health = r[n].health
    /\ n # 0 /\ r[n].action \in TerminalHealth => again.health = r[n].action

LEMMA NewSessionWellFormed == WellFormed(NewSession) /\ NewSession.records = <<>>
BY DEF NewSession, WellFormed, IsSession, Typed, FeedHealth

LEMMA CallKeepsForm ==
    ASSUME NEW s, WellFormed(s), IsRecords(s.records), NEW after, CallMakes(s, after)
    PROVE  WellFormed(after) /\ IsRecords(after.records)
<1>1. CASE Quiet(s, after)
  BY <1>1 DEF Quiet, WellFormed, Typed, FeedHealth, TerminalHealth
<1>2. ASSUME NEW d, NEW e, Writes(s, after, d, e)
      PROVE  WellFormed(after) /\ IsRecords(after.records)
  <2>1. /\ IsSession(d) /\ Typed(d) /\ d.now \in Nat
        /\ d.health \in {"healthy", "stale"} => d.connected
        /\ after = [d EXCEPT !.records = Append(s.records, e)]
    BY <1>2 DEF Writes
  <2>2. after.records = Append(s.records, e)
    BY <2>1 DEF IsSession
  <2>3. WellFormed(after)
    BY <2>1 DEF WellFormed, IsSession, Typed
  <2>4. QED
    BY <2>2, <2>3, OneMoreRecord
<1>3. QED
  BY <1>1, <1>2 DEF CallMakes

\* What a call that writes makes of the session, field by field.
LEMMA WritesFields ==
    ASSUME NEW s, NEW after, NEW d, NEW e, Writes(s, after, d, e)
    PROVE  /\ IsSession(after) /\ SameHistory(d, after)
           /\ after.records = Append(s.records, e)
           /\ after.connected = d.connected /\ after.now = e.time /\ after.health = e.health
<1>1. /\ IsSession(d) /\ d.now = e.time /\ d.health = e.health
      /\ after = [d EXCEPT !.records = Append(s.records, e)]
  BY DEF Writes
<1>2. QED
  BY <1>1 DEF IsSession, SameHistory

\* What is recorded is replayed to the very session that recorded it.
LEMMA RecordReplays ==
    ASSUME NEW s, WellFormed(s), IsRecords(s.records), Replays(s),
           NEW after, NEW d, NEW e, Writes(s, after, d, e)
    PROVE  Replay(after.records) = after
<1> DEFINE again == Replay(s.records)
           t == e.time
<1>1. ~Terminal(s) /\ ~Refused(s, t) /\ t \in Nat
  BY DEF Writes
<1>2. /\ IsSession(again) /\ SameHistory(s, again)
      /\ again.records = s.records /\ again.connected = s.connected
      /\ again.now \in Nat /\ again.now <= s.now /\ s.health = again.health
  BY <1>1 DEF Replays, Terminal, TerminalHealth
<1> HIDE DEF again, t
<1>3. ~Refused(again, t)
  BY <1>1, <1>2 DEF Refused, WellFormed
<1>4. Advance(again, t) = [again EXCEPT !.now = t] /\ Advance(s, t) = [s EXCEPT !.now = t]
  BY <1>1, <1>3 DEF Advance
<1>5. [again EXCEPT !.now = t] = [s EXCEPT !.now = t]
  BY <1>2 DEF IsSession, WellFormed, SameHistory
<1>6. Again(again, e) = after
  BY <1>3, <1>4, <1>5 DEF Writes, t
<1>7. after.records = Append(s.records, e)
  BY WritesFields
<1>8. QED
  BY <1>6, <1>7, OneMoreRecord DEF again

LEMMA CallKeepsReplay ==
    ASSUME NEW s, WellFormed(s), IsRecords(s.records), Replays(s),
           \A n \in 0 .. Len(s.records) : Verifies(s.records, n),
           NEW after, CallMakes(s, after)
    PROVE  /\ Replays(after)
           /\ \A n \in 0 .. Len(after.records) : Verifies(after.records, n)
<1>1. CASE Quiet(s, after)
  <2>1. after.records = s.records
    BY <1>1 DEF Quiet
  <2>2. Replays(after)
    BY <1>1, <2>1 DEF Quiet, Replays, SameHistory, WellFormed
  <2>3. QED
    BY <2>1, <2>2
<1>2. ASSUME NEW d, NEW e, Writes(s, after, d, e)
      PROVE  /\ Replays(after)
             /\ \A n \in 0 .. Len(after.records) : Verifies(after.records, n)
  <2> DEFINE q == after.records
             m == Len(s.records)
  <2>1. Replay(q) = after
    BY <1>2, RecordReplays
  <2>2. /\ q = Append(s.records, e) /\ IsSession(after) /\ after.health = e.health
        /\ after.now \in Nat
    <3>1. e.time \in Nat
      BY <1>2 DEF Writes
    <3>2. QED
      BY <1>2, <3>1, WritesFields
  <2>3. /\ q # <<>> /\ m \in Nat /\ Len(q) = m + 1 /\ q[m + 1] = e
        /\ \A i \in 1 .. m : q[i] = s.records[i]
        /\ \A k \in 0 .. m : SubSeq(q, 1, k) = SubSeq(s.records, 1, k)
        /\ SubSeq(q, 1, m + 1) = q
    <3> HIDE DEF q
    <3>1. QED
      BY <2>2, OneMoreRecord
  <2>4. e.action \in TerminalHealth => e.health = e.action
    BY <1>2 DEF Writes
  <2> HIDE DEF m
  <2>5. Replays(after)
    BY <2>1, <2>2, <2>3 DEF Replays, SameHistory
  <2>6. ASSUME NEW n \in 0 .. m PROVE Verifies(q, n)
    <3>1. Verifies(s.records, n)
      BY DEF m
    <3>2. SubSeq(q, 1, n) = SubSeq(s.records, 1, n)
      BY <2>3
    <3>3. n # 0 => q[n] = s.records[n]
      BY <2>3
    <3> HIDE DEF q
    <3>4. QED
      BY <3>1, <3>2, <3>3 DEF Verifies
  <2>7. Verifies(q, m + 1)
    BY <2>1, <2>2, <2>3, <2>4 DEF Verifies
  <2>8. \A n \in 0 .. m + 1 : n \in 0 .. m \/ n = m + 1
    BY <2>3
  <2>9. QED
    BY <2>3, <2>5, <2>6, <2>7, <2>8
<1>3. QED
  BY <1>1, <1>2 DEF CallMakes

-----------------------------------------------------------------------------
\* The bars and the latest observations are those that the records tell as accepted, and
\* the latest of a key is among the observations seen.
Histories(s, H) ==
    /\ H \in [Kinds \X Instruments -> Seq(Observations)]
    /\ s.bars = [i \in Instruments |-> LastOf(Window, H[<<"bar", i>>])]
    /\ s.latest = [k \in Kinds \X Instruments |-> IF H[k] = <<>> THEN None ELSE Last(H[k])]
    /\ \A k \in Kinds \X Instruments :
          H[k] # <<>> => Last(H[k]) \in s.seen /\ Key(Last(H[k])) = k

Holds(s) == Histories(s, TakenIn(s.records))

\* The last elements of a sequence are all that is needed for those of a longer one.
LEMMA LastOfAppend ==
    ASSUME NEW S, NEW h \in Seq(S), NEW x \in S, NEW w \in Nat \ {0}
    PROVE  LastOf(w, Append(LastOf(w, h), x)) = LastOf(w, Append(h, x))
<1> DEFINE L == Len(h)
<1>1. L \in Nat /\ DOMAIN h = 1 .. L
  BY LenProperties
<1>2. CASE L <= w
  BY <1>2 DEF LastOf
<1>3. CASE ~(L <= w)
  <2> DEFINE l == SubSeq(h, L - w + 1, L)
             g == Append(h, x)
             m == Append(l, x)
  <2>1. LastOf(w, h) = l
    BY <1>3 DEF LastOf
  <2>2. /\ l \in Seq(S) /\ Len(l) = w
        /\ \A i \in 1 .. w : l[i] = h[L - w + i]
    <3>1. L - w + 1 \in 1 .. L + 1 /\ L \in L - w .. L
      BY <1>1, <1>3
    <3>2. L - (L - w + 1) + 1 = w
      BY <1>1
    <3>3. \A i \in L - w + 1 .. L : h[i] \in S
      BY <1>1, <1>3, ElementOfSeq
    <3>4. /\ SubSeq(h, L - w + 1, L) \in Seq(S)
          /\ Len(SubSeq(h, L - w + 1, L)) = w
          /\ \A i \in 1 .. w : SubSeq(h, L - w + 1, L)[i] = h[L - w + 1 + i - 1]
      BY <1>1, <1>3, <3>1, <3>2, <3>3, SubSeqProperties
    <3>5. \A i \in 1 .. w : L - w + 1 + i - 1 = L - w + i
      BY <1>1
    <3>6. QED
      BY <3>4, <3>5
  <2>3. /\ g \in Seq(S) /\ Len(g) = L + 1 /\ g[L + 1] = x /\ \A i \in 1 .. L : g[i] = h[i]
    BY AppendProperties
  <2>4. /\ m \in Seq(S) /\ Len(m) = w + 1 /\ m[w + 1] = x /\ \A i \in 1 .. w : m[i] = l[i]
    BY <2>2, AppendProperties
  <2> HIDE DEF l, g, m, L
  <2>5. LastOf(w, m) = SubSeq(m, 2, w + 1)
    BY <2>4 DEF LastOf
  <2>6. LastOf(w, g) = SubSeq(g, L + 1 - w + 1, L + 1)
    BY <1>1, <1>3, <2>3 DEF LastOf
  <2>7. ASSUME NEW i \in 1 .. w PROVE m[i + 1] = g[L + 1 - w + i]
    <3>1. CASE i = w
      BY <1>1, <2>3, <2>4, <3>1
    <3>2. CASE i # w
      <4>1. i + 1 \in 1 .. w /\ L - w + (i + 1) \in 1 .. L
        BY <1>1, <1>3, <3>2
      <4>2. m[i + 1] = h[L - w + (i + 1)]
        BY <2>2, <2>4, <4>1
      <4>3. L - w + (i + 1) = L + 1 - w + i
        BY <1>1
      <4>4. QED
        BY <2>3, <4>1, <4>2, <4>3
    <3>3. QED
      BY <3>1, <3>2
  <2>8. SubSeq(m, 2, w + 1) = [i \in 1 .. w |-> m[i + 1]]
    BY <2>4, SMT
  <2>9. SubSeq(g, L + 1 - w + 1, L + 1) = [i \in 1 .. w |-> g[L + 1 - w + i]]
    BY <1>1, <1>3, <2>3, SMT
  <2>10. QED
    BY <2>1, <2>5, <2>6, <2>7, <2>8, <2>9 DEF g, m
<1>4. QED
  BY <1>2, <1>3

\* What accept keeps, field by field.
LEMMA KeptFields ==
    ASSUME NEW s, IsSession(s), NEW o
    PROVE  /\ Kept(s, o).seen = s.seen \cup {o}
           /\ Kept(s, o).latest = [s.latest EXCEPT ![Key(o)] = o]
           /\ Kept(s, o).bars = [s.bars EXCEPT ![o.instrument] =
                 IF o.kind = "bar" THEN LastOf(Window, Append(@, o)) ELSE @]
BY DEF IsSession, Kept

LEMMA NewSessionHolds == Holds(NewSession)
<1>1. NewSession.records = <<>> /\ TakenIn(<<>>) = NothingTaken
  BY NoRecords, NewSessionWellFormed
<1>2. \A k \in Kinds \X Instruments : NothingTaken[k] = <<>>
  BY DEF NothingTaken
<1>3. NothingTaken \in [Kinds \X Instruments -> Seq(Observations)]
  BY EmptySeq DEF NothingTaken
<1>4. \A i \in Instruments : <<"bar", i>> \in Kinds \X Instruments
  BY DEF Kinds
<1>5. LastOf(Window, <<>>) = <<>>
  BY SessionAssumption DEF LastOf
<1>6. NewSession.bars = [i \in Instruments |-> LastOf(Window, NothingTaken[<<"bar", i>>])]
  BY <1>2, <1>4, <1>5 DEF NewSession
<1>7. NewSession.latest = [k \in Kinds \X Instruments |->
                             IF NothingTaken[k] = <<>> THEN None ELSE Last(NothingTaken[k])]
  BY <1>2 DEF NewSession
<1>8. QED
  BY <1>1, <1>2, <1>3, <1>6, <1>7 DEF Holds, Histories

\* An accepted observation joins the history of its key, and the session holds it.
LEMMA AcceptKeepsHistories ==
    ASSUME NEW s, IsSession(s), NEW H, Histories(s, H), NEW d, NEW e, Accepts(s, d, e),
           IsAccepted(e)
    PROVE  Histories(d, Take(H, e))
<1> DEFINE K == Kinds \X Instruments
           o == e.observation
           key == Key(o)
           T == Take(H, e)
<1>1. /\ o \in Observations /\ o.instrument \in Instruments /\ o.kind \in Kinds /\ o # None
      /\ SameHistory(Kept(s, o), d)
  BY CallsAssumption DEF Accepts
<1>2. key \in K /\ key = <<o.kind, o.instrument>>
  BY <1>1 DEF Key
<1>3. /\ H \in [K -> Seq(Observations)]
      /\ s.bars = [i \in Instruments |-> LastOf(Window, H[<<"bar", i>>])]
      /\ s.latest = [k \in K |-> IF H[k] = <<>> THEN None ELSE Last(H[k])]
      /\ \A k \in K : H[k] # <<>> => Last(H[k]) \in s.seen /\ Key(Last(H[k])) = k
  BY DEF Histories
<1>4. /\ d.seen = s.seen \cup {o} /\ d.latest = [s.latest EXCEPT ![key] = o]
      /\ d.bars = [s.bars EXCEPT ![o.instrument] =
                      IF o.kind = "bar" THEN LastOf(Window, Append(@, o)) ELSE @]
  BY <1>1, KeptFields DEF SameHistory
<1>5. T = [H EXCEPT ![key] = Append(@, o)]
  BY DEF Take
<1> HIDE DEF K, key, T
<1>6. /\ Append(H[key], o) \in Seq(Observations) /\ Append(H[key], o) # <<>>
      /\ Last(Append(H[key], o)) = o
  <2>1. H[key] \in Seq(Observations) /\ o \in Observations
    BY <1>1, <1>2, <1>3
  <2> HIDE DEF o
  <2>2. QED
    BY <2>1, AppendProperties, LenProperties DEF Last
<1>7. T \in [K -> Seq(Observations)]
  BY <1>2, <1>3, <1>5, <1>6
<1>8. T[key] = Append(H[key], o) /\ \A k \in K : k # key => T[k] = H[k]
  BY <1>2, <1>3, <1>5
<1>9. d.latest = [k \in K |-> IF T[k] = <<>> THEN None ELSE Last(T[k])]
  <2>1. \A k \in K : d.latest[k] = IF T[k] = <<>> THEN None ELSE Last(T[k])
    <3>1. d.latest[key] = o /\ \A k \in K : k # key => d.latest[k] = s.latest[k]
      BY <1>2, <1>3, <1>4
    <3>2. T[key] # <<>> /\ Last(T[key]) = o
      BY <1>6, <1>8
    <3>3. \A k \in K : s.latest[k] = IF H[k] = <<>> THEN None ELSE Last(H[k])
      BY <1>3
    <3>4. ASSUME NEW k \in K, k # key
          PROVE  d.latest[k] = IF T[k] = <<>> THEN None ELSE Last(T[k])
      <4>1. d.latest[k] = s.latest[k] /\ T[k] = H[k]
        BY <1>8, <3>1, <3>4
      <4>2. QED
        BY <3>3, <4>1
    <3>5. QED
      BY <3>1, <3>2, <3>4
  <2>2. d.latest = [k \in K |-> d.latest[k]]
    BY <1>3, <1>4
  <2>3. QED
    BY <2>1, <2>2
<1>10. d.bars = [i \in Instruments |-> LastOf(Window, T[<<"bar", i>>])]
  <2>1. ASSUME NEW i \in Instruments PROVE d.bars[i] = LastOf(Window, T[<<"bar", i>>])
    <3>1. <<"bar", i>> \in K
      BY DEF K, Kinds
    <3>2. s.bars[i] = LastOf(Window, H[<<"bar", i>>])
      BY <1>3
    <3>3. CASE i = o.instrument /\ o.kind = "bar"
      <4>1. key = <<"bar", i>>
        BY <1>2, <3>3
      <4>2. d.bars[i] = LastOf(Window, Append(s.bars[i], o))
        BY <1>3, <1>4, <3>3
      <4>3. LastOf(Window, Append(LastOf(Window, H[key]), o)) = LastOf(Window, Append(H[key], o))
        BY <1>1, <1>2, <1>3, LastOfAppend, SessionAssumption
      <4>4. QED
        BY <1>8, <3>2, <4>1, <4>2, <4>3
    <3>4. CASE i # o.instrument \/ o.kind # "bar"
      <4>1. key # <<"bar", i>>
        BY <1>2, <3>4
      <4>2. d.bars[i] = s.bars[i]
        BY <1>3, <1>4, <3>4
      <4>3. QED
        BY <1>8, <3>1, <3>2, <4>1, <4>2
    <3>5. QED
      BY <3>3, <3>4
  <2>2. d.bars = [i \in Instruments |-> d.bars[i]]
    BY <1>3, <1>4
  <2>3. QED
    BY <2>1, <2>2
<1>11. ASSUME NEW k \in K, T[k] # <<>> PROVE Last(T[k]) \in d.seen /\ Key(Last(T[k])) = k
  <2>1. CASE k = key
    <3>1. Last(T[k]) = o
      BY <1>6, <1>8, <2>1
    <3>2. QED
      BY <1>4, <2>1, <3>1 DEF key
  <2>2. CASE k # key
    BY <1>3, <1>4, <1>8, <1>11, <2>2
  <2>3. QED
    BY <2>1, <2>2
<1>12. QED
  BY <1>7, <1>9, <1>10, <1>11 DEF Histories, K, T

LEMMA CallKeepsHistories ==
    ASSUME NEW s, WellFormed(s), IsRecords(s.records), Holds(s), NEW after, CallMakes(s, after)
    PROVE  Holds(after)
<1>1. CASE Quiet(s, after)
  BY <1>1 DEF Quiet, Holds, Histories, SameHistory
<1>2. ASSUME NEW d, NEW e, Writes(s, after, d, e) PROVE Holds(after)
  <2>1. after.records = Append(s.records, e) /\ SameHistory(d, after)
    BY <1>2, WritesFields
  <2>2. TakenIn(after.records) = Take(TakenIn(s.records), e)
    BY <2>1, OneMoreRecord
  <2>3. CASE IsAccepted(e)
    <3>1. Accepts(s, d, e)
      BY <1>2, <2>3 DEF Writes
    <3>2. Histories(d, Take(TakenIn(s.records), e))
      BY <2>3, <3>1, AcceptKeepsHistories DEF Holds, WellFormed
    <3>3. QED
      BY <2>1, <2>2, <3>2 DEF Holds, Histories, SameHistory
  <2>4. CASE ~IsAccepted(e)
    <3>1. SameHistory(s, d)
      BY <1>2, <2>4 DEF Writes
    <3>2. TakenIn(after.records) = TakenIn(s.records)
      BY <2>2, <2>4 DEF Take
    <3>3. QED
      BY <2>1, <3>1, <3>2 DEF Holds, Histories, SameHistory
  <2>5. QED
    BY <2>3, <2>4
<1>3. QED
  BY <1>1, <1>2 DEF CallMakes

-----------------------------------------------------------------------------
\* What the record n of r tells, with the definitions of ShadowCalls over any records.
AcceptedIn(r, n, key) == TakenIn(SubSeq(r, 1, n))[key]

ConnectedIn(r, n) ==
    \E k \in 1 .. n :
        /\ r[k].action = "connected"
        /\ \A j \in k .. n : r[j].action \notin {"disconnected", "failed", "stopped"}

SignalIn(r, n) ==
    /\ r[n].feature # <<>> =>
          r[n].feature = LastOf(Window, AcceptedIn(r, n, Key(r[n].observation)))
    /\ r[n].signal => /\ IsAccepted(r[n]) /\ ConnectedIn(r, n)
                      /\ r[n].time - r[n].observation.time <= MaximumBarAge

RecentIn(r, n, key, age) ==
    LET past == AcceptedIn(r, n, key) IN past # <<>> /\ r[n].time - Last(past).time <= age

EvidenceIn(r, n) ==
    /\ r[n].health = "healthy" =>
          ConnectedIn(r, n) /\ \A i \in Instruments : RecentIn(r, n, <<"bar", i>>, MaximumBarAge)
    /\ r[n].risk = "quote_ready" =>
          RecentIn(r, n, <<"quote", r[n].observation.instrument>>, MaximumQuoteAge)

Tells(s) ==
    /\ \A n \in DOMAIN s.records : SignalIn(s.records, n) /\ EvidenceIn(s.records, n)
    /\ s.connected => ConnectedIn(s.records, Len(s.records))

\* One more record changes nothing of what the earlier ones tell.
LEMMA EarlierTellTheSame ==
    ASSUME NEW r, IsRecords(r), NEW e, NEW n \in 1 .. Len(r)
    PROVE  LET q == Append(r, e) IN
           /\ ConnectedIn(q, n) = ConnectedIn(r, n)
           /\ SignalIn(q, n) = SignalIn(r, n) /\ EvidenceIn(q, n) = EvidenceIn(r, n)
<1> DEFINE q == Append(r, e)
<1>1. /\ \A i \in 1 .. Len(r) : q[i] = r[i]
      /\ \A k \in 0 .. Len(r) : SubSeq(q, 1, k) = SubSeq(r, 1, k)
      /\ Len(r) \in Nat
  BY OneMoreRecord
<1> HIDE DEF q
<1>2. q[n] = r[n] /\ SubSeq(q, 1, n) = SubSeq(r, 1, n) /\ n \in Nat
  BY <1>1
<1>3. \A k \in 1 .. n : \A j \in k .. n : q[j] = r[j] /\ q[k] = r[k]
  BY <1>1
<1>4. ConnectedIn(q, n) = ConnectedIn(r, n)
  <2> DEFINE Since(v, k) == /\ v[k].action = "connected"
                            /\ \A j \in k .. n :
                                  v[j].action \notin {"disconnected", "failed", "stopped"}
  <2>1. \A k \in 1 .. n : k \in k .. n
    BY <1>2
  <2>2. ASSUME NEW k \in 1 .. n PROVE Since(q, k) = Since(r, k)
    <3>1. q[k] = r[k] /\ \A j \in k .. n : q[j] = r[j]
      BY <1>3, <2>1
    <3>2. QED
      BY <3>1
  <2>3. /\ ConnectedIn(q, n) = \E k \in 1 .. n : Since(q, k)
        /\ ConnectedIn(r, n) = \E k \in 1 .. n : Since(r, k)
    BY DEF ConnectedIn
  <2> HIDE DEF Since
  <2>4. QED
    BY <2>2, <2>3
<1>5. \A key : AcceptedIn(q, n, key) = AcceptedIn(r, n, key)
  BY <1>2 DEF AcceptedIn
<1>6. SignalIn(q, n) = SignalIn(r, n)
  BY <1>2, <1>4, <1>5 DEF SignalIn
<1>7. EvidenceIn(q, n) = EvidenceIn(r, n)
  BY <1>2, <1>4, <1>5 DEF EvidenceIn, RecentIn
<1>8. QED
  BY <1>4, <1>6, <1>7 DEF q

\* A record of a session that is connected is one of a connection.
LEMMA RecordIsConnected ==
    ASSUME NEW s, IsRecords(s.records), s.connected => ConnectedIn(s.records, Len(s.records)),
           NEW after, NEW d, NEW e, Writes(s, after, d, e), d.connected
    PROVE  ConnectedIn(Append(s.records, e), Len(s.records) + 1)
<1> DEFINE r == s.records
           q == Append(r, e)
           m == Len(r)
<1>1. /\ m \in Nat /\ q[m + 1] = e /\ \A i \in 1 .. m : q[i] = r[i]
  BY OneMoreRecord
<1>2. /\ s.connected \/ e.action = "connected"
      /\ e.action \notin {"disconnected", "failed", "stopped"}
  BY DEF Writes
<1> HIDE DEF r, q, m
<1>3. CASE e.action = "connected"
  <2>1. m + 1 \in 1 .. m + 1 /\ \A j \in m + 1 .. m + 1 : j = m + 1
    BY <1>1
  <2>2. ConnectedIn(q, m + 1)
    BY <1>1, <1>2, <1>3, <2>1 DEF ConnectedIn
  <2>3. QED
    BY <2>2 DEF q, m, r
<1>4. CASE s.connected
  <2>1. PICK k \in 1 .. m :
           /\ r[k].action = "connected"
           /\ \A j \in k .. m : r[j].action \notin {"disconnected", "failed", "stopped"}
    BY <1>4 DEF ConnectedIn, r, m
  <2>2. k \in 1 .. m + 1 /\ q[k].action = "connected"
    BY <1>1, <2>1
  <2>3. ASSUME NEW j \in k .. m + 1
        PROVE  q[j].action \notin {"disconnected", "failed", "stopped"}
    <3>1. CASE j = m + 1
      BY <1>1, <1>2, <3>1
    <3>2. CASE j # m + 1
      <4>1. j \in k .. m /\ j \in 1 .. m
        BY <1>1, <3>2
      <4>2. QED
        BY <1>1, <2>1, <4>1
    <3>3. QED
      BY <3>1, <3>2
  <2>4. ConnectedIn(q, m + 1)
    BY <2>2, <2>3 DEF ConnectedIn
  <2>5. QED
    BY <2>4 DEF q, m, r
<1>5. QED
  BY <1>2, <1>3, <1>4

\* A bar or a quote that is fresh in a session is the last one accepted, and recent.
LEMMA FreshIsRecent ==
    ASSUME NEW d, NEW H, Histories(d, H), NEW i \in Instruments
    PROVE  /\ BarIsFresh(d, i) =>
                 /\ H[<<"bar", i>>] # <<>> /\ d.now - Last(H[<<"bar", i>>]).time <= MaximumBarAge
           /\ QuoteIsFresh(d, i) =>
                 /\ H[<<"quote", i>>] # <<>>
                 /\ d.now - Last(H[<<"quote", i>>]).time <= MaximumQuoteAge
<1>1. <<"bar", i>> \in Kinds \X Instruments /\ <<"quote", i>> \in Kinds \X Instruments
  BY DEF Kinds
<1>2. /\ d.latest[<<"bar", i>>]
            = IF H[<<"bar", i>>] = <<>> THEN None ELSE Last(H[<<"bar", i>>])
      /\ d.latest[<<"quote", i>>]
            = IF H[<<"quote", i>>] = <<>> THEN None ELSE Last(H[<<"quote", i>>])
  BY <1>1 DEF Histories
<1>3. QED
  BY <1>2 DEF BarIsFresh, QuoteIsFresh

\* What a new record tells is so.
LEMMA RecordTells ==
    ASSUME NEW s, WellFormed(s), IsRecords(s.records), Holds(s), Tells(s),
           NEW after, NEW d, NEW e, Writes(s, after, d, e)
    PROVE  LET q == Append(s.records, e) IN
           SignalIn(q, Len(s.records) + 1) /\ EvidenceIn(q, Len(s.records) + 1)
<1> DEFINE q == Append(s.records, e)
           m == Len(s.records) + 1
           H == TakenIn(q)
           o == e.observation
           key == Key(o)
<1>1. q[m] = e /\ SubSeq(q, 1, m) = q /\ after.records = q /\ SameHistory(d, after)
  BY OneMoreRecord, WritesFields
<1>2. \A k : AcceptedIn(q, m, k) = H[k]
  BY <1>1 DEF AcceptedIn
<1>3. Histories(d, H)
  <2>1. Holds(after)
    BY CallKeepsHistories DEF CallMakes
  <2>2. QED
    BY <1>1, <2>1 DEF Holds, Histories, SameHistory
<1>4. d.connected => ConnectedIn(q, m)
  BY RecordIsConnected DEF Tells
<1>5. d.now = e.time /\ d.health = e.health
  BY DEF Writes
<1> HIDE DEF q, m, H
<1>6. SignalIn(q, m)
  <2>1. CASE IsAccepted(e)
    <3>1. /\ o \in Observations /\ o.instrument \in Instruments /\ d.connected
          /\ SameHistory(Kept(s, o), d)
          /\ e.feature # <<>> => o.kind = "bar" /\ e.feature = d.bars[o.instrument]
          /\ e.signal => o.kind = "bar" /\ BarIsFresh(d, o.instrument)
      BY <2>1 DEF Writes, Accepts
    <3>2. o.kind = "bar" => key = <<"bar", o.instrument>> /\ key \in Kinds \X Instruments
      BY <3>1 DEF Key, Kinds
    <3>3. e.feature # <<>> => e.feature = LastOf(Window, H[key])
      BY <1>3, <3>1, <3>2 DEF Histories
    <3>4. key \in Kinds \X Instruments => d.latest[key] = o
      <4>1. d.latest = [s.latest EXCEPT ![key] = o]
        BY <3>1, KeptFields DEF SameHistory, WellFormed
      <4>2. DOMAIN s.latest = Kinds \X Instruments
        BY DEF Holds, Histories
      <4>3. QED
        BY <4>1, <4>2
    <3>5. e.signal => e.time - o.time <= MaximumBarAge
      BY <1>5, <3>1, <3>2, <3>4 DEF BarIsFresh
    <3>6. QED
      BY <1>1, <1>2, <1>4, <2>1, <3>1, <3>3, <3>5 DEF SignalIn
  <2>2. CASE ~IsAccepted(e)
    <3>1. e.feature = <<>> /\ ~e.signal
      BY <2>2 DEF Writes
    <3>2. QED
      BY <1>1, <3>1 DEF SignalIn
  <2>3. QED
    BY <2>1, <2>2
<1>7. EvidenceIn(q, m)
  <2>1. e.health = "healthy" =>
          /\ ConnectedIn(q, m)
          /\ \A i \in Instruments : RecentIn(q, m, <<"bar", i>>, MaximumBarAge)
    <3>1. SUFFICES ASSUME e.health = "healthy"
                   PROVE  /\ ConnectedIn(q, m)
                          /\ \A i \in Instruments : RecentIn(q, m, <<"bar", i>>, MaximumBarAge)
      OBVIOUS
    <3>2. d.connected /\ \A i \in Instruments : BarIsFresh(d, i)
      BY <3>1 DEF Writes
    <3>3. QED
      BY <1>1, <1>2, <1>3, <1>4, <1>5, <3>2, FreshIsRecent DEF RecentIn
  <2>2. e.risk = "quote_ready" => RecentIn(q, m, <<"quote", o.instrument>>, MaximumQuoteAge)
    <3>1. SUFFICES ASSUME e.risk = "quote_ready"
                   PROVE  RecentIn(q, m, <<"quote", o.instrument>>, MaximumQuoteAge)
      OBVIOUS
    <3>2. IsAccepted(e) /\ o.instrument \in Instruments /\ QuoteIsFresh(d, o.instrument)
      BY <3>1 DEF Writes, Accepts
    <3>3. QED
      BY <1>1, <1>2, <1>3, <1>5, <3>2, FreshIsRecent DEF RecentIn
  <2>3. QED
    BY <1>1, <2>1, <2>2 DEF EvidenceIn
<1>8. QED
  BY <1>6, <1>7 DEF q, m

LEMMA CallKeepsTelling ==
    ASSUME NEW s, WellFormed(s), IsRecords(s.records), Holds(s), Tells(s),
           NEW after, CallMakes(s, after)
    PROVE  Tells(after)
<1>1. CASE Quiet(s, after)
  BY <1>1 DEF Quiet, Tells
<1>2. ASSUME NEW d, NEW e, Writes(s, after, d, e) PROVE Tells(after)
  <2> DEFINE q == Append(s.records, e)
             m == Len(s.records)
  <2>1. after.records = q /\ after.connected = d.connected
    BY <1>2, WritesFields
  <2>2. m \in Nat /\ Len(q) = m + 1 /\ DOMAIN q = 1 .. m + 1 /\ DOMAIN s.records = 1 .. m
    BY OneMoreRecord
  <2>3. SignalIn(q, m + 1) /\ EvidenceIn(q, m + 1)
    BY <1>2, RecordTells
  <2>4. ASSUME NEW n \in 1 .. m PROVE SignalIn(q, n) /\ EvidenceIn(q, n)
    BY <2>2, EarlierTellTheSame DEF Tells
  <2>5. d.connected => ConnectedIn(q, m + 1)
    BY <1>2, RecordIsConnected DEF Tells
  <2> HIDE DEF q, m
  <2>6. \A n \in 1 .. m + 1 : n \in 1 .. m \/ n = m + 1
    BY <2>2
  <2>7. QED
    BY <2>1, <2>2, <2>3, <2>4, <2>5, <2>6 DEF Tells
<1>3. QED
  BY <1>1, <1>2 DEF CallMakes

-----------------------------------------------------------------------------
\* What is accepted of a key is never later than its latest, and in order.
Ordered(s) ==
    \A n \in DOMAIN s.records : IsAccepted(s.records[n]) =>
        LET o == s.records[n].observation IN
        /\ o \in Observations /\ Key(o) \in Kinds \X Instruments
        /\ s.latest[Key(o)] # None /\ o.time <= s.latest[Key(o)].time
        /\ \A m \in 1 .. n - 1 :
              IsAccepted(s.records[m]) /\ Key(s.records[m].observation) = Key(o)
                 => s.records[m].observation.time < o.time

LEMMA CallKeepsOrder ==
    ASSUME NEW s, WellFormed(s), IsRecords(s.records), Holds(s), Ordered(s),
           NEW after, CallMakes(s, after)
    PROVE  Ordered(after)
<1>1. CASE Quiet(s, after)
  BY <1>1 DEF Quiet, Ordered, SameHistory
<1>2. ASSUME NEW d, NEW e, Writes(s, after, d, e) PROVE Ordered(after)
  <2> DEFINE r == s.records
             q == Append(r, e)
             k == Len(r)
             o == e.observation
  <2>1. after.records = q /\ SameHistory(d, after)
    BY <1>2, WritesFields
  <2>2. /\ k \in Nat /\ DOMAIN q = 1 .. k + 1 /\ DOMAIN r = 1 .. k
        /\ q[k + 1] = e /\ \A i \in 1 .. k : q[i] = r[i]
    BY OneMoreRecord
  <2> HIDE DEF r, q, k
  <2>3. CASE IsAccepted(e)
    <3>1. /\ o \in Observations /\ o.instrument \in Instruments
          /\ \A p \in s.seen : ~SameIdentity(o, p)
          /\ s.latest[Key(o)] = None \/ ~(o.time < s.latest[Key(o)].time)
          /\ d.latest = [s.latest EXCEPT ![Key(o)] = o]
      BY <1>2, <2>3, KeptFields DEF Writes, Accepts, SameHistory, WellFormed
    <3>2. /\ o.time \in Nat /\ o # None /\ Key(o) \in Kinds \X Instruments
          /\ \A p \in Observations : p.time \in Nat
      BY <3>1, CallsAssumption DEF Key
    <3>3. s.latest[Key(o)] # None =>
             /\ s.latest[Key(o)] \in Observations /\ s.latest[Key(o)].time < o.time
      <4> DEFINE H == TakenIn(s.records)
                 l == s.latest[Key(o)]
      <4>1. SUFFICES ASSUME l # None PROVE l \in Observations /\ l.time < o.time
        OBVIOUS
      <4>2. /\ H[Key(o)] # <<>> /\ l = Last(H[Key(o)]) /\ l \in s.seen /\ Key(l) = Key(o)
            /\ H[Key(o)] \in Seq(Observations)
        BY <3>2, <4>1 DEF Holds, Histories
      <4> HIDE DEF H, l
      <4>3. l \in Observations
        BY <4>2, LenProperties, ElementOfSeq, EmptySeq DEF Last
      <4>4. ~(o.time < l.time) /\ l.time # o.time
        BY <3>1, <4>1, <4>2 DEF SameIdentity, l
      <4>5. QED
        BY <3>2, <4>3, <4>4
    <3>4. /\ after.latest[Key(o)] = o
          /\ \A c \in Kinds \X Instruments : c # Key(o) => after.latest[c] = s.latest[c]
      BY <2>1, <3>1, <3>2 DEF SameHistory, Holds, Histories
    <3>5. ASSUME NEW n \in 1 .. k, IsAccepted(q[n])
          PROVE  LET p == q[n].observation IN
                 /\ p \in Observations /\ Key(p) \in Kinds \X Instruments
                 /\ after.latest[Key(p)] # None /\ p.time <= after.latest[Key(p)].time
                 /\ Key(p) = Key(o) => p.time < o.time
                 /\ \A m \in 1 .. n - 1 :
                       IsAccepted(q[m]) /\ Key(q[m].observation) = Key(p)
                          => q[m].observation.time < p.time
      <4> DEFINE p == q[n].observation
      <4>1. q[n] = r[n] /\ \A m \in 1 .. n - 1 : q[m] = r[m]
        BY <2>2
      <4>2. /\ p \in Observations /\ Key(p) \in Kinds \X Instruments
            /\ s.latest[Key(p)] # None /\ p.time <= s.latest[Key(p)].time
            /\ \A m \in 1 .. n - 1 :
                  IsAccepted(q[m]) /\ Key(q[m].observation) = Key(p)
                     => q[m].observation.time < p.time
        BY <2>2, <3>5, <4>1 DEF Ordered, r
      <4> HIDE DEF p
      <4>3. Key(p) = Key(o) => p.time < o.time
        BY <3>2, <3>3, <4>2
      <4>4. after.latest[Key(p)] # None /\ p.time <= after.latest[Key(p)].time
        BY <3>2, <3>4, <4>2, <4>3
      <4>5. QED
        BY <4>2, <4>3, <4>4 DEF p
    <3>6. \A n \in 1 .. k + 1 : n \in 1 .. k \/ n = k + 1
      BY <2>2
    <3>7. 1 .. (k + 1) - 1 = 1 .. k
      BY <2>2
    <3>8. QED
      BY <2>1, <2>2, <3>1, <3>2, <3>4, <3>5, <3>6, <3>7 DEF Ordered
  <2>4. CASE ~IsAccepted(e)
    <3>1. after.latest = s.latest
      BY <1>2, <2>1, <2>4 DEF Writes, SameHistory
    <3>2. \A n \in 1 .. k + 1 : IsAccepted(q[n]) => n \in 1 .. k
      BY <2>2, <2>4
    <3>3. \A n \in 1 .. k : q[n] = r[n] /\ \A m \in 1 .. n - 1 : q[m] = r[m]
      BY <2>2
    <3>4. QED
      BY <2>1, <2>2, <3>1, <3>2, <3>3 DEF Ordered, r
  <2>5. QED
    BY <2>3, <2>4
<1>3. QED
  BY <1>1, <1>2 DEF CallMakes

-----------------------------------------------------------------------------
\* All of this holds of a session under any calls.
SInv ==
    /\ WellFormed(session) /\ IsRecords(Records)
    /\ Replays(session) /\ \A n \in 0 .. Len(Records) : Verifies(Records, n)
    /\ Holds(session) /\ Tells(session) /\ Ordered(session)

LEMMA StepMakesCall ==
    ASSUME WellFormed(session), CallsNext
    PROVE  CallMakes(session, session')
BY CallsAssumption, ControlMakes, InvalidMakes, AcceptMakes
DEF CallsNext, DoControl, DoInvalid, DoAccept

LEMMA SessionInductive ==
    /\ CallsInit => SInv
    /\ SInv /\ [CallsNext]_callsVars => SInv'
<1>1. ASSUME CallsInit PROVE SInv
  <2>1. session = NewSession /\ Records = <<>> /\ Len(Records) = 0 /\ DOMAIN Records = {}
    BY <1>1, NewSessionWellFormed DEF CallsInit, Records
  <2>2. Replay(Records) = NewSession /\ IsRecords(Records)
    BY <2>1, NoRecords
  <2>3. Replays(session)
    BY <2>1, <2>2, NewSessionWellFormed DEF Replays, SameHistory, WellFormed, Records
  <2>4. Verifies(Records, 0)
    <3>1. SubSeq(<<>>, 1, 0) = <<>>
      BY SubSeqEmpty
    <3>2. QED
      BY <2>1, <2>2, <3>1, NewSessionWellFormed DEF Verifies
  <2>5. \A n \in 0 .. Len(Records) : Verifies(Records, n)
    BY <2>1, <2>4
  <2>6. Tells(session)
    BY <2>1 DEF Tells, NewSession, Records
  <2>7. Ordered(session)
    BY <2>1 DEF Ordered, Records
  <2>8. QED
    BY <2>1, <2>2, <2>3, <2>5, <2>6, <2>7, NewSessionWellFormed, NewSessionHolds DEF SInv
<1>2. ASSUME SInv, CallsNext PROVE SInv'
  <2>1. CallMakes(session, session')
    BY <1>2, StepMakesCall DEF SInv
  <2>2. WellFormed(session') /\ IsRecords(session'.records)
    BY <1>2, <2>1, CallKeepsForm DEF SInv, Records
  <2>3. Replays(session') /\ \A n \in 0 .. Len(session'.records) : Verifies(session'.records, n)
    BY <1>2, <2>1, CallKeepsReplay DEF SInv, Records
  <2>4. Holds(session')
    BY <1>2, <2>1, CallKeepsHistories DEF SInv, Records
  <2>5. Tells(session')
    BY <1>2, <2>1, CallKeepsTelling DEF SInv, Records
  <2>6. Ordered(session')
    BY <1>2, <2>1, CallKeepsOrder DEF SInv, Records
  <2>7. QED
    BY <2>2, <2>3, <2>4, <2>5, <2>6 DEF SInv, Records
<1>3. ASSUME SInv, UNCHANGED callsVars PROVE SInv'
  <2>1. session' = session
    BY <1>3 DEF callsVars
  <2>2. QED
    BY <1>3, <2>1 DEF SInv, Records
<1>4. QED
  BY <1>1, <1>2, <1>3

LEMMA SessionInvariance == CallsSpec => []SInv
BY SessionInductive, PTL DEF CallsSpec

\* A replay of the records gives the session again: its records, its histories, its
\* connection and its health, unless it failed in a call that left no record. Code: replay
\* against control, invalid and accept.
THEOREM RecordsReplay == CallsSpec => []ReplayReproduces
<1>1. ASSUME SInv PROVE ReplayReproduces
  <2> DEFINE again == Replay(Records)
             n == Len(Records)
  <2>1. /\ IsSession(again) /\ SameHistory(session, again) /\ again.records = Records
        /\ again.connected = session.connected /\ session.health \in {again.health, "failed"}
        /\ Records # <<>> => again.health = Records[n].health
    BY <1>1 DEF SInv, Replays, Records
  <2> HIDE DEF again, n
  <2>2. ASSUME ~FailedUnrecorded PROVE session.health = again.health
    BY <2>1, <2>2 DEF FailedUnrecorded, Last, n
  <2>3. IsSession(session) /\ again.records = session.records
    BY <1>1, <2>1 DEF SInv, WellFormed, Records
  <2>4. ASSUME session.health = again.health PROVE again = [session EXCEPT !.now = again.now]
    BY <2>1, <2>3, <2>4 DEF IsSession, SameHistory
  <2>5. QED
    BY <2>1, <2>2, <2>4 DEF ReplayReproduces, again
<1>2. QED
  BY <1>1, SessionInvariance, PTL

\* Of a kind and an instrument, what is accepted is accepted in the order of its time,
\* nothing twice, whatever is delivered late, again or changed. Code: accept.
THEOREM AcceptedInOrder == CallsSpec => []AcceptedOnceInOrder
<1>1. ASSUME SInv PROVE AcceptedOnceInOrder
  BY <1>1 DEF SInv, Ordered, AcceptedOnceInOrder, Records
<1>2. QED
  BY <1>1, SessionInvariance, PTL

LEMMA TellingIsCurrent ==
    ASSUME SInv, NEW n \in DOMAIN Records
    PROVE  /\ SignalIn(Records, n) /\ EvidenceIn(Records, n)
           /\ \A key : AcceptedBy(n, key) = AcceptedIn(Records, n, key)
           /\ ConnectedAt(n) = ConnectedIn(Records, n)
<1>1. SignalIn(Records, n) /\ EvidenceIn(Records, n)
  BY DEF SInv, Tells, Records
<1>2. \A key : AcceptedBy(n, key) = AcceptedIn(Records, n, key)
  BY DEF AcceptedBy, AcceptedIn, TakenIn
<1>3. ConnectedAt(n) = ConnectedIn(Records, n)
  BY DEF ConnectedAt, ConnectedIn
<1>4. QED
  BY <1>1, <1>2, <1>3

\* Features and signals are of the last accepted bars, and signals of recent ones received
\* while connected. Code: the rolling history, _bar_is_fresh and the strategy in accept.
THEOREM SignalsCurrent == CallsSpec => []SignalsAreCurrent
<1>1. ASSUME SInv PROVE SignalsAreCurrent
  BY <1>1, TellingIsCurrent DEF SignalsAreCurrent, SignalIn
<1>2. QED
  BY <1>1, SessionInvariance, PTL

\* A record says healthy, or quote_ready, only on the last accepted bars, or quote, and
\* only while they are recent. Code: _refresh and _quote_is_fresh.
THEOREM EvidenceCurrent == CallsSpec => []EvidenceIsCurrent
<1>1. ASSUME SInv PROVE EvidenceIsCurrent
  BY <1>1, TellingIsCurrent DEF EvidenceIsCurrent, EvidenceIn, RecentIn
<1>2. QED
  BY <1>1, SessionInvariance, PTL

\* A session that has a record keeps it, and a terminal one gets no more: whatever calls
\* are made, at whatever times. Code: the terminal checks of the three calls.
THEOREM TerminalRemains == CallsSpec => TerminalIsFinal
<1> DEFINE Keeps == /\ IsPrefix(Records, Records') /\ Len(Records') <= Len(Records) + 1
                    /\ Terminal(session) => Records' = Records /\ Terminal(session)'
<1>1. ASSUME SInv, [CallsNext]_callsVars PROVE Keeps
  <2>1. session' = session \/ Called(session, session')
    BY <1>1, ControlCalls, InvalidCalls, AcceptCalls
    DEF SInv, WellFormed, CallsNext, DoControl, DoInvalid, DoAccept, callsVars
  <2>2. Len(Records) \in Nat /\ SubSeq(Records, 1, Len(Records)) = Records
    BY <1>1, OneMoreRecord DEF SInv
  <2>3. CASE Records' = Records
    <3>1. IsPrefix(Records, Records')
      BY <2>2, <2>3 DEF IsPrefix
    <3>2. QED
      BY <1>1, <2>1, <2>2, <2>3, <3>1 DEF Called, Terminal
  <2>4. CASE Records' # Records
    <3>1. PICK e : Records' = Append(Records, e) /\ ~Terminal(session)
      BY <2>1, <2>4 DEF Called, Records
    <3>2. /\ Len(Append(Records, e)) = Len(Records) + 1
          /\ SubSeq(Append(Records, e), 1, Len(Records)) = SubSeq(Records, 1, Len(Records))
      BY <1>1, <2>2, OneMoreRecord DEF SInv
    <3>3. Len(Records') = Len(Records) + 1
      BY <3>1, <3>2
    <3>4. SubSeq(Records, 1, Len(Records)) = SubSeq(Records', 1, Len(Records))
      BY <3>1, <3>2
    <3>5. IsPrefix(Records, Records')
      BY <2>2, <3>3, <3>4 DEF IsPrefix
    <3>6. Len(Records') <= Len(Records) + 1
      BY <2>2, <3>3
    <3>7. ~Terminal(session)
      BY <3>1
    <3>8. QED
      BY <3>5, <3>6, <3>7
  <2>5. QED
    BY <2>3, <2>4
<1>2. SInv /\ [CallsNext]_callsVars => [Keeps]_callsVars
  BY <1>1
<1>3. QED
  BY <1>2, SessionInvariance, PTL DEF CallsSpec, TerminalIsFinal

-----------------------------------------------------------------------------
\* A write, the session being what a call made of it.
WriteOf(after) == \E next, raised, unwritten : Write(after, next, raised, unwritten)

\* What a step does to the session and to the capture.
LEMMA StepWrites ==
    ASSUME IsSession(session), [Next]_vars
    PROVE  \/ UNCHANGED <<session, file, buffer>>
           \/ /\ UNCHANGED session
              /\ Flushed(buffer) \/ FlushFailed(buffer)
           \/ \E after : Called(session, after) /\ WriteOf(after)
<1> DEFINE Goal == \/ UNCHANGED <<session, file, buffer>>
                   \/ /\ UNCHANGED session
                      /\ Flushed(buffer) \/ FlushFailed(buffer)
                   \/ \E after : Called(session, after) /\ WriteOf(after)
<1>1. CASE Subscribed \/ ReceiveTimeout \/ RecordLoss \/ Exhaust
  <2>1. \E action : WriteOf(Control(session, action, clock))
    BY <1>1 DEF Subscribed, ReceiveTimeout, RecordLoss, Exhaust, WriteOf
  <2>2. QED
    BY <2>1, ControlCalls
<1>2. CASE MalformedFrame
  <2>1. WriteOf(Invalid(session, clock))
    BY <1>2 DEF MalformedFrame, WriteOf
  <2>2. QED
    BY <2>1, InvalidCalls
<1>3. CASE ProcessPayload
  <2>1. \/ WriteOf(Control(session, "failed", received))
        \/ WriteOf(Invalid(session, received))
        \/ WriteOf(Accept(session, Translated(Head(frame))))
    BY <1>3 DEF ProcessPayload, WriteOf
  <2>2. QED
    BY <2>1, ControlCalls, InvalidCalls, AcceptCalls
<1>4. CASE Failing \/ Closing
  <2>1. \/ UNCHANGED <<session, file, buffer>>
        \/ \E action : WriteOf(Control(session, action, clock))
    BY <1>4 DEF Failing, Closing, WriteOf, writer
  <2>2. QED
    BY <2>1, ControlCalls
<1>5. CASE Close
  BY <1>5 DEF Close
<1>6. CASE \/ Connect \/ SetupLost \/ SetupRejected \/ SetupAnswered \/ Receive \/ ReceiveLost
           \/ Left \/ Retry \/ Interrupted \/ Crash \/ ClockMoves
  BY <1>6 DEF Connect, SetupLost, SetupRejected, SetupAnswered, Receive, ReceiveLost, Left, Retry,
              Interrupted, Crash, ClockMoves, writer
<1>7. CASE UNCHANGED vars
  BY <1>7 DEF vars, writer
<1>8. QED
  BY <1>1, <1>2, <1>3, <1>4, <1>5, <1>6, <1>7 DEF Next, RunsOn, Awaited

\* A flush moves lines from what is held back to the file, without loss or repetition,
\* whether it gets through or not.
LEMMA FlushMoves ==
    ASSUME NEW S, file \in Seq(S), NEW pending \in Seq(S),
           Flushed(pending) \/ FlushFailed(pending)
    PROVE  file' \in Seq(S) /\ buffer' \in Seq(S) /\ file' \o buffer' = file \o pending
<1>1. CASE Flushed(pending)
  <2>1. file' = file \o pending /\ buffer' = <<>>
    BY <1>1 DEF Flushed
  <2>2. file' \in Seq(S) /\ buffer' \in Seq(S)
    BY <2>1, ConcatProperties, EmptySeq
  <2>3. QED
    BY <2>1, <2>2, ConcatEmptySeq
<1>2. CASE FlushFailed(pending)
  <2>1. Len(pending) \in Nat /\ DOMAIN pending = 1 .. Len(pending)
    BY LenProperties
  <2>2. PICK n \in 0 .. Len(pending) - 1 :
            /\ file' = file \o SubSeq(pending, 1, n)
            /\ buffer' = SubSeq(pending, n + 1, Len(pending))
    BY <1>2 DEF FlushFailed
  <2>3. n \in Int /\ n + 1 \in Int /\ n <= Len(pending) /\ n >= 0
    BY <2>1
  <2>4. \A k \in 1 .. Len(pending) : pending[k] \in S
    BY ElementOfSeq
  <2>5. SubSeq(pending, 1, n) \in Seq(S)
    BY <2>1, <2>3, <2>4, SubSeqProperties
  <2>6. SubSeq(pending, n + 1, Len(pending)) \in Seq(S)
    BY <2>1, <2>3, <2>4, SubSeqProperties
  <2>7. SubSeq(pending, 1, n) \o SubSeq(pending, n + 1, Len(pending)) = pending
    <3>1. /\ 1 \in 1 .. Len(pending) + 1 /\ n \in 1 - 1 .. Len(pending)
          /\ Len(pending) \in n .. Len(pending)
      BY <2>1, <2>3
    <3>2. SubSeq(pending, 1, n) \o SubSeq(pending, n + 1, Len(pending))
             = SubSeq(pending, 1, Len(pending))
      BY <3>1, ConcatAdjacentSubSeq
    <3>3. QED
      BY <3>2, SubSeqFull
  <2>8. file' \in Seq(S) /\ buffer' \in Seq(S)
    BY <2>2, <2>5, <2>6, ConcatProperties
  <2>9. file' \o buffer' = file \o pending
    <3> DEFINE head == SubSeq(pending, 1, n)
               tail == SubSeq(pending, n + 1, Len(pending))
    <3>1. head \in Seq(S) /\ tail \in Seq(S)
      BY <2>5, <2>6
    <3>2. head \o tail = pending /\ file' = file \o head /\ buffer' = tail
      BY <2>2, <2>7
    <3> HIDE DEF head, tail
    <3>3. (file \o head) \o tail = file \o (head \o tail)
      BY <3>1, ConcatAssociative
    <3>4. QED
      BY <3>2, <3>3
  <2>10. QED
    BY <2>8, <2>9
<1>3. QED
  BY <1>1, <1>2

\* Nothing but the session's records is ever in the file or held back.
CInv ==
    /\ IsSession(session)
    /\ \E S : file \in Seq(S) /\ buffer \in Seq(S) /\ CaptureIsTheRecords

\* A write adds the record of the call to the capture.
LEMMA WriteCaptures ==
    ASSUME CInv, NEW after, Called(session, after), WriteOf(after)
    PROVE  CInv'
<1>1. PICK S : file \in Seq(S) /\ buffer \in Seq(S) /\ file \o buffer = session.records
  BY DEF CInv, CaptureIsTheRecords
<1>2. session' = after /\ IsSession(after)
  BY DEF WriteOf, Write, Called
<1>3. CASE after.records = session.records
  <2>1. UNCHANGED <<file, buffer>>
    BY <1>3 DEF WriteOf, Write, writer
  <2>2. QED
    BY <1>1, <1>2, <1>3, <2>1 DEF CInv, CaptureIsTheRecords
<1>4. CASE after.records # session.records
  <2> DEFINE pending == Append(buffer, Last(after.records))
  <2>1. PICK e : after.records = Append(session.records, e)
    BY <1>4 DEF Called
  <2> DEFINE T == S \cup {e}
  <2>2. e \in T /\ file \in Seq(T) /\ buffer \in Seq(T)
    BY <1>1, SeqMonotonic
  <2> HIDE DEF T
  <2>3. file \o buffer \in Seq(T) /\ Len(file \o buffer) \in Nat
    BY <2>2, ConcatProperties, LenProperties
  <2>4. Last(after.records) = e
    <3>1. /\ Len(Append(session.records, e)) = Len(session.records) + 1
          /\ Append(session.records, e)[Len(session.records) + 1] = e
      BY <1>1, <2>2, <2>3, AppendProperties
    <3>2. QED
      BY <2>1, <3>1 DEF Last
  <2>5. pending = Append(buffer, e) /\ pending \in Seq(T)
    BY <2>2, <2>4, AppendProperties
  <2>6. file \o pending = after.records
    <3> DEFINE one == <<e>>
    <3>1. one \in Seq(T)
      BY <2>2
    <3>2. pending = buffer \o one /\ after.records = (file \o buffer) \o one
      BY <1>1, <2>1, <2>2, <2>3, <2>5, AppendIsConcat
    <3> HIDE DEF one
    <3>3. file \in Seq(T) /\ buffer \in Seq(T)
      BY <2>2
    <3>4. (file \o buffer) \o one = file \o (buffer \o one)
      BY <3>1, <3>3, ConcatAssociative
    <3>5. QED
      BY <3>2, <3>4
  <2>7. Flushed(pending) \/ FlushFailed(pending)
    BY <1>4 DEF WriteOf, Write
  <2> HIDE DEF pending
  <2>8. file' \in Seq(T) /\ buffer' \in Seq(T) /\ file' \o buffer' = file \o pending
    BY <2>2, <2>5, <2>7, FlushMoves
  <2>9. QED
    BY <1>2, <2>6, <2>8 DEF CInv, CaptureIsTheRecords
<1>5. QED
  BY <1>3, <1>4

\* Initially there is nothing, and every step keeps the capture.
LEMMA CaptureInductive ==
    /\ Init => CInv
    /\ CInv /\ [Next]_vars => CInv'
<1>1. ASSUME Init PROVE CInv
  <2>1. session = NewSession /\ file = <<>> /\ buffer = <<>>
    BY <1>1 DEF Init
  <2>2. IsSession(session) /\ session.records = <<>>
    BY <2>1 DEF IsSession, NewSession
  <2>3. file \in Seq({}) /\ buffer \in Seq({}) /\ file \o buffer = <<>>
    BY <2>1, EmptySeq, ConcatEmptySeq
  <2>4. QED
    BY <2>2, <2>3 DEF CInv, CaptureIsTheRecords
<1>2. ASSUME CInv, [Next]_vars PROVE CInv'
  <2>1. CASE UNCHANGED <<session, file, buffer>>
    BY <1>2, <2>1 DEF CInv, CaptureIsTheRecords
  <2>2. CASE UNCHANGED session /\ (Flushed(buffer) \/ FlushFailed(buffer))
    <3>1. PICK S : file \in Seq(S) /\ buffer \in Seq(S) /\ file \o buffer = session.records
      BY <1>2 DEF CInv, CaptureIsTheRecords
    <3>2. file' \in Seq(S) /\ buffer' \in Seq(S) /\ file' \o buffer' = file \o buffer
      BY <2>2, <3>1, FlushMoves
    <3>3. QED
      BY <1>2, <2>2, <3>1, <3>2 DEF CInv, CaptureIsTheRecords
  <2>3. ASSUME NEW after, Called(session, after), WriteOf(after) PROVE CInv'
    BY <1>2, <2>3, WriteCaptures
  <2>4. QED
    BY <1>2, <2>1, <2>2, <2>3, StepWrites DEF CInv
<1>3. QED
  BY <1>1, <1>2

\* The capture, with what is held back, is the records, through any failures of writes,
\* losses of the connection and clocks set back: none is lost, repeated or reordered.
THEOREM CaptureComplete == Spec => []CaptureIsTheRecords
<1>1. CInv => CaptureIsTheRecords
  BY DEF CInv
<1>2. QED
  BY <1>1, CaptureInductive, PTL DEF Spec

-----------------------------------------------------------------------------
\* Every step leaves a session.
LEMMA SessionStays ==
    ASSUME IsSession(session), [Next]_vars
    PROVE  /\ IsSession(session')
           /\ session' = session \/ Called(session, session')
<1>1. ASSUME NEW after, Called(session, after), WriteOf(after)
      PROVE  Called(session, session') /\ IsSession(session')
  <2>1. session' = after
    BY <1>1 DEF WriteOf, Write
  <2>2. QED
    BY <1>1, <2>1 DEF Called
<1>2. QED
  BY <1>1, StepWrites DEF IsSession

Away == {"connecting", "backoff"} \cup Setup

AInv == IsSession(session) /\ attempt \in Nat /\ AwayIsDisconnected

\* Only a recorded loss leads out of a connection, and only waiting leads on from it.
LEMMA AwayInductive ==
    /\ Init => AInv
    /\ AInv /\ [Next]_vars => AInv'
<1>1. ASSUME Init PROVE AInv
  BY <1>1 DEF Init, AInv, IsSession, NewSession, AwayIsDisconnected
<1>2. ASSUME AInv, [Next]_vars PROVE AInv'
  <2> USE DEF AInv
  <2>1. IsSession(session')
    BY <1>2, SessionStays
  <2>2. CASE Connect \/ SetupAnswered
    BY <1>2, <2>1, <2>2 DEF Connect, SetupAnswered, AwayIsDisconnected, Setup
  <2>3. CASE Retry
    BY <1>2, <2>1, <2>3 DEF Retry, AwayIsDisconnected, Setup
  <2>4. CASE RecordLoss
    <3> DEFINE after == Control(session, "disconnected", clock)
    <3>1. session' = after /\ attempt' = attempt
      BY <2>4 DEF RecordLoss, Write
    <3>2. phase' = "backoff" => after.records # session.records
      BY <2>4 DEF RecordLoss, Write
    <3>3. phase' = "backoff" => ~after.connected /\ after.health = "disconnected"
      BY <1>2, <3>2, ControlCalls
    <3>4. phase' \in {"backoff", "exhausted", "failing"}
      BY <2>4 DEF RecordLoss, Write
    <3>5. QED
      BY <1>2, <2>1, <3>1, <3>3, <3>4 DEF AwayIsDisconnected, Setup
  <2>5. CASE UNCHANGED vars \/ ClockMoves
    BY <1>2, <2>1, <2>5 DEF vars, ClockMoves, AwayIsDisconnected
  <2>6. CASE \/ Subscribed \/ ReceiveTimeout \/ MalformedFrame \/ ProcessPayload \/ Exhaust
             \/ Failing \/ Closing
    <3>1. attempt' = attempt /\ phase' \notin Away
      BY <2>6 DEF Subscribed, ReceiveTimeout, MalformedFrame, ProcessPayload, Exhaust, Failing,
                  Closing, Write, Away, Setup
    <3>2. QED
      BY <1>2, <2>1, <3>1 DEF AwayIsDisconnected, Away
  <2>7. CASE SetupLost \/ SetupRejected \/ Receive \/ ReceiveLost \/ Left \/ Interrupted
             \/ Close \/ Crash
    <3>1. attempt' = attempt /\ phase' \notin Away
      BY <2>7 DEF SetupLost, SetupRejected, Receive, ReceiveLost, Left, Interrupted, Close, Crash,
                  Away, Setup
    <3>2. QED
      BY <1>2, <2>1, <3>1 DEF AwayIsDisconnected, Away
  <2>8. QED
    BY <1>2, <2>2, <2>3, <2>4, <2>5, <2>6, <2>7 DEF Next, RunsOn, Awaited
<1>3. QED
  BY <1>1, <1>2

\* Between connections the session is never healthy: what a connection brought does not
\* outlive it, however it was lost.
THEOREM AwayDisconnected == Spec => []AwayIsDisconnected
<1>1. AInv => AwayIsDisconnected
  BY DEF AInv
<1>2. QED
  BY <1>1, AwayInductive, PTL DEF Spec

-----------------------------------------------------------------------------
\* What a frame may hold, and the times at which the coroutine calls the session.
Payloads == UNION {Range(f) : f \in Frames}

Clocked ==
    /\ clock \in Times
    /\ phase = "processing" => received \in Times /\ frame \in Seq(Payloads) /\ frame # <<>>

LEMMA FramesArePayloads ==
    ASSUME NEW f \in Frames
    PROVE  f \in Seq(Payloads) /\ f # <<>>
<1>1. f \in Seq(Range(f)) /\ f # <<>>
  BY StreamAssumption
<1>2. Range(f) \subseteq Payloads
  BY DEF Payloads
<1>3. QED
  BY <1>1, <1>2, SeqMonotonic

LEMMA TranslatedIsObserved ==
    ASSUME NEW p \in Payloads, NEW t \in Times
    PROVE  TranslatedAt(p, t) \in Observations \cup {None}
BY StreamAssumption DEF Payloads

\* A frame is processed from its receipt to its last payload.
LEMMA ClockedInductive ==
    /\ Init => Clocked
    /\ Clocked /\ [Next]_vars => Clocked'
<1>1. ASSUME Init PROVE Clocked
  BY <1>1 DEF Init, Clocked
<1>2. ASSUME Clocked, [Next]_vars PROVE Clocked'
  <2>1. CASE Receive
    <3>1. PICK f \in Frames : frame' = f
      BY <2>1 DEF Receive
    <3>2. received' = clock /\ clock' = clock
      BY <2>1 DEF Receive
    <3>3. QED
      BY <1>2, <3>1, <3>2, FramesArePayloads DEF Clocked
  <2>2. CASE ProcessPayload
    <3>1. /\ clock' = clock /\ received' = received /\ phase = "processing"
          /\ phase' = "processing" => frame' = Tail(frame) /\ Len(frame) # 1
      BY <2>2 DEF ProcessPayload, Write
    <3>2. /\ frame \in Seq(Payloads) /\ frame # <<>>
          /\ Len(frame) # 1 => Tail(frame) \in Seq(Payloads) /\ Tail(frame) # <<>>
      <4>1. frame \in Seq(Payloads) /\ frame # <<>>
        BY <1>2, <3>1 DEF Clocked
      <4>2. Len(frame) \in Nat /\ Tail(frame) \in Seq(Payloads) /\ Len(Tail(frame)) = Len(frame) - 1
        BY <4>1, HeadTailProperties, LenProperties
      <4>3. Tail(frame) = <<>> => Len(frame) = 1
        BY <4>2, EmptySeq
      <4>4. QED
        BY <4>1, <4>2, <4>3
    <3>3. QED
      BY <1>2, <3>1, <3>2 DEF Clocked
  <2>3. CASE \/ Subscribed \/ ReceiveTimeout \/ MalformedFrame \/ RecordLoss \/ Exhaust
             \/ Failing \/ Closing
    <3>1. clock' = clock /\ phase' # "processing"
      BY <2>3 DEF Subscribed, ReceiveTimeout, MalformedFrame, RecordLoss, Exhaust, Failing, Closing,
                  Write
    <3>2. QED
      BY <1>2, <3>1 DEF Clocked
  <2>4. CASE \/ Connect \/ SetupLost \/ SetupRejected \/ SetupAnswered \/ ReceiveLost \/ Left
             \/ Retry \/ Interrupted \/ Close \/ Crash
    <3>1. clock' = clock /\ phase' # "processing"
      BY <2>4 DEF Connect, SetupLost, SetupRejected, SetupAnswered, ReceiveLost, Left, Retry,
                  Interrupted, Close, Crash
    <3>2. QED
      BY <1>2, <3>1 DEF Clocked
  <2>5. CASE ClockMoves \/ UNCHANGED vars
    BY <1>2, <2>5 DEF ClockMoves, vars, Clocked
  <2>6. QED
    BY <1>2, <2>1, <2>2, <2>3, <2>4, <2>5 DEF Next, RunsOn, Awaited
<1>3. QED
  BY <1>1, <1>2

\* A call of the session at time t whose record is written.
CallAt(t) ==
    \E after : Called(session, after) /\ CalledAt(session, after, t) /\ WriteOf(after)

\* Every step leaves the session alone or calls it: at the receipt of the frame while one
\* is processed, otherwise now.
LEMMA StepCalls ==
    ASSUME IsSession(session), [Next]_vars
    PROVE  \/ UNCHANGED session
           \/ CallAt(IF phase = "processing" THEN received ELSE clock)
<1>1. CASE Subscribed \/ ReceiveTimeout \/ RecordLoss \/ Exhaust
  <2>1. phase # "processing" /\ \E action : WriteOf(Control(session, action, clock))
    BY <1>1 DEF Subscribed, ReceiveTimeout, RecordLoss, Exhaust, WriteOf
  <2>2. QED
    BY <2>1, ControlCalls DEF CallAt
<1>2. CASE MalformedFrame
  <2>1. phase # "processing" /\ WriteOf(Invalid(session, clock))
    BY <1>2 DEF MalformedFrame, WriteOf
  <2>2. QED
    BY <2>1, InvalidCalls DEF CallAt
<1>3. CASE ProcessPayload
  <2> DEFINE o == Translated(Head(frame))
  <2>1. /\ phase = "processing"
        /\ \/ WriteOf(Control(session, "failed", received))
           \/ WriteOf(Invalid(session, received))
           \/ o # None /\ WriteOf(Accept(session, o))
    BY <1>3 DEF ProcessPayload, WriteOf
  <2>2. o # None => o.instrument \in Instruments /\ o.received = received
    BY DEF Translated, TranslatedAt
  <2> HIDE DEF o
  <2>3. QED
    BY <2>1, <2>2, ControlCalls, InvalidCalls, AcceptCalls DEF CallAt
<1>4. CASE Failing \/ Closing
  <2>1. /\ phase # "processing"
        /\ UNCHANGED session \/ \E action : WriteOf(Control(session, action, clock))
    BY <1>4 DEF Failing, Closing, WriteOf
  <2>2. QED
    BY <2>1, ControlCalls DEF CallAt
<1>5. CASE \/ Connect \/ SetupLost \/ SetupRejected \/ SetupAnswered \/ Receive \/ ReceiveLost
           \/ Left \/ Retry \/ Interrupted \/ Crash \/ ClockMoves \/ Close \/ UNCHANGED vars
  BY <1>5 DEF Connect, SetupLost, SetupRejected, SetupAnswered, Receive, ReceiveLost, Left, Retry,
              Interrupted, Crash, ClockMoves, Close, vars
<1>6. QED
  BY <1>1, <1>2, <1>3, <1>4, <1>5 DEF Next, RunsOn, Awaited

-----------------------------------------------------------------------------
\* What the end of a run rests on: the session's clock is not ahead of the calls to come,
\* its records keep their bound, a terminal session has a record of its end, and only a
\* failed write leaves something out of the file.
Punctual ==
    /\ session.now \in Nat
    /\ regressions = 0 => /\ session.now <= clock
                          /\ phase = "processing" => session.now <= received /\ received <= clock

EndRecorded ==
    /\ Len(session.records) <= MaximumRecords
    /\ Terminal(session) =>
          \/ regressions > 0 \/ Len(session.records) = MaximumRecords
          \/ session.records # <<>> /\ Last(session.records).action = session.health

Written == failures = 0 => buffer = <<>> /\ cut = FALSE

Over == phase \in {"ended", "exited"} => Terminal(session)

EInv ==
    /\ CInv /\ Clocked /\ failures \in Nat /\ regressions \in Nat
    /\ Punctual /\ EndRecorded /\ Written /\ Over

\* A session's records are a sequence.
LEMMA RecordsAreASequence ==
    ASSUME CInv
    PROVE  \E S : session.records \in Seq(S)
BY ConcatProperties DEF CInv, CaptureIsTheRecords

\* What a call that is not behind the session's clock, nor any before it, makes of the end.
LEMMA CallKeepsEnd ==
    ASSUME EInv, NEW t \in Nat, CallAt(t), regressions' = regressions,
           regressions = 0 => session.now <= t
    PROVE  /\ session.now' \in Nat /\ (regressions = 0 => session.now' <= t)
           /\ EndRecorded'
<1>1. PICK after : Called(session, after) /\ CalledAt(session, after, t) /\ WriteOf(after)
  BY DEF CallAt
<1>2. session' = after
  BY <1>1 DEF WriteOf, Write
<1>3. PICK S : session.records \in Seq(S)
  BY RecordsAreASequence DEF EInv
<1>4. /\ Len(session.records) \in Nat /\ Len(session.records) <= MaximumRecords
      /\ session.now \in Nat /\ regressions \in Nat /\ MaximumRecords \in Nat
  BY <1>3, LenProperties, SessionAssumption DEF EInv, EndRecorded, Punctual
<1>5. after.now \in Nat /\ (regressions = 0 => after.now <= t)
  BY <1>1, <1>4 DEF CalledAt
<1>6. ASSUME NEW e, after.records = Append(session.records, e)
      PROVE  /\ Len(after.records) = Len(session.records) + 1
             /\ after.records # <<>> /\ Last(after.records) = e
             /\ after.records # session.records
  <2> DEFINE T == S \cup {e}
  <2>1. session.records \in Seq(T) /\ e \in T
    BY <1>3, SeqMonotonic
  <2> HIDE DEF T
  <2>2. /\ Append(session.records, e) \in Seq(T)
        /\ Len(Append(session.records, e)) = Len(session.records) + 1
        /\ Append(session.records, e)[Len(session.records) + 1] = e
    BY <2>1, AppendProperties
  <2>3. Append(session.records, e) # <<>>
    BY <1>4, <2>2, EmptySeq
  <2>4. QED
    BY <1>4, <1>6, <2>2, <2>3 DEF Last
<1>7. Len(after.records) <= MaximumRecords
  <2>1. CASE after.records = session.records
    BY <1>4, <2>1
  <2>2. CASE after.records # session.records
    <3>1. Len(session.records) < MaximumRecords
      BY <1>1, <1>4, <2>2 DEF CalledAt, Refused
    <3>2. Len(after.records) = Len(session.records) + 1
      BY <1>1, <1>6, <2>2 DEF Called
    <3>3. QED
      BY <1>4, <3>1, <3>2
  <2>3. QED
    BY <2>1, <2>2
<1>8. ASSUME Terminal(after), regressions = 0, Len(after.records) # MaximumRecords
      PROVE  after.records # <<>> /\ Last(after.records).action = after.health
  <2>1. ~Refused(session, t)
    BY <1>1, <1>4, <1>8 DEF CalledAt, Refused
  <2>2. CASE Terminal(session)
    BY <1>1, <1>8, <2>1, <2>2 DEF CalledAt, EInv, EndRecorded
  <2>3. CASE ~Terminal(session)
    <3>1. PICK e : e.action = after.health /\ after.records = Append(session.records, e)
      BY <1>1, <1>8, <2>1, <2>3 DEF CalledAt
    <3>2. QED
      BY <1>6, <3>1
  <2>4. QED
    BY <2>2, <2>3
<1>9. QED
  BY <1>2, <1>4, <1>5, <1>7, <1>8 DEF EndRecorded

\* The coroutine ends only after the finally clause, which leaves a terminal session.
LEMMA OverKeeps ==
    ASSUME EInv, [Next]_vars
    PROVE  Over'
<1>1. CASE Closing
  <2>1. \/ Terminal(session) /\ session' = session
        \/ session' = Control(session, "stopped", clock)
    BY <1>1 DEF Closing, Write
  <2>2. Terminal(session')
    BY <2>1, ControlCalls DEF EInv, CInv
  <2>3. QED
    BY <2>2 DEF Over, Terminal
<1>2. CASE Close \/ ClockMoves \/ UNCHANGED vars
  BY <1>2 DEF Close, ClockMoves, vars, EInv, Over, Terminal
<1>3. CASE \/ ProcessPayload \/ RecordLoss \/ Exhaust \/ Failing \/ Subscribed \/ ReceiveTimeout
           \/ MalformedFrame
  <2>1. phase' \notin {"ended", "exited"}
    BY <1>3 DEF ProcessPayload, RecordLoss, Exhaust, Failing, Subscribed, ReceiveTimeout,
                MalformedFrame, Write
  <2>2. QED
    BY <2>1 DEF Over
<1>4. CASE \/ Connect \/ SetupLost \/ SetupRejected \/ SetupAnswered \/ Receive \/ ReceiveLost
           \/ Left \/ Retry \/ Interrupted \/ Crash
  <2>1. phase' \notin {"ended", "exited"}
    BY <1>4 DEF Connect, SetupLost, SetupRejected, SetupAnswered, Receive, ReceiveLost, Left, Retry,
                Interrupted, Crash
  <2>2. QED
    BY <2>1 DEF Over
<1>5. QED
  BY <1>1, <1>2, <1>3, <1>4 DEF Next, RunsOn, Awaited

\* Only a write that fails, which is counted, holds anything back.
LEMMA WrittenKeeps ==
    ASSUME EInv, [Next]_vars
    PROVE  Written' /\ failures' \in Nat
<1>1. \/ UNCHANGED <<file, cut, buffer, failures>>
      \/ buffer' = <<>> /\ cut' = FALSE /\ failures' = failures
      \/ failures' = failures + 1
  <2>1. CASE \/ Subscribed \/ ReceiveTimeout \/ MalformedFrame \/ ProcessPayload \/ RecordLoss
             \/ Exhaust
    BY <2>1 DEF Subscribed, ReceiveTimeout, MalformedFrame, ProcessPayload, RecordLoss, Exhaust,
                Write, Flushed, writer
  <2>2. CASE Failing \/ Closing \/ Close
    BY <2>2 DEF Failing, Closing, Close, Write, Flushed, writer
  <2>3. CASE \/ Connect \/ SetupLost \/ SetupRejected \/ SetupAnswered \/ Receive \/ ReceiveLost
             \/ Left \/ Retry \/ Interrupted \/ Crash \/ ClockMoves \/ UNCHANGED vars
    BY <2>3 DEF Connect, SetupLost, SetupRejected, SetupAnswered, Receive, ReceiveLost, Left, Retry,
                Interrupted, Crash, ClockMoves, vars, writer
  <2>4. QED
    BY <2>1, <2>2, <2>3 DEF Next, RunsOn, Awaited
<1>2. QED
  BY <1>1 DEF EInv, Written

LEMMA EndInductive ==
    /\ Init => EInv
    /\ EInv /\ [Next]_vars => EInv'
<1>1. ASSUME Init PROVE EInv
  <2>1. CInv /\ Clocked
    BY <1>1, CaptureInductive, ClockedInductive
  <2>2. /\ session.now = 0 /\ session.records = <<>> /\ session.health = "starting"
        /\ clock \in Nat
    BY <1>1, CallsAssumption DEF Init, NewSession
  <2>3. Punctual /\ Over /\ Written
    BY <1>1, <2>2 DEF Init, Punctual, Over, Written
  <2>4. EndRecorded
    BY <2>2, SessionAssumption DEF EndRecorded, Terminal, TerminalHealth
  <2>5. QED
    BY <1>1, <2>1, <2>3, <2>4 DEF Init, EInv
<1>2. ASSUME EInv, [Next]_vars PROVE EInv'
  <2>1. CInv' /\ Clocked' /\ Over' /\ Written' /\ failures' \in Nat
    BY <1>2, CaptureInductive, ClockedInductive, OverKeeps, WrittenKeeps DEF EInv
  <2>2. CASE ClockMoves
    <3>1. /\ UNCHANGED <<session, phase, received>>
          /\ regressions' = regressions \/ regressions' = regressions + 1
          /\ regressions' = regressions => ~(clock' < clock)
      BY <1>2, <2>2 DEF ClockMoves, EInv
    <3>2. clock \in Nat /\ clock' \in Nat /\ (phase = "processing" => received \in Nat)
      BY <1>2, <2>1, CallsAssumption DEF EInv, Clocked
    <3>3. Punctual'
      BY <1>2, <3>1, <3>2 DEF EInv, Punctual
    <3>4. EndRecorded'
      BY <1>2, <3>1 DEF EInv, EndRecorded, Terminal
    <3>5. regressions' \in Nat
      BY <1>2, <3>1 DEF EInv
    <3>6. QED
      BY <2>1, <3>3, <3>4, <3>5 DEF EInv
  <2>3. CASE ~ClockMoves
    <3>1. clock' = clock /\ regressions' = regressions
      <4>1. CASE RunsOn
        BY <4>1 DEF RunsOn, ProcessPayload, RecordLoss, Exhaust, Failing, Closing, Close
      <4>2. CASE Awaited
        BY <4>2 DEF Awaited, Connect, SetupLost, SetupRejected, SetupAnswered, Subscribed,
                    ReceiveTimeout, MalformedFrame, Receive, ReceiveLost, Left, Retry
      <4>3. CASE Interrupted \/ Crash \/ UNCHANGED vars
        BY <4>3 DEF Interrupted, Crash, vars
      <4>4. QED
        BY <1>2, <2>3, <4>1, <4>2, <4>3 DEF Next
    <3>2. phase' = "processing" =>
              \/ phase = "processing" /\ received' = received
              \/ session' = session /\ received' = clock
      <4>1. CASE ProcessPayload
        BY <4>1 DEF ProcessPayload
      <4>2. CASE Receive
        BY <4>2 DEF Receive
      <4>3. CASE UNCHANGED vars
        BY <4>3 DEF vars
      <4>4. CASE \/ Subscribed \/ ReceiveTimeout \/ MalformedFrame \/ RecordLoss \/ Exhaust
                 \/ Failing \/ Closing
        BY <4>4 DEF Subscribed, ReceiveTimeout, MalformedFrame, RecordLoss, Exhaust, Failing,
                    Closing, Write
      <4>5. CASE \/ Connect \/ SetupLost \/ SetupRejected \/ SetupAnswered \/ ReceiveLost \/ Left
                 \/ Retry \/ Interrupted \/ Close \/ Crash
        BY <4>5 DEF Connect, SetupLost, SetupRejected, SetupAnswered, ReceiveLost, Left, Retry,
                    Interrupted, Close, Crash
      <4>6. QED
        BY <1>2, <2>3, <4>1, <4>2, <4>3, <4>4, <4>5 DEF Next, RunsOn, Awaited
    <3> DEFINE t == IF phase = "processing" THEN received ELSE clock
    <3>3. clock \in Nat /\ t \in Nat /\ (regressions = 0 => session.now <= t /\ t <= clock)
      <4>1. clock \in Nat /\ (phase = "processing" => received \in Nat)
        BY <1>2, CallsAssumption DEF EInv, Clocked
      <4>2. regressions = 0 => /\ session.now <= clock
                               /\ phase = "processing" => session.now <= received /\ received <= clock
        BY <1>2 DEF EInv, Punctual
      <4>3. QED
        BY <4>1, <4>2
    <3>4. /\ session.now' \in Nat /\ (regressions = 0 => session.now' <= t)
          /\ EndRecorded'
      <4>1. CASE UNCHANGED session
        BY <1>2, <3>1, <3>3, <4>1 DEF EInv, EndRecorded, Punctual, Terminal
      <4>2. CASE CallAt(t)
        BY <1>2, <3>1, <3>3, <4>2, CallKeepsEnd
      <4>3. QED
        BY <1>2, <4>1, <4>2, StepCalls DEF EInv, CInv
    <3>5. Punctual'
      BY <1>2, <3>1, <3>2, <3>3, <3>4 DEF Punctual, EInv
    <3>6. QED
      BY <1>2, <2>1, <3>1, <3>4, <3>5 DEF EInv
  <2>4. QED
    BY <2>2, <2>3
<1>3. QED
  BY <1>1, <1>2

\* A run that exits leaves a terminal session, and a capture that tells its end unless a
\* write failed, the clock was set back or the record bound was met: for any deadline,
\* frames and losses of the connection.
THEOREM ExitTerminal == Spec => []ExitIsTerminal
<1>1. ASSUME EInv PROVE ExitIsTerminal
  <2>1. SUFFICES ASSUME phase = "exited", failures = 0, regressions = 0,
                        Len(session.records) # MaximumRecords
                 PROVE  Terminal(session) /\ Status(Capture) # "incomplete"
    BY <1>1 DEF EInv, Over, ExitIsTerminal
  <2>2. Terminal(session)
    BY <1>1, <2>1 DEF EInv, Over
  <2>3. file = session.records /\ cut = FALSE
    BY <1>1, <2>1, ConcatEmptySeq DEF EInv, Written, CInv, CaptureIsTheRecords
  <2>4. file # <<>> /\ Last(file).action \in {"stopped", "failed"}
    BY <1>1, <2>1, <2>2, <2>3 DEF EInv, EndRecorded, Terminal, TerminalHealth
  <2>5. Status(Capture) \in {"complete_stopped", "complete_failed"}
    BY <2>3, <2>4 DEF Status, Capture
  <2>6. QED
    BY <2>2, <2>5
<1>2. QED
  BY <1>1, EndInductive, PTL DEF Spec
-----------------------------------------------------------------------------
\* Attempts are counted up to the last, after which there is no other.
Counted ==
    /\ attempt \in 0 .. Attempts - 1
    /\ phase = "backoff" => attempt < Attempts - 1

TInv == EInv /\ TypeOK /\ Counted

\* The control variables: phase, attempt, frame and the exception caught.
LEMMA ControlTyped ==
    ASSUME TInv, [Next]_vars
    PROVE  /\ phase' \in Phases /\ Counted'
           /\ (frame' # <<>>) = (phase' = "processing") \/ phase' = "crashed"
           /\ caught' \in {"none", "transport", "evidence", "application"}
<1>1. /\ phase \in Phases /\ attempt \in 0 .. Attempts - 1 /\ Attempts \in Nat \ {0}
      /\ (frame # <<>>) = (phase = "processing") \/ phase = "crashed"
      /\ caught \in {"none", "transport", "evidence", "application"}
      /\ phase = "backoff" => attempt < Attempts - 1
  BY StreamAssumption DEF TInv, TypeOK, Counted
<1>2. CASE ProcessPayload
  <2>1. /\ phase' \in {"processing", "receiving", "leaving"} /\ attempt' = attempt
        /\ frame' = IF phase' = "processing" THEN Tail(frame) ELSE <<>>
        /\ phase' = "processing" => Len(frame) # 1
    BY <1>2 DEF ProcessPayload, Write
  <2>2. phase' = "processing" => frame' # <<>>
    <3>1. frame \in Seq(Payloads) /\ frame # <<>>
      BY <1>2 DEF ProcessPayload, TInv, EInv, Clocked
    <3>2. Len(frame) \in Nat /\ Tail(frame) \in Seq(Payloads) /\ Len(Tail(frame)) = Len(frame) - 1
      BY <3>1, HeadTailProperties, LenProperties
    <3>3. Tail(frame) = <<>> => Len(frame) = 1
      BY <3>2, EmptySeq
    <3>4. QED
      BY <2>1, <3>3
  <2>3. caught' \in {caught, "evidence", "application"}
    BY <1>2 DEF ProcessPayload, CaughtIn
  <2>4. QED
    BY <1>1, <2>1, <2>2, <2>3 DEF Phases, AwaitPhases, Counted
<1>3. CASE Subscribed \/ ReceiveTimeout \/ MalformedFrame
  <2>1. /\ phase \in {"subscribing", "receiving"} /\ phase' \in {"receiving", "leaving"}
        /\ attempt' = attempt /\ frame' = frame
    BY <1>3 DEF Subscribed, ReceiveTimeout, MalformedFrame, Write
  <2>2. caught' \in {caught, "evidence", "application"}
    BY <1>3 DEF Subscribed, ReceiveTimeout, MalformedFrame, CaughtIn
  <2>3. QED
    BY <1>1, <2>1, <2>2 DEF Phases, AwaitPhases, Counted
<1>4. CASE RecordLoss
  <2>1. /\ phase = "lost" /\ attempt' = attempt /\ frame' = frame /\ caught' = caught
        /\ phase' \in {"exhausted", "backoff", "failing"}
        /\ phase' = "backoff" => attempt # Attempts - 1
    BY <1>4 DEF RecordLoss, Write
  <2>2. QED
    BY <1>1, <2>1 DEF Phases, AwaitPhases, Counted
<1>5. CASE Exhaust \/ Failing \/ Closing \/ Close
  <2>1. /\ phase \in {"exhausted", "failing", "closing", "ended"}
        /\ phase' \in {"closing", "failing", "ended", "exited"}
        /\ attempt' = attempt /\ frame' = frame /\ caught' = caught
    BY <1>5 DEF Exhaust, Failing, Closing, Close, Write
  <2>2. QED
    BY <1>1, <2>1 DEF Phases, Counted
<1>6. CASE Receive
  <2>1. PICK f \in Frames : frame' = f
    BY <1>6 DEF Receive
  <2>2. phase' = "processing" /\ attempt' = attempt /\ caught' = caught /\ frame' # <<>>
    BY <1>6, <2>1, FramesArePayloads DEF Receive
  <2>3. QED
    BY <1>1, <2>2 DEF Phases, Counted
<1>7. CASE \/ Connect \/ SetupLost \/ SetupRejected \/ SetupAnswered \/ ReceiveLost \/ Left
  <2>1. /\ phase \in {"connecting", "receiving", "leaving"} \cup Setup
        /\ phase' \in {"lost", "failing", "leaving"} \cup Setup
        /\ attempt' = attempt /\ frame' = frame
        /\ caught' \in {caught, "transport", "application"}
    BY <1>7 DEF Connect, SetupLost, SetupRejected, SetupAnswered, ReceiveLost, Left, Setup
  <2>2. QED
    BY <1>1, <2>1 DEF Phases, AwaitPhases, Setup, Counted
<1>8. CASE Retry
  BY <1>1, <1>8 DEF Retry, Phases, AwaitPhases, Counted
<1>9. CASE Interrupted \/ Crash
  <2>1. /\ phase' = "crashed" \/ (phase' = "closing" /\ phase \in AwaitPhases)
        /\ attempt' = attempt /\ frame' = frame /\ caught' = caught
    BY <1>9 DEF Interrupted, Crash
  <2>2. QED
    BY <1>1, <2>1 DEF Phases, AwaitPhases, Setup, Counted
<1>10. CASE ClockMoves \/ UNCHANGED vars
  BY <1>1, <1>10 DEF ClockMoves, vars, Counted
<1>11. QED
  BY <1>2, <1>3, <1>4, <1>5, <1>6, <1>7, <1>8, <1>9, <1>10 DEF Next, RunsOn, Awaited

\* The data: the clock, the receipt of a frame, and the capture with its bounds.
LEMMA DataTyped ==
    ASSUME TInv, [Next]_vars
    PROVE  /\ received' \in Times \cup {0} /\ cut' \in BOOLEAN
           /\ failures' \in 0 .. MaxFailures /\ regressions' \in 0 .. MaxRegressions
<1>1. /\ clock \in Times /\ received \in Times \cup {0} /\ cut \in BOOLEAN
      /\ failures \in 0 .. MaxFailures /\ regressions \in 0 .. MaxRegressions
  BY DEF TInv, TypeOK
<1>2. received' = received \/ received' = clock
  BY DEF Next, RunsOn, Awaited, ProcessPayload, RecordLoss, Exhaust, Failing, Closing, Close,
         Connect, SetupLost, SetupRejected, SetupAnswered, Subscribed, ReceiveTimeout,
         MalformedFrame, Receive, ReceiveLost, Left, Retry, Interrupted, Crash, ClockMoves, vars
<1>3. \/ UNCHANGED <<cut, failures>>
      \/ cut' \in BOOLEAN /\ failures' = failures
      \/ cut' \in BOOLEAN /\ failures < MaxFailures /\ failures' = failures + 1
  <2>1. CASE \/ Subscribed \/ ReceiveTimeout \/ MalformedFrame \/ ProcessPayload \/ RecordLoss
             \/ Exhaust
    BY <2>1 DEF Subscribed, ReceiveTimeout, MalformedFrame, ProcessPayload, RecordLoss, Exhaust,
                Write, Flushed, FlushFailed, writer
  <2>2. CASE Failing \/ Closing \/ Close
    BY <2>2 DEF Failing, Closing, Close, Write, Flushed, FlushFailed, writer
  <2>3. CASE \/ Connect \/ SetupLost \/ SetupRejected \/ SetupAnswered \/ Receive \/ ReceiveLost
             \/ Left \/ Retry \/ Interrupted \/ Crash \/ ClockMoves \/ UNCHANGED vars
    BY <2>3 DEF Connect, SetupLost, SetupRejected, SetupAnswered, Receive, ReceiveLost, Left, Retry,
                Interrupted, Crash, ClockMoves, vars, writer
  <2>4. QED
    BY <2>1, <2>2, <2>3 DEF Next, RunsOn, Awaited
<1>4. \/ regressions' = regressions
      \/ regressions < MaxRegressions /\ regressions' = regressions + 1
  <2>1. CASE ClockMoves
    BY <1>1, <2>1 DEF ClockMoves
  <2>2. CASE ~ClockMoves
    BY <2>2 DEF Next, RunsOn, Awaited, ProcessPayload, RecordLoss, Exhaust, Failing, Closing, Close,
         Connect, SetupLost, SetupRejected, SetupAnswered, Subscribed, ReceiveTimeout,
         MalformedFrame, Receive, ReceiveLost, Left, Retry, Interrupted, Crash, vars
  <2>3. QED
    BY <2>1, <2>2
<1>5. MaxFailures \in Nat /\ MaxRegressions \in Nat
  BY StreamAssumption
<1>6. QED
  BY <1>1, <1>2, <1>3, <1>4, <1>5

\* Every variable keeps its type, and the records their bound.
THEOREM StreamTypeOK == Spec => []TypeOK
<1>1. Init => TInv
  <2>1. ASSUME Init PROVE EInv
    BY <2>1, EndInductive
  <2>2. ASSUME Init PROVE TypeOK /\ Counted
    <3>1. /\ Attempts \in Nat \ {0} /\ MaximumRecords \in Nat
          /\ MaxFailures \in Nat /\ MaxRegressions \in Nat
      BY StreamAssumption, SessionAssumption
    <3>2. /\ session.health = "starting" /\ session.connected = FALSE /\ session.records = <<>>
      BY <2>2 DEF Init, NewSession
    <3>3. Len(session.records) <= MaximumRecords
      BY <3>1, <3>2
    <3>4. Typed(session)
      BY <3>2 DEF Typed, FeedHealth
    <3>5. /\ phase = "connecting" /\ phase \in Phases
          /\ (frame # <<>>) = (phase = "processing") \/ phase = "crashed"
      BY <2>2 DEF Init, Phases, AwaitPhases
    <3>6. Counted
      BY <2>2, <3>1, <3>5 DEF Init, Counted
    <3>7. /\ clock \in Times /\ received \in Times \cup {0} /\ cut \in BOOLEAN
          /\ caught \in {"none", "transport", "evidence", "application"}
      BY <2>2 DEF Init
    <3>8. failures = 0 /\ regressions = 0
      BY <2>2 DEF Init
    <3>9. failures \in 0 .. MaxFailures /\ regressions \in 0 .. MaxRegressions
      BY <3>1, <3>8
    <3>10. QED
      BY <3>3, <3>4, <3>5, <3>6, <3>7, <3>9 DEF TypeOK, Typed, Counted
  <2>3. QED
    BY <2>1, <2>2 DEF TInv
<1>2. ASSUME TInv, [Next]_vars PROVE TInv'
  <2>1. EInv'
    BY <1>2, EndInductive DEF TInv
  <2>2. Typed(session)'
    <3>1. Typed(session) /\ IsSession(session)
      BY <1>2 DEF TInv, TypeOK, Typed, EInv, CInv
    <3>2. ASSUME NEW t, CallAt(t) PROVE Typed(session)'
      <4>1. PICK after : CalledAt(session, after, t) /\ session' = after
        BY <3>2 DEF CallAt, WriteOf, Write
      <4>2. QED
        BY <3>1, <4>1 DEF CalledAt, Typed
    <3>3. QED
      BY <1>2, <3>1, <3>2, StepCalls DEF Typed
  <2>3. TypeOK'
    BY <1>2, <2>1, <2>2, ControlTyped, DataTyped
    DEF TypeOK, Typed, EInv, EndRecorded, Clocked, Counted
  <2>4. QED
    BY <1>2, <2>1, <2>3, ControlTyped DEF TInv
<1>3. TInv => TypeOK
  BY DEF TInv
<1>4. QED
  BY <1>1, <1>2, <1>3, PTL DEF Spec

-----------------------------------------------------------------------------

\* Every step of the run is one call of the session, or none.
LEMMA StepIsCall ==
    ASSUME Clocked, [Next]_vars
    PROVE  [CallsNext]_callsVars
<1>1. ASSUME NEW action \in Controls, NEW t \in Times, session' = Control(session, action, t)
      PROVE  CallsNext
  BY <1>1 DEF CallsNext, DoControl
<1>2. ASSUME NEW t \in Times, session' = Invalid(session, t)
      PROVE  CallsNext
  BY <1>2 DEF CallsNext, DoInvalid
<1>3. CASE \/ Subscribed \/ ReceiveTimeout \/ RecordLoss \/ Exhaust \/ Failing \/ Closing
  <2>1. \/ session' = session
        \/ \E action \in Controls : session' = Control(session, action, clock)
    BY <1>3 DEF Subscribed, ReceiveTimeout, RecordLoss, Exhaust, Failing, Closing, Write, Controls
  <2>2. QED
    BY <1>1, <2>1 DEF Clocked, callsVars
<1>4. CASE MalformedFrame
  BY <1>2, <1>4 DEF MalformedFrame, Write, Clocked
<1>5. CASE ProcessPayload
  <2> DEFINE p == Head(frame)
             o == Translated(p)
  <2>1. /\ received \in Times
        /\ \/ session' = Control(session, "failed", received)
           \/ session' = Invalid(session, received)
           \/ o # None /\ session' = Accept(session, o)
    BY <1>5 DEF ProcessPayload, Write, Clocked
  <2>2. CASE o # None /\ session' = Accept(session, o)
    <3>1. p \in Payloads
      BY <1>5, HeadTailProperties DEF ProcessPayload, Clocked
    <3>2. o \in Observations
      BY <2>1, <2>2, <3>1, TranslatedIsObserved DEF Translated
    <3> HIDE DEF o
    <3>3. QED
      BY <2>2, <3>2 DEF CallsNext, DoAccept
  <2>3. QED
    BY <1>1, <1>2, <2>1, <2>2 DEF Controls
<1>6. CASE \/ Connect \/ SetupLost \/ SetupRejected \/ SetupAnswered \/ Receive \/ ReceiveLost
           \/ Left \/ Retry \/ Interrupted \/ Crash \/ ClockMoves \/ Close \/ UNCHANGED vars
  BY <1>6 DEF Connect, SetupLost, SetupRejected, SetupAnswered, Receive, ReceiveLost, Left, Retry,
              Interrupted, Crash, ClockMoves, Close, vars, callsVars
<1>7. QED
  BY <1>3, <1>4, <1>5, <1>6 DEF Next, RunsOn, Awaited

\* A live run calls its session as ShadowCalls says: what holds of a session under any
\* calls holds of the session of a run. Code: the calls of the session in consume and
\* run_live.
THEOREM LiveRunCalls == Spec => CallsSpec
<1>1. Init => CallsInit
  BY DEF Init, CallsInit
<1>2. QED
  BY <1>1, StepIsCall, ClockedInductive, PTL DEF Spec, CallsSpec

LEMMA LiveSession == Spec => []SInv
BY LiveRunCalls, SessionInvariance, PTL

-----------------------------------------------------------------------------
\* A session taken down keeps its form.
LEMMA DownKeeps ==
    ASSUME NEW c, IsSession(c), NEW action
    PROVE  LET down == [c EXCEPT !.connected = FALSE, !.health = action] IN
           IsSession(down) /\ down.health = action
<1> DEFINE d == [c EXCEPT !.connected = FALSE]
           e == [d EXCEPT !.health = action]
<1>0. ASSUME NEW v PROVE IsSession([c EXCEPT !.connected = v])
  BY DEF IsSession
<1>1. IsSession(d)
  BY <1>0
<1> HIDE DEF d
<1>2. IsSession(e) /\ e.health = action
  BY <1>1 DEF IsSession
<1>3. QED
  BY <1>2 DEF d

\* Only the control "stopped" stops a session that is not stopped.
LEMMA OnlyStopStops ==
    ASSUME NEW s, IsSession(s), Typed(s), s.health # "stopped"
    PROVE  /\ \A action \in Controls \ {"stopped"} : \A t : Control(s, action, t).health # "stopped"
           /\ \A t : Invalid(s, t).health # "stopped"
           /\ \A o : Accept(s, o).health # "stopped"
<1>1. ASSUME NEW c, IsSession(c), c.health # "stopped"
      PROVE  Refresh(c).health # "stopped" /\ IsSession(Refresh(c))
  BY <1>1, RefreshKeeps DEF Refresh, IsSession
<1>2. ASSUME NEW t
      PROVE  IsSession(Advance(s, t)) /\ Advance(s, t).health # "stopped"
  BY AdvanceKeeps
<1>3. ASSUME NEW c, IsSession(c), c.health # "stopped", NEW action, NEW disposition, NEW o, NEW derived
      PROVE  Recorded(c, action, disposition, o, derived).health # "stopped"
  BY <1>3, RecordedAppends
<1>4. ASSUME NEW action \in Controls \ {"stopped"}, NEW t
      PROVE  Control(s, action, t).health # "stopped"
  <2> DEFINE c == Advance(s, t)
             up == [c EXCEPT !.connected = @ \/ action = "connected"]
             down == [c EXCEPT !.connected = FALSE, !.health = action]
  <2>1. IsSession(c) /\ c.health # "stopped" /\ c.connected \in BOOLEAN
    BY <1>2, AdvanceKeeps DEF Typed
  <2> HIDE DEF c
  <2>2. IsSession(up) /\ up.health # "stopped" /\ IsSession(down) /\ down.health # "stopped"
    <3>1. IsSession(up) /\ up.health = c.health
      BY <2>1 DEF IsSession
    <3>2. IsSession(down) /\ down.health = action
      BY <2>1, DownKeeps
    <3>3. QED
      BY <1>4, <2>1, <3>1, <3>2
  <2>3. \/ Control(s, action, t) = c
        \/ Control(s, action, t) = Recorded(Refresh(up), action, action, None, NothingDerived)
        \/ Control(s, action, t) = Recorded(down, action, action, None, NothingDerived)
    BY DEF Control, c
  <2> HIDE DEF up, down
  <2>4. QED
    BY <1>1, <1>3, <2>1, <2>2, <2>3
<1>5. ASSUME NEW t PROVE Invalid(s, t).health # "stopped"
  BY <1>1, <1>2, <1>3 DEF Invalid
<1>6. ASSUME NEW o PROVE Accept(s, o).health # "stopped"
  <2> DEFINE c == Advance(s, o.received)
             disposition == Disposition(c, o)
             d == IF disposition = "accepted" THEN Kept(c, o) ELSE c
             derived == IF disposition = "accepted" THEN Derive(d, o) ELSE NothingDerived
  <2>1. IsSession(c) /\ c.health # "stopped"
    BY <1>2
  <2>2. IsSession(d) /\ d.health # "stopped"
    BY <2>1, KeptKeeps
  <2>3. [c EXCEPT !.health = "failed"].health = "failed"
    BY <2>1 DEF IsSession
  <2>4. \/ Accept(s, o) = c
        \/ Accept(s, o) = [c EXCEPT !.health = "failed"]
        \/ Accept(s, o) = Recorded(Refresh(d), "observation", disposition, o, derived)
    BY DEF Accept
  <2> HIDE DEF c, d, disposition, derived
  <2>5. QED
    BY <1>1, <1>3, <2>1, <2>2, <2>3, <2>4
<1>7. QED
  BY <1>4, <1>5, <1>6

Silent == {"ended", "exited", "crashed"}

\* A run that is stopped is over, and the session has the end that a record tells.
EndsAsTold ==
    /\ session.health = "stopped" => phase \in Silent
    /\ \A n \in DOMAIN Records : Records[n].action \in TerminalHealth =>
          session.health = Records[n].action

LEMMA SilentRemains ==
    ASSUME phase \in Silent, [Next]_vars
    PROVE  session' = session /\ phase' \in Silent
BY DEF Silent, Next, RunsOn, Awaited, ProcessPayload, RecordLoss, Exhaust, Failing, Closing, Close,
       Connect, SetupLost, SetupRejected, SetupAnswered, Subscribed, ReceiveTimeout, MalformedFrame,
       Receive, ReceiveLost, Left, Retry, Interrupted, Crash, ClockMoves, AwaitPhases, Setup, vars

LEMMA StoppedOnlyAtTheEnd ==
    ASSUME IsSession(session), Typed(session), [Next]_vars, session.health # "stopped"
    PROVE  session'.health = "stopped" => phase' \in Silent
<1>1. CASE Closing
  <2>1. phase' = "ended"
    BY <1>1 DEF Closing, Write
  <2>2. QED
    BY <2>1 DEF Silent
<1>2. CASE \/ Subscribed \/ ReceiveTimeout \/ RecordLoss \/ Exhaust \/ Failing
  <2>1. \/ session' = session
        \/ \E action \in Controls \ {"stopped"} : session' = Control(session, action, clock)
    BY <1>2 DEF Subscribed, ReceiveTimeout, RecordLoss, Exhaust, Failing, Write, Controls
  <2>2. QED
    BY <2>1, OnlyStopStops
<1>3. CASE MalformedFrame
  BY <1>3, OnlyStopStops DEF MalformedFrame, Write
<1>4. CASE ProcessPayload
  <2>1. \/ session' = Control(session, "failed", received)
        \/ session' = Invalid(session, received)
        \/ \E o : session' = Accept(session, o)
    BY <1>4 DEF ProcessPayload, Write
  <2>2. QED
    BY <2>1, OnlyStopStops DEF Controls
<1>5. CASE \/ Connect \/ SetupLost \/ SetupRejected \/ SetupAnswered \/ Receive \/ ReceiveLost
           \/ Left \/ Retry \/ Interrupted \/ Crash \/ ClockMoves \/ Close \/ UNCHANGED vars
  BY <1>5 DEF Connect, SetupLost, SetupRejected, SetupAnswered, Receive, ReceiveLost, Left, Retry,
              Interrupted, Crash, ClockMoves, Close, vars
<1>6. QED
  BY <1>1, <1>2, <1>3, <1>4, <1>5 DEF Next, RunsOn, Awaited

LEMMA EndsInductive ==
    /\ Init => EndsAsTold
    /\ SInv /\ EndsAsTold /\ Clocked /\ [Next]_vars => EndsAsTold'
<1>1. ASSUME Init PROVE EndsAsTold
  BY <1>1, NewSessionWellFormed DEF Init, EndsAsTold, Records, NewSession
<1>2. ASSUME SInv, EndsAsTold, Clocked, [Next]_vars PROVE EndsAsTold'
  <2>1. CASE session' = session
    <3>1. session.health = "stopped" => phase' \in Silent
      BY <1>2, SilentRemains DEF EndsAsTold
    <3>2. QED
      BY <1>2, <2>1, <3>1 DEF EndsAsTold, Records
  <2>2. CASE session' # session
    <3>1. session.health # "stopped"
      BY <1>2, <2>2, SilentRemains DEF EndsAsTold
    <3>2. session'.health = "stopped" => phase' \in Silent
      BY <1>2, <3>1, StoppedOnlyAtTheEnd DEF SInv, WellFormed
    <3>3. CallMakes(session, session')
      BY <1>2, <2>2, StepIsCall, StepMakesCall DEF SInv, callsVars
    <3>4. CASE Quiet(session, session')
      <4>1. session'.records = session.records /\ session'.health \in {session.health, "failed"}
        BY <3>4 DEF Quiet
      <4>2. \A n \in DOMAIN Records : Records[n].action \in TerminalHealth =>
               session.health = Records[n].action /\ Records[n].action = "failed"
        BY <1>2, <3>1 DEF EndsAsTold, TerminalHealth
      <4>3. QED
        BY <3>2, <4>1, <4>2 DEF EndsAsTold, Records
    <3>5. ASSUME NEW d, NEW e, Writes(session, session', d, e) PROVE EndsAsTold'
      <4>1. /\ ~Terminal(session) /\ Records' = Append(Records, e)
            /\ session'.health = e.health
            /\ e.action \in TerminalHealth => e.health = e.action
        BY <3>5, WritesFields DEF Writes, Records
      <4>2. /\ DOMAIN Append(Records, e) = 1 .. Len(Records) + 1 /\ Len(Records) \in Nat
            /\ DOMAIN Records = 1 .. Len(Records) /\ Append(Records, e)[Len(Records) + 1] = e
            /\ \A n \in 1 .. Len(Records) : Append(Records, e)[n] = Records[n]
        BY <1>2, OneMoreRecord DEF SInv
      <4>3. \A n \in 1 .. Len(Records) : Records[n].action \notin TerminalHealth
        BY <1>2, <4>1, <4>2 DEF EndsAsTold, Terminal
      <4>4. \A n \in 1 .. Len(Records) + 1 :
               n = Len(Records) + 1 \/ n \in 1 .. Len(Records)
        BY <4>2
      <4>5. \A n \in DOMAIN Records' : Records'[n].action \in TerminalHealth => n = Len(Records) + 1
        BY <4>1, <4>2, <4>3, <4>4
      <4>6. Records'[Len(Records) + 1] = e
        BY <4>1, <4>2
      <4>7. \A n \in DOMAIN Records' : Records'[n].action \in TerminalHealth =>
               session'.health = Records'[n].action
        BY <4>1, <4>5, <4>6
      <4>8. QED
        BY <3>2, <4>7 DEF EndsAsTold
    <3>6. QED
      BY <3>3, <3>4, <3>5 DEF CallMakes
  <2>3. QED
    BY <2>1, <2>2
<1>3. QED
  BY <1>1, <1>2

\* At any moment, hence after a crash at any moment, what is in the file replays to itself,
\* and if it tells an end it is the end of the session. Code: verify_capture against the
\* records that run_live leaves, whatever writes failed.
THEOREM CaptureVerified == Spec => []CaptureVerifies
<1>1. ASSUME SInv, CInv, EndsAsTold PROVE CaptureVerifies
  <2> DEFINE n == Len(file)
             again == Replay(file)
  <2>1. PICK S : file \in Seq(S) /\ buffer \in Seq(S) /\ file \o buffer = session.records
    BY <1>1 DEF CInv, CaptureIsTheRecords
  <2>2. /\ n \in Nat /\ n <= Len(Records) /\ Len(Records) \in Nat /\ DOMAIN Records = 1 .. Len(Records)
        /\ \A i \in 1 .. n : Records[i] = file[i]
    BY <2>1, ConcatProperties, LenProperties DEF Records
  <2>3. SubSeq(Records, 1, n) = file
    BY <2>1, SubSeqOfConcat1, SubSeqFull DEF Records
  <2>4. Verifies(Records, n)
    BY <1>1, <2>2 DEF SInv
  <2>5. /\ again.records = file
        /\ n # 0 /\ file[n].action \in TerminalHealth =>
              again.health = file[n].action /\ session.health = file[n].action
    <3>1. again.records = file /\ (n # 0 => Records[n] = file[n] /\ n \in DOMAIN Records)
      <4>1. n # 0 => n \in 1 .. n /\ n \in 1 .. Len(Records)
        BY <2>2
      <4>2. again.records = file
        BY <2>3, <2>4 DEF Verifies
      <4> HIDE DEF again, n
      <4>3. QED
        BY <2>2, <4>1, <4>2
    <3>2. n # 0 /\ Records[n].action \in TerminalHealth => again.health = Records[n].action
      BY <2>3, <2>4 DEF Verifies
    <3>3. n # 0 /\ Records[n].action \in TerminalHealth => session.health = Records[n].action
      BY <1>1, <3>1 DEF EndsAsTold
    <3> HIDE DEF again, n
    <3>4. QED
      BY <3>1, <3>2, <3>3
  <2>6. file # <<>> => n # 0
    BY <2>1, EmptySeq
  <2> HIDE DEF again, n
  <2>7. /\ Status(Capture) = "complete_stopped" => n # 0 /\ file[n].action = "stopped"
        /\ Status(Capture) = "complete_failed" => n # 0 /\ file[n].action = "failed"
    BY <2>6 DEF Status, Capture, Last, n
  <2>8. QED
    BY <2>5, <2>7 DEF CaptureVerifies, Verified, Capture, TerminalHealth, again
<1>2. QED
  BY <1>1, LiveSession, CaptureInductive, ClockedInductive, EndsInductive, PTL DEF Spec
=============================================================================
