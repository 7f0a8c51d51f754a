---------------------------- MODULE ShadowCalls ----------------------------
(***************************************************************************)
(* A ShadowSession under any sequence of calls: any control, malformed     *)
(* input, and observations that come late, twice, with other content or    *)
(* with another reference, at clock times that may move backwards.         *)
(***************************************************************************)
EXTENDS EvidenceCapture

CONSTANTS
    Times,        \* the times of calls
    Observations  \* the observations that may be delivered, with their receipt

ASSUME CallsAssumption ==
    /\ Times \subseteq Nat
    /\ \A o \in Observations :
          o # None /\ o.kind \in Kinds /\ o.time \in Nat /\ o.received \in Times

VARIABLE session

callsVars == <<session>>

CallsInit == session = NewSession

DoControl ==
    \E action \in Controls \cup {"unknown"}, t \in Times : session' = Control(session, action, t)

DoInvalid == \E t \in Times : session' = Invalid(session, t)

DoAccept == \E o \in Observations : session' = Accept(session, o)

CallsNext == DoControl \/ DoInvalid \/ DoAccept

CallsSpec == CallsInit /\ [][CallsNext]_callsVars

-----------------------------------------------------------------------------
Records == session.records

IsAccepted(e) == e.disposition = "accepted"

\* A record joins what was accepted so far, of each kind and instrument.
Take(taken, e) ==
    IF IsAccepted(e) THEN [taken EXCEPT ![Key(e.observation)] = Append(@, e.observation)]
    ELSE taken

NothingTaken == [k \in Kinds \X Instruments |-> <<>>]

\* The observations of a kind and an instrument accepted in the first n records.
AcceptedBy(n, key) == FoldLeft(Take, NothingTaken, SubSeq(Records, 1, n))[key]

\* The session was connected when it wrote record n.
ConnectedAt(n) ==
    \E k \in 1 .. n :
        /\ Records[k].action = "connected"
        /\ \A j \in k .. n : Records[j].action \notin {"disconnected", "failed", "stopped"}

FailedUnrecorded == session.health = "failed" /\ (Records = <<>> \/ Last(Records).health # "failed")

\* The records alone tell the session: replaying them in a new one gives the same
\* records and, unless the session failed in a call that left no record, the same
\* state, except for a clock that was moved by a call that raised. Code: replay against
\* everything the three calls keep, on the paths that raise too.
ReplayReproduces ==
    LET again == Replay(Records) IN
    /\ again.records = Records
    /\ ~FailedUnrecorded => again = [session EXCEPT !.now = again.now]

\* Of one kind and instrument, observations are accepted in strictly increasing order of
\* their time: no redelivery, variant or late observation is accepted a second time.
\* Code: _seen and _latest in accept.
AcceptedOnceInOrder ==
    \A n \in DOMAIN Records : \A m \in 1 .. n - 1 :
        /\ IsAccepted(Records[m]) /\ IsAccepted(Records[n])
        /\ Key(Records[m].observation) = Key(Records[n].observation)
        => Records[m].observation.time < Records[n].observation.time

\* A feature is computed from the last accepted bars of its instrument, and a signal
\* only from a recent bar received while connected. Code: the rolling history of accept
\* across late and duplicate deliveries, and the freshness test before the strategy.
SignalsAreCurrent ==
    \A n \in DOMAIN Records :
        /\ Records[n].feature # <<>> =>
              Records[n].feature = LastOf(Window, AcceptedBy(n, Key(Records[n].observation)))
        /\ Records[n].signal =>
              /\ IsAccepted(Records[n]) /\ ConnectedAt(n)
              /\ Records[n].time - Records[n].observation.time <= MaximumBarAge

\* A record tells the evidence of its own time: it says healthy only while connected,
\* every instrument having a recent bar, and quote_ready only on a recent quote, both
\* the last ones accepted. Code: _refresh before every record and _quote_is_fresh, on
\* bars and quotes kept since earlier calls.
EvidenceIsCurrent ==
    LET Recent(n, key, age) ==
            LET past == AcceptedBy(n, key) IN
            past # <<>> /\ Records[n].time - Last(past).time <= age
    IN  \A n \in DOMAIN Records :
            /\ Records[n].health = "healthy" =>
                  /\ ConnectedAt(n)
                  /\ \A i \in Instruments : Recent(n, <<"bar", i>>, MaximumBarAge)
            /\ Records[n].risk = "quote_ready" =>
                  Recent(n, <<"quote", Records[n].observation.instrument>>, MaximumQuoteAge)

\* Nothing is recorded after a terminal record, and no record is ever changed. Code: the
\* terminal checks of the three calls, after the clock was moved.
TerminalIsFinal ==
    [][/\ IsPrefix(Records, Records') /\ Len(Records') <= Len(Records) + 1
       /\ Terminal(session) => Records' = Records /\ Terminal(session)']_callsVars
=============================================================================
