----------------------------- MODULE LiveStream -----------------------------
(***************************************************************************)
(* run_live and consume (src/src/shadow/adapters/alpaca/stream.py): the    *)
(* bounded live run. It connects at most Attempts times, records what it   *)
(* receives in a session and writes every record to the capture at once.   *)
(* The phases are the places where the coroutine is suspended or where an  *)
(* exception has got to; what happens between two of them runs without     *)
(* being suspended.                                                        *)
(***************************************************************************)
EXTENDS ShadowCalls

CONSTANTS
    Attempts,        \* connections tried, range(4) in attempts
    Frames,          \* what may be received: sequences of payloads
    MaxFailures,     \* bound: writes to the capture that fail
    MaxRegressions   \* bound: times the clock is set back

\* translate: a payload [kind, instrument, time, value, reference] received at time t as
\* an observation, or None if it is neither a bar nor a quote, of no configured
\* instrument, or ends after its receipt.
TranslatedAt(p, t) ==
    IF p.kind \notin Kinds \/ p.instrument \notin Instruments \/ p.time > t THEN None
    ELSE [kind |-> p.kind, instrument |-> p.instrument, time |-> p.time,
          received |-> t, value |-> p.value, reference |-> p.reference]

\* A frame is what decode_frame lets pass: a list that is not empty. The times of the
\* calls are those of the clock, and what may be delivered is what translate gives.
ASSUME StreamAssumption ==
    /\ Attempts \in Nat \ {0}
    /\ MaxFailures \in Nat /\ MaxRegressions \in Nat
    /\ \A f \in Frames :
          /\ f \in Seq(Range(f)) /\ f # <<>>
          /\ \A p \in Range(f), t \in Times : TranslatedAt(p, t) \in Observations \cup {None}

VARIABLES
    clock,        \* datetime.now(UTC)
    phase,        \* where the coroutine is
    attempt,      \* the attempt it is in, from 0
    frame,        \* the payloads of the frame being processed
    received,     \* when that frame was received
    caught,       \* the last exception that ended an attempt
    file,         \* the whole lines in the capture
    cut,          \* whether a part of another line follows them
    buffer,       \* the lines that the text file still holds back
    failures,     \* writes that failed so far
    regressions   \* times the clock was set back so far

writer == <<file, cut, buffer, failures>>
vars == <<session, clock, phase, attempt, frame, received, caught, writer, regressions>>

\* The phases in which the coroutine waits, under the deadline of run_live. Leaving is
\* the closing handshake of the connection, after consume has raised.
Setup == {"greeting", "authenticating", "subscribing"}
\* Mutant: the deadline covers the connecting and the setup only.
AwaitPhasesSetupOnly == {"connecting"} \cup Setup
AwaitPhases == {"connecting", "receiving", "leaving", "backoff"} \cup Setup

Init ==
    /\ session = NewSession /\ clock \in Times
    /\ phase = "connecting" /\ attempt = 0
    /\ frame = <<>> /\ received = 0 /\ caught = "none"
    /\ file = <<>> /\ cut = FALSE /\ buffer = <<>>
    /\ failures = 0 /\ regressions = 0

-----------------------------------------------------------------------------
\* A flush that gets through writes all that was held back.
Flushed(pending) == file' = file \o pending /\ cut' = FALSE /\ buffer' = <<>>

\* Mutant: what a failed flush did not write is forgotten.
FlushFailedForgets(pending) ==
    \E n \in 0 .. Len(pending) - 1 :
        /\ file' = file \o SubSeq(pending, 1, n)
        /\ cut' = FALSE
        /\ buffer' = <<>>

\* A flush that fails may have written some lines and a part of the next; the file
\* object keeps the rest for the next flush.
FlushFailed(pending) ==
    \E n \in 0 .. Len(pending) - 1 :
        /\ file' = file \o SubSeq(pending, 1, n)
        /\ cut' \in BOOLEAN /\ (n = 0 /\ cut => cut')
        /\ buffer' = SubSeq(pending, n + 1, Len(pending))

\* writer.write(session.<call>(...)), after is the session after the call: on to next,
\* to raised if the call raises, to unwritten if the write does.
Write(after, next, raised, unwritten) ==
    /\ session' = after
    /\ IF after.records = session.records
       THEN phase' = raised /\ UNCHANGED writer
       ELSE LET pending == Append(buffer, Last(after.records)) IN
            \/ phase' = next /\ Flushed(pending) /\ UNCHANGED failures
            \/ /\ failures < MaxFailures /\ failures' = failures + 1
               /\ phase' = unwritten /\ FlushFailed(pending)

\* What a write in consume that leads to phase p amounts to: an OSError of the writer is
\* caught together with those of the transport.
CaughtIn(p) == caught' = IF p # "leaving" THEN caught
                         ELSE IF failures' # failures THEN "evidence" ELSE "application"

-----------------------------------------------------------------------------
\* connect: it succeeds, fails in the transport, or fails otherwise.
Connect ==
    /\ phase = "connecting"
    /\ \/ phase' = "greeting" /\ UNCHANGED caught
       \/ phase' = "lost" /\ caught' = "transport"
       \/ phase' = "failing" /\ caught' = "application"
    /\ UNCHANGED <<session, clock, attempt, frame, received, writer, regressions>>

\* A setup answer does not come, or the connection closes.
SetupLost ==
    /\ phase \in Setup
    /\ phase' = "leaving" /\ caught' = "transport"
    /\ UNCHANGED <<session, clock, attempt, frame, received, writer, regressions>>

\* A setup answer is not the expected one.
SetupRejected ==
    /\ phase \in Setup
    /\ phase' = "leaving" /\ caught' = "application"
    /\ UNCHANGED <<session, clock, attempt, frame, received, writer, regressions>>

\* _expect is satisfied and the next request sent.
SetupAnswered ==
    /\ phase \in {"greeting", "authenticating"}
    /\ phase' = IF phase = "greeting" THEN "authenticating" ELSE "subscribing"
    /\ UNCHANGED <<session, clock, attempt, frame, received, caught, writer, regressions>>

\* The subscription is acknowledged exactly.
Subscribed ==
    /\ phase = "subscribing"
    /\ Write(Control(session, "connected", clock), "receiving", "leaving", "leaving")
    /\ CaughtIn(phase')
    /\ UNCHANGED <<clock, attempt, frame, received, regressions>>

\* Nothing was received for a second.
ReceiveTimeout ==
    /\ phase = "receiving"
    /\ Write(Control(session, "tick", clock), "receiving", "leaving", "leaving")
    /\ CaughtIn(phase')
    /\ UNCHANGED <<clock, attempt, frame, received, regressions>>

\* What was received is not a frame.
MalformedFrame ==
    /\ phase = "receiving"
    /\ Write(Invalid(session, clock), "receiving", "leaving", "leaving")
    /\ CaughtIn(phase')
    /\ UNCHANGED <<clock, attempt, frame, received, regressions>>

\* A frame is received.
Receive ==
    /\ phase = "receiving"
    /\ \E f \in Frames : frame' = f
    /\ phase' = "processing" /\ received' = clock
    /\ UNCHANGED <<session, clock, attempt, caught, writer, regressions>>

\* The connection closes.
ReceiveLost ==
    /\ phase = "receiving"
    /\ phase' = "leaving" /\ caught' = "transport"
    /\ UNCHANGED <<session, clock, attempt, frame, received, writer, regressions>>

Translated(p) == TranslatedAt(p, received)

\* One turn of the loop over a frame; the frame is gone if an exception ends it.
ProcessPayload ==
    /\ phase = "processing"
    /\ LET p == Head(frame)
           next == IF Len(frame) = 1 THEN "receiving" ELSE "processing"
       IN  IF p.kind = "error"
           THEN Write(Control(session, "failed", received), "leaving", "leaving", "leaving")
           ELSE IF Translated(p) = None
                THEN Write(Invalid(session, received), next, "leaving", "leaving")
                ELSE Write(Accept(session, Translated(p)), next, "leaving", "leaving")
    /\ frame' = IF phase' = "processing" THEN Tail(frame) ELSE <<>>
    /\ CaughtIn(phase')
    /\ UNCHANGED <<clock, attempt, received, regressions>>

-----------------------------------------------------------------------------
\* The connection is closed; attempts catches what was lost, run_live the rest.
Left ==
    /\ phase = "leaving"
    /\ phase' = IF caught \in {"transport", "evidence"} THEN "lost" ELSE "failing"
    /\ UNCHANGED <<session, clock, attempt, frame, received, caught, writer, regressions>>

\* Mutant: the session is not told that the connection is lost.
RecordLossSilently ==
    /\ phase = "lost"
    /\ phase' = IF attempt = Attempts - 1 THEN "exhausted" ELSE "backoff"
    /\ UNCHANGED <<session, clock, attempt, frame, received, caught, writer, regressions>>

\* The handler in attempts.
RecordLoss ==
    /\ phase = "lost"
    /\ Write(Control(session, "disconnected", clock),
             IF attempt = Attempts - 1 THEN "exhausted" ELSE "backoff", "failing", "failing")
    /\ UNCHANGED <<clock, attempt, frame, received, caught, regressions>>

\* The last attempt is lost.
Exhaust ==
    /\ phase = "exhausted"
    /\ Write(Control(session, "failed", clock), "closing", "failing", "failing")
    /\ UNCHANGED <<clock, attempt, frame, received, caught, regressions>>

\* The sleep between two attempts is over.
Retry ==
    /\ phase = "backoff"
    /\ phase' = "connecting" /\ attempt' = attempt + 1
    /\ UNCHANGED <<session, clock, frame, received, caught, writer, regressions>>

\* The deadline, or a cancellation, while the coroutine waits. A connection that is open
\* then still closes, for at most its close_timeout, which touches nothing of the state.
Interrupted ==
    /\ phase \in AwaitPhases
    /\ phase' = "closing"
    /\ UNCHANGED <<session, clock, attempt, frame, received, caught, writer, regressions>>

\* The handlers of run_live for what attempts did not catch.
Failing ==
    /\ phase = "failing"
    /\ IF Terminal(session)
       THEN phase' = "closing" /\ UNCHANGED <<session, writer>>
       ELSE Write(Control(session, "failed", clock), "closing", "closing", "closing")
    /\ UNCHANGED <<clock, attempt, frame, received, caught, regressions>>

\* Mutant: a run that was interrupted while it was disconnected is left as it is.
ClosingIfConnected ==
    /\ phase = "closing"
    /\ IF Terminal(session) \/ ~session.connected
       THEN phase' = "ended" /\ UNCHANGED <<session, writer>>
       ELSE Write(Control(session, "stopped", clock), "ended", "ended", "ended")
    /\ UNCHANGED <<clock, attempt, frame, received, caught, regressions>>

\* The finally clause of run_live.
Closing ==
    /\ phase = "closing"
    /\ IF Terminal(session)
       THEN phase' = "ended" /\ UNCHANGED <<session, writer>>
       ELSE Write(Control(session, "stopped", clock), "ended", "ended", "ended")
    /\ UNCHANGED <<clock, attempt, frame, received, caught, regressions>>

\* writer.close() in main: what is held back is flushed once more.
Close ==
    /\ phase = "ended"
    /\ phase' = "exited"
    /\ \/ Flushed(buffer) /\ UNCHANGED failures
       \/ failures < MaxFailures /\ failures' = failures + 1 /\ FlushFailed(buffer)
    /\ UNCHANGED <<session, clock, attempt, frame, received, caught, regressions>>

-----------------------------------------------------------------------------
\* The process is killed; what was held back is lost.
Crash ==
    /\ phase \notin {"exited", "crashed"}
    /\ phase' = "crashed"
    /\ UNCHANGED <<session, clock, attempt, frame, received, caught, writer, regressions>>

\* Time passes, or the system clock is set back.
ClockMoves ==
    /\ phase \notin {"exited", "crashed"}
    /\ \E t \in Times \ {clock} :
          /\ t < clock => regressions < MaxRegressions
          /\ clock' = t /\ regressions' = regressions + IF t < clock THEN 1 ELSE 0
    /\ UNCHANGED <<session, phase, attempt, frame, received, caught, writer>>

\* Steps that need nobody else: the coroutine runs on until it waits again.
RunsOn ==
    \/ ProcessPayload \/ RecordLoss \/ Exhaust \/ Failing \/ Closing \/ Close

\* Steps that wait for the network or a timer.
Awaited ==
    \/ Connect \/ SetupLost \/ SetupRejected \/ SetupAnswered \/ Subscribed
    \/ ReceiveTimeout \/ MalformedFrame \/ Receive \/ ReceiveLost \/ Left \/ Retry

Next == RunsOn \/ Awaited \/ Interrupted \/ Crash \/ ClockMoves

Spec == Init /\ [][Next]_vars

\* What runs on does, and the deadline comes at last to a coroutine that waits again and
\* again; nothing is assumed of the network.
LiveSpec == Spec /\ WF_vars(RunsOn) /\ SF_vars(Interrupted)

-----------------------------------------------------------------------------
Phases == AwaitPhases \cup {"processing", "lost", "exhausted", "failing", "closing", "ended",
                            "exited", "crashed"}

TypeOK ==
    /\ session.health \in FeedHealth /\ session.connected \in BOOLEAN
    /\ Len(session.records) <= MaximumRecords
    /\ clock \in Times /\ received \in Times \cup {0}
    /\ phase \in Phases /\ attempt \in 0 .. Attempts - 1
    /\ (frame # <<>>) = (phase = "processing") \/ phase = "crashed"
    /\ caught \in {"none", "transport", "evidence", "application"}
    /\ cut \in BOOLEAN
    /\ failures \in 0 .. MaxFailures /\ regressions \in 0 .. MaxRegressions

Capture == [lines |-> file, cut |-> cut]

\* The capture, with what is held back, is the records in their order: a failing write
\* neither loses nor repeats nor reorders one. Code: writer.write after every call of the
\* session, on every path of consume and run_live.
CaptureIsTheRecords == file \o buffer = session.records

\* What is in the file at any moment, hence after a crash at any moment, loads and
\* verifies, and it claims to be complete only if the run recorded that end. Code:
\* load_capture and verify_capture against what EvidenceWriter leaves behind.
CaptureVerifies ==
    /\ Verified(Capture)
    /\ Status(Capture) = "complete_stopped" => session.health = "stopped"
    /\ Status(Capture) = "complete_failed" => session.health = "failed"

\* A run that exits leaves a terminal session, and the capture says how it ended unless a
\* write failed or the session failed in a call that cannot be recorded: the clock was set
\* back or the record bound was met. Code: the handlers and the finally clause of run_live.
ExitIsTerminal ==
    phase = "exited" =>
        /\ Terminal(session)
        /\ \/ Status(Capture) # "incomplete"
           \/ failures > 0 \/ regressions > 0 \/ Len(session.records) = MaximumRecords

\* Between connections the session is disconnected, or starting before the first: nothing
\* received earlier makes it healthy, and no bar counts. Code: the handler in attempts is
\* the only place that tells the session that its connection was lost.
AwayIsDisconnected ==
    phase \in {"connecting", "backoff"} \cup Setup =>
        /\ ~session.connected
        /\ session.health = IF attempt = 0 /\ phase # "backoff" THEN "starting" ELSE "disconnected"

\* The adapter "reconnects only after transport loss" (docs/ARCHITECTURE.md:105). Code: the
\* except clause in attempts takes an OSError of the evidence file for one of the socket.
ReconnectsOnlyAfterTransportLoss ==
    [][attempt' # attempt => caught = "transport"]_vars

\* Every run ends, whatever the network does and however often the connection is lost and
\* found. Code: the deadline covers every wait, and nothing after it waits again.
EveryRunEnds == <>(phase \in {"exited", "crashed"})
=============================================================================
