-------------------------- MODULE EvidenceCapture --------------------------
(***************************************************************************)
(* The capture of a live session (src/src/shadow/application/evidence.py): *)
(* its records as the lines of a file, of which the last may be cut off.   *)
(* load_capture classifies it, verify_capture replays the inputs in it and *)
(* compares. The header line is taken as written.                          *)
(***************************************************************************)
EXTENDS ShadowSession, SequencesExt

\* Mutant: what was malformed is not replayed.
AgainWithoutInvalid(s, e) ==
    IF e.observation # None THEN Accept(s, e.observation)
    ELSE IF e.action = "observation" THEN s
    ELSE Control(s, e.action, e.time)

\* The record of a call as an input to a new session: what was called, with what.
Again(s, e) ==
    IF e.observation # None THEN Accept(s, e.observation)
    ELSE IF e.action = "observation" THEN Invalid(s, e.time)
    ELSE Control(s, e.action, e.time)

\* replay.
Replay(entries) == FoldLeft(Again, NewSession, entries)

\* load_capture. A capture is [lines, cut]: whole lines, then perhaps a part of one.
Status(capture) ==
    IF capture.cut \/ capture.lines = <<>> THEN "incomplete"
    ELSE CASE Last(capture.lines).action = "stopped" -> "complete_stopped"
           [] Last(capture.lines).action = "failed" -> "complete_failed"
           [] OTHER -> "incomplete"

\* verify_capture: the same records again, and the health that the status claims.
Verified(capture) ==
    LET again == Replay(capture.lines) IN
    /\ again.records = capture.lines
    /\ Status(capture) = "complete_stopped" => again.health = "stopped"
    /\ Status(capture) = "complete_failed" => again.health = "failed"
=============================================================================
