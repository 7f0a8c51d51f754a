# SHAD0W: TLA+ verification project

Formal models of the SHAD0W research and paper-trading codebase (`src/src/shadow`, Python).
Modules are TLA+, model-checked with TLC, and the central results are proved with TLAPS.

## 1. Inventory

| Component | Source | State it keeps | Operations | What makes it hard |
| --- | --- | --- | --- | --- |
| Risk evaluator | `risk/evaluator.py`, `risk/models.py` | none (pure) | `evaluate_risk` | four evidence clocks, inconsistent inventory, gate overlay |
| Risk gate | `risk/gate.py` | `_history`, `_reservations`, `_grants` | `admit`, `claim_for_dispatch` | many consumers, stale snapshots taken before the lock, retries, copies of grants, restart loses everything |
| Account owner | `execution/ownership.py` | lock file (flock, contents), `_fd`, `_pid`, `_journal_path`, `_closed` | `acquire`, `bind_journal_path`, `assert_held`, `close` | several processes, fork, crash between truncate and write, replaced lock file |
| Execution journal | `execution/journal.py` | SQLite file, identity row, connection | `create`, `reopen`, `assert_held`, `close` | crash between file creation, schema commit and binding |
| Source opportunity registry | `execution/opportunity.py` | `_bindings`: first binding per source key | constructors, `bind` | a bar delivered again in other words, or with other evidence |
| Client order identities | `adapters/alpaca/paper_identity.py` | `_by_client_order_id` | `derive_paper_client_order_identity`, `register` | digests cut short to an identifier may collide |
| Broker evidence contracts | `execution/broker.py` | none (validated values) | constructors, `Broker` port | answers of another request, contradictory rows, ambiguous errors |
| Fake broker | `execution/fake_broker.py` | script index, call log | port operations | off-script calls, replies to another request |
| Journal codec | `execution/journal_codec.py` | none (pure) | canonical encoding, digests | one number is written in many ways |
| Quote execution model | `execution/models.py` | none (pure) | `resolve_execution_attempt(s)` | causal quote choice, crossed and stale quotes fail closed |
| Timeline | `simulation/events.py`, `simulation/timeline.py` | pending proposals | `process_timeline` | equal-time ordering, strictly-later rule |
| Lifecycle | `simulation/lifecycle.py` | state, action and position per instrument | `process_lifecycle` | conflicts, redundant signals, unfilled attempts, no expiry |
| Simulation runner | `simulation/runner.py` | signals emitted so far | `run_simulation` | each decision replays the past; must agree with the final batch replay |
| Feature kernel, strategy | `features/kernel.py`, `strategies/mean_reversion.py` | trailing windows | `calculate_*`, `evaluate_mean_reversion` | availability is the maximum over the window |
| Market data validation | `data/validation.py`, `domain/market.py` | previous time, identities | `validate_bars`, `validate_quotes` | order and duplicates, on which the windows rely |
| Shadow session | `application/shadow.py` | health, connection, clock, records, histories, quotes, seen | `control`, `invalid`, `accept` | late, duplicate and out-of-order delivery, disconnects, record bound |
| Live stream | `adapters/alpaca/stream.py` | attempt number, socket phase | `consume`, `run_live` | reconnects, deadline cancellation at any await, failing writes |
| Evidence capture | `application/evidence.py` | append-only file | `write`, `load_capture`, `replay`, `verify_capture` | crash mid-line, replay must reproduce live state |
| Economics, evaluation | `execution/economics.py`, `evaluation/*` | none (pure) | `reconstruct_trades`, costs, manifests | pairing of fills from a trace alone, altered evidence |

### How the components interact

* **Research path.** Validated bars go through the feature kernel to features with an
  availability time; `run_simulation` picks one feature for each instrument and instant, replays
  the lifecycle over everything strictly earlier to learn the position, asks the strategy, and
  appends the signal. At the end timeline and lifecycle replay all events once more, and the quote
  execution model decides each attempt. `reconstruct_trades` then reads the trace once more, without
  the loop that wrote it, and pairs the fills into trades or refuses the run. Everything is a pure
  function of its input; what is hard is *time*: several events of one instant, evidence that
  arrives late, and many partial replays that have to agree with the final one.
* **Paper path.** A strategy signal becomes an `OrderIntent`; `RiskGate.admit` evaluates it under
  the gate's lock on a snapshot the caller read earlier, records the decision and reserves;
  `claim_for_dispatch` hands an authorized intent out once. `SourceOpportunityRegistry.bind` ties
  the intent to the bar it came from; the binding's identity gives a client order identifier, which
  `PaperClientIdentityRegistry.register` keeps unique; the identifier goes into a `SubmitRequest`,
  whose answer is a `SubmissionResult`. `ExecutionJournal.create` and `reopen` run under an
  `AccountOwner`, which holds a `flock` and the path of the account's only journal in one file. No
  code under `src/` joins gate, journal and broker yet.
* **Live path.** `run_live` connects at most four times under one deadline; `consume` turns every
  message into a call of a `ShadowSession`, whose record `EvidenceWriter` appends to the capture.
  A capture is loaded, replayed in a new session and compared line by line.

### What makes each component correct

| Component | Properties |
| --- | --- |
| Risk gate | one reservation per instrument and bounded entries whatever the snapshots; one dispatch per intent and gate; claims return what was granted under that token; decisions final |
| Gate and account | exposure within the limit although callers decide on old snapshots; fills open or close exactly; the kill switch and the first fill stop authorizations |
| Account owner | one valid owner; an owner keeps its lock; a synced binding stays |
| Execution journal | one journal per account; committed identities are never overwritten; the whole implements a lock with a write-once binding |
| Quote execution | no fill on an older quote than the newest legal one; an outcome changes for a cause only: its identifier is asked for again, or a quote arrives that is its new evidence |
| Registries and broker | an identifier and an opportunity name each other; a redelivery conflicts if it differs materially and only then; an acceptance is credited to the request it answers |
| Lifecycle | entries and exits take turns; conflicts are inert; no opportunity is skipped; it implements the position cycle |
| Trade reconstruction | it accounts for every fill of a trace once; no row of any table can be left out or have a field altered unnoticed, but the remark of an idle record and a quote of no outcome |
| Market data validation | what passes puts every feature on the window of the right bars |
| Runner | each decision sees the state of the final replay; every signal acts; later input changes no earlier decision |
| Shadow session | records alone reproduce the session; observations are accepted once and in order; signals, risk evidence and health are current; a terminal session stays terminal |
| Live stream, capture | capture and records agree at any crash; a run ends and says how; between connections the session is disconnected |

## 2. Modules

| Module | Models | Extends |
| --- | --- | --- |
| `RiskEvaluator` | `evaluate_risk` as a set of reasons | |
| `RiskGate` | `RiskGate`: `admit`, `claim_for_dispatch`, construction | `RiskEvaluator` |
| `RiskDesk` | callers, account, operator, clock around one gate | `RiskGate` |
| `RiskDeskProofs` | theorems about the gate, and about gate and account together | `RiskDesk` |
| `AccountLock` | *abstract*: one owner, a binding written once | |
| `AccountOwnership` | `AccountOwner`, system call by system call | |
| `ExecutionJournal` | `create`, `reopen`, `close` of the journal under the owner | `AccountOwnership`, implements `AccountLock` |
| `ExecutionJournalProofs` | theorems about owner and journal, and the refinement | `ExecutionJournal` |
| `QuoteExecution` | `resolve_execution_attempt(s)` | |
| `QuoteEvidence` | a batch of attempts resolved again while quotes arrive | `QuoteExecution` |
| `QuoteEvidenceProofs` | theorems about the choice of a quote | `QuoteEvidence` |
| `Lifecycle` | event order, eligible pairs, conflicts, what one event does | `QuoteExecution` |
| `PositionCycle` | *abstract*: flat, proposed, holding, proposed, flat | |
| `LifecycleReplay` | the loop of `process_lifecycle`, one event a step | `Lifecycle`, implements `PositionCycle` |
| `TradeReconstruction` | the records of the trace and `reconstruct_trades` | `LifecycleReplay` |
| `LifecycleReplayProofs` | theorems about the loop, and about the reader of its trace | `TradeReconstruction` |
| `MarketData` | `validate_bars` | |
| `Simulation` | `run_simulation` with kernel windows and the strategy | `Lifecycle`, `MarketData` |
| `SimulationProofs` | theorems about the decisions and the final replay | `Simulation` |
| `ShadowSession` | the three calls as operators on a session | |
| `EvidenceCapture` | `replay`, `load_capture`, `verify_capture` | `ShadowSession` |
| `ShadowCalls` | a session under any calls | `EvidenceCapture` |
| `LiveStream` | `run_live` and `consume` with the capture file | `ShadowCalls` |
| `LiveStreamProofs` | theorems about a session and its records, about the run, and that the run calls its session as `ShadowCalls` does | `LiveStream` |
| `JournalCodec` | the canonical form of a `Decimal` | |
| `SourceOpportunity` | bindings, their digests and identities | `JournalCodec` |
| `BrokerContracts` | what the constructors of requests, orders and results accept | |
| `PaperPath` | both registries and the scripted broker | `SourceOpportunity`, `BrokerContracts` |
| `PaperPathProofs` | theorems about canonical numbers and the way to an accepted order | `PaperPath` |
| `FoldLemmas` | how `FoldLeft` takes one element more; induction on numbers and sequences; sorted finite sets | |

Each `MC...` module gives one of them small constants. Operators that begin with "Mutant:" in
their comment are plausible bugs of the definition after them; no specification uses them, they
show that the properties can fail.

### How state and actions correspond to the code

* **RiskGate.** `history`, `reservations` are `_history`, `_reservations`; `_grants` is a view of
  `history` (`GrantRecords`). The `object()` token of an authorization is its place in `issued`,
  so copies share it and a later gate cannot repeat it. `admit` is `Decide` or `Retry`, one step
  because of the lock. A grant id keeps identity, payload and time of the decision it digests,
  which makes grants of two gates equal, as they may be in the code. `handed` is what callers got.
* **RiskDesk.** What surrounds the gate is assumed from the contract of `RiskState` and
  `OperatorControls`: a caller reads controls and account at different times, decides at an instant
  between its reading and now, and may use a snapshot for several intents. A reported order may be
  absent, the gate's own row, or a row under the broker's reference. Fills are complete; several
  fills of one order are left out.
* **AccountOwnership.** One step for each system call of `acquire`, `bind_journal_path` and
  `close`; `lock` belongs to an open file description that forked children share; `content` is
  what the page cache has and `durable` what was synced. A short write leaves `Torn`. A process
  has one owner object, and children do not fork again.
* **ExecutionJournal.** A path holds nothing, a bare file or a committed identity, of which the
  scope is kept. SQLite's transaction is one step that happens or rolls back.
* **Lifecycle, Simulation.** An event is a record; ids and instruments are ranks so that the
  code's order by strings is an order of numbers. An action is its signal. A z-score is `low`,
  `mid`, `high` or `none` at a bar; prices are left out. `FoldLeft` over the sorted events is the
  loop where a whole replay is one step.
* **PositionCycle.** The abstract cycle is told the instant at which each step happens and keeps
  those that have come (`reached`). The mapping gives it the instants of the events handled, so that
  the instant of a step is the effective time of the event that the loop handles in it, and an
  execution is of an event strictly later than the signal. That the instants come in order is part
  of what is refined.
* **ShadowSession.** A call is a function from session to session; one that raises changes the
  health and perhaps the clock and adds no record. `_quotes` is `latest` for quotes, `_seen` a set
  of observations with their references (0 is none). That a full window enters is whether the last
  close is below all others of it.
* **LiveStream.** `phase` is where the coroutine is suspended or an exception has got to. Between
  two awaits nothing else runs, so `ProcessPayload`, the handlers and `finally` are not
  interrupted. `leaving` is the closing handshake at the end of `async with`, in which the deadline
  may still fall. The same handshake after an interruption is not waited for here: it is bounded by
  `close_timeout` and touches neither session nor file, so a run may only last those seconds longer.
  `file`, `cut` and `buffer` are the lines written, a partial line after them, and
  what the text file holds back after a flush that failed. A cut line counts as partial even if
  only its newline is missing. A payload that `translate` refuses (no bar or quote, or of an
  instrument nobody subscribed) becomes `invalid`.
* **TradeReconstruction.** `records` has the `LifecycleRecord` of each event handled, built from the
  states before and after it; `header` is what a record repeats of its event. `Evidence` is the
  `SimulationResult`: events are in it twice, in the timeline and in its lifecycle, and final states,
  unresolved actions and open positions have tables of their own. A result carries attempts and
  outcomes twice as well, compares them and then uses one; here they are one table. References to
  sources are left out. `Reconstruct` is the whole function: the tables against one another
  (`Covered`), a turn for each record (`ReadNext`), what is left at the end against its tables
  (`Settled`). `Altered` is the evidence with one row of one of its ten tables left out or with a
  field set to something else; an altered event of a record is a record moved to another event.
* **MarketData.** A bar is what order, duplicates and scope depend on. `Simulation` starts from
  *supplies*, of which `validate_bars` refuses some; a refused supply ends the run.
* **PaperPath.** `bindings` is `_bindings`, `clients` is `_by_client_order_id`, `calls` is `_calls`;
  `held`, `named` and `results` are what a caller has been given. The dispatcher that calls these
  parts does not exist. Of it one thing is assumed: it registers the identities of bindings that
  `bind` returned. It may call in any order otherwise. A step of the broker's
  script shows only when a call takes it, and so it is chosen then. `ClientId` is any function of
  the identity, as a digest cut short may be; full SHA-256 digests are taken to be injective.
  `Restart` empties the registries, which live in memory, while the broker goes on. A `Decimal` is
  sign, digits and exponent as in `as_tuple`, so that equal numbers in different digits exist.

## 3. What TLC checks

| Run | Module | Shows | Bounds |
| --- | --- | --- | --- |
| `risk_gate` | `MCRiskGate` | `OneReservationPerInstrument`, `OneDispatchPerIntent`, `HandedAsGranted`, `FirstDecisionFinal` | two instruments, three identities with one re-proposed payload, five snapshots (empty, holding, own row, row of the broker, old), two times, one restart |
| `risk_desk` | `MCRiskDesk` | `ExposureWithinLimit`, `OpenOrCloseExactly`, `FillFreezesGate`, `KillSwitchFreezes` | one caller, room for one position, three instants, one throw of the switch |
| `execution_journal` | `MCExecutionJournal` | `OneBoundJournal`, `OneValidOwner`, `IdentityImmutable`, `BindingStable`, `ImplementsLock` | two processes, paths, scopes and descriptions, two lock files, one loss of power, forks, short writes |
| `forked_close` | `MCAccountOwnership` | *violation* of `LockRetained` | one lock file, children close |
| `unsynced_binding` | `MCExecutionJournal` | *violation* of `OneJournal` | one lock file, one loss of power, no forks and no short writes |
| `quote_evidence` | `MCQuoteEvidence` | `OlderQuoteNeverRescues`, `OutcomesChangeForCause` | three quotes of any age, crossed or not, two attempts |
| `lifecycle_replay` | `MCLifecycleReplay` | `TypeOK` (states agree), `FillsAlternate`, `ConflictsActOnNothing`, `NoOpportunitySkipped`, `PrefixStable`, `ReconstructionAccounts`, `AlterationsAreRefused`, `ImplementsCycle` | any six of fourteen events, any two of five quotes; every alteration of the evidence of up to four events |
| `simulation` | `MCSimulation` | `DecisionsSeeTheReplay`, `EverySignalActs`, `SignalsAreFreshAndAlternate`, `FutureRewritesNothing` | four bars of which any may be late, or six in time; a second instrument; four opportunities, three quotes; supplies out of order, repeated, outside their metadata, empty |
| `shadow_calls` | `MCShadowCalls` | `ReplayReproduces`, `AcceptedOnceInOrder`, `SignalsAreCurrent`, `EvidenceIsCurrent`, `TerminalIsFinal` | five records, three clock times, nine deliveries, two instruments |
| `live_stream` | `MCLiveStream` | `CaptureIsTheRecords`, `CaptureVerifies`, `ExitIsTerminal`, `AwayIsDisconnected`, `EveryRunEnds` | two attempts, five records, four frames, one failing write, one step back of the clock |
| `evidence_failure` | `MCLiveStream` | *violation* of `ReconnectsOnlyAfterTransportLoss` | as `live_stream` |
| `paper_path` | `MCPaperPath` | `ClientIdsNameOpportunities`, `ConflictIffMateriallyChanged`, `AcceptedOrderIsTheRequested` | nine candidate bindings of three bars, a script of two steps, three calls, one restart |

Why the bounds are enough, where it is not obvious:

* `risk_desk` has one caller because a caller keeps its snapshot: everything another caller could
  have decided in between, this one can decide itself on the snapshot it then uses again. The run
  of the gate alone admits arbitrary snapshots. Room for one position with two instruments is the
  smallest case in which the limit binds across instruments. The theorems remove these bounds.
* Two processes and two descriptions suffice for a lock's races (one wins, one loses); the theorems
  remove that bound for owner and journal. Two lock files allow one deletion, which is what makes
  the file at the path differ from the one that is locked.
* Six events allow entry, fill, exit, fill and two more: a conflict, a redundant signal, a second
  opportunity, or a second entry. Four events already hold a complete round trip, whose evidence is
  what is altered. The theorems remove both bounds for all eight properties.
* Late bars by two steps put up to three features at one instant.
* Five records are the record limit itself: the limit is met in most behaviours, and the shortest
  counterexample to any of the mutants needs four.
* Two attempts (four in the code) contain the first, a retry and exhaustion; the theorems hold for
  any number.
* The candidates of `paper_path` are one bar in other digits, at another time, under another
  configuration and for another account, an exit worth zero and minus zero, one whose parts do not
  fit, and one that asks for two shares. Identifiers are cut so far that two bars share theirs, and
  so do two accounts: the collisions that SHA-256 makes improbable do happen here.

Action properties (`BindingStable`, `IdentityImmutable`, `FirstDecisionFinal`, `FillFreezesGate`,
`KillSwitchFreezes`, `OpenOrCloseExactly`, `OlderQuoteNeverRescues`, `OutcomesChangeForCause`,
`TerminalIsFinal`) say what a step may never do. Refinements are `ImplementsCycle`, without
conditions, and `ImplementsLock`, which speaks of steps while the lock file is not deleted and power
is not lost: deletion gives the account a new file with a new lock, and a loss of power may revert
an unsynced binding, neither of which a lock with a write-once binding does.

**Deadlock** is not checked in `lifecycle_replay`, `simulation` and `quote_evidence`, which end
with their input, in `live_stream`, which ends with its process, nor in `paper_path`, whose calls
are used up.

### Fairness

Only `LiveSpec` assumes any. `WF_vars(RunsOn)`: code between two awaits, the handlers and the
finally clause run on, because nothing suspends them. `SF_vars(Interrupted)`: `asyncio.timeout`
schedules one callback at the deadline, which is delivered at an await; a coroutine that waits
again and again is therefore interrupted in the end, although it does not wait all the time. It is
strong because the coroutine leaves an await with each message. Nothing is assumed of the network,
of `Left` or of `Retry`. `EveryRunEnds` follows from these two alone.

### Findings

1. `close` in a forked child (run `forked_close`). `assert_held` refuses a process that did not
   acquire, `close` does not: it unlocks the description the child shares with its parent. The
   parent goes on passing `assert_held` while another process acquires the account. The class
   promises a lock "retained for the entire local owner lifetime" (`ownership.py:47`).
2. A binding that was never synced (run `unsynced_binding`). An owner dies between `os.write` and
   `os.fsync`. Its successor reads the binding, finds its own path bound already and returns the
   journal without a sync. A loss of power then empties the lock file, and a journal at another
   path is created and returned: two for one account, which
   `docs/P5A_EXECUTION_CONTRACT.md:86` excludes.
3. A failing write is a lost connection (run `evidence_failure`). The `except OSError` around
   `consume` also catches what `EvidenceWriter.write` raises. The run records
   `transport_disconnect` and may connect again, though `docs/ARCHITECTURE.md:105` says the adapter
   "reconnects only after transport loss".

## 4. What is proved

All proofs are checked by TLAPS, from the named assumptions on the constants only. Every theorem
holds for any sets of processes, intents, events, quotes, frames or candidates, where a run has a
few. Theorem modules follow the same plan: an inductive invariant, one lemma for each group of
actions, and theorems that draw the properties from it.

**`RiskDeskProofs`** begins with the gate, for any intents, snapshots, evidence and number of
restarts. The inductive invariant `IInv` adds to the properties that the reserve is finite, that
every live record owns the place of its token in `issued` (`TokensMatch`), and that what the gate in
charge has handed out is marked (`HandedRecorded`). Without `ReservedIffAuthorized` the capacity is
not inductive: a decision sees the reserve, not the history. `RoomInReserve` is the heart: since the
gate adds its reserve to whatever snapshot it is given, an authorization implies room in the
reserve, however stale or false the snapshot. Theorems: `Invariance`, `TypeCorrect`,
`ReserveWithinPolicy` (with the capacity `EntryCapacity`), `ReservationsKept`, `DispatchOnce`,
`DispatchAsGranted`, `DecisionsFinal`. Assumptions: fingerprints are injective
(`PayloadAssumption`), snapshots are finite, the maximum is positive.

It then carries that over to gate and account together. The difficulty is that a
decision rests on a snapshot that may be arbitrarily old. `SnapshotHolds` says what an old snapshot
is still good for: about an instrument without a reservation it is exact, a position it misses is
one with an entry in reserve, and it shows every fill that came before it. With `Books` (what is
held follows the orders in reserve) and `ControlsHold` (controls that do not show the kill switch
were read before it was thrown) this is the invariant `DInv`. Theorems: `DeskInvariance`,
`ExposureBounded`, `PositionsOpenOrClose`, `KillSwitchStops`, `FillsFreeze`. Assumption:
`DeskAssumption` (finitely many instruments, an account that starts within the limit). The desk
has one gate: it does not restart.

**`ExecutionJournalProofs`** begins with the owner, for any number of processes, descriptions, lock
files and losses of power, under `~ChildCloses` (finding 1 shows that it is needed). `OInv` ties
each call of `acquire` and each object to an open description with the lock of its file, and says
that two processes share a description only if one inherited it; hence `OneOwnPerFile`, from which
everything else follows: a binding is written only by the one object that saw the file empty.
Theorems: `OwnershipTypeOK`, `LockIsRetained`, `OnlyOneValidOwner`, `BindingIsStable`.

The journal goes on from `OInv`. `FInv` adds that the process that made a bare file
is the only one at work on it (`CreatorIsAlone`) and that what is bound is committed; `UInv` says of
an account that was let alone (no deletion of the lock file, no loss of power) that between the
write of a binding and its sync nothing else was returned. Theorems: `IdentitiesAreImmutable`,
`JournalsHaveOneOwner`, `OneJournalIsReturned` and the refinement `JournalImplementsLock`, again
under `~ChildCloses`.

**`QuoteEvidenceProofs`**, for any quotes and batches. `max` over the legal quotes is defined because
a finite set of quotes of one instrument has a newest element. That is a statement by induction on
the size of the set; it is proved here by taking a counterexample that is minimal under inclusion,
which exists because strict inclusion of finite sets is well founded. With it the choice of a quote
from one more is settled (`OneMoreQuote`): it stays what it was, or it is the new quote, and then
that quote was available in time. Theorems: `OlderNeverRescues`, `ChangesHaveCauses`.
Assumption: quotes are told apart by instrument, times and reference.

**`LifecycleReplayProofs`**, for any universe of events and quotes and timelines of any size.
`Replayed` says that states agree and that a pending action is an unconflicted signal of its
instrument; `RInv` adds that events are handled in order (on which `ReplayImplementsCycle` rests as
well, since instants may not go back in the abstract cycle), that attempts are of handled signals and
opportunities, and that an attempted action that has not filled is still pending (`Remembered`),
without which `NoOpportunitySkipped` is not inductive. For the alternation of fills `TInv` adds
`Turns`: while an instrument is without a position every entry that filled is followed by an exit,
and while it holds one the last fill is the entry that opened it.
Causality (`PrefixStable`) is about replays of parts of the timeline as folds. `Replays` says that
for every instant the fold over the events up to it is what the loop had when it passed that
instant, and the same as now as long as it has not; an event handled later than an instant is in
none of its replays, which makes it inductive. That conflicts and eligible pairs, computed from the
whole timeline, agree on a prefix with those computed from the prefix is `AfterUpTo`.
Theorems about the loop: `StatesAgree`, `ReplayImplementsCycle`, `OpportunitiesAreTried`,
`ConflictsAreInert`, `EntriesAndExitsTakeTurns`, `FutureDoesNotCount`. Assumptions: events are told
apart by the order of the code and are records of their kind (`UniverseAssumption`,
`EventsAssumption`), times of quotes are instants (`QuotesAssumption`).

The last part is about the reader of the trace. `reconstruct_trades` runs once the loop has ended,
but the proof goes along with the loop: `TradeInv` says that a reader of the records so far is never
refused and has in its books what the loop has left behind (`TraceRead`): the states, the entries
that are open, the attempts made, and the fills that follow one another as trades. An event is to
its instrument one of five things (`EventDoes`), and for each of them there is a lemma that the turn
of the reader at its record makes of the books what the loop makes of its state (`CreationReads`,
`IdlenessReads`, `FailureReads`, `EntryReads`, `ExitReads`). The turn at a filled exit is the one
that needs most: `Turns` for the single open entry of the instrument, and `LaterSignals` for the
order of times on which a `TradeRecord` insists. `TradesAreAccounted` then says what the reader
makes of a complete run. For `AlterationsAreNoticed`, a run that is accepted has tables that agree
with one another and with the end of its trace (`AcceptedRunHolds`), and every outcome of its trace,
with its quote, has been looked up in them by the turn of its record (`OutcomesAreLookedUp`,
`QuotesAreLookedUp`); as the records are still the original ones, a table with one row off misses
(`TablesAreCompared`). An altered record is another matter: it is met with the books that its
original was met with, and two records of one event that differ in one field do not both go on from
the same books (`AlteredRecordIsRefused`), except in what an idle one remarks; one moved to another
event uncovers its own. Added assumption:
`EvidenceAssumption` (quotes are finitely many and told apart by instrument, times and reference;
what stands for no attempt, outcome or quote is none).

**`LiveStreamProofs`** begins with the session, for any observations, times and calls. All rests on
`Called`: a call of a session adds one record or none, and none once the session is terminal; and on
what its record keeps of it: called again on a session that agrees except for the clock, it gives
the same record. Therefore the session's records, replayed in a new one, reproduce it
(`RecordsReplay`), although calls that raised have moved its clock or failed it without leaving a
record. For the histories the invariant ties bars and quotes of the session to folds over its
records, and says that what was accepted is younger with every record. Theorems: `RecordsReplay`,
`AcceptedInOrder`, `SignalsCurrent`, `EvidenceCurrent`, `TerminalRemains`. Assumptions:
`SessionAssumption` (positive limits), `CallsAssumption` (times are numbers, observations have a
kind).

It goes on with the run, for any frames, times, number of attempts, failing writes and steps back of
the clock. A step of the run makes one call of its session or none (`LiveRunCalls`), so that what is
proved of a session under any calls holds for that of a run. `CInv` keeps capture and records
together through partial writes; `AInv` is about the connection; `EInv` adds that the session's
clock is not ahead of the calls to come (`Punctual`), that a terminal session has a record of its
end (`EndRecorded`), that only a failed write leaves something out of the file (`Written`), and that
a run is over only with a terminal session (`Over`). `CaptureVerified` combines them with
`RecordsReplay`: a capture is a prefix of the records, any prefix replays to itself, and the status
that its last line claims is the health the replay ends in. Theorems: `CaptureComplete`,
`AwayDisconnected`, `ExitTerminal`, `StreamTypeOK`, `LiveRunCalls`, `CaptureVerified`. Assumption:
`StreamAssumption` (what frames translate to are the observations).

**`SimulationProofs`**, for any supplies, opportunities and quotes. The code replays the lifecycle
once for every decision, each time on what was known then, and once more in the end; the proof is
that all these replays agree. A replay is a fold over the sorted events, and `FoldLemmas` takes it
apart one event at a time. Two replays bring an instrument to the same state at an instant if they
have the same moves of it until then and the same evidence for each (`AfterAgrees`); signals that
come later, and events that move nothing, may be left out (`MovesAlone`, `SameMoves`). `SimInv` says
of the loop after each turn: the evaluations so far are the first of the order of decisions, each
was made on the state that the signals of now, and the opportunities, give before its instant, and
its signal is the one the strategy proposes for that state (`Right`). It is inductive because a
decision adds a signal at its own instant, which no earlier state depends on (`DecideIsRight`), and
it carries over to the final replay, which is how `DecisionsAgree` and `SignalsAct` follow; the
latter also needs that an instrument has one decision at an instant. `FreshAndAlternate` follows
the type of the last signal through the states between two decisions. For `FutureIsUnread` the
histories cut at a time have the features available by then (`KnownFeatures`), their order is the
beginning of the whole order (`KnownOrder`), and the loop over both makes the same decisions
(`KnownState`, `KnownDecisions`). Theorems: `DecisionsAgree`, `SignalsAct`, `FreshAndAlternate`,
`FutureIsUnread`. Assumptions: `InstrumentsAssumption` (finitely many instruments, by their ranks),
`SuppliesAssumption` (bars have the fields their class gives them, times are numbers),
`OpportunitiesAssumption`, `QuotesAssumption`, `WindowAssumption`, `AgeAssumption` (the age that the
configuration accepts is not negative) and `ScopeAssumption`.

**`PaperPathProofs`**, for any candidates, any script, any number of calls and restarts, and any way
of cutting digests short. An identity determines the key of a binding that could be constructed
(`IdentityDeterminesKey`), the registry of opportunities keeps one binding for a key, and the
registry of identifiers one identity for an identifier; `PInv` is these facts about the state.
`OneTextPerNumber` is about the codec: the canonical texts of two decimals are equal exactly when
they are the same number, for digits of any length. A number is counted by a fold over its digits;
the proof shows that trailing zeros do not change it, that two digit sequences of one length which
count the same are the same, and that without trailing zeros the lengths must agree. On it rests
that a redelivery is refused exactly when a material part of it differs (`ConflictsAreMaterial`).
Theorems: `PathInvariant`, `IdentifiersNameOpportunities`, `AcceptancesAreCredited`,
`OneTextPerNumber`, `ConflictsAreMaterial`. Assumption: `CandidatesAssumption` (keys, features and
numbers have the fields their classes give them; exponents have a lower bound, `MinExponent`).

**`FoldLemmas`** is what makes loops over sequences a matter of proof. The induction theorems of the
library have an operator as a parameter, which the provers cannot instantiate, and `FoldLeft` is
defined by a recursive function under a `CHOOSE`. Two things get around this. A statement by
induction is made about a *set* of numbers (`InductionOnSet`) or of sequences (`InductionOnSeq`),
which the well-founded order of the naturals closes; and the loop body is the `CONSTANT` operator
of this module, which a proof module instantiates with its own (`LiveStreamProofs` with `Again` and
`Take`, `LifecycleReplayProofs` and `SimulationProofs` with `Handled`, the former also with
`ReadEvent`, the latter with `AddBar` and `DecidedNext`, `PaperPathProofs` with `AddDigit`).
`FoldEmpty` and `FoldAppend` then give the two equations of the loop. Events and decisions are
sorted by a rank, the number of smaller elements: `SortedEnumerates` says that this enumerates a
finite set in its order, `SortedAppend` and `SortedPrefix` that elements after all others go to the
end.

**Only model-checked**: the liveness of the live run (`EveryRunEnds`: fairness and `ENABLED` are
beyond the prover).

## 5. What is not modelled

* Prices, slippage, fees, statistics and evaluation manifests: arithmetic on decimals and text, each
  a function of one value after another, for which unit tests are the better tool.
* Encoding to bytes and decoding in the journal codec, typed JSON parsing and the header of a
  capture, fingerprints: questions of strings. Nothing under `src/` decodes a journal value yet.
* Of `broker.py` the accounts, clocks, assets, snapshots and updates, the links between replaced
  orders and the canary configuration: constructors that no code combines yet. Of the fake broker
  the five reads, which take a step of the script as the modelled calls do and keep nothing.
* Modes and kinds of files and directories; the 4096-byte limit of a binding; the branch of
  `process_lifecycle` without an execution configuration; argument checks that raise before any
  state changes.
* The registries keep bindings and identities in memory, and a restart forgets them
  (`execution/opportunity.py:149` leaves their persistence to a later phase); the properties of
  `PaperPath` are therefore about the life of one process.

External and modelled from their use: the kernel's `flock`, `fork` and page cache, SQLite, the text
file's buffer, the WebSocket connection, the event loop, callers and accounts of the gate.

## 6. Plan

The modules were written in the order gate, ownership and journal, lifecycle and runner, session,
stream and capture, registries and broker, reconstruction; each group was model-checked before its
theorems were proved. All of it is present. What is left, in order of worth:

1. When `src/` gets the dispatcher that joins gate, journal, registries and broker: compose
   `RiskGate`, `ExecutionJournal` and `PaperPath`, with the persistence that dispatcher gives them,
   and state that an intent reaches the broker once across restarts.
2. An abstract append-only capture, which the stream implements up to a lost suffix, beside
   `AccountLock` and `PositionCycle`.
3. The remaining constructors of `broker.py`, once something combines their values.
