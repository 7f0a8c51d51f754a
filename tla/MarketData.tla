------------------------------ MODULE MarketData ------------------------------
(***************************************************************************)
(* The validation of a dataset of bars (src/src/shadow/data/validation.py  *)
(* on the types of src/src/shadow/domain/market.py): the order of the      *)
(* caller is checked, never repaired.                                      *)
(*                                                                         *)
(* A bar is [instrument, interval, source, observation, availability,      *)
(* reading]; Metadata is [instruments, interval, source, start, end,       *)
(* validated]. Prices and volumes are left out.                            *)
(***************************************************************************)
EXTENDS Integers, Sequences

CONSTANT Metadata       \* the DatasetMetadata declared with the bars

\* DatasetMetadata: coverage does not end before it starts.
ASSUME MetadataAssumption == Metadata.instruments # {} /\ Metadata.start <= Metadata.end

\* Bar: it is not available before its interval has ended.
BarHolds(bar) == bar.availability >= bar.observation

InScope(bar) ==
    /\ bar.interval = Metadata.interval /\ bar.source = Metadata.source
    /\ bar.instrument \in Metadata.instruments
    /\ bar.observation \in Metadata.start .. Metadata.end

\* The identity by which an observation is a duplicate.
Identity(bar) == <<bar.instrument, bar.interval, bar.observation>>

\* Mutant: the order of the caller is not looked at.
ValidBarsUnordered(bars) ==
    /\ bars # <<>>
    /\ \A k \in DOMAIN bars : InScope(bars[k])
    /\ \A k, n \in DOMAIN bars : k < n => Identity(bars[k]) # Identity(bars[n])

\* validate_bars.
ValidBars(bars) ==
    /\ bars # <<>>
    /\ \A k \in DOMAIN bars : InScope(bars[k])
    /\ \A k, n \in DOMAIN bars : k < n =>
          /\ bars[k].observation <= bars[n].observation
          /\ Identity(bars[k]) # Identity(bars[n])

=============================================================================
