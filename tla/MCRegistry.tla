----------------------------- MODULE MCRegistry -----------------------------
(* Finite instances of Registry for TLC. *)
EXTENDS Registry, TLC

Symmetry == Permutations(Keys)

Reading(level, mv) ==
  [charge_state |-> 1, level |-> level, analog |-> [f \in Fields |-> mv]]

\* One report: for the runs about time.
OneReading == {Reading(80, 0)}

\* Two steps that are jitter each and a full deadband together.
CreepingReadings == {Reading(80, mv) : mv \in 0..2}

DeadbandOfTwo == [f \in Fields |-> 2]
=============================================================================
