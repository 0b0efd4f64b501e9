--------------------------- MODULE ValidatorSets ---------------------------
(***************************************************************************)
(* The validator set of one dynasty and its two-thirds majority rule       *)
(* (core/validator.go).  Stakes are natural numbers; the stake of a set of *)
(* validators is counted in units, so that facts about it follow from      *)
(* facts about cardinalities.                                              *)
(***************************************************************************)
EXTENDS Integers, FiniteSets

CONSTANTS
  Validators,   \* the validators of the dynasty
  Stake,        \* the stake of each of them
  MaxStake,     \* an upper bound of a single stake
  Faulty        \* the validators that need not follow the engine's rules

(***************************************************************************)
(* One element for every unit of stake the validators in S hold.           *)
(***************************************************************************)
StakeUnits(S) == {u \in S \X (1 .. MaxStake) : u[2] <= Stake[u[1]]}

(***************************************************************************)
(* The sum of the stakes of the validators in S.                           *)
(***************************************************************************)
StakeOf(S) == Cardinality(StakeUnits(S))

TotalStake == StakeOf(Validators)

\* Mutant of HasMajority: half of the stake is taken for a majority.
HasHalf(S) == 2 * StakeOf(S \cap Validators) >= TotalStake

(***************************************************************************)
(* A set of voters carries a majority when its validators hold strictly    *)
(* more than two thirds of the total stake.  A voter that is not a         *)
(* validator contributes nothing.                                          *)
(***************************************************************************)
HasMajority(S) == 3 * StakeOf(S \cap Validators) > 2 * TotalStake

(***************************************************************************)
(* The validators that run this program.                                   *)
(***************************************************************************)
Honest == Validators \ Faulty

ASSUME ValidatorAssumption ==
  /\ IsFiniteSet(Validators)
  /\ MaxStake \in Nat
  /\ Stake \in [Validators -> 0 .. MaxStake]
=============================================================================
