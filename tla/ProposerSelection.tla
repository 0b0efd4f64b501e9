------------------------- MODULE ProposerSelection --------------------------
(***************************************************************************)
(* The proposer of an epoch (consensus/validator.go): the validators with  *)
(* stake, in their order, share the numbers below the scaled total stake   *)
(* in proportion to their scaled stakes, and a random number picks one.    *)
(* Stakes are scaled down by integer division so that the total fits into  *)
(* a machine word; MaxWord stands for common.BigMaxUint32.                 *)
(***************************************************************************)
EXTENDS Naturals, Sequences, FiniteSets, FiniteSetsExt

CONSTANTS MaxStake, NumValidators, MaxWord

VARIABLES stakes,    \* stakes of the validator set, in the order of addresses
          proposer   \* index of the proposer, Unknown before it is chosen, NoOne

vars == <<stakes, proposer>>

Unknown == NumValidators + 1
NoOne == NumValidators + 2

\* A set without stake has no proposer; the code panics with a message.
Init ==
    /\ stakes \in {s \in [1 .. NumValidators -> 0 .. MaxStake] : \E i \in DOMAIN s : s[i] > 0}
    /\ proposer = Unknown

Stake(valSet, i) == stakes[valSet[i]]
Total(f, S) == FoldSet(LAMBDA i, sum : f[i] + sum, 0, S)

\* FilterValidators: the indices of the validators with stake, in order.
FilterValidators == SelectSeq([i \in 1 .. NumValidators |-> i], LAMBDA i : stakes[i] # 0)

TotalStake == Total(stakes, DOMAIN stakes)
ScalingFactor == (TotalStake \div MaxWord) + 1
scaleDown(x) == x \div ScalingFactor

\* Mutant of Curr: the sum leaves out the first validator.
CurrFromNext(i) == Total([j \in 1 .. Len(FilterValidators) |-> scaleDown(Stake(FilterValidators, j))], 2 .. i)

\* The numbers below the i-th validator's last, in the order of the loop.
Curr(i) == Total([j \in 1 .. Len(FilterValidators) |-> scaleDown(Stake(FilterValidators, j))], 1 .. i)

\* getProposerFromValidators: the first validator whose numbers end above r.
getProposerFromValidators(r) ==
    LET found == {i \in 1 .. Len(FilterValidators) : r < Curr(i)}
    IN  IF found = {} THEN NoOne ELSE FilterValidators[Min(found)]

\* randUint64 draws a number below the scaled total stake from the epoch.
GetProposer ==
    /\ proposer = Unknown
    /\ \E r \in 0 .. scaleDown(TotalStake) - 1 : proposer' = getProposerFromValidators(r)
    /\ UNCHANGED stakes

Next == GetProposer
Spec == Init /\ [][Next]_vars

----------------------------------------------------------------------------
(* Properties.                                                             *)

TypeOK == proposer \in 1 .. NoOne

\* Each validator has as many numbers as its stake is worth, rounded down:
\* none without stake, and none takes the numbers of another
\* (consensus/validator.go, the loop of getProposerFromValidators).
SharesAreStakes ==
    \A v \in 1 .. NumValidators :
        Cardinality({r \in 0 .. scaleDown(TotalStake) - 1 : getProposerFromValidators(r) = v})
            = stakes[v] \div ScalingFactor
=============================================================================
