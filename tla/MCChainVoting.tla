--------------------------- MODULE MCChainVoting ---------------------------
(***************************************************************************)
(* ChainVoting for TLC: four validators of equal stake, three of which     *)
(* make a majority, and one of them faulty.                                *)
(***************************************************************************)
EXTENDS ChainVoting, Functions, TLC

CONSTANTS v1, v2, v3, v4

MCValidators == {v1, v2, v3, v4}
MCStake == [v \in MCValidators |-> 1]

(***************************************************************************)
(* Stake units count what SumFunctionOnSet adds up.                        *)
(***************************************************************************)
ASSUME StakeIsSum ==
  \A S \in SUBSET Validators : StakeOf(S) = SumFunctionOnSet(Stake, S)

(***************************************************************************)
(* An honest proposer comes first and the faulty one follows.              *)
(***************************************************************************)
MixedProposers == 1 :> v1 @@ 2 :> v1 @@ 3 :> v4 @@ 4 :> v4

-----------------------------------------------------------------------------
(***************************************************************************)
(* Besides the initial state, a state in which the blocks of a fork have   *)
(* been proposed and everybody has accepted both first blocks, before      *)
(* anybody votes.  One branch finalizes block after block.  The other      *)
(* certifies nothing above the root until its last block.  As many blocks  *)
(* as MaxBlocks allows are proposed in it already.                         *)
(***************************************************************************)
H(e, h) == [epoch |-> e, hcc |-> h, payload |-> 0]

ForkTree ==
  { << H(1, 0) >>, << H(1, 0), H(3, 1) >>, << H(1, 0), H(3, 1), H(4, 2) >>,
    << H(2, 0) >>, << H(2, 0), H(3, 0) >>, << H(2, 0), H(3, 0), H(4, 2) >> }

ForkInit ==
  /\ proposed = ForkTree
  /\ valid = [n \in Honest |-> {Root, << H(1, 0) >>, << H(2, 0) >>}]
  /\ votes = [n \in Honest |-> {}]
  /\ lastVote = [n \in Honest |-> NoVote]
  /\ hcc = [n \in Honest |-> Root]
  /\ lfb = [n \in Honest |-> Root]

HonestSymmetry == Permutations({v2, v3})

AnySpec == (Init \/ ForkInit) /\ [][Next]_vars
=============================================================================
