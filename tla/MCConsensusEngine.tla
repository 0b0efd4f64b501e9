------------------------- MODULE MCConsensusEngine -------------------------
(***************************************************************************)
(* ConsensusEngine for TLC: one node and two peers, in three situations    *)
(* that differ in who is needed for a majority.  TLC computes TotalStake   *)
(* once, so the stakes of all three add up to the same.                    *)
(***************************************************************************)
EXTENDS ConsensusEngine, TLC

CONSTANTS n1, p2, p3

MCValidators == {n1, p2, p3}

H(e, h, p) == [epoch |-> e, hcc |-> h, payload |-> p]

PeerVote(p, b, e) == [voter |-> p, block |-> b, epoch |-> e]

PeersVote(b, e) == {PeerVote(p2, b, e), PeerVote(p3, b, e)}

(***************************************************************************)
(* A chain of three blocks whose last one finalizes the second: the first  *)
(* block is finalized indirectly.  The node has half of the stake, so that *)
(* nothing is certified without its vote, also in the certificate of the   *)
(* last block.                                                             *)
(***************************************************************************)
HalfStake == n1 :> 4 @@ p2 :> 2 @@ p3 :> 2

a1 == << H(1, 0, "tx") >>
a2 == << H(1, 0, "tx"), H(2, 0, "tx") >>
a3 == << H(1, 0, "tx"), H(2, 0, "tx"), H(3, 2, "tx") >>

ChainBlocks == {a1, a2, a3}
ChainCert == a1 :> {} @@ a2 :> {} @@ a3 :> {PeerVote(n1, a2, 0), PeerVote(p2, a2, 0)}
ChainVotes == {PeerVote(p3, a3, 0)}

ChainProposer == 1 :> p2 @@ 2 :> p2 @@ 3 :> p3

-----------------------------------------------------------------------------
(***************************************************************************)
(* The node proposes in epoch 1.  The peers propose a chain of two blocks  *)
(* that competes with it and whose second block finalizes the first.  One  *)
(* peer is a majority by itself, so that blocks are also certified before  *)
(* the node has seen or validated them.                                    *)
(***************************************************************************)
RivalStake == n1 :> 1 @@ p2 :> 6 @@ p3 :> 1

r1 == << H(2, 0, "tx") >>
r2 == << H(2, 0, "tx"), H(3, 1, "tx") >>

RivalBlocks == {r1, r2}
RivalCert == r1 :> {} @@ r2 :> PeersVote(r1, 0)
RivalVotes == {PeerVote(p2, r2, 0)}

RivalProposer == 1 :> n1 @@ 2 :> p2 @@ 3 :> p3
-----------------------------------------------------------------------------
(***************************************************************************)
(* One block, invalid or undecided at first, and peers that are up to      *)
(* three epochs ahead of each other and of the node.  The peers have a     *)
(* majority with or without the node, the node has one only together with  *)
(* the bigger peer.                                                        *)
(***************************************************************************)
EpochStake == n1 :> 2 @@ p2 :> 4 @@ p3 :> 2

EpochBlocks == {<< H(1, 0, p) >> : p \in {Bad, Unsure}}
EpochCert == [b \in EpochBlocks |-> {}]
EpochVotes == {PeerVote(p, Root, e) : p \in {p2, p3}, e \in 0 .. 2}

EpochProposer == 1 :> p2

-----------------------------------------------------------------------------
(***************************************************************************)
(* Three instances with the variables in common: the rivals, with a crash, *)
(* by the constants of the configuration, the chain and the epochs.  The   *)
(* instance is chosen at the start and stays.                              *)
(***************************************************************************)
VARIABLE instance

Chain == INSTANCE ConsensusEngine WITH
  Stake <- HalfStake, Payloads <- {"tx"}, Proposer <- ChainProposer, PeerBlocks <- ChainBlocks,
  PeerVotes <- ChainVotes, PeerCert <- ChainCert, MaxEpoch <- 2, MaxBlocks <- 3, MaxCrashes <- 0

Peers == INSTANCE ConsensusEngine WITH
  Stake <- EpochStake, Epochs <- {1}, Payloads <- {Bad, Unsure}, Proposer <- EpochProposer,
  PeerBlocks <- EpochBlocks, PeerVotes <- EpochVotes, PeerCert <- EpochCert,
  MaxEpoch <- 3, MaxBlocks <- 1, MaxCrashes <- 0

MCInit ==
  \/ instance = "rivals" /\ Init
  \/ instance = "chain" /\ Chain!Init
  \/ instance = "epochs" /\ Peers!Init

MCNext ==
  /\ \/ instance = "rivals" /\ Next
     \/ instance = "chain" /\ Chain!Next
     \/ instance = "epochs" /\ Peers!Next
  /\ UNCHANGED instance

MCVars == <<vars, instance>>

MCSpec ==
  /\ MCInit /\ [][MCNext]_MCVars
  /\ \A n \in Honest :
       /\ WF_vars(instance = "epochs" /\ Peers!Work(n))
       /\ SF_vars(instance = "epochs" /\ Peers!EpochTimer(n))
       /\ SF_vars(instance = "epochs" /\ Peers!OwnVoteMessage(n))

(***************************************************************************)
(* The constants of the configuration file alone.                          *)
(***************************************************************************)
OneInstanceSpec == instance = "rivals" /\ Init /\ [][Next /\ UNCHANGED instance]_MCVars

(***************************************************************************)
(* The properties of ConsensusEngine, each for the constants it is about.  *)
(***************************************************************************)
MCIndInv ==
  /\ instance = "rivals" => IndInv
  /\ instance = "chain" => Chain!IndInv

(***************************************************************************)
(* ImplementsChainVoting for the rivals and for the chain.                 *)
(***************************************************************************)
MCImplementsChainVoting ==
  /\ instance = "rivals" => V!Init
  /\ instance = "chain" => Chain!V!Init
  /\ [][/\ instance = "rivals" => V!Next \/ UNCHANGED V!vars
        /\ instance = "chain" => Chain!V!Next \/ UNCHANGED V!vars]_MCVars

(***************************************************************************)
(* EpochCatchesUp for the epochs.                                          *)
(***************************************************************************)
MCEpochCatchesUp ==
  \A n \in Honest : \A e \in 0 .. 2 :
    instance = "epochs" /\ Peers!MajorityReached(n, e) ~> db[n].epoch > e
=============================================================================
