-------------------------------- MODULE MCSync --------------------------------
(***************************************************************************)
(* How blocks are made and get around, for TLC: the choice of proposers,   *)
(* the download of blocks from peers, and the choice of the peers that are *)
(* asked.  Each of the parts is checked by itself: "part" says which one a *)
(* behavior is about, the variables of the others are 0 in it.             *)
(***************************************************************************)
EXTENDS Netsync, TLC

CONSTANTS g, m1, m2, f1   \* blocks

VARIABLES
  part,
  connected, active, counter, asked,
  stakes, proposer

peerVars == <<connected, active, counter, asked>>
proposerVars == <<stakes, proposer>>

-----------------------------------------------------------------------------
(***************************************************************************)
(* The download: peer p2 has finalized m1 of the chain g, m1, m2, and p1   *)
(* has only the fork f1.                                                   *)
(***************************************************************************)
MCBlocks == {g, m1, m2, f1}
MCParentOf == g :> NoBlock @@ m1 :> g @@ m2 :> m1 @@ f1 :> g
MCInitChain == <<g>>
MCPeerBlocks == [p1 |-> <<g, f1>>, p2 |-> <<g, m1, m2>>]
MCPeerLfb == [p1 |-> g, p2 |-> m1]
MCSetups == {[mode |-> {"header"}, undecided |-> {}], [mode |-> {"hash"}, undecided |-> {f1, m1}]}

(***************************************************************************)
(* Five peers, of which the fifth is an edge node and two may be active.   *)
(***************************************************************************)
Selection == INSTANCE PeerSelection WITH
  Peers <- 1 .. 5, EdgeNodes <- {5}, MaxActive <- 2, MaxScore <- 2, LeastScore <- 0, RefreshLimit <- 2

(***************************************************************************)
(* Three validators; eight stands for the largest unsigned integer.        *)
(***************************************************************************)
Proposers == INSTANCE ProposerSelection WITH MaxStake <- 7, NumValidators <- 3, MaxWord <- 8

-----------------------------------------------------------------------------
NoSync ==
  /\ mode = 0 /\ chain = 0 /\ status = 0 /\ lfb = 0 /\ pending = 0 /\ info = 0 /\ headers = 0
  /\ cache = 0 /\ tip = 0 /\ inbox = 0 /\ net = 0 /\ undecided = 0 /\ faults = 0

NoPeers == connected = 0 /\ active = 0 /\ counter = 0 /\ asked = 0

NoProposers == stakes = 0 /\ proposer = 0

MCInit ==
  \/ part = "sync" /\ Init /\ NoPeers /\ NoProposers
  \/ part = "peers" /\ Selection!Init /\ NoSync /\ NoProposers
  \/ part = "proposers" /\ Proposers!Init /\ NoSync /\ NoPeers

MCNext ==
  \/ part = "sync" /\ Next /\ UNCHANGED <<part, peerVars, proposerVars>>
  \/ part = "peers" /\ Selection!Next /\ UNCHANGED <<part, vars, proposerVars>>
  \/ part = "proposers" /\ Proposers!Next /\ UNCHANGED <<part, vars, peerVars>>

MCVars == <<part, vars, peerVars, proposerVars>>

(***************************************************************************)
(* The fairness of Netsync (its FairSpec).                                 *)
(***************************************************************************)
MCSpec ==
  /\ MCInit /\ [][MCNext]_MCVars
  /\ []<>(part # "sync") \/ []<><<part = "sync" /\ TryToDownload(TRUE)>>_vars
  /\ \A type \in {"headers", "hashes", "blocks"} :
       []<>(part # "sync" \/ \A m \in net : m.type # type)
  /\ []<>(part # "sync" \/ inbox = << >>)
  /\ WF_vars(part = "sync" /\ \E b \in Stored : PassReadyBlock(b))
  /\ WF_vars(part = "sync" /\ \E b \in DOMAIN info : TimeOut(b))

-----------------------------------------------------------------------------
(***************************************************************************)
(* The types of the part that moves.                                       *)
(***************************************************************************)
MCTypeOK ==
  CASE part = "sync" -> TypeOK
    [] part = "peers" -> Selection!TypeOK
    [] part = "proposers" -> Proposers!TypeOK

(***************************************************************************)
(* A block the peers have finalized is never marked invalid, and the       *)
(* engine has processed its parent when it gets it, in whatever order the  *)
(* blocks arrive and however often one is passed (handleNormalBlock:       *)
(* "netsync layer ensures order of blocks").                               *)
(***************************************************************************)
MCFinalizedIsAccepted == part = "sync" => FinalizedIsAccepted

\* Each validator has as many numbers as its stake is worth, rounded down:
\* none without stake, and none takes the numbers of another
\* (consensus/validator.go, the loop of getProposerFromValidators).
SharesAreStakes == part = "proposers" => Proposers!SharesAreStakes

(***************************************************************************)
(* An inventory request goes to connected peers only, to as many as there  *)
(* are up to MaxActive, and when the counter wraps to two peers, if there  *)
(* are, that were not active: a node whose active peers have nothing new   *)
(* for it finds others ("Query extra random peers").                       *)
(***************************************************************************)
OthersAreTried == [][part = "peers" => Selection!AsksOthers]_peerVars

(***************************************************************************)
(* The node gets and accepts every block its peers have finalized, after   *)
(* any finite number of lost messages and late requests.                   *)
(***************************************************************************)
MCSyncCompletes == <>(part = "sync" => FinalizedByPeers \subseteq Valid)
===============================================================================
