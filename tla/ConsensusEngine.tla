-------------------------- MODULE ConsensusEngine ---------------------------
(***************************************************************************)
(* The consensus engine of the validators in Honest, as the interleaving of *)
(* their handlers, of the messages of peers and of crashes.                *)
(***************************************************************************)
EXTENDS EngineBlocks, EngineVotes, EngineFinality

(***************************************************************************)
(* The steps of handlers that have been started.                           *)
(***************************************************************************)
Work(n) ==
  \/ HccVotes(n) \/ FinalizeBlock(n) \/ MarkFinalized(n)
  \/ SetHighestCCBlock(n) \/ CommitBlock(n) \/ ApplyBlock(n)
  \/ Vote(n) \/ SendVote(n) \/ EnterEpoch(n)

Next ==
  \/ \E b \in PeerBlocks : PeerPropose(b)
  \/ \E n \in Honest :
       \/ Work(n)
       \/ \E v \in PeerVotes \cup sent : VoteMessage(n, v)
       \/ \E b \in mem[n].inbox : BlockMessage(n, b)
       \/ VoteTimer(n)
       \/ EpochTimer(n)
       \/ \E b \in proposed : AddBlock(n, b)
       \/ \E b \in Stored(n) : PassReadyBlock(n, b)
       \/ Crash(n)

Spec == Init /\ [][Next]_vars

(***************************************************************************)
(* The vote a node has sent for its current epoch reaches its own queue:   *)
(* it is added there by a goroutine, and select serves a waiting queue     *)
(* sooner or later, as it does a timer that has fired.                     *)
(***************************************************************************)
OwnVoteMessage(n) ==
  \E v \in sent : v.voter = n /\ v.epoch = db[n].epoch /\ VoteMessage(n, v)

FairSpec ==
  /\ Spec
  /\ \A n \in Honest : /\ WF_vars(Work(n))
                      /\ SF_vars(EpochTimer(n))
                      /\ SF_vars(OwnVoteMessage(n))

-----------------------------------------------------------------------------
(***************************************************************************)
(* Over all epochs and restarts, a node never signs votes for two blocks   *)
(* of one height: LastVote is stored before the vote is sent (vote).       *)
(***************************************************************************)
OneVotePerHeight ==
  \A v, w \in sent :
    v.voter = w.voter /\ Height(v.block) = Height(w.block) => v.block = w.block

(***************************************************************************)
(* As far as n knows, a majority of the validators has reached epoch e.    *)
(***************************************************************************)
MajorityReached(n, e) ==
  \E Q \in SUBSET Validators :
    HasMajority(Q) /\ \A v \in Q : db[n].epochVotes[v] >= e

(***************************************************************************)
(* handleBlock finds every block handed to it in the store, together with  *)
(* its parent, and the parent is not pending: the Fatal and Panic branches *)
(* of handleBlock, handleNormalBlock and validateBlock are not reached.    *)
(***************************************************************************)
ParentIsProcessed ==
  \A n \in Honest : \A b \in mem[n].inbox :
    /\ {b, Parent(b)} \subseteq Stored(n)
    /\ db[n].status[Parent(b)] # "pending"

(***************************************************************************)
(* The status of a stored block only moves forward; in particular the      *)
(* several writers of ExtendedBlock.Status never undo a finalization.      *)
(***************************************************************************)
StatusOnlyAdvances ==
  [][\A n \in Honest : \A b \in Stored(n) :
       /\ b \in Stored(n)'
       /\ \/ db'[n].status[b] = db[n].status[b]
          \/ /\ Rank(db[n].status[b]) < Rank(db'[n].status[b])
             /\ db'[n].status[b] = "invalid" => db[n].status[b] = "pending"]_vars

(***************************************************************************)
(* Between two messages no block that is marked as finalized has an        *)
(* ancestor that is not ("Mark block and its ancestors as finalized." in   *)
(* finalizeBlock).  FinalizePreviousBlocks relies on it: its loop ends at  *)
(* the first block it finds marked.                                        *)
(***************************************************************************)
FinalizedAreMarked ==
  \A n \in Honest : Idle(n) =>
    \A b, c \in Stored(n) :
      IsFinalized(db[n].status[c]) /\ IsDescendant(b, c) => IsFinalized(db[n].status[b])

(***************************************************************************)
(* Once a node knows votes of a majority for epoch e or later ones, it     *)
(* leaves epoch e behind, even when the votes came in an order in which    *)
(* none of them completed a majority.                                      *)
(***************************************************************************)
EpochCatchesUp ==
  \A n \in Honest : \A e \in 0 .. MaxEpoch - 1 :
    MajorityReached(n, e) ~> db[n].epoch > e

(***************************************************************************)
(* Every step of the engine, crashes included, is one ChainVoting allows,  *)
(* or changes nothing ChainVoting speaks about: in particular LastVote is  *)
(* stored before the vote is sent, the HCC has risen to the certified      *)
(* block of a block before that block is valid, and finalizing it first    *)
(* and recording the HCC afterwards is safe.                               *)
(***************************************************************************)
V == INSTANCE ChainVoting WITH
       valid    <- [n \in Honest |-> StoredValid(n)],
       votes    <- voted,
       lastVote <- [n \in Honest |-> db[n].lastVote],
       hcc      <- [n \in Honest |-> db[n].hcc],
       lfb      <- [n \in Honest |-> db[n].lfb]

ImplementsChainVoting == V!Spec

-----------------------------------------------------------------------------
(***************************************************************************)
(* The fault model of a two-thirds majority, as in ChainVoting.            *)
(***************************************************************************)
FaultBound == 3 * StakeOf(Faulty) <= TotalStake

(***************************************************************************)
(* The inductive invariant of the engine: its own part, and the one of     *)
(* ChainVoting.                                                            *)
(***************************************************************************)
IndInv == EngineInv /\ V!IndInv
=============================================================================
