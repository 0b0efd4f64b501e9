----------------------- MODULE ConsensusEngineProofs -----------------------
(***************************************************************************)
(* The theorems about ConsensusEngine, for every set of validators of      *)
(* which at most a third of the stake is faulty, whatever the blocks,      *)
(* certificates and votes of the faulty ones, and every number of blocks,  *)
(* epochs and crashes.                                                     *)
(***************************************************************************)
EXTENDS EngineStepProofs

USE ZenonT(30)

-----------------------------------------------------------------------------
(***************************************************************************)
(* The theorems about ChainVoting, for the variables the engine implements *)
(* it with.                                                                *)
(***************************************************************************)
P == INSTANCE ChainVotingProofs WITH
       valid    <- [n \in Honest |-> StoredValid(n)],
       votes    <- voted,
       lastVote <- [n \in Honest |-> db[n].lastVote],
       hcc      <- [n \in Honest |-> db[n].hcc],
       lfb      <- [n \in Honest |-> db[n].lfb]

(***************************************************************************)
(* The assumptions of ChainVoting hold for the engine.                     *)
(***************************************************************************)
LEMMA VotingAssumptions ==
  ASSUME FaultBound
  PROVE  /\ P!ValidatorAssumption /\ P!BlockAssumption
         /\ P!VotingAssumption /\ P!FaultAssumption
<1>1. \A S : P!Cardinality(S) = Cardinality(S)
  BY DEF P!Cardinality, Cardinality
<1>2. \A S : P!StakeOf(S) = StakeOf(S)
  BY <1>1 DEF P!StakeOf, P!StakeUnits, StakeOf, StakeUnits
<1>3. P!IsFiniteSet(Validators) <=> IsFiniteSet(Validators)
  BY DEF P!IsFiniteSet, IsFiniteSet
<1>4. P!TotalStake = TotalStake
  BY <1>2 DEF P!TotalStake, TotalStake
<1>5. P!Blocks = Blocks
  BY DEF P!Blocks, Blocks, P!Header, Header
<1> QED
  BY <1>2, <1>3, <1>4, <1>5, ValidatorAssumption, BlockAssumption, EngineAssumption
     DEF P!ValidatorAssumption, P!BlockAssumption, P!VotingAssumption,
         P!FaultAssumption, FaultBound

(***************************************************************************)
(* P and V are the same specification.                                     *)
(***************************************************************************)
LEMMA SameInit == V!Init <=> P!Init
  BY DEF V!Init, P!Init, V!Honest, P!Honest, V!Root, P!Root

(***************************************************************************)
(* P and V have the same invariant.                                        *)
(***************************************************************************)
LEMMA SameIndInv == V!IndInv <=> P!IndInv
  BY DEF V!IndInv, V!TypeOK, V!AcceptedInv, V!LastVoteInv, V!VoteOrderInv,
         V!FinalizedInv, V!Justified, V!Certified, V!Voters, V!FinalizesParent,
         V!HasMajority, V!StakeOf, V!StakeUnits, V!TotalStake, V!Honest,
         V!Height, V!Parent, V!Hcc, V!Root, V!Blocks, V!Header, V!IsDescendant,
         V!Cardinality, P!IndInv, P!TypeOK, P!AcceptedInv, P!LastVoteInv,
         P!VoteOrderInv, P!FinalizedInv, P!Justified, P!Certified, P!Voters,
         P!FinalizesParent, P!HasMajority, P!StakeOf, P!StakeUnits,
         P!TotalStake, P!Honest, P!Height, P!Parent, P!Hcc, P!Root, P!Blocks,
         P!Header, P!IsDescendant, P!Cardinality

(***************************************************************************)
(* P and V have the same steps.                                            *)
(***************************************************************************)
LEMMA SameNext == V!Next <=> P!Next
<1>1. /\ V!Honest = P!Honest /\ V!Root = P!Root
      /\ \A S : V!Cardinality(S) = P!Cardinality(S)
      /\ \A b : /\ V!Height(b) = P!Height(b) /\ V!Parent(b) = P!Parent(b)
                /\ V!Epoch(b) = P!Epoch(b) /\ V!Hcc(b) = P!Hcc(b)
      /\ \A a, b : V!IsDescendant(a, b) <=> P!IsDescendant(a, b)
  BY DEF V!Honest, P!Honest, V!Root, P!Root, V!Cardinality, P!Cardinality,
         V!Height, P!Height, V!Parent, P!Parent, V!Epoch, P!Epoch, V!Hcc, P!Hcc,
         V!IsDescendant, P!IsDescendant
<1>2. \A b : /\ V!FinalizesParent(b) <=> P!FinalizesParent(b)
             /\ V!Certified(b) <=> P!Certified(b)
             /\ V!Justified(b) <=> P!Justified(b)
  BY <1>1 DEF V!FinalizesParent, P!FinalizesParent, V!Certified, P!Certified,
              V!Justified, P!Justified, V!Voters, P!Voters, V!HasMajority, P!HasMajority,
              V!StakeOf, P!StakeOf, V!StakeUnits, P!StakeUnits, V!TotalStake, P!TotalStake
<1>3. \A n : V!Branch(n) = P!Branch(n)
  BY <1>1 DEF V!Branch, P!Branch
<1>4. \A n, b : V!IsTip(n, b) <=> P!IsTip(n, b)
  BY <1>1, <1>3 DEF V!IsTip, P!IsTip
<1>5. \A n, b : V!MayVote(n, b) <=> P!MayVote(n, b)
  BY <1>1 DEF V!MayVote, P!MayVote, V!LastVoteHeight, P!LastVoteHeight
<1>6. \A n, b : V!ValidateBlock(n, b) <=> P!ValidateBlock(n, b)
  BY <1>1, <1>2 DEF V!ValidateBlock, P!ValidateBlock
<1>7. \A n, b : V!ProcessCCBlock(n, b) <=> P!ProcessCCBlock(n, b)
  BY <1>1, <1>2 DEF V!ProcessCCBlock, P!ProcessCCBlock
<1>8. \A n, b : V!AcceptBlock(n, b) <=> P!AcceptBlock(n, b)
  BY <1>1, <1>6, <1>7 DEF V!AcceptBlock, P!AcceptBlock
<1>9. \A n, b : /\ V!CheckCC(n, b) <=> P!CheckCC(n, b)
                /\ V!InterruptedCheckCC(n, b) <=> P!InterruptedCheckCC(n, b)
  BY <1>1, <1>2, <1>7
     DEF V!CheckCC, P!CheckCC, V!InterruptedCheckCC, P!InterruptedCheckCC
<1>10. \A n, b : V!Vote(n, b) <=> P!Vote(n, b)
  BY <1>4, <1>5 DEF V!Vote, P!Vote
<1>11. \A n, e : V!Propose(n, e) <=> P!Propose(n, e)
  BY <1>1, <1>3, <1>4 DEF V!Propose, P!Propose
<1>12. \A e : V!FaultyPropose(e) <=> P!FaultyPropose(e)
  BY <1>1 DEF V!FaultyPropose, P!FaultyPropose
<1> QED
  BY <1>1, <1>8, <1>9, <1>10, <1>11, <1>12 DEF V!Next, P!Next

(***************************************************************************)
(* The invariant of ChainVoting, and what it says of a block that is to be *)
(* finalized, in terms of the engine.                                      *)
(***************************************************************************)
LEMMA InitVoting ==
  ASSUME FaultBound, V!Init
  PROVE  V!IndInv
  BY VotingAssumptions, SameInit, SameIndInv, P!InitIndInv

(***************************************************************************)
(* Every step of ChainVoting keeps its invariant, for the variables of the *)
(* engine.                                                                 *)
(***************************************************************************)
LEMMA NextVoting ==
  ASSUME FaultBound, V!IndInv, [V!Next]_(V!vars)
  PROVE  V!IndInv'
<1>1. P!IndInv
  BY SameIndInv
<1>2. [P!Next]_(P!vars)
  <2>1. CASE V!Next
    BY <2>1, SameNext
  <2>2. CASE UNCHANGED V!vars
    BY <2>2 DEF V!vars, P!vars
  <2> QED
    BY <2>1, <2>2
<1>3. P!IndInv'
  BY <1>1, <1>2, VotingAssumptions, P!NextIndInv
<1>4. V!IndInv' <=> P!IndInv'
  BY SameIndInv, PTL
<1> QED
  BY <1>3, <1>4

(***************************************************************************)
(* The two parts of the invariant together give what the lemmas about the  *)
(* steps start from.                                                       *)
(***************************************************************************)
LEMMA MajoritiesDoGrow ==
  ASSUME FaultBound
  PROVE  MajoritiesGrow
<1>1. \A S : P!Cardinality(S) = Cardinality(S)
  BY DEF P!Cardinality, Cardinality
<1>2. \A S : P!HasMajority(S) <=> HasMajority(S)
  BY <1>1 DEF P!HasMajority, HasMajority, P!TotalStake, TotalStake,
              P!StakeOf, StakeOf, P!StakeUnits, StakeUnits
<1>3. ASSUME NEW S, NEW T, S \subseteq T, P!HasMajority(S) PROVE P!HasMajority(T)
  BY <1>3, VotingAssumptions, P!MajorityMonotone
<1> QED
  BY <1>2, <1>3 DEF MajoritiesGrow

(***************************************************************************)
(* The invariant of ChainVoting implies what the engine's own part takes   *)
(* from it.                                                                *)
(***************************************************************************)
LEMMA VotingPart == V!IndInv => VotingInv
<1> SUFFICES ASSUME V!IndInv PROVE VotingInv
  OBVIOUS
<1>1. voted \in [Honest -> SUBSET Blocks]
  BY VValidators, VBlocks DEF V!IndInv, V!TypeOK
<1>2. ASSUME NEW n \in Honest, NEW b \in voted[n] PROVE b \in StoredValid(n)
  BY VValidators DEF V!IndInv, V!LastVoteInv
<1>3. ASSUME NEW n \in Honest PROVE Height(db[n].lfb) <= Height(db[n].hcc)
  BY VValidators, VBlocks DEF V!IndInv, V!FinalizedInv
<1> QED
  BY <1>1, <1>2, <1>3 DEF VotingInv

(***************************************************************************)
(* The same in the next state.                                             *)
(***************************************************************************)
LEMMA VotingPartNext == V!IndInv' => VotingInv'
  BY VotingPart, PTL

(***************************************************************************)
(* The inductive invariant is what the lemmas about the steps start from.  *)
(***************************************************************************)
LEMMA StepsApply ==
  ASSUME FaultBound, IndInv
  PROVE  Inv
  BY MajoritiesDoGrow DEF IndInv, Inv

(***************************************************************************)
(* finalizeBlock only moves the last finalized block to one of its         *)
(* descendants, although it checks nothing of the kind.                    *)
(***************************************************************************)
LEMMA FinalizesOnwards ==
  ASSUME FaultBound, IndInv, NEW n \in Honest, FinalizeBlock(n)
  PROVE  IsDescendant(db[n].lfb, db'[n].lfb)
<1>1. PICK b : /\ V!Certified(b) /\ FinalizesParent(b) /\ Height(b) > Height(db[n].hcc)
               /\ db'[n].lfb = Parent(b)
  BY StepsApply, FinalizeBlockRefines
<1>2. P!IndInv
  BY SameIndInv DEF IndInv
<1>3. /\ P!Honest = Honest /\ P!Height(b) = Height(b) /\ P!Parent(b) = Parent(b)
      /\ P!Height(db[n].hcc) = Height(db[n].hcc)
      /\ P!FinalizesParent(b) <=> FinalizesParent(b)
      /\ \A a, c : P!IsDescendant(a, c) <=> IsDescendant(a, c)
  BY DEF P!Honest, Honest, P!Height, Height, P!Parent, Parent, P!Hcc, Hcc, P!Root, Root,
         P!FinalizesParent, FinalizesParent, P!IsDescendant, IsDescendant
<1>4. P!Certified(b)
  BY <1>1 DEF V!Certified, P!Certified, V!Voters, P!Voters, V!HasMajority, P!HasMajority,
              V!Honest, P!Honest, V!StakeOf, P!StakeOf, V!StakeUnits, P!StakeUnits,
              V!TotalStake, P!TotalStake, V!Cardinality, P!Cardinality
<1>5. /\ [m \in Honest |-> db[m].hcc][n] = db[n].hcc
      /\ [m \in Honest |-> db[m].lfb][n] = db[n].lfb
  OBVIOUS
<1>6. P!IsDescendant([m \in Honest |-> db[m].lfb][n], P!Parent(b))
  BY <1>1, <1>2, <1>3, <1>4, <1>5, VotingAssumptions, P!NextFinalized
<1> QED
  BY <1>1, <1>3, <1>5, <1>6

-----------------------------------------------------------------------------
(***************************************************************************)
(* The inductive invariant holds in the first state.                       *)
(***************************************************************************)
LEMMA EngineInit ==
  ASSUME FaultBound, Init
  PROVE  IndInv
<1>1. V!IndInv
  BY InitRefines, InitVoting
<1>2. Inv
  BY MajoritiesDoGrow, InitStep
<1> QED
  BY <1>1, <1>2 DEF IndInv, Inv

(***************************************************************************)
(* Every step keeps the inductive invariant and only moves statuses        *)
(* forward.                                                                *)
(***************************************************************************)
LEMMA EngineNext ==
  ASSUME FaultBound, IndInv, [Next]_vars
  PROVE  IndInv' /\ \A n \in Honest : StatusAdvances(n)
<1>1. Inv /\ V!IndInv
  BY StepsApply DEF IndInv
<1>2. [V!Next]_(V!vars)
  BY <1>1, NextRefines
<1>3. V!IndInv' /\ VotingInv'
  BY <1>1, <1>2, NextVoting, VotingPartNext
<1>4. Inv' /\ \A n \in Honest : StatusAdvances(n)
  <2>1. CASE Next
    <3>1. ASSUME NEW n \in Honest, FinalizeBlock(n)
          PROVE  IsDescendant(db[n].lfb, db'[n].lfb)
      BY <3>1, FinalizesOnwards
    <3> QED
      BY <1>1, <1>3, <2>1, <3>1, NextStep
  <2>2. CASE UNCHANGED vars
    BY <1>1, <1>3, <2>2, StutterStep
  <2> QED
    BY <2>1, <2>2
<1> QED
  BY <1>3, <1>4 DEF IndInv, Inv

-----------------------------------------------------------------------------
(***************************************************************************)
(* The inductive invariant holds in every reachable state: the database,   *)
(* the queue and the work left of every node fit together after every      *)
(* write of a handler, so also after a crash between two of them.          *)
(***************************************************************************)
THEOREM EngineInvariance == FaultBound => (Spec => []IndInv)
<1> SUFFICES ASSUME FaultBound PROVE Spec => []IndInv
  OBVIOUS
<1>1. Init => IndInv
  BY EngineInit
<1>2. IndInv /\ [Next]_vars => IndInv'
  BY EngineNext
<1> QED
  BY <1>1, <1>2, PTL DEF Spec

(***************************************************************************)
(* Every step of the engine, crashes included, is a step of ChainVoting or *)
(* changes nothing ChainVoting speaks about.                               *)
(***************************************************************************)
THEOREM ImplementsChainVotingHolds == FaultBound => (Spec => ImplementsChainVoting)
<1> SUFFICES ASSUME FaultBound PROVE Spec => ImplementsChainVoting
  OBVIOUS
<1>1. Init => V!Init
  BY InitRefines
<1>2. IndInv /\ [Next]_vars => [V!Next]_(V!vars)
  BY StepsApply, NextRefines
<1>3. Spec => []IndInv
  BY EngineInvariance
<1> QED
  BY <1>1, <1>2, <1>3, PTL DEF Spec, ImplementsChainVoting, V!Spec

(***************************************************************************)
(* The nodes never finalize conflicting blocks.                            *)
(***************************************************************************)
THEOREM NodesAgree ==
  FaultBound => (Spec => [](\A m, n \in Honest : SameChain(db[m].lfb, db[n].lfb)))
<1> SUFFICES ASSUME FaultBound
             PROVE  Spec => [](\A m, n \in Honest : SameChain(db[m].lfb, db[n].lfb))
  OBVIOUS
<1>1. IndInv => \A m, n \in Honest : SameChain(db[m].lfb, db[n].lfb)
  <2> SUFFICES ASSUME IndInv, NEW m \in Honest, NEW n \in Honest
               PROVE  SameChain(db[m].lfb, db[n].lfb)
    OBVIOUS
  <2>1. P!Agreement
    BY SameIndInv, VotingAssumptions, P!IndInvSafe DEF IndInv
  <2>2. P!Honest = Honest /\ \A a, b : P!SameChain(a, b) <=> SameChain(a, b)
    BY DEF P!Honest, Honest, P!SameChain, SameChain, P!IsDescendant, IsDescendant
  <2>3. P!SameChain([k \in Honest |-> db[k].lfb][m], [k \in Honest |-> db[k].lfb][n])
    BY <2>1, <2>2 DEF P!Agreement
  <2>4. /\ [k \in Honest |-> db[k].lfb][m] = db[m].lfb
        /\ [k \in Honest |-> db[k].lfb][n] = db[n].lfb
    OBVIOUS
  <2> QED
    BY <2>2, <2>3, <2>4
<1>2. Spec => []IndInv
  BY EngineInvariance
<1> QED
  BY <1>1, <1>2, PTL

(***************************************************************************)
(* A validator never signs votes for two blocks of one height, over all    *)
(* epochs and restarts.                                                    *)
(***************************************************************************)
THEOREM OneVotePerHeightHolds == FaultBound => (Spec => []OneVotePerHeight)
<1> SUFFICES ASSUME FaultBound PROVE Spec => []OneVotePerHeight
  OBVIOUS
<1>1. IndInv => OneVotePerHeight
  <2> SUFFICES ASSUME IndInv, NEW v \in sent, NEW w \in sent, v.voter = w.voter,
                      Height(v.block) = Height(w.block)
               PROVE  v.block = w.block
    BY DEF OneVotePerHeight
  <2>1. /\ v.voter \in Honest /\ v.block \in voted[v.voter] /\ w.block \in voted[v.voter]
    BY DEF IndInv, EngineInv, MessageInv
  <2>2. V!VoteOrderInv
    BY DEF IndInv, V!IndInv
  <2> QED
    BY <2>1, <2>2, VValidators, VBlocks DEF V!VoteOrderInv
<1>2. Spec => []IndInv
  BY EngineInvariance
<1> QED
  BY <1>1, <1>2, PTL

(***************************************************************************)
(* Every block in the queue of a node is stored, and its parent has been   *)
(* processed: the Fatal and Panic branches of handleBlock,                 *)
(* handleNormalBlock and validateBlock are never reached.                  *)
(***************************************************************************)
THEOREM ParentIsProcessedHolds == FaultBound => (Spec => []ParentIsProcessed)
<1> SUFFICES ASSUME FaultBound PROVE Spec => []ParentIsProcessed
  OBVIOUS
<1>1. IndInv => ParentIsProcessed
  BY DEF IndInv, EngineInv, QueueInv, TypeOK, NodeTypeOK, ParentIsProcessed
<1>2. Spec => []IndInv
  BY EngineInvariance
<1> QED
  BY <1>1, <1>2, PTL

(***************************************************************************)
(* The status of a stored block only moves forward, whichever of its       *)
(* writers wrote it last.                                                  *)
(***************************************************************************)
THEOREM StatusOnlyAdvancesHolds == FaultBound => (Spec => StatusOnlyAdvances)
<1> SUFFICES ASSUME FaultBound PROVE Spec => StatusOnlyAdvances
  OBVIOUS
<1> DEFINE Advances == \A n \in Honest : \A b \in Stored(n) :
       /\ b \in Stored(n)'
       /\ \/ db'[n].status[b] = db[n].status[b]
          \/ /\ Rank(db[n].status[b]) < Rank(db'[n].status[b])
             /\ db'[n].status[b] = "invalid" => db[n].status[b] = "pending"
<1>1. IndInv /\ [Next]_vars => Advances
  BY EngineNext DEF StatusAdvances
<1>2. Spec => []IndInv
  BY EngineInvariance
<1>3. StatusOnlyAdvances <=> [][Advances]_vars
  BY DEF StatusOnlyAdvances
<1> HIDE DEF Advances
<1> QED
  BY <1>1, <1>2, <1>3, PTL DEF Spec
=============================================================================
