---------------------------- MODULE ChainVoting ----------------------------
(***************************************************************************)
(* The safety core of the consensus engine (consensus/engine.go), for all  *)
(* validators of one dynasty at once: which blocks a validator accepts,    *)
(* which it votes for, when it takes a block as its highest block with a   *)
(* commit certificate (HCC), and when it finalizes one.                    *)
(*                                                                         *)
(* Every variable of an honest validator below is one the engine writes to *)
(* its database before it acts on it, so a crash followed by a restart is  *)
(* a stuttering step here.  Message passing is abstracted to what has been *)
(* sent: "proposed" and "votes" only grow, and a validator acts on any     *)
(* part of them at any time, which covers loss, delay, duplication and     *)
(* reordering.  Timers and epochs only decide when a step is taken; module *)
(* ConsensusEngine models them and implements this specification.          *)
(***************************************************************************)
EXTENDS ValidatorSets, BlockTree

CONSTANTS
  Proposer,   \* the proposer of every epoch (GetNextProposer)
  MaxBlocks,  \* a bound on the number of blocks proposed
  NoVote      \* the zero Vote: nothing voted for yet

ASSUME VotingAssumption ==
  /\ Proposer \in [Epochs -> Validators]
  /\ NoVote \notin Blocks

(***************************************************************************)
(* The fault model of a two-thirds majority: at most a third of the stake  *)
(* is held by validators that do not run this program.                     *)
(***************************************************************************)
ASSUME FaultAssumption ==
  /\ Faulty \subseteq Validators
  /\ 3 * StakeOf(Faulty) <= TotalStake

VARIABLES
  proposed,   \* blocks broadcast so far
  valid,      \* valid[n]: the blocks n stores with a status that IsValid
  votes,      \* votes[n]: the blocks n has broadcast a vote for
  lastVote,   \* lastVote[n]: state.LastVote
  hcc,        \* hcc[n]: state.HighestCCBlock
  lfb         \* lfb[n]: state.LastFinalizedBlock

vars == <<proposed, valid, votes, lastVote, hcc, lfb>>

Init ==
  /\ proposed = {}
  /\ valid = [n \in Honest |-> {Root}]
  /\ votes = [n \in Honest |-> {}]
  /\ lastVote = [n \in Honest |-> NoVote]
  /\ hcc = [n \in Honest |-> Root]
  /\ lfb = [n \in Honest |-> Root]

-----------------------------------------------------------------------------
(***************************************************************************)
(* The validators whose signed vote for b somebody may hold.  A faulty     *)
(* validator may sign any block at any time, so its vote always counts.    *)
(***************************************************************************)
Voters(b) == {v \in Honest : b \in votes[v]} \cup Faulty

(***************************************************************************)
(* A commit certificate for b can be assembled.                            *)
(***************************************************************************)
Certified(b) == HasMajority(Voters(b))

(***************************************************************************)
(* The root needs no certificate: it is finalized from the start.          *)
(***************************************************************************)
Justified(b) == b = Root \/ Certified(b)

(***************************************************************************)
(* The finalization rule: b2.Parent = b2.HCC.                              *)
(***************************************************************************)
FinalizesParent(b) == b # Root /\ Hcc(b) = Parent(b)

\* Mutant of ProcessCCBlock: the height is not compared with the HCC's.
ProcessCCBlockOfAnyHeight(n, b) ==
  /\ hcc' = [hcc EXCEPT ![n] = b]
  /\ lfb' = IF FinalizesParent(b) THEN [lfb EXCEPT ![n] = Parent(b)] ELSE lfb

(***************************************************************************)
(* processCCBlock and finalizeBlock at n for the certified block b:        *)
(* nothing unless b is higher than the current HCC; otherwise b becomes    *)
(* the HCC, and its parent the last finalized block if the rule says so.   *)
(***************************************************************************)
ProcessCCBlock(n, b) ==
  IF Height(b) <= Height(hcc[n])
    THEN UNCHANGED <<hcc, lfb>>
    ELSE /\ hcc' = [hcc EXCEPT ![n] = b]
         /\ lfb' = IF FinalizesParent(b)
                     THEN [lfb EXCEPT ![n] = Parent(b)]
                     ELSE lfb

(***************************************************************************)
(* GetTip at n: a highest valid block among the descendants of the HCC.    *)
(* Which one, when several are equally high, depends on the order in which *)
(* n received them.                                                        *)
(***************************************************************************)
Branch(n) == {b \in valid[n] : IsDescendant(hcc[n], b)}

IsTip(n, b) == b \in Branch(n) /\ \A c \in Branch(n) : Height(c) <= Height(b)

LastVoteHeight(n) == IF lastVote[n] = NoVote THEN 0 ELSE Height(lastVote[n])

(***************************************************************************)
(* vote() casts a new vote for the tip b, rather than repeat the last one: *)
(* always while nothing above height 0 was voted for, else only when b is  *)
(* higher than the last vote and certifies exactly the local HCC.          *)
(***************************************************************************)
MayVote(n, b) ==
  LastVoteHeight(n) # 0 => /\ Height(b) > LastVoteHeight(n)
                           /\ Hcc(b) = hcc[n]

(***************************************************************************)
(* validateBlock at n, as far as honest validators can disagree about it.  *)
(* The certificate is not looked at when the block it is for is finalized, *)
(* which also a block without a certificate of its own can be.             *)
(***************************************************************************)
ValidateBlock(n, b) ==
  /\ Height(b) > Height(lfb[n])
  /\ Epoch(Parent(b)) < Epoch(b)
  /\ Parent(b) \in valid[n]
  /\ Justified(Hcc(b)) \/ IsDescendant(Hcc(b), lfb[n])

-----------------------------------------------------------------------------
(***************************************************************************)
(* propose() and createProposal(): the proposer n of epoch e extends its   *)
(* tip and attaches the certificate of its HCC.                            *)
(***************************************************************************)
Propose(n, e) ==
  /\ Proposer[e] = n
  /\ Cardinality(proposed) < MaxBlocks
  /\ \E tip \in Branch(n), p \in Payloads :
       /\ IsTip(n, tip)
       /\ e > Epoch(tip)
       /\ proposed' = proposed \cup
            {Append(tip, [epoch |-> e, hcc |-> Len(hcc[n]), payload |-> p])}
  /\ UNCHANGED <<valid, votes, lastVote, hcc, lfb>>

(***************************************************************************)
(* A faulty proposer extends any block with any certificate, repeatedly.   *)
(***************************************************************************)
FaultyPropose(e) ==
  /\ Proposer[e] \in Faulty
  /\ Cardinality(proposed) < MaxBlocks
  /\ \E parent \in proposed \cup {Root}, p \in Payloads :
       \E h \in 0 .. Len(parent) :
         proposed' = proposed \cup
            {Append(parent, [epoch |-> e, hcc |-> h, payload |-> p])}
  /\ UNCHANGED <<valid, votes, lastVote, hcc, lfb>>

\* Mutant of AcceptBlock: checkCC does not run for the certificate.
AcceptBlockOnly(n, b) ==
  /\ b \notin valid[n]
  /\ ValidateBlock(n, b)
  /\ valid' = [valid EXCEPT ![n] = @ \cup {b}]
  /\ UNCHANGED <<proposed, votes, lastVote, hcc, lfb>>

(***************************************************************************)
(* handleNormalBlock at n up to MarkBlockValid: the block is validated,    *)
(* checkCC runs for the block its certificate names, then it is valid.     *)
(***************************************************************************)
AcceptBlock(n, b) ==
  /\ b \notin valid[n]
  /\ ValidateBlock(n, b)
  /\ ProcessCCBlock(n, Hcc(b))
  /\ valid' = [valid EXCEPT ![n] = @ \cup {b}]
  /\ UNCHANGED <<proposed, votes, lastVote>>

(***************************************************************************)
(* checkCC at n once n holds a majority of votes for the valid block b:    *)
(* after a vote message, and at the end of handleNormalBlock.  Blocks that *)
(* are not higher than the HCC are skipped.                                *)
(***************************************************************************)
CheckCC(n, b) ==
  /\ b \in valid[n]
  /\ Height(b) > Height(hcc[n])
  /\ Certified(b)
  /\ ProcessCCBlock(n, b)
  /\ UNCHANGED <<proposed, valid, votes, lastVote>>

(***************************************************************************)
(* checkCC at n cut short by a crash: finalizeBlock stored the new last    *)
(* finalized block, and the new HCC was not stored any more.               *)
(***************************************************************************)
InterruptedCheckCC(n, b) ==
  /\ b \in valid[n]
  /\ Height(b) > Height(hcc[n])
  /\ FinalizesParent(b)
  /\ Certified(b)
  /\ lfb' = [lfb EXCEPT ![n] = Parent(b)]
  /\ UNCHANGED <<proposed, valid, votes, lastVote, hcc>>

(***************************************************************************)
(* vote() at n when it votes for the tip b.  LastVote is stored before the *)
(* vote is sent; a crash in between loses the message.                     *)
(***************************************************************************)
Vote(n, b) ==
  /\ IsTip(n, b)
  /\ MayVote(n, b)
  /\ lastVote' = [lastVote EXCEPT ![n] = b]
  /\ votes' = [votes EXCEPT ![n] = @ \cup {b}]
  /\ UNCHANGED <<proposed, valid, hcc, lfb>>

Next ==
  \/ \E e \in Epochs : FaultyPropose(e)
  \/ \E n \in Honest :
       \/ \E e \in Epochs : Propose(n, e)
       \/ \E b \in proposed : AcceptBlock(n, b)
       \/ \E b \in valid[n] : CheckCC(n, b)
       \/ \E b \in valid[n] : InterruptedCheckCC(n, b)
       \/ \E b \in valid[n] : Vote(n, b)

Spec == Init /\ [][Next]_vars

-----------------------------------------------------------------------------
TypeOK ==
  /\ proposed \subseteq Blocks
  /\ valid \in [Honest -> SUBSET Blocks]
  /\ votes \in [Honest -> SUBSET Blocks]
  /\ lastVote \in [Honest -> Blocks \cup {NoVote}]
  /\ hcc \in [Honest -> Blocks]
  /\ lfb \in [Honest -> Blocks]

(***************************************************************************)
(* Two honest validators never finalize conflicting blocks, whatever       *)
(* branches, orders of delivery and restarts led finalizeBlock there: it   *)
(* does not itself compare the new finalized block with the previous one.  *)
(***************************************************************************)
Agreement == \A m, n \in Honest : SameChain(lfb[m], lfb[n])

(***************************************************************************)
(* At most one block of a height collects a majority of votes, because     *)
(* vote() never votes twice at a height, also not after a restart.         *)
(***************************************************************************)
OneCertificatePerHeight ==
  \A b, c \in proposed :
    Height(b) = Height(c) /\ Certified(b) /\ Certified(c) => b = c

(***************************************************************************)
(* As soon as the votes that let some validator finalize Parent(b) have    *)
(* been cast, every certified block that is at least as high extends       *)
(* Parent(b), so no later HCC can leave the finalized chain.               *)
(***************************************************************************)
FinalizedIsExtended ==
  \A b, c \in proposed :
    /\ FinalizesParent(b) /\ Height(c) >= Height(Parent(b))
    /\ Certified(b) /\ Certified(c)
    => IsDescendant(Parent(b), c)

(***************************************************************************)
(* The last finalized blocks implement Finality: processCCBlock never      *)
(* replaces one by a block that does not extend it or that conflicts with  *)
(* what another validator finalized, although finalizeBlock checks neither.*)
(***************************************************************************)
F == INSTANCE Finality WITH Nodes <- Honest, final <- lfb

FinalityRefined == F!Spec

-----------------------------------------------------------------------------
(***************************************************************************)
(* The inductive invariant behind the properties above, in parts.          *)
(***************************************************************************)

(***************************************************************************)
(* handleNormalBlock accepts a block only after checkCC raised the local   *)
(* HCC at least as high as the block named by its certificate, and the HCC *)
(* never sinks below that again.  A certificate for the parent is a real   *)
(* one, although certificates for finalized blocks are not verified.       *)
(***************************************************************************)
AcceptedInv ==
  \A n \in Honest :
    /\ valid[n] \subseteq proposed \cup {Root}
    /\ Justified(hcc[n])
    /\ \A b \in valid[n] : /\ Height(Hcc(b)) <= Height(hcc[n])
                           /\ FinalizesParent(b) => Justified(Parent(b))

(***************************************************************************)
(* LastVote is the highest block voted for.                                *)
(***************************************************************************)
LastVoteInv ==
  \A n \in Honest : \A b \in votes[n] :
    /\ b \in valid[n]
    /\ lastVote[n] # NoVote
    /\ b = lastVote[n] \/ Height(b) < Height(lastVote[n])

(***************************************************************************)
(* A validator votes for one block of a height, and along its votes the    *)
(* certificates are for blocks of nondecreasing height.  They are real     *)
(* ones, except perhaps that of its first vote above height 0.             *)
(***************************************************************************)
VoteOrderInv ==
  \A n \in Honest : \A b, c \in votes[n] :
    /\ Height(b) = Height(c) => b = c
    /\ Height(b) < Height(c) => Height(Hcc(b)) <= Height(Hcc(c))
    /\ Height(b) < Height(c) /\ Height(b) # 0 => Justified(Hcc(c))

(***************************************************************************)
(* Whatever is finalized was finalized by a certified child, and is no     *)
(* higher than the HCC, also when a crash kept the child from becoming the *)
(* HCC.                                                                    *)
(***************************************************************************)
FinalizedInv ==
  \A n \in Honest :
    /\ Height(lfb[n]) <= Height(hcc[n])
    /\ \/ lfb[n] = Root
       \/ \E b \in proposed : /\ FinalizesParent(b) /\ Certified(b)
                              /\ Parent(b) = lfb[n]

IndInv ==
  TypeOK /\ AcceptedInv /\ LastVoteInv /\ VoteOrderInv /\ FinalizedInv
=============================================================================
