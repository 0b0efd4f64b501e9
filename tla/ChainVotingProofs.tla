------------------------- MODULE ChainVotingProofs -------------------------
(***************************************************************************)
(* Proofs about ChainVoting, for every set of validators, every stake      *)
(* distribution with at most a third of the stake faulty, every root and   *)
(* every number of blocks.                                                 *)
(***************************************************************************)
EXTENDS ChainVoting, BlockTreeProofs, FiniteSetTheorems, WellFoundedInduction

USE ZenonT(30)

-----------------------------------------------------------------------------
(***************************************************************************)
(* What the two-thirds rule of ValidatorSets guarantees, for every set of  *)
(* validators and every distribution of stake.                             *)
(***************************************************************************)

(***************************************************************************)
(* The stake units of validators are finite in number.                     *)
(***************************************************************************)
LEMMA StakeUnitsFinite ==
  ASSUME NEW S, S \subseteq Validators
  PROVE  IsFiniteSet(StakeUnits(S)) /\ StakeOf(S) \in Nat
<1>1. IsFiniteSet(S)
  BY ValidatorAssumption, FS_Subset
<1>2. IsFiniteSet(1 .. MaxStake)
  BY ValidatorAssumption, FS_Interval, SMTT(30)
<1>3. IsFiniteSet(S \X (1 .. MaxStake))
  BY <1>1, <1>2, FS_Product
<1>4. StakeUnits(S) \in SUBSET (S \X (1 .. MaxStake))
  BY DEF StakeUnits
<1>5. IsFiniteSet(StakeUnits(S))
  BY <1>3, <1>4, FS_Subset
<1> QED
  BY <1>5, FS_CardinalityType DEF StakeOf

(***************************************************************************)
(* More validators never hold less stake.                                  *)
(***************************************************************************)
LEMMA StakeMonotone ==
  ASSUME NEW S, NEW T, S \subseteq T, T \subseteq Validators
  PROVE  StakeOf(S) <= StakeOf(T)
<1>1. StakeUnits(S) \in SUBSET StakeUnits(T)
  BY DEF StakeUnits
<1> QED
  BY <1>1, StakeUnitsFinite, FS_Subset DEF StakeOf

(***************************************************************************)
(* TotalStake is additive: nobody's stake is counted twice.                *)
(***************************************************************************)
LEMMA StakeAdditive ==
  ASSUME NEW S, NEW T, S \subseteq Validators, T \subseteq Validators
  PROVE  StakeOf(S \cup T) = StakeOf(S) + StakeOf(T) - StakeOf(S \cap T)
<1>1. StakeUnits(S \cup T) = StakeUnits(S) \cup StakeUnits(T)
  BY DEF StakeUnits
<1>2. StakeUnits(S \cap T) = StakeUnits(S) \cap StakeUnits(T)
  BY DEF StakeUnits
<1>3. IsFiniteSet(StakeUnits(S)) /\ IsFiniteSet(StakeUnits(T))
  BY StakeUnitsFinite
<1>4. Cardinality(StakeUnits(S) \cup StakeUnits(T)) =
        Cardinality(StakeUnits(S)) + Cardinality(StakeUnits(T))
          - Cardinality(StakeUnits(S) \cap StakeUnits(T))
  BY <1>3, FS_Union
<1> QED
  BY <1>1, <1>2, <1>4 DEF StakeOf

(***************************************************************************)
(* Adding voters to a majority leaves it a majority.                       *)
(***************************************************************************)
LEMMA MajorityMonotone ==
  ASSUME NEW S, NEW T, S \subseteq T, HasMajority(S)
  PROVE  HasMajority(T)
<1>1. /\ StakeOf(S \cap Validators) \in Nat
      /\ StakeOf(T \cap Validators) \in Nat
      /\ TotalStake \in Nat
  BY StakeUnitsFinite DEF TotalStake
<1>2. StakeOf(S \cap Validators) <= StakeOf(T \cap Validators)
  BY StakeMonotone
<1> QED
  BY <1>1, <1>2, SMTT(30) DEF HasMajority

(***************************************************************************)
(* HasMajority's two thirds: any two majorities share a validator that     *)
(* runs this program, if the others hold at most a third of the stake.     *)
(***************************************************************************)
THEOREM QuorumIntersection ==
  ASSUME Faulty \subseteq Validators, 3 * StakeOf(Faulty) <= TotalStake,
         NEW S, NEW T, HasMajority(S), HasMajority(T)
  PROVE  \E v \in Honest : v \in S /\ v \in T
<1> DEFINE A == S \cap Validators
           B == T \cap Validators
<1>1. /\ StakeOf(A) \in Nat /\ StakeOf(B) \in Nat
      /\ StakeOf(A \cap B) \in Nat /\ StakeOf(A \cup B) \in Nat
      /\ StakeOf(Faulty) \in Nat /\ TotalStake \in Nat
  BY StakeUnitsFinite DEF TotalStake
<1>2. StakeOf(A \cup B) = StakeOf(A) + StakeOf(B) - StakeOf(A \cap B)
  BY StakeAdditive
<1>3. StakeOf(A \cup B) <= TotalStake
  BY StakeMonotone DEF TotalStake
<1>4. 3 * StakeOf(A) > 2 * TotalStake /\ 3 * StakeOf(B) > 2 * TotalStake
  BY DEF HasMajority
<1> HIDE DEF A, B
<1>5. 3 * StakeOf(A \cap B) > TotalStake
  BY <1>1, <1>2, <1>3, <1>4, SMTT(30)
<1>6. ~ (A \cap B \subseteq Faulty)
  <2> SUFFICES ASSUME A \cap B \subseteq Faulty PROVE FALSE
    OBVIOUS
  <2>1. StakeOf(A \cap B) <= StakeOf(Faulty)
    BY StakeMonotone
  <2> QED
    BY <2>1, <1>1, <1>5, SMTT(30)
<1> QED
  BY <1>6 DEF A, B, Honest

-----------------------------------------------------------------------------
(***************************************************************************)
(* A nonempty set of natural numbers has a least element.                  *)
(***************************************************************************)
LEMMA LeastNatural ==
  ASSUME NEW T, T \subseteq Nat, T # {}
  PROVE  \E x \in T : \A y \in T : x <= y
<1> DEFINE Less == {p \in Nat \X Nat : p[1] < p[2]}
<1>1. Less = OpToRel(<, Nat)
  BY DEF OpToRel
<1>2. IsWellFoundedOn(Less, Nat)
  BY <1>1, NatLessThanWellFounded
<1> HIDE DEF Less
<1>3. PICK x \in T : \A y \in T : <<y, x>> \notin Less
  BY <1>2, WFMin
<1>4. \A y \in T : ~ (y < x)
  BY <1>3 DEF Less
<1> QED
  BY <1>4, SMTT(30)

(***************************************************************************)
(* The initial state satisfies the inductive invariant.                    *)
(***************************************************************************)
LEMMA InitIndInv == Init => IndInv
<1> SUFFICES ASSUME Init PROVE IndInv
  OBVIOUS
<1>1. Root \in Blocks /\ Hcc(Root) = Root /\ Height(Root) <= Height(Root)
  BY RootType, BlockAssumption, SMTT(30)
<1>2. TypeOK
  BY <1>1 DEF Init, TypeOK
<1>3. AcceptedInv
  BY <1>1 DEF Init, AcceptedInv, Justified, FinalizesParent
<1>4. LastVoteInv /\ VoteOrderInv
  BY DEF Init, LastVoteInv, VoteOrderInv
<1>5. FinalizedInv
  BY <1>1 DEF Init, FinalizedInv
<1> QED
  BY <1>2, <1>3, <1>4, <1>5 DEF IndInv

(***************************************************************************)
(* Votes are never taken back, so a certified block stays certified.       *)
(***************************************************************************)
LEMMA CertifiedStable ==
  ASSUME TypeOK, TypeOK', \A n \in Honest : votes[n] \subseteq votes'[n]
  PROVE  \A b : /\ Certified(b) => Certified(b)'
                /\ Justified(b) => Justified(b)'
<1> SUFFICES ASSUME NEW b, Certified(b) PROVE Certified(b)'
  BY DEF Justified
<1>1. Voters(b) \subseteq Voters(b)'
  BY DEF Voters
<1> QED
  BY <1>1, MajorityMonotone DEF Certified

-----------------------------------------------------------------------------
(***************************************************************************)
(* What follows from the inductive invariant in one state.                 *)
(***************************************************************************)

(***************************************************************************)
(* Whatever is certified was voted for by a validator that runs this       *)
(* program, hence it was proposed, and a certificate for its parent was    *)
(* verified.                                                               *)
(***************************************************************************)
LEMMA CertifiedIsVoted ==
  ASSUME IndInv, NEW b, Certified(b)
  PROVE  /\ b \in Blocks
         /\ b \in proposed \cup {Root}
         /\ FinalizesParent(b) => Justified(Parent(b))
<1>1. PICK v \in Honest : v \in Voters(b)
  BY QuorumIntersection, FaultAssumption DEF Certified
<1>2. b \in votes[v]
  BY <1>1 DEF Voters, Honest
<1>3. b \in valid[v]
  BY <1>2 DEF IndInv, LastVoteInv
<1> QED
  BY <1>3 DEF IndInv, AcceptedInv, TypeOK

(***************************************************************************)
(* Two certified blocks were both voted for by one validator that runs     *)
(* this program.                                                           *)
(***************************************************************************)
LEMMA CommonVoter ==
  ASSUME NEW b, NEW c, Certified(b), Certified(c)
  PROVE  \E v \in Honest : b \in votes[v] /\ c \in votes[v]
<1>1. PICK v \in Honest : v \in Voters(b) /\ v \in Voters(c)
  BY QuorumIntersection, FaultAssumption DEF Certified
<1> QED
  BY <1>1 DEF Voters, Honest

(***************************************************************************)
(* At most one block per height is certified.                              *)
(***************************************************************************)
LEMMA CertifiedUnique ==
  ASSUME IndInv, NEW b, NEW c, Certified(b), Certified(c), Height(b) = Height(c)
  PROVE  b = c
<1>1. PICK v \in Honest : b \in votes[v] /\ c \in votes[v]
  BY CommonVoter
<1> QED
  BY <1>1 DEF IndInv, VoteOrderInv

(***************************************************************************)
(* The heart of the argument.  b makes its parent final and c is another   *)
(* certified block at least as high as that parent; c extends the parent.  *)
(* Otherwise take the lowest such c.  It is higher than b, so a common     *)
(* voter voted for b first, and its HCC was then at least at the parent's  *)
(* height.  Hence Hcc(c) is a lower block that does not extend the parent. *)
(***************************************************************************)
LEMMA FinalExtended ==
  ASSUME IndInv,
         NEW b, FinalizesParent(b), Certified(b),
         NEW c, Justified(c), Height(c) >= Height(Parent(b))
  PROVE  IsDescendant(Parent(b), c)
<1> DEFINE Bad == {d \in proposed \cup {Root} :
                     /\ Justified(d)
                     /\ Height(d) >= Height(Parent(b))
                     /\ ~ IsDescendant(Parent(b), d)}
<1>1. /\ b \in Blocks /\ b # Root /\ Hcc(b) = Parent(b)
      /\ Parent(b) \in Blocks /\ Justified(Parent(b))
      /\ Height(Parent(b)) = Height(b) - 1
      /\ Height(b) \in Nat
      /\ IsDescendant(Parent(b), b)
  BY CertifiedIsVoted, ParentType, BlockType, SMTT(30) DEF FinalizesParent
<1>2. \A d : Justified(d) => d \in Blocks /\ d \in proposed \cup {Root}
  BY CertifiedIsVoted, RootType DEF Justified
<1>3. ASSUME Bad # {} PROVE FALSE
  <2> DEFINE Heights == {Height(d) : d \in Bad}
  <2>1. Heights \subseteq Nat /\ Heights # {}
    BY <1>2, <1>3, BlockType
  <2>2. PICK h \in Heights : \A k \in Heights : h <= k
    BY <2>1, LeastNatural
  <2>3. PICK d \in Bad : \A e \in Bad : Height(d) <= Height(e)
    BY <2>2, SMTT(30)
  <2>4. /\ d \in Blocks /\ Height(d) \in Nat
        /\ Justified(d) /\ Height(d) >= Height(Parent(b))
        /\ ~ IsDescendant(Parent(b), d)
    BY <1>2, <2>3, BlockType
  <2>5. d # Root
    <3> SUFFICES ASSUME d = Root PROVE FALSE
      OBVIOUS
    <3>1. Height(Parent(b)) = Height(Root)
      BY <1>1, <2>4, RootType, DescendantBasics, SMTT(30)
    <3>2. Parent(b) = Root
      BY <1>1, <3>1, RootType, DescendantBasics
    <3> QED
      BY <2>4, <3>2, RootType, DescendantBasics
  <2>6. Certified(d)
    BY <2>4, <2>5 DEF Justified
  <2>7. Height(d) # Height(Parent(b))
    <3> SUFFICES ASSUME Height(d) = Height(Parent(b)) PROVE FALSE
      OBVIOUS
    <3>1. Parent(b) # Root
      BY <2>4, RootType, DescendantBasics
    <3>2. Certified(Parent(b))
      BY <1>1, <3>1 DEF Justified
    <3>3. d = Parent(b)
      BY <2>6, <3>2, CertifiedUnique
    <3> QED
      BY <1>1, <2>4, <3>3, DescendantBasics
  <2>8. Height(d) # Height(b)
    BY <1>1, <2>4, <2>6, CertifiedUnique
  <2>9. Height(b) < Height(d)
    BY <1>1, <2>4, <2>7, <2>8, SMTT(30)
  <2>10. PICK v \in Honest : b \in votes[v] /\ d \in votes[v]
    BY <2>6, CommonVoter
  <2>11. Height(Parent(b)) <= Height(Hcc(d))
    BY <1>1, <2>9, <2>10 DEF IndInv, VoteOrderInv
  <2>12. /\ Hcc(d) \in Blocks /\ Justified(Hcc(d)) /\ IsDescendant(Hcc(d), d)
         /\ Height(Hcc(d)) \in Nat /\ Height(Hcc(d)) < Height(d)
    <3>1. Height(b) # 0
      BY <1>1, BlockType, SMTT(30)
    <3>2. Justified(Hcc(d))
      BY <2>9, <2>10, <3>1 DEF IndInv, VoteOrderInv
    <3> QED
      BY <2>4, <2>5, <3>2, HccType
  <2>13. Hcc(d) \notin Bad
    BY <2>3, <2>4, <2>12, SMTT(30)
  <2>14. Hcc(d) \in proposed \cup {Root}
    BY <1>2, <2>12
  <2>15. IsDescendant(Parent(b), Hcc(d))
    BY <1>1, <2>11, <2>12, <2>13, <2>14
  <2> QED
    BY <1>1, <2>4, <2>12, <2>15, DescendantTransitive
<1> QED
  BY <1>2, <1>3

(***************************************************************************)
(* IndInv implies the safety properties.                                   *)
(***************************************************************************)
LEMMA IndInvSafe ==
  IndInv => Agreement /\ OneCertificatePerHeight /\ FinalizedIsExtended
<1> SUFFICES ASSUME IndInv
             PROVE  Agreement /\ OneCertificatePerHeight /\ FinalizedIsExtended
  OBVIOUS
<1>1. OneCertificatePerHeight
  BY CertifiedUnique DEF OneCertificatePerHeight
<1>2. FinalizedIsExtended
  BY FinalExtended DEF FinalizedIsExtended, Justified
<1>3. Agreement
  <2> SUFFICES ASSUME NEW m \in Honest, NEW n \in Honest,
                      Height(lfb[m]) <= Height(lfb[n])
               PROVE  IsDescendant(lfb[m], lfb[n])
    BY BlockType, SMTT(30) DEF Agreement, SameChain, IndInv, TypeOK
  <2>1. lfb[m] \in Blocks /\ lfb[n] \in Blocks
    BY DEF IndInv, TypeOK
  <2>2. CASE lfb[m] = Root
    BY <2>1, <2>2, DescendantBasics
  <2>3. CASE lfb[m] # Root
    <3>1. PICK b \in proposed : /\ FinalizesParent(b) /\ Certified(b)
                                /\ Parent(b) = lfb[m]
      BY <2>3 DEF IndInv, FinalizedInv
    <3>2. Justified(lfb[n])
      BY CertifiedIsVoted DEF IndInv, FinalizedInv, FinalizesParent, Justified
    <3>3. Height(lfb[n]) >= Height(Parent(b))
      BY <2>1, <3>1, BlockType
    <3> QED
      BY <3>1, <3>2, <3>3, FinalExtended
  <2> QED
    BY <2>2, <2>3
<1> QED
  BY <1>1, <1>2, <1>3

-----------------------------------------------------------------------------
(***************************************************************************)
(* The inductive invariant is preserved.                                   *)
(***************************************************************************)

(***************************************************************************)
(* A finalized block is justified.                                         *)
(***************************************************************************)
LEMMA FinalizedJustified ==
  ASSUME IndInv, NEW n \in Honest
  PROVE  Justified(lfb[n])
  BY CertifiedIsVoted DEF IndInv, FinalizedInv, Justified

(***************************************************************************)
(* The parent a certified block above the HCC makes final extends what was *)
(* final before.                                                           *)
(***************************************************************************)
LEMMA NextFinalized ==
  ASSUME IndInv, NEW n \in Honest, NEW b, Certified(b), FinalizesParent(b),
         Height(b) > Height(hcc[n])
  PROVE  /\ b \in proposed /\ Parent(b) \in Blocks
         /\ Height(Parent(b)) = Height(b) - 1 /\ Height(b) \in Nat
         /\ Justified(Parent(b))
         /\ IsDescendant(lfb[n], Parent(b))
<1>1. /\ b # Root /\ b \in proposed /\ b \in Blocks
      /\ Parent(b) \in Blocks /\ Justified(Parent(b))
      /\ Height(Parent(b)) = Height(b) - 1 /\ Height(b) \in Nat
  BY CertifiedIsVoted, ParentType, BlockType, SMTT(30) DEF FinalizesParent
<1>2. /\ Height(hcc[n]) \in Nat /\ Height(lfb[n]) \in Nat
      /\ Height(lfb[n]) <= Height(hcc[n])
  BY BlockType DEF IndInv, TypeOK, FinalizedInv
<1>3. Height(Parent(b)) >= Height(lfb[n])
  BY <1>1, <1>2, SMTT(30)
<1>4. CASE lfb[n] = Root
  BY <1>1, <1>4, DescendantBasics
<1>5. CASE lfb[n] # Root
  <2>1. PICK c \in proposed : /\ FinalizesParent(c) /\ Certified(c)
                              /\ Parent(c) = lfb[n]
    BY <1>5 DEF IndInv, FinalizedInv
  <2> QED
    BY <1>1, <1>3, <2>1, FinalExtended
<1> QED
  BY <1>1, <1>4, <1>5

(***************************************************************************)
(* What processCCBlock does to the highest certified and the last          *)
(* finalized block.  A block that is not justified is too low to matter.   *)
(***************************************************************************)
LEMMA ProcessCCBlockEffect ==
  ASSUME IndInv, NEW n \in Honest, NEW b \in Blocks,
         Justified(b) \/ Height(b) <= Height(hcc[n]), ProcessCCBlock(n, b)
  PROVE  /\ hcc' \in [Honest -> Blocks]
         /\ lfb' \in [Honest -> Blocks]
         /\ Height(b) <= Height(hcc'[n])
         /\ \A m \in Honest : /\ Justified(hcc'[m])
                              /\ Height(hcc[m]) <= Height(hcc'[m])
                              /\ Height(lfb'[m]) <= Height(hcc'[m])
                              /\ \/ lfb'[m] = Root
                                 \/ \E c \in proposed :
                                      /\ FinalizesParent(c) /\ Certified(c)
                                      /\ Parent(c) = lfb'[m]
                              /\ IsDescendant(lfb[m], lfb'[m])
<1>1. /\ Height(b) \in Nat
      /\ hcc \in [Honest -> Blocks] /\ lfb \in [Honest -> Blocks]
      /\ \A m \in Honest : /\ Height(hcc[m]) \in Nat
                           /\ Height(lfb[m]) \in Nat
                           /\ Justified(hcc[m])
                           /\ Height(lfb[m]) <= Height(hcc[m])
                           /\ IsDescendant(lfb[m], lfb[m])
                           /\ \/ lfb[m] = Root
                              \/ \E c \in proposed :
                                   /\ FinalizesParent(c) /\ Certified(c)
                                   /\ Parent(c) = lfb[m]
  BY BlockType, DescendantBasics DEF IndInv, TypeOK, AcceptedInv, FinalizedInv
<1>2. CASE Height(b) <= Height(hcc[n])
  BY <1>1, <1>2, SMTT(30) DEF ProcessCCBlock
<1>3. CASE ~ (Height(b) <= Height(hcc[n]))
  <2>1. /\ hcc' = [hcc EXCEPT ![n] = b]
        /\ lfb' = IF FinalizesParent(b) THEN [lfb EXCEPT ![n] = Parent(b)] ELSE lfb
        /\ Justified(b)
    BY <1>3 DEF ProcessCCBlock
  <2>2. /\ hcc'[n] = b /\ hcc' \in [Honest -> Blocks]
        /\ \A m \in Honest : m # n => hcc'[m] = hcc[m]
        /\ Height(hcc[n]) < Height(b)
    BY <1>1, <1>3, <2>1, SMTT(30)
  <2>3. CASE ~ FinalizesParent(b)
    <3>1. lfb' = lfb /\ Height(lfb[n]) <= Height(b) /\ Height(b) <= Height(b)
      BY <1>1, <2>1, <2>2, <2>3, SMTT(30)
    <3>2. ASSUME NEW m \in Honest
          PROVE  /\ Justified(hcc'[m])
                 /\ Height(hcc[m]) <= Height(hcc'[m])
                 /\ Height(lfb[m]) <= Height(hcc'[m])
      BY <1>1, <2>1, <2>2, <3>1, SMTT(30)
    <3> QED
      BY <1>1, <2>2, <3>1, <3>2
  <2>4. CASE FinalizesParent(b)
    <3>1. /\ b \in proposed /\ Parent(b) \in Blocks /\ Certified(b)
          /\ Height(Parent(b)) = Height(b) - 1
          /\ IsDescendant(lfb[n], Parent(b))
      BY <1>1, <2>1, <2>2, <2>4, NextFinalized DEF FinalizesParent, Justified
    <3>2. /\ lfb'[n] = Parent(b) /\ lfb' \in [Honest -> Blocks]
          /\ \A m \in Honest : m # n => lfb'[m] = lfb[m]
      BY <1>1, <2>1, <2>4, <3>1
    <3>3. /\ Height(Parent(b)) <= Height(b) /\ Height(hcc[n]) <= Height(b)
          /\ Height(b) <= Height(b)
      BY <1>1, <2>2, <3>1, SMTT(30)
    <3>4. ASSUME NEW m \in Honest
          PROVE  /\ Justified(hcc'[m])
                 /\ Height(hcc[m]) <= Height(hcc'[m])
                 /\ Height(lfb'[m]) <= Height(hcc'[m])
                 /\ IsDescendant(lfb[m], lfb'[m])
      <4>1. CASE m = n
        BY <2>1, <2>2, <3>1, <3>2, <3>3, <4>1
      <4>2. CASE m # n
        BY <1>1, <2>2, <3>2, <4>2, SMTT(30)
      <4> QED
        BY <4>1, <4>2
    <3>5. ASSUME NEW m \in Honest
          PROVE  \/ lfb'[m] = Root
                 \/ \E c \in proposed : /\ FinalizesParent(c) /\ Certified(c)
                                        /\ Parent(c) = lfb'[m]
      BY <1>1, <2>4, <3>1, <3>2
    <3> QED
      BY <2>2, <3>2, <3>3, <3>4, <3>5
  <2> QED
    BY <2>3, <2>4
<1> QED
  BY <1>2, <1>3

(***************************************************************************)
(* A proposal changes nothing but the set of proposed blocks.              *)
(***************************************************************************)
LEMMA ProposePreserves ==
  ASSUME IndInv, proposed \subseteq proposed', proposed' \subseteq Blocks,
         UNCHANGED <<valid, votes, lastVote, hcc, lfb>>
  PROVE  IndInv'
<1>1. \A b : (Certified(b)' <=> Certified(b)) /\ (Justified(b)' <=> Justified(b))
  BY DEF Certified, Voters, Justified
<1>2. TypeOK'
  BY DEF IndInv, TypeOK
<1>3. AcceptedInv'
  BY <1>1 DEF IndInv, AcceptedInv
<1>4. LastVoteInv' /\ VoteOrderInv'
  BY <1>1 DEF IndInv, LastVoteInv, VoteOrderInv
<1>5. FinalizedInv'
  BY <1>1 DEF IndInv, FinalizedInv
<1> QED
  BY <1>2, <1>3, <1>4, <1>5 DEF IndInv

(***************************************************************************)
(* What a step that casts no vote has to establish to keep IndInv.         *)
(***************************************************************************)
LEMMA ChainStepPreserves ==
  ASSUME IndInv, UNCHANGED <<proposed, votes, lastVote>>,
         valid' \in [Honest -> SUBSET Blocks],
         hcc' \in [Honest -> Blocks], lfb' \in [Honest -> Blocks],
         \A m \in Honest :
           /\ valid[m] \subseteq valid'[m]
           /\ Justified(hcc'[m])
           /\ Height(hcc[m]) <= Height(hcc'[m])
           /\ Height(lfb'[m]) <= Height(hcc'[m])
           /\ \/ lfb'[m] = Root
              \/ \E c \in proposed : /\ FinalizesParent(c) /\ Certified(c)
                                     /\ Parent(c) = lfb'[m],
         \A m \in Honest : \A c \in valid'[m] :
           c \in valid[m] \/ /\ c \in proposed
                             /\ Height(Hcc(c)) <= Height(hcc'[m])
                             /\ FinalizesParent(c) => Justified(Parent(c))
  PROVE  IndInv'
<1>1. \A c : (Certified(c)' <=> Certified(c)) /\ (Justified(c)' <=> Justified(c))
  BY DEF Certified, Voters, Justified
<1>2. TypeOK'
  BY DEF IndInv, TypeOK
<1>3. AcceptedInv'
  <2> SUFFICES ASSUME NEW m \in Honest, NEW c \in valid'[m]
               PROVE  /\ c \in proposed \cup {Root}
                      /\ Height(Hcc(c)) <= Height(hcc'[m])
                      /\ FinalizesParent(c) => Justified(Parent(c))
    BY <1>1 DEF AcceptedInv
  <2>1. CASE c \in valid[m]
    <3>1. /\ c \in proposed \cup {Root}
          /\ Height(Hcc(c)) <= Height(hcc[m])
          /\ FinalizesParent(c) => Justified(Parent(c))
      BY <2>1 DEF IndInv, AcceptedInv
    <3>2. /\ Height(Hcc(c)) \in Nat /\ Height(hcc[m]) \in Nat
          /\ Height(hcc'[m]) \in Nat
      BY <2>1, HccType, BlockType DEF IndInv, TypeOK
    <3>3. Height(hcc[m]) <= Height(hcc'[m])
      OBVIOUS
    <3> QED
      BY <3>1, <3>2, <3>3, SMTT(30)
  <2>2. CASE c \notin valid[m]
    BY <2>2
  <2> QED
    BY <2>1, <2>2
<1>4. LastVoteInv'
  BY DEF IndInv, LastVoteInv
<1>5. VoteOrderInv'
  BY <1>1 DEF IndInv, VoteOrderInv
<1>6. FinalizedInv'
  BY <1>1 DEF FinalizedInv
<1> QED
  BY <1>2, <1>3, <1>4, <1>5, <1>6 DEF IndInv

(***************************************************************************)
(* Accepting a block keeps IndInv: the HCC rises to the block its          *)
(* certificate names before the block counts as valid.  A certificate for  *)
(* the parent that was not verified is for the last finalized block.       *)
(***************************************************************************)
LEMMA AcceptBlockPreserves ==
  ASSUME IndInv, NEW n \in Honest, NEW b \in proposed, AcceptBlock(n, b)
  PROVE  IndInv' /\ \A m \in Honest : IsDescendant(lfb[m], lfb'[m])
<1>1. /\ b \in Blocks /\ lfb[n] \in Blocks /\ hcc[n] \in Blocks
      /\ Hcc(b) \in Blocks /\ ValidateBlock(n, b) /\ ProcessCCBlock(n, Hcc(b))
      /\ Height(Hcc(b)) \in Nat
  BY HccType DEF IndInv, TypeOK, AcceptBlock
<1>2. /\ Height(b) \in Nat /\ Height(lfb[n]) \in Nat /\ Height(hcc[n]) \in Nat
      /\ Height(lfb[n]) <= Height(hcc[n])
      /\ Height(lfb[n]) < Height(b)
  BY <1>1, BlockType DEF IndInv, FinalizedInv, ValidateBlock
<1>3. Justified(Hcc(b)) \/ Height(Hcc(b)) <= Height(hcc[n])
  <2> SUFFICES ASSUME IsDescendant(Hcc(b), lfb[n])
               PROVE  Height(Hcc(b)) <= Height(hcc[n])
    BY <1>1 DEF ValidateBlock
  <2>1. Height(Hcc(b)) <= Height(lfb[n])
    BY <1>1, DescendantBasics
  <2> QED
    BY <1>1, <1>2, <2>1, SMTT(30)
<1>4. ASSUME FinalizesParent(b) PROVE Justified(Parent(b))
  <2>1. /\ Hcc(b) = Parent(b) /\ b # Root
        /\ Height(Parent(b)) = Height(b) - 1
    BY <1>1, <1>4, ParentType DEF FinalizesParent
  <2>2. CASE Justified(Hcc(b))
    BY <2>1, <2>2
  <2>3. CASE IsDescendant(Hcc(b), lfb[n])
    <3>1. Height(Hcc(b)) <= Height(lfb[n])
      BY <1>1, <2>3, DescendantBasics
    <3>2. Height(Hcc(b)) = Height(lfb[n])
      BY <1>1, <1>2, <2>1, <3>1, SMTT(30)
    <3>3. Hcc(b) = lfb[n]
      BY <1>1, <2>3, <3>2, DescendantBasics
    <3> QED
      BY <2>1, <3>3, FinalizedJustified
  <2> QED
    BY <1>1, <2>2, <2>3 DEF ValidateBlock
<1>5. /\ hcc' \in [Honest -> Blocks]
      /\ lfb' \in [Honest -> Blocks]
      /\ Height(Hcc(b)) <= Height(hcc'[n])
      /\ \A m \in Honest : /\ Justified(hcc'[m])
                           /\ Height(hcc[m]) <= Height(hcc'[m])
                           /\ Height(lfb'[m]) <= Height(hcc'[m])
                           /\ \/ lfb'[m] = Root
                              \/ \E c \in proposed :
                                   /\ FinalizesParent(c) /\ Certified(c)
                                   /\ Parent(c) = lfb'[m]
                           /\ IsDescendant(lfb[m], lfb'[m])
  BY <1>1, <1>3, ProcessCCBlockEffect
<1>6. /\ valid' \in [Honest -> SUBSET Blocks]
      /\ \A m \in Honest : valid[m] \subseteq valid'[m]
      /\ \A m \in Honest : \A c \in valid'[m] : c \in valid[m] \/ (m = n /\ c = b)
      /\ UNCHANGED <<proposed, votes, lastVote>>
  BY <1>1 DEF AcceptBlock, IndInv, TypeOK
<1>7. \A m \in Honest : \A c \in valid'[m] :
        c \in valid[m] \/ /\ c \in proposed
                          /\ Height(Hcc(c)) <= Height(hcc'[m])
                          /\ FinalizesParent(c) => Justified(Parent(c))
  BY <1>4, <1>5, <1>6
<1> QED
  BY <1>5, <1>6, <1>7, ChainStepPreserves

(***************************************************************************)
(* Taking a block as HCC keeps IndInv.                                     *)
(***************************************************************************)
LEMMA CheckCCPreserves ==
  ASSUME IndInv, NEW n \in Honest, NEW b, CheckCC(n, b)
  PROVE  IndInv' /\ \A m \in Honest : IsDescendant(lfb[m], lfb'[m])
<1>1. /\ Justified(b) /\ b \in Blocks /\ ProcessCCBlock(n, b)
      /\ valid' = valid /\ UNCHANGED <<proposed, votes, lastVote>>
      /\ valid \in [Honest -> SUBSET Blocks]
  BY DEF CheckCC, Justified, IndInv, TypeOK
<1>2. /\ hcc' \in [Honest -> Blocks]
      /\ lfb' \in [Honest -> Blocks]
      /\ \A m \in Honest : /\ Justified(hcc'[m])
                           /\ Height(hcc[m]) <= Height(hcc'[m])
                           /\ Height(lfb'[m]) <= Height(hcc'[m])
                           /\ \/ lfb'[m] = Root
                              \/ \E c \in proposed :
                                   /\ FinalizesParent(c) /\ Certified(c)
                                   /\ Parent(c) = lfb'[m]
                           /\ IsDescendant(lfb[m], lfb'[m])
  BY <1>1, ProcessCCBlockEffect
<1> QED
  BY <1>1, <1>2, ChainStepPreserves

(***************************************************************************)
(* So does storing a finalized block just before a crash.                  *)
(***************************************************************************)
LEMMA InterruptedCheckCCPreserves ==
  ASSUME IndInv, NEW n \in Honest, NEW b, InterruptedCheckCC(n, b)
  PROVE  IndInv' /\ \A m \in Honest : IsDescendant(lfb[m], lfb'[m])
<1>1. /\ Certified(b) /\ FinalizesParent(b) /\ Height(b) > Height(hcc[n])
      /\ lfb' = [lfb EXCEPT ![n] = Parent(b)] /\ hcc' = hcc /\ valid' = valid
      /\ UNCHANGED <<proposed, votes, lastVote>>
      /\ b \in valid[n]
  BY DEF InterruptedCheckCC
<1>2. /\ b \in proposed /\ Parent(b) \in Blocks
      /\ Height(Parent(b)) = Height(b) - 1 /\ Height(b) \in Nat
      /\ IsDescendant(lfb[n], Parent(b))
  BY <1>1, NextFinalized
<1>3. /\ valid \in [Honest -> SUBSET Blocks] /\ lfb \in [Honest -> Blocks]
      /\ hcc \in [Honest -> Blocks]
      /\ \A m \in Honest : /\ Height(hcc[m]) \in Nat
                           /\ Justified(hcc[m])
                           /\ Height(lfb[m]) <= Height(hcc[m])
                           /\ IsDescendant(lfb[m], lfb[m])
                           /\ \/ lfb[m] = Root
                              \/ \E c \in proposed :
                                   /\ FinalizesParent(c) /\ Certified(c)
                                   /\ Parent(c) = lfb[m]
  BY BlockType, DescendantBasics DEF IndInv, TypeOK, AcceptedInv, FinalizedInv
<1>4. Height(Parent(b)) <= Height(hcc[n])
  BY <1>1 DEF IndInv, AcceptedInv, FinalizesParent
<1>5. /\ lfb' \in [Honest -> Blocks] /\ lfb'[n] = Parent(b)
      /\ \A m \in Honest : m # n => lfb'[m] = lfb[m]
  BY <1>1, <1>2, <1>3
<1>6. ASSUME NEW m \in Honest
      PROVE  /\ Justified(hcc'[m])
             /\ Height(hcc[m]) <= Height(hcc'[m])
             /\ Height(lfb'[m]) <= Height(hcc'[m])
             /\ \/ lfb'[m] = Root
                \/ \E c \in proposed : /\ FinalizesParent(c) /\ Certified(c)
                                       /\ Parent(c) = lfb'[m]
             /\ IsDescendant(lfb[m], lfb'[m])
  <2>1. CASE m = n
    BY <1>1, <1>2, <1>3, <1>4, <1>5, <2>1, SMTT(30)
  <2>2. CASE m # n
    BY <1>1, <1>3, <1>5, <2>2, SMTT(30)
  <2> QED
    BY <2>1, <2>2
<1> QED
  BY <1>1, <1>3, <1>5, <1>6, ChainStepPreserves

(***************************************************************************)
(* A new vote keeps IndInv: it is higher than every earlier vote, and it   *)
(* certifies the local HCC, which is at least as high as what any earlier  *)
(* vote certified.                                                         *)
(***************************************************************************)
LEMMA VotePreserves ==
  ASSUME IndInv, NEW n \in Honest, NEW b, Vote(n, b)
  PROVE  IndInv'
<1>1. b \in valid[n] /\ b \in Blocks /\ Height(b) \in Nat
  BY BlockType DEF Vote, IsTip, Branch, IndInv, TypeOK
<1>2. /\ TypeOK'
      /\ \A m \in Honest : votes[m] \subseteq votes'[m]
      /\ lastVote'[n] = b
      /\ \A m \in Honest : m # n => votes'[m] = votes[m] /\ lastVote'[m] = lastVote[m]
      /\ votes'[n] = votes[n] \cup {b}
  BY <1>1 DEF Vote, IndInv, TypeOK
<1>3. \A c : (Certified(c) => Certified(c)') /\ (Justified(c) => Justified(c)')
  BY <1>2, CertifiedStable DEF IndInv
<1>4. AcceptedInv'
  BY <1>3 DEF Vote, IndInv, AcceptedInv
<1>5. ASSUME NEW c \in votes[n]
      PROVE  /\ c \in Blocks /\ Height(c) \in Nat
             /\ c = b \/ Height(c) < Height(b)
             /\ Height(Hcc(c)) <= Height(Hcc(b))
             /\ Height(c) # 0 => Justified(Hcc(b))
  <2>1. /\ c \in valid[n] /\ c \in Blocks /\ Height(c) \in Nat
        /\ lastVote[n] # NoVote /\ lastVote[n] \in Blocks
        /\ c = lastVote[n] \/ Height(c) < Height(lastVote[n])
    BY BlockType DEF IndInv, LastVoteInv, TypeOK
  <2>2. Height(lastVote[n]) \in Nat /\ LastVoteHeight(n) = Height(lastVote[n])
    BY <2>1, BlockType DEF LastVoteHeight
  <2>3. CASE LastVoteHeight(n) = 0
    <3>1. Height(c) = 0
      <4>1. Height(lastVote[n]) = 0
        BY <2>2, <2>3
      <4>2. CASE c = lastVote[n]
        BY <4>1, <4>2
      <4>3. CASE Height(c) < Height(lastVote[n])
        BY <2>1, <4>1, <4>3, SMTT(30)
      <4> QED
        BY <2>1, <4>2, <4>3
    <3>2. c = Root
      BY <2>1, <3>1, HeightZero
    <3>3. c = b \/ Height(c) < Height(b)
      <4> SUFFICES ASSUME Height(b) = 0 PROVE b = Root
        BY <1>1, <3>1, <3>2, SMTT(30)
      <4> QED
        BY <1>1, HeightZero
    <3>4. Height(Hcc(c)) <= Height(Hcc(b))
      <4>1. Height(Hcc(c)) = 0
        BY <3>1, <3>2, RootType
      <4>2. Height(Hcc(b)) \in Nat
        BY <1>1, HccType
      <4> QED
        BY <4>1, <4>2, SMTT(30)
    <3> QED
      BY <2>1, <3>1, <3>3, <3>4
  <2>4. CASE LastVoteHeight(n) # 0
    <3>1. Height(b) > LastVoteHeight(n) /\ Hcc(b) = hcc[n]
      BY <2>4 DEF Vote, MayVote
    <3>2. Height(Hcc(c)) <= Height(hcc[n]) /\ Justified(hcc[n])
      BY <2>1 DEF IndInv, AcceptedInv
    <3> QED
      BY <1>1, <2>1, <2>2, <3>1, <3>2, SMTT(30)
  <2> QED
    BY <2>3, <2>4
<1>6. LastVoteInv'
  <2> SUFFICES ASSUME NEW m \in Honest, NEW c \in votes'[m]
               PROVE  /\ c \in valid[m]
                      /\ lastVote'[m] # NoVote
                      /\ c = lastVote'[m] \/ Height(c) < Height(lastVote'[m])
    BY DEF Vote, LastVoteInv
  <2>1. CASE m # n
    BY <1>2, <2>1 DEF IndInv, LastVoteInv
  <2>2. CASE m = n
    BY <1>1, <1>2, <1>5, <2>2, VotingAssumption DEF IndInv, LastVoteInv
  <2> QED
    BY <2>1, <2>2
<1>7. VoteOrderInv'
  <2> SUFFICES ASSUME NEW m \in Honest, NEW c \in votes'[m], NEW d \in votes'[m]
               PROVE  /\ Height(c) = Height(d) => c = d
                      /\ Height(c) < Height(d) => Height(Hcc(c)) <= Height(Hcc(d))
                      /\ Height(c) < Height(d) /\ Height(c) # 0 => Justified(Hcc(d))
    BY <1>3 DEF VoteOrderInv
  <2>1. CASE m # n \/ (c \in votes[n] /\ d \in votes[n])
    BY <1>2, <2>1 DEF IndInv, VoteOrderInv
  <2>2. CASE m = n /\ c = b
    BY <1>1, <1>2, <1>5, <2>2, SMTT(30)
  <2>3. CASE m = n /\ d = b
    BY <1>1, <1>2, <1>5, <2>3, SMTT(30)
  <2> QED
    BY <1>2, <2>1, <2>2, <2>3
<1>8. FinalizedInv'
  BY <1>3 DEF Vote, IndInv, FinalizedInv
<1> QED
  BY <1>2, <1>4, <1>6, <1>7, <1>8 DEF IndInv

(***************************************************************************)
(* Every step preserves the inductive invariant.                           *)
(***************************************************************************)
LEMMA NextIndInv == IndInv /\ [Next]_vars => IndInv'
<1> SUFFICES ASSUME IndInv, [Next]_vars PROVE IndInv'
  OBVIOUS
<1>1. ASSUME NEW e \in Epochs, FaultyPropose(e) PROVE IndInv'
  <2>1. PICK parent \in proposed \cup {Root}, p \in Payloads :
          \E h \in 0 .. Len(parent) :
            proposed' = proposed \cup
              {Append(parent, [epoch |-> e, hcc |-> h, payload |-> p])}
    BY <1>1 DEF FaultyPropose
  <2>2. parent \in Blocks
    BY RootType DEF IndInv, TypeOK
  <2>3. proposed' \subseteq Blocks
    <3>1. PICK h \in 0 .. Len(parent) :
            proposed' = proposed \cup
              {Append(parent, [epoch |-> e, hcc |-> h, payload |-> p])}
      BY <2>1
    <3>2. Append(parent, [epoch |-> e, hcc |-> h, payload |-> p]) \in Blocks
      BY <2>2, AppendIsBlock
    <3>3. proposed \subseteq Blocks
      BY DEF IndInv, TypeOK
    <3> QED
      BY <3>1, <3>2, <3>3
  <2> QED
    BY <1>1, <2>1, <2>3, ProposePreserves DEF FaultyPropose
<1>2. ASSUME NEW n \in Honest, NEW e \in Epochs, Propose(n, e) PROVE IndInv'
  <2>1. PICK tip \in Branch(n), p \in Payloads :
          proposed' = proposed \cup
            {Append(tip, [epoch |-> e, hcc |-> Len(hcc[n]), payload |-> p])}
    BY <1>2 DEF Propose
  <2>2. /\ tip \in Blocks /\ hcc[n] \in Blocks /\ IsDescendant(hcc[n], tip)
    BY DEF Branch, IndInv, TypeOK
  <2>3. Len(hcc[n]) \in 0 .. Len(tip)
    BY <2>2, DescendantPointwise, BlockType, SMTT(30)
  <2>4. proposed' \subseteq Blocks
    <3>1. Append(tip, [epoch |-> e, hcc |-> Len(hcc[n]), payload |-> p]) \in Blocks
      BY <2>2, <2>3, AppendIsBlock
    <3>2. proposed \subseteq Blocks
      BY DEF IndInv, TypeOK
    <3> QED
      BY <2>1, <3>1, <3>2
  <2> QED
    BY <1>2, <2>1, <2>4, ProposePreserves DEF Propose
<1>3. ASSUME NEW n \in Honest, NEW b \in proposed, AcceptBlock(n, b) PROVE IndInv'
  BY <1>3, AcceptBlockPreserves
<1>4. ASSUME NEW n \in Honest, NEW b \in valid[n], CheckCC(n, b) PROVE IndInv'
  BY <1>4, CheckCCPreserves
<1>5. ASSUME NEW n \in Honest, NEW b \in valid[n], InterruptedCheckCC(n, b)
      PROVE  IndInv'
  BY <1>5, InterruptedCheckCCPreserves
<1>6. ASSUME NEW n \in Honest, NEW b \in valid[n], Vote(n, b) PROVE IndInv'
  BY <1>6, VotePreserves
<1>7. CASE UNCHANGED vars
  BY <1>7, ProposePreserves DEF vars, IndInv, TypeOK
<1> QED
  BY <1>1, <1>2, <1>3, <1>4, <1>5, <1>6, <1>7 DEF Next

-----------------------------------------------------------------------------
(***************************************************************************)
(* The variables keep their types and the inductive invariant holds in     *)
(* every reachable state.                                                  *)
(***************************************************************************)
THEOREM Invariance == Spec => []IndInv
  BY InitIndInv, NextIndInv, PTL DEF Spec

(***************************************************************************)
(* Honest validators never finalize conflicting blocks.                    *)
(***************************************************************************)
THEOREM AgreementHolds == Spec => []Agreement
  BY Invariance, IndInvSafe, PTL

(***************************************************************************)
(* No two blocks of one height are certified.                              *)
(***************************************************************************)
THEOREM OneCertificatePerHeightHolds == Spec => []OneCertificatePerHeight
  BY Invariance, IndInvSafe, PTL

(***************************************************************************)
(* Every certified block that is high enough extends what can be           *)
(* finalized.                                                              *)
(***************************************************************************)
THEOREM FinalizedIsExtendedHolds == Spec => []FinalizedIsExtended
  BY Invariance, IndInvSafe, PTL

(***************************************************************************)
(* The last finalized blocks implement Finality: every step that changes   *)
(* one of them extends it by a block that conflicts with no other.         *)
(***************************************************************************)
THEOREM FinalityRefinedHolds == Spec => FinalityRefined
<1>1. Init => F!Init
  BY DEF Init, F!Init, Root, F!Root
<1>2. IndInv' => Agreement'
  BY IndInvSafe, PTL
<1>3. IndInv /\ IndInv' /\ [Next]_vars => [F!Next]_lfb
  <2> SUFFICES ASSUME IndInv, IndInv', Next, lfb' # lfb
               PROVE  F!Next
    BY DEF vars
  <2>1. lfb \in [Honest -> Blocks] /\ lfb' \in [Honest -> Blocks]
    BY DEF IndInv, TypeOK
  <2>2. \A m, k \in Honest : SameChain(lfb'[m], lfb'[k])
    BY <1>2 DEF Agreement
  <2>3. \E n \in Honest : /\ lfb' = [lfb EXCEPT ![n] = lfb'[n]]
                          /\ IsDescendant(lfb[n], lfb'[n])
    <3>1. ASSUME NEW n \in Honest, NEW b \in proposed, AcceptBlock(n, b)
          PROVE  /\ lfb' = [lfb EXCEPT ![n] = lfb'[n]]
                 /\ IsDescendant(lfb[n], lfb'[n])
      BY <2>1, <3>1, AcceptBlockPreserves DEF AcceptBlock, ProcessCCBlock
    <3>2. ASSUME NEW n \in Honest, NEW b \in valid[n], CheckCC(n, b)
          PROVE  /\ lfb' = [lfb EXCEPT ![n] = lfb'[n]]
                 /\ IsDescendant(lfb[n], lfb'[n])
      BY <2>1, <3>2, CheckCCPreserves DEF CheckCC, ProcessCCBlock
    <3>3. ASSUME NEW n \in Honest, NEW b \in valid[n], InterruptedCheckCC(n, b)
          PROVE  /\ lfb' = [lfb EXCEPT ![n] = lfb'[n]]
                 /\ IsDescendant(lfb[n], lfb'[n])
      BY <2>1, <3>3, InterruptedCheckCCPreserves DEF InterruptedCheckCC
    <3> QED
      BY <3>1, <3>2, <3>3 DEF Next, FaultyPropose, Propose, Vote
  <2>4. PICK n \in Honest : /\ lfb' = [lfb EXCEPT ![n] = lfb'[n]]
                            /\ IsDescendant(lfb[n], lfb'[n])
    BY <2>3
  <2>5. \A m \in Honest : SameChain(lfb[m], lfb'[n])
    <3> TAKE m \in Honest
    <3>1. CASE m = n
      BY <2>4, <3>1 DEF SameChain
    <3>2. CASE m # n
      <4>1. lfb'[m] = lfb[m]
        BY <2>1, <2>4, <3>2
      <4> QED
        BY <2>2, <4>1
    <3> QED
      BY <3>1, <3>2
  <2>6. F!Blocks = Blocks
    BY DEF F!Blocks, Blocks, F!Header, Header
  <2>7. \A a, b : F!IsDescendant(a, b) <=> IsDescendant(a, b)
    BY DEF F!IsDescendant, IsDescendant
  <2>8. \A a, b : F!SameChain(a, b) <=> SameChain(a, b)
    BY <2>7 DEF F!SameChain, SameChain
  <2>9. F!Finalize(n, lfb'[n])
    BY <2>1, <2>4, <2>5, <2>6, <2>7, <2>8 DEF F!Finalize
  <2> QED
    BY <2>9 DEF F!Next
<1> QED
  BY <1>1, <1>3, Invariance, PTL DEF Spec, FinalityRefined, F!Spec
=============================================================================
