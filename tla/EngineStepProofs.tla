-------------------------- MODULE EngineStepProofs --------------------------
(***************************************************************************)
(* The first state and every step of ConsensusEngine: they keep the        *)
(* invariant of the engine, and each is one of ChainVoting or changes      *)
(* nothing ChainVoting speaks about.                                       *)
(***************************************************************************)
EXTENDS ConsensusEngine, EngineBlocksProofs, EngineFinalityProofs

USE ZenonT(30)

(***************************************************************************)
(* V speaks of the same validators and blocks as the engine.               *)
(***************************************************************************)
LEMMA VValidators ==
  /\ V!Honest = Honest
  /\ \A S : V!HasMajority(S) <=> HasMajority(S)
  /\ \A S : V!Cardinality(S) = Cardinality(S)
<1>1. \A S : V!Cardinality(S) = Cardinality(S)
  BY DEF V!Cardinality, Cardinality
<1>2. \A S : V!StakeOf(S) = StakeOf(S)
  BY <1>1 DEF V!StakeOf, V!StakeUnits, StakeOf, StakeUnits
<1> QED
  BY <1>1, <1>2 DEF V!HasMajority, HasMajority, V!TotalStake, TotalStake,
                    V!Honest, Honest

(***************************************************************************)
(* V speaks of the same blocks as the engine.                              *)
(***************************************************************************)
LEMMA VBlocks ==
  /\ V!Blocks = Blocks
  /\ V!Root = Root
  /\ \A b : V!Height(b) = Height(b)
  /\ \A b : V!Parent(b) = Parent(b)
  /\ \A b : V!Epoch(b) = Epoch(b)
  /\ \A b : V!Hcc(b) = Hcc(b)
  /\ \A a, b : V!IsDescendant(a, b) <=> IsDescendant(a, b)
  /\ \A b : V!FinalizesParent(b) <=> FinalizesParent(b)
<1>1. V!Blocks = Blocks
  BY DEF V!Blocks, Blocks, V!Header, Header
<1>2. V!Root = Root
  BY DEF V!Root, Root
<1>3. \A b : V!Height(b) = Height(b) /\ V!Parent(b) = Parent(b)
  BY DEF V!Height, Height, V!Parent, Parent
<1>4. \A b : V!Epoch(b) = Epoch(b) /\ V!Hcc(b) = Hcc(b)
  BY <1>2 DEF V!Epoch, Epoch, V!Hcc, Hcc
<1>5. \A a, b : V!IsDescendant(a, b) <=> IsDescendant(a, b)
  BY DEF V!IsDescendant, IsDescendant
<1>6. \A b : V!FinalizesParent(b) <=> FinalizesParent(b)
  BY <1>2, <1>3, <1>4 DEF V!FinalizesParent, FinalizesParent
<1> QED
  BY <1>1, <1>2, <1>3, <1>4, <1>5, <1>6

(***************************************************************************)
(* V calls the same blocks certified as the engine.                        *)
(***************************************************************************)
LEMMA CertifiedIs ==
  \A b : V!Certified(b) <=> Certified(b)
  BY VValidators DEF V!Certified, V!Voters, Certified

-----------------------------------------------------------------------------
(***************************************************************************)
(* Every step of the engine keeps the invariant and only moves statuses    *)
(* forward, provided that ChainVoting does what is shown for it.           *)
(***************************************************************************)
LEMMA NextStep ==
  ASSUME Inv, VotingInv', Next,
         \A n \in Honest : FinalizeBlock(n) => IsDescendant(db[n].lfb, db'[n].lfb)
  PROVE  Inv' /\ \A m \in Honest : StatusAdvances(m)
<1> DEFINE Goal == Inv' /\ \A m \in Honest : StatusAdvances(m)
<1> HIDE DEF Goal
<1>1. ASSUME NEW b \in PeerBlocks, PeerPropose(b) PROVE Goal
  BY <1>1, PeerProposeStep DEF Goal
<1>2. ASSUME NEW n \in Honest, Work(n) PROVE Goal
  <2>1. CASE FinalizeBlock(n)
    BY <2>1, FinalizeBlockStep DEF Goal
  <2>2. CASE HccVotes(n) \/ MarkFinalized(n) \/ SetHighestCCBlock(n) \/ CommitBlock(n)
    BY <2>2, HccVotesStep, MarkFinalizedStep, SetHighestCCBlockStep, CommitBlockStep
       DEF Goal
  <2>3. CASE ApplyBlock(n) \/ Vote(n) \/ SendVote(n) \/ EnterEpoch(n)
    BY <2>3, ApplyBlockStep, VoteStep, SendVoteStep, EnterEpochStep DEF Goal
  <2> QED
    BY <1>2, <2>1, <2>2, <2>3 DEF Work
<1>3. ASSUME NEW n \in Honest, NEW v \in PeerVotes \cup sent, VoteMessage(n, v) PROVE Goal
  BY <1>3, VoteMessageStep DEF Goal
<1>4. ASSUME NEW n \in Honest, NEW b \in mem[n].inbox, BlockMessage(n, b) PROVE Goal
  BY <1>4, BlockMessageStep DEF Goal
<1>5. ASSUME NEW n \in Honest, VoteTimer(n) \/ EpochTimer(n) \/ Crash(n) PROVE Goal
  BY <1>5, VoteTimerStep, EpochTimerStep, CrashStep DEF Goal
<1>6. ASSUME NEW n \in Honest, NEW b \in proposed, AddBlock(n, b) PROVE Goal
  BY <1>6, AddBlockStep DEF Goal
<1>7. ASSUME NEW n \in Honest, NEW b \in Stored(n), PassReadyBlock(n, b) PROVE Goal
  BY <1>7, PassReadyBlockStep DEF Goal
<1>8. Goal
  BY <1>1, <1>2, <1>3, <1>4, <1>5, <1>6, <1>7 DEF Next
<1> QED
  BY <1>8 DEF Goal

-----------------------------------------------------------------------------
(***************************************************************************)
(* Which step of ChainVoting every step of the engine is.                  *)
(***************************************************************************)

(***************************************************************************)
(* A function that changes at one argument only.                           *)
(***************************************************************************)
LEMMA Updated ==
  ASSUME NEW S, NEW f, NEW g, f = [x \in S |-> f[x]], g = [x \in S |-> g[x]],
         NEW n \in S, \A m \in S \ {n} : g[m] = f[m]
  PROVE  g = [f EXCEPT ![n] = g[n]]
<1>1. DOMAIN f = S /\ DOMAIN g = S
  OBVIOUS
<1> QED
  BY <1>1


(***************************************************************************)
(* Steps that change nothing ChainVoting speaks about.                     *)
(***************************************************************************)
LEMMA Stutters ==
  ASSUME UNCHANGED <<proposed, voted>>,
         \A m \in Honest : /\ StoredValid(m)' = StoredValid(m)
                           /\ db'[m].lastVote = db[m].lastVote
                           /\ db'[m].hcc = db[m].hcc /\ db'[m].lfb = db[m].lfb
  PROVE  UNCHANGED V!vars
<1>1. /\ [m \in Honest |-> StoredValid(m)]' = [m \in Honest |-> StoredValid(m)]
      /\ [m \in Honest |-> db[m].lastVote]' = [m \in Honest |-> db[m].lastVote]
      /\ [m \in Honest |-> db[m].hcc]' = [m \in Honest |-> db[m].hcc]
      /\ [m \in Honest |-> db[m].lfb]' = [m \in Honest |-> db[m].lfb]
  OBVIOUS
<1> QED
  BY <1>1 DEF V!vars

(***************************************************************************)
(* The first state of the engine is one of ChainVoting.                    *)
(***************************************************************************)
LEMMA InitRefines ==
  ASSUME Init
  PROVE  V!Init
<1>1. proposed = {} /\ voted = [n \in Honest |-> {}]
  BY DEF Init
<1>2. ASSUME NEW n \in Honest
      PROVE  /\ StoredValid(n) = {Root} /\ db[n].lastVote = NoVote
             /\ db[n].hcc = Root /\ db[n].lfb = Root
  BY InitDb
<1>3. /\ [n \in Honest |-> StoredValid(n)] = [n \in Honest |-> {Root}]
      /\ [n \in Honest |-> db[n].lastVote] = [n \in Honest |-> NoVote]
      /\ [n \in Honest |-> db[n].hcc] = [n \in Honest |-> Root]
      /\ [n \in Honest |-> db[n].lfb] = [n \in Honest |-> Root]
  BY <1>2
<1> QED
  BY <1>1, <1>3, VBlocks, VValidators DEF V!Init

(***************************************************************************)
(* Storing LastVote is the vote of ChainVoting.                            *)
(***************************************************************************)
LEMMA VoteRefines ==
  ASSUME Inv, NEW n \in Honest, Vote(n)
  PROVE  [V!Next]_(V!vars)
<1>1. UNCHANGED <<proposed, cert, sent, crashes>>
  BY DEF Vote
<1>2. PICK tip \in Branch(n) :
        /\ IsTip(n, tip)
        /\ IF MayVote(n, tip)
             THEN /\ Commit(n, [db[n] EXCEPT !.lastVote = tip])
                  /\ voted' = [voted EXCEPT ![n] = @ \cup {tip}]
             ELSE UNCHANGED <<db, voted>>
  BY DEF Vote
<1>3. CASE ~MayVote(n, tip)
  BY <1>1, <1>2, <1>3, SameDb, Stutters
<1>4. CASE MayVote(n, tip)
  <2> DEFINE d == [db[n] EXCEPT !.lastVote = tip]
  <2>1. Commit(n, d) /\ voted' = [voted EXCEPT ![n] = @ \cup {tip}]
    BY <1>2, <1>4
  <2>2. /\ DOMAIN d = DOMAIN db[n] /\ d.lastVote = tip
        /\ d.status = db[n].status /\ d.hcc = db[n].hcc /\ d.lfb = db[n].lfb
    BY DEF Inv, EngineInv, Shape
  <2> HIDE DEF d
  <2>3. /\ DbFrame(n) /\ db'[n].lastVote = tip /\ db'[n].status = db[n].status
        /\ db'[n].hcc = db[n].hcc /\ db'[n].lfb = db[n].lfb
    BY <2>1, <2>2, Committed
  <2>4. \A m \in Honest : /\ StoredValid(m)' = StoredValid(m)
                          /\ db'[m].lfb = db[m].lfb /\ db'[m].hcc = db[m].hcc
    BY <2>3 DEF DbFrame, StoredValid, Stored
  <2>5. /\ [m \in Honest |-> StoredValid(m)]' = [m \in Honest |-> StoredValid(m)]
        /\ [m \in Honest |-> db[m].hcc]' = [m \in Honest |-> db[m].hcc]
        /\ [m \in Honest |-> db[m].lfb]' = [m \in Honest |-> db[m].lfb]
    BY <2>4
  <2> DEFINE f == [m \in Honest |-> db[m].lastVote]
  <2>6. f' = [f EXCEPT ![n] = tip]
    <3>1. /\ f = [m \in Honest |-> f[m]] /\ f' = [m \in Honest |-> f'[m]]
          /\ f'[n] = tip /\ \A m \in Honest \ {n} : f'[m] = f[m]
      BY <2>3 DEF DbFrame
    <3> HIDE DEF f
    <3>2. f' = [f EXCEPT ![n] = f'[n]]
      BY <3>1, Updated
    <3> QED
      BY <3>1, <3>2
  <2>7. V!IsTip(n, tip)
    BY <1>2, VBlocks DEF IsTip, Branch, V!IsTip, V!Branch
  <2>8. V!MayVote(n, tip)
    BY <1>4, VBlocks DEF MayVote, V!MayVote, V!LastVoteHeight
  <2>9. V!Vote(n, tip)
    BY <1>1, <2>1, <2>5, <2>6, <2>7, <2>8 DEF V!Vote
  <2>10. tip \in StoredValid(n)
    BY DEF Branch
  <2> QED
    BY <2>9, <2>10, VValidators DEF V!Next
<1> QED
  BY <1>3, <1>4

(***************************************************************************)
(* Entering an epoch is a proposal of ChainVoting, or changes nothing      *)
(* ChainVoting speaks about.                                               *)
(***************************************************************************)
LEMMA EnterEpochRefines ==
  ASSUME Inv, NEW n \in Honest, EnterEpoch(n)
  PROVE  [V!Next]_(V!vars)
<1>1. UNCHANGED <<sent, voted, crashes>> /\ (EnterOld(n) \/ EnterNew(n))
  BY EnterCases
<1>2. CASE EnterOld(n)
  <2>1. UNCHANGED <<db, proposed>>
    BY <1>2 DEF EnterOld
  <2> QED
    BY <1>1, <2>1, SameDb, Stutters
<1>3. CASE EnterNew(n)
  <2>1. PICK tip \in Branch(n), p \in Payloads :
          /\ IsTip(n, tip) /\ ShouldPropose(n, tip) /\ Cardinality(proposed) < MaxBlocks
          /\ Proposal(n, tip, p) \notin Stored(n)
          /\ StorePending(n, Proposal(n, tip, p))
          /\ proposed' = proposed \cup {Proposal(n, tip, p)}
    BY <1>3 DEF EnterNew
  <2> DEFINE b == Proposal(n, tip, p)
             e == db[n].epoch
  <2>2. /\ b \notin Stored(n) /\ StorePending(n, b)
        /\ e > Epoch(tip) /\ e \in Epochs /\ Proposer[e] = n
    BY <2>1 DEF ShouldPropose
  <2> HIDE DEF b
  <2>3. /\ SameTree(n) /\ DbFrame(n) /\ db'[n].lastVote = db[n].lastVote
    BY <2>2, StoresBlock
  <2>4. ASSUME NEW m \in Honest
        PROVE  /\ StoredValid(m)' = StoredValid(m) /\ db'[m].lastVote = db[m].lastVote
               /\ db'[m].hcc = db[m].hcc /\ db'[m].lfb = db[m].lfb
    <3>1. CASE m = n
      <4>1. StoredValid(n)' = StoredValid(n)
        <5>1. ASSUME NEW c PROVE c \in StoredValid(n)' <=> c \in StoredValid(n)
          BY <2>3 DEF SameTree, StoredValid, IsValid
        <5> QED
          BY <5>1 DEF StoredValid
      <4> QED
        BY <2>3, <3>1, <4>1 DEF SameTree
    <3>2. CASE m # n
      BY <2>3, <3>2 DEF DbFrame, StoredValid, Stored
    <3> QED
      BY <3>1, <3>2
  <2>5. /\ [m \in Honest |-> StoredValid(m)]' = [m \in Honest |-> StoredValid(m)]
        /\ [m \in Honest |-> db[m].lastVote]' = [m \in Honest |-> db[m].lastVote]
        /\ [m \in Honest |-> db[m].hcc]' = [m \in Honest |-> db[m].hcc]
        /\ [m \in Honest |-> db[m].lfb]' = [m \in Honest |-> db[m].lfb]
    BY <2>4
  <2>6. V!IsTip(n, tip) /\ tip \in V!Branch(n) /\ e > V!Epoch(tip)
    BY <2>1, <2>2, VBlocks DEF IsTip, Branch, V!IsTip, V!Branch
  <2>7. proposed' = proposed \cup
          {Append(tip, [epoch |-> e, hcc |-> Len([m \in Honest |-> db[m].hcc][n]), payload |-> p])}
    BY <2>1 DEF Proposal
  <2>8. V!Cardinality(proposed) < MaxBlocks
    BY <2>1, VValidators
  <2>9. UNCHANGED <<[m \in Honest |-> StoredValid(m)], voted, [m \in Honest |-> db[m].lastVote],
                    [m \in Honest |-> db[m].hcc], [m \in Honest |-> db[m].lfb]>>
    BY <1>1, <2>5
  <2> HIDE DEF e
  <2>10. V!Propose(n, e)
    BY <2>2, <2>6, <2>7, <2>8, <2>9 DEF V!Propose
  <2> QED
    BY <2>2, <2>10, VValidators DEF V!Next, e
<1> QED
  BY <1>1, <1>2, <1>3

(***************************************************************************)
(* A block of a peer is a proposal of a faulty validator.                  *)
(***************************************************************************)
LEMMA PeerProposeRefines ==
  ASSUME Inv, NEW b \in PeerBlocks, PeerPropose(b)
  PROVE  V!Next
<1>1. /\ Proposer[Epoch(b)] \in Faulty /\ Parent(b) \in proposed \cup {Root}
      /\ Cardinality(proposed) < MaxBlocks /\ proposed' = proposed \cup {b}
      /\ UNCHANGED <<db, voted>>
  BY DEF PeerPropose
<1>2. b \in Blocks /\ b # Root
  BY EngineAssumption
<1>3. Epoch(b) \in Epochs
  BY <1>2, LastHeader
<1>4. PICK h \in 0 .. Len(Parent(b)), p \in Payloads :
        b = Append(Parent(b), [epoch |-> Epoch(b), hcc |-> h, payload |-> p])
  BY <1>2, LastHeader
<1>5. \A m \in Honest : StoredValid(m)' = StoredValid(m)
  BY <1>1 DEF StoredValid, Stored
<1>6. UNCHANGED <<[m \in Honest |-> StoredValid(m)], voted, [m \in Honest |-> db[m].lastVote],
                  [m \in Honest |-> db[m].hcc], [m \in Honest |-> db[m].lfb]>>
  <2>1. /\ [m \in Honest |-> StoredValid(m)]' = [m \in Honest |-> StoredValid(m)]
        /\ [m \in Honest |-> db[m].lastVote]' = [m \in Honest |-> db[m].lastVote]
        /\ [m \in Honest |-> db[m].hcc]' = [m \in Honest |-> db[m].hcc]
        /\ [m \in Honest |-> db[m].lfb]' = [m \in Honest |-> db[m].lfb]
    BY <1>1, <1>5
  <2> QED
    BY <1>1, <2>1
<1>7. V!Cardinality(proposed) < MaxBlocks /\ Parent(b) \in proposed \cup {V!Root}
  BY <1>1, VValidators, VBlocks
<1> DEFINE e == Epoch(b)
           q == Parent(b)
<1>8. /\ proposed' = proposed \cup {Append(q, [epoch |-> e, hcc |-> h, payload |-> p])}
      /\ q \in proposed \cup {V!Root} /\ h \in 0 .. Len(q) /\ Proposer[e] \in Faulty
      /\ e \in Epochs
  BY <1>1, <1>3, <1>4, <1>7
<1> HIDE DEF e, q
<1>9. V!FaultyPropose(e)
  BY <1>6, <1>7, <1>8 DEF V!FaultyPropose
<1> QED
  BY <1>8, <1>9 DEF V!Next

(***************************************************************************)
(* A validated block that becomes valid, once the HCC is high enough, is   *)
(* accepted in ChainVoting.                                                *)
(***************************************************************************)
LEMMA AcceptRefines ==
  ASSUME Inv, NEW n \in Honest, NEW b \in proposed, Ready(n, b),
         Height(Hcc(b)) <= Height(db[n].hcc), UNCHANGED <<proposed, voted>>,
         StoredValid(n)' = StoredValid(n) \cup {b},
         \A m \in Honest \ {n} : StoredValid(m)' = StoredValid(m),
         \A m \in Honest : /\ db'[m].lastVote = db[m].lastVote
                           /\ db'[m].hcc = db[m].hcc /\ db'[m].lfb = db[m].lfb
  PROVE  V!Next
<1>1. b \notin StoredValid(n) /\ b # Root /\ b \in Blocks /\ Hcc(b) \in StoredValid(n)
  <2>1. b \notin StoredValid(n) /\ b # Root /\ b \in Blocks
    BY NodeTypes, Parts DEF Ready, StoredValid, IsValid, TreeOK, IsFinalized
  <2> QED
    BY <2>1, ValidTree DEF Ready, ValidateBlock
<1>2. V!Justified(Hcc(b)) \/ IsDescendant(Hcc(b), db[n].lfb)
  <2>1. CASE IsFinalized(db[n].status[Hcc(b)])
    BY <1>1, <2>1, Parts DEF TreeOK, StoredValid
  <2>2. CASE CertIsValid(b)
    <3>1. \A v \in cert[b] : v.voter \in Honest => Hcc(b) \in voted[v.voter]
      BY <2>2 DEF CertIsValid, IsSigned, Inv, EngineInv, MessageInv
    <3>2. Certified(Hcc(b))
      BY <2>2, <3>1, MajorityVoted DEF CertIsValid, Certified
    <3> QED
      BY <3>2, CertifiedIs DEF V!Justified
  <2> QED
    BY <2>1, <2>2 DEF Ready, ValidateBlock
<1>3. V!ValidateBlock(n, b)
  <2>1. /\ Height(b) > Height(db[n].lfb) /\ Epoch(Parent(b)) < Epoch(b)
        /\ Parent(b) \in StoredValid(n)
    BY DEF Ready, ValidateBlock
  <2> QED
    BY <1>2, <2>1, VBlocks, VValidators DEF V!ValidateBlock
<1>4. /\ [m \in Honest |-> db[m].lastVote]' = [m \in Honest |-> db[m].lastVote]
      /\ [m \in Honest |-> db[m].hcc]' = [m \in Honest |-> db[m].hcc]
      /\ [m \in Honest |-> db[m].lfb]' = [m \in Honest |-> db[m].lfb]
  OBVIOUS
<1> DEFINE f == [m \in Honest |-> StoredValid(m)]
<1>5. f' = [f EXCEPT ![n] = @ \cup {b}]
  <2>1. /\ f = [m \in Honest |-> f[m]] /\ f' = [m \in Honest |-> f'[m]]
        /\ f'[n] = f[n] \cup {b} /\ \A m \in Honest \ {n} : f'[m] = f[m]
    OBVIOUS
  <2> HIDE DEF f
  <2>2. f' = [f EXCEPT ![n] = f'[n]]
    BY <2>1, Updated
  <2> QED
    BY <2>1, <2>2
<1>6. V!ProcessCCBlock(n, V!Hcc(b))
  BY <1>4, VBlocks DEF V!ProcessCCBlock
<1>7. V!AcceptBlock(n, b)
  BY <1>1, <1>3, <1>4, <1>5, <1>6 DEF V!AcceptBlock
<1> QED
  BY <1>7, VValidators DEF V!Next

(***************************************************************************)
(* Applying a block accepts it in ChainVoting, or changes nothing          *)
(* ChainVoting speaks about.                                               *)
(***************************************************************************)
LEMMA ApplyBlockRefines ==
  ASSUME Inv, NEW n \in Honest, ApplyBlock(n)
  PROVE  [V!Next]_(V!vars)
<1>1. UNCHANGED <<proposed, cert, sent, voted, crashes>>
  BY ApplyBlockIs
<1>2. PICK b \in Stored(n) :
        /\ Ready(n, b) /\ Height(Hcc(b)) <= Height(db[n].hcc)
        /\ UNCHANGED db \/ \E s \in {"invalid", "valid"} : SetStatus(n, b, s)
  BY ApplyBlockIs
<1>3. CASE UNCHANGED db
  BY <1>1, <1>3, SameDb, Stutters
<1>4. ASSUME NEW s \in {"invalid", "valid"}, SetStatus(n, b, s) PROVE [V!Next]_(V!vars)
  <2>1. /\ DbFrame(n) /\ \A m \in Honest : Stored(m)' = Stored(m)
        /\ db'[n].status[b] = s
        /\ \A c \in Stored(n) \ {b} : db'[n].status[c] = db[n].status[c]
        /\ db'[n].hcc = db[n].hcc /\ db'[n].lfb = db[n].lfb
        /\ db'[n].lastVote = db[n].lastVote
    BY <1>4, OnlyStatus
  <2>2. /\ \A m \in Honest : /\ db'[m].lastVote = db[m].lastVote
                             /\ db'[m].hcc = db[m].hcc /\ db'[m].lfb = db[m].lfb
        /\ \A m \in Honest \ {n} : StoredValid(m)' = StoredValid(m)
    BY <2>1 DEF DbFrame, StoredValid, Stored
  <2>3. db[n].status[b] = "pending" /\ b \in proposed
    BY <1>2, Parts DEF Ready, TreeOK, IsFinalized
  <2>4. CASE s = "invalid"
    <3>1. StoredValid(n)' = StoredValid(n)
      BY <2>1, <2>3, <2>4 DEF StoredValid, IsValid
    <3> QED
      BY <1>1, <2>2, <3>1, Stutters
  <2>5. CASE s = "valid"
    <3>1. StoredValid(n)' = StoredValid(n) \cup {b}
      BY <2>1, <2>3, <2>5 DEF StoredValid, IsValid
    <3> QED
      BY <1>1, <1>2, <2>2, <2>3, <3>1, AcceptRefines
  <2> QED
    BY <2>4, <2>5
<1> QED
  BY <1>2, <1>3, <1>4

(***************************************************************************)
(* Writing the last finalized block is the first half of checkCC of        *)
(* ChainVoting, as if a crash followed at once.                            *)
(***************************************************************************)
LEMMA FinalizeBlockRefines ==
  ASSUME Inv, NEW n \in Honest, FinalizeBlock(n)
  PROVE  /\ V!Next
         /\ \E b : /\ V!Certified(b) /\ FinalizesParent(b) /\ Height(b) > Height(db[n].hcc)
                   /\ db'[n].lfb = Parent(b)
<1>1. /\ UNCHANGED <<proposed, cert, sent, voted, crashes>> /\ DbFrame(n)
      /\ db'[n].status = db[n].status
      /\ db'[n].hcc = db[n].hcc /\ db'[n].lastVote = db[n].lastVote
  BY FinalizeBlockIs
<1>2. PICK b \in StoredValid(n) :
        NewCC(n, b) /\ FinalizesParent(b) /\ db'[n].lfb = Parent(b)
  BY FinalizeBlockIs
<1>3. V!Certified(b) /\ Height(b) > Height(db[n].hcc)
  BY <1>2, CertifiedIs DEF NewCC
<1>4. \A m \in Honest : /\ StoredValid(m)' = StoredValid(m)
                        /\ db'[m].hcc = db[m].hcc /\ db'[m].lastVote = db[m].lastVote
  BY <1>1 DEF DbFrame, StoredValid, Stored
<1>5. /\ [m \in Honest |-> StoredValid(m)]' = [m \in Honest |-> StoredValid(m)]
      /\ [m \in Honest |-> db[m].lastVote]' = [m \in Honest |-> db[m].lastVote]
      /\ [m \in Honest |-> db[m].hcc]' = [m \in Honest |-> db[m].hcc]
  BY <1>4
<1> DEFINE f == [m \in Honest |-> db[m].lfb]
<1>6. f' = [f EXCEPT ![n] = V!Parent(b)]
  <2>1. /\ f = [m \in Honest |-> f[m]] /\ f' = [m \in Honest |-> f'[m]]
        /\ f'[n] = V!Parent(b) /\ \A m \in Honest \ {n} : f'[m] = f[m]
    BY <1>1, <1>2, VBlocks DEF DbFrame
  <2> HIDE DEF f
  <2>2. f' = [f EXCEPT ![n] = f'[n]]
    BY <2>1, Updated
  <2> QED
    BY <2>1, <2>2
<1>7. V!InterruptedCheckCC(n, b)
  BY <1>1, <1>2, <1>3, <1>5, <1>6, VBlocks DEF V!InterruptedCheckCC
<1>8. V!Next
  BY <1>7, VValidators DEF V!Next
<1> QED
  BY <1>2, <1>3, <1>8

(***************************************************************************)
(* Writing the HCC afterwards is the whole checkCC of ChainVoting.         *)
(***************************************************************************)
LEMMA SetHighestCCBlockRefines ==
  ASSUME Inv, NEW n \in Honest, SetHighestCCBlock(n)
  PROVE  V!Next
<1>1. /\ UNCHANGED <<proposed, cert, sent, voted, crashes>> /\ DbFrame(n)
      /\ db'[n].status = db[n].status
      /\ db'[n].lfb = db[n].lfb /\ db'[n].lastVote = db[n].lastVote
  BY SetHighestCCBlockIs
<1>2. PICK b \in StoredValid(n) :
        /\ NewCC(n, b) /\ db'[n].hcc = b
        /\ FinalizesParent(b) => db[n].lfb = Parent(b)
  BY SetHighestCCBlockIs
<1>3. V!Certified(b) /\ Height(b) > Height(db[n].hcc)
  BY <1>2, CertifiedIs DEF NewCC
<1>4. \A m \in Honest : /\ StoredValid(m)' = StoredValid(m)
                        /\ db'[m].lfb = db[m].lfb /\ db'[m].lastVote = db[m].lastVote
  BY <1>1 DEF DbFrame, StoredValid, Stored
<1>5. /\ [m \in Honest |-> StoredValid(m)]' = [m \in Honest |-> StoredValid(m)]
      /\ [m \in Honest |-> db[m].lastVote]' = [m \in Honest |-> db[m].lastVote]
      /\ [m \in Honest |-> db[m].lfb]' = [m \in Honest |-> db[m].lfb]
  BY <1>4
<1> DEFINE f == [m \in Honest |-> db[m].hcc]
           g == [m \in Honest |-> db[m].lfb]
<1>6. f' = [f EXCEPT ![n] = b]
  <2>1. /\ f = [m \in Honest |-> f[m]] /\ f' = [m \in Honest |-> f'[m]]
        /\ f'[n] = b /\ \A m \in Honest \ {n} : f'[m] = f[m]
    BY <1>1, <1>2 DEF DbFrame
  <2> HIDE DEF f
  <2>2. f' = [f EXCEPT ![n] = f'[n]]
    BY <2>1, Updated
  <2> QED
    BY <2>1, <2>2
<1>7. g' = IF V!FinalizesParent(b) THEN [g EXCEPT ![n] = V!Parent(b)] ELSE g
  <2>1. g = [m \in Honest |-> g[m]] /\ g' = g /\ (V!FinalizesParent(b) => g[n] = V!Parent(b))
    BY <1>2, <1>5, VBlocks
  <2> HIDE DEF g
  <2>2. g = [g EXCEPT ![n] = g[n]]
    BY <2>1, Updated
  <2>3. V!FinalizesParent(b) => [g EXCEPT ![n] = V!Parent(b)] = g
    BY <2>1, <2>2
  <2> QED
    BY <2>1, <2>3
<1>8. V!ProcessCCBlock(n, b)
  <2>1. ~(V!Height(b) <= V!Height(f[n]))
    <3>1. Height(b) \in Nat /\ Height(db[n].hcc) \in Nat
      BY NodeTypes
    <3> QED
      BY <1>3, <3>1, VBlocks, SMTT(30)
  <2> QED
    BY <1>6, <1>7, <2>1 DEF V!ProcessCCBlock
<1>9. V!CheckCC(n, b)
  BY <1>1, <1>2, <1>3, <1>5, <1>8, VBlocks DEF V!CheckCC
<1> QED
  BY <1>9, VValidators DEF V!Next


(***************************************************************************)
(* The steps that change nothing ChainVoting speaks about.                 *)
(***************************************************************************)
LEMMA StatusStutters ==
  ASSUME Inv, UNCHANGED <<proposed, voted>>, NEW n \in Honest, NEW b \in Stored(n), NEW s,
         SetStatus(n, b, s), IsValid(s) <=> IsValid(db[n].status[b])
  PROVE  UNCHANGED V!vars
<1>1. /\ DbFrame(n) /\ \A m \in Honest : Stored(m)' = Stored(m)
      /\ db'[n].status[b] = s
      /\ \A c \in Stored(n) \ {b} : db'[n].status[c] = db[n].status[c]
      /\ db'[n].hcc = db[n].hcc /\ db'[n].lfb = db[n].lfb
      /\ db'[n].lastVote = db[n].lastVote
  BY OnlyStatus
<1>2. \A m \in Honest : /\ db'[m].lastVote = db[m].lastVote
                        /\ db'[m].hcc = db[m].hcc /\ db'[m].lfb = db[m].lfb
                        /\ StoredValid(m)' = StoredValid(m)
  <2>1. StoredValid(n)' = StoredValid(n)
    <3>1. ASSUME NEW c PROVE c \in StoredValid(n)' <=> c \in StoredValid(n)
      BY <1>1 DEF StoredValid
    <3> QED
      BY <3>1 DEF StoredValid
  <2>2. \A m \in Honest \ {n} : StoredValid(m)' = StoredValid(m)
    BY <1>1 DEF DbFrame, StoredValid, Stored
  <2> QED
    BY <1>1, <2>1, <2>2 DEF DbFrame
<1> QED
  BY <1>2, Stutters

(***************************************************************************)
(* Every step of a handler that was started is one of ChainVoting or       *)
(* changes nothing ChainVoting speaks about.                               *)
(***************************************************************************)
LEMMA WorkRefines ==
  ASSUME Inv, NEW n \in Honest, Work(n)
  PROVE  [V!Next]_(V!vars)
<1>1. CASE HccVotes(n)
  <2>1. UNCHANGED <<proposed, cert, sent, voted, crashes>>
    BY <1>1, HccVotesIs
  <2>2. PICK b \in Stored(n) :
          /\ Ready(n, b)
          /\ UNCHANGED db \/ \E v \in cert[b] : SetDb(n, HandleVote(n, v))
    BY <1>1, HccVotesIs
  <2>3. CASE UNCHANGED db
    BY <2>1, <2>3, SameDb, Stutters
  <2>4. ASSUME NEW v \in cert[b], SetDb(n, HandleVote(n, v)) PROVE UNCHANGED V!vars
    <3>1. b \in proposed
      BY <2>2, Parts DEF Ready, TreeOK, IsFinalized
    <3>2. v \in AllVotes \cup UNION {cert[c] : c \in proposed} /\ v.epoch \in 0 .. MaxEpoch - 1
      BY <2>4, <3>1 DEF Inv, EngineInv, MessageInv
    <3> QED
      BY <2>1, <2>4, <3>2, HandledVote, Stutters
  <2> QED
    BY <2>2, <2>3, <2>4
<1>2. CASE MarkFinalized(n)
  <2>1. UNCHANGED <<proposed, cert, sent, voted, crashes>>
    BY <1>2, MarkFinalizedIs
  <2>2. PICK x \in StoredValid(n) :
          UNCHANGED db \/ \E op \in {"direct", "indirect"} : SetStatus(n, x, op)
    BY <1>2, MarkFinalizedIs
  <2>3. CASE UNCHANGED db
    BY <2>1, <2>3, SameDb, Stutters
  <2>4. ASSUME NEW op \in {"direct", "indirect"}, SetStatus(n, x, op) PROVE UNCHANGED V!vars
    <3>1. x \in Stored(n) /\ IsValid(op) /\ IsValid(db[n].status[x])
      BY DEF StoredValid, IsValid
    <3> QED
      BY <2>1, <2>4, <3>1, StatusStutters
  <2> QED
    BY <2>2, <2>3, <2>4
<1>3. CASE CommitBlock(n)
  <2> DEFINE t == Head(mem[n].work)
             rest == Tail(mem[n].work)
  <2>1. /\ Doing(n, "commit") /\ UNCHANGED <<proposed, cert, sent, voted, crashes>>
        /\ SetStatus(n, Block(n), "committed")
    BY <1>3 DEF CommitBlock, network, SetStatus
  <2>2. t.block = Block(n) /\ CommitNext(n, t, rest)
    BY <2>1, DoingNext
  <2> HIDE DEF t, rest
  <2>3. PICK b \in StoredValid(n) : t = Task("commit", b)
    BY <2>2 DEF CommitNext
  <2>4. /\ SetStatus(n, b, "committed") /\ b \in Stored(n)
        /\ IsValid("committed") /\ IsValid(db[n].status[b])
    BY <2>1, <2>2, <2>3, TaskFields, SMTT(30) DEF StoredValid, IsValid
  <2> QED
    BY <2>1, <2>4, StatusStutters
<1>4. CASE SendVote(n)
  <2>1. UNCHANGED <<db, proposed, voted>>
    BY <1>4 DEF SendVote
  <2> QED
    BY <2>1, SameDb, Stutters
<1>5. CASE FinalizeBlock(n) \/ SetHighestCCBlock(n)
  BY <1>5, FinalizeBlockRefines, SetHighestCCBlockRefines
<1> QED
  BY <1>1, <1>2, <1>3, <1>4, <1>5, ApplyBlockRefines, VoteRefines, EnterEpochRefines
     DEF Work

(***************************************************************************)
(* Every step of the engine is one of ChainVoting or stutters.             *)
(***************************************************************************)
LEMMA NextRefines ==
  ASSUME Inv, [Next]_vars
  PROVE  [V!Next]_(V!vars)
<1>1. CASE UNCHANGED vars
  BY <1>1, SameDb, Stutters DEF vars
<1>2. ASSUME NEW b \in PeerBlocks, PeerPropose(b) PROVE V!Next
  BY <1>2, PeerProposeRefines
<1>3. ASSUME NEW n \in Honest, NEW v \in PeerVotes \cup sent, VoteMessage(n, v)
      PROVE  UNCHANGED V!vars
  <2>1. /\ UNCHANGED <<proposed, cert, sent, voted, crashes>>
        /\ v.epoch \in 0 .. MaxEpoch - 1 /\ v \in AllVotes
        /\ SetDb(n, HandleVote(n, v))
    BY <1>3, VoteMessageIs
  <2> QED
    BY <2>1, HandledVote, Stutters
<1>4. ASSUME NEW n \in Honest, NEW b \in mem[n].inbox, BlockMessage(n, b)
      PROVE  UNCHANGED V!vars
  <2>1. /\ UNCHANGED <<proposed, cert, sent, voted, crashes>>
        /\ UNCHANGED db \/ (db[n].status[b] = "pending" /\ SetStatus(n, b, "invalid"))
    BY <1>4, BlockCases
  <2>2. b \in Stored(n)
    BY Parts DEF MemTypeOK
  <2>3. ASSUME db[n].status[b] = "pending", SetStatus(n, b, "invalid")
        PROVE  UNCHANGED V!vars
    <3>1. IsValid("invalid") <=> IsValid(db[n].status[b])
      BY <2>3 DEF IsValid
    <3> QED
      BY <2>1, <2>2, <2>3, <3>1, StatusStutters
  <2> QED
    BY <2>1, <2>3, SameDb, Stutters
<1>5. ASSUME NEW n \in Honest, NEW b \in proposed, AddBlock(n, b)
      PROVE  UNCHANGED V!vars
  <2>1. b \notin Stored(n) /\ StorePending(n, b) /\ UNCHANGED <<proposed, voted>>
    BY <1>5 DEF AddBlock, StorePending, network
  <2>2. /\ SameTree(n) /\ DbFrame(n) /\ db'[n].lastVote = db[n].lastVote
    BY <2>1, StoresBlock
  <2>3. StoredValid(n)' = StoredValid(n)
    <3>1. ASSUME NEW c PROVE c \in StoredValid(n)' <=> c \in StoredValid(n)
      BY <2>2 DEF SameTree, StoredValid, IsValid
    <3> QED
      BY <3>1 DEF StoredValid
  <2>4. \A m \in Honest : /\ StoredValid(m)' = StoredValid(m)
                          /\ db'[m].lastVote = db[m].lastVote
                          /\ db'[m].hcc = db[m].hcc /\ db'[m].lfb = db[m].lfb
    BY <2>2, <2>3 DEF SameTree, DbFrame, StoredValid, Stored
  <2> QED
    BY <2>1, <2>4, Stutters
<1>6. ASSUME NEW n \in Honest,
             VoteTimer(n) \/ EpochTimer(n) \/ Crash(n) \/ \E b \in Stored(n) : PassReadyBlock(n, b)
      PROVE  UNCHANGED V!vars
  <2>1. UNCHANGED <<db, proposed, voted>>
    BY <1>6 DEF VoteTimer, EpochTimer, Crash, PassReadyBlock, network
  <2> QED
    BY <2>1, SameDb, Stutters
<1> QED
  BY <1>1, <1>2, <1>3, <1>4, <1>5, <1>6, WorkRefines DEF Next
=============================================================================
