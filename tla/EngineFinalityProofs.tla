------------------------ MODULE EngineFinalityProofs ------------------------
(***************************************************************************)
(* The steps of ConsensusEngine that receive votes, validate blocks and    *)
(* look for certificates then, and those that follow a certificate found,  *)
(* and commit and finalize blocks, keep the invariant.                     *)
(***************************************************************************)
EXTENDS EngineVotes, EngineFinality, EngineBlocksProofs

USE ZenonT(30)

(***************************************************************************)
(* A majority of signed votes for a block is a certificate for it.         *)
(***************************************************************************)
LEMMA MajorityVoted ==
  ASSUME Inv, NEW history, NEW b, NEW votes,
         \A v \in votes : v.voter \in Honest => b \in history[v.voter],
         HasMajority({v.voter : v \in votes})
  PROVE  HasMajority({v \in Honest : b \in history[v]} \cup Faulty)
<1> DEFINE S == {v.voter : v \in votes}
           A == S \cap Validators
<1>1. HasMajority(A)
  <2>1. A \cap Validators = S \cap Validators
    OBVIOUS
  <2> QED
    BY <2>1 DEF HasMajority
<1> DEFINE T == {v \in Honest : b \in history[v]} \cup Faulty
<1>2. A \subseteq T
  BY DEF Honest
<1> HIDE DEF A, T
<1>3. HasMajority(T)
  BY <1>1, <1>2 DEF Inv, MajoritiesGrow
<1> QED
  BY <1>3 DEF T

SetDb(n, d) == db' = [db EXCEPT ![n] = d]

(***************************************************************************)
(* Writing the database of one node leaves those of the others alone.      *)
(***************************************************************************)
LEMMA OnlyDb ==
  ASSUME Inv, NEW n \in Honest, NEW d, SetDb(n, d), DOMAIN d = DOMAIN db[n]
  PROVE  DbFrame(n) /\ db'[n] = d
  BY DEF Inv, EngineInv, Shape, DbFrame, SetDb

-----------------------------------------------------------------------------
(***************************************************************************)
(* checkCC, at the end of a step: a majority of stored votes for b is a    *)
(* certificate for b, and the tasks it leaves are the ones the invariant   *)
(* describes.                                                              *)
(***************************************************************************)
LEMMA CheckCCIs ==
  ASSUME NEW d, NEW b
  PROVE  /\ ~HasNewCC(d, b) => CheckCC(d, b) = << >>
         /\ HasNewCC(d, b) /\ FinalizesParent(b) /\ Parent(b) # d.lfb
              => CheckCC(d, b) = Before(Task("finalize", Parent(b)), CCTasks(b))
         /\ HasNewCC(d, b) /\ ~(FinalizesParent(b) /\ Parent(b) # d.lfb)
              => CheckCC(d, b) = CCTasks(b)
<1>1. ~HasNewCC(d, b) => CheckCC(d, b) = << >>
  BY DEF CheckCC
<1>2. HasNewCC(d, b) /\ FinalizesParent(b) /\ Parent(b) # d.lfb
        => CheckCC(d, b) = Before(Task("finalize", Parent(b)), CCTasks(b))
  BY DEF CheckCC, Before, CCTasks
<1>3. HasNewCC(d, b) /\ ~(FinalizesParent(b) /\ Parent(b) # d.lfb) => CheckCC(d, b) = CCTasks(b)
  <2>1. << >> \o << Task("setHcc", b), Task("commit", b) >> =
          << Task("setHcc", b), Task("commit", b) >>
    BY SMTT(30)
  <2> QED
    BY <2>1 DEF CheckCC, CCTasks
<1> QED
  BY <1>1, <1>2, <1>3

(***************************************************************************)
(* What checkCC leaves to be done is a sequence of tasks.                  *)
(***************************************************************************)
LEMMA CheckCCType ==
  ASSUME NEW d, DOMAIN d.status \subseteq Blocks, NEW b
  PROVE  CheckCC(d, b) \in Seq(Tasks)
<1>1. CASE ~HasNewCC(d, b)
  <2>1. << >> \in Seq(Tasks)
    BY SMTT(30)
  <2>2. CheckCC(d, b) = << >>
    BY <1>1, CheckCCIs
  <2> QED
    BY <2>1, <2>2
<1>2. CASE HasNewCC(d, b)
  <2>1. b \in Blocks
    BY <1>2 DEF HasNewCC
  <2>2. CCTasks(b) \in Seq(Tasks)
    <3>1. Task("setHcc", b) \in Tasks /\ Task("commit", b) \in Tasks
      BY <2>1, SMTT(30) DEF Tasks
    <3> QED
      BY <3>1, SMTT(30) DEF CCTasks
  <2>3. CASE FinalizesParent(b) /\ Parent(b) # d.lfb
    <3>1. Parent(b) \in Blocks
      BY <2>1, <2>3, ParentType DEF FinalizesParent
    <3>2. Task("finalize", Parent(b)) \in Tasks
      BY <3>1, SMTT(30) DEF Tasks
    <3>3. Before(Task("finalize", Parent(b)), CCTasks(b)) \in Seq(Tasks)
      BY <2>2, <3>2, SMTT(30) DEF Before
    <3> QED
      BY <1>2, <2>3, <3>3, CheckCCIs
  <2>4. CASE ~(FinalizesParent(b) /\ Parent(b) # d.lfb)
    BY <1>2, <2>2, <2>4, CheckCCIs
  <2> QED
    BY <2>3, <2>4
<1> QED
  BY <1>1, <1>2

-----------------------------------------------------------------------------
(***************************************************************************)
(* handleVote changes the stored votes and the epoch, and loses no voter.  *)
(***************************************************************************)
Covered(index, voter, b) == \E w \in index : w.voter = voter /\ w.block = b

(***************************************************************************)
(* AddEpochVote keeps a vote of every voter for every block it ever stored *)
(* one for.                                                                *)
(***************************************************************************)
LEMMA IndexGrows ==
  ASSUME NEW index, NEW v
  PROVE  /\ AddToIndex(index, v) \subseteq index \cup {v}
         /\ Covered(AddToIndex(index, v), v.voter, v.block)
         /\ \A voter, b : Covered(index, voter, b) => Covered(AddToIndex(index, v), voter, b)
  BY DEF AddToIndex, Covered

(***************************************************************************)
(* The epochs of the latest votes stay epochs.                             *)
(***************************************************************************)
LEMMA EpochsType ==
  ASSUME NEW d, d.epochVotes \in [Validators -> -1 .. MaxEpoch], NEW v,
         v.epoch \in 0 .. MaxEpoch - 1
  PROVE  LatestEpochs(d, v) \in [Validators -> -1 .. MaxEpoch]
<1>1. v.epoch \in -1 .. MaxEpoch
  BY EngineAssumption, SMTT(30)
<1> DEFINE f == d.epochVotes
           R == -1 .. MaxEpoch
           y == IF f[v.voter] >= v.epoch THEN f[v.voter] ELSE v.epoch
<1>2. LatestEpochs(d, v) = [f EXCEPT ![v.voter] = y]
  BY DEF LatestEpochs
<1>3. v.voter \in Validators => y \in R
  BY <1>1
<1>4. f \in [Validators -> R]
  OBVIOUS
<1> DEFINE u == v.voter
<1>5. [f EXCEPT ![u] = y] \in [Validators -> R]
  <2> HIDE DEF f, y, R, u
  <2>1. u \in Validators => y \in R
    BY <1>3 DEF u
  <2>2. [f EXCEPT ![u] = y] = [w \in Validators |-> IF w = u THEN y ELSE f[w]]
    BY <1>4
  <2>3. [w \in Validators |-> IF w = u THEN y ELSE f[w]] \in [Validators -> R]
    BY <1>4, <2>1
  <2> QED
    BY <2>2, <2>3
<1> HIDE DEF f, y, R
<1> QED
  BY <1>2, <1>5 DEF R

StoredVote(n, v) == [db[n] EXCEPT !.index = AddToIndex(@, v), !.epochVotes = LatestEpochs(db[n], v)]

EndedEpoch(n, v) ==
  [StoredVote(n, v) EXCEPT !.epoch = v.epoch + 1, !.lastProposal = mem[n].lastProposal]

(***************************************************************************)
(* handleVote writes votes and the epoch, and touches no block.            *)
(***************************************************************************)
LEMMA HandleVoteIs ==
  ASSUME Inv, NEW n \in Honest, NEW v
  PROVE  LET d == HandleVote(n, v)
         IN  /\ DOMAIN d = DOMAIN db[n] /\ d.status = db[n].status /\ d.hcc = db[n].hcc
             /\ d.lfb = db[n].lfb /\ d.lastVote = db[n].lastVote
             /\ d.lastProposal \in {mem[n].lastProposal, db[n].lastProposal}
             /\ d.epoch \in {db[n].epoch, v.epoch + 1}
             /\ d.epochVotes \in {db[n].epochVotes, LatestEpochs(db[n], v)}
             /\ IF IsSigned(v) THEN d.index = AddToIndex(db[n].index, v)
                               ELSE d.index = db[n].index
<1>0. DOMAIN db[n] = {"status", "index", "epochVotes", "epoch", "hcc", "lfb",
                      "lastVote", "lastProposal"}
  BY DEF Inv, EngineInv, Shape
<1> DEFINE s == StoredVote(n, v)
           x == EndedEpoch(n, v)
<1>1. /\ DOMAIN s = DOMAIN db[n] /\ s.status = db[n].status /\ s.hcc = db[n].hcc
      /\ s.lfb = db[n].lfb /\ s.lastVote = db[n].lastVote
      /\ s.lastProposal = db[n].lastProposal /\ s.epoch = db[n].epoch
      /\ s.epochVotes = LatestEpochs(db[n], v) /\ s.index = AddToIndex(db[n].index, v)
  BY <1>0 DEF StoredVote
<1>2. /\ DOMAIN x = DOMAIN s /\ x.status = s.status /\ x.hcc = s.hcc
      /\ x.lfb = s.lfb /\ x.lastVote = s.lastVote
      /\ x.lastProposal = mem[n].lastProposal /\ x.epoch = v.epoch + 1
      /\ x.epochVotes = s.epochVotes /\ x.index = s.index
  BY <1>0, <1>1 DEF EndedEpoch
<1>3. HandleVote(n, v) = CASE ~IsSigned(v) -> db[n]
                           [] IsSigned(v) /\ ~EndsEpoch(db[n], v) -> s
                           [] IsSigned(v) /\ EndsEpoch(db[n], v) -> x
  BY DEF HandleVote, StoredVote, EndedEpoch
<1> HIDE DEF s, x
<1>4. \/ ~IsSigned(v) /\ HandleVote(n, v) = db[n]
      \/ IsSigned(v) /\ HandleVote(n, v) = s
      \/ IsSigned(v) /\ HandleVote(n, v) = x
  BY <1>3
<1> QED
  BY <1>1, <1>2, <1>4

(***************************************************************************)
(* Storing a vote keeps the database sound, and the vote is then stored    *)
(* when it is signed.                                                      *)
(***************************************************************************)
LEMMA HandledVote ==
  ASSUME Inv, UNCHANGED <<proposed, cert, sent, voted, crashes>>,
         NEW n \in Honest, NEW v \in AllVotes \cup UNION {cert[b] : b \in proposed},
         v.epoch \in 0 .. MaxEpoch - 1, SetDb(n, HandleVote(n, v))
  PROVE  /\ Grow /\ MessageInv' /\ DbFrame(n) /\ SameTree(n) /\ VotesOK(n)' /\ TreeOK(n)'
         /\ db'[n] = HandleVote(n, v) /\ Stored(n)' = Stored(n)
         /\ db'[n].lastProposal \in {mem[n].lastProposal, db[n].lastProposal}
         /\ IsSigned(v) => Covered(db'[n].index, v.voter, v.block)
         /\ \A voter, b : Covered(db[n].index, voter, b) => Covered(db'[n].index, voter, b)
         /\ \A m \in Honest : /\ StoredValid(m)' = StoredValid(m)
                              /\ db'[m].lastVote = db[m].lastVote
                              /\ db'[m].hcc = db[m].hcc /\ db'[m].lfb = db[m].lfb
<1> DEFINE d == HandleVote(n, v)
<1>1. /\ DOMAIN d = DOMAIN db[n] /\ d.status = db[n].status /\ d.hcc = db[n].hcc
      /\ d.lfb = db[n].lfb /\ d.lastVote = db[n].lastVote
      /\ d.lastProposal \in {mem[n].lastProposal, db[n].lastProposal}
      /\ d.epoch \in {db[n].epoch, v.epoch + 1}
      /\ d.epochVotes \in {db[n].epochVotes, LatestEpochs(db[n], v)}
      /\ IF IsSigned(v) THEN d.index = AddToIndex(db[n].index, v) ELSE d.index = db[n].index
  BY HandleVoteIs
<1>2. SetDb(n, d)
  OBVIOUS
<1> HIDE DEF d
<1>3. DbFrame(n) /\ db'[n] = d
  BY <1>1, <1>2, OnlyDb
<1>4. SameTree(n) /\ Stored(n)' = Stored(n)
  BY <1>1, <1>3 DEF SameTree, Stored
<1>5. Grow /\ MessageInv'
  <2>1. \A m \in Honest : Stored(m) \subseteq Stored(m)' /\ voted[m] \subseteq voted'[m]
    BY <1>3, <1>4 DEF Stored, DbFrame
  <2> QED
    BY <2>1, QuietNetwork DEF Inv, EngineInv, TypeOK
<1>6. VotesOK(n)'
  <2>1. VotesOK(n)
    BY Parts
  <2>2. d.epochVotes \in [Validators -> -1 .. MaxEpoch]
    BY <1>1, <2>1, EpochsType, SMTT(30) DEF VotesOK
  <2>3. d.epoch \in 0 .. MaxEpoch
    BY <1>1, <2>1, EngineAssumption, SMTT(30) DEF VotesOK
  <2>4. d.index \subseteq db[n].index \cup (IF IsSigned(v) THEN {v} ELSE {})
    BY <1>1, IndexGrows, SMTT(30)
  <2>5. \A w : IsSigned(w)' <=> IsSigned(w)
    BY DEF IsSigned
  <2>6. AllVotes' = AllVotes
    BY DEF AllVotes
  <2> QED
    BY <1>3, <2>1, <2>2, <2>3, <2>4, <2>5, <2>6, SMTT(30) DEF VotesOK
<1>7. TreeOK(n)'
  <2>1. Stored(n)' \subseteq proposed' \cup {Root}
    BY <1>4, Parts DEF TreeOK
  <2> QED
    BY <1>1, <1>3, <1>4, <1>5, <2>1, TreeKeeps
<1>8. /\ IsSigned(v) => Covered(d.index, v.voter, v.block)
      /\ \A voter, b : Covered(db[n].index, voter, b) => Covered(d.index, voter, b)
  BY <1>1, IndexGrows, SMTT(30)
<1>9. \A m \in Honest : /\ StoredValid(m)' = StoredValid(m)
                        /\ db'[m].lastVote = db[m].lastVote
                        /\ db'[m].hcc = db[m].hcc /\ db'[m].lfb = db[m].lfb
  <2>1. StoredValid(n)' = StoredValid(n)
    BY <1>4, <1>5, SameTreeKeeps
  <2>2. \A m \in Honest \ {n} : StoredValid(m)' = StoredValid(m)
    BY <1>3 DEF StoredValid, Stored, DbFrame
  <2> QED
    BY <1>1, <1>3, <2>1, <2>2 DEF DbFrame
<1> QED
  BY <1>1, <1>3, <1>4, <1>5, <1>6, <1>7, <1>8, <1>9 DEF d

(***************************************************************************)
(* A vote from the queue is stored, checkCC looks at the block it is for,  *)
(* and the epoch may be entered afterwards.                                *)
(***************************************************************************)
LEMMA VoteMessageIs ==
  ASSUME Inv, NEW n \in Honest, NEW v \in PeerVotes \cup sent, VoteMessage(n, v)
  PROVE  /\ UNCHANGED <<proposed, cert, sent, voted, crashes>>
         /\ v.epoch \in 0 .. MaxEpoch - 1 /\ v \in AllVotes
         /\ SetDb(n, HandleVote(n, v))
         /\ \E next \in {<< >>, << Task("enterEpoch", Root) >>} :
              SetWork(n, Join(CheckCC(HandleVote(n, v), v.block), next))
<1>1. UNCHANGED <<proposed, cert, sent, voted, crashes>>
  BY DEF VoteMessage, network
<1>2. v.epoch \in 0 .. MaxEpoch - 1 /\ v \in AllVotes
  <2>1. v.epoch \in Nat
    BY EngineAssumption, SMTT(30) DEF Inv, EngineInv, MessageInv
  <2>2. v.epoch < MaxEpoch
    BY DEF VoteMessage
  <2> QED
    BY <2>1, <2>2, EngineAssumption, SMTT(30) DEF AllVotes
<1> DEFINE next == IF IsSigned(v) /\ EndsEpoch(db[n], v)
                     THEN << Task("enterEpoch", Root) >> ELSE << >>
<1>3. SetDb(n, HandleVote(n, v)) /\ SetWork(n, Join(CheckCC(HandleVote(n, v), v.block), next))
  BY DEF VoteMessage, SetDb, SetWork, Join
<1>4. next \in {<< >>, << Task("enterEpoch", Root) >>}
  OBVIOUS
<1> HIDE DEF next
<1> QED
  BY <1>1, <1>2, <1>3, <1>4

(***************************************************************************)
(* The votes of the certificate of a block are stored one after another;   *)
(* then checkCC looks at the certified block.                              *)
(***************************************************************************)
LEMMA HccVotesIs ==
  ASSUME Inv, NEW n \in Honest, HccVotes(n)
  PROVE  /\ UNCHANGED <<proposed, cert, sent, voted, crashes>>
         /\ \E b \in Stored(n) : \E left \in SUBSET cert[b] :
              /\ Ready(n, b) /\ VotesInv(n, b, left)
              /\ \/ /\ left = {} /\ UNCHANGED db
                    /\ SetWork(n, Join(CheckCC(db[n], Hcc(b)), << Task("apply", b) >>))
                 \/ \E v \in left : /\ SetDb(n, HandleVote(n, v))
                                    /\ SetWork(n, << VotesTask(b, left \ {v}) >>)
<1> DEFINE t == Head(mem[n].work)
           rest == Tail(mem[n].work)
<1>1. Doing(n, "hccVotes") /\ UNCHANGED <<proposed, cert, sent, voted, crashes>>
  BY DEF HccVotes, network
<1>2. t.op = "hccVotes" /\ t.block = Block(n) /\ VotesNext(n, t, rest)
  BY <1>1, DoingNext
<1>3. \/ /\ t.votes = {} /\ UNCHANGED db
         /\ Then(n, CheckCC(db[n], Hcc(Block(n))) \o << Task("apply", Block(n)) >>)
      \/ \E v \in t.votes : /\ SetDb(n, HandleVote(n, v))
                            /\ Then(n, << VotesTask(Block(n), t.votes \ {v}) >>)
  BY DEF HccVotes, SetDb
<1>4. PICK b \in Stored(n) : \E left \in SUBSET cert[b] :
        t = VotesTask(b, left) /\ rest = << >> /\ Ready(n, b) /\ VotesInv(n, b, left)
  BY <1>2 DEF VotesNext
<1>5. PICK left \in SUBSET cert[b] :
        t = VotesTask(b, left) /\ rest = << >> /\ Ready(n, b) /\ VotesInv(n, b, left)
  BY <1>4
<1>6. t.votes = left /\ Block(n) = b
  BY <1>2, <1>5, SMTT(30) DEF VotesTask
<1>7. CASE /\ left = {} /\ UNCHANGED db
           /\ Then(n, CheckCC(db[n], Hcc(b)) \o << Task("apply", b) >>)
  <2> DEFINE w == CheckCC(db[n], Hcc(b)) \o << Task("apply", b) >>
  <2>1. Then(n, w)
    BY <1>7
  <2>2. w \in Seq(Tasks)
    <3>1. CheckCC(db[n], Hcc(b)) \in Seq(Tasks)
      BY NodeTypes, CheckCCType DEF Stored
    <3>2. Task("apply", b) \in Tasks
      BY NodeTypes, SMTT(30) DEF Tasks
    <3> QED
      BY <3>1, <3>2, SMTT(30)
  <2>3. Join(w, << >>) = w
    BY <2>2, SMTT(30) DEF Join
  <2>4. w = Join(CheckCC(db[n], Hcc(b)), << Task("apply", b) >>)
    BY DEF Join
  <2> HIDE DEF w
  <2>5. SetWork(n, Join(w, rest))
    BY <2>1, ThenWork
  <2>6. SetWork(n, Join(CheckCC(db[n], Hcc(b)), << Task("apply", b) >>))
    BY <1>5, <2>3, <2>4, <2>5
  <2> QED
    BY <1>1, <1>5, <1>7, <2>6
<1>8. ASSUME NEW v \in left, SetDb(n, HandleVote(n, v)), Then(n, << VotesTask(b, left \ {v}) >>)
      PROVE  SetWork(n, << VotesTask(b, left \ {v}) >>)
  <2>1. SetWork(n, Join(<< VotesTask(b, left \ {v}) >>, rest))
    BY <1>8, ThenWork
  <2>2. Join(<< VotesTask(b, left \ {v}) >>, << >>) = << VotesTask(b, left \ {v}) >>
    BY SMTT(30) DEF Join
  <2> QED
    BY <1>5, <2>1, <2>2
<1>9. CASE \E v \in left : /\ SetDb(n, HandleVote(n, v))
                           /\ Then(n, << VotesTask(b, left \ {v}) >>)
  BY <1>1, <1>5, <1>8, <1>9
<1> HIDE DEF t, rest
<1>10. \/ /\ left = {} /\ UNCHANGED db
          /\ Then(n, CheckCC(db[n], Hcc(b)) \o << Task("apply", b) >>)
       \/ \E v \in left : /\ SetDb(n, HandleVote(n, v))
                          /\ Then(n, << VotesTask(b, left \ {v}) >>)
  BY <1>3, <1>6
<1> QED
  BY <1>7, <1>9, <1>10

-----------------------------------------------------------------------------
(***************************************************************************)
(* The end of handleNormalBlock.                                           *)
(***************************************************************************)
Applied(n, c, w) == mem' = [mem EXCEPT ![n].blockProcessed = @ \/ c, ![n].work = w]

(***************************************************************************)
(* The block is applied after checkCC has raised the HCC to the block its  *)
(* certificate is for. It becomes invalid or valid, or stays pending when  *)
(* its transactions cannot be decided.                                     *)
(***************************************************************************)
LEMMA ApplyBlockIs ==
  ASSUME Inv, NEW n \in Honest, ApplyBlock(n)
  PROVE  /\ UNCHANGED <<proposed, cert, sent, voted, crashes>>
         /\ \E b \in Stored(n) :
              /\ Ready(n, b) /\ Height(Hcc(b)) <= Height(db[n].hcc)
              /\ \/ SetStatus(n, b, "invalid") /\ SetWork(n, << >>)
                 \/ UNCHANGED db /\ SetWork(n, << >>)
                 \/ /\ SetStatus(n, b, "valid")
                    /\ \E p \in {<< >>, FirstVote} : \E c :
                         Applied(n, c, Join(p, CheckCC(db'[n], b)))
<1> DEFINE t == Head(mem[n].work)
           rest == Tail(mem[n].work)
<1>1. Doing(n, "apply") /\ UNCHANGED <<proposed, cert, sent, voted, crashes>>
  BY DEF ApplyBlock, network
<1>2. t.block = Block(n) /\ ApplyNext(n, t, rest)
  BY <1>1, DoingNext
<1> HIDE DEF t, rest
<1>3. PICK b \in Stored(n) : /\ b = Block(n) /\ rest = << >>
                             /\ Ready(n, b) /\ Height(Hcc(b)) <= Height(db[n].hcc)
  BY <1>2 DEF ApplyNext
<1> DEFINE current == Epoch(b) \in {db[n].epoch - 1, db[n].epoch}
           vote == IF current /\ mem[n].voteTimerReady THEN << Task("vote", Root) >> ELSE << >>
           d == [db[n] EXCEPT !.status[b] = "valid"]
<1>4. \/ SetStatus(n, b, "invalid") /\ Then(n, << >>)
      \/ UNCHANGED db /\ Then(n, << >>)
      \/ SetDb(n, d) /\ Applied(n, current, vote \o CheckCC(d, b))
  BY <1>3 DEF ApplyBlock, SetStatus, SetDb, Applied
<1>5. Then(n, << >>) => SetWork(n, << >>)
  <2>1. Then(n, << >>) => SetWork(n, Join(<< >>, Tail(mem[n].work)))
    BY ThenWork
  <2>2. Join(<< >>, << >>) = << >>
    BY SMTT(30) DEF Join
  <2> QED
    BY <1>3, <2>1, <2>2 DEF rest
<1>6. vote \in {<< >>, FirstVote}
  BY DEF FirstVote
<1>7. ASSUME SetDb(n, d) PROVE SetStatus(n, b, "valid") /\ db'[n] = d
  BY <1>7 DEF SetDb, SetStatus, Inv, EngineInv, Shape
<1> HIDE DEF vote, d, current
<1>8. ASSUME SetDb(n, d), Applied(n, current, vote \o CheckCC(d, b))
      PROVE  \E p \in {<< >>, FirstVote} : \E c : Applied(n, c, Join(p, CheckCC(db'[n], b)))
  BY <1>6, <1>7, <1>8 DEF Join
<1> QED
  BY <1>1, <1>3, <1>4, <1>5, <1>7, <1>8

(***************************************************************************)
(* A block for which checkCC finds the votes of a majority is certified.   *)
(***************************************************************************)
LEMMA NewCCFound ==
  ASSUME Inv, NEW n \in Honest, VotesOK(n)', MessageInv', NEW b,
         HasNewCC(db'[n], b)
  PROVE  NewCC(n, b)' /\ b \in StoredValid(n)'
<1> DEFINE votes == {w \in db'[n].index : w.block = b}
<1>1. /\ b \in DOMAIN db'[n].status /\ db'[n].status[b] = "valid"
      /\ Height(b) > Height(db'[n].hcc) /\ HasMajority({v.voter : v \in votes})
  BY DEF HasNewCC
<1>2. \A v \in votes : v.voter \in Honest => b \in voted'[v.voter]
  BY DEF VotesOK, IsSigned, MessageInv
<1>3. Certified(b)'
  <2> HIDE DEF votes
  <2>1. HasMajority({v \in Honest : b \in voted'[v]} \cup Faulty)
    BY <1>1, <1>2, MajorityVoted
  <2> QED
    BY <2>1 DEF Certified
<1> QED
  BY <1>1, <1>3 DEF NewCC, StoredValid, Stored, IsValid

(***************************************************************************)
(* What checkCC leaves to be done, before the end of the handler, is       *)
(* justified work.                                                         *)
(***************************************************************************)
LEMMA CheckCCWork ==
  ASSUME Inv, NEW n \in Honest, VotesOK(n)', MessageInv', Stored(n)' \subseteq Blocks,
         NEW b, NEW p \in VoteWork(n)', p \in Seq(Tasks), NEW e \in Seq(Tasks),
         mem'[n].work = Join(p, Join(CheckCC(db'[n], b), e)),
         HasNewCC(db'[n], b) => e \in EndWork(n, b)',
         ~HasNewCC(db'[n], b) =>
           \E c \in StoredValid(n)' : e \in EndWork(n, c)' /\ Height(c) <= Height(db'[n].hcc)
  PROVE  WorkInv(n)'
<1> DEFINE w == CheckCC(db'[n], b)
           none == << >>
<1>1. CASE ~HasNewCC(db'[n], b)
  <2>1. PICK c \in StoredValid(n)' : e \in EndWork(n, c)' /\ Height(c) <= Height(db'[n].hcc)
    BY <1>1
  <2>2. w = none
    BY <1>1, CheckCCIs
  <2>3. none \in CCWork(n, c)' /\ none \in Seq(Tasks) /\ CCInv(n, c, none)'
    BY <2>1, SMTT(30) DEF CCWork, CCInv
  <2>4. mem'[n].work = Join(p, Join(none, e))
    BY <2>2
  <2> HIDE DEF none
  <2> QED
    BY <2>1, <2>3, <2>4, AllWork
<1>2. CASE HasNewCC(db'[n], b)
  <2>1. NewCC(n, b)' /\ b \in StoredValid(n)' /\ e \in EndWork(n, b)' /\ b \in Blocks
    BY <1>2, NewCCFound DEF StoredValid
  <2>2. w \in Seq(Tasks)
    BY <2>1, CheckCCType DEF Stored
  <2>3. CASE FinalizesParent(b) /\ Parent(b) # db'[n].lfb
    <3> DEFINE x == Before(Task("finalize", Parent(b)), CCTasks(b))
    <3>1. w = x
      BY <1>2, <2>3, CheckCCIs
    <3>2. x \in CCWork(n, b)'
      BY DEF CCWork
    <3>3. CCInv(n, b, x)'
      BY <2>1, <2>3 DEF CCInv
    <3>4. x \in Seq(Tasks)
      BY <2>2, <3>1
    <3>5. mem'[n].work = Join(p, Join(x, e))
      BY <3>1
    <3> HIDE DEF x
    <3> QED
      BY <2>1, <3>2, <3>3, <3>4, <3>5, AllWork
  <2>4. CASE ~(FinalizesParent(b) /\ Parent(b) # db'[n].lfb)
    <3>1. w = CCTasks(b)
      BY <1>2, <2>4, CheckCCIs
    <3>2. CCTasks(b) \in CCWork(n, b)'
      BY DEF CCWork
    <3>3. CCInv(n, b, CCTasks(b))'
      BY <2>1, <2>4 DEF CCInv
    <3>4. mem'[n].work = Join(p, Join(CCTasks(b), e)) /\ CCTasks(b) \in Seq(Tasks)
      BY <2>2, <3>1
    <3> QED
      BY <2>1, <3>2, <3>3, <3>4, AllWork
  <2> QED
    BY <2>3, <2>4
<1> QED
  BY <1>1, <1>2

(***************************************************************************)
(* The memory of a node that has applied a block.                          *)
(***************************************************************************)
LEMMA AppliedMem ==
  ASSUME Inv, NEW n \in Honest, NEW c, NEW w, Applied(n, c, w)
  PROVE  /\ MemFrame(n) /\ mem'[n].work = w
         /\ mem'[n].inbox = mem[n].inbox /\ mem'[n].passed = mem[n].passed
         /\ mem'[n].lastProposal = mem[n].lastProposal
         /\ mem'[n].voteTimerReady = mem[n].voteTimerReady
         /\ mem'[n].blockProcessed \in BOOLEAN
<1>1. /\ MemFrame(n) /\ mem'[n].work = w
      /\ mem'[n].inbox = mem[n].inbox /\ mem'[n].passed = mem[n].passed
      /\ mem'[n].lastProposal = mem[n].lastProposal
      /\ mem'[n].voteTimerReady = mem[n].voteTimerReady
  BY DEF Applied, Inv, EngineInv, Shape, MemFrame
<1> DEFINE p == mem[n].blockProcessed \/ c
<1>2. p \in BOOLEAN
  OBVIOUS
<1>3. mem' = [mem EXCEPT ![n].blockProcessed = p, ![n].work = w]
  BY DEF Applied
<1> HIDE DEF p
<1>4. mem'[n].blockProcessed = p
  BY <1>3 DEF Inv, EngineInv, Shape
<1>5. mem'[n].blockProcessed \in BOOLEAN
  BY <1>2, <1>4
<1> QED
  BY <1>1, <1>5

(***************************************************************************)
(* Applying a block keeps the invariant.                                   *)
(***************************************************************************)
LEMMA ApplyBlockStep ==
  ASSUME Inv, VotingInv', NEW n \in Honest, ApplyBlock(n)
  PROVE  Inv' /\ \A m \in Honest : StatusAdvances(m)
<1>1. UNCHANGED <<proposed, cert, sent, voted, crashes>>
  BY ApplyBlockIs
<1>2. PICK b \in Stored(n) :
        /\ Ready(n, b) /\ Height(Hcc(b)) <= Height(db[n].hcc)
        /\ \/ SetStatus(n, b, "invalid") /\ SetWork(n, << >>)
           \/ UNCHANGED db /\ SetWork(n, << >>)
           \/ /\ SetStatus(n, b, "valid")
              /\ \E p \in {<< >>, FirstVote} : \E c :
                   Applied(n, c, Join(p, CheckCC(db'[n], b)))
  BY ApplyBlockIs
<1>3. /\ b # Root /\ Parent(b) \in StoredValid(n) /\ db[n].status[b] = "pending"
      /\ b \in Blocks /\ db[n].hcc \in Blocks /\ crashes' \in 0 .. MaxCrashes
  BY <1>1, <1>2, Parts, NodeTypes DEF Ready, ValidateBlock, TreeOK, IsFinalized, Inv, EngineInv, TypeOK
<1>4. ASSUME NEW s \in {"invalid", "valid"}, SetStatus(n, b, s)
      PROVE  /\ Grow /\ MessageInv' /\ TreeOK(n)' /\ StatusAdvances(n)
             /\ SameVotes(n) /\ DbFrame(n) /\ Stored(n)' = Stored(n)
             /\ db'[n].hcc = db[n].hcc /\ db'[n].lastProposal = db[n].lastProposal
             /\ Root \in StoredValid(n)' /\ db'[n].status[b] = s
  <2>1. /\ SameVotes(n) /\ DbFrame(n) /\ \A m \in Honest : Stored(m)' = Stored(m)
        /\ db'[n].hcc = db[n].hcc /\ db'[n].lastProposal = db[n].lastProposal
        /\ db'[n].status[b] = s
    BY <1>4, OnlyStatus
  <2>2. Grow /\ MessageInv'
    BY <1>1, <1>3, <2>1, QuietNetwork
  <2>3. TreeOK(n)' /\ StatusAdvances(n)
    <3>1. /\ s \in Statuses /\ Rank(db[n].status[b]) < Rank(s) /\ s # "committed"
          /\ ~IsFinalized(s)
      BY <1>3, SMTT(30) DEF Statuses, Rank, IsFinalized
    <3> QED
      BY <1>1, <1>3, <1>4, <2>2, <3>1, StatusChange
  <2>4. Root \in StoredValid(n)'
    BY <2>3, StaysValid, NodeTypes DEF TreeOK
  <2> QED
    BY <2>1, <2>2, <2>3, <2>4
<1>5. CASE SetStatus(n, b, "invalid") /\ SetWork(n, << >>)
  <2>1. SameMem(n) /\ MemFrame(n) /\ mem'[n].work = << >>
    BY <1>5, OnlyWork
  <2>2. WorkInv(n)'
    BY <1>3, <1>4, <1>5, <2>1, NoWork
  <2> QED
    BY <1>4, <1>5, <2>1, <2>2, TreeStep DEF Frame
<1>6. CASE UNCHANGED db /\ SetWork(n, << >>)
  <2>1. mem'[n].work = << >> /\ Root \in StoredValid(n)' /\ db'[n].hcc \in Blocks
    BY <1>3, <1>6, OnlyWork, SameDb, NodeTypes
  <2>2. WorkInv(n)'
    BY <2>1, NoWork
  <2> QED
    BY <1>1, <1>6, <2>2, WorkStep
<1>7. ASSUME SetStatus(n, b, "valid"), NEW p \in {<< >>, FirstVote}, NEW c,
             Applied(n, c, Join(p, CheckCC(db'[n], b)))
      PROVE  Inv' /\ \A m \in Honest : StatusAdvances(m)
  <2>1. /\ Grow /\ MessageInv' /\ TreeOK(n)' /\ StatusAdvances(n)
        /\ SameVotes(n) /\ DbFrame(n) /\ Stored(n)' = Stored(n)
        /\ db'[n].hcc = db[n].hcc /\ db'[n].lastProposal = db[n].lastProposal
        /\ Root \in StoredValid(n)'
    BY <1>4, <1>7
  <2>2. /\ MemFrame(n) /\ mem'[n].work = Join(p, CheckCC(db'[n], b))
        /\ mem'[n].inbox = mem[n].inbox /\ mem'[n].passed = mem[n].passed
        /\ mem'[n].lastProposal = mem[n].lastProposal
        /\ mem'[n].voteTimerReady = mem[n].voteTimerReady
        /\ mem'[n].blockProcessed \in BOOLEAN
    BY <1>7, AppliedMem
  <2>3. VotesOK(n)'
    BY <2>1, VotesKeep
  <2>4. MemTypeOK(n)'
    <3>1. MemTypeOK(n)
      BY Parts
    <3>2. /\ mem'[n].inbox \subseteq Stored(n)' /\ mem'[n].passed \subseteq Stored(n)'
          /\ {db'[n].lastProposal, mem'[n].lastProposal} \subseteq Stored(n)' \cup {NoBlock}
      BY <2>1, <2>2, <3>1 DEF MemTypeOK
    <3>3. {mem'[n].voteTimerReady, mem'[n].blockProcessed} \subseteq BOOLEAN
      BY <2>2, <3>1 DEF MemTypeOK
    <3> QED
      BY <3>2, <3>3 DEF MemTypeOK
  <2>5. QueueInv(n)'
    <3>1. \A x \in Stored(n) : db'[n].status[x] = "pending" => db[n].status[x] = "pending"
      BY <2>1, StaysValid DEF TreeOK
    <3> QED
      BY <2>1, <2>2, <3>1, QueueKeeps
  <2>6. WorkInv(n)'
    <3> DEFINE e == << >>
               w == CheckCC(db'[n], b)
    <3>1. p \in VoteWork(n)' /\ p \in Seq(Tasks)
      <4>1. << >> \in VoteWork(n)' /\ << >> \in Seq(Tasks)
        BY SMTT(30) DEF VoteWork
      <4> QED
        BY <4>1, VoteFirst
    <3>2. Stored(n)' \subseteq Blocks
      BY <2>1, NodeTypes
    <3>3. w \in Seq(Tasks)
      BY <3>2, CheckCCType DEF Stored
    <3>4. e \in Seq(Tasks) /\ \A x : e \in EndWork(n, x)'
      BY SMTT(30) DEF EndWork
    <3>5. Join(w, e) = w
      BY <3>3, SMTT(30) DEF Join
    <3> HIDE DEF e
    <3>6. mem'[n].work = Join(p, Join(CheckCC(db'[n], b), e))
      BY <2>2, <3>5
    <3>7. Height(Root) <= Height(db'[n].hcc)
      BY <1>3, <2>1, DescendantBasics
    <3>8. \E x \in StoredValid(n)' : e \in EndWork(n, x)' /\ Height(x) <= Height(db'[n].hcc)
      BY <2>1, <3>4, <3>7
    <3>9. e \in EndWork(n, b)'
      BY <3>4
    <3> QED
      BY <2>1, <2>3, <3>1, <3>2, <3>4, <3>6, <3>8, <3>9, CheckCCWork
  <2> QED
    BY <2>1, <2>2, <2>3, <2>4, <2>5, <2>6, NodeStep DEF Frame, NodeInv
<1> QED
  BY <1>2, <1>5, <1>6, <1>7

(***************************************************************************)
(* A step that stores votes keeps the invariant when the work stays        *)
(* justified.                                                              *)
(***************************************************************************)
LEMMA VotesStep ==
  ASSUME Inv, Grow, VotingInv', MessageInv', NEW n \in Honest, DbFrame(n), SameTree(n),
         VotesOK(n)', TreeOK(n)', NEW w, SetWork(n, w), WorkInv(n)',
         db'[n].lastProposal \in {mem[n].lastProposal, db[n].lastProposal}
  PROVE  Inv' /\ \A m \in Honest : StatusAdvances(m)
<1>1. SameMem(n) /\ MemFrame(n)
  BY OnlyWork
<1>2. /\ StatusAdvances(n) /\ Stored(n) \subseteq Stored(n)'
      /\ \A b \in Stored(n) : db'[n].status[b] = "pending" => db[n].status[b] = "pending"
  BY SameTreeKeeps, StaysValid
<1>3. MemTypeOK(n)' /\ QueueInv(n)'
  BY <1>1, <1>2, MemKeeps, QueueKeeps DEF SameMem
<1> QED
  BY <1>1, <1>2, <1>3, NodeStep DEF Frame, NodeInv

(***************************************************************************)
(* Handling a vote from the queue keeps the invariant.                     *)
(***************************************************************************)
LEMMA VoteMessageStep ==
  ASSUME Inv, VotingInv', NEW n \in Honest, NEW v \in PeerVotes \cup sent, VoteMessage(n, v)
  PROVE  Inv' /\ \A m \in Honest : StatusAdvances(m)
<1>1. /\ UNCHANGED <<proposed, cert, sent, voted, crashes>>
      /\ v.epoch \in 0 .. MaxEpoch - 1 /\ v \in AllVotes /\ SetDb(n, HandleVote(n, v))
  BY VoteMessageIs
<1>2. PICK next \in {<< >>, << Task("enterEpoch", Root) >>} :
        SetWork(n, Join(CheckCC(HandleVote(n, v), v.block), next))
  BY VoteMessageIs
<1>3. /\ Grow /\ MessageInv' /\ DbFrame(n) /\ SameTree(n) /\ VotesOK(n)' /\ TreeOK(n)'
      /\ db'[n] = HandleVote(n, v) /\ Stored(n)' = Stored(n)
      /\ db'[n].lastProposal \in {mem[n].lastProposal, db[n].lastProposal}
  BY <1>1, HandledVote
<1>4. StoredValid(n)' = StoredValid(n) /\ Root \in StoredValid(n) /\ Stored(n)' \subseteq Blocks
  BY <1>3, SameTreeKeeps, NodeTypes
<1>5. WorkInv(n)'
  <2> DEFINE p == << >>
             w == CheckCC(db'[n], v.block)
  <2>1. p \in VoteWork(n)' /\ p \in Seq(Tasks)
    BY SMTT(30) DEF VoteWork
  <2>2. next \in Seq(Tasks) /\ \A c : next \in EndWork(n, c)'
    <3>1. Task("enterEpoch", Root) \in Tasks
      BY RootType, SMTT(30) DEF Tasks
    <3>2. << >> \in Seq(Tasks) /\ << Task("enterEpoch", Root) >> \in Seq(Tasks)
      BY <3>1, SMTT(30)
    <3>3. \A c : {<< >>, << Task("enterEpoch", Root) >>} \subseteq EndWork(n, c)'
      BY DEF EndWork
    <3> QED
      BY <3>2, <3>3
  <2>3. w \in Seq(Tasks)
    BY <1>4, CheckCCType DEF Stored
  <2>4. mem'[n].work = Join(w, next)
    BY <1>2, <1>3, OnlyWork
  <2>5. Join(p, Join(w, next)) = Join(w, next)
    BY <2>2, <2>3, SMTT(30) DEF Join
  <2>6. Height(Root) <= Height(db'[n].hcc)
    BY <1>3, NodeTypes, DescendantBasics DEF SameTree
  <2>7. \E c \in StoredValid(n)' : next \in EndWork(n, c)' /\ Height(c) <= Height(db'[n].hcc)
    BY <1>4, <2>2, <2>6
  <2>8. next \in EndWork(n, v.block)'
    BY <2>2
  <2>9. mem'[n].work = Join(p, Join(CheckCC(db'[n], v.block), next))
    BY <2>4, <2>5
  <2> HIDE DEF p
  <2> QED
    BY <1>3, <1>4, <2>1, <2>2, <2>7, <2>8, <2>9, CheckCCWork
<1> QED
  BY <1>2, <1>3, <1>5, VotesStep

(***************************************************************************)
(* The votes of a certificate: once all are stored, the block they are for *)
(* is not above the HCC unless checkCC finds it.                           *)
(***************************************************************************)
LEMMA HccIsFound ==
  ASSUME Inv, NEW n \in Honest, NEW b \in Stored(n), Ready(n, b), VotesInv(n, b, {}),
         ~HasNewCC(db[n], Hcc(b))
  PROVE  Height(Hcc(b)) <= Height(db[n].hcc)
<1> DEFINE h == Hcc(b)
<1>1. /\ h \in StoredValid(n) /\ b \in Blocks /\ h \in Blocks /\ db[n].hcc \in Blocks
      /\ db[n].lfb \in Blocks /\ Height(db[n].lfb) <= Height(db[n].hcc)
      /\ Height(h) \in Nat /\ Height(db[n].lfb) \in Nat /\ Height(db[n].hcc) \in Nat
  <2>1. b # Root
    BY Parts DEF Ready, TreeOK, IsFinalized
  <2>2. Parent(b) \in StoredValid(n) /\ b \in Blocks
    BY NodeTypes DEF Ready, ValidateBlock
  <2>3. h \in StoredValid(n)
    BY <2>1, <2>2, ValidTree
  <2> QED
    BY <2>2, <2>3, NodeTypes, BlockType
<1>2. /\ IsFinalized(db[n].status[h]) => IsDescendant(h, db[n].lfb)
      /\ db[n].status[h] = "committed" => Height(h) <= Height(db[n].hcc)
  BY <1>1, Parts DEF TreeOK, StoredValid
<1>3. db[n].status[h] \in {"valid", "committed", "direct", "indirect"}
  BY <1>1, NodeTypes DEF StoredValid, IsValid, Statuses
<1>4. CASE IsFinalized(db[n].status[h])
  BY <1>1, <1>2, <1>4, DescendantBasics, SMTT(30)
<1>5. CASE db[n].status[h] = "valid"
  <2>1. ~IsFinalized(db[n].status[h])
    BY <1>5 DEF IsFinalized
  <2>2. HasMajority({v.voter : v \in cert[b]})
    BY <2>1 DEF Ready, ValidateBlock, CertIsValid
  <2>3. {v.voter : v \in cert[b]} \subseteq {v.voter : v \in {w \in db[n].index : w.block = h}}
    BY <2>1 DEF VotesInv, VotesOn
  <2>4. HasMajority({v.voter : v \in {w \in db[n].index : w.block = h}})
    BY <2>2, <2>3 DEF Inv, MajoritiesGrow
  <2>5. ~(Height(h) > Height(db[n].hcc))
    BY <1>1, <1>5, <2>4 DEF HasNewCC, StoredValid, Stored
  <2> QED
    BY <1>1, <2>5, SMTT(30)
<1> QED
  BY <1>2, <1>3, <1>4, <1>5 DEF IsFinalized

(***************************************************************************)
(* A vote of a verified certificate that was stored is covered by the      *)
(* stored votes from then on.                                              *)
(***************************************************************************)
LEMMA VoteIsStored ==
  ASSUME Inv, NEW n \in Honest, NEW b \in Stored(n), Ready(n, b), NEW left \in SUBSET cert[b],
         VotesInv(n, b, left), NEW v \in left, UNCHANGED cert, SameTree(n),
         IsSigned(v) => Covered(db'[n].index, v.voter, v.block),
         \A voter, c : Covered(db[n].index, voter, c) => Covered(db'[n].index, voter, c)
  PROVE  VotesInv(n, b, left \ {v})'
<1> DEFINE h == Hcc(b)
<1>1. h \in Stored(n)
  <2>1. b # Root
    BY Parts DEF Ready, TreeOK, IsFinalized
  <2>2. Parent(b) \in StoredValid(n) /\ b \in Blocks
    BY NodeTypes DEF Ready, ValidateBlock
  <2> QED
    BY <2>1, <2>2, ValidTree, NodeTypes
<1>2. SUFFICES ASSUME ~IsFinalized(db[n].status[h]), NEW u \in cert[b] \ (left \ {v})
               PROVE  Covered(db'[n].index, u.voter, h)
  BY <1>1 DEF VotesInv, VotesOn, Covered, SameTree
<1>3. CASE u = v
  BY <1>2, <1>3 DEF Ready, ValidateBlock, CertIsValid
<1>4. CASE u # v
  <2>1. Covered(db[n].index, u.voter, h)
    BY <1>2, <1>4, SMTT(30) DEF VotesInv, VotesOn, Covered
  <2> QED
    BY <2>1
<1> QED
  BY <1>3, <1>4

(***************************************************************************)
(* Handling the votes of the certificate of a block keeps the invariant.   *)
(***************************************************************************)
LEMMA HccVotesStep ==
  ASSUME Inv, VotingInv', NEW n \in Honest, HccVotes(n)
  PROVE  Inv' /\ \A m \in Honest : StatusAdvances(m)
<1>1. UNCHANGED <<proposed, cert, sent, voted, crashes>>
  BY HccVotesIs
<1>2. PICK b \in Stored(n) : \E left \in SUBSET cert[b] :
        /\ Ready(n, b) /\ VotesInv(n, b, left)
        /\ \/ /\ left = {} /\ UNCHANGED db
              /\ SetWork(n, Join(CheckCC(db[n], Hcc(b)), << Task("apply", b) >>))
           \/ \E v \in left : /\ SetDb(n, HandleVote(n, v))
                              /\ SetWork(n, << VotesTask(b, left \ {v}) >>)
  BY HccVotesIs
<1>3. PICK left \in SUBSET cert[b] :
        /\ Ready(n, b) /\ VotesInv(n, b, left)
        /\ \/ /\ left = {} /\ UNCHANGED db
              /\ SetWork(n, Join(CheckCC(db[n], Hcc(b)), << Task("apply", b) >>))
           \/ \E v \in left : /\ SetDb(n, HandleVote(n, v))
                              /\ SetWork(n, << VotesTask(b, left \ {v}) >>)
  BY <1>2
<1>4. b \in Blocks /\ b \in proposed /\ Hcc(b) \in StoredValid(n)
  <2>1. b # Root
    BY <1>3, Parts DEF Ready, TreeOK, IsFinalized
  <2>2. Parent(b) \in StoredValid(n) /\ b \in Blocks
    BY <1>3, NodeTypes DEF Ready, ValidateBlock
  <2>3. b \in proposed \cup {Root}
    BY Parts DEF TreeOK
  <2> QED
    BY <2>1, <2>2, <2>3, ValidTree
<1>5. CASE /\ left = {} /\ UNCHANGED db
           /\ SetWork(n, Join(CheckCC(db[n], Hcc(b)), << Task("apply", b) >>))
  <2> DEFINE e == << Task("apply", b) >>
             p == << >>
             w == CheckCC(db[n], Hcc(b))
  <2>1. Grow /\ MessageInv' /\ SameTree(n) /\ SameVotes(n)
        /\ StoredValid(n)' = StoredValid(n) /\ Stored(n)' = Stored(n)
    BY <1>1, <1>5, SameNetwork, SameDb DEF Inv, EngineInv, TypeOK
  <2>2. VotesOK(n)'
    BY <2>1, VotesKeep
  <2>3. p \in VoteWork(n)' /\ p \in Seq(Tasks)
    BY SMTT(30) DEF VoteWork
  <2>4. e \in Seq(Tasks) /\ w \in Seq(Tasks)
    <3>1. Task("apply", b) \in Tasks
      BY <1>4, SMTT(30) DEF Tasks
    <3>2. w \in Seq(Tasks)
      BY NodeTypes, CheckCCType DEF Stored
    <3> QED
      BY <3>1, <3>2, SMTT(30)
  <2>5. e \in EndWork(n, Hcc(b))'
    <3>1. Ready(n, b)'
      BY <1>3, <2>1, SameTreeKeeps
    <3> QED
      BY <2>1, <3>1 DEF EndWork
  <2>6. SetWork(n, Join(w, e)) /\ Join(p, Join(w, e)) = Join(w, e)
    BY <1>5, <2>4, SMTT(30) DEF Join
  <2>7. ~HasNewCC(db[n], Hcc(b)) => Height(Hcc(b)) <= Height(db[n].hcc)
    BY <1>3, <1>5, HccIsFound
  <2> HIDE DEF e, p
  <2>8. mem'[n].work = Join(p, Join(CheckCC(db'[n], Hcc(b)), e))
    BY <1>5, <2>6, OnlyWork
  <2>9. ~HasNewCC(db'[n], Hcc(b)) =>
          \E c \in StoredValid(n)' : e \in EndWork(n, c)' /\ Height(c) <= Height(db'[n].hcc)
    BY <1>4, <1>5, <2>1, <2>5, <2>7
  <2>10. Stored(n)' \subseteq Blocks
    BY <2>1, NodeTypes
  <2>11. WorkInv(n)'
    BY <2>1, <2>2, <2>3, <2>4, <2>5, <2>8, <2>9, <2>10, CheckCCWork
  <2> QED
    BY <1>1, <1>5, <2>6, <2>11, WorkStep
<1>6. ASSUME NEW v \in left, SetDb(n, HandleVote(n, v)), SetWork(n, << VotesTask(b, left \ {v}) >>)
      PROVE  Inv' /\ \A m \in Honest : StatusAdvances(m)
  <2>1. v \in AllVotes \cup UNION {cert[c] : c \in proposed} /\ v.epoch \in 0 .. MaxEpoch - 1
    BY <1>4, <1>6 DEF Inv, EngineInv, MessageInv
  <2>2. /\ Grow /\ MessageInv' /\ DbFrame(n) /\ SameTree(n) /\ VotesOK(n)' /\ TreeOK(n)'
        /\ Stored(n)' = Stored(n)
        /\ db'[n].lastProposal \in {mem[n].lastProposal, db[n].lastProposal}
        /\ IsSigned(v) => Covered(db'[n].index, v.voter, v.block)
        /\ \A voter, c : Covered(db[n].index, voter, c) => Covered(db'[n].index, voter, c)
    BY <1>1, <1>6, <2>1, HandledVote
  <2>3. VotesInv(n, b, left \ {v})'
    BY <1>1, <1>3, <1>6, <2>2, VoteIsStored
  <2>4. Ready(n, b)' /\ b \in Stored(n)'
    BY <1>3, <2>2, SameTreeKeeps
  <2>5. mem'[n].work = << VotesTask(b, left \ {v}) >> /\ left \ {v} \in SUBSET (cert'[b])
    BY <1>1, <1>6, OnlyWork
  <2>6. WorkInv(n)'
    BY <2>3, <2>4, <2>5 DEF WorkInv
  <2> QED
    BY <1>6, <2>2, <2>6, VotesStep
<1> QED
  BY <1>3, <1>5, <1>6

-----------------------------------------------------------------------------
(***************************************************************************)
(* The work processCCBlock leaves, task by task.                           *)
(***************************************************************************)
LEMMA CCJoins ==
  ASSUME NEW b \in Blocks, NEW e \in Seq(Tasks)
  PROVE  /\ \A t \in Tasks : Join(<< t >>, Then2(b, e)) = Join(Before(t, CCTasks(b)), e)
         /\ Join(<< >>, Then2(b, e)) = Join(CCTasks(b), e)
         /\ Join(<< >>, Then1(b, e)) = Join(<< Task("commit", b) >>, e)
         /\ Join(<< >>, e) = e
         /\ << >> \in Seq(Tasks) /\ << Task("commit", b) >> \in Seq(Tasks)
         /\ CCTasks(b) \in Seq(Tasks)
         /\ \A t \in Tasks : Before(t, CCTasks(b)) \in Seq(Tasks)
<1>1. Task("setHcc", b) \in Tasks /\ Task("commit", b) \in Tasks
  BY SMTT(30) DEF Tasks
<1>2. /\ << >> \in Seq(Tasks) /\ << Task("commit", b) >> \in Seq(Tasks)
      /\ CCTasks(b) \in Seq(Tasks)
  BY <1>1, SMTT(30) DEF CCTasks
<1>3. \A t \in Tasks : Before(t, CCTasks(b)) \in Seq(Tasks)
  BY <1>2, SMTT(30) DEF Before
<1>4. \A t \in Tasks : Join(<< t >>, Then2(b, e)) = Join(Before(t, CCTasks(b)), e)
  BY <1>2, SMTT(30) DEF Join, Then2, Before
<1>5. CCTasks(b) \o e \in Seq(Tasks) /\ << Task("commit", b) >> \o e \in Seq(Tasks)
  BY <1>2, SMTT(30)
<1>6. \A q \in Seq(Tasks) : << >> \o q = q
  BY SMTT(30)
<1>7. /\ Join(<< >>, Then2(b, e)) = Join(CCTasks(b), e)
      /\ Join(<< >>, Then1(b, e)) = Join(<< Task("commit", b) >>, e)
      /\ Join(<< >>, e) = e
  BY <1>5, <1>6 DEF Join, Then2, Then1, Before
<1> QED
  BY <1>2, <1>3, <1>4, <1>7

(***************************************************************************)
(* finalizeBlock sets the last finalized block to the parent of a          *)
(* certified block that names it in its certificate.                       *)
(***************************************************************************)
LEMMA FinalizeBlockIs ==
  ASSUME Inv, NEW n \in Honest, FinalizeBlock(n)
  PROVE  /\ UNCHANGED <<proposed, cert, sent, voted, crashes>> /\ DbFrame(n) /\ SameVotes(n)
         /\ db'[n].lastProposal = mem[n].lastProposal /\ db'[n].status = db[n].status
         /\ db'[n].hcc = db[n].hcc /\ db'[n].lastVote = db[n].lastVote
         /\ \E b \in StoredValid(n) : \E e \in EndWork(n, b) :
              /\ NewCC(n, b) /\ FinalizesParent(b) /\ db'[n].lfb = Parent(b)
              /\ SetWork(n, Join(Before(Task("direct", Parent(b)), CCTasks(b)), e))
<1> DEFINE t == Head(mem[n].work)
           rest == Tail(mem[n].work)
           d == [db[n] EXCEPT !.lfb = Block(n)]
<1>1. Doing(n, "finalize") /\ UNCHANGED <<proposed, cert, sent, voted, crashes>>
  BY DEF FinalizeBlock, network
<1>2. Commit(n, d) /\ Then(n, << Task("direct", Block(n)) >>)
  BY DEF FinalizeBlock
<1>3. t.block = Block(n) /\ FinalizeNext(n, t, rest)
  BY <1>1, DoingNext
<1>4. /\ DOMAIN d = DOMAIN db[n] /\ d.lastVote = db[n].lastVote /\ d.lfb = Block(n)
      /\ d.status = db[n].status /\ d.index = db[n].index /\ d.epoch = db[n].epoch
      /\ d.epochVotes = db[n].epochVotes /\ d.hcc = db[n].hcc
  BY DEF Inv, EngineInv, Shape
<1> HIDE DEF d, t, rest
<1>5. /\ DbFrame(n) /\ SameVotes(n) /\ db'[n].lastVote = db[n].lastVote
      /\ db'[n].status = db[n].status /\ db'[n].hcc = db[n].hcc
      /\ db'[n].lfb = Block(n) /\ db'[n].lastProposal = mem[n].lastProposal
  BY <1>2, <1>4, Committed DEF SameVotes
<1>6. PICK b \in StoredValid(n) : \E e \in EndWork(n, b) :
        /\ t = Task("finalize", Parent(b)) /\ rest = Then2(b, e)
        /\ NewCC(n, b) /\ FinalizesParent(b)
  BY <1>3 DEF FinalizeNext
<1>7. PICK e \in EndWork(n, b) :
        /\ t = Task("finalize", Parent(b)) /\ rest = Then2(b, e)
        /\ NewCC(n, b) /\ FinalizesParent(b)
  BY <1>6
<1>8. Block(n) = Parent(b)
  BY <1>3, <1>7, TaskFields
<1>9. b \in Blocks /\ e \in Seq(Tasks) /\ Task("direct", Parent(b)) \in Tasks
  <2>1. b \in Blocks /\ b # Root /\ e \in Seq(Tasks)
    BY <1>7, NodeTypes, WorkTypes DEF FinalizesParent
  <2> QED
    BY <2>1, ParentType, SMTT(30) DEF Tasks
<1> DEFINE x == Task("direct", Parent(b))
<1> HIDE DEF x
<1>10. Then(n, << x >>) /\ x \in Tasks
  BY <1>2, <1>8, <1>9 DEF x
<1>11. SetWork(n, Join(<< x >>, Tail(mem[n].work)))
  BY <1>10, ThenWork
<1>12. SetWork(n, Join(<< x >>, Then2(b, e)))
  BY <1>7, <1>11 DEF rest
<1>13. Join(<< x >>, Then2(b, e)) = Join(Before(x, CCTasks(b)), e)
  BY <1>9, <1>10, CCJoins
<1>14. SetWork(n, Join(Before(Task("direct", Parent(b)), CCTasks(b)), e))
  BY <1>12, <1>13 DEF x
<1>15. db'[n].lfb = Parent(b)
  BY <1>5, <1>8
<1> QED
  BY <1>1, <1>5, <1>7, <1>14, <1>15

(***************************************************************************)
(* The HCC becomes the new certified block after its parent has been       *)
(* finalized, if it finalizes it.                                          *)
(***************************************************************************)
LEMMA SetHighestCCBlockIs ==
  ASSUME Inv, NEW n \in Honest, SetHighestCCBlock(n)
  PROVE  /\ UNCHANGED <<proposed, cert, sent, voted, crashes>> /\ DbFrame(n) /\ SameVotes(n)
         /\ db'[n].lastProposal = mem[n].lastProposal /\ db'[n].status = db[n].status
         /\ db'[n].lfb = db[n].lfb /\ db'[n].lastVote = db[n].lastVote
         /\ \E b \in StoredValid(n) : \E e \in EndWork(n, b) :
              /\ NewCC(n, b)
              /\ FinalizesParent(b) => db[n].lfb = Parent(b)
              /\ db'[n].hcc = b
              /\ SetWork(n, Join(<< Task("commit", b) >>, e))
<1> DEFINE t == Head(mem[n].work)
           rest == Tail(mem[n].work)
           d == [db[n] EXCEPT !.hcc = Block(n)]
<1>1. Doing(n, "setHcc") /\ UNCHANGED <<proposed, cert, sent, voted, crashes>>
  BY DEF SetHighestCCBlock, network
<1>2. Commit(n, d) /\ Then(n, << >>)
  BY DEF SetHighestCCBlock
<1>3. t.block = Block(n) /\ SetHccNext(n, t, rest)
  BY <1>1, DoingNext
<1>4. /\ DOMAIN d = DOMAIN db[n] /\ d.lastVote = db[n].lastVote /\ d.hcc = Block(n)
      /\ d.status = db[n].status /\ d.index = db[n].index /\ d.epoch = db[n].epoch
      /\ d.epochVotes = db[n].epochVotes /\ d.lfb = db[n].lfb
  BY DEF Inv, EngineInv, Shape
<1> HIDE DEF d, t, rest
<1>5. /\ DbFrame(n) /\ SameVotes(n) /\ db'[n].lastVote = db[n].lastVote
      /\ db'[n].status = db[n].status /\ db'[n].lfb = db[n].lfb
      /\ db'[n].hcc = Block(n) /\ db'[n].lastProposal = mem[n].lastProposal
  BY <1>2, <1>4, Committed DEF SameVotes
<1>6. PICK b \in StoredValid(n) : \E e \in EndWork(n, b) :
        /\ t = Task("setHcc", b) /\ rest = Then1(b, e)
        /\ NewCC(n, b)
        /\ FinalizesParent(b) => db[n].lfb = Parent(b)
  BY <1>3 DEF SetHccNext
<1>7. PICK e \in EndWork(n, b) :
        /\ t = Task("setHcc", b) /\ rest = Then1(b, e)
        /\ NewCC(n, b)
        /\ FinalizesParent(b) => db[n].lfb = Parent(b)
  BY <1>6
<1>8. db'[n].hcc = b
  BY <1>3, <1>5, <1>7, TaskFields, SMTT(30)
<1>9. b \in Blocks /\ e \in Seq(Tasks)
  BY <1>7, NodeTypes, WorkTypes
<1>10. SetWork(n, Join(<< >>, Tail(mem[n].work)))
  BY <1>2, ThenWork
<1>11. Join(<< >>, Then1(b, e)) = Join(<< Task("commit", b) >>, e)
  BY <1>9, CCJoins
<1>12. SetWork(n, Join(<< Task("commit", b) >>, e))
  BY <1>7, <1>10, <1>11 DEF rest
<1> QED
  BY <1>1, <1>5, <1>7, <1>8, <1>12

(***************************************************************************)
(* The loop that marks the finalized blocks runs down the chain from the   *)
(* new last finalized block, and stays below the block that is certified.  *)
(***************************************************************************)
LEMMA MarkFinalizedIs ==
  ASSUME Inv, NEW n \in Honest, MarkFinalized(n)
  PROVE  /\ UNCHANGED <<proposed, cert, sent, voted, crashes>>
         /\ \E b \in StoredValid(n), x \in StoredValid(n) : \E e \in EndWork(n, b) :
              /\ IsDescendant(x, db[n].lfb)
              /\ NewCC(n, b) /\ FinalizesParent(b) /\ db[n].lfb = Parent(b)
              /\ \/ /\ UNCHANGED db
                    /\ SetWork(n, Join(CCTasks(b), e))
                 \/ /\ ~IsFinalized(db[n].status[x])
                    /\ \E op \in {"direct", "indirect"} : SetStatus(n, x, op)
                    /\ SetWork(n, Join(Before(Task("indirect", Parent(x)), CCTasks(b)), e))
<1> DEFINE t == Head(mem[n].work)
           rest == Tail(mem[n].work)
<1>1. /\ Doing(n, "direct") \/ Doing(n, "indirect")
      /\ UNCHANGED <<proposed, cert, sent, voted, crashes>>
  BY DEF MarkFinalized, network
<1>2. t.block = Block(n) /\ MarkNext(n, t, rest) /\ t.op \in {"direct", "indirect"}
  BY <1>1, DoingNext
<1>3. IF Block(n) \notin Stored(n) \/ IsFinalized(db[n].status[Block(n)])
        THEN Then(n, << >>) /\ UNCHANGED db
        ELSE SetStatus(n, Block(n), t.op) /\ Then(n, << Task("indirect", Parent(Block(n))) >>)
  BY DEF MarkFinalized, SetStatus
<1> HIDE DEF t, rest
<1>4. PICK b \in StoredValid(n) : \E e \in EndWork(n, b) :
        /\ t \in MarkTasks(n) /\ rest = Then2(b, e)
        /\ IsDescendant(t.block, db[n].lfb)
        /\ NewCC(n, b) /\ FinalizesParent(b) /\ db[n].lfb = Parent(b)
  BY <1>2 DEF MarkNext
<1>5. PICK e \in EndWork(n, b) :
        /\ t \in MarkTasks(n) /\ rest = Then2(b, e)
        /\ IsDescendant(t.block, db[n].lfb)
        /\ NewCC(n, b) /\ FinalizesParent(b) /\ db[n].lfb = Parent(b)
  BY <1>4
<1>6. PICK x \in StoredValid(n) : x = Block(n)
  BY <1>2, <1>5, TaskFields, SMTT(30) DEF MarkTasks
<1>7. x \in Stored(n) /\ b \in Blocks /\ e \in Seq(Tasks)
  BY NodeTypes, WorkTypes
<1>8. CASE IsFinalized(db[n].status[x])
  <2>1. Then(n, << >>) /\ UNCHANGED db
    BY <1>3, <1>6, <1>8
  <2>2. SetWork(n, Join(<< >>, Tail(mem[n].work)))
    BY <2>1, ThenWork
  <2>3. Join(<< >>, Then2(b, e)) = Join(CCTasks(b), e)
    BY <1>7, CCJoins
  <2>4. SetWork(n, Join(CCTasks(b), e))
    BY <1>5, <2>2, <2>3 DEF rest
  <2> QED
    BY <1>1, <1>2, <1>5, <1>6, <2>1, <2>4
<1>9. CASE ~IsFinalized(db[n].status[x])
  <2>1. SetStatus(n, x, t.op) /\ Then(n, << Task("indirect", Parent(x)) >>)
    BY <1>3, <1>6, <1>7, <1>9
  <2> DEFINE y == Task("indirect", Parent(x))
  <2>2. y \in Tasks
    <3>1. x # Root
      BY <1>9, Parts DEF TreeOK
    <3>2. Parent(x) \in Blocks
      BY <1>7, <3>1, NodeTypes, ParentType
    <3> QED
      BY <3>2, SMTT(30) DEF Tasks
  <2>3. Then(n, << y >>)
    BY <2>1
  <2> HIDE DEF y
  <2>4. SetWork(n, Join(<< y >>, Tail(mem[n].work)))
    BY <2>3, ThenWork
  <2>5. Join(<< y >>, Then2(b, e)) = Join(Before(y, CCTasks(b)), e)
    BY <1>7, <2>2, CCJoins
  <2>6. SetWork(n, Join(Before(Task("indirect", Parent(x)), CCTasks(b)), e))
    BY <1>5, <2>4, <2>5 DEF rest, y
  <2>7. \E op \in {"direct", "indirect"} : SetStatus(n, x, op)
    BY <1>2, <2>1
  <2>8. IsDescendant(x, db[n].lfb)
    BY <1>2, <1>5, <1>6
  <2> QED
    BY <1>1, <1>5, <1>9, <2>6, <2>7, <2>8
<1> QED
  BY <1>8, <1>9

(***************************************************************************)
(* What processCCBlock left and the end of the handler are justified work. *)
(***************************************************************************)
LEMMA CCRest ==
  ASSUME NEW n \in Honest, NEW b \in StoredValid(n)',
         NEW w \in CCWork(n, b)', NEW e \in EndWork(n, b)', CCInv(n, b, w)',
         w \in Seq(Tasks), e \in Seq(Tasks), mem'[n].work = Join(w, e)
  PROVE  WorkInv(n)'
<1> DEFINE p == << >>
<1>1. p \in VoteWork(n)' /\ p \in Seq(Tasks)
  BY SMTT(30) DEF VoteWork
<1>2. Join(p, Join(w, e)) = Join(w, e)
  BY SMTT(30) DEF Join
<1> HIDE DEF p
<1> QED
  BY <1>1, <1>2, AllWork

-----------------------------------------------------------------------------
(***************************************************************************)
(* The steps of processCCBlock and finalizeBlock.  What the handler does   *)
(* after them still holds: the block that waits to be applied certifies b, *)
(* so it is above everything that b finalizes.                             *)
(***************************************************************************)
LEMMA EndKeeps ==
  ASSUME Inv, Grow, NEW n \in Honest, StatusAdvances(n),
         \A c \in Stored(n)' : db'[n].status[c] \in Statuses,
         \A c \in Stored(n) : db[n].status[c] = "pending" => db'[n].status[c] = "pending",
         NEW b \in StoredValid(n), Height(db'[n].lfb) \in Nat,
         Height(db'[n].lfb) <= Height(db[n].lfb) \/ Height(db'[n].lfb) <= Height(b),
         NEW e \in EndWork(n, b)
  PROVE  e \in EndWork(n, b)' /\ e \in Seq(Tasks)
<1>1. e \in Seq(Tasks)
  BY WorkTypes
<1>2. ASSUME NEW c \in Stored(n), Ready(n, c), Hcc(c) = b
      PROVE  c \in Stored(n)' /\ Ready(n, c)'
  <2>1. c \in Blocks /\ c # Root
    BY <1>2, NodeTypes, Parts DEF Ready, TreeOK, IsFinalized
  <2>2. /\ Height(b) < Height(c) /\ Height(b) \in Nat /\ Height(c) \in Nat
        /\ Height(db[n].lfb) < Height(c) /\ Height(db[n].lfb) \in Nat
    BY <1>2, <2>1, HccType, BlockType, NodeTypes DEF Ready, ValidateBlock
  <2>3. Height(c) > Height(db'[n].lfb)
    BY <2>2, SMTT(30)
  <2>4. db'[n].status[c] = db[n].status[c]
    BY <1>2 DEF Ready
  <2>5. Ready(n, c)'
    BY <1>2, <2>3, <2>4, StaysReady
  <2> QED
    BY <2>5 DEF Ready
<1>3. \/ e = << >> \/ e = << Task("enterEpoch", Root) >>
      \/ \E c \in Stored(n) : Ready(n, c) /\ Hcc(c) = b /\ e = << Task("apply", c) >>
  BY DEF EndWork
<1>4. e \in EndWork(n, b)'
  BY <1>2, <1>3 DEF EndWork
<1> QED
  BY <1>1, <1>4

(***************************************************************************)
(* A step of processCCBlock keeps the invariant when it keeps the tree of  *)
(* blocks and its own work justified.                                      *)
(***************************************************************************)
LEMMA CCStep ==
  ASSUME Inv, VotingInv', NEW n \in Honest,
         UNCHANGED <<proposed, cert, sent, voted, crashes>>,
         DbFrame(n), SameVotes(n), StatusAdvances(n), TreeOK(n)',
         db'[n].lastProposal \in {mem[n].lastProposal, db[n].lastProposal},
         \A c \in Stored(n) : db[n].status[c] = "pending" => db'[n].status[c] = "pending",
         NEW b \in StoredValid(n), NEW e \in EndWork(n, b), Height(db'[n].lfb) \in Nat,
         Height(db'[n].lfb) <= Height(db[n].lfb) \/ Height(db'[n].lfb) <= Height(b),
         NEW w \in CCWork(n, b)', w \in Seq(Tasks), CCInv(n, b, w)',
         SetWork(n, Join(w, e))
  PROVE  Inv' /\ \A m \in Honest : StatusAdvances(m)
<1>1. \A m \in Honest : Stored(m) \subseteq Stored(m)' /\ voted[m] \subseteq voted'[m]
  BY DEF StatusAdvances, DbFrame, Stored
<1>2. Grow /\ MessageInv'
  BY <1>1, QuietNetwork DEF Inv, EngineInv, TypeOK
<1>3. \A c \in Stored(n)' : db'[n].status[c] \in Statuses
  BY DEF TreeOK
<1>4. e \in EndWork(n, b)' /\ e \in Seq(Tasks)
  BY <1>2, <1>3, EndKeeps
<1>5. b \in StoredValid(n)'
  BY <1>3, StaysValid
<1>6. SameMem(n) /\ MemFrame(n) /\ mem'[n].work = Join(w, e)
  BY OnlyWork
<1>7. WorkInv(n)'
  BY <1>4, <1>5, <1>6, CCRest
<1> QED
  BY <1>2, <1>6, <1>7, TreeStep DEF Frame

(***************************************************************************)
(* That the new last finalized block extends the previous one is a fact    *)
(* about all nodes (NextFinalized in ChainVotingProofs).                   *)
(***************************************************************************)
LEMMA FinalizeBlockStep ==
  ASSUME Inv, VotingInv', NEW n \in Honest, FinalizeBlock(n),
         IsDescendant(db[n].lfb, db'[n].lfb)
  PROVE  Inv' /\ \A m \in Honest : StatusAdvances(m)
<1>1. /\ UNCHANGED <<proposed, cert, sent, voted, crashes>> /\ DbFrame(n) /\ SameVotes(n)
      /\ db'[n].lastProposal = mem[n].lastProposal /\ db'[n].status = db[n].status
      /\ db'[n].hcc = db[n].hcc /\ db'[n].lastVote = db[n].lastVote
  BY FinalizeBlockIs
<1>2. PICK b \in StoredValid(n) : \E e \in EndWork(n, b) :
        /\ NewCC(n, b) /\ FinalizesParent(b) /\ db'[n].lfb = Parent(b)
        /\ SetWork(n, Join(Before(Task("direct", Parent(b)), CCTasks(b)), e))
  BY FinalizeBlockIs
<1>3. PICK e \in EndWork(n, b) :
        /\ NewCC(n, b) /\ FinalizesParent(b) /\ db'[n].lfb = Parent(b)
        /\ SetWork(n, Join(Before(Task("direct", Parent(b)), CCTasks(b)), e))
  BY <1>2
<1>4. /\ b \in Blocks /\ b # Root /\ Parent(b) \in Blocks /\ Parent(b) \in StoredValid(n)
      /\ Height(Parent(b)) \in Nat /\ Height(Parent(b)) <= Height(b)
  <2>1. b \in Blocks /\ b # Root
    BY <1>3, NodeTypes DEF FinalizesParent
  <2> QED
    BY <2>1, ValidTree, ParentType, BlockType, SMTT(30)
<1>5. Stored(n)' = Stored(n) /\ StoredValid(n)' = StoredValid(n) /\ StatusAdvances(n)
  BY <1>1 DEF Stored, StoredValid, StatusAdvances
<1>6. TreeOK(n)'
  <2>1. TreeOK(n) /\ db[n].lfb \in Blocks /\ Stored(n) \subseteq Blocks
    BY Parts, NodeTypes
  <2>2. \A c \in Stored(n) : IsFinalized(db[n].status[c]) => IsDescendant(c, db'[n].lfb)
    BY <1>3, <1>4, <2>1, DescendantTransitive DEF TreeOK
  <2> QED
    BY <1>1, <1>3, <1>4, <1>5, <2>1, <2>2 DEF TreeOK
<1> DEFINE x == Task("direct", Parent(b))
           w == Before(x, CCTasks(b))
<1>7. x \in MarkTasks(n)' /\ x \in Tasks /\ x.block = Parent(b)
  BY <1>4, <1>5, TaskFields, SMTT(30) DEF MarkTasks, Tasks
<1> HIDE DEF x
<1>8. w \in Seq(Tasks)
  <2>1. e \in Seq(Tasks)
    BY WorkTypes
  <2> QED
    BY <1>4, <1>7, <2>1, CCJoins
<1> HIDE DEF w
<1>9. w \in CCWork(n, b)'
  BY <1>7 DEF CCWork, w
<1>10. CCInv(n, b, w)'
  <2>1. NewCC(n, b)'
    BY <1>1, <1>3 DEF NewCC, Certified
  <2>2. IsDescendant(x.block, db'[n].lfb)
    BY <1>3, <1>4, <1>7, DescendantBasics
  <2> QED
    BY <1>3, <1>7, <2>1, <2>2 DEF CCInv, w
<1>11. SetWork(n, Join(w, e))
  BY <1>3 DEF w, x
<1>12. /\ \A c \in Stored(n) : db[n].status[c] = "pending" => db'[n].status[c] = "pending"
       /\ Height(db'[n].lfb) \in Nat /\ Height(db'[n].lfb) <= Height(b)
  BY <1>1, <1>3, <1>4
<1> QED
  BY <1>1, <1>5, <1>6, <1>8, <1>9, <1>10, <1>11, <1>12, CCStep

(***************************************************************************)
(* A last finalized block that stays is not higher than it was.            *)
(***************************************************************************)
LEMMA LfbStays ==
  ASSUME Inv, NEW n \in Honest, db'[n].lfb = db[n].lfb
  PROVE  Height(db'[n].lfb) \in Nat /\ Height(db'[n].lfb) <= Height(db[n].lfb)
<1>1. Height(db[n].lfb) \in Nat
  BY NodeTypes
<1>2. \A i \in Nat : i <= i
  BY SMTT(30)
<1> QED
  BY <1>1, <1>2

(***************************************************************************)
(* Raising the HCC keeps the invariant.                                    *)
(***************************************************************************)
LEMMA SetHighestCCBlockStep ==
  ASSUME Inv, VotingInv', NEW n \in Honest, SetHighestCCBlock(n)
  PROVE  Inv' /\ \A m \in Honest : StatusAdvances(m)
<1>1. /\ UNCHANGED <<proposed, cert, sent, voted, crashes>> /\ DbFrame(n) /\ SameVotes(n)
      /\ db'[n].lastProposal = mem[n].lastProposal /\ db'[n].status = db[n].status
      /\ db'[n].lfb = db[n].lfb /\ db'[n].lastVote = db[n].lastVote
  BY SetHighestCCBlockIs
<1>2. PICK b \in StoredValid(n) : \E e \in EndWork(n, b) :
        /\ NewCC(n, b)
        /\ FinalizesParent(b) => db[n].lfb = Parent(b)
        /\ db'[n].hcc = b
        /\ SetWork(n, Join(<< Task("commit", b) >>, e))
  BY SetHighestCCBlockIs
<1>3. PICK e \in EndWork(n, b) :
        NewCC(n, b) /\ db'[n].hcc = b /\ SetWork(n, Join(<< Task("commit", b) >>, e))
  BY <1>2
<1>4. Stored(n)' = Stored(n) /\ StoredValid(n)' = StoredValid(n) /\ StatusAdvances(n)
  BY <1>1 DEF Stored, StoredValid, StatusAdvances
<1>5. TreeOK(n)'
  <2>1. /\ TreeOK(n) /\ db[n].hcc \in Blocks /\ Stored(n) \subseteq Blocks
        /\ Height(db[n].hcc) \in Nat /\ \A c \in Stored(n) : Height(c) \in Nat
        /\ b \in Stored(n)
    BY Parts, NodeTypes
  <2>2. \A c \in Stored(n) : db[n].status[c] = "committed" => Height(c) <= Height(db'[n].hcc)
    <3>1. \A c \in Stored(n) : db[n].status[c] = "committed" => Height(c) <= Height(db[n].hcc)
      BY <2>1 DEF TreeOK
    <3>2. Height(db[n].hcc) < Height(db'[n].hcc) /\ Height(db'[n].hcc) \in Nat
      BY <1>3, <2>1 DEF NewCC
    <3> QED
      BY <2>1, <3>1, <3>2, SMTT(30)
  <2> QED
    BY <1>1, <1>3, <1>4, <2>1, <2>2 DEF TreeOK
<1> DEFINE w == << Task("commit", b) >>
<1>6. w \in CCWork(n, b)' /\ w \in Seq(Tasks)
  <2>1. b \in Blocks /\ e \in Seq(Tasks)
    BY NodeTypes, WorkTypes
  <2> QED
    BY <2>1, CCJoins DEF CCWork
<1>7. CCInv(n, b, w)'
  <2>1. b = db'[n].hcc /\ db'[n].status[b] = "valid"
    BY <1>1, <1>3 DEF NewCC
  <2> QED
    BY <2>1 DEF CCInv
<1>8. /\ \A c \in Stored(n) : db[n].status[c] = "pending" => db'[n].status[c] = "pending"
      /\ Height(db'[n].lfb) \in Nat /\ Height(db'[n].lfb) <= Height(db[n].lfb)
  BY <1>1, LfbStays
<1>9. SetWork(n, Join(w, e))
  BY <1>3
<1> HIDE DEF w
<1> QED
  BY <1>1, <1>4, <1>5, <1>6, <1>7, <1>8, <1>9, CCStep

(***************************************************************************)
(* Marking the HCC as committed keeps the invariant.                       *)
(***************************************************************************)
LEMMA CommitBlockStep ==
  ASSUME Inv, VotingInv', NEW n \in Honest, CommitBlock(n)
  PROVE  Inv' /\ \A m \in Honest : StatusAdvances(m)
<1> DEFINE t == Head(mem[n].work)
           rest == Tail(mem[n].work)
<1>1. /\ Doing(n, "commit") /\ UNCHANGED <<proposed, cert, sent, voted, crashes>>
      /\ SetStatus(n, Block(n), "committed") /\ Then(n, << >>)
  BY DEF CommitBlock, network, SetStatus
<1>2. t.block = Block(n) /\ CommitNext(n, t, rest)
  BY <1>1, DoingNext
<1> HIDE DEF t, rest
<1>3. PICK b \in StoredValid(n) : \E e \in EndWork(n, b) :
        /\ t = Task("commit", b) /\ rest = e
        /\ b = db[n].hcc /\ db[n].status[b] = "valid"
  BY <1>2 DEF CommitNext
<1>4. PICK e \in EndWork(n, b) :
        /\ t = Task("commit", b) /\ rest = e
        /\ b = db[n].hcc /\ db[n].status[b] = "valid"
  BY <1>3
<1>5. b \in Stored(n) /\ b \in Blocks /\ e \in Seq(Tasks) /\ Height(b) \in Nat
  BY NodeTypes, WorkTypes
<1>6. SetStatus(n, b, "committed")
  <2>1. Block(n) = b
    <3>1. Task("commit", b).block = b
      BY TaskFields
    <3> QED
      BY <1>2, <1>4, <3>1
  <2> QED
    BY <1>1, <2>1
<1>7. /\ SameVotes(n) /\ DbFrame(n) /\ \A m \in Honest : Stored(m)' = Stored(m)
      /\ db'[n].status[b] = "committed"
      /\ \A c \in Stored(n) \ {b} : db'[n].status[c] = db[n].status[c]
      /\ db'[n].hcc = db[n].hcc /\ db'[n].lfb = db[n].lfb
      /\ db'[n].lastProposal = db[n].lastProposal
  BY <1>5, <1>6, OnlyStatus
<1>8. Grow
  BY <1>1, <1>7, QuietNetwork DEF Inv, EngineInv, TypeOK
<1>9. TreeOK(n)' /\ StatusAdvances(n)
  <2>1. /\ "committed" \in Statuses /\ Rank(db[n].status[b]) < Rank("committed")
        /\ ~IsFinalized("committed")
    BY <1>4, SMTT(30) DEF Statuses, Rank, IsFinalized
  <2> QED
    BY <1>1, <1>4, <1>5, <1>6, <1>8, <2>1, StatusChange
<1>10. SetWork(n, Join(<< >>, e))
  <2>1. SetWork(n, Join(<< >>, Tail(mem[n].work)))
    BY <1>1, ThenWork
  <2> QED
    BY <1>4, <2>1 DEF rest
<1> DEFINE w == << >>
<1>11. w \in CCWork(n, b)' /\ w \in Seq(Tasks)
  BY <1>5, CCJoins DEF CCWork
<1>12. CCInv(n, b, w)'
  <2>1. Height(b) <= Height(db'[n].hcc)
    <3>1. b = db'[n].hcc
      BY <1>4, <1>7
    <3> QED
      BY <1>5, <3>1, SMTT(30)
  <2> QED
    BY <2>1 DEF CCInv
<1>13. /\ \A c \in Stored(n) : db[n].status[c] = "pending" => db'[n].status[c] = "pending"
       /\ Height(db'[n].lfb) \in Nat /\ Height(db'[n].lfb) <= Height(db[n].lfb)
  BY <1>4, <1>7, LfbStays
<1> HIDE DEF w
<1>14. SetWork(n, Join(w, e))
  BY <1>10 DEF w
<1> QED
  BY <1>1, <1>7, <1>9, <1>11, <1>12, <1>13, <1>14, CCStep

(***************************************************************************)
(* Marking a block and its ancestors as finalized, one write after another *)
(* (FinalizePreviousBlocks), keeps the invariant.                          *)
(***************************************************************************)
LEMMA MarkFinalizedStep ==
  ASSUME Inv, VotingInv', NEW n \in Honest, MarkFinalized(n)
  PROVE  Inv' /\ \A m \in Honest : StatusAdvances(m)
<1>1. UNCHANGED <<proposed, cert, sent, voted, crashes>>
  BY MarkFinalizedIs
<1>2. PICK b \in StoredValid(n), x \in StoredValid(n) : \E e \in EndWork(n, b) :
        /\ IsDescendant(x, db[n].lfb)
        /\ NewCC(n, b) /\ FinalizesParent(b) /\ db[n].lfb = Parent(b)
        /\ \/ /\ UNCHANGED db
              /\ SetWork(n, Join(CCTasks(b), e))
           \/ /\ ~IsFinalized(db[n].status[x])
              /\ \E op \in {"direct", "indirect"} : SetStatus(n, x, op)
              /\ SetWork(n, Join(Before(Task("indirect", Parent(x)), CCTasks(b)), e))
  BY MarkFinalizedIs
<1>3. PICK e \in EndWork(n, b) :
        /\ IsDescendant(x, db[n].lfb)
        /\ NewCC(n, b) /\ FinalizesParent(b) /\ db[n].lfb = Parent(b)
        /\ \/ /\ UNCHANGED db
              /\ SetWork(n, Join(CCTasks(b), e))
           \/ /\ ~IsFinalized(db[n].status[x])
              /\ \E op \in {"direct", "indirect"} : SetStatus(n, x, op)
              /\ SetWork(n, Join(Before(Task("indirect", Parent(x)), CCTasks(b)), e))
  BY <1>2
<1>4. /\ b \in Blocks /\ b # Root /\ x \in Blocks /\ x \in Stored(n) /\ b \in Stored(n)
      /\ e \in Seq(Tasks) /\ db[n].lfb \in Blocks /\ Height(db[n].lfb) \in Nat
      /\ Height(x) <= Height(db[n].lfb) /\ Height(db[n].lfb) = Height(b) - 1
      /\ Height(x) \in Nat /\ Height(b) \in Nat
  <2>1. /\ b \in Blocks /\ b # Root /\ x \in Blocks /\ x \in Stored(n) /\ b \in Stored(n)
        /\ e \in Seq(Tasks) /\ db[n].lfb \in Blocks /\ Height(db[n].lfb) \in Nat
    BY <1>3, NodeTypes, WorkTypes DEF FinalizesParent
  <2> QED
    BY <1>3, <2>1, DescendantBasics, BlockType, ParentType
<1>5. CASE UNCHANGED db /\ SetWork(n, Join(CCTasks(b), e))
  <2>1. /\ SameVotes(n) /\ SameTree(n) /\ DbFrame(n) /\ Stored(n)' = Stored(n)
        /\ StoredValid(n)' = StoredValid(n)
    BY <1>5, SameDb
  <2>2. Grow
    BY <1>1, <1>5, SameNetwork DEF Inv, EngineInv, TypeOK
  <2>3. TreeOK(n)' /\ StatusAdvances(n)
    <3>1. Stored(n)' \subseteq proposed' \cup {Root} /\ db'[n].lastVote = db[n].lastVote
      BY <1>1, <1>5, <2>1, Parts DEF TreeOK
    <3> QED
      BY <2>1, <2>2, <3>1, TreeKeeps, SameTreeKeeps
  <2>4. CCTasks(b) \in CCWork(n, b)' /\ CCTasks(b) \in Seq(Tasks)
    BY <1>4, CCJoins DEF CCWork
  <2>5. CCInv(n, b, CCTasks(b))'
    <3>1. NewCC(n, b)' /\ (FinalizesParent(b) => db'[n].lfb = Parent(b))
      BY <1>1, <1>3, <1>5 DEF NewCC, Certified
    <3> QED
      BY <3>1 DEF CCInv
  <2>6. /\ \A c \in Stored(n) : db[n].status[c] = "pending" => db'[n].status[c] = "pending"
        /\ Height(db'[n].lfb) \in Nat /\ Height(db'[n].lfb) <= Height(db[n].lfb)
        /\ db'[n].lastProposal \in {mem[n].lastProposal, db[n].lastProposal}
    BY <1>5, LfbStays
  <2> QED
    BY <1>1, <1>5, <2>1, <2>3, <2>4, <2>5, <2>6, CCStep
<1>6. ASSUME ~IsFinalized(db[n].status[x]), NEW op \in {"direct", "indirect"},
             SetStatus(n, x, op),
             SetWork(n, Join(Before(Task("indirect", Parent(x)), CCTasks(b)), e))
      PROVE  Inv' /\ \A m \in Honest : StatusAdvances(m)
  <2>1. /\ SameVotes(n) /\ DbFrame(n) /\ \A m \in Honest : Stored(m)' = Stored(m)
        /\ db'[n].status[x] = op
        /\ \A c \in Stored(n) \ {x} : db'[n].status[c] = db[n].status[c]
        /\ db'[n].hcc = db[n].hcc /\ db'[n].lfb = db[n].lfb
        /\ db'[n].lastProposal = db[n].lastProposal
    BY <1>4, <1>6, OnlyStatus
  <2>2. Grow
    BY <1>1, <2>1, QuietNetwork DEF Inv, EngineInv, TypeOK
  <2>3. TreeOK(n)' /\ StatusAdvances(n)
    <3>1. /\ op \in Statuses /\ Rank(db[n].status[x]) < Rank(op)
          /\ op # "invalid" /\ op # "valid" /\ op # "committed"
      <4>1. db[n].status[x] \in Statuses /\ IsValid(db[n].status[x])
        BY <1>4, NodeTypes DEF StoredValid
      <4>2. db[n].status[x] \in {"valid", "committed"}
        BY <1>6, <4>1 DEF Statuses, IsValid, IsFinalized
      <4> QED
        BY <1>6, <4>2, SMTT(30) DEF Statuses, Rank
    <3> QED
      BY <1>1, <1>3, <1>4, <1>6, <2>2, <3>1, StatusChange
  <2>4. /\ StoredValid(n) \subseteq StoredValid(n)'
        /\ Parent(x) \in StoredValid(n) /\ Parent(x) \in Blocks
        /\ IsDescendant(Parent(x), db[n].lfb)
    <3>1. x # Root
      BY <1>6, Parts DEF TreeOK
    <3>2. Parent(x) \in StoredValid(n) /\ Parent(x) \in Blocks /\ IsDescendant(Parent(x), x)
      BY <1>4, <3>1, ValidTree, ParentType
    <3>3. IsDescendant(Parent(x), db[n].lfb)
      BY <1>3, <1>4, <3>2, DescendantTransitive
    <3>4. \A c \in Stored(n)' : db'[n].status[c] \in Statuses
      BY <2>3 DEF TreeOK
    <3> QED
      BY <2>3, <3>2, <3>3, <3>4, StaysValid
  <2> DEFINE y == Task("indirect", Parent(x))
             w == Before(y, CCTasks(b))
  <2>5. y \in MarkTasks(n)' /\ y \in Tasks /\ y.block = Parent(x)
    BY <2>4, TaskFields, SMTT(30) DEF MarkTasks, Tasks
  <2> HIDE DEF y
  <2>6. w \in Seq(Tasks)
    BY <1>4, <2>5, CCJoins
  <2> HIDE DEF w
  <2>7. w \in CCWork(n, b)'
    BY <2>5 DEF CCWork, w
  <2>8. CCInv(n, b, w)'
    <3>1. NewCC(n, b)'
      <4>1. b # x
        BY <1>4, SMTT(30)
      <4> QED
        BY <1>1, <1>3, <1>4, <2>1, <4>1 DEF NewCC, Certified
    <3>2. IsDescendant(y.block, db'[n].lfb) /\ db'[n].lfb = Parent(b)
      BY <1>3, <2>1, <2>4, <2>5
    <3> QED
      BY <1>3, <2>5, <3>1, <3>2 DEF CCInv, w
  <2>9. SetWork(n, Join(w, e))
    BY <1>6 DEF w, y
  <2>10. /\ \A c \in Stored(n) : db[n].status[c] = "pending" => db'[n].status[c] = "pending"
         /\ Height(db'[n].lfb) \in Nat /\ Height(db'[n].lfb) <= Height(db[n].lfb)
    <3>1. db[n].status[x] # "pending"
      BY DEF StoredValid, IsValid
    <3> QED
      BY <2>1, <3>1, LfbStays
  <2> QED
    BY <1>1, <2>1, <2>3, <2>6, <2>7, <2>8, <2>9, <2>10, CCStep
<1> QED
  BY <1>3, <1>5, <1>6
=============================================================================
