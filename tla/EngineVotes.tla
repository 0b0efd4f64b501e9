---------------------------- MODULE EngineVotes -----------------------------
(***************************************************************************)
(* What the consensus engine does with votes: those it receives and those in *)
(* the certificate of a block are stored, end epochs and certify blocks.   *)
(***************************************************************************)
EXTENDS EngineState

(***************************************************************************)
(* AddVoteToIndex, with the older votes of the voter for the block removed *)
(* at once: every reader removes them.                                     *)
(***************************************************************************)
AddToIndex(index, v) ==
  LET same == {w \in index : w.voter = v.voter /\ w.block = v.block}
  IN  IF \E w \in same : w.epoch >= v.epoch THEN index
                                            ELSE (index \ same) \cup {v}

(***************************************************************************)
(* handleVote and AddVote on a node with database d: a vote that is signed *)
(* by its voter is stored, and the epoch ends if the stored votes of its   *)
(* epoch or later ones have a majority.                                    *)
(***************************************************************************)
LatestEpochs(d, v) ==
  [d.epochVotes EXCEPT ![v.voter] = IF @ >= v.epoch THEN @ ELSE v.epoch]

\* Mutant of EndsEpoch: votes of later epochs are not counted.
EndsEpochExactly(d, v) ==
  /\ v.epoch >= d.epoch
  /\ HasMajority({w \in Validators : LatestEpochs(d, v)[w] = v.epoch})

EndsEpoch(d, v) ==
  /\ v.epoch >= d.epoch
  /\ HasMajority({w \in Validators : LatestEpochs(d, v)[w] >= v.epoch})

HandleVote(n, v) ==
  LET d == [db[n] EXCEPT !.index = AddToIndex(@, v),
                         !.epochVotes = LatestEpochs(db[n], v)]
  IN  CASE ~IsSigned(v) -> db[n]
        [] IsSigned(v) /\ ~EndsEpoch(db[n], v) -> d
        [] IsSigned(v) /\ EndsEpoch(db[n], v) ->
             [d EXCEPT !.epoch = v.epoch + 1,
                       !.lastProposal = mem[n].lastProposal]

\* Mutant of HasNewCC: pending blocks are not skipped.
HasNewCCWhilePending(d, b) ==
  /\ b \in DOMAIN d.status
  /\ d.status[b] \in {"pending", "valid"}
  /\ Height(b) > Height(d.hcc)
  /\ HasMajority({v.voter : v \in {w \in d.index : w.block = b}})

(***************************************************************************)
(* checkCC and processCCBlock for block b on a node with database d, as    *)
(* the tasks they leave: finalize the parent, record the HCC, mark b.      *)
(***************************************************************************)
HasNewCC(d, b) ==
  /\ b \in DOMAIN d.status
  /\ d.status[b] = "valid"
  /\ Height(b) > Height(d.hcc)
  /\ HasMajority({v.voter : v \in {w \in d.index : w.block = b}})

CheckCC(d, b) ==
  IF HasNewCC(d, b)
    THEN (IF FinalizesParent(b) /\ Parent(b) # d.lfb
            THEN << Task("finalize", Parent(b)) >> ELSE << >>)
         \o << Task("setHcc", b), Task("commit", b) >>
    ELSE << >>

(***************************************************************************)
(* mainLoop receives a vote, from a peer or sent by itself.                *)
(***************************************************************************)
VoteMessage(n, v) ==
  /\ Idle(n)
  /\ v.epoch < MaxEpoch
  /\ LET d == HandleVote(n, v)
         next == IF IsSigned(v) /\ EndsEpoch(db[n], v)
                   THEN << Task("enterEpoch", Root) >> ELSE << >>
     IN  /\ db' = [db EXCEPT ![n] = d]
         /\ mem' = [mem EXCEPT ![n].work = CheckCC(d, v.block) \o next]
  /\ UNCHANGED network

\* Mutant of HccVotes: checkCC does not run before the block is applied.
HccVotesOnly(n) ==
  /\ Doing(n, "hccVotes")
  /\ LET b == Block(n)
         left == Head(mem[n].work).votes
     IN  \/ left = {} /\ Then(n, << Task("apply", b) >>) /\ UNCHANGED db
         \/ \E v \in left : /\ db' = [db EXCEPT ![n] = HandleVote(n, v)]
                             /\ Then(n, << VotesTask(b, left \ {v}) >>)
  /\ UNCHANGED network

(***************************************************************************)
(* handleNormalBlock handles the votes of the certificate one by one, and  *)
(* then runs checkCC for the block they are for.  Whether they end the     *)
(* epoch is not returned to mainLoop.                                      *)
(***************************************************************************)
HccVotes(n) ==
  /\ Doing(n, "hccVotes")
  /\ LET b == Block(n)
         left == Head(mem[n].work).votes
     IN  \/ /\ left = {}
            /\ Then(n, CheckCC(db[n], Hcc(b)) \o << Task("apply", b) >>)
            /\ UNCHANGED db
         \/ \E v \in left :
              /\ db' = [db EXCEPT ![n] = HandleVote(n, v)]
              /\ Then(n, << VotesTask(b, left \ {v}) >>)
  /\ UNCHANGED network

(***************************************************************************)
(* handleNormalBlock from ApplyBlockTxs on.  A valid block of the current  *)
(* epoch or the one before is voted for once the vote timer has fired, and *)
(* checkCC comes last; what it finds does not depend on the vote.          *)
(***************************************************************************)
ApplyBlock(n) ==
  /\ Doing(n, "apply")
  /\ LET b == Block(n)
         payload == b[Len(b)].payload
         current == Epoch(b) \in {db[n].epoch - 1, db[n].epoch}
         vote == IF current /\ mem[n].voteTimerReady
                   THEN << Task("vote", Root) >> ELSE << >>
         d == [db[n] EXCEPT !.status[b] = "valid"]
     IN  \/ /\ payload = Bad
            /\ db' = [db EXCEPT ![n].status[b] = "invalid"]
            /\ Then(n, << >>)
         \/ /\ payload = Unsure
            /\ UNCHANGED db
            /\ Then(n, << >>)
         \/ /\ payload # Bad
            /\ db' = [db EXCEPT ![n] = d]
            /\ mem' = [mem EXCEPT ![n].blockProcessed = @ \/ current,
                                  ![n].work = vote \o CheckCC(d, b)]
  /\ UNCHANGED network
=============================================================================
