---------------------------- MODULE EngineState -----------------------------
(***************************************************************************)
(* The state of the consensus engine of the validators in Honest           *)
(* (consensus/engine.go, consensus/state.go) with its block store          *)
(* (blockchain/chain.go), and what holds of it between any two writes to the *)
(* database.  The other validators are peers that may send any of the blocks *)
(* and votes the constants list, at any time, in any order and repeatedly. *)
(*                                                                         *)
(* The engine is one goroutine.  Between two messages or timeouts its      *)
(* "work" is empty; a handler that writes to the database several times    *)
(* leaves the rest of itself in "work", so that every state a crash can    *)
(* find in the database is a state of the specification.                   *)
(***************************************************************************)
EXTENDS ValidatorSets, BlockTree

CONSTANTS
  Proposer,     \* the proposer of every epoch (GetNextProposer)
  PeerBlocks,   \* the blocks peers may propose
  PeerVotes,    \* the votes peers may send
  PeerCert,     \* PeerCert[b]: the votes in the certificate of b \in PeerBlocks
  NoVote,       \* the zero Vote
  NoBlock,      \* a Proposal without a block
  MaxEpoch,     \* bound: votes of this epoch are not handled any more
  MaxBlocks,    \* bound on the number of blocks proposed
  MaxCrashes    \* bound on the number of crashes

ASSUME EngineAssumption ==
  /\ Faulty \subseteq Validators
  /\ Proposer \in [Epochs -> Validators]
  /\ PeerBlocks \subseteq Blocks \ {Root}
  /\ {MaxEpoch, MaxCrashes} \subseteq Nat
  /\ \A v \in PeerVotes : v.epoch \in Nat
  /\ \A b \in PeerBlocks : \A v \in PeerCert[b] : v.epoch \in 0 .. MaxEpoch - 1
  /\ NoVote \notin Blocks /\ NoBlock \notin Blocks

(***************************************************************************)
(* ApplyBlockTxs fails for blocks of payload Bad, and can be undecided for *)
(* those of payload Unsure until the mainchain has been witnessed.         *)
(***************************************************************************)
Bad == "bad"

Unsure == "unsure"

VARIABLES
  db,         \* db[n]: what node n has in its database
  mem,        \* mem[n]: what it loses in a crash
  proposed,   \* the blocks broadcast so far
  cert,       \* cert[b]: the certificate in the header of b \in proposed
  sent,       \* the votes the nodes have broadcast
  voted,      \* voted[n]: all blocks n ever stored as LastVote (a history)
  crashes     \* the number of crashes so far

vars == <<db, mem, proposed, cert, sent, voted, crashes>>

network == <<proposed, cert, sent, voted, crashes>>

Statuses == {"pending", "valid", "invalid", "committed", "direct", "indirect"}

IsFinalized(s) == s \in {"direct", "indirect"}

IsValid(s) == s \notin {"pending", "invalid"}

(***************************************************************************)
(* A step of a handler that is still to be taken.                          *)
(***************************************************************************)
Task(op, b) == [op |-> op, block |-> b]

VotesTask(b, votes) == [op |-> "hccVotes", block |-> b, votes |-> votes]

(***************************************************************************)
(* The memory of a process that has just started: Load has read the last   *)
(* proposal from the database and mainLoop is about to enter the epoch.    *)
(***************************************************************************)
FreshMem(proposal) ==
  [work |-> << Task("enterEpoch", Root) >>, inbox |-> {}, passed |-> {},
   lastProposal |-> proposal, voteTimerReady |-> FALSE, blockProcessed |-> FALSE]

Init ==
  /\ db = [n \in Honest |->
             [status |-> [b \in {Root} |-> "direct"], index |-> {},
              epochVotes |-> [v \in Validators |-> -1], epoch |-> 0,
              hcc |-> Root, lfb |-> Root,
              lastVote |-> NoVote, lastProposal |-> NoBlock]]
  /\ mem = [n \in Honest |-> FreshMem(NoBlock)]
  /\ proposed = {}
  /\ cert = [b \in {} |-> {}]
  /\ sent = {}
  /\ voted = [n \in Honest |-> {}]
  /\ crashes = 0

-----------------------------------------------------------------------------
Stored(n) == DOMAIN db[n].status

StoredValid(n) == {b \in Stored(n) : IsValid(db[n].status[b])}

With(f, x, y) == [z \in DOMAIN f \cup {x} |-> IF z = x THEN y ELSE f[z]]

(***************************************************************************)
(* FindVotesByHash(b).UniqueVoter(): the latest stored vote of every voter.*)
(***************************************************************************)
VotesOn(n, b) == {v \in db[n].index : v.block = b}

(***************************************************************************)
(* Vote.Validate: nobody forges the vote of another validator.             *)
(***************************************************************************)
IsSigned(v) == v.voter \in Honest => v \in sent

(***************************************************************************)
(* CommitCertificate.IsValid.                                              *)
(***************************************************************************)
CertIsValid(b) ==
  /\ \A v \in cert[b] : v.block = Hcc(b) /\ IsSigned(v)
  /\ \A v, w \in cert[b] : v.voter = w.voter => v = w
  /\ HasMajority({v.voter : v \in cert[b]})

(***************************************************************************)
(* validateBlock for a block whose parent is not pending.                  *)
(***************************************************************************)
ValidateBlock(n, b) ==
  /\ Height(b) > Height(db[n].lfb)
  /\ Epoch(Parent(b)) < Epoch(b)
  /\ Parent(b) \in StoredValid(n)
  /\ IsFinalized(db[n].status[Hcc(b)]) \/ CertIsValid(b)

(***************************************************************************)
(* The finalization rule: b2.Parent = b2.HCC.                              *)
(***************************************************************************)
FinalizesParent(b) == b # Root /\ Hcc(b) = Parent(b)

-----------------------------------------------------------------------------
(***************************************************************************)
(* Between two messages a node is idle; otherwise it does the first task.  *)
(***************************************************************************)
Idle(n) == mem[n].work = << >>

Doing(n, op) == ~Idle(n) /\ Head(mem[n].work).op = op

Block(n) == Head(mem[n].work).block

(***************************************************************************)
(* The rest of the handler after its first task, preceded by new tasks.    *)
(***************************************************************************)
Then(n, tasks) == mem' = [mem EXCEPT ![n].work = tasks \o Tail(@)]

(***************************************************************************)
(* State.commit: db[n] becomes d with the last proposal that is in memory. *)
(***************************************************************************)
Commit(n, d) ==
  db' = [db EXCEPT ![n] = [d EXCEPT !.lastProposal = mem[n].lastProposal]]

-----------------------------------------------------------------------------
(***************************************************************************)
(* The inductive invariant of the engine, in parts.                        *)
(***************************************************************************)

AllVotes == PeerVotes \cup sent

(***************************************************************************)
(* Types; what the state of the engine points to is stored and valid, also *)
(* after a crash.                                                          *)
(***************************************************************************)
NodeTypeOK(n) ==
  /\ Stored(n) \subseteq proposed \cup {Root}
  /\ \A b \in Stored(n) : db[n].status[b] \in Statuses
  /\ db[n].index \subseteq AllVotes \cup UNION {cert[b] : b \in proposed}
  /\ db[n].epochVotes \in [Validators -> -1 .. MaxEpoch]
  /\ db[n].epoch \in 0 .. MaxEpoch
  /\ db[n].hcc \in StoredValid(n) /\ db[n].lfb \in StoredValid(n)
  /\ db[n].lastVote \in StoredValid(n) \cup {NoVote}
  /\ {db[n].lastProposal, mem[n].lastProposal} \subseteq Stored(n) \cup {NoBlock}
  /\ mem[n].inbox \subseteq Stored(n)
  /\ mem[n].passed \subseteq Stored(n)
  /\ {mem[n].voteTimerReady, mem[n].blockProcessed} \subseteq BOOLEAN

TypeOK ==
  /\ \A n \in Honest : NodeTypeOK(n)
  /\ proposed \subseteq Blocks /\ DOMAIN cert = proposed
  /\ crashes \in 0 .. MaxCrashes

(***************************************************************************)
(* How far the status of a block has moved.                                *)
(***************************************************************************)
Rank(s) == CASE s = "pending" -> 0 [] s = "invalid" -> 4 [] s = "valid" -> 1
             [] s = "committed" -> 2 [] OTHER -> 3

(***************************************************************************)
(* The fields of the records, which no step changes.                       *)
(***************************************************************************)
Shape ==
  /\ DOMAIN db = Honest /\ DOMAIN mem = Honest
  /\ \A n \in Honest :
       /\ DOMAIN db[n] = {"status", "index", "epochVotes", "epoch", "hcc", "lfb",
                          "lastVote", "lastProposal"}
       /\ DOMAIN mem[n] = {"work", "inbox", "passed", "lastProposal",
                           "voteTimerReady", "blockProcessed"}

(***************************************************************************)
(* Messages: a vote was stored as LastVote before it was sent, and a block *)
(* that only n may propose is in the store of n, so that n never makes a   *)
(* second block of the same hash with another certificate.                 *)
(***************************************************************************)
MessageInv ==
  /\ \A v \in sent : /\ v.voter \in Honest
                     /\ v.block \in voted[v.voter]
                     /\ v.epoch \in 0 .. MaxEpoch
  /\ \A b \in proposed :
       /\ b # Root
       /\ \A v \in cert[b] : v.epoch \in 0 .. MaxEpoch - 1
       /\ \A n \in Honest : Proposer[Epoch(b)] = n => b \in Stored(n)

(***************************************************************************)
(* The database of n between any two writes: the valid blocks form a tree, *)
(* what is finalized is below the last finalized block, what is committed  *)
(* is not above the HCC, and only signed votes are stored.                 *)
(***************************************************************************)
StoreInv(n) ==
  /\ Root \in Stored(n) /\ IsFinalized(db[n].status[Root])
  /\ \A b \in StoredValid(n) : \A k \in 0 .. Len(b) :
       SubSeq(b, 1, k) \in StoredValid(n)
  /\ \A b \in Stored(n) :
       /\ IsFinalized(db[n].status[b]) => IsDescendant(b, db[n].lfb)
       /\ db[n].status[b] = "committed" => Height(b) <= Height(db[n].hcc)
  /\ \A v \in db[n].index : IsSigned(v) /\ v.epoch \in 0 .. MaxEpoch - 1
  /\ db[n].lastVote # NoVote => db[n].lastVote \in voted[n]

(***************************************************************************)
(* The parent of a block that is or will be in the queue is processed.     *)
(***************************************************************************)
QueueInv(n) ==
  \A b \in mem[n].inbox \cup ({mem[n].lastProposal, db[n].lastProposal} \ {NoBlock}) :
    /\ b # Root
    /\ Parent(b) \in Stored(n)
    /\ db[n].status[Parent(b)] # "pending"

(***************************************************************************)
(* The work of n that is left, as the handlers put it together: a vote,    *)
(* what checkCC found for block b, and the end of the handler.  What was   *)
(* checked before still holds when it is used.                             *)
(***************************************************************************)
Ready(n, b) ==
  b \in Stored(n) /\ db[n].status[b] = "pending" /\ ValidateBlock(n, b)

VoteWork(n) ==
  {<< >>, << Task("vote", Root) >>} \cup {<< Task("sendVote", b) >> : b \in voted[n]}

EndWork(n, b) ==
  {<< >>, << Task("enterEpoch", Root) >>} \cup
    {<< Task("apply", c) >> : c \in {d \in Stored(n) : Ready(n, d) /\ Hcc(d) = b}}

MarkTasks(n) == {Task(op, b) : op \in {"direct", "indirect"}, b \in StoredValid(n)}

CCTasks(b) == << Task("setHcc", b), Task("commit", b) >>

Before(t, tasks) == << t >> \o tasks

CCWork(n, b) ==
  {<< >>, << Task("commit", b) >>, CCTasks(b), Before(Task("finalize", Parent(b)), CCTasks(b))}
    \cup {Before(t, CCTasks(b)) : t \in MarkTasks(n)}

(***************************************************************************)
(* Enough validators have voted for b to certify it, if all faulty ones    *)
(* have.                                                                   *)
(***************************************************************************)
Certified(b) == HasMajority({v \in Honest : b \in voted[v]} \cup Faulty)

NewCC(n, b) ==
  /\ db[n].status[b] = "valid"
  /\ Height(b) > Height(db[n].hcc)
  /\ Certified(b)

(***************************************************************************)
(* What holds while the tasks w that checkCC left for b are to be done.    *)
(***************************************************************************)
CCInv(n, b, w) ==
  \/ /\ w = << >>
     /\ Height(b) <= Height(db[n].hcc)
  \/ /\ w = << Task("commit", b) >>
     /\ b = db[n].hcc /\ db[n].status[b] = "valid"
  \/ /\ w = CCTasks(b) /\ NewCC(n, b)
     /\ FinalizesParent(b) => db[n].lfb = Parent(b)
  \/ /\ w = Before(Task("finalize", Parent(b)), CCTasks(b)) /\ NewCC(n, b)
     /\ FinalizesParent(b)
  \/ /\ \E t \in MarkTasks(n) : /\ w = Before(t, CCTasks(b))
                               /\ IsDescendant(t.block, db[n].lfb)
     /\ NewCC(n, b)
     /\ FinalizesParent(b) /\ db[n].lfb = Parent(b)

(***************************************************************************)
(* A certificate that was verified has its votes stored one after another. *)
(***************************************************************************)
VotesInv(n, b, left) ==
  ~IsFinalized(db[n].status[Hcc(b)]) =>
    \A v \in cert[b] \ left : \E w \in VotesOn(n, Hcc(b)) : w.voter = v.voter

WorkInv(n) ==
  \/ \E b \in StoredValid(n), p \in VoteWork(n) :
       \E w \in CCWork(n, b), e \in EndWork(n, b) :
         mem[n].work = p \o w \o e /\ CCInv(n, b, w)
  \/ \E b \in Stored(n) :
       /\ Ready(n, b)
       /\ \E left \in SUBSET cert[b] :
            mem[n].work = << VotesTask(b, left) >> /\ VotesInv(n, b, left)

(***************************************************************************)
(* What the steps of the engine need to know of the voting: a node votes   *)
(* for blocks it has accepted, and its HCC is not below the block it has   *)
(* finalized.  Both are conclusions about all nodes, so they come from the *)
(* invariant of ChainVoting.                                               *)
(***************************************************************************)
VotingInv ==
  /\ voted \in [Honest -> SUBSET Blocks]
  /\ \A n \in Honest : /\ voted[n] \subseteq StoredValid(n)
                       /\ Height(db[n].lfb) <= Height(db[n].hcc)

EngineInv ==
  /\ Shape /\ TypeOK /\ VotingInv /\ MessageInv
  /\ \A n \in Honest : StoreInv(n) /\ QueueInv(n) /\ WorkInv(n)
=============================================================================
