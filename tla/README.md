# A TLA+ verification of the Theta subchain node

The repository is the node of a Theta *subchain*: a proof-of-stake chain with its
own validators, anchored to the Theta main chain, which lists the validators and
holds the tokens that are bridged. This directory models the node in TLA+, checks
the models with TLC on small instances, and proves the central results with TLAPS
for every value of the constants: that the consensus engine, down to its single
database writes, implements a voting protocol; that this protocol never finalizes
conflicting blocks; that the bridge mints what was locked, once and in order; and that the
links and indices of the block store are right after every write.

## The system

| Part | Code | State | Operations that change it |
|---|---|---|---|
| consensus engine | `consensus/engine.go`, `consensus/state.go` | last vote, last proposal, last finalized block, highest certified block (HCC), epoch and epoch votes, written to disk on each change (the proposal with the next one) | block and vote messages, vote timer, epoch timer, proposing, restart |
| validator sets | `core/validator.go`, `core/vote.go`, `consensus/validator.go` | validators with stakes | majorities, certificates, the choice of the proposer |
| block tree | `blockchain/chain.go`, `blockchain/tx.go`, `core/block.go` | stored blocks with status and children, indices by height and by transaction, receipts | AddBlock, MarkBlockValid, MarkBlockInvalid, CommitBlock, FinalizePreviousBlocks |
| block synchronization | `netsync/` | pending blocks, headers, active peers, time-outs | inventories, data requests, downloads, handing ready blocks to the engine |
| ledger | `ledger/` | delivered, checked, screened and finalized views of the accounts | assembling a block, applying one, finalizing one, changing the validator set |
| mempool | `mempool/` | transactions grouped by account, records of the ones seen | insert, reap, update |
| metachain witness | `interchain/witness/` | main chain height, last block queried per kind of event | periodic update |
| orchestrator | `interchain/orchestrator/`, `interchain/utils/` | cached events, times of submission | for every kind of event: look up the last processed nonce, submit the next |
| token banks | contracts, used through `interchain/contracts/` | locked tokens, vouchers, nonces | external |
| stores | `store/rollingdb/`, `snapshot/` | layered key-value databases, files | rolling, compaction, import, export |
| virtual machine | `ledger/vm/` | frames, gas, stack, memory, integer pool | the execution of one contract transaction |
| RPC server | `rpc/tx.go` | callbacks of waiting callers | broadcast, finalized block, trim |
| Ethereum client | `eth/event/feed.go` | subscriptions of a feed | subscribe, send, unsubscribe |

How the parts meet: netsync stores a block when it arrives and passes it to the
engine's queue once its parent has been processed; the engine validates it,
applies its transactions through the ledger, votes and, when votes or the
certificate inside a later block show a majority, moves its HCC and finalizes the
parent of the certified block; its votes and proposals go out through the
dispatcher and come back through netsync. The witness tells the ledger which
validators the main chain lists, and fills the cache the orchestrator works from.

What makes it hard:

* votes, blocks and certificates arrive in any order, from validators of which up
  to a third (by stake) may be faulty;
* the node may crash between any two database writes, and it votes again after the
  restart from what it finds on disk;
* three parties write block statuses (netsync's storing, the engine's processing,
  finalization), without looking at the old value;
* epochs advance by votes *and* by a timer;
* the mempool, the callbacks and the compaction of the state database work in
  goroutines of their own on what the engine changes;
* the bridge retries submissions whose fate it does not know.

## Modules

| Module | What it models |
|---|---|
| `ValidatorSets` | stakes and `HasMajority` (more than two thirds of the total stake) |
| `BlockTree` | blocks as chains of headers; `IsDescendant` |
| `Finality` | **abstract specification**: every validator has a finalized block, finalized blocks only move to descendants, and any two are on one chain |
| `ChainVoting` | the protocol: all validators, each with HCC, last finalized block, accepted blocks and last vote; implements `Finality` |
| `EngineState` | the state of the engines in detail, its initial value, and what holds between any two writes to the database |
| `EngineBlocks` | how an engine gets blocks and casts votes: netsync's queue, validation, proposals, votes, timers, crashes |
| `EngineVotes` | how it handles votes: the vote index, epochs, `checkCC`, the certificate inside a block, applying the block |
| `EngineFinality` | what a new certified block causes: finalizing, marking, the HCC, the commit |
| `ConsensusEngine` | the composition of these, its fairness and its properties; implements `ChainVoting` |
| `InterChain` | the bridge from the main chain: token bank, witness, event cache, orchestrator of every validator, minting bank |
| `Ledger` | the ledgers of the nodes: transaction executors, views, dynasties |
| `Mempool` | the mempool with its bookkeeper and the ledger's screened view |
| `BlockStore` | the block store, a step per `Put`, with a goroutine that adds and one that marks |
| `RollingDB` | the layered database of the state tries |
| `Snapshot` | export and import of snapshots and chain backups, start from them |
| `TxCallbacks` | the callbacks of `BroadcastRawTransaction` |
| `Netsync` | how a node that is behind downloads blocks |
| `PeerSelection` | whom an inventory request is sent to |
| `ProposerSelection` | the weighted choice of the proposer |
| `EVM`, `Interpreter`, `VMWords`, `JumpAnalysis` | the virtual machine: nested calls; one run of the interpreter; word arithmetic; jump targets |
| `Feed` | the one-to-many event feed |
| `MCChainVoting`, `MCConsensusEngine`, `MCInterChain`, `MCInterChainLive`, `MCStorage`, `MCSync`, `MCVM` | instances for TLC |
| `BlockTreeProofs`, `ChainVotingProofs`, `EngineBlocksProofs`, `EngineFinalityProofs`, `EngineStepProofs`, `ConsensusEngineProofs`, `InterChainProofs`, `BlockStoreProofs` | theorems and their lemmas |

`ConsensusEngine => ChainVoting => Finality`: the detailed engine takes only steps
that the protocol allows to a validator (`ImplementsChainVoting`), and the protocol
agrees on what is final (`FinalityRefined`). Both are proved, and checked by TLC.

A definition marked as a mutant, such as `AcceptBlockOnly` before `AcceptBlock`, is the same
operation with a plausible mistake in it. No specification uses it; putting it in the place of
the operation makes TLC find a property violated, which shows what the property depends on.

### ChainVoting

A block is the sequence of the headers from the root to it, so that its parent and
ancestors are part of it as they are part of a hash. A header carries the epoch, the
height of the block its certificate is for (`Hcc`) and a payload that stands for the
transactions, timestamp and proposer. An honest validator

* accepts a block when `validateBlock` does: it is higher than the last finalized
  block, its epoch is larger than its parent's, the parent is accepted, and its
  certificate is for the root, for a block that is certified, or for an ancestor of
  the last finalized block;
* sets its HCC to a higher certified block and finalizes that block's parent if
  the block's own certificate is for the parent (`processCCBlock`, lines 940-944);
* votes for the tip of the branch above its HCC, for a height at most once, and only
  when the tip's certificate is for its own HCC (`vote`). As in the code, the first
  vote above height 0 is exempt from these conditions.

`InterruptedCheckCC` is the only trace a crash leaves at this level: the last finalized
block was stored and the HCC was not. Faulty validators propose any block, and their
votes count for every block.

### ConsensusEngine

State: `db` (what survives a crash: the state stub, the blocks with status, the vote
index, epoch and epoch votes), `mem` (the tasks still to do, the queue of blocks from
netsync and what it has passed, last proposal, vote timer), and the network.
A handler of the engine is a list of tasks, one for each of its database writes, in
the order the code makes them; `Work` takes the first task. A crash may fall before
any of them and empties `mem`. `CheckCC` is a function: it returns the tasks that
processing a certificate adds. Any number of nodes may run the engine; the others are
peers that propose the blocks and send the votes the constants list.

Choices made:

* one dynasty: the validator set does not change (its change is in `Ledger`).
  `HasValidatorUpdate` is set only for the stake transactions of the main chain, so
  `GetTip` never skips a block;
* `HardcodeBlockHashes` is empty: `autoRewind` and the trusted-block branch do nothing;
* `Load` with another root than before is left out;
* `AddEpochVote`, `AddVoteToIndex` and `SetEpoch` of one vote are one step;
* the ledger decides `Bad`, `Unsure` or good for each payload: errors, undecided, applied;
* the proposer of an epoch is a constant function; blocks not signed by the proposer
  of their epoch are dropped before they enter (`PeerPropose`), where the code stores them
  and marks them invalid: nothing is ever built on them;
* netsync passes a block to the engine once; that it may pass one again after an eviction
  from `dumpBlockCache` is in `Netsync`;
* epochs are counted from the root's.

### InterChain

One direction is modelled: tokens locked on the main chain, vouchers minted on the
subchain. The other one, and voucher burns, run the same functions with other arguments.
`locked` is the event log of the main chain; an event is its position in it. A node has
the last height it knows, the last height it has stored as queried, its cache, the
nonce the orchestrator has just read, and what it submitted less than the retry threshold
ago. `Update` is one round of the witness; the nonce is read in one step
(`ProcessNextTokenLockEvent`) and used in another (`ProcessNextEvent`), so that anything
may happen in between. The chains and the token banks are not in the repository: `Lock`,
`NewBlock`, `MintVouchers` and `LoseTransaction` are written from how the code uses them
(nonces count per kind and target chain, a mint takes effect once more than two thirds
of the validators have asked for it, and only for the next nonce). 300 blocks of
`maxBlockRange`, 2 of `minBlockGap` and 5 of margin are constants.

### What a node stores

`Ledger`: a state root is the state itself: accounts, dynasty, validators. Nodes propose
from what the mempool reaps and from the update of the validator set their witness knows
of, faulty proposers make the blocks of `Forged`, and every node applies blocks on its own
knowledge of the main chain, with error, undecided and success.

`Mempool`: a transaction is an account and a sequence number, and valid on a view if the
number is the account's next. `InsertTransaction` and `ReapUnsafe` are one step each, under
the mutex of the mempool. `UpdateUnsafe` holds the same mutex but reads the screened view
without the lock of the ledger, so that it is a step per transaction with blocks and
resets in between. `ApplyBlockTxs` renews the view and leaves an update to be run later
(`updates`), as the goroutine does. Gas prices are abstracted: any account may come first,
and within an account any order that a heap's array can have. `Flush` has no caller.
Blocks form one branch, and the node has synced.

`BlockStore`: every `Put` of `addBlock`, of the marking functions and of the indices is a
step, of one of two goroutines, and a crash may fall between any two. The properties of links
and indices except blocks whose adding or marking a crash cut short (`damaged`): `addBlock`
writes the child link first, so after such a crash a link leads nowhere until the block is
received again, and a finalization that is cut short leaves transactions unindexed. The
three `Put`s of `AddTxReceipt` (by block, by transaction alone, balance changes) are one step:
a block is not valid until all of them are made, and receipts of other blocks are not asked for.

`RollingDB`: a state is a set of trie nodes; committing one writes the nodes that no layer
has, a compaction copies a finalized state to the newest layer, destroys the old ones, and
runs beside the engine. `MaxLag` bounds how late a started compaction looks at the layers;
it must not exceed the distance between two layers. With a longer delay retention fails,
because the subtraction at `rollingdb.go:160` wraps around. A block counts as executed when
`MarkBlockValid` has stored it, a step of its own after the tag and the new layer, and a
layer that is being destroyed may be found after a crash with some of its files: without
nodes, with its tag or without. A directory that can no longer be opened is left out.

`Snapshot`: the chain is one branch whose blocks certify their parent or skip it, with a
change of the validators. Operations that dereference a missing header
(`snapshot_import.go:510` and `574`, `snapshot_export.go:547`) are recorded in `panics`.
An imported node looks up the validators of the root like a node with the whole chain; for
the running block at the root it may find no state (`ledger.go:144` panics), never other
validators.

`TxCallbacks`: callers, the goroutine of finalized blocks and the ticker interleave; a full
channel drops a block.

### How blocks get around, and the virtual machine

`Netsync`: answers are in flight until they are delivered in any order, or lost. Both kinds
of download (by hash and by header), the quotas, time-outs, the LRU cache
`dumpBlockCache` and `passReadyBlocks` are modelled.

`EVM`: the code of a frame is any sequence of instructions; calls of every kind, creations,
self-destruction, failures, intrinsic gas, stipends and the 1/64 rule, snapshots and the
receipt. `kept` records the logs and balance changes of the calls that have not failed, so
that `OutcomeIsTold` sees what a failing inner call leaves behind in a successful transaction.
`Interpreter`: the jump table with stack checks, memory sizes, gas; a stack item is the
identity of its big integer, because instructions work in place and share a pool.
`VMWords` computes the instructions as the code does, with signed integers that are cut to
a word, and compares them with the integers. `JumpAnalysis` runs `codeBitmap` over all codes
of up to five bytes.

`Feed`: `Send` holds a lock while it reorders its cases in place; subscribing and
unsubscribing go on meanwhile.

## Runs

| Run | Instance | Checks |
|---|---|---|
| `voting` | 3 engines and 1 faulty validator of equal stake: from genesis with two blocks, and from two branches of three blocks each whose first blocks all have accepted | `IndInv`, `OneCertificatePerHeight`, `FinalityRefined` |
| `engine` | one node with two peers, in three situations: a rival branch of its peers and one crash anywhere; a chain of three blocks that needs the node's vote; peers up to three epochs ahead, with an invalid and an undecided block | `MCIndInv`, `OneVotePerHeight`, `ParentIsProcessed`, `StatusOnlyAdvances`, `MCImplementsChainVoting`, `MCEpochCatchesUp` |
| `bridge` | two validators that join late; two locks, to this and to another subchain; a failing query or a crash | `IndInv`, `MintedAsLocked` |
| `bridge_live` | two validators from the start, one lock, a crash and a lost transaction; a feed with one sender and three subscriptions, and one with two senders; fairness | `MCNothingMissed`, `EachIsSentOnce`, `MCEveryLockIsMinted`, `UnsubscribeReturns` |
| `storage` | `Mempool`, `TxCallbacks`, `Ledger`, `RollingDB`, `BlockStore` and `Snapshot`, one at a time | `MCTypeOK`, `MCSizeCoversPool`, `MCStatusIsTrue`, `CoinsAreConserved`, `SequencesCountTxs`, `DynastiesAreInOrder`, `BlocksAreJudgedAlike`, `NeededStatesAreReadable`, `BlocksAreFound`, `FinalTxsAreFound`, `SnapshotsAreSound`, `YoungCallbacksStay` |
| `sync` | `Netsync`, `PeerSelection` and `ProposerSelection`, one at a time; fairness | `MCTypeOK`, `MCFinalizedIsAccepted`, `SharesAreStakes`, `OthersAreTried`, `MCSyncCompletes` |
| `vm` | `EVM`, `Interpreter`, `VMWords` and `JumpAnalysis`, one at a time | `MCTypeOK`, `NothingIsMade`, `StaticCallsDoNotWrite`, `OutcomeIsTold`, `MCIntegersHaveOneOwner`, `MCAccessesAreCovered`, `ArithmeticIsExact`, `PcIsAtInstruction` |
| `finalize_crash` | the chain of `engine`, with one crash | **violated**: `FinalizedAreMarked` |
| `bridge_query` | two validators from the start, a failing query | **violated**: `NothingMissed` |
| `bridge_join` | a validator that starts late | **violated**: `NothingMissed` |
| `mempool_obsolete` | the mempool of `storage`, without time-outs | **violated**: `OnlyObsoleteAbandoned` |
| `ledger_confirmed` | the ledger of `storage` | **violated**: `UpdatesAreConfirmed` |

Where several parts share a run, a variable (`part`, `instance`) says which one a behavior
is about; it is chosen at the start and stays, and the variables of the others are 0. A
property "`part = "ledger" => ...`" therefore says as much as a run of the ledger alone.

**Bounds.** Four validators of equal stake with one faulty are the smallest set in
which some validator is faulty and two majorities still share an honest one. Finalizing
takes two certified blocks in a row, so that a conflict needs two branches of at least
two blocks and a third to carry the certificate: the second tree of `voting` has exactly
these.

The run `engine` has one node; its peers are counted as faulty in `ChainVoting`, and hold
more than a third, so that it goes beyond the fault bound of the theorems: what TLC finds
there does not rest on that bound. Among the rivals a peer has a majority of its own, so
that blocks are certified without the node; in the chain nothing is certified without the
node's vote. One crash is enough to separate any two writes. `MaxEpoch` bounds the
epochs whose votes are handled, to those in which the branches of the run are certified.
TLC computes `TotalStake` once for all three instances, so their stakes add up to the same.

In the bridge, ranges of two blocks, a gap and a margin of one, and a height of three
let a scan take several rounds; two locks are needed for two events to compete for one key.
`MaxFaults` bounds all kinds of faults together.

In `storage`: for the mempool two sequence numbers for each of two accounts, three
insertions and two records let records give way while their transactions are in the pool,
and two blocks let a second one be applied before, or during, the update for the first.
Three blocks of the ledger are enough for two competing blocks after a change of the
validators. The chain of six blocks of the database passes two rolling heights and
a fork between them. The block store has a fork with the same transactions as the main branch. Snapshots
are about chains of five blocks, with a checkpoint interval of five.

In `sync` one peer has only a fork and one fault (a lost or late message) may happen; with
`MaxInFlight = 0` a new request waits for the answers to the last. The cache of passed
blocks holds one, so that blocks leave it and are passed again. Three validators
with stakes up to seven and a word of eight make every rounding case of the scaling
happen. In `vm` the depth limit is two, words have four bits, and stack, pool and memory
limits are reached by a few instructions.

Two honest validators (`voting`), the two nodes (`bridge`) and the accounts of the mempool
(`storage`) are declared symmetric: nothing in these instances tells them apart, and the runs
check no liveness. Systems that stop when the bounds are reached are the reason for
`CHECK_DEADLOCK FALSE`.

**Fairness.** The engine: weak fairness of `Work`, since the main loop runs what it has
begun; strong fairness of `EpochTimer` and of handling the engine's own votes, since the
`select` of the main loop chooses among the ready channels at random and a timer that has
fired or a queued vote stays ready. Peers, the network and crashes have no fairness. The
bridge: the tickers of the witness and the orchestrator run forever and time passes, so that
updates, rounds for every kind and the retry threshold are fair; so are, as assumptions
about the outside, that the main chain grows, that calls which are made again and again
succeed at some time, and that the subchain executes a transaction it keeps. The feed:
goroutines that can go on do; nobody has to read a channel. Netsync: the ticker downloads again
and again, messages in flight are delivered or lost in the end, both loops and the clock go on.

### What the violated properties show

* `FinalizedAreMarked`: `FinalizePreviousBlocks` marks the last finalized block and
  then its ancestors, top down, in one write each, and stops at the first block that is
  marked. A crash inside the loop leaves a marked block above ancestors that are not, and
  since `NewChain` marks only the root and every later finalization stops at the marked
  block, they stay so. (A crash before the first mark does no harm: the next finalization
  marks the blocks.) The readers of the status (queries by RPC, exports of snapshots and of
  the chain) treat them as not finalized.
* `NothingMissed` in `bridge_query`: when the query for events fails,
  `QueryInterChainEventLog` returns none ("ignore, the query is repeated periodically
  anyway"), and `collectInterChainMessageEventsOnChain` stores the end of the range as
  queried. The range is not queried again by this validator.
* `NothingMissed` in `bridge_join`: a validator that starts before the first event of a
  kind has been processed begins at the present height less the margin ("it is safe
  to scan from the current block height"), above an event that is still waiting.
  In both cases the transfer depends on the other validators being a majority.
* `OnlyObsoleteAbandoned`: a transaction that is inserted after a block has been
  applied and before the goroutine that `ApplyBlockTxs` started gets the mutex is executed
  on the new screened view twice, by the insertion and by the update. The second time
  its sequence number is used up, and it is abandoned and removed, although nothing is
  wrong with it. An insertion that waits for the ledger's lock while a block is applied
  holds the mutex already, and so always comes first.
* `UpdatesAreConfirmed`: `ApplyBlockTxs` sets `HasValidatorUpdate` for stake transactions
  of the main chain only, so the two direct confirmations that `validateBlock` asks for
  after a change of the validators are never asked for on a subchain: TLC shows a block
  that is accepted on the block with the change although its certificate is for another.

Smaller ones that have no run: `FinalizePreviousBlocks` makes blocks
IndirectlyFinalized from any status, where the diagram in `core/block.go:311-322` has only
Committed; `ReapUnsafe` does not subtract transactions without a record from the size,
which therefore is an upper bound (`SizeCoversPool`) and not the number of transactions; and
`passReadyBlocks` does not hand a block that stayed undecided to the engine again while it is
in `dumpBlockCache` (`netsync/request.go:743`). `SyncCompletes` is checked with such a block on
a fork and with one on the branch of the peers, and a cache that holds one block: it is passed
again when another block has taken its place. The cache of the code holds 32, so that there
it takes as many other blocks, or a restart.

## Theorems

All in the modules `*Proofs`; `ConsensusEngineProofs` is the one to read first.

| Theorem | Module | Assumes besides the types of the constants |
|---|---|---|
| `QuorumIntersection`, `Invariance`, `OneCertificatePerHeightHolds`, `FinalizedIsExtendedHolds`, `AgreementHolds`, `FinalityRefinedHolds` | `ChainVotingProofs` | `FaultAssumption`: three times the stake of the faulty validators is at most the total |
| `EngineInvariance`, `ImplementsChainVotingHolds`, `NodesAgree`, `OneVotePerHeightHolds`, `ParentIsProcessedHolds`, `StatusOnlyAdvancesHolds` | `ConsensusEngineProofs` | `FaultBound`: the same, as a hypothesis of each theorem |
| `Invariance`, `MintedAsLockedHolds` | `InterChainProofs` | nothing |
| `NothingMissedHolds` | `InterChainProofs` | `Undisturbed`, a hypothesis of the theorem |
| `StoreInvariance`, `LinksAreAlwaysExact`, `AlwaysFoundByHeight`, `FinalTxsAreAlwaysIndexed`, `ReceiptIsAlwaysOfBlock` | `BlockStoreProofs` | `BlocksFormTree`, a hypothesis of each theorem |

They hold for any finite set of validators with natural stakes, any number of engines among
them, any epochs, payloads, root height, blocks and votes of peers, and any number of crashes;
and for any number of witnesses, kinds, target chains, locks, failing queries, crashes and
lost transactions; and for any tree of stored blocks with any transactions in them and any
number of crashes. The type assumptions are the named `ASSUME`s of `ValidatorSets`,
`BlockTree`, `ChainVoting`, `EngineState` and `InterChain`, which TLC evaluates; that the blocks
of the run `storage` satisfy `BlocksFormTree` is `StoreAssumption` of `MCStorage`.

### The protocol

The inductive invariant `IndInv` of `ChainVoting` is the type invariant and

* `AcceptedInv`: accepted blocks were proposed; the HCC is the root or certified; the
  certificates in accepted blocks are for blocks no higher than the HCC, and real where
  they are for the parent;
* `LastVoteInv`: the last vote is the highest of all votes;
* `VoteOrderInv`: a validator votes for one block of a height, and from a vote to a
  higher one the certificates are for blocks of nondecreasing height and, after the
  first vote above height 0, real; this is what carries the "lock" of a validator
  forward;
* `FinalizedInv`: the last finalized block is no higher than the HCC, and it is the root
  or has a certified child whose certificate is for it, also after a crash between
  the two writes.

None of the safety properties is inductive by itself: they speak of certificates, and
what keeps two certificates apart is the order in which each single validator voted.
`OneCertificatePerHeightHolds` follows from the intersection and one vote per height.
`FinalizedIsExtendedHolds` (a certified block at least as high as a finalized one extends
it) is by the least height of a counterexample: the shared honest voter voted for the child
of the finalized block first, hence its HCC was the finalized block, and its later vote is
for a block above it. `AgreementHolds` and `FinalityRefinedHolds` follow.

### The engine

`ImplementsChainVotingHolds`: every step of every node is a step of `ChainVoting`, or
changes nothing it speaks about. The mapping takes the blocks with a valid status for
`valid`, the history of everything ever stored as `LastVote` for `votes`, and the fields of
the database for the rest. What makes a step correct was often checked several writes
earlier, so the inductive invariant says what the rest of a handler may rely on. It is
`EngineInv` (in `EngineState`) together with `IndInv` of `ChainVoting` under the mapping:

* `Shape`, `TypeOK`: the fields, and that what the database points to is stored and valid;
* `VotingInv`: a node votes for valid blocks, and its HCC is not below its last finalized block;
* `MessageInv`: a vote was stored before it was sent, and a block that only `n` may propose is
  in the store of `n`, so that no two blocks of one hash carry different certificates;
* `StoreInv`: valid blocks form a tree, what is finalized is below the last finalized block,
  what is committed is not above the HCC, and only signed votes are stored;
* `QueueInv`: the parent of a block in the queue, or of the last proposal, is processed;
* `WorkInv`: the tasks that are left are a vote, then what `checkCC` found for a block, then
  the end of the handler, and at each of them what was checked still holds (`CCInv`: the block
  is certified and higher than the HCC; `VotesInv`: the votes of a verified certificate are
  in the index, except those still to be added).

The two halves need each other. That the last finalized block is not above the HCC, for
instance, is a conclusion about all validators and comes from `ChainVoting`; that a
certificate `ChainVoting` counts on is real comes from the signed votes in `StoreInv`. The
invariance proof therefore goes in one induction step: `EngineInv` and the invariant of
`ChainVoting` give a step of `ChainVoting` (`NextRefines`, in `EngineStepProofs`, by the
lemmas of `EngineBlocksProofs` and `EngineFinalityProofs`), the theorem about `ChainVoting`
gives its invariant in the next state, and with that follows `EngineInv` in the next state.

From the invariant follow `NodesAgree` (the last finalized blocks of any two nodes are on one
chain, at any time and after any crash), `OneVotePerHeightHolds`, `ParentIsProcessedHolds`
(the Fatal and Panic branches of `handleBlock` and `validateBlock` are not reached) and
`StatusOnlyAdvancesHolds` (none of the writers of a status undoes what another wrote).

### The bridge

`MintedAsLockedHolds` needs only that what is submitted is for this chain (`SentHere`), which
`ProcessNextEvent` checks when it takes the event out of the cache; that the minting bank
takes the next nonce only does the rest. No assumption is made about witnesses.

`NothingMissedHolds` is about the witnesses, and is false in general, as `bridge_query` and
`bridge_join` show. Its hypothesis `Undisturbed` excludes exactly the causes: no query fails, every
witness has scanned from the start, and all tokens are for this chain (the cache is keyed by
kind and nonce, so an event for another chain may take the place of one for this chain).
Crashes, lost and repeated transactions and stale heights are all included. The inductive
invariant adds `LogInv` (nonces tell the events apart), `ReadInv` (what a node has read is not
ahead of the chain) and `ScanInv` (every event up to the end of a scan is cached until minted).

### The block store

`BlocksFormTree` says that blocks have parents up to the genesis block, which has no
transactions, and that a header has the height of its parent plus one. `createProposal` makes
blocks so, and `addBlock` relies on it; `validateBlock` compares the heights only when the
block is processed. A block with another height is outside these theorems.

The properties hold between calls, and two goroutines write at the same time, so the inductive
invariant (`IndInv`, which the run `storage` checks in `MCTypeOK`) says what is left of each call:

* `SyncInv`, `EngineInv`: the writes that are still to come of `addBlock`, of the execution of a
  block, of a commit and of a finalization, and what was established before each: a block is
  not yet saved, its link is made, the missing receipts are among the writes to come, the
  blocks on the way down are valid;
* `MutexInv`: `addBlock` and `FinalizePreviousBlocks`, from its first write on, hold `Chain.mu`
  and never overlap. It is why a transaction that `addBlock` did not find in the index
  has no finalized block when it is entered, and a finalized entry is not overwritten by a fork;
* `LinkInv`, `IndexInv`: the properties, except for the one block or the transactions that
  the calls in progress have yet to enter;
* `StatusInv`: a valid block has a valid parent and the receipts of all its transactions.

A crash drops what is left of both calls; the blocks these were about become `damaged`, and
what remains to be shown is that nothing said of the others depends on them. `TipsAreFound`
speaks of all blocks above one, which is a recursive definition, and is only model-checked.

### Only model-checked, and why

* Liveness (`EpochCatchesUp`, `EveryLockIsMinted`, `UnsubscribeReturns`, `SyncCompletes`): fairness
  and `ENABLED` are out of the prover's reach.
* `Ledger`, `EVM`, `Interpreter`, `VMWords`, `JumpAnalysis`, `ProposerSelection`: their operators
  are folds and recursive functions over the transactions of a block, the frames, the stakes
  or the bits, and what these compute takes induction over data.
* `TipsAreFound` of `BlockStore`: what a search through the tree reaches, again by recursion.
* `Mempool`, `RollingDB`, `Snapshot`, `TxCallbacks`, `Netsync`, `PeerSelection`,
  `Feed`: the safety properties are checked on small instances only; their inductive
  invariants have not been worked out.

## Not modelled

* `ledger/vm`: precompiled contracts, hashing, `CREATE2`, the logger, the assembler and compiler.
* `ledger`, `core`: signatures and encodings (a vote or block is signed by whom it names);
  the stake transactions of the main chain, which no executor of a subchain handles.
* `blockchain`: `FixBlockIndex` and `FixMissingChildren`, which have no callers.
* `netsync`: the relay of votes, proposals and transactions. The dispatcher and the peer-to-peer
  network below it are in a library.
* `consensus`: `checkSyncStatus`, hard-coded blocks (the table is empty), a restart with
  another root.
* `interchain`: the subchain-to-main-chain direction and voucher burns, which run the same
  functions; the witness's cache of validator sets, which appears in `Ledger` as what a node
  knows of the main chain; the generated contract bindings.
* `snapshot`: file formats, several chain files, `LoadChainCorrection`.
* `rpc/`, `cmd/`, `integration/`: queries, formats, commands and tools without state of their own.
* `eth/`: everything but the feed. It is a copy of go-ethereum's client packages: JSON-RPC
  codecs, HTTP and websocket clients, ABI encoding.
