------------------------------ MODULE MCStorage ------------------------------
(***************************************************************************)
(* What a node keeps, for TLC: the pool of transactions, the callbacks of  *)
(* those who wait for one, the ledger, the database under its states, the  *)
(* block store and the snapshots.  Each of the parts is checked by itself: *)
(* "part" says which one a behavior is about, the variables of the others  *)
(* are 0 in it.                                                            *)
(***************************************************************************)
EXTENDS Mempool, TLC

CONSTANTS a1, a2,                        \* accounts of the pool
          n1, n2, v, a, ctr, bank,       \* accounts of the ledger
          NoAccount, NoBlock

VARIABLES
  part,
  caller, age, txHashToCallback, callbacks, final, queue, running,
  blocks, valid, invalid, delivered, checked, finalized, mainchain, witnessed,
  disk, executed, tagged, step, tasks, task, dbCrashes,
  block, byHeight, txIndex, receiptsV2, receiptsV1, lfb, todo, damaged, crashes,
  chain, node, files, backups, panics

callbackVars == <<caller, age, txHashToCallback, callbacks, final, queue, running>>
ledgerVars == <<blocks, valid, invalid, delivered, checked, finalized, mainchain, witnessed>>
databaseVars == <<disk, executed, tagged, step, tasks, task, dbCrashes>>
storeVars == <<block, byHeight, txIndex, receiptsV2, receiptsV1, lfb, todo, damaged, crashes>>
snapshotVars == <<chain, node, files, backups, panics>>

-----------------------------------------------------------------------------
(***************************************************************************)
(* Callbacks: two calls bring the same transaction, and the queue of       *)
(* finalized blocks holds one.                                             *)
(***************************************************************************)
Callbacks == INSTANCE TxCallbacks WITH
  Callers <- 1 .. 3, TxOf <- <<"t", "t", "u">>, TxTimeout <- 2, QueueSize <- 1, NoCaller <- 0

(***************************************************************************)
(* The ledger: two nodes, a client a, a contract account ctr, the token    *)
(* bank, and a validator v of the next dynasty without an account.         *)
(***************************************************************************)
Holder(bal, code) == [bal |-> bal, seq |-> 0, code |-> code]

MCRegistered == 0 :> {n1, n2} @@ 1 :> {n1, v}

MCGenesisRoot ==
  [acc |-> [x \in {n1, n2, v, a, ctr, bank} |->
              CASE x \in {n1, n2} -> Holder(0, FALSE)
                [] x = a -> Holder(7, FALSE)
                [] x = bank -> Holder(0, TRUE)
                [] OTHER -> NoAccount],
   dyn |-> 0, vals |-> MCRegistered[0]]

Send(from, to, in, out, seq) ==
  [kind |-> "send", from |-> from, to |-> to, in |-> in, out |-> out, fee |-> 1, seq |-> seq]

Contract(from, to, create, value, price, outcome, seq) ==
  [kind |-> "contract", from |-> from, to |-> to, create |-> create, value |-> value,
   price |-> price, limit |-> 2, used |-> 1, outcome |-> outcome, seq |-> seq]

UpdateTo(d, vals) == [kind |-> "update", from |-> n1, dynasty |-> d, vals |-> vals]

Ledger == INSTANCE Ledger WITH
  Nodes <- {n1, n2}, Accounts <- {n1, n2, v, a, ctr, bank}, Bank <- bank,
  GenesisRoot <- MCGenesisRoot, Registered <- MCRegistered, MinFee <- 1, MinPrice <- 1, MaxBlocks <- 3,
  Reaped <-
    {<<Send(a, v, 1, 1, 1), Send(a, n1, 2, 1, 1), Contract(n1, bank, FALSE, 0, 0, "ok", 1),
       Contract(a, ctr, TRUE, 1, 1, "ok", 2), Contract(a, ctr, FALSE, 1, 1, "revert", 3),
       Contract(a, ctr, TRUE, 0, 1, "ok", 4)>>},
  Forged <-
    {<<UpdateTo(1, {n1, n2})>>, <<UpdateTo(0, {n1, n2})>>,
     <<Contract(a, ctr, TRUE, 1, 1, "fail", 1), Send(a, ctr, 6, 5, 2)>>}

(***************************************************************************)
(* The database: a chain of six blocks with a fork at the second rolling *)
(* height.  Block <<h, k>> is the one of branch k at height h.  The third  *)
(* block is empty.  A state has a root and the leaves of three accounts: x *)
(* goes back to an earlier value, y changes with every second block, and z *)
(* hardly ever.                                                            *)
(***************************************************************************)
DBBlocks == (0 .. 6) \X {0} \cup {<<5, 1>>, <<6, 1>>}
DBParentOf ==
  [b \in DBBlocks |-> IF b[1] = 0 THEN b
                      ELSE IF b = <<5, 1>> THEN <<4, 0>> ELSE <<b[1] - 1, b[2]>>]
DBStateOf == [b \in DBBlocks |-> IF b = <<3, 0>> THEN <<2, 0>> ELSE b]

X == <<0, 1, 2, 2, 2, 1, 1, 1>>
DBNodesOf ==
  [s \in {DBStateOf[b] : b \in DBBlocks} |->
     {<<"root", s[1], s[2]>>, <<"x", X[s[1] + 1]>>, <<"y", (s[1] + 1) \div 2, s[2]>>,
      <<"z", IF s[1] < 2 THEN 0 ELSE 1>>}]

Database == INSTANCE RollingDB WITH
  Blocks <- DBBlocks, Genesis <- <<0, 0>>, ParentOf <- DBParentOf, StateOf <- DBStateOf,
  NodesOf <- DBNodesOf, Interval <- 3, RollAt <- 2, CompactAt <- 0, Retained <- 3,
  MaxUnfinalized <- 2, MaxLag <- 1, MaxCrashes <- 1, lfb <- tagged, crashes <- dbCrashes

(***************************************************************************)
(* The block store: a chain of two blocks and a fork with the same         *)
(* transactions.                                                           *)
(***************************************************************************)
Store == INSTANCE BlockStore WITH
  Blocks <- {"g", "a1", "a2", "b1"}, Genesis <- "g", MaxCrashes <- 1,
  ParentOf <- [g |-> NoBlock, a1 |-> "g", a2 |-> "a1", b1 |-> "g"],
  TxsOf <- [g |-> <<>>, a1 |-> <<"t">>, a2 |-> <<"u">>, b1 |-> <<"t", "u">>]

ASSUME StoreAssumption == Store!BlocksFormTree

(***************************************************************************)
(* Snapshots: chains of five blocks with at most one block that does not   *)
(* certify its parent and with a change of the validators.                 *)
(***************************************************************************)
ChainOf(skip, change) ==
  [h \in 0 .. 5 |-> [hcc |-> IF h = 0 THEN 0 ELSE IF h = skip THEN h - 2 ELSE h - 1,
                     set |-> IF h >= change THEN 1 ELSE 0]]

Snapshots == INSTANCE Snapshot WITH
  Nodes <- {"new"}, Full <- "full", Versions <- {3, 4}, CheckpointInterval <- 5,
  Chains <- {ChainOf(0, 4), ChainOf(3, 2), ChainOf(3, 4)},
  Starts <- {0, 1}, MaxFiles <- 2, MaxBackups <- 1, block <- chain

-----------------------------------------------------------------------------
NoPool ==
  /\ pool = 0 /\ size = 0 /\ records = 0 /\ status = 0 /\ screened = 0
  /\ committed = 0 /\ updates = 0 /\ update = 0 /\ taken = 0 /\ count = 0

NoCallbacks ==
  /\ caller = 0 /\ age = 0 /\ txHashToCallback = 0 /\ callbacks = 0
  /\ final = 0 /\ queue = 0 /\ running = 0

NoLedger ==
  /\ blocks = 0 /\ valid = 0 /\ invalid = 0 /\ delivered = 0
  /\ checked = 0 /\ finalized = 0 /\ mainchain = 0 /\ witnessed = 0

NoDatabase ==
  /\ disk = 0 /\ executed = 0 /\ tagged = 0 /\ step = 0 /\ tasks = 0 /\ task = 0 /\ dbCrashes = 0

NoStore ==
  /\ block = 0 /\ byHeight = 0 /\ txIndex = 0 /\ receiptsV2 = 0 /\ receiptsV1 = 0
  /\ lfb = 0 /\ todo = 0 /\ damaged = 0 /\ crashes = 0

NoSnapshots == chain = 0 /\ node = 0 /\ files = 0 /\ backups = 0 /\ panics = 0

MCInit ==
  \/ part = "pool" /\ Init /\ NoCallbacks /\ NoLedger /\ NoDatabase /\ NoStore /\ NoSnapshots
  \/ part = "callbacks" /\ Callbacks!Init /\ NoPool /\ NoLedger /\ NoDatabase /\ NoStore /\ NoSnapshots
  \/ part = "ledger" /\ Ledger!Init /\ NoPool /\ NoCallbacks /\ NoDatabase /\ NoStore /\ NoSnapshots
  \/ part = "database" /\ Database!Init /\ NoPool /\ NoCallbacks /\ NoLedger /\ NoStore /\ NoSnapshots
  \/ part = "store" /\ Store!Init /\ NoPool /\ NoCallbacks /\ NoLedger /\ NoDatabase /\ NoSnapshots
  \/ part = "snapshots" /\ Snapshots!Init /\ NoPool /\ NoCallbacks /\ NoLedger /\ NoDatabase /\ NoStore

MCNext ==
  \/ /\ part = "pool" /\ Next
     /\ UNCHANGED <<part, callbackVars, ledgerVars, databaseVars, storeVars, snapshotVars>>
  \/ /\ part = "callbacks" /\ Callbacks!Next
     /\ UNCHANGED <<part, vars, ledgerVars, databaseVars, storeVars, snapshotVars>>
  \/ /\ part = "ledger" /\ Ledger!Next
     /\ UNCHANGED <<part, vars, callbackVars, databaseVars, storeVars, snapshotVars>>
  \/ /\ part = "database" /\ Database!Next
     /\ UNCHANGED <<part, vars, callbackVars, ledgerVars, storeVars, snapshotVars>>
  \/ /\ part = "store" /\ Store!Next
     /\ UNCHANGED <<part, vars, callbackVars, ledgerVars, databaseVars, snapshotVars>>
  \/ /\ part = "snapshots" /\ Snapshots!Next
     /\ UNCHANGED <<part, vars, callbackVars, ledgerVars, databaseVars, storeVars>>

MCVars == <<part, vars, callbackVars, ledgerVars, databaseVars, storeVars, snapshotVars>>

MCSpec == MCInit /\ [][MCNext]_MCVars

\* The accounts of the pool may be exchanged.
Symmetry == Permutations(Accounts)

\* The pool, or the ledger, alone.
PoolSpec == part = "pool" /\ MCInit /\ [][MCNext]_MCVars
LedgerSpec == part = "ledger" /\ MCInit /\ [][MCNext]_MCVars

-----------------------------------------------------------------------------
(***************************************************************************)
(* The types of the part that moves.  That of the block store goes with    *)
(* the inductive invariant its theorems rest on.                           *)
(***************************************************************************)
MCTypeOK ==
  CASE part = "pool" -> TypeOK
    [] part = "callbacks" -> Callbacks!TypeOK
    [] part = "ledger" -> Ledger!TypeOK
    [] part = "database" -> Database!TypeOK
    [] part = "store" -> Store!IndInv
    [] part = "snapshots" -> Snapshots!TypeOK

(***************************************************************************)
(* The size, which also limits how much Reap takes, never falls below the  *)
(* number of transactions in the pool: Reap passes over none of them.      *)
(***************************************************************************)
MCSizeCoversPool == part = "pool" => SizeCoversPool

(***************************************************************************)
(* The status GetTransactionStatus answers clients with is true: what is   *)
(* pending is in the pool, or was taken for a block, or removed because it *)
(* was in one; what is abandoned is in the pool no more.                   *)
(***************************************************************************)
MCStatusIsTrue == part = "pool" => StatusIsTrue

(***************************************************************************)
(* A block that was applied takes from the accounts exactly the fees of    *)
(* its transactions: SendTx, contract calls that succeed, revert or run    *)
(* out of gas, and contract creations that collide.                        *)
(***************************************************************************)
CoinsAreConserved == part = "ledger" => Ledger!CoinsAreConserved

(***************************************************************************)
(* In the state of an applied block, the sequence of an account counts the *)
(* transactions it sent on the chain of the block, so none is replayed:    *)
(* not even one that failed in the VM.                                     *)
(***************************************************************************)
SequencesCountTxs == part = "ledger" => Ledger!SequencesCountTxs

(***************************************************************************)
(* Along a chain the dynasty changes only with a ValidatorSetUpdateTx, and *)
(* then grows; the validators are those the mainchain has for it, and      *)
(* whoever of them may propose on top of an applied block has an account   *)
(* there (the "should not happen" of addSubchainValidatorSetUpdateTx).     *)
(***************************************************************************)
DynastiesAreInOrder ==
  part = "ledger" => Ledger!DynastiesAreInOrder /\ Ledger!ProposersHaveAccounts

(***************************************************************************)
(* No node applies a block that another node has marked invalid, whatever  *)
(* each of them knows of the mainchain when it handles the block; what     *)
(* ProposeBlockTxs makes on the checked view, ApplyBlockTxs accepts on the *)
(* delivered view of every node, unless a transaction was undecided when   *)
(* the block was made; and whatever happened to the last block, the        *)
(* delivered view is the state of a block the node has applied, and so is  *)
(* the finalized view.                                                     *)
(***************************************************************************)
BlocksAreJudgedAlike ==
  part = "ledger" =>
    Ledger!VerdictsAgree /\ Ledger!ProposalsAreAccepted /\ Ledger!FailedBlocksLeaveNoTrace

(***************************************************************************)
(* Whatever a compaction has destroyed and whenever the process died, the  *)
(* layers that are left hold the whole state of every block the engine may *)
(* still build on (the last finalized block and all that descends from     *)
(* it), of the finalized blocks within the retention the configuration     *)
(* asks for (compact, minimumNumBlocksToRetain), and of the state that is  *)
(* being moved: copyTrie panics when it misses a node.                     *)
(***************************************************************************)
NeededStatesAreReadable ==
  part = "database" =>
    /\ Database!BuildableStatesAreReadable
    /\ Database!RetainedStatesAreReadable
    /\ Database!MovedStateIsWhole

(***************************************************************************)
(* Whatever the order blocks arrive in, and whatever the engine marks in   *)
(* between, the child links are exactly the parent links of the saved      *)
(* blocks (addBlock), each of these is found by its height, which is the   *)
(* only way it gets to the engine (passReadyBlocks), and GetTip meets no   *)
(* link to a missing block and has all the valid blocks built on the one   *)
(* it starts from as candidates.  A crash makes an exception of at most    *)
(* the block that was being added.                                         *)
(***************************************************************************)
BlocksAreFound ==
  part = "store" => Store!LinksAreExact /\ Store!TipsAreFound /\ Store!FoundByHeight

(***************************************************************************)
(* Once a block is finalized the index entries of its transactions lead to *)
(* a finalized block with that transaction, also when a fork with the same *)
(* transactions is being added at the time (AddTxsToIndex with force); and *)
(* the receipt found for a transaction of a valid block is the one of its  *)
(* execution in that block, not in a fork, also after a crash.             *)
(***************************************************************************)
FinalTxsAreFound ==
  part = "store" => Store!FinalTxsAreIndexed /\ Store!ReceiptIsOfBlock

(***************************************************************************)
(* A node that was started from a snapshot finds for its root, for each    *)
(* later block, and for the blocks after them, the validators that a node  *)
(* with the whole chain finds (GetFinalizedValidatorSet over what          *)
(* loadSnapshot saved), or for the root itself no state at all, and never  *)
(* others; and a version 4 file is accepted by every new node, whoever     *)
(* wrote it, unless its block itself changes the validators                *)
(* (checkSnapshotV4 of what ExportSnapshotV4 wrote).                       *)
(***************************************************************************)
SnapshotsAreSound ==
  part = "snapshots" => Snapshots!ImportedNodesAgree /\ Snapshots!ExportsAreAccepted

(***************************************************************************)
(* "Blocks with validator changes must be followed by two direct           *)
(* confirmation blocks." (validateBlock)                                   *)
(***************************************************************************)
UpdatesAreConfirmed == part = "ledger" => Ledger!UpdatesAreConfirmed

\* A callback leaves the map only when its block came, when a later one
\* takes its place, or when it is as old as the timeout of its caller
\* (rpc/tx.go, Trim compares the times of creation).
YoungCallbacksStay == [][part = "callbacks" => Callbacks!LeavesMapInTime]_callbackVars
=============================================================================
