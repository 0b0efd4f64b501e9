----------------------------- MODULE BlockStore -----------------------------
(***************************************************************************)
(* The block store of a node (blockchain/chain.go, blockchain/tx.go): the  *)
(* saved blocks with their statuses and child links, the index of hashes   *)
(* by height, the index of transactions and their receipts.                *)
(*                                                                         *)
(* Two goroutines write to it: "sync" adds the blocks that arrive, in any  *)
(* order, and "engine" executes, marks and finalizes them.  Every Put is a *)
(* step of its own, because the process can die between any two of them.   *)
(* "todo" is the rest of the call a goroutine is in.                       *)
(***************************************************************************)
EXTENDS Integers, Sequences, FiniteSets, Functions

CONSTANTS
  Blocks,       \* the hashes of all blocks
  Genesis,      \* the root of the chain
  NoBlock,      \* no hash
  ParentOf,     \* ParentOf[b]: the parent of b, NoBlock for the root
  TxsOf,        \* TxsOf[b]: the sequence of the transactions in b
  MaxCrashes    \* bound on the number of crashes

VARIABLES
  block,        \* block[b]: the ExtendedBlock saved under b
  byHeight,     \* byHeight[h]: the hashes the index has for height h
  txIndex,      \* txIndex[t]: the block the index names for transaction t
  receiptsV2,   \* the pairs <<b, t>> with a receipt
  receiptsV1,   \* receiptsV1[t]: the block the receipt of t alone is from
  lfb,          \* the last finalized block in the state of the engine
  todo,         \* todo[a]: the steps goroutine a has still to take
  damaged,      \* the blocks whose writes a crash has cut short (a history)
  crashes       \* the number of crashes so far

vars == <<block, byHeight, txIndex, receiptsV2, receiptsV1, lfb, todo,
          damaged, crashes>>
indices == <<byHeight, txIndex, receiptsV2, receiptsV1>>

Actors == {"sync", "engine"}
Statuses == {"pending", "valid", "invalid", "committed", "direct", "indirect"}
IsFinalized(s) == s \in {"direct", "indirect"}
IsValid(s) == s \notin {"pending", "invalid"}

Txs == UNION {Range(TxsOf[b]) : b \in Blocks}

Height[b \in Blocks] == IF b = Genesis THEN 0 ELSE Height[ParentOf[b]] + 1

Heights == 0 .. Cardinality(Blocks)

Init ==
  /\ block = [b \in {Genesis} |-> [status |-> "direct", children |-> {}]]
  /\ byHeight = [h \in Heights |-> IF h = 0 THEN {Genesis} ELSE {}]
  /\ txIndex = [t \in Txs |-> NoBlock]
  /\ receiptsV2 = {}
  /\ receiptsV1 = [t \in Txs |-> NoBlock]
  /\ lfb = Genesis
  /\ todo = [a \in Actors |-> << >>]
  /\ damaged = {}
  /\ crashes = 0

-----------------------------------------------------------------------------
Stored == DOMAIN block

Step(op, b) == [op |-> op, block |-> b]
TxStep(op, b, t) == [op |-> op, block |-> b, tx |-> t]

(***************************************************************************)
(* What is to be done for every transaction of b, in their order.          *)
(***************************************************************************)
ForTxs(op, b) == [i \in DOMAIN TxsOf[b] |-> TxStep(op, b, TxsOf[b][i])]

Doing(a, op) == todo[a] # << >> /\ Head(todo[a]).op = op

Block(a) == Head(todo[a]).block
Tx(a) == Head(todo[a]).tx

(***************************************************************************)
(* The rest of a call after its first step, preceded by new steps.         *)
(***************************************************************************)
Then(a, steps) == todo' = [todo EXCEPT ![a] = steps \o Tail(@)]

(***************************************************************************)
(* Chain.mu: addBlock holds it all the time, FinalizePreviousBlocks from   *)
(* its first write to the end of its loop.  The other writes of the engine *)
(* that take it hold it for one step, and the writes of AddTxsToIndex in   *)
(* finalizeBlock and of AddTxReceipt are made without it.                  *)
(***************************************************************************)
SyncHoldsMu == todo["sync"] # << >>

EngineHoldsMu == Doing("engine", "txLocked") \/ Doing("engine", "indirect")

EngineIdle == todo["engine"] = << >>

-----------------------------------------------------------------------------
(***************************************************************************)
(* addBlock: a block that is saved already is refused.  The parent, when   *)
(* it is there, gets its link first.                                       *)
(***************************************************************************)
AddBlock(b) ==
  /\ todo["sync"] = << >> /\ ~EngineHoldsMu
  /\ b \notin Stored
  /\ LET link == IF ParentOf[b] \in Stored THEN << Step("link", b) >> ELSE << >>
     IN  todo' = [todo EXCEPT !["sync"] =
                    link \o << Step("save", b), Step("index", b) >>
                         \o ForTxs("txGet", b)]
  /\ UNCHANGED <<block, indices, lfb, damaged, crashes>>

LinkParent ==
  /\ Doing("sync", "link")
  /\ block' = [block EXCEPT ![ParentOf[Block("sync")]].children =
                              @ \cup {Block("sync")}]
  /\ Then("sync", << >>)
  /\ UNCHANGED <<indices, lfb, damaged, crashes>>

(***************************************************************************)
(* findBlocksByHeight: the hashes of the index entry that are saved.       *)
(***************************************************************************)
FindBlocksByHeight(h) == byHeight[h] \cap Stored

\* Mutant of SaveBlock: the block is saved without links to its children.
SaveBlockAlone ==
  /\ Doing("sync", "save")
  /\ block' = [b \in Stored \cup {Block("sync")} |->
                 IF b \in Stored THEN block[b]
                                 ELSE [status |-> "pending", children |-> {}]]
  /\ Then("sync", << >>)
  /\ UNCHANGED <<indices, lfb, damaged, crashes>>

SaveBlock ==
  /\ Doing("sync", "save")
  /\ LET b == Block("sync")
         children == {c \in FindBlocksByHeight(Height[b] + 1) : ParentOf[c] = b}
     IN  block' = [c \in Stored \cup {b} |->
                     IF c = b THEN [status |-> "pending", children |-> children]
                              ELSE block[c]]
  /\ Then("sync", << >>)
  /\ UNCHANGED <<indices, lfb, damaged, crashes>>

AddBlockByHeightIndex ==
  /\ Doing("sync", "index")
  /\ byHeight' = [byHeight EXCEPT ![Height[Block("sync")]] =
                                    @ \cup {Block("sync")}]
  /\ Then("sync", << >>)
  /\ UNCHANGED <<block, txIndex, receiptsV2, receiptsV1, lfb, damaged, crashes>>

(***************************************************************************)
(* AddTxsToIndex without force: a transaction is looked up, and entered if *)
(* it was not there.  The entry under the ETH hash of the transaction is   *)
(* written together with the other.                                        *)
(***************************************************************************)
LookUpTx ==
  /\ Doing("sync", "txGet")
  /\ Then("sync", IF txIndex[Tx("sync")] = NoBlock
                    THEN << TxStep("txPut", Block("sync"), Tx("sync")) >>
                    ELSE << >>)
  /\ UNCHANGED <<block, indices, lfb, damaged, crashes>>

IndexTx(a, ops) ==
  /\ todo[a] # << >> /\ Head(todo[a]).op \in ops
  /\ txIndex' = [txIndex EXCEPT ![Tx(a)] = Block(a)]
  /\ Then(a, << >>)
  /\ UNCHANGED <<block, byHeight, receiptsV2, receiptsV1, lfb, damaged, crashes>>

-----------------------------------------------------------------------------
(***************************************************************************)
(* The engine applies a pending block whose parent is valid: the ledger    *)
(* adds the receipt of every transaction (AddTxReceipt) before the block   *)
(* is marked; it can still turn out to be invalid then.                    *)
(***************************************************************************)
ExecuteBlock(b) ==
  /\ EngineIdle
  /\ b \in Stored /\ block[b].status = "pending"
  /\ ParentOf[b] \in Stored /\ IsValid(block[ParentOf[b]].status)
  /\ \E mark \in {"valid", "invalid"} :
       todo' = [todo EXCEPT !["engine"] =
                  ForTxs("receipt", b) \o << Step(mark, b) >>]
  /\ UNCHANGED <<block, indices, lfb, damaged, crashes>>

AddTxReceipt ==
  /\ Doing("engine", "receipt")
  /\ receiptsV2' = receiptsV2 \cup {<<Block("engine"), Tx("engine")>>}
  /\ receiptsV1' = [receiptsV1 EXCEPT ![Tx("engine")] = Block("engine")]
  /\ Then("engine", << >>)
  /\ UNCHANGED <<block, byHeight, txIndex, lfb, damaged, crashes>>

(***************************************************************************)
(* MarkBlockValid, MarkBlockInvalid and CommitBlock: the block is read,    *)
(* and saved with its new status, under Chain.mu.                          *)
(***************************************************************************)
MarkBlock ==
  /\ Doing("engine", "valid") \/ Doing("engine", "invalid")
     \/ Doing("engine", "committed")
  /\ ~SyncHoldsMu
  /\ block' = [block EXCEPT ![Block("engine")].status = Head(todo["engine"]).op]
  /\ Then("engine", << >>)
  /\ UNCHANGED <<indices, lfb, damaged, crashes>>

CommitBlock(b) ==
  /\ EngineIdle
  /\ b \in Stored /\ block[b].status = "valid"
  /\ todo' = [todo EXCEPT !["engine"] = << Step("committed", b) >>]
  /\ UNCHANGED <<block, indices, lfb, damaged, crashes>>

Ancestors[b \in Blocks] ==
  IF b = Genesis THEN {b} ELSE {b} \cup Ancestors[ParentOf[b]]

(***************************************************************************)
(* finalizeBlock for a block above the last finalized one: the state, the  *)
(* statuses down to the first finalized ancestor, and the transactions of  *)
(* the block once more.                                                    *)
(***************************************************************************)
FinalizeBlock(b) ==
  /\ EngineIdle
  /\ b \in Stored /\ IsValid(block[b].status)
  /\ lfb \in Ancestors[b] \ {b}
  /\ lfb' = b
  /\ todo' = [todo EXCEPT !["engine"] =
                << Step("direct", b) >> \o ForTxs("txForce", b)]
  /\ UNCHANGED <<block, indices, damaged, crashes>>

\* Mutant of FinalizePreviousBlocks: the transactions are not indexed again.
FinalizeStatusesOnly ==
  /\ Doing("engine", "direct") \/ Doing("engine", "indirect")
  /\ ~SyncHoldsMu
  /\ LET b == Block("engine")
     IN  IF b \notin Stored \/ IsFinalized(block[b].status)
           THEN Then("engine", << >>) /\ UNCHANGED block
           ELSE /\ block' = [block EXCEPT ![b].status = Head(todo["engine"]).op]
                /\ Then("engine", << Step("indirect", ParentOf[b]) >>)
  /\ UNCHANGED <<indices, lfb, damaged, crashes>>

FinalizePreviousBlocks ==
  /\ Doing("engine", "direct") \/ Doing("engine", "indirect")
  /\ ~SyncHoldsMu
  /\ LET b == Block("engine")
     IN  IF b \notin Stored \/ IsFinalized(block[b].status)
           THEN Then("engine", << >>) /\ UNCHANGED block
           ELSE /\ block' = [block EXCEPT ![b].status = Head(todo["engine"]).op]
                /\ Then("engine", ForTxs("txLocked", b)
                                    \o << Step("indirect", ParentOf[b]) >>)
  /\ UNCHANGED <<indices, lfb, damaged, crashes>>

-----------------------------------------------------------------------------
(***************************************************************************)
(* The process dies and is started again: NewChain finds the root there.   *)
(***************************************************************************)
Crash ==
  /\ crashes < MaxCrashes
  /\ crashes' = crashes + 1
  /\ damaged' = damaged \cup {s.block : s \in Range(todo["sync"]) \cup Range(todo["engine"])}
  /\ todo' = [a \in Actors |-> << >>]
  /\ UNCHANGED <<block, indices, lfb>>

Sync ==
  \/ \E b \in Blocks : AddBlock(b)
  \/ LinkParent \/ SaveBlock \/ AddBlockByHeightIndex
  \/ LookUpTx \/ IndexTx("sync", {"txPut"})

Engine ==
  \/ \E b \in Stored : ExecuteBlock(b) \/ CommitBlock(b) \/ FinalizeBlock(b)
  \/ AddTxReceipt \/ MarkBlock \/ FinalizePreviousBlocks
  \/ IndexTx("engine", {"txLocked", "txForce"})

Next == Sync \/ Engine \/ Crash

Spec == Init /\ [][Next]_vars

-----------------------------------------------------------------------------
TypeOK ==
  /\ Stored \subseteq Blocks
  /\ \A b \in Stored : block[b] \in [status : Statuses, children : SUBSET Blocks]
  /\ byHeight \in [Heights -> SUBSET Blocks]
  /\ txIndex \in [Txs -> Blocks \cup {NoBlock}]
  /\ receiptsV2 \subseteq Blocks \X Txs
  /\ receiptsV1 \in [Txs -> Blocks \cup {NoBlock}]
  /\ lfb \in Stored
  /\ DOMAIN todo = Actors
  /\ damaged \subseteq Blocks
  /\ crashes \in 0 .. MaxCrashes

(***************************************************************************)
(* Whatever the order blocks arrive in, and whatever the engine marks in   *)
(* between, the child links are exactly the parent links of the saved      *)
(* blocks (addBlock).  A crash leaves at most links from or to the block   *)
(* that was being added wrong.                                             *)
(***************************************************************************)
LinksAreExact ==
  ~SyncHoldsMu =>
    /\ \A b \in Stored : \A c \in block[b].children :
         ParentOf[c] = b /\ (c \in Stored \/ c \in damaged)
    /\ \A b, c \in Stored \ damaged :
         ParentOf[c] = b => c \in block[b].children

(***************************************************************************)
(* GetTip visits the blocks the child links lead to from a block, through  *)
(* valid blocks only.                                                      *)
(***************************************************************************)
Visited(h) ==
  LET after[k \in 0 .. Cardinality(Blocks)] ==
        IF k = 0 THEN {h}
        ELSE after[k - 1] \cup
             UNION {block[b].children : b \in
                      {c \in after[k - 1] \cap Stored : IsValid(block[c].status)}}
  IN  after[Cardinality(Blocks)]

(***************************************************************************)
(* GetTip meets no link to a missing block, which would end the process,   *)
(* and its candidates are all the valid blocks built on the block it       *)
(* starts from, as long as no crash has damaged a block.                   *)
(***************************************************************************)
TipsAreFound ==
  ~SyncHoldsMu /\ damaged = {} =>
    \A h \in {b \in Stored : IsValid(block[b].status)} :
      /\ Visited(h) \subseteq Stored
      /\ {b \in Visited(h) : IsValid(block[b].status)} =
           {b \in Stored : IsValid(block[b].status) /\ h \in Ancestors[b]}

(***************************************************************************)
(* Every saved block is found by its height, which is the only way it gets *)
(* to the engine (passReadyBlocks), but for one a crash has damaged.       *)
(***************************************************************************)
FoundByHeight ==
  ~SyncHoldsMu =>
    \A b \in Stored \ damaged : b \in FindBlocksByHeight(Height[b])

(***************************************************************************)
(* Once a block is finalized the index entries of its transactions lead to *)
(* a finalized block with that transaction, also when a fork with the same *)
(* transactions is being added at the time (AddTxsToIndex with force).     *)
(***************************************************************************)
FinalTxsAreIndexed ==
  EngineIdle => \A b \in Stored \ damaged : IsFinalized(block[b].status) =>
    \A t \in Range(TxsOf[b]) :
      /\ txIndex[t] \in Stored
      /\ t \in Range(TxsOf[txIndex[t]])
      /\ IsFinalized(block[txIndex[t]].status)

(***************************************************************************)
(* FindTxReceiptByHash.                                                    *)
(***************************************************************************)
FindTxReceipt(b, t) == IF <<b, t>> \in receiptsV2 THEN b ELSE receiptsV1[t]

(***************************************************************************)
(* The receipt found for a transaction of a valid block is the one of its  *)
(* execution in that block, not in a fork, also after a crash.             *)
(***************************************************************************)
ReceiptIsOfBlock ==
  \A b \in Stored : IsValid(block[b].status) =>
    \A t \in Range(TxsOf[b]) : FindTxReceipt(b, t) = b
-----------------------------------------------------------------------------
(***************************************************************************)
(* What is known of the blocks: they form a tree below Genesis, which has  *)
(* no transactions, and a header has the height of its parent plus one.    *)
(* That is how createProposal makes them; addBlock takes it for granted,   *)
(* validateBlock compares the heights only later.                          *)
(***************************************************************************)
BlocksFormTree ==
  /\ Genesis \in Blocks /\ NoBlock \notin Blocks
  /\ ParentOf[Genesis] = NoBlock /\ TxsOf[Genesis] = << >> /\ Height[Genesis] = 0
  /\ \A b \in Blocks :
       /\ TxsOf[b] \in Seq(Range(TxsOf[b]))
       /\ Height[b] \in Heights
       /\ b # Genesis => /\ ParentOf[b] \in Blocks
                         /\ Height[b] = Height[ParentOf[b]] + 1

(***************************************************************************)
(* The inductive invariant: what is stored, and what is left of the calls. *)
(***************************************************************************)
Ops == {"link", "save", "index", "txGet", "txPut", "receipt", "valid", "invalid",
        "committed", "direct", "indirect", "txForce", "txLocked"}

TxSteps(op, b) == {TxStep(op, b, t) : t \in Range(TxsOf[b])}

Rests(op, b) == UNION {[1 .. n -> TxSteps(op, b)] : n \in 0 .. Len(TxsOf[b])}

Before(s, steps) == << s >> \o steps

(***************************************************************************)
(* A transaction of a finalized block, and one whose index entry leads to  *)
(* such a block.                                                           *)
(***************************************************************************)
IsFinal(t) ==
  \E b \in Stored \ damaged : IsFinalized(block[b].status) /\ t \in Range(TxsOf[b])

LeadsToFinal(t) ==
  /\ txIndex[t] \in Stored
  /\ t \in Range(TxsOf[txIndex[t]])
  /\ IsFinalized(block[txIndex[t]].status)

(***************************************************************************)
(* The rest of addBlock(b).  While the lock is held nothing is finalized,  *)
(* so a transaction that was not found stays one without a final block.    *)
(***************************************************************************)
SyncInv ==
  \E b \in Blocks : \E r \in Rests("txGet", b) :
    \/ todo["sync"] = r
    \/ \E t \in Range(TxsOf[b]) :
         todo["sync"] = Before(TxStep("txPut", b, t), r) /\ ~IsFinal(t)
    \/ todo["sync"] = Before(Step("index", b), r)
    \/ /\ todo["sync"] = Before(Step("save", b), Before(Step("index", b), r))
       /\ b \notin Stored
       /\ ParentOf[b] \in Stored => b \in block[ParentOf[b]].children
    \/ /\ todo["sync"] = Before(Step("link", b),
                           Before(Step("save", b), Before(Step("index", b), r)))
       /\ b \notin Stored /\ ParentOf[b] \in Stored

(***************************************************************************)
(* The rest of the call the engine is in: execution, the receipts that are *)
(* missing first, the commit, and finalization from the block downwards.   *)
(***************************************************************************)
ExecutionInv ==
  \E b \in Stored, mark \in {"valid", "invalid"} : \E r \in Rests("receipt", b) :
    /\ todo["engine"] = r \o << Step(mark, b) >>
    /\ block[b].status = "pending"
    /\ ParentOf[b] \in Stored /\ IsValid(block[ParentOf[b]].status)
    /\ \A t \in Range(TxsOf[b]) :
         <<b, t>> \in receiptsV2 \/ TxStep("receipt", b, t) \in Range(r)

FinalizationInv ==
  \E b \in Stored : \E f \in Rests("txForce", b) :
    /\ IsValid(block[b].status)
    /\ \/ todo["engine"] = Before(Step("direct", b), f)
       \/ /\ IsFinalized(block[b].status)
          /\ \/ todo["engine"] = f
             \/ \E c, d \in Stored : \E r \in Rests("txLocked", d) :
                  /\ todo["engine"] = r \o Before(Step("indirect", c), f)
                  /\ IsFinalized(block[d].status) /\ IsValid(block[c].status)

EngineInv ==
  \/ EngineIdle
  \/ \E b \in Stored : /\ todo["engine"] = << Step("committed", b) >>
                       /\ block[b].status = "valid"
  \/ ExecutionInv
  \/ FinalizationInv

MutexInv == ~(SyncHoldsMu /\ EngineHoldsMu)

(***************************************************************************)
(* Links and heights, with the block that is just being added.             *)
(***************************************************************************)
LinkInv ==
  /\ \A b \in Stored : \A c \in block[b].children :
       /\ ParentOf[c] = b
       /\ c \in Stored \cup damaged \/ (Doing("sync", "save") /\ Block("sync") = c)
  /\ \A b, c \in Stored \ damaged : ParentOf[c] = b => c \in block[b].children
  /\ \A b \in Stored \ damaged :
       b \in byHeight[Height[b]] \/ (Doing("sync", "index") /\ Block("sync") = b)

(***************************************************************************)
(* A valid block has a valid parent, and receipts of its transactions.     *)
(***************************************************************************)
StatusInv ==
  /\ Genesis \in Stored /\ IsFinalized(block[Genesis].status)
  /\ \A b \in Stored : IsValid(block[b].status) =>
       /\ b # Genesis => ParentOf[b] \in Stored /\ IsValid(block[ParentOf[b]].status)
       /\ \A t \in Range(TxsOf[b]) : <<b, t>> \in receiptsV2

(***************************************************************************)
(* The transactions of a finalized block are in the index, but for those   *)
(* that FinalizePreviousBlocks is still to enter.                          *)
(***************************************************************************)
IndexInv ==
  \A b \in Stored \ damaged : IsFinalized(block[b].status) =>
    \A t \in Range(TxsOf[b]) :
      LeadsToFinal(t) \/ TxStep("txLocked", b, t) \in Range(todo["engine"])

(***************************************************************************)
(* Every step left of a call has a block, and a transaction if it is for   *)
(* one.                                                                    *)
(***************************************************************************)
StepsInv ==
  todo \in [Actors -> Seq([op : Ops, block : Blocks] \cup
                          [op : Ops, block : Blocks, tx : Txs])]

IndInv ==
  TypeOK /\ StepsInv /\ SyncInv /\ EngineInv /\ MutexInv /\ LinkInv /\ StatusInv /\ IndexInv
=============================================================================
