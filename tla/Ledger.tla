------------------------------- MODULE Ledger -------------------------------
(***************************************************************************)
(* The ledger of every node (ledger/ledger.go), the transaction executors  *)
(* (ledger/execution) and the views they run on (ledger/state): proposing  *)
(* the transactions of a block, applying the blocks of others, the update  *)
(* of the validator set from the mainchain a node witnesses.               *)
(*                                                                         *)
(* The root hash of a state tree is the state itself: a record with the    *)
(* accounts, the dynasty and the validators of that dynasty.  A block is   *)
(* named by its position in "blocks"; block 1 is the genesis block.  The    *)
(* screened view, which only the mempool uses, is in module Mempool.       *)
(***************************************************************************)
EXTENDS Integers, Sequences, FiniteSets, SequencesExt

CONSTANTS
  Nodes,        \* the nodes; a node has the address of the same name
  Accounts,     \* all addresses, those of the nodes included
  NoAccount,    \* what GetAccount returns for an unknown address
  Bank,         \* the token bank contract whose calls by validators are free
  Reaped,       \* the lists of regular transactions the mempool may give
  Forged,       \* transaction lists of blocks that a faulty proposer makes
  GenesisRoot,  \* the state of the genesis block
  Registered,   \* Registered[d]: the validators the mainchain has for dynasty d
  MinFee,       \* minimum fee of a SendTx
  MinPrice,     \* minimum gas price
  MaxBlocks     \* bound on the number of blocks

VARIABLES
  blocks,       \* the blocks made so far
  valid,        \* valid[n]: the blocks n has applied
  invalid,      \* invalid[n]: the blocks n has marked invalid
  delivered, checked, finalized,   \* the views of every node
  mainchain,    \* the dynasty of the mainchain
  witnessed     \* witnessed[n]: the dynasty of the mainchain height n knows

views == <<delivered, checked, finalized>>
vars == <<blocks, valid, invalid, delivered, checked, finalized, mainchain, witnessed>>

Dynasties == DOMAIN Registered

(***************************************************************************)
(* Views.  A fresh view, or a copy of one, has no transaction processed.   *)
(***************************************************************************)
NewStoreView(h, root) ==
  [height |-> h, root |-> root, coinbase |-> FALSE, updated |-> FALSE]

Copy(view) == NewStoreView(view.height, view.root)

GetAccount(root, a) == root.acc[a]

SetAccount(root, a, acc) == [root EXCEPT !.acc[a] = acc]

NewAccount == [bal |-> 0, seq |-> 0, code |-> FALSE]

GetOrMakeAccount(root, a) ==
  IF root.acc[a] = NoAccount THEN NewAccount ELSE root.acc[a]

AddBalance(root, a, amount) ==
  IF amount = 0 THEN root
  ELSE SetAccount(root, a, [GetOrMakeAccount(root, a) EXCEPT !.bal = @ + amount])

Transfer(root, from, to, amount) ==
  AddBalance(AddBalance(root, from, -amount), to, amount)

(***************************************************************************)
(* The validators of the block that follows b: those in the state of the   *)
(* block certified by b, or of b itself when b is the genesis block.       *)
(***************************************************************************)
GetNextValidatorSet(b) ==
  LET c == IF blocks[b].hcc = 0 THEN b ELSE blocks[b].hcc
  IN  blocks[c].root.vals

(***************************************************************************)
(* What executing a transaction on a view gives: a result and the view,    *)
(* which an error found halfway leaves partly changed.  "vs" stands for    *)
(* the validators of the current block, "ok" tells whether the mainchain   *)
(* answers the witness; it has no answer for a dynasty yet to come.        *)
(***************************************************************************)
Result(code, view) == [code |-> code, view |-> view]

CoinbaseTx(view, tx, vs) ==
  IF view.coinbase \/ tx.from \notin vs \/ tx.height # view.height
  THEN Result("error", view)
  ELSE Result("ok", [view EXCEPT !.coinbase = TRUE])

MakeAccounts(root, who) ==
  [root EXCEPT !.acc = [a \in Accounts |->
     IF a \in who THEN GetOrMakeAccount(root, a) ELSE @[a]]]

NewDynasty(view, tx) == tx.dynasty > view.root.dyn

\* mutant: the number of validators is compared
SameSize(tx) == Cardinality(tx.vals) = Cardinality(Registered[tx.dynasty])

SameValidators(tx) == tx.vals = Registered[tx.dynasty]

\* the accounts of new validators are made before the dynasty is looked at
ValidatorSetUpdateTx(view, tx, vs, ok) ==
  LET made == [view EXCEPT !.root = MakeAccounts(@, tx.vals)]
  IN  IF view.updated \/ tx.from \notin vs THEN Result("error", view)
      ELSE IF ~NewDynasty(view, tx) THEN Result("error", made)
      ELSE IF ~ok \/ tx.dynasty > mainchain THEN Result("undecided", made)
      ELSE IF ~SameValidators(tx) THEN Result("error", made)
      ELSE Result("ok", [made EXCEPT !.root.dyn = tx.dynasty,
                           !.root.vals = tx.vals, !.updated = TRUE])

\* mutant: the balance is not looked at
ValidateSequence(acc, seq, coins) == acc.seq + 1 = seq

ValidateInputAdvanced(acc, seq, coins) ==
  /\ acc.seq + 1 = seq
  /\ acc.bal >= coins

\* mutant: the fee is not counted
BalancedWithoutFee(tx) == tx.in = tx.out

Balanced(tx) == tx.in = tx.out + tx.fee

\* one input, one output; the fee is what the output leaves of the input
SendTx(view, tx) ==
  LET root == view.root
      from == GetAccount(root, tx.from)
      paid == SetAccount(root, tx.from, [from EXCEPT !.bal = @ - tx.in, !.seq = @ + 1])
      to   == GetOrMakeAccount(root, tx.to)
  IN  IF /\ tx.from # tx.to
         /\ from # NoAccount
         /\ ~from.code /\ ~to.code
         /\ ValidateInputAdvanced(from, tx.seq, tx.in)
         /\ tx.fee >= MinFee
         /\ Balanced(tx)
      THEN Result("ok", [view EXCEPT !.root =
             SetAccount(paid, tx.to, [to EXCEPT !.bal = @ + tx.out])])
      ELSE Result("error", view)

(***************************************************************************)
(* vm.Execute.  What the code of a contract does is given by the           *)
(* transaction: it succeeds, reverts after using some gas, or fails and    *)
(* uses all of it.  Creating a contract increments the sequence of the     *)
(* sender even when it fails.                                              *)
(***************************************************************************)
Collides(root, tx) ==
  tx.create /\ (GetOrMakeAccount(root, tx.to).seq # 0 \/ GetOrMakeAccount(root, tx.to).code)

GasUsed(root, tx) ==
  IF tx.outcome = "fail" \/ Collides(root, tx) THEN tx.limit ELSE tx.used

Call(root, tx) ==
  IF tx.outcome # "ok" \/ (root.acc[tx.to] = NoAccount /\ tx.value = 0)
  THEN root
  ELSE Transfer(SetAccount(root, tx.to, GetOrMakeAccount(root, tx.to)),
                tx.from, tx.to, tx.value)

Create(root, tx) ==
  LET counted == [root EXCEPT !.acc[tx.from].seq = @ + 1]
      old     == GetOrMakeAccount(counted, tx.to)
  IN  IF Collides(root, tx) \/ tx.outcome # "ok" THEN counted
      ELSE Transfer(SetAccount(counted, tx.to, [old EXCEPT !.code = TRUE]),
                    tx.from, tx.to, tx.value)

IsWhitelistedOperation(root, tx) == tx.from \in root.vals /\ tx.to = Bank

SmartContractCheck(root, tx) ==
  LET from == GetAccount(root, tx.from)
  IN  /\ from # NoAccount
      /\ ValidateInputAdvanced(from, tx.seq, tx.value)
      /\ tx.price >= MinPrice \/ (tx.price = 0 /\ IsWhitelistedOperation(root, tx))
      /\ from.bal >= tx.price * tx.limit + tx.value

\* mutant: the sequence of the sender grows for a call that succeeds only
CountsIfOk(tx) == IF ~tx.create /\ tx.outcome = "ok" THEN 1 ELSE 0

Counts(tx) == IF tx.create THEN 0 ELSE 1

SmartContractTx(view, tx) ==
  IF ~SmartContractCheck(view.root, tx) THEN Result("error", view)
  ELSE LET run  == IF tx.create THEN Create(view.root, tx) ELSE Call(view.root, tx)
           acc  == run.acc[tx.from]
           fee  == tx.price * GasUsed(view.root, tx)
           paid == [acc EXCEPT !.bal = @ - fee, !.seq = @ + Counts(tx)]
       IN  IF acc.bal < fee
           THEN Result("error", [view EXCEPT !.root = run])
           ELSE Result("ok", [view EXCEPT !.root = SetAccount(run, tx.from, paid)])

ProcessTx(view, tx, vs, ok) ==
  CASE tx.kind = "coinbase" -> CoinbaseTx(view, tx, vs)
    [] tx.kind = "update"   -> ValidatorSetUpdateTx(view, tx, vs, ok)
    [] tx.kind = "send"     -> SendTx(view, tx)
    [] tx.kind = "contract" -> SmartContractTx(view, tx)
    [] OTHER                -> Result("error", view)

-----------------------------------------------------------------------------
(***************************************************************************)
(* Proposing: a candidate that fails is left out, one that is undecided is *)
(* kept.  The result of every candidate is remembered in "undecided".      *)
(***************************************************************************)
GetNewDynastyAndValidatorSet(n, view, ok) ==
  ok /\ witnessed[n] > view.root.dyn

AddSpecialTransactions(n, view, majority, ok) ==
  <<[kind |-> "coinbase", from |-> n, height |-> view.height]>>
  \o IF GetNewDynastyAndValidatorSet(n, view, ok) /\ majority
     THEN <<[kind |-> "update", from |-> n, dynasty |-> witnessed[n],
             vals |-> Registered[witnessed[n]]]>>
     ELSE <<>>

Keeps(code) == code # "error"

CheckTxs(view, candidates, vs, ok) ==
  FoldLeft(LAMBDA s, tx :
             LET r == ProcessTx(s.view, tx, vs, ok)
             IN  [view |-> r.view,
                  txs |-> IF Keeps(r.code) THEN Append(s.txs, tx) ELSE s.txs,
                  undecided |-> s.undecided \/ r.code = "undecided"],
           [view |-> view, txs |-> <<>>, undecided |-> FALSE], candidates)

(***************************************************************************)
(* Applying: the first transaction that is not executed ends it.           *)
(***************************************************************************)
ExecuteTxs(view, txs, vs, ok) ==
  FoldLeft(LAMBDA r, tx : IF r.code = "ok" THEN ProcessTx(r.view, tx, vs, ok) ELSE r,
           Result("ok", view), txs)

-----------------------------------------------------------------------------
Genesis ==
  [parent |-> 0, hcc |-> 0, height |-> 0, txs |-> <<>>, root |-> GenesisRoot,
   honest |-> TRUE, undecided |-> FALSE]

Init ==
  /\ blocks = <<Genesis>>
  /\ valid = [n \in Nodes |-> {1}]
  /\ invalid = [n \in Nodes |-> {}]
  /\ delivered = [n \in Nodes |-> NewStoreView(0, GenesisRoot)]
  /\ checked = delivered
  /\ finalized = delivered
  /\ mainchain = GenesisRoot.dyn
  /\ witnessed = [n \in Nodes |-> GenesisRoot.dyn]

\* a block a node can certify or extend: on the chain of tip, not below tip's
Certified(tip) ==
  {tip} \cup {h \in 1 .. Len(blocks) : blocks[tip].hcc = h}

(***************************************************************************)
(* Engine, createProposal: ResetState(tip), then ProposeBlockTxs.  The     *)
(* mainchain may answer the first query (first) and not the second.        *)
(***************************************************************************)
ProposeBlockTxs(n, tip, hcc, majority, reaped, first, second) ==
  LET base == NewStoreView(blocks[tip].height, blocks[tip].root)
      vs   == GetNextValidatorSet(tip)
      c    == CheckTxs(base, AddSpecialTransactions(n, base, majority, first) \o reaped,
                       vs, second)
  IN  /\ n \in vs
      /\ delivered' = [delivered EXCEPT ![n] = base]
      /\ checked' = [checked EXCEPT ![n] = c.view]
      /\ blocks' = Append(blocks,
           [parent |-> tip, hcc |-> hcc, height |-> base.height + 1,
            txs |-> c.txs, root |-> c.view.root,
            honest |-> TRUE, undecided |-> c.undecided])
      /\ UNCHANGED <<valid, invalid, finalized, mainchain, witnessed>>

\* a faulty proposer signs a block of its choice
Forge(n, tip, hcc, txs, root) ==
  /\ n \in GetNextValidatorSet(tip)
  /\ blocks' = Append(blocks,
       [parent |-> tip, hcc |-> hcc, height |-> blocks[tip].height + 1,
        txs |-> txs, root |-> root, honest |-> FALSE, undecided |-> FALSE])
  /\ UNCHANGED <<valid, invalid, views, mainchain, witnessed>>

(***************************************************************************)
(* Only staking transactions mark a block as changing the validators, and  *)
(* none of the executors runs them.                                        *)
(***************************************************************************)
HasValidatorUpdate(b) ==
  \E i \in DOMAIN blocks[b].txs : blocks[b].txs[i].kind = "stake"

ConfirmsUpdates(b) ==
  LET p == blocks[b].parent
  IN  (HasValidatorUpdate(p) \/ (blocks[p].parent # 0 /\ HasValidatorUpdate(blocks[p].parent)))
        => blocks[b].hcc = p

ResetState(n, b) ==
  LET base == NewStoreView(blocks[b].height, blocks[b].root)
  IN  /\ delivered' = [delivered EXCEPT ![n] = base]
      /\ checked' = [checked EXCEPT ![n] = base]

AfterFailure(n, b, view) == ResetState(n, b)

\* the delivered view keeps its marks until the next reset, its copies do not
Commit(n, view) ==
  LET saved == [view EXCEPT !.height = @ + 1]
  IN  /\ delivered' = [delivered EXCEPT ![n] = saved]
      /\ checked' = [checked EXCEPT ![n] = Copy(saved)]

\* mutant: a block that cannot be decided is marked invalid
RejectsAll(code) == TRUE

Rejects(code) == code # "undecided"

ApplyBlockTxs(n, b, ok) ==
  LET p == blocks[b].parent
      r == ExecuteTxs(NewStoreView(blocks[p].height, blocks[p].root),
                      blocks[b].txs, GetNextValidatorSet(p), ok)
  IN  IF r.code = "ok" /\ r.view.root = blocks[b].root
      THEN /\ Commit(n, r.view)
           /\ valid' = [valid EXCEPT ![n] = @ \cup {b}]
           /\ UNCHANGED invalid
      ELSE /\ AfterFailure(n, p, r.view)
           /\ invalid' = IF Rejects(r.code) THEN [invalid EXCEPT ![n] = @ \cup {b}] ELSE invalid
           /\ UNCHANGED valid

(***************************************************************************)
(* Engine, handleNormalBlock, for a block whose parent has been decided.   *)
(***************************************************************************)
HandleBlock(n, b, ok) ==
  /\ b \notin valid[n] \cup invalid[n]
  /\ \/ /\ blocks[b].parent \in valid[n] /\ ConfirmsUpdates(b)
        /\ ApplyBlockTxs(n, b, ok)
     \/ /\ blocks[b].parent \in invalid[n] \/ ~ConfirmsUpdates(b)
        /\ invalid' = [invalid EXCEPT ![n] = @ \cup {b}]
        /\ UNCHANGED <<valid, delivered, checked>>
  /\ UNCHANGED <<blocks, finalized, mainchain, witnessed>>

\* processCCBlock finalizes the parent of a block that certifies its parent
FinalizeState(n, b) ==
  /\ \E c \in valid[n] : blocks[c].parent = b /\ blocks[c].hcc = b
  /\ blocks[b].height > finalized[n].height
  /\ finalized' = [finalized EXCEPT ![n] = NewStoreView(blocks[b].height, blocks[b].root)]
  /\ UNCHANGED <<blocks, valid, invalid, delivered, checked, mainchain, witnessed>>

EnterDynasty ==
  /\ mainchain + 1 \in Dynasties
  /\ mainchain' = mainchain + 1
  /\ UNCHANGED <<blocks, valid, invalid, views, witnessed>>

UpdateMainchainBlockHeight(n) ==
  /\ witnessed[n] # mainchain
  /\ witnessed' = [witnessed EXCEPT ![n] = mainchain]
  /\ UNCHANGED <<blocks, valid, invalid, views, mainchain>>

Propose(n) ==
  /\ Len(blocks) < MaxBlocks
  /\ \E tip \in valid[n] : \E hcc \in Certified(tip), majority, first, second \in BOOLEAN :
       \E reaped \in Reaped :
         ProposeBlockTxs(n, tip, hcc, majority, reaped, first, second)

ForgeAny(n) ==
  /\ Len(blocks) < MaxBlocks
  /\ \E tip \in valid[n], txs \in Forged : \E hcc \in Certified(tip) :
       LET r == ExecuteTxs(NewStoreView(blocks[tip].height, blocks[tip].root),
                           txs, GetNextValidatorSet(tip), TRUE)
       IN  \E root \in {r.view.root, blocks[tip].root} : Forge(n, tip, hcc, txs, root)

Next ==
  \/ EnterDynasty
  \/ \E n \in Nodes :
       \/ Propose(n)
       \/ ForgeAny(n)
       \/ UpdateMainchainBlockHeight(n)
       \/ \E b \in 2 .. Len(blocks) :
            \/ \E ok \in BOOLEAN : HandleBlock(n, b, ok)
            \/ FinalizeState(n, b)

Spec == Init /\ [][Next]_vars

-----------------------------------------------------------------------------
(***************************************************************************)
(* Properties.                                                             *)
(***************************************************************************)
Applied == UNION {valid[n] : n \in Nodes}

Total(root) ==
  FoldFunction(LAMBDA acc, sum : IF acc = NoAccount THEN sum ELSE acc.bal + sum, 0, root.acc)

Includes(b, kind) == \E i \in DOMAIN blocks[b].txs : blocks[b].txs[i].kind = kind

\* the blocks of the chain that ends with b; a block comes after its parent
Chain[b \in Nat] == IF b = 0 THEN {} ELSE {b} \cup Chain[blocks[b].parent]

\* what the transactions of b take out of circulation
Burnt(b) ==
  LET p == blocks[b].parent
      Fee(root, tx) == CASE tx.kind = "send" -> tx.fee
                         [] tx.kind = "contract" -> tx.price * GasUsed(root, tx)
                         [] OTHER -> 0
  IN  FoldLeft(LAMBDA s, tx : [view |-> ProcessTx(s.view, tx, GetNextValidatorSet(p), TRUE).view,
                               sum |-> s.sum + Fee(s.view.root, tx)],
               [view |-> NewStoreView(blocks[p].height, blocks[p].root), sum |-> 0],
               blocks[b].txs).sum

\* The views hold states and the blocks are on record at the nodes.
TypeOK ==
  /\ \A n \in Nodes : valid[n] \cup invalid[n] \subseteq 1 .. Len(blocks)
  /\ \A b \in Applied, a \in Accounts :
       blocks[b].root.acc[a] # NoAccount => blocks[b].root.acc[a].bal >= 0
  /\ mainchain \in Dynasties /\ witnessed \in [Nodes -> Dynasties]

(***************************************************************************)
(* A block that was applied takes from the accounts exactly the fees of    *)
(* its transactions: SendTx, contract calls that succeed, revert or run    *)
(* out of gas, and contract creations that collide.                        *)
(***************************************************************************)
CoinsAreConserved ==
  \A b \in Applied \ {1} :
    Total(blocks[b].root) + Burnt(b) = Total(blocks[blocks[b].parent].root)

(***************************************************************************)
(* In the state of an applied block, the sequence of an account counts the *)
(* transactions it sent on the chain of the block, so none is replayed:    *)
(* not even one that failed in the VM.                                     *)
(***************************************************************************)
SequencesCountTxs ==
  \A b \in Applied, a \in Accounts :
    LET Sent(c) == {<<c, i>> : i \in {j \in DOMAIN blocks[c].txs :
                      /\ blocks[c].txs[j].kind \in {"send", "contract"}
                      /\ blocks[c].txs[j].from = a}}
    IN  blocks[b].root.acc[a] # NoAccount =>
          blocks[b].root.acc[a].seq = Cardinality(UNION {Sent(c) : c \in Chain[b]})

(***************************************************************************)
(* Along a chain the dynasty changes only with a ValidatorSetUpdateTx, and *)
(* then grows; the validators are those the mainchain has for it.          *)
(***************************************************************************)
DynastiesAreInOrder ==
  \A b \in Applied \ {1} :
    LET old == blocks[blocks[b].parent].root
        new == blocks[b].root
    IN  /\ new.dyn > old.dyn \/ (new.dyn = old.dyn /\ ~Includes(b, "update"))
        /\ new.vals = Registered[new.dyn]

(***************************************************************************)
(* Whoever may propose on top of an applied block has an account there:    *)
(* the "should not happen" of addSubchainValidatorSetUpdateTx.             *)
(***************************************************************************)
ProposersHaveAccounts ==
  \A b \in Applied : \A v \in GetNextValidatorSet(b) :
    blocks[b].root.acc[v] # NoAccount

(***************************************************************************)
(* No node applies a block that another node has marked invalid, whatever  *)
(* each of them knows of the mainchain when it handles the block.          *)
(***************************************************************************)
VerdictsAgree ==
  \A m, n \in Nodes : valid[m] \cap invalid[n] = {}

(***************************************************************************)
(* What ProposeBlockTxs makes on the checked view, ApplyBlockTxs accepts   *)
(* on the delivered view of every node, unless a transaction was undecided *)
(* when the block was made.                                                *)
(***************************************************************************)
ProposalsAreAccepted ==
  \A n \in Nodes : \A b \in invalid[n] : blocks[b].honest => blocks[b].undecided

(***************************************************************************)
(* Whatever happened to the last block, the delivered view is the state of *)
(* a block the node has applied, and so is the finalized view.             *)
(***************************************************************************)
FailedBlocksLeaveNoTrace ==
  \A n \in Nodes : \A view \in {delivered[n], finalized[n]} :
    \E b \in valid[n] : blocks[b].root = view.root /\ blocks[b].height = view.height

(***************************************************************************)
(* "Blocks with validator changes must be followed by two direct           *)
(* confirmation blocks." (validateBlock)                                   *)
(***************************************************************************)
UpdatesAreConfirmed ==
  \A b \in Applied \ {1} :
    LET p == blocks[b].parent
    IN  Includes(p, "update") \/ (blocks[p].parent # 0 /\ Includes(blocks[p].parent, "update"))
          => blocks[b].hcc = p
=============================================================================
