------------------------------ MODULE Mempool ------------------------------
(***************************************************************************)
(* The mempool (mempool/mempool.go) with its bookkeeper                    *)
(* (mempool/tx_bookkeeper.go), and the screened view of the ledger that    *)
(* both the insertion and the update of the pool execute transactions on   *)
(* (ledger/ledger.go, ledger/state/state.go).                              *)
(*                                                                         *)
(* A transaction is its account and sequence number; it is valid on a view *)
(* if its number is the next one of the account.  InsertTransaction, Reap  *)
(* and UpdateUnsafe exclude each other by the mutex of the mempool.  The   *)
(* view is replaced under the lock of the ledger only, also while          *)
(* UpdateUnsafe is at work, which ApplyBlockTxs starts as a goroutine.     *)
(* The blocks applied form one branch.                                     *)
(***************************************************************************)
EXTENDS Integers, Sequences, FiniteSets

CONSTANTS
  Accounts,    \* the accounts
  MaxSeq,      \* bound on sequence numbers
  MaxInserted, \* bound on the number of transactions inserted
  MaxRecords,  \* maxNumTxs of the bookkeeper
  MaxReap,     \* MaxNumRegularTxsPerBlock
  MaxBlocks,   \* bound on the number of blocks applied
  MaxExpired,  \* bound on the number of records that time out
  Idle         \* no update holds the mutex

ASSUME MempoolAssumption ==
  {MaxSeq, MaxInserted, MaxReap, MaxBlocks, MaxExpired} \subseteq Nat /\ MaxRecords \in Nat \ {0}

Txs == [account : Accounts, seq : 1 .. MaxSeq]

VARIABLES
  pool,       \* pool[t]: the copies of t in the groups of candidateTxs
  size,       \* Mempool.size
  records,    \* the bookkeeper's list, oldest first
  status,     \* status[t]: the status in its map; "unknown" without a record
  screened,   \* screened[a]: the sequence number of a in the screened view
  committed,  \* committed[a]: the sequence number of a in the last block
  updates,    \* the transactions of blocks whose UpdateUnsafe has not begun
  update,     \* UpdateUnsafe: what it has to screen and found invalid, or Idle
  taken,      \* transactions reaped or removed as committed (a history)
  count       \* insertions, blocks applied and records expired so far

vars == <<pool, size, records, status, screened, committed, updates, update,
          taken, count>>

bookkeeper == <<records, status>>
ledger == <<screened, committed, updates>>

Init ==
  /\ pool = [t \in Txs |-> 0]
  /\ size = 0
  /\ records = << >>
  /\ status = [t \in Txs |-> "unknown"]
  /\ screened = [a \in Accounts |-> 0]
  /\ committed = [a \in Accounts |-> 0]
  /\ updates = << >>
  /\ update = Idle
  /\ taken = {}
  /\ count = [inserted |-> 0, blocks |-> 0, expired |-> 0]

-----------------------------------------------------------------------------
Pooled == {t \in Txs : pool[t] > 0}

(***************************************************************************)
(* ScreenTx: the transaction is checked against the screened view, and     *)
(* executed on it.                                                         *)
(***************************************************************************)
IsNext(t) == t.seq = screened[t.account] + 1

ScreenTx(t) ==
  screened' = IF IsNext(t) THEN [screened EXCEPT ![t.account] = t.seq] ELSE screened

(***************************************************************************)
(* record: the oldest record gives way when there are too many.            *)
(***************************************************************************)
Record(t) ==
  LET full == Len(records) >= MaxRecords
  IN  /\ records' = Append(IF full THEN Tail(records) ELSE records, t)
      /\ status' = [s \in Txs |->
                      IF s = t THEN "pending"
                      ELSE IF full /\ s = Head(records) THEN "unknown"
                      ELSE status[s]]

(***************************************************************************)
(* InsertTransaction, for a transaction that is not rejected.              *)
(***************************************************************************)
InsertTransaction(t) ==
  /\ update = Idle
  /\ status[t] = "unknown"
  /\ IsNext(t)
  /\ count.inserted < MaxInserted
  /\ ScreenTx(t)
  /\ Record(t)
  /\ pool' = [pool EXCEPT ![t] = @ + 1]
  /\ size' = size + 1
  /\ taken' = taken \ {t}
  /\ count' = [count EXCEPT !.inserted = @ + 1]
  /\ UNCHANGED <<committed, updates, update>>

(***************************************************************************)
(* removeOutdatedTxsUnsafe, which every access to the records begins with, *)
(* removes a record that is older than maxTxLife.                          *)
(***************************************************************************)
RemoveOutdatedTx ==
  /\ records # << >>
  /\ count.expired < MaxExpired
  /\ records' = Tail(records)
  /\ status' = [status EXCEPT ![Head(records)] = "unknown"]
  /\ count' = [count EXCEPT !.expired = @ + 1]
  /\ UNCHANGED <<pool, size, ledger, update, taken>>

(***************************************************************************)
(* What ReapUnsafe may pop: transactions of any accounts, the lowest       *)
(* sequence numbers of each first, as many as there are up to MaxReap and  *)
(* the size.  Which accounts come first is up to the gas prices.           *)
(***************************************************************************)
Total(p) ==
  Cardinality(UNION {{<< t, i >> : i \in 1 .. p[t]} : t \in Txs})

Capped(n, m) == IF n <= m THEN n ELSE m

Reapable ==
  {p \in [Txs -> 0 .. MaxInserted] :
     /\ \A t \in Txs : p[t] <= pool[t]
     /\ \A t, s \in Txs :
          t.account = s.account /\ t.seq < s.seq /\ p[s] > 0 => p[t] = pool[t]
     /\ Total(p) = Capped(Total(pool), Capped(size, MaxReap))}

(***************************************************************************)
(* ReapUnsafe: of the transactions popped, those that have a record are    *)
(* returned, and these are subtracted from the size.                       *)
(***************************************************************************)
ReapUnsafe ==
  /\ update = Idle
  /\ Pooled # {}
  /\ \E p \in Reapable :
       /\ pool' = [t \in Txs |-> pool[t] - p[t]]
       /\ size' = size -
            Total([t \in Txs |-> IF status[t] = "unknown" THEN 0 ELSE p[t]])
       /\ taken' = taken \cup {t \in Txs : p[t] > 0}
  /\ UNCHANGED <<bookkeeper, ledger, update, count>>

-----------------------------------------------------------------------------
(***************************************************************************)
(* ApplyBlockTxs for a block that moves the accounts to the sequence       *)
(* numbers in "to": the views start anew from what is committed, and an    *)
(* update of the mempool is started.                                       *)
(***************************************************************************)
ApplyBlockTxs(to) ==
  /\ count.blocks < MaxBlocks
  /\ \A a \in Accounts : committed[a] <= to[a]
  /\ committed' = to
  /\ screened' = to
  /\ updates' = Append(updates, {t \in Txs : /\ committed[t.account] < t.seq
                                            /\ t.seq <= to[t.account]})
  /\ count' = [count EXCEPT !.blocks = @ + 1]
  /\ UNCHANGED <<pool, size, bookkeeper, update, taken>>

(***************************************************************************)
(* ResetState, before a block is proposed or applied, and when one fails.  *)
(***************************************************************************)
ResetState ==
  /\ screened' = committed
  /\ UNCHANGED <<pool, size, bookkeeper, committed, updates, update, taken, count>>

\* Mutant of RemoveTxs: the number given is subtracted, not the number removed.
RemoveTxsGiven(txs) ==
  /\ pool' = [t \in Txs |-> IF t \in txs THEN 0 ELSE pool[t]]
  /\ size' = size - Cardinality(txs)

(***************************************************************************)
(* removeTxs: all copies of the given transactions go.                     *)
(***************************************************************************)
RemoveTxs(txs) ==
  /\ pool' = [t \in Txs |-> IF t \in txs THEN 0 ELSE pool[t]]
  /\ size' = size - Total([t \in Txs |-> IF t \in txs THEN pool[t] ELSE 0])

(***************************************************************************)
(* UpdateUnsafe begins, for any of the blocks it was started for: the      *)
(* transactions of the block are removed.  What is left is to be screened. *)
(***************************************************************************)
BeginUpdate(i) ==
  /\ update = Idle
  /\ RemoveTxs(updates[i])
  /\ update' = [left |-> pool', invalid |-> {}]
  /\ taken' = taken \cup updates[i]
  /\ updates' = SubSeq(updates, 1, i - 1) \o SubSeq(updates, i + 1, Len(updates))
  /\ UNCHANGED <<bookkeeper, screened, committed, count>>

\* Mutant of ScreenPooledTx: a transaction that fails is not marked.
ScreenWithoutMark(t) ==
  /\ update # Idle
  /\ update.left[t] > 0
  /\ LET ok == status[t] # "unknown" /\ IsNext(t)
     IN  update' = [left    |-> [update.left EXCEPT ![t] = @ - 1],
                    invalid |-> update.invalid \cup (IF ok THEN {} ELSE {t})]
  /\ ScreenTx(t)
  /\ UNCHANGED <<pool, size, bookkeeper, committed, updates, taken, count>>

(***************************************************************************)
(* UpdateUnsafe screens the next transaction, one without a record being   *)
(* invalid at once.  Groups are in the order of their priority queues: the *)
(* lowest sequence number comes first, the others in any order.            *)
(***************************************************************************)
ScreenPooledTx(t) ==
  /\ update # Idle
  /\ update.left[t] > 0
  /\ \/ \E s \in Txs : s.account = t.account /\ update.left[s] < pool[s]
     \/ \A s \in Pooled : s.account = t.account => t.seq <= s.seq
  /\ LET known == status[t] # "unknown"
         ok == known /\ IsNext(t)
     IN  /\ update' = [left    |-> [update.left EXCEPT ![t] = @ - 1],
                       invalid |-> update.invalid \cup (IF ok THEN {} ELSE {t})]
         /\ status' = IF known /\ ~ok THEN [status EXCEPT ![t] = "abandoned"]
                                      ELSE status
         /\ IF known THEN ScreenTx(t) ELSE UNCHANGED screened
  /\ UNCHANGED <<pool, size, records, committed, updates, taken, count>>

EndUpdate ==
  /\ update # Idle
  /\ \A t \in Txs : update.left[t] = 0
  /\ RemoveTxs(update.invalid)
  /\ update' = Idle
  /\ UNCHANGED <<bookkeeper, ledger, taken, count>>

Next ==
  \/ \E t \in Txs : InsertTransaction(t) \/ ScreenPooledTx(t)
  \/ RemoveOutdatedTx
  \/ ReapUnsafe
  \/ \E to \in [Accounts -> 0 .. MaxSeq] : ApplyBlockTxs(to)
  \/ ResetState
  \/ \E i \in DOMAIN updates : BeginUpdate(i)
  \/ EndUpdate

Spec == Init /\ [][Next]_vars

-----------------------------------------------------------------------------
(***************************************************************************)
(* Types; the list and the map of the bookkeeper hold the same records.    *)
(***************************************************************************)
TypeOK ==
  /\ pool \in [Txs -> 0 .. MaxInserted]
  /\ size \in Nat
  /\ records \in Seq(Txs)
  /\ status \in [Txs -> {"unknown", "pending", "abandoned"}]
  /\ screened \in [Accounts -> 0 .. MaxSeq]
  /\ committed \in [Accounts -> 0 .. MaxSeq]
  /\ updates \in Seq(SUBSET Txs)
  /\ update = Idle \/ update \in [left : [Txs -> 0 .. MaxInserted], invalid : SUBSET Txs]
  /\ {t \in Txs : status[t] # "unknown"} = {records[i] : i \in DOMAIN records}
  /\ Len(records) <= MaxRecords

(***************************************************************************)
(* The size, which also limits how much Reap takes, never falls below the  *)
(* number of transactions in the pool: Reap passes over none of them.      *)
(***************************************************************************)
SizeCoversPool == size >= Total(pool)

(***************************************************************************)
(* The status GetTransactionStatus answers clients with is true: what is   *)
(* pending is in the pool, or was taken for a block, or removed because it *)
(* was in one; what is abandoned is in the pool no more.                   *)
(***************************************************************************)
StatusIsTrue ==
  update = Idle =>
    \A t \in Txs : /\ status[t] = "pending" => t \in Pooled \cup taken
                   /\ status[t] = "abandoned" => t \notin Pooled

(***************************************************************************)
(* UpdateUnsafe abandons obsolete transactions only: none whose sequence   *)
(* number follows the committed ones, or those of other transactions in    *)
(* the pool that do.                                                       *)
(***************************************************************************)
Executable(t) ==
  /\ committed[t.account] < t.seq
  /\ \A n \in committed[t.account] + 1 .. t.seq :
       [account |-> t.account, seq |-> n] \in Pooled

OnlyObsoleteAbandoned ==
  [][\A t \in Txs :
       status'[t] = "abandoned" /\ status[t] # "abandoned" => ~Executable(t)]_vars
=============================================================================
