----------------------------- MODULE InterChain -----------------------------
(***************************************************************************)
(* Transfers of tokens from the mainchain to the subchain.  The token bank *)
(* of the mainchain logs an event when tokens are locked.  The witness of  *)
(* every validator (interchain/witness) scans the log and keeps the events *)
(* in its cache (interchain/utils).  Its orchestrator                      *)
(* (interchain/orchestrator) asks the token bank of the subchain for the   *)
(* last nonce that was processed and submits the next event to it.  The    *)
(* bank mints vouchers when a majority has submitted the event.            *)
(*                                                                         *)
(* Voucher burns and the way back run through the same loops.  The chains  *)
(* and the banks are external: they do what their users here rely on.      *)
(***************************************************************************)
EXTENDS Integers, Sequences, FiniteSets

CONSTANTS
  Nodes,         \* the validators of the subchain
  Founders,      \* those whose witness has scanned from the beginning
  Kinds,         \* event types: tokens locked are TFuel, TNT20, ...
  ScannedKinds,  \* those getBlockScanStartingHeight looks at
  Targets,       \* the chains tokens are sent to
  Here,          \* the one of them that is this subchain
  Nil,           \* nothing stored, or not known yet
  MaxRange,      \* maxBlockRange
  MinGap,        \* minBlockGap
  Margin,        \* margin
  MaxHeight,     \* bound on the height of the mainchain
  MaxLocks,      \* bound on the number of lock events
  MaxFailures,   \* bound on the queries for events that fail
  MaxCrashes,    \* bound on the crashes of validators
  MaxLost,       \* bound on the transactions lost on the way to the bank
  MaxFaults      \* bound on all of these together

ASSUME InterChainAssumption ==
  /\ Founders \subseteq Nodes
  /\ ScannedKinds \subseteq Kinds /\ ScannedKinds # {}
  /\ Here \in Targets
  /\ {MaxRange, MinGap, Margin, MaxHeight, MaxLocks} \subseteq Nat
  /\ Nil \notin Nat

VARIABLES
  height,       \* the height of the mainchain
  locked,       \* its log of lock events, in order
  known,        \* known[n]: mainchainBlockHeight of the witness
  lastQueried,  \* lastQueried[n]: the height stored by witnessState
  cache,        \* cache[n]: the events in interChainEventCache, as positions
                \* in the log
  reading,      \* reading[n]: the answer of the bank that processNextEvent
                \* works with
  submitted,    \* submitted[n]: the events whose eventProcessedTime is within
                \* the retry threshold
  pool,         \* transactions on their way to the bank
  support,      \* the bank: who submitted what for the next nonce
  minted,       \* minted[k]: the bank: the events minted, in order
  faults        \* how many queries failed, nodes crashed, transactions got lost

vars == <<height, locked, known, lastQueried, cache, reading, submitted, pool,
          support, minted, faults>>

mainchain == <<height, locked>>
witness == <<known, lastQueried>>
orchestrator == <<reading, submitted>>
bank == <<pool, support, minted>>

Init ==
  /\ height = 0
  /\ locked = << >>
  /\ known = [n \in Nodes |-> Nil]
  /\ lastQueried = [n \in Nodes |-> IF n \in Founders THEN 0 ELSE Nil]
  /\ cache = [n \in Nodes |-> {}]
  /\ reading = [n \in Nodes |-> Nil]
  /\ submitted = [n \in Nodes |-> {}]
  /\ pool = {}
  /\ support = {}
  /\ minted = [k \in Kinds |-> << >>]
  /\ faults = [failed |-> 0, crashed |-> 0, lost |-> 0]

(***************************************************************************)
(* What goes wrong, and is bounded only for that.                          *)
(***************************************************************************)
Fault(kind, bound) ==
  /\ faults[kind] < bound
  /\ faults.failed + faults.crashed + faults.lost < MaxFaults
  /\ faults' = [faults EXCEPT ![kind] = @ + 1]

-----------------------------------------------------------------------------
(***************************************************************************)
(* The mainchain.  Nonces count the events of a kind to one chain.         *)
(***************************************************************************)
Earlier(k, t) ==
  {i \in DOMAIN locked : locked[i].kind = k /\ locked[i].target = t}

Lock(k, t) ==
  /\ Len(locked) < MaxLocks
  /\ height + 1 + MinGap <= MaxHeight
  /\ locked' = Append(locked, [kind |-> k, target |-> t, height |-> height + 1,
                               nonce |-> Cardinality(Earlier(k, t)) + 1])
  /\ UNCHANGED <<height, witness, cache, orchestrator, bank, faults>>

NewBlock ==
  /\ height < MaxHeight
  /\ height' = height + 1
  /\ UNCHANGED <<locked, witness, cache, orchestrator, bank, faults>>

(***************************************************************************)
(* InterChainEventIndexKey and InterChainMessageEvent.ID: without the      *)
(* target, the source being the mainchain.                                 *)
(***************************************************************************)
Key(i) == << locked[i].kind, locked[i].nonce >>

\* Mutant of InsertList: events of one key do not replace each other.
InsertAll(c, found) == c \cup found

(***************************************************************************)
(* InsertList: later events replace earlier ones of their key.             *)
(***************************************************************************)
InsertList(c, found) ==
  {i \in c \cup found :
     ~ \E j \in found : j # i /\ Key(j) = Key(i) /\ (i \in found => i < j)}

-----------------------------------------------------------------------------
(***************************************************************************)
(* The witness.                                                            *)
(***************************************************************************)
Processed(k) == Len(minted[k])

(***************************************************************************)
(* getMainchainMaxProcessedNonceEventHeight.                               *)
(***************************************************************************)
MaxProcessedNonceEventHeight(k) ==
  IF Processed(k) = 0 THEN height
                      ELSE locked[minted[k][Processed(k)]].height

(***************************************************************************)
(* getBlockScanStartingHeight, without failing queries.                    *)
(***************************************************************************)
BlockScanStartingHeight ==
  LET heights == {MaxProcessedNonceEventHeight(k) : k \in ScannedKinds}
      least == CHOOSE h \in heights : \A g \in heights : h <= g
  IN  IF least > Margin THEN least - Margin ELSE 0

(***************************************************************************)
(* Where a scan starts.  The scan of a node that has none stored starts at *)
(* 0 if a query for nonces fails.                                          *)
(***************************************************************************)
FromBlock(n) ==
  IF lastQueried[n] = Nil THEN {0, BlockScanStartingHeight} ELSE {lastQueried[n]}

(***************************************************************************)
(* calculateToBlock for a chain whose last known height is h.              *)
(***************************************************************************)
ToBlock(from, h) ==
  IF h - from > MaxRange THEN from + MaxRange ELSE h - MinGap

(***************************************************************************)
(* QueryInterChainEventLog, when it succeeds.                              *)
(***************************************************************************)
EventsBetween(from, to) ==
  {i \in DOMAIN locked : from <= locked[i].height /\ locked[i].height <= to}

(***************************************************************************)
(* update, as far as the mainchain goes, with the height h: the events     *)
(* found are cached and the end of the range is stored as the last queried *)
(* height, also if the query failed.  A negative one cannot be stored.     *)
(***************************************************************************)
Update(n, h, ok) ==
  /\ h # Nil
  /\ IF ok THEN UNCHANGED faults ELSE Fault("failed", MaxFailures)
  /\ \E from \in FromBlock(n) :
       LET to == ToBlock(from, h)
           found == IF ok THEN EventsBetween(from, to) ELSE {}
       IN  /\ cache' = [cache EXCEPT ![n] = InsertList(@, found)]
           /\ lastQueried' =
                [lastQueried EXCEPT ![n] = IF to >= 0 THEN to ELSE from]
  /\ known' = [known EXCEPT ![n] = h]
  /\ UNCHANGED <<mainchain, orchestrator, bank>>

\* Mutant of Crash: an update stores the height before it caches the events.
CrashAfterStoringHeight(n) ==
  /\ Fault("crashed", MaxCrashes)
  /\ \E from \in FromBlock(n), h \in {known[n], height} \ {Nil} :
       lastQueried' = [lastQueried EXCEPT ![n] = ToBlock(from, h)]
  /\ known' = [known EXCEPT ![n] = Nil]
  /\ reading' = [reading EXCEPT ![n] = Nil]
  /\ submitted' = [submitted EXCEPT ![n] = {}]
  /\ UNCHANGED <<mainchain, cache, bank>>

(***************************************************************************)
(* A validator stops and starts again: the heights and times in memory are *)
(* lost, and an update may have stored where it starts, and cached a part  *)
(* of what it found.                                                       *)
(***************************************************************************)
Crash(n) ==
  /\ Fault("crashed", MaxCrashes)
  /\ \/ UNCHANGED <<cache, lastQueried>>
     \/ \E from \in FromBlock(n), h \in {known[n], height} \ {Nil} :
          \E last \in {0} \cup EventsBetween(from, ToBlock(from, h)) :
            /\ cache' = [cache EXCEPT ![n] = InsertList(@,
                 {i \in EventsBetween(from, ToBlock(from, h)) : i <= last})]
            /\ lastQueried' = [lastQueried EXCEPT ![n] = from]
  /\ known' = [known EXCEPT ![n] = Nil]
  /\ reading' = [reading EXCEPT ![n] = Nil]
  /\ submitted' = [submitted EXCEPT ![n] = {}]
  /\ UNCHANGED <<mainchain, bank>>

-----------------------------------------------------------------------------
(***************************************************************************)
(* The orchestrator.  processNextTokenLockEvent asks the bank for the last *)
(* processed nonce of a kind; the answer may be old when it is used.       *)
(***************************************************************************)
ProcessNextTokenLockEvent(n, k) ==
  /\ reading[n] = Nil
  /\ reading' = [reading EXCEPT ![n] = << k, Processed(k) >>]
  /\ UNCHANGED <<mainchain, witness, cache, submitted, bank, faults>>

\* Mutant of ProcessNextEvent: the target of the event is not compared.
ProcessNextEventToAnyChain(n, ok) ==
  /\ reading[n] # Nil
  /\ LET k == reading[n][1]
         due == {i \in cache[n] : Key(i) = << k, reading[n][2] + 1 >>
                                 /\ Key(i) \notin submitted[n]}
     IN  IF ok THEN /\ submitted' = [submitted EXCEPT ![n] = @ \cup
                                       {Key(i) : i \in due}]
                    /\ pool' = pool \cup {[node |-> n, event |-> i] : i \in due}
               ELSE UNCHANGED <<submitted, pool>>
  /\ reading' = [reading EXCEPT ![n] = Nil]
  /\ UNCHANGED <<mainchain, witness, cache, support, minted, faults>>

\* Mutant of ProcessNextEvent: an event is deleted when it has been submitted.
ProcessNextEventOnce(n, ok) ==
  /\ reading[n] # Nil
  /\ LET due == {i \in cache[n] :
                   Key(i) = << reading[n][1], reading[n][2] + 1 >>}
     IN  IF ok THEN /\ cache' = [cache EXCEPT ![n] = @ \ due]
                    /\ pool' = pool \cup {[node |-> n, event |-> i] : i \in due}
               ELSE UNCHANGED <<cache, pool>>
  /\ reading' = [reading EXCEPT ![n] = Nil]
  /\ UNCHANGED <<mainchain, witness, submitted, support, minted, faults>>

(***************************************************************************)
(* processNextEvent: the event with the last processed nonce is deleted,   *)
(* and the next one is submitted unless that was done a short while ago.   *)
(* callTargetContract fails, with ok = FALSE, or does nothing for events   *)
(* to another chain, which counts as success.                              *)
(***************************************************************************)
ProcessNextEvent(n, ok) ==
  /\ reading[n] # Nil
  /\ LET k == reading[n][1]
         nonce == reading[n][2]
         left == {i \in cache[n] : Key(i) # << k, nonce >>}
         due == {i \in left : Key(i) = << k, nonce + 1 >>
                              /\ Key(i) \notin submitted[n]}
     IN  /\ cache' = [cache EXCEPT ![n] = left]
         /\ IF ok THEN /\ submitted' = [submitted EXCEPT ![n] = @ \cup
                                          {Key(i) : i \in due}]
                       /\ pool' = pool \cup {[node |-> n, event |-> i] :
                                    i \in {j \in due : locked[j].target = Here}}
                  ELSE UNCHANGED <<submitted, pool>>
  /\ reading' = [reading EXCEPT ![n] = Nil]
  /\ UNCHANGED <<mainchain, witness, support, minted, faults>>

(***************************************************************************)
(* The retry threshold has passed since the event was submitted.           *)
(***************************************************************************)
RetryThresholdPasses(n, key) ==
  /\ key \in submitted[n]
  /\ submitted' = [submitted EXCEPT ![n] = @ \ {key}]
  /\ UNCHANGED <<mainchain, witness, cache, reading, bank, faults>>

-----------------------------------------------------------------------------
(***************************************************************************)
(* The bank of the subchain executes a call of MintVouchers.  Only calls   *)
(* for the next nonce count, and two thirds of the validators are needed.  *)
(***************************************************************************)
MintVouchers(tx) ==
  LET i == tx.event
      k == locked[i].kind
      supporters == {n \in Nodes : [node |-> n, event |-> i] \in support \cup {tx}}
  IN
  /\ tx \in pool
  /\ pool' = pool \ {tx}
  /\ IF locked[i].nonce # Processed(k) + 1
       THEN UNCHANGED <<support, minted>>
       ELSE IF 3 * Cardinality(supporters) > 2 * Cardinality(Nodes)
              THEN /\ minted' = [minted EXCEPT ![k] = Append(@, i)]
                   /\ support' = {s \in support : locked[s.event].kind # k}
              ELSE /\ support' = support \cup {tx}
                   /\ UNCHANGED minted
  /\ UNCHANGED <<mainchain, witness, cache, orchestrator, faults>>

LoseTransaction(tx) ==
  /\ Fault("lost", MaxLost)
  /\ pool' = pool \ {tx}
  /\ UNCHANGED <<mainchain, witness, cache, orchestrator, support, minted>>

Next ==
  \/ \E k \in Kinds, t \in Targets : Lock(k, t)
  \/ NewBlock
  \/ \E n \in Nodes :
       \/ \E h \in {known[n], height}, ok \in BOOLEAN : Update(n, h, ok)
       \/ Crash(n)
       \/ \E k \in Kinds : ProcessNextTokenLockEvent(n, k)
       \/ \E ok \in BOOLEAN : ProcessNextEvent(n, ok)
       \/ \E key \in submitted[n] : RetryThresholdPasses(n, key)
  \/ \E tx \in pool : MintVouchers(tx) \/ LoseTransaction(tx)

Spec == Init /\ [][Next]_vars

(***************************************************************************)
(* The tickers of both loops run forever, queries and calls succeed again  *)
(* and again, and the chains grow and include the transactions they have.  *)
(***************************************************************************)
FairSpec ==
  /\ Spec
  /\ WF_vars(NewBlock)
  /\ \A n \in Nodes :
       /\ WF_vars(Update(n, height, TRUE))
       /\ \A k \in Kinds : SF_vars(ProcessNextTokenLockEvent(n, k))
       /\ SF_vars(ProcessNextEvent(n, TRUE))
       /\ \A k \in Kinds, nonce \in 1 .. MaxLocks :
            WF_vars(RetryThresholdPasses(n, << k, nonce >>))
       /\ \A i \in 1 .. MaxLocks :
            WF_vars(MintVouchers([node |-> n, event |-> i]))

-----------------------------------------------------------------------------
Events == DOMAIN locked

(***************************************************************************)
(* Types; the cache of a node holds one event for a key.                   *)
(***************************************************************************)
TypeOK ==
  /\ height \in 0 .. MaxHeight
  /\ locked \in Seq([kind : Kinds, target : Targets, height : 1 .. MaxHeight,
                     nonce : 1 .. MaxLocks])
  /\ known \in [Nodes -> 0 .. MaxHeight \cup {Nil}]
  /\ lastQueried \in [Nodes -> 0 .. MaxHeight \cup {Nil}]
  /\ cache \in [Nodes -> SUBSET Events]
  /\ \A n \in Nodes : \A i, j \in cache[n] : Key(i) = Key(j) => i = j
  /\ reading \in [Nodes -> (Kinds \X (0 .. MaxLocks)) \cup {Nil}]
  /\ submitted \in [Nodes -> SUBSET (Kinds \X (1 .. MaxLocks))]
  /\ pool \cup support \subseteq [node : Nodes, event : Events]
  /\ minted \in [Kinds -> Seq(Events)]

(***************************************************************************)
(* What the orchestrators make the bank mint are the locks sent to this    *)
(* chain, each one once and in the order of their nonces, whatever they    *)
(* submit twice, late, or from a cache in which events of other chains     *)
(* have replaced some.                                                     *)
(***************************************************************************)
MintedAsLocked ==
  \A k \in Kinds : \A m \in 1 .. Processed(k) :
    LET e == locked[minted[k][m]]
    IN  e.kind = k /\ e.target = Here /\ e.nonce = m

(***************************************************************************)
(* No event is passed over: one that has not been minted yet is in the     *)
(* cache of every witness that is done with the block it is in.            *)
(***************************************************************************)
NothingMissed ==
  \A n \in Nodes : \A i \in Events :
    /\ locked[i].target = Here
    /\ locked[i].nonce > Processed(locked[i].kind)
    /\ lastQueried[n] # Nil /\ lastQueried[n] > locked[i].height
    => i \in cache[n]

(***************************************************************************)
(* All tokens locked for this chain are minted on it, after any crash of a *)
(* validator and any loss of a transaction.                                *)
(***************************************************************************)
EveryLockIsMinted ==
  \A k \in Kinds, nonce \in 1 .. MaxLocks :
    Cardinality(Earlier(k, Here)) >= nonce ~> Processed(k) >= nonce

-----------------------------------------------------------------------------
(***************************************************************************)
(* The inductive invariants behind the safety properties.                  *)
(***************************************************************************)

(***************************************************************************)
(* What is on its way to the bank, or counted there, is for this chain.    *)
(***************************************************************************)
SentHere == \A tx \in pool \cup support : locked[tx.event].target = Here

IndInv == TypeOK /\ SentHere /\ MintedAsLocked

(***************************************************************************)
(* The log: nonces tell the events of a kind to one chain apart.           *)
(***************************************************************************)
LogInv ==
  /\ \A i \in Events : locked[i].height <= height + 1
  /\ \A k \in Kinds, t \in Targets : \A i \in Earlier(k, t) :
       locked[i].nonce <= Cardinality(Earlier(k, t))
  /\ \A i, j \in Events : Key(i) = Key(j) /\ locked[i].target = locked[j].target => i = j

(***************************************************************************)
(* What a node read from the chains is not ahead of them.                  *)
(***************************************************************************)
ReadInv ==
  \A n \in Nodes :
    /\ known[n] # Nil => known[n] <= height
    /\ reading[n] # Nil => reading[n][2] <= Processed(reading[n][1])

(***************************************************************************)
(* What NothingMissed needs: every witness has scanned from the beginning, *)
(* no query for events fails, and all tokens are sent to this chain.       *)
(***************************************************************************)
Undisturbed == Founders = Nodes /\ MaxFailures = 0 /\ Targets = {Here}

(***************************************************************************)
(* The scans under these conditions: they never end above the height of    *)
(* the chain, and the events below their end are cached until they are     *)
(* minted.                                                                 *)
(***************************************************************************)
ScanInv ==
  /\ faults \in [failed : Nat, crashed : Nat, lost : Nat]
  /\ \A n \in Nodes :
       /\ lastQueried[n] # Nil /\ lastQueried[n] <= height
       /\ \A i \in Events :
            /\ locked[i].height <= lastQueried[n]
            /\ locked[i].nonce > Processed(locked[i].kind)
            => i \in cache[n]
=============================================================================
