-------------------------- MODULE InterChainProofs --------------------------
(***************************************************************************)
(* Proofs about InterChain, for all sets of validators, kinds of tokens    *)
(* and chains, and all bounds.                                             *)
(***************************************************************************)
EXTENDS InterChain, FiniteSetTheorems, WellFoundedInduction, TLAPS

USE ZenonT(30)

EventType == [kind : Kinds, target : Targets, height : 1 .. MaxHeight, nonce : 1 .. MaxLocks]

(***************************************************************************)
(* The events in the log, and how many of a kind there can be.             *)
(***************************************************************************)
LEMMA LogType ==
  ASSUME TypeOK
  PROVE  /\ locked \in Seq(EventType) /\ Len(locked) \in Nat /\ Events = 1 .. Len(locked)
         /\ \A i \in Events : locked[i] \in EventType
<1>1. locked \in Seq(EventType)
  BY DEF TypeOK, EventType
<1> QED
  BY <1>1, SMTT(30) DEF Events

(***************************************************************************)
(* The earlier events of a kind and target are finite in number.           *)
(***************************************************************************)
LEMMA EarlierSize ==
  ASSUME TypeOK, NEW k, NEW t
  PROVE  /\ IsFiniteSet(Earlier(k, t)) /\ Earlier(k, t) \subseteq Events
         /\ Cardinality(Earlier(k, t)) \in Nat
         /\ Cardinality(Earlier(k, t)) <= Len(locked)
<1>1. Len(locked) \in Nat /\ Events = 1 .. Len(locked)
  BY LogType
<1>2. IsFiniteSet(Events) /\ Cardinality(Events) = Len(locked)
  BY <1>1, FS_Interval, SMTT(30)
<1>3. Earlier(k, t) \in SUBSET Events
  BY DEF Earlier, Events
<1>4. IsFiniteSet(Earlier(k, t)) /\ Cardinality(Earlier(k, t)) <= Cardinality(Events)
  BY <1>2, <1>3, FS_Subset
<1> QED
  BY <1>2, <1>3, <1>4, FS_CardinalityType

(***************************************************************************)
(* What was minted of a kind is a sequence of lock events.                 *)
(***************************************************************************)
LEMMA MintedType ==
  ASSUME TypeOK, NEW k \in Kinds
  PROVE  /\ minted[k] \in Seq(Events) /\ Processed(k) \in Nat
         /\ \A m \in 1 .. Processed(k) : minted[k][m] \in Events
  BY SMTT(30) DEF TypeOK, Processed

(***************************************************************************)
(* The bank has minted no more events than there are nonces.               *)
(***************************************************************************)
LEMMA ProcessedBound ==
  ASSUME IndInv, NEW k \in Kinds
  PROVE  Processed(k) \in 0 .. MaxLocks
<1>1. Processed(k) \in Nat /\ \A m \in 1 .. Processed(k) : minted[k][m] \in Events
  BY MintedType DEF IndInv
<1>2. CASE Processed(k) = 0
  BY <1>2, InterChainAssumption, SMTT(30)
<1>3. CASE Processed(k) # 0
  <2>1. Processed(k) \in 1 .. Processed(k)
    BY <1>1, <1>3, SMTT(30)
  <2>2. locked[minted[k][Processed(k)]].nonce = Processed(k)
    BY <2>1 DEF IndInv, MintedAsLocked
  <2>3. locked[minted[k][Processed(k)]] \in EventType
    BY <1>1, <2>1, LogType DEF IndInv
  <2> QED
    BY <2>2, <2>3, SMTT(30) DEF EventType
<1> QED
  BY <1>2, <1>3

-----------------------------------------------------------------------------
(***************************************************************************)
(* The range a witness scans.                                              *)
(***************************************************************************)
LEMMA LeastOf ==
  ASSUME NEW T, T \subseteq Nat, T # {}
  PROVE  (CHOOSE x \in T : \A y \in T : x <= y) \in T
<1> DEFINE Below == {p \in Nat \X Nat : p[1] < p[2]}
<1>1. Below = OpToRel(<, Nat)
  BY DEF OpToRel
<1>2. IsWellFoundedOn(Below, Nat)
  BY <1>1, NatLessThanWellFounded
<1> HIDE DEF Below
<1>3. PICK x \in T : \A y \in T : <<y, x>> \notin Below
  BY <1>2, WFMin
<1>4. \A y \in T : ~ (y < x)
  BY <1>3 DEF Below
<1>5. \A y \in T : x <= y
  BY <1>4, SMTT(30)
<1> QED
  BY <1>5

(***************************************************************************)
(* A scan starts at a block that exists.                                   *)
(***************************************************************************)
LEMMA ScanStart ==
  ASSUME TypeOK, NEW n \in Nodes, NEW from \in FromBlock(n)
  PROVE  from \in 0 .. MaxHeight
<1> DEFINE heights == {MaxProcessedNonceEventHeight(k) : k \in ScannedKinds}
           least == CHOOSE h \in heights : \A g \in heights : h <= g
<1>1. MaxHeight \in Nat /\ Margin \in Nat
  BY InterChainAssumption
<1>2. ASSUME NEW k \in ScannedKinds
      PROVE  MaxProcessedNonceEventHeight(k) \in 0 .. MaxHeight
  <2>1. k \in Kinds
    BY InterChainAssumption
  <2>2. Processed(k) \in Nat /\ \A m \in 1 .. Processed(k) : minted[k][m] \in Events
    BY <2>1, MintedType
  <2>3. Processed(k) # 0 => locked[minted[k][Processed(k)]] \in EventType
    BY <2>2, LogType, SMTT(30)
  <2> QED
    BY <1>1, <2>3, SMTT(30) DEF MaxProcessedNonceEventHeight, EventType, TypeOK
<1>3. heights \subseteq 0 .. MaxHeight /\ heights # {}
  BY <1>2, InterChainAssumption
<1>4. least \in 0 .. MaxHeight
  <2>1. heights \subseteq Nat
    BY <1>1, <1>3, SMTT(30)
  <2>2. least \in heights
    <3> HIDE DEF heights
    <3> QED
      BY <1>3, <2>1, LeastOf
  <2> QED
    BY <1>3, <2>2
<1>5. BlockScanStartingHeight \in 0 .. MaxHeight
  <2>1. BlockScanStartingHeight = IF least > Margin THEN least - Margin ELSE 0
    BY DEF BlockScanStartingHeight
  <2> HIDE DEF least
  <2> QED
    BY <1>1, <1>4, <2>1, SMTT(30)
<1>6. lastQueried[n] \in 0 .. MaxHeight \cup {Nil}
  BY DEF TypeOK
<1> QED
  BY <1>1, <1>5, <1>6, SMTT(30) DEF FromBlock

(***************************************************************************)
(* The end of a scan is not above the height it was computed from, unless  *)
(* its start is.                                                           *)
(***************************************************************************)
LEMMA ScanEnd ==
  ASSUME NEW from \in Nat, NEW h \in Nat
  PROVE  ToBlock(from, h) \in Int /\ ToBlock(from, h) <= h
  BY InterChainAssumption, SMTT(30) DEF ToBlock

(***************************************************************************)
(* InsertList keeps one event of a key.                                    *)
(***************************************************************************)
LEMMA InsertListType ==
  ASSUME NEW c, NEW found, found \subseteq Int,
         \A i, j \in c : Key(i) = Key(j) => i = j
  PROVE  /\ InsertList(c, found) \subseteq c \cup found
         /\ \A i, j \in InsertList(c, found) : Key(i) = Key(j) => i = j
<1>1. InsertList(c, found) \subseteq c \cup found
  BY DEF InsertList
<1>2. ASSUME NEW i \in InsertList(c, found), NEW j \in InsertList(c, found),
             Key(i) = Key(j), i # j
      PROVE  FALSE
  <2>1. /\ i \in c \cup found /\ j \in c \cup found
        /\ ~ \E l \in found : l # i /\ Key(l) = Key(i) /\ (i \in found => i < l)
        /\ ~ \E l \in found : l # j /\ Key(l) = Key(j) /\ (j \in found => j < l)
    BY DEF InsertList
  <2>2. CASE i \in found /\ j \in found
    BY <1>2, <2>1, <2>2, SMTT(30)
  <2>3. CASE i \notin found \/ j \notin found
    BY <1>2, <2>1, <2>3
  <2> QED
    BY <2>2, <2>3
<1> QED
  BY <1>1, <1>2

-----------------------------------------------------------------------------
(***************************************************************************)
(* The invariant holds before anything was locked.                         *)
(***************************************************************************)
LEMMA InitIndInv == Init => IndInv
<1> SUFFICES ASSUME Init PROVE IndInv
  OBVIOUS
<1>1. MaxHeight \in Nat
  BY InterChainAssumption
<1>2. locked = << >> /\ minted = [k \in Kinds |-> << >>] /\ pool = {} /\ support = {}
  BY DEF Init
<1>3. \A k \in Kinds : Processed(k) = 0
  BY <1>2 DEF Processed
<1>4. TypeOK
  <2>1. height \in 0 .. MaxHeight
    BY <1>1, SMTT(30) DEF Init
  <2>2. /\ known \in [Nodes -> 0 .. MaxHeight \cup {Nil}]
        /\ lastQueried \in [Nodes -> 0 .. MaxHeight \cup {Nil}]
    BY <1>1, SMTT(30) DEF Init
  <2>3. /\ cache \in [Nodes -> SUBSET Events]
        /\ \A n \in Nodes : \A i, j \in cache[n] : Key(i) = Key(j) => i = j
    BY DEF Init
  <2>4. /\ reading \in [Nodes -> (Kinds \X (0 .. MaxLocks)) \cup {Nil}]
        /\ submitted \in [Nodes -> SUBSET (Kinds \X (1 .. MaxLocks))]
    BY DEF Init
  <2>5. minted \in [Kinds -> Seq(Events)]
    BY <1>2, SMTT(30)
  <2>6. locked \in Seq([kind : Kinds, target : Targets, height : 1 .. MaxHeight,
                        nonce : 1 .. MaxLocks])
    BY <1>2, SMTT(30)
  <2> QED
    BY <1>2, <2>1, <2>2, <2>3, <2>4, <2>5, <2>6 DEF TypeOK
<1>5. SentHere /\ MintedAsLocked
  BY <1>2, <1>3, SMTT(30) DEF SentHere, MintedAsLocked
<1> QED
  BY <1>4, <1>5 DEF IndInv

(***************************************************************************)
(* A step that neither locks nor mints tokens keeps the invariant when it  *)
(* keeps the types and sends events for this chain only.                   *)
(***************************************************************************)
LEMMA NodeStep ==
  ASSUME IndInv, UNCHANGED <<locked, minted>>, height' \in 0 .. MaxHeight,
         known' \in [Nodes -> 0 .. MaxHeight \cup {Nil}],
         lastQueried' \in [Nodes -> 0 .. MaxHeight \cup {Nil}],
         cache' \in [Nodes -> SUBSET Events],
         \A n \in Nodes : \A i, j \in cache'[n] : Key(i) = Key(j) => i = j,
         reading' \in [Nodes -> (Kinds \X (0 .. MaxLocks)) \cup {Nil}],
         submitted' \in [Nodes -> SUBSET (Kinds \X (1 .. MaxLocks))],
         pool' \cup support' \subseteq [node : Nodes, event : Events],
         \A tx \in pool' \cup support' : locked[tx.event].target = Here
  PROVE  IndInv'
<1>1. Events' = Events /\ \A i : Key(i)' = Key(i)
  BY DEF Events, Key
<1>2. TypeOK'
  <2>1. locked' \in Seq([kind : Kinds, target : Targets, height : 1 .. MaxHeight,
                         nonce : 1 .. MaxLocks])
    BY DEF IndInv, TypeOK
  <2>2. minted' \in [Kinds -> Seq(Events')]
    BY <1>1 DEF IndInv, TypeOK
  <2> QED
    BY <1>1, <2>1, <2>2 DEF TypeOK
<1>3. SentHere'
  BY DEF SentHere
<1>4. MintedAsLocked'
  BY SMTT(30) DEF IndInv, MintedAsLocked, Processed
<1> QED
  BY <1>2, <1>3, <1>4 DEF IndInv

(***************************************************************************)
(* The types again, for the steps that change only some of them.           *)
(***************************************************************************)
LEMMA Types ==
  ASSUME IndInv
  PROVE  /\ height \in 0 .. MaxHeight
         /\ known \in [Nodes -> 0 .. MaxHeight \cup {Nil}]
         /\ lastQueried \in [Nodes -> 0 .. MaxHeight \cup {Nil}]
         /\ cache \in [Nodes -> SUBSET Events]
         /\ \A n \in Nodes : \A i, j \in cache[n] : Key(i) = Key(j) => i = j
         /\ reading \in [Nodes -> (Kinds \X (0 .. MaxLocks)) \cup {Nil}]
         /\ submitted \in [Nodes -> SUBSET (Kinds \X (1 .. MaxLocks))]
         /\ pool \cup support \subseteq [node : Nodes, event : Events]
         /\ \A tx \in pool \cup support : locked[tx.event].target = Here
  BY DEF IndInv, TypeOK, SentHere

-----------------------------------------------------------------------------
(***************************************************************************)
(* What Lock does to the log.                                              *)
(***************************************************************************)
LEMMA LockIs ==
  ASSUME IndInv, NEW k \in Kinds, NEW t \in Targets, Lock(k, t)
  PROVE  /\ locked' \in Seq(EventType)
         /\ Events' = Events \cup {Len(locked) + 1} /\ Len(locked) + 1 \notin Events
         /\ \A i \in Events : locked'[i] = locked[i]
         /\ locked'[Len(locked) + 1] = [kind |-> k, target |-> t, height |-> height + 1,
                                        nonce |-> Cardinality(Earlier(k, t)) + 1]
         /\ UNCHANGED <<height, known, lastQueried, cache, reading, submitted, pool,
                        support, minted, faults>>
<1> DEFINE e == [kind |-> k, target |-> t, height |-> height + 1,
                 nonce |-> Cardinality(Earlier(k, t)) + 1]
<1>1. /\ locked \in Seq(EventType) /\ Len(locked) \in Nat /\ Events = 1 .. Len(locked)
      /\ Cardinality(Earlier(k, t)) \in Nat /\ Cardinality(Earlier(k, t)) <= Len(locked)
  BY LogType, EarlierSize DEF IndInv
<1>2. /\ Len(locked) < MaxLocks /\ height + 1 + MinGap <= MaxHeight
      /\ locked' = Append(locked, e)
      /\ UNCHANGED <<height, known, lastQueried, cache, reading, submitted, pool,
                     support, minted, faults>>
  BY DEF Lock, witness, orchestrator, bank
<1>3. e \in EventType
  BY <1>1, <1>2, Types, InterChainAssumption, SMTT(30) DEF EventType
<1> HIDE DEF e
<1>4. /\ locked' \in Seq(EventType) /\ Len(locked') = Len(locked) + 1
      /\ locked'[Len(locked) + 1] = e
      /\ \A i \in 1 .. Len(locked) : locked'[i] = locked[i]
  BY <1>1, <1>2, <1>3, SMTT(30)
<1>5. Events' = 1 .. Len(locked) + 1
  BY <1>1, <1>4, SMTT(30) DEF Events
<1> QED
  BY <1>1, <1>2, <1>4, <1>5, SMTT(30) DEF e

(***************************************************************************)
(* Locking a token on the mainchain keeps the invariant.                   *)
(***************************************************************************)
LEMMA LockPreserves ==
  ASSUME IndInv, NEW k \in Kinds, NEW t \in Targets, Lock(k, t)
  PROVE  IndInv'
<1>1. /\ locked' \in Seq(EventType) /\ Events \subseteq Events'
      /\ \A i \in Events : locked'[i] = locked[i] /\ Key(i)' = Key(i)
      /\ UNCHANGED <<height, known, lastQueried, cache, reading, submitted, pool,
                     support, minted, faults>>
  BY LockIs DEF Key
<1>2. TypeOK'
  <2>1. locked' \in Seq([kind : Kinds, target : Targets, height : 1 .. MaxHeight,
                         nonce : 1 .. MaxLocks])
    BY <1>1 DEF EventType
  <2>2. /\ cache' \in [Nodes -> SUBSET Events']
        /\ \A n \in Nodes : \A i, j \in cache'[n] : Key(i)' = Key(j)' => i = j
    BY <1>1, Types, SMTT(30)
  <2>3. pool' \cup support' \subseteq [node : Nodes, event : Events']
    BY <1>1, Types
  <2>4. minted' \in [Kinds -> Seq(Events')]
    <3>1. ASSUME NEW l \in Kinds PROVE minted[l] \in Seq(Events')
      <4>1. minted[l] \in Seq(Events)
        BY MintedType DEF IndInv
      <4> QED
        BY <1>1, <4>1, SMTT(30)
    <3>2. minted \in [Kinds -> Seq(Events)]
      BY DEF IndInv, TypeOK
    <3> QED
      BY <1>1, <3>1, <3>2
  <2>5. /\ height' \in 0 .. MaxHeight
        /\ known' \in [Nodes -> 0 .. MaxHeight \cup {Nil}]
        /\ lastQueried' \in [Nodes -> 0 .. MaxHeight \cup {Nil}]
        /\ reading' \in [Nodes -> (Kinds \X (0 .. MaxLocks)) \cup {Nil}]
        /\ submitted' \in [Nodes -> SUBSET (Kinds \X (1 .. MaxLocks))]
    BY <1>1, Types
  <2> QED
    BY <2>1, <2>2, <2>3, <2>4, <2>5 DEF TypeOK
<1>3. SentHere'
  <2>1. \A tx \in pool \cup support : tx.event \in Events /\ locked[tx.event].target = Here
    BY Types
  <2> QED
    BY <1>1, <2>1 DEF SentHere
<1>4. MintedAsLocked'
  <2>1. \A l \in Kinds : Processed(l)' = Processed(l)
    BY <1>1 DEF Processed
  <2>2. \A l \in Kinds : \A m \in 1 .. Processed(l) :
          minted[l][m] \in Events /\ minted'[l][m] = minted[l][m]
    BY <1>1, MintedType DEF IndInv
  <2> QED
    BY <1>1, <2>1, <2>2, SMTT(30) DEF MintedAsLocked, IndInv
<1> QED
  BY <1>2, <1>3, <1>4 DEF IndInv

(***************************************************************************)
(* A new mainchain block keeps the invariant.                              *)
(***************************************************************************)
LEMMA NewBlockPreserves ==
  ASSUME IndInv, NewBlock
  PROVE  IndInv'
<1>1. height' \in 0 .. MaxHeight
  BY Types, InterChainAssumption, SMTT(30) DEF NewBlock
<1>2. UNCHANGED <<locked, known, lastQueried, cache, reading, submitted, pool,
                  support, minted, faults>>
  BY DEF NewBlock, witness, orchestrator, bank
<1> QED
  BY <1>1, <1>2, Types, NodeStep

-----------------------------------------------------------------------------
(***************************************************************************)
(* Update at a node n, with a height h it has read: where the scan starts  *)
(* and ends, and what it finds.                                            *)
(***************************************************************************)
Found(from, to, ok) == IF ok THEN EventsBetween(from, to) ELSE {}

End(from, h) == IF ToBlock(from, h) >= 0 THEN ToBlock(from, h) ELSE from

Scanned(n, h, ok) ==
  \E from \in FromBlock(n) :
    /\ cache' = [cache EXCEPT ![n] = InsertList(@, Found(from, ToBlock(from, h), ok))]
    /\ lastQueried' = [lastQueried EXCEPT ![n] = End(from, h)]

(***************************************************************************)
(* A round of the witness learns the height and stores the events of the   *)
(* blocks it scans, unless a query fails.                                  *)
(***************************************************************************)
LEMMA UpdateIs ==
  ASSUME IndInv, NEW n \in Nodes, NEW h \in {known[n], height}, NEW ok \in BOOLEAN,
         Update(n, h, ok)
  PROVE  /\ h \in 0 .. MaxHeight /\ known' = [known EXCEPT ![n] = h]
         /\ UNCHANGED <<height, locked, reading, submitted, pool, support, minted>>
         /\ IF ok THEN UNCHANGED faults ELSE Fault("failed", MaxFailures)
         /\ Scanned(n, h, ok)
<1>1. h \in 0 .. MaxHeight
  BY Types, SMTT(30) DEF Update
<1> QED
  BY <1>1 DEF Update, Scanned, Found, End, mainchain, orchestrator, bank

(***************************************************************************)
(* The events a query returns are events of the mainchain.                 *)
(***************************************************************************)
LEMMA FoundType ==
  ASSUME IndInv, NEW from, NEW to
  PROVE  EventsBetween(from, to) \subseteq Events /\ Events \subseteq Int
<1>1. Events \subseteq Int
  BY LogType, SMTT(30) DEF IndInv
<1> QED
  BY <1>1 DEF EventsBetween, Events

(***************************************************************************)
(* A cache into which events have been inserted.                           *)
(***************************************************************************)
LEMMA CacheStep ==
  ASSUME IndInv, NEW n \in Nodes, NEW found, found \subseteq Events,
         cache' = [cache EXCEPT ![n] = InsertList(cache[n], found)]
  PROVE  /\ cache' \in [Nodes -> SUBSET Events]
         /\ \A m \in Nodes : \A i, j \in cache'[m] : Key(i) = Key(j) => i = j
<1>1. found \subseteq Int
  BY FoundType
<1>2. /\ cache \in [Nodes -> SUBSET Events]
      /\ \A m \in Nodes : \A i, j \in cache[m] : Key(i) = Key(j) => i = j
  BY Types
<1>3. /\ InsertList(cache[n], found) \subseteq Events
      /\ \A i, j \in InsertList(cache[n], found) : Key(i) = Key(j) => i = j
  BY <1>1, <1>2, InsertListType
<1> QED
  BY <1>2, <1>3

(***************************************************************************)
(* A round of the witness keeps the invariant, failing queries included.   *)
(***************************************************************************)
LEMMA UpdatePreserves ==
  ASSUME IndInv, NEW n \in Nodes, NEW h \in {known[n], height}, NEW ok \in BOOLEAN,
         Update(n, h, ok)
  PROVE  IndInv'
<1>1. /\ h \in 0 .. MaxHeight /\ known' = [known EXCEPT ![n] = h]
      /\ UNCHANGED <<height, locked, reading, submitted, pool, support, minted>>
  BY UpdateIs
<1>2. PICK from \in FromBlock(n) :
        /\ cache' = [cache EXCEPT ![n] =
                       InsertList(cache[n], Found(from, ToBlock(from, h), ok))]
        /\ lastQueried' = [lastQueried EXCEPT ![n] = End(from, h)]
  <2>1. Scanned(n, h, ok)
    BY UpdateIs
  <2> QED
    BY <2>1 DEF Scanned
<1>3. Found(from, ToBlock(from, h), ok) \subseteq Events
  BY FoundType DEF Found
<1>4. /\ cache' \in [Nodes -> SUBSET Events]
      /\ \A m \in Nodes : \A i, j \in cache'[m] : Key(i) = Key(j) => i = j
  BY <1>2, <1>3, CacheStep
<1>5. known' \in [Nodes -> 0 .. MaxHeight \cup {Nil}]
  BY <1>1, Types
<1>6. lastQueried' \in [Nodes -> 0 .. MaxHeight \cup {Nil}]
  <2>1. from \in 0 .. MaxHeight
    BY ScanStart DEF IndInv
  <2>2. ToBlock(from, h) \in Int /\ ToBlock(from, h) <= h
    BY <1>1, <2>1, ScanEnd, SMTT(30)
  <2>3. End(from, h) \in 0 .. MaxHeight
    BY <1>1, <2>1, <2>2, InterChainAssumption, SMTT(30) DEF End
  <2> QED
    BY <1>2, <2>3, Types
<1> QED
  BY <1>1, <1>4, <1>5, <1>6, Types, NodeStep

(***************************************************************************)
(* Crash at n: what it may have cached and stored.                         *)
(***************************************************************************)
LEMMA CrashIs ==
  ASSUME IndInv, NEW n \in Nodes, Crash(n)
  PROVE  /\ Fault("crashed", MaxCrashes)
         /\ UNCHANGED <<height, locked, pool, support, minted>>
         /\ known' = [known EXCEPT ![n] = Nil]
         /\ reading' = [reading EXCEPT ![n] = Nil]
         /\ submitted' = [submitted EXCEPT ![n] = {}]
         /\ \/ UNCHANGED <<cache, lastQueried>>
            \/ \E from \in FromBlock(n), found \in SUBSET Events :
                 /\ cache' = [cache EXCEPT ![n] = InsertList(cache[n], found)]
                 /\ lastQueried' = [lastQueried EXCEPT ![n] = from]
<1>1. \A from, to, last : {i \in EventsBetween(from, to) : i <= last} \in SUBSET Events
  BY FoundType
<1>2. /\ Fault("crashed", MaxCrashes)
      /\ UNCHANGED <<height, locked, pool, support, minted>>
      /\ known' = [known EXCEPT ![n] = Nil]
      /\ reading' = [reading EXCEPT ![n] = Nil]
      /\ submitted' = [submitted EXCEPT ![n] = {}]
  BY DEF Crash, mainchain, bank
<1>3. \/ UNCHANGED <<cache, lastQueried>>
      \/ \E from \in FromBlock(n), found \in SUBSET Events :
           /\ cache' = [cache EXCEPT ![n] = InsertList(cache[n], found)]
           /\ lastQueried' = [lastQueried EXCEPT ![n] = from]
  <2>1. CASE UNCHANGED <<cache, lastQueried>>
    BY <2>1
  <2>2. CASE ~ UNCHANGED <<cache, lastQueried>>
    <3>1. PICK from \in FromBlock(n), h \in {known[n], height} \ {Nil} :
            \E last \in {0} \cup EventsBetween(from, ToBlock(from, h)) :
              /\ cache' = [cache EXCEPT ![n] = InsertList(@,
                   {i \in EventsBetween(from, ToBlock(from, h)) : i <= last})]
              /\ lastQueried' = [lastQueried EXCEPT ![n] = from]
      BY <2>2 DEF Crash
    <3> DEFINE all == EventsBetween(from, ToBlock(from, h))
    <3>2. PICK last \in {0} \cup all :
            /\ cache' = [cache EXCEPT ![n] = InsertList(@, {i \in all : i <= last})]
            /\ lastQueried' = [lastQueried EXCEPT ![n] = from]
      BY <3>1
    <3> DEFINE found == {i \in all : i <= last}
    <3>3. found \in SUBSET Events
      BY <1>1
    <3>4. /\ cache' = [cache EXCEPT ![n] = InsertList(cache[n], found)]
          /\ lastQueried' = [lastQueried EXCEPT ![n] = from]
      BY <3>2
    <3> HIDE DEF found
    <3> QED
      BY <3>3, <3>4
  <2> QED
    BY <2>1, <2>2
<1> QED
  BY <1>2, <1>3

(***************************************************************************)
(* A crash of a node keeps the invariant.                                  *)
(***************************************************************************)
LEMMA CrashPreserves ==
  ASSUME IndInv, NEW n \in Nodes, Crash(n)
  PROVE  IndInv'
<1>1. /\ UNCHANGED <<height, locked, pool, support, minted>>
      /\ known' = [known EXCEPT ![n] = Nil]
      /\ reading' = [reading EXCEPT ![n] = Nil]
      /\ submitted' = [submitted EXCEPT ![n] = {}]
  BY CrashIs
<1>2. /\ cache' \in [Nodes -> SUBSET Events]
      /\ \A m \in Nodes : \A i, j \in cache'[m] : Key(i) = Key(j) => i = j
      /\ lastQueried' \in [Nodes -> 0 .. MaxHeight \cup {Nil}]
  <2>1. CASE UNCHANGED <<cache, lastQueried>>
    BY <2>1, Types
  <2>2. ASSUME NEW from \in FromBlock(n), NEW found \in SUBSET Events,
               cache' = [cache EXCEPT ![n] = InsertList(cache[n], found)],
               lastQueried' = [lastQueried EXCEPT ![n] = from]
        PROVE  /\ cache' \in [Nodes -> SUBSET Events]
               /\ \A m \in Nodes : \A i, j \in cache'[m] : Key(i) = Key(j) => i = j
               /\ lastQueried' \in [Nodes -> 0 .. MaxHeight \cup {Nil}]
    <3>1. from \in 0 .. MaxHeight
      BY ScanStart DEF IndInv
    <3>2. lastQueried' \in [Nodes -> 0 .. MaxHeight \cup {Nil}]
      BY <2>2, <3>1, Types
    <3> QED
      BY <2>2, <3>2, CacheStep
  <2> QED
    BY <2>1, <2>2, CrashIs
<1>3. /\ known' \in [Nodes -> 0 .. MaxHeight \cup {Nil}]
      /\ reading' \in [Nodes -> (Kinds \X (0 .. MaxLocks)) \cup {Nil}]
      /\ submitted' \in [Nodes -> SUBSET (Kinds \X (1 .. MaxLocks))]
  BY <1>1, Types
<1> QED
  BY <1>1, <1>2, <1>3, Types, NodeStep

-----------------------------------------------------------------------------
(***************************************************************************)
(* Reading the next event from the witness keeps the invariant.            *)
(***************************************************************************)
LEMMA ReadPreserves ==
  ASSUME IndInv, NEW n \in Nodes, NEW k \in Kinds, ProcessNextTokenLockEvent(n, k)
  PROVE  IndInv'
<1>1. /\ reading' = [reading EXCEPT ![n] = << k, Processed(k) >>]
      /\ UNCHANGED <<height, locked, known, lastQueried, cache, submitted, pool,
                     support, minted>>
  BY DEF ProcessNextTokenLockEvent, mainchain, witness, bank
<1>2. << k, Processed(k) >> \in Kinds \X (0 .. MaxLocks)
  BY ProcessedBound
<1>3. reading' \in [Nodes -> (Kinds \X (0 .. MaxLocks)) \cup {Nil}]
  BY <1>1, <1>2, Types
<1> QED
  BY <1>1, <1>3, Types, NodeStep

(***************************************************************************)
(* processNextEvent deletes events of the nonce that was read and submits  *)
(* some of the others, for this chain only.                                *)
(***************************************************************************)
LEMMA ProcessIs ==
  ASSUME IndInv, NEW n \in Nodes, NEW ok \in BOOLEAN, ProcessNextEvent(n, ok)
  PROVE  /\ reading[n] # Nil /\ reading' = [reading EXCEPT ![n] = Nil]
         /\ cache' = [cache EXCEPT ![n] = {i \in cache[n] : Key(i) # reading[n]}]
         /\ \E due \in SUBSET cache[n] :
              /\ submitted' = [submitted EXCEPT ![n] = submitted[n] \cup {Key(i) : i \in due}]
              /\ pool' = pool \cup {[node |-> n, event |-> i] :
                                      i \in {j \in due : locked[j].target = Here}}
         /\ UNCHANGED <<height, locked, known, lastQueried, support, minted, faults>>
<1> DEFINE k == reading[n][1]
           nonce == reading[n][2]
           left == {i \in cache[n] : Key(i) # << k, nonce >>}
           due == {i \in left : Key(i) = << k, nonce + 1 >> /\ Key(i) \notin submitted[n]}
<1>1. /\ reading[n] # Nil /\ reading' = [reading EXCEPT ![n] = Nil]
      /\ cache' = [cache EXCEPT ![n] = left]
      /\ UNCHANGED <<height, locked, known, lastQueried, support, minted, faults>>
      /\ IF ok THEN /\ submitted' = [submitted EXCEPT ![n] = @ \cup {Key(i) : i \in due}]
                    /\ pool' = pool \cup {[node |-> n, event |-> i] :
                                 i \in {j \in due : locked[j].target = Here}}
               ELSE UNCHANGED <<submitted, pool>>
  BY DEF ProcessNextEvent, mainchain, witness
<1>2. << k, nonce >> = reading[n]
  <2>1. reading[n] \in Kinds \X (0 .. MaxLocks)
    BY <1>1, Types
  <2> QED
    BY <2>1, SMTT(30)
<1>3. left = {i \in cache[n] : Key(i) # reading[n]} /\ due \in SUBSET cache[n]
  BY <1>2
<1>4. CASE ok
  <2> HIDE DEF due
  <2> QED
    BY <1>1, <1>3, <1>4
<1>5. CASE ~ok
  <2>1. /\ submitted' = [submitted EXCEPT ![n] = submitted[n] \cup {Key(i) : i \in {}}]
        /\ pool' = pool \cup {[node |-> n, event |-> i] :
                                i \in {j \in {} : locked[j].target = Here}}
    <3>1. UNCHANGED <<submitted, pool>>
      BY <1>1, <1>5
    <3>2. submitted = [submitted EXCEPT ![n] = submitted[n]]
      BY Types
    <3>3. {Key(i) : i \in {}} = {}
      OBVIOUS
    <3>4. {[node |-> n, event |-> i] : i \in {j \in {} : locked[j].target = Here}} = {}
      OBVIOUS
    <3>5. submitted[n] \cup {} = submitted[n] /\ pool \cup {} = pool
      OBVIOUS
    <3> QED
      BY <3>1, <3>2, <3>3, <3>4, <3>5
  <2> QED
    BY <1>1, <1>3, <2>1
<1> QED
  BY <1>4, <1>5

(***************************************************************************)
(* Submitting the voucher transaction of an event keeps the invariant.     *)
(***************************************************************************)
LEMMA ProcessPreserves ==
  ASSUME IndInv, NEW n \in Nodes, NEW ok \in BOOLEAN, ProcessNextEvent(n, ok)
  PROVE  IndInv'
<1>1. /\ reading' = [reading EXCEPT ![n] = Nil]
      /\ cache' = [cache EXCEPT ![n] = {i \in cache[n] : Key(i) # reading[n]}]
      /\ UNCHANGED <<height, locked, known, lastQueried, support, minted, faults>>
  BY ProcessIs
<1>2. PICK due \in SUBSET cache[n] :
        /\ submitted' = [submitted EXCEPT ![n] = submitted[n] \cup {Key(i) : i \in due}]
        /\ pool' = pool \cup {[node |-> n, event |-> i] :
                                i \in {j \in due : locked[j].target = Here}}
  BY ProcessIs
<1>3. due \subseteq Events /\ \A i \in due : Key(i) \in Kinds \X (1 .. MaxLocks)
  <2>1. due \subseteq Events
    BY Types
  <2>2. \A i \in Events : locked[i] \in EventType
    BY LogType DEF IndInv
  <2> QED
    BY <2>1, <2>2 DEF Key, EventType
<1>4. /\ cache' \in [Nodes -> SUBSET Events]
      /\ \A m \in Nodes : \A i, j \in cache'[m] : Key(i) = Key(j) => i = j
  BY <1>1, Types
<1>5. /\ reading' \in [Nodes -> (Kinds \X (0 .. MaxLocks)) \cup {Nil}]
      /\ submitted' \in [Nodes -> SUBSET (Kinds \X (1 .. MaxLocks))]
  BY <1>1, <1>2, <1>3, Types, SMTT(30)
<1>6. /\ pool' \cup support' \subseteq [node : Nodes, event : Events]
      /\ \A tx \in pool' \cup support' : locked[tx.event].target = Here
  BY <1>1, <1>2, <1>3, Types, SMTT(30)
<1> QED
  BY <1>1, <1>4, <1>5, <1>6, Types, NodeStep

(***************************************************************************)
(* Forgetting a transaction that was submitted long ago keeps the          *)
(* invariant.                                                              *)
(***************************************************************************)
LEMMA RetryPreserves ==
  ASSUME IndInv, NEW n \in Nodes, NEW key, RetryThresholdPasses(n, key)
  PROVE  IndInv'
<1>1. /\ submitted' = [submitted EXCEPT ![n] = @ \ {key}]
      /\ UNCHANGED <<height, locked, known, lastQueried, cache, reading, pool,
                     support, minted>>
  BY DEF RetryThresholdPasses, mainchain, witness, bank
<1>2. submitted' \in [Nodes -> SUBSET (Kinds \X (1 .. MaxLocks))]
  BY <1>1, Types
<1> QED
  BY <1>1, <1>2, Types, NodeStep

(***************************************************************************)
(* Losing a transaction keeps the invariant.                               *)
(***************************************************************************)
LEMMA LosePreserves ==
  ASSUME IndInv, NEW tx \in pool, LoseTransaction(tx)
  PROVE  IndInv'
<1>1. /\ pool' = pool \ {tx}
      /\ UNCHANGED <<height, locked, known, lastQueried, cache, reading, submitted,
                     support, minted>>
  BY DEF LoseTransaction, mainchain, witness, orchestrator
<1>2. pool' \cup support' \subseteq pool \cup support
  BY <1>1
<1>3. /\ pool' \cup support' \subseteq [node : Nodes, event : Events]
      /\ \A s \in pool' \cup support' : locked[s.event].target = Here
  BY <1>2, Types
<1> QED
  BY <1>1, <1>3, Types, NodeStep

(***************************************************************************)
(* MintVouchers: the call is counted or dropped, or completes a majority.  *)
(***************************************************************************)
LEMMA MintIs ==
  ASSUME IndInv, NEW tx \in pool, MintVouchers(tx)
  PROVE  /\ pool' = pool \ {tx} /\ support' \subseteq support \cup {tx}
         /\ UNCHANGED <<height, locked, known, lastQueried, cache, reading, submitted, faults>>
         /\ tx.event \in Events /\ locked[tx.event].kind \in Kinds
         /\ locked[tx.event].target = Here
         /\ \/ UNCHANGED minted
            \/ /\ locked[tx.event].nonce = Processed(locked[tx.event].kind) + 1
               /\ minted' = [minted EXCEPT ![locked[tx.event].kind] = Append(@, tx.event)]
<1>1. tx.event \in Events /\ locked[tx.event].target = Here
  BY Types
<1>2. locked[tx.event].kind \in Kinds
  BY <1>1, LogType DEF IndInv, EventType
<1>3. /\ pool' = pool \ {tx}
      /\ UNCHANGED <<height, locked, known, lastQueried, cache, reading, submitted, faults>>
  BY DEF MintVouchers, mainchain, witness, orchestrator
<1>4. support' \subseteq support \cup {tx}
  BY DEF MintVouchers
<1>5. \/ UNCHANGED minted
      \/ /\ locked[tx.event].nonce = Processed(locked[tx.event].kind) + 1
         /\ minted' = [minted EXCEPT ![locked[tx.event].kind] = Append(@, tx.event)]
  BY DEF MintVouchers
<1> QED
  BY <1>1, <1>2, <1>3, <1>4, <1>5

(***************************************************************************)
(* How the bank has changed when it mints event i.                         *)
(***************************************************************************)
LEMMA Mints ==
  ASSUME TypeOK, NEW i \in Events, NEW k \in Kinds,
         minted' = [minted EXCEPT ![k] = Append(@, i)]
  PROVE  /\ minted' \in [Kinds -> Seq(Events)]
         /\ Processed(k)' = Processed(k) + 1 /\ minted'[k][Processed(k) + 1] = i
         /\ \A m \in 1 .. Processed(k) : minted'[k][m] = minted[k][m]
         /\ \A l \in Kinds \ {k} : minted'[l] = minted[l] /\ Processed(l)' = Processed(l)
<1>1. minted \in [Kinds -> Seq(Events)]
  BY DEF TypeOK
<1>2. minted[k] \in Seq(Events) /\ Processed(k) = Len(minted[k])
  BY <1>1 DEF Processed
<1>3. minted'[k] = Append(minted[k], i)
  BY <1>1
<1>4. /\ Append(minted[k], i) \in Seq(Events)
      /\ Len(Append(minted[k], i)) = Len(minted[k]) + 1
      /\ Append(minted[k], i)[Len(minted[k]) + 1] = i
      /\ \A m \in 1 .. Len(minted[k]) : Append(minted[k], i)[m] = minted[k][m]
  BY <1>2, SMTT(30)
<1>5. \A l \in Kinds \ {k} : minted'[l] = minted[l] /\ Processed(l)' = Processed(l)
  BY <1>1 DEF Processed
<1>6. minted' \in [Kinds -> Seq(Events)]
  BY <1>1, <1>4
<1> QED
  BY <1>2, <1>3, <1>4, <1>5, <1>6 DEF Processed

(***************************************************************************)
(* Executing a voucher transaction keeps the invariant: what is minted is  *)
(* the next event locked.                                                  *)
(***************************************************************************)
LEMMA MintPreserves ==
  ASSUME IndInv, NEW tx \in pool, MintVouchers(tx)
  PROVE  IndInv'
<1>0. PICK i \in Events, k \in Kinds : i = tx.event /\ k = locked[tx.event].kind
  BY MintIs
<1>1. /\ pool' \cup support' \subseteq pool \cup support
      /\ UNCHANGED <<height, locked, known, lastQueried, cache, reading, submitted, faults>>
      /\ i \in Events /\ k \in Kinds /\ locked[i].target = Here
  BY <1>0, MintIs
<1>2. /\ pool' \cup support' \subseteq [node : Nodes, event : Events]
      /\ \A s \in pool' \cup support' : locked[s.event].target = Here
  BY <1>1, Types
<1>3. CASE UNCHANGED minted
  BY <1>1, <1>2, <1>3, Types, NodeStep
<1>4. CASE /\ locked[i].nonce = Processed(k) + 1
           /\ minted' = [minted EXCEPT ![k] = Append(@, i)]
  <2>1. /\ minted' \in [Kinds -> Seq(Events)]
        /\ Processed(k)' = Processed(k) + 1 /\ minted'[k][Processed(k) + 1] = i
        /\ \A m \in 1 .. Processed(k) : minted'[k][m] = minted[k][m]
        /\ \A l \in Kinds \ {k} : minted'[l] = minted[l] /\ Processed(l)' = Processed(l)
    <3>1. TypeOK
      BY DEF IndInv
    <3> QED
      BY <1>1, <1>4, <3>1, Mints
  <2>2. Events' = Events /\ \A j : Key(j)' = Key(j)
    BY <1>1 DEF Events, Key
  <2>3. TypeOK'
    <3>1. locked' \in Seq([kind : Kinds, target : Targets, height : 1 .. MaxHeight,
                           nonce : 1 .. MaxLocks])
      BY <1>1 DEF IndInv, TypeOK
    <3> QED
      BY <1>1, <1>2, <2>1, <2>2, <3>1, Types DEF TypeOK
  <2>4. SentHere'
    BY <1>1, <1>2 DEF SentHere
  <2>5. MintedAsLocked'
    <3> SUFFICES ASSUME NEW l \in Kinds, NEW m \in 1 .. Processed(l)'
                 PROVE  /\ locked[minted'[l][m]].kind = l
                        /\ locked[minted'[l][m]].target = Here
                        /\ locked[minted'[l][m]].nonce = m
      BY <1>1 DEF MintedAsLocked
    <3>1. Processed(k) \in Nat
      BY MintedType DEF IndInv
    <3>2. CASE l = k /\ m = Processed(k) + 1
      BY <1>0, <1>1, <1>4, <2>1, <3>2
    <3>3. CASE ~ (l = k /\ m = Processed(k) + 1)
      <4>1. m \in 1 .. Processed(l) /\ minted'[l][m] = minted[l][m]
        <5>1. CASE l = k
          BY <2>1, <3>1, <3>3, <5>1, SMTT(30)
        <5>2. CASE l # k
          BY <2>1, <5>2
        <5> QED
          BY <5>1, <5>2
      <4> QED
        BY <4>1, SMTT(30) DEF IndInv, MintedAsLocked
    <3> QED
      BY <3>2, <3>3
  <2> QED
    BY <2>3, <2>4, <2>5 DEF IndInv
<1> QED
  BY <1>0, <1>3, <1>4, MintIs

-----------------------------------------------------------------------------
(***************************************************************************)
(* Every step keeps the invariant.                                         *)
(***************************************************************************)
LEMMA NextIndInv == IndInv /\ [Next]_vars => IndInv'
<1> SUFFICES ASSUME IndInv, [Next]_vars PROVE IndInv'
  OBVIOUS
<1>1. ASSUME NEW k \in Kinds, NEW t \in Targets, Lock(k, t) PROVE IndInv'
  BY <1>1, LockPreserves
<1>2. CASE NewBlock
  BY <1>2, NewBlockPreserves
<1>3. ASSUME NEW n \in Nodes, NEW h \in {known[n], height}, NEW ok \in BOOLEAN,
             Update(n, h, ok)
      PROVE  IndInv'
  BY <1>3, UpdatePreserves
<1>4. ASSUME NEW n \in Nodes, Crash(n) PROVE IndInv'
  BY <1>4, CrashPreserves
<1>5. ASSUME NEW n \in Nodes, NEW k \in Kinds, ProcessNextTokenLockEvent(n, k)
      PROVE  IndInv'
  BY <1>5, ReadPreserves
<1>6. ASSUME NEW n \in Nodes, NEW ok \in BOOLEAN, ProcessNextEvent(n, ok) PROVE IndInv'
  BY <1>6, ProcessPreserves
<1>7. ASSUME NEW n \in Nodes, NEW key, RetryThresholdPasses(n, key) PROVE IndInv'
  BY <1>7, RetryPreserves
<1>8. ASSUME NEW tx \in pool, MintVouchers(tx) \/ LoseTransaction(tx) PROVE IndInv'
  BY <1>8, MintPreserves, LosePreserves
<1>9. CASE UNCHANGED vars
  <2>1. UNCHANGED <<height, locked, known, lastQueried, cache, reading, submitted, pool,
                    support, minted>>
    BY <1>9 DEF vars
  <2> QED
    BY <2>1, Types, NodeStep
<1> QED
  BY <1>1, <1>2, <1>3, <1>4, <1>5, <1>6, <1>7, <1>8, <1>9 DEF Next

(***************************************************************************)
(* The types, what is on its way to the bank and what it has minted are as *)
(* IndInv says in every reachable state.                                   *)
(***************************************************************************)
THEOREM Invariance == Spec => []IndInv
  BY InitIndInv, NextIndInv, PTL DEF Spec

(***************************************************************************)
(* What the orchestrators make the bank mint are the locks sent to this    *)
(* chain, each one once and in the order of their nonces.                  *)
(***************************************************************************)
THEOREM MintedAsLockedHolds == Spec => []MintedAsLocked
<1>1. IndInv => MintedAsLocked
  BY DEF IndInv
<1> QED
  BY <1>1, Invariance, PTL

-----------------------------------------------------------------------------
(***************************************************************************)
(* The log: nonces tell the events of a kind to one chain apart.           *)
(***************************************************************************)
LEMMA SameLog ==
  ASSUME IndInv, LogInv, UNCHANGED locked, height' \in Nat, height <= height'
  PROVE  LogInv'
<1>1. /\ Events' = Events /\ \A i : Key(i)' = Key(i)
      /\ \A k, t : Earlier(k, t)' = Earlier(k, t)
  BY DEF Events, Key, Earlier
<1>2. height \in Nat /\ \A i \in Events : locked[i].height \in Nat
  BY Types, LogType, SMTT(30) DEF IndInv, EventType
<1> QED
  BY <1>1, <1>2, SMTT(30) DEF LogInv

(***************************************************************************)
(* Locking keeps the order of the events by blocks.                        *)
(***************************************************************************)
LEMMA LockLog ==
  ASSUME IndInv, LogInv, NEW k \in Kinds, NEW t \in Targets, Lock(k, t)
  PROVE  LogInv'
<1>0. PICK N, c : N = Len(locked) + 1 /\ c = Cardinality(Earlier(k, t))
  OBVIOUS
<1>1. /\ Events' = Events \cup {N} /\ N \notin Events
      /\ \A i \in Events : locked'[i] = locked[i] /\ Key(i)' = Key(i)
      /\ locked'[N].kind = k /\ locked'[N].target = t /\ locked'[N].height = height + 1
      /\ locked'[N].nonce = c + 1 /\ Key(N)' = << k, c + 1 >> /\ height' = height
  <2>1. /\ Events' = Events \cup {N} /\ N \notin Events /\ height' = height
        /\ \A i \in Events : locked'[i] = locked[i]
        /\ locked'[N] = [kind |-> k, target |-> t, height |-> height + 1, nonce |-> c + 1]
    BY <1>0, LockIs
  <2> QED
    BY <2>1, SMTT(30) DEF Key
<1>2. /\ c \in Nat /\ height \in Nat
      /\ \A i \in Events : locked[i].nonce \in Nat /\ locked[i].height \in Nat
  BY <1>0, EarlierSize, Types, LogType, SMTT(30) DEF IndInv, EventType
<1>3. /\ Earlier(k, t)' = Earlier(k, t) \cup {N}
      /\ \A l, s : ~ (l = k /\ s = t) => Earlier(l, s)' = Earlier(l, s)
  BY <1>1 DEF Earlier, Events
<1>4. Cardinality(Earlier(k, t)') = c + 1
  <2>1. IsFiniteSet(Earlier(k, t)) /\ N \notin Earlier(k, t)
    BY <1>1, EarlierSize DEF IndInv
  <2>2. Cardinality(Earlier(k, t) \cup {N}) = c + 1
    BY <1>0, <2>1, FS_AddElement
  <2> QED
    BY <1>3, <2>2
<1>5. \A i \in Earlier(k, t) : i \in Events /\ locked[i].nonce <= c
  BY <1>0, EarlierSize DEF LogInv, IndInv
<1>6. \A i \in Events' : locked'[i].height <= height' + 1
  BY <1>1, <1>2, SMTT(30) DEF LogInv
<1>7. ASSUME NEW l \in Kinds, NEW s \in Targets, NEW i \in Earlier(l, s)'
      PROVE  locked'[i].nonce <= Cardinality(Earlier(l, s)')
  <2>1. CASE l = k /\ s = t
    <3>1. (i \in Events /\ locked[i].nonce <= c) \/ i = N
      BY <1>3, <1>5, <2>1
    <3>2. locked'[i].nonce <= c + 1
      BY <1>1, <1>2, <3>1, SMTT(30)
    <3> QED
      BY <1>4, <2>1, <3>2
  <2>2. CASE ~ (l = k /\ s = t)
    <3>1. Earlier(l, s)' = Earlier(l, s) /\ i \in Events
      BY <1>3, <2>2, EarlierSize, SMTT(30) DEF IndInv
    <3> QED
      BY <1>1, <3>1 DEF LogInv
  <2> QED
    BY <2>1, <2>2
<1>8. ASSUME NEW i \in Events', NEW j \in Events', Key(i)' = Key(j)',
             locked'[i].target = locked'[j].target
      PROVE  i = j
  <2>1. \A n \in Events : Key(n)' = Key(N)' /\ locked'[n].target = locked'[N].target => FALSE
    <3> SUFFICES ASSUME NEW n \in Events, Key(n)' = Key(N)', locked'[n].target = t
                 PROVE  FALSE
      BY <1>1
    <3>1. locked[n].kind = k /\ locked[n].nonce = c + 1 /\ locked[n].target = t
      BY <1>1 DEF Key
    <3>2. n \in Earlier(k, t)
      BY <3>1 DEF Earlier, Events
    <3> QED
      BY <1>2, <1>5, <3>1, <3>2, SMTT(30)
  <2>2. CASE i \in Events /\ j \in Events
    BY <1>1, <1>8, <2>2 DEF LogInv
  <2>3. CASE i = N \/ j = N
    BY <1>1, <1>8, <2>1, <2>3
  <2> QED
    BY <1>1, <2>2, <2>3
<1> QED
  BY <1>6, <1>7, <1>8 DEF LogInv

-----------------------------------------------------------------------------
(***************************************************************************)
(* Nothing is missed under the conditions of Undisturbed.                  *)
(***************************************************************************)
ScanningInv == IndInv /\ LogInv /\ ReadInv /\ ScanInv

FaultType == [failed : Nat, crashed : Nat, lost : Nat]

(***************************************************************************)
(* The faults are counted and bounded.                                     *)
(***************************************************************************)
LEMMA FaultCounts ==
  ASSUME faults \in FaultType, NEW kind \in {"failed", "crashed", "lost"}, NEW bound,
         Fault(kind, bound)
  PROVE  faults' \in FaultType /\ faults[kind] \in Nat /\ faults[kind] < bound
  BY SMTT(30) DEF FaultType, Fault

(***************************************************************************)
(* Steps that do not touch what ReadInv and ScanInv say of the witnesses.  *)
(***************************************************************************)
LEMMA ScanKeeps ==
  ASSUME ScanningInv, UNCHANGED <<locked, known, lastQueried, reading>>,
         height' \in Nat, height <= height', faults' \in FaultType,
         \A k \in Kinds : Processed(k)' \in Nat /\ Processed(k) <= Processed(k)',
         \A n \in Nodes : cache[n] \subseteq cache'[n]
  PROVE  ReadInv' /\ ScanInv'
<1>1. /\ height \in 0 .. MaxHeight
      /\ known \in [Nodes -> 0 .. MaxHeight \cup {Nil}]
      /\ lastQueried \in [Nodes -> 0 .. MaxHeight \cup {Nil}]
      /\ reading \in [Nodes -> (Kinds \X (0 .. MaxLocks)) \cup {Nil}]
      /\ \A k \in Kinds : Processed(k) \in Nat
  BY Types, MintedType DEF ScanningInv, IndInv
<1>2. \A i \in Events : locked[i].kind \in Kinds /\ locked[i].nonce \in Nat
  BY LogType, SMTT(30) DEF ScanningInv, IndInv, EventType
<1>3. ReadInv'
  <2> SUFFICES ASSUME NEW n \in Nodes
               PROVE  /\ known[n] # Nil => known[n] <= height'
                      /\ reading[n] # Nil => reading[n][2] <= Processed(reading[n][1])'
    BY DEF ReadInv
  <2>1. known[n] # Nil => known[n] <= height'
    BY <1>1, SMTT(30) DEF ScanningInv, ReadInv
  <2>2. ASSUME reading[n] # Nil PROVE reading[n][2] <= Processed(reading[n][1])'
    <3>1. PICK k \in Kinds, m \in 0 .. MaxLocks : reading[n] = << k, m >>
      BY <1>1, <2>2, SMTT(30)
    <3>2. m <= Processed(k)
      <4>1. reading[n][2] <= Processed(reading[n][1])
        BY <2>2 DEF ScanningInv, ReadInv
      <4>2. reading[n][1] = k /\ reading[n][2] = m
        BY <3>1, SMTT(30)
      <4> QED
        BY <4>1, <4>2
    <3>3. m <= Processed(k)'
      BY <1>1, <3>2, SMTT(30)
    <3>4. reading[n][1] = k /\ reading[n][2] = m /\ reading' = reading
      BY <3>1, SMTT(30)
    <3>5. Processed(reading[n][1])' = Processed(k)'
      BY <3>4 DEF Processed
    <3> QED
      BY <3>3, <3>4, <3>5
  <2> QED
    BY <2>1, <2>2
<1>4. ScanInv'
  <2>1. /\ Events' = Events /\ faults' \in [failed : Nat, crashed : Nat, lost : Nat]
    BY DEF Events, FaultType
  <2> SUFFICES ASSUME NEW n \in Nodes
               PROVE  /\ lastQueried[n] # Nil /\ lastQueried[n] <= height'
                      /\ \A i \in Events : /\ locked[i].height <= lastQueried[n]
                                           /\ locked[i].nonce > Processed(locked[i].kind)'
                                           => i \in cache'[n]
    BY <2>1 DEF ScanInv
  <2>2. lastQueried[n] # Nil /\ lastQueried[n] <= height'
    BY <1>1, SMTT(30) DEF ScanningInv, ScanInv
  <2>3. ASSUME NEW i \in Events, locked[i].height <= lastQueried[n],
               locked[i].nonce > Processed(locked[i].kind)'
        PROVE  i \in cache'[n]
    <3>1. PICK k \in Kinds : k = locked[i].kind
      BY <1>2
    <3>2. Processed(locked[i].kind)' = Processed(k)'
      BY <3>1 DEF Processed
    <3>3. locked[i].nonce > Processed(k)
      BY <1>1, <1>2, <2>3, <3>2, SMTT(30)
    <3> QED
      BY <2>3, <3>1, <3>3 DEF ScanningInv, ScanInv
  <2> QED
    BY <2>2, <2>3
<1> QED
  BY <1>3, <1>4

(***************************************************************************)
(* When all tokens go to this chain, no event replaces another one.        *)
(***************************************************************************)
LEMMA InsertKeeps ==
  ASSUME Undisturbed, IndInv, LogInv, NEW c, c \subseteq Events,
         NEW found, found \subseteq Events
  PROVE  InsertList(c, found) = c \cup found
<1>1. \A i \in Events : locked[i].target = Here
  BY LogType DEF IndInv, EventType, Undisturbed
<1>2. \A i, j \in Events : Key(i) = Key(j) => i = j
  BY <1>1 DEF LogInv
<1> QED
  BY <1>2 DEF InsertList

(***************************************************************************)
(* Steps of one witness or orchestrator.                                   *)
(***************************************************************************)
LEMMA NodeScans ==
  ASSUME ScanningInv, NEW n \in Nodes, UNCHANGED <<height, locked, minted>>,
         faults' \in FaultType,
         NEW kn, known' = [known EXCEPT ![n] = kn], kn # Nil => kn <= height,
         NEW rd, reading' = [reading EXCEPT ![n] = rd],
         rd # Nil => rd[2] <= Processed(rd[1]),
         NEW to, lastQueried' = [lastQueried EXCEPT ![n] = to], to # Nil, to <= height,
         NEW c, cache' = [cache EXCEPT ![n] = c],
         \A i \in Events : locked[i].height <= to
                           /\ locked[i].nonce > Processed(locked[i].kind) => i \in c
  PROVE  ReadInv' /\ ScanInv'
<1>1. known \in [Nodes -> 0 .. MaxHeight \cup {Nil}]
      /\ lastQueried \in [Nodes -> 0 .. MaxHeight \cup {Nil}]
      /\ reading \in [Nodes -> (Kinds \X (0 .. MaxLocks)) \cup {Nil}]
      /\ cache \in [Nodes -> SUBSET Events]
  BY Types DEF ScanningInv, IndInv
<1>2. \A x : Processed(x)' = Processed(x)
  BY DEF Processed
<1>3. Events' = Events
  BY DEF Events
<1>4. ReadInv'
  <2> SUFFICES ASSUME NEW m \in Nodes
               PROVE  /\ known'[m] # Nil => known'[m] <= height
                      /\ reading'[m] # Nil => reading'[m][2] <= Processed(reading'[m][1])
    BY <1>2 DEF ReadInv, Processed
  <2>1. CASE m = n
    <3>1. known'[m] = kn /\ reading'[m] = rd
      BY <1>1, <2>1
    <3> QED
      BY <3>1
  <2>2. CASE m # n
    <3>1. known'[m] = known[m] /\ reading'[m] = reading[m]
      BY <1>1, <2>2
    <3> QED
      BY <3>1 DEF ScanningInv, ReadInv
  <2> QED
    BY <2>1, <2>2
<1>5. ScanInv'
  <2> SUFFICES ASSUME NEW m \in Nodes
               PROVE  /\ lastQueried'[m] # Nil /\ lastQueried'[m] <= height
                      /\ \A i \in Events : /\ locked[i].height <= lastQueried'[m]
                                           /\ locked[i].nonce > Processed(locked[i].kind)
                                           => i \in cache'[m]
    BY <1>3 DEF ScanInv, Processed, FaultType
  <2>1. CASE m = n
    <3>1. lastQueried'[m] = to /\ cache'[m] = c
      BY <1>1, <2>1
    <3> QED
      BY <3>1
  <2>2. CASE m # n
    <3>1. lastQueried'[m] = lastQueried[m] /\ cache'[m] = cache[m]
      BY <1>1, <2>2
    <3> QED
      BY <3>1 DEF ScanningInv, ScanInv
  <2> QED
    BY <2>1, <2>2
<1> QED
  BY <1>4, <1>5

(***************************************************************************)
(* A round of an undisturbed witness leaves no gap behind the blocks it    *)
(* has scanned.                                                            *)
(***************************************************************************)
LEMMA UpdateScans ==
  ASSUME Undisturbed, ScanningInv, NEW n \in Nodes, NEW h \in {known[n], height},
         NEW ok \in BOOLEAN, Update(n, h, ok)
  PROVE  ReadInv' /\ ScanInv'
<1>0. IndInv /\ LogInv /\ ReadInv /\ ScanInv /\ faults \in FaultType
  BY DEF ScanningInv, ScanInv, FaultType
<1>1. /\ h \in 0 .. MaxHeight /\ known' = [known EXCEPT ![n] = h]
      /\ UNCHANGED <<height, locked, reading, minted>>
      /\ IF ok THEN UNCHANGED faults ELSE Fault("failed", MaxFailures)
  BY <1>0, UpdateIs
<1>2. ok /\ UNCHANGED faults
  <2>1. CASE ~ok
    <3>1. faults["failed"] \in Nat /\ faults["failed"] < 0
      BY <1>0, <1>1, <2>1, FaultCounts DEF Undisturbed
    <3> QED
      BY <3>1, SMTT(30)
  <2> QED
    BY <1>1, <2>1
<1>3. PICK from \in FromBlock(n) :
        /\ cache' = [cache EXCEPT ![n] =
                       InsertList(cache[n], Found(from, ToBlock(from, h), ok))]
        /\ lastQueried' = [lastQueried EXCEPT ![n] = End(from, h)]
  <2>1. Scanned(n, h, ok)
    BY <1>0, UpdateIs
  <2> QED
    BY <2>1 DEF Scanned
<1>4. from = lastQueried[n] /\ from \in 0 .. MaxHeight /\ from <= height
  <2>1. lastQueried[n] # Nil /\ lastQueried[n] <= height
    BY <1>0 DEF ScanInv
  <2> QED
    BY <1>0, <2>1, Types DEF FromBlock
<1>5. h <= height /\ height \in 0 .. MaxHeight
  BY <1>0, <1>1, Types, InterChainAssumption, SMTT(30) DEF ReadInv
<1>6. ToBlock(from, h) \in Int /\ ToBlock(from, h) <= h
  BY <1>1, <1>4, ScanEnd, SMTT(30)
<1>7. End(from, h) # Nil /\ End(from, h) <= height
  <2>1. End(from, h) \in 0 .. MaxHeight /\ End(from, h) <= height
    BY <1>1, <1>4, <1>5, <1>6, InterChainAssumption, SMTT(30) DEF End
  <2> QED
    BY <2>1, InterChainAssumption, SMTT(30)
<1> DEFINE found == Found(from, ToBlock(from, h), ok)
<1>8. InsertList(cache[n], found) = cache[n] \cup found
  BY <1>0, FoundType, Types, InsertKeeps DEF Found
<1>9. \A i \in Events : locked[i].height <= End(from, h)
                        /\ locked[i].nonce > Processed(locked[i].kind)
                        => i \in InsertList(cache[n], found)
  <2> SUFFICES ASSUME NEW i \in Events, locked[i].height <= End(from, h),
                      locked[i].nonce > Processed(locked[i].kind)
               PROVE  i \in cache[n] \/ i \in found
    BY <1>8
  <2>1. CASE locked[i].height <= from
    BY <1>0, <1>4, <2>1 DEF ScanInv
  <2>2. CASE ~ locked[i].height <= from
    <3>1. locked[i].height \in Int
      BY <1>0, LogType, SMTT(30) DEF IndInv, EventType
    <3>2. from <= locked[i].height /\ locked[i].height <= ToBlock(from, h)
      BY <1>4, <1>6, <2>2, <3>1, SMTT(30) DEF End
    <3> QED
      BY <1>2, <3>2 DEF Found, EventsBetween, Events
  <2> QED
    BY <2>1, <2>2
<1>10. reading' = [reading EXCEPT ![n] = reading[n]]
       /\ (reading[n] # Nil => reading[n][2] <= Processed(reading[n][1]))
  <2>1. reading' = [reading EXCEPT ![n] = reading[n]]
    BY <1>0, <1>1, Types
  <2> QED
    BY <1>0, <2>1 DEF ReadInv
<1>11. faults' \in FaultType
  BY <1>0, <1>2
<1> HIDE DEF found
<1> DEFINE c == InsertList(cache[n], found)
           to == End(from, h)
           rd == reading[n]
<1>12. /\ cache' = [cache EXCEPT ![n] = c] /\ lastQueried' = [lastQueried EXCEPT ![n] = to]
       /\ reading' = [reading EXCEPT ![n] = rd]
       /\ (rd # Nil => rd[2] <= Processed(rd[1])) /\ to # Nil /\ to <= height
       /\ \A i \in Events : locked[i].height <= to
                            /\ locked[i].nonce > Processed(locked[i].kind) => i \in c
       /\ (h # Nil => h <= height)
  BY <1>3, <1>5, <1>7, <1>9, <1>10 DEF found
<1> HIDE DEF c, to, rd
<1> QED
  BY <1>1, <1>11, <1>12, NodeScans

(***************************************************************************)
(* A crash of an undisturbed node loses no event.                          *)
(***************************************************************************)
LEMMA CrashScans ==
  ASSUME Undisturbed, ScanningInv, NEW n \in Nodes, Crash(n)
  PROVE  ReadInv' /\ ScanInv'
<1>0. IndInv /\ LogInv /\ ReadInv /\ ScanInv /\ faults \in FaultType
  BY DEF ScanningInv, ScanInv, FaultType
<1>1. /\ Fault("crashed", MaxCrashes) /\ UNCHANGED <<height, locked, minted>>
      /\ known' = [known EXCEPT ![n] = Nil] /\ reading' = [reading EXCEPT ![n] = Nil]
  BY <1>0, CrashIs
<1>2. faults' \in FaultType
  BY <1>0, <1>1, FaultCounts
<1> DEFINE to == lastQueried[n]
<1>3. /\ to # Nil /\ to <= height
      /\ \A i \in Events : locked[i].height <= to
                           /\ locked[i].nonce > Processed(locked[i].kind) => i \in cache[n]
  BY <1>0 DEF ScanInv
<1>4. \E c : /\ cache' = [cache EXCEPT ![n] = c] /\ cache[n] \subseteq c
             /\ lastQueried' = [lastQueried EXCEPT ![n] = to]
  <2>1. CASE UNCHANGED <<cache, lastQueried>>
    <3>1. cache' = [cache EXCEPT ![n] = cache[n]]
          /\ lastQueried' = [lastQueried EXCEPT ![n] = to]
      BY <1>0, <2>1, Types
    <3> QED
      BY <3>1
  <2>2. ASSUME NEW from \in FromBlock(n), NEW found \in SUBSET Events,
               cache' = [cache EXCEPT ![n] = InsertList(cache[n], found)],
               lastQueried' = [lastQueried EXCEPT ![n] = from]
        PROVE  \E c : /\ cache' = [cache EXCEPT ![n] = c] /\ cache[n] \subseteq c
                      /\ lastQueried' = [lastQueried EXCEPT ![n] = to]
    <3>1. from = to
      BY <1>3 DEF FromBlock
    <3>2. cache[n] \subseteq InsertList(cache[n], found)
      <4>1. cache[n] \subseteq Events
        BY <1>0, Types
      <4> QED
        BY <1>0, <4>1, InsertKeeps, SMTT(30)
    <3> QED
      BY <2>2, <3>1, <3>2
  <2> QED
    BY <1>0, <2>1, <2>2, CrashIs
<1>5. PICK c : /\ cache' = [cache EXCEPT ![n] = c] /\ cache[n] \subseteq c
               /\ lastQueried' = [lastQueried EXCEPT ![n] = to]
  BY <1>4
<1>6. \A i \in Events : locked[i].height <= to
                        /\ locked[i].nonce > Processed(locked[i].kind) => i \in c
  BY <1>3, <1>5
<1> HIDE DEF to
<1> QED
  BY <1>1, <1>2, <1>3, <1>5, <1>6, NodeScans

(***************************************************************************)
(* Reading the next event loses no event.                                  *)
(***************************************************************************)
LEMMA ReadScans ==
  ASSUME ScanningInv, NEW n \in Nodes, NEW k \in Kinds, ProcessNextTokenLockEvent(n, k)
  PROVE  ReadInv' /\ ScanInv'
<1>0. IndInv /\ LogInv /\ ReadInv /\ ScanInv /\ faults \in FaultType
  BY DEF ScanningInv, ScanInv, FaultType
<1>1. PICK p, rd : p = Processed(k) /\ rd = << k, p >>
  OBVIOUS
<1>2. /\ reading' = [reading EXCEPT ![n] = rd] /\ faults' = faults
      /\ UNCHANGED <<height, locked, known, lastQueried, cache, minted>>
  BY <1>1 DEF ProcessNextTokenLockEvent, mainchain, witness, bank
<1>3. rd[2] <= Processed(rd[1])
  <2>1. rd[1] = k /\ rd[2] = p
    BY <1>1
  <2>2. Processed(k) \in Nat
    BY <1>0, MintedType DEF IndInv
  <2>3. p <= Processed(k)
    BY <1>1, <2>2, SMTT(30)
  <2> QED
    BY <2>1, <2>3
<1>4. PICK kn, to, c : kn = known[n] /\ to = lastQueried[n] /\ c = cache[n]
  OBVIOUS
<1>5. /\ known' = [known EXCEPT ![n] = kn] /\ lastQueried' = [lastQueried EXCEPT ![n] = to]
      /\ cache' = [cache EXCEPT ![n] = c]
  BY <1>0, <1>2, <1>4, Types
<1>6. /\ (kn # Nil => kn <= height) /\ to # Nil /\ to <= height
      /\ \A i \in Events : locked[i].height <= to
                           /\ locked[i].nonce > Processed(locked[i].kind) => i \in c
  BY <1>0, <1>4 DEF ReadInv, ScanInv
<1>7. faults' \in FaultType
  BY <1>0, <1>2
<1> QED
  BY <1>2, <1>3, <1>5, <1>6, <1>7, NodeScans

(***************************************************************************)
(* Submitting a transaction loses no event.                                *)
(***************************************************************************)
LEMMA ProcessScans ==
  ASSUME ScanningInv, NEW n \in Nodes, NEW ok \in BOOLEAN, ProcessNextEvent(n, ok)
  PROVE  ReadInv' /\ ScanInv'
<1>0. IndInv /\ LogInv /\ ReadInv /\ ScanInv /\ faults \in FaultType
  BY DEF ScanningInv, ScanInv, FaultType
<1>1. PICK c : c = {i \in cache[n] : Key(i) # reading[n]}
  OBVIOUS
<1>2. /\ reading[n] # Nil /\ reading' = [reading EXCEPT ![n] = Nil]
      /\ cache' = [cache EXCEPT ![n] = c]
      /\ UNCHANGED <<height, locked, known, lastQueried, minted, faults>>
  BY <1>0, <1>1, ProcessIs
<1>3. PICK kn, to : kn = known[n] /\ to = lastQueried[n]
  OBVIOUS
<1>4. /\ known' = [known EXCEPT ![n] = kn] /\ lastQueried' = [lastQueried EXCEPT ![n] = to]
  BY <1>0, <1>2, <1>3, Types
<1>5. /\ (kn # Nil => kn <= height) /\ to # Nil /\ to <= height
      /\ \A i \in Events : locked[i].height <= to
                           /\ locked[i].nonce > Processed(locked[i].kind) => i \in cache[n]
  BY <1>0, <1>3 DEF ReadInv, ScanInv
<1>6. ASSUME NEW i \in Events, locked[i].nonce > Processed(locked[i].kind)
      PROVE  Key(i) # reading[n]
  <2> SUFFICES ASSUME Key(i) = reading[n] PROVE FALSE
    OBVIOUS
  <2>1. reading[n][2] <= Processed(reading[n][1])
    BY <1>0, <1>2 DEF ReadInv
  <2>2. reading[n][1] = locked[i].kind /\ reading[n][2] = locked[i].nonce
    BY SMTT(30) DEF Key
  <2>3. locked[i].nonce <= Processed(locked[i].kind)
    BY <2>1, <2>2
  <2>4. locked[i].nonce \in Nat /\ Processed(locked[i].kind) \in Nat
    BY <1>0, LogType, MintedType, SMTT(30) DEF IndInv, EventType
  <2> QED
    BY <1>6, <2>3, <2>4, SMTT(30)
<1>7. \A i \in Events : locked[i].height <= to
                        /\ locked[i].nonce > Processed(locked[i].kind) => i \in c
  BY <1>1, <1>5, <1>6
<1>8. faults' \in FaultType
  BY <1>0, <1>2
<1> QED
  BY <1>2, <1>4, <1>5, <1>7, <1>8, NodeScans

(***************************************************************************)
(* A lock is above the last queried heights.                               *)
(***************************************************************************)
LEMMA LockScans ==
  ASSUME ScanningInv, NEW k \in Kinds, NEW t \in Targets, Lock(k, t)
  PROVE  ReadInv' /\ ScanInv'
<1>0. IndInv /\ LogInv /\ ReadInv /\ ScanInv
  BY DEF ScanningInv
<1>1. PICK N : N = Len(locked) + 1
  OBVIOUS
<1>2. /\ Events' = Events \cup {N} /\ N \notin Events
      /\ \A i \in Events : locked'[i] = locked[i]
      /\ locked'[N].height = height + 1
      /\ UNCHANGED <<height, known, lastQueried, cache, reading, minted, faults>>
  <2>1. /\ Events' = Events \cup {N} /\ N \notin Events
        /\ \A i \in Events : locked'[i] = locked[i]
        /\ locked'[N] = [kind |-> k, target |-> t, height |-> height + 1,
                         nonce |-> Cardinality(Earlier(k, t)) + 1]
        /\ UNCHANGED <<height, known, lastQueried, cache, reading, minted, faults>>
    BY <1>0, <1>1, LockIs
  <2> QED
    BY <2>1, SMTT(30)
<1>3. ReadInv'
  BY <1>0, <1>2 DEF ReadInv, Processed
<1>4. ScanInv'
  <2> SUFFICES ASSUME NEW n \in Nodes
               PROVE  /\ lastQueried[n] # Nil /\ lastQueried[n] <= height
                      /\ \A i \in Events' : /\ locked'[i].height <= lastQueried[n]
                                            /\ locked'[i].nonce > Processed(locked'[i].kind)
                                            => i \in cache[n]
    BY <1>0, <1>2 DEF ScanInv, Processed
  <2>1. lastQueried[n] # Nil /\ lastQueried[n] <= height
    BY <1>0 DEF ScanInv
  <2>2. ~ locked'[N].height <= lastQueried[n]
    <3>1. height \in 0 .. MaxHeight /\ lastQueried[n] \in 0 .. MaxHeight
      BY <1>0, <2>1, Types
    <3> QED
      BY <1>2, <2>1, <3>1, SMTT(30)
  <2>3. ASSUME NEW i \in Events, locked'[i].height <= lastQueried[n],
               locked'[i].nonce > Processed(locked'[i].kind)
        PROVE  i \in cache[n]
    <3>1. locked'[i] = locked[i]
      BY <1>2
    <3> QED
      BY <1>0, <2>3, <3>1 DEF ScanInv
  <2> QED
    BY <1>2, <2>1, <2>2, <2>3
<1> QED
  BY <1>3, <1>4

(***************************************************************************)
(* The bank never forgets what it has minted.                              *)
(***************************************************************************)
LEMMA ProcessedGrows ==
  ASSUME IndInv, NEW tx \in pool, MintVouchers(tx)
  PROVE  \A l \in Kinds : Processed(l)' \in Nat /\ Processed(l) <= Processed(l)'
<1>1. PICK i \in Events, k \in Kinds : i = tx.event /\ k = locked[tx.event].kind
  BY MintIs
<1>2. \A l \in Kinds : Processed(l) \in Nat
  BY MintedType DEF IndInv
<1>3. CASE UNCHANGED minted
  BY <1>2, <1>3, SMTT(30) DEF Processed
<1>4. CASE minted' = [minted EXCEPT ![k] = Append(@, i)]
  <2>1. TypeOK
    BY DEF IndInv
  <2>2. /\ Processed(k)' = Processed(k) + 1
        /\ \A l \in Kinds \ {k} : Processed(l)' = Processed(l)
    BY <1>4, <2>1, Mints
  <2> QED
    BY <1>2, <2>2, SMTT(30)
<1> QED
  BY <1>1, <1>3, <1>4, MintIs

(***************************************************************************)
(* The remaining steps do not touch what was scanned.                      *)
(***************************************************************************)
LEMMA OtherScans ==
  ASSUME ScanningInv,
         \/ NewBlock
         \/ \E n \in Nodes : \E key \in submitted[n] : RetryThresholdPasses(n, key)
         \/ \E tx \in pool : MintVouchers(tx) \/ LoseTransaction(tx)
         \/ UNCHANGED vars
  PROVE  ReadInv' /\ ScanInv'
<1>0. IndInv /\ faults \in FaultType /\ height \in Nat
  <2>1. IndInv /\ faults \in FaultType
    BY DEF ScanningInv, ScanInv, FaultType
  <2> QED
    BY <2>1, Types, SMTT(30)
<1>1. /\ UNCHANGED <<locked, known, lastQueried, reading, cache>>
      /\ height' \in Nat /\ height <= height' /\ faults' \in FaultType
  <2>1. CASE NewBlock
    <3>1. /\ UNCHANGED <<locked, known, lastQueried, reading, cache, faults>>
          /\ height' = height + 1
      BY <2>1 DEF NewBlock, witness, orchestrator, bank
    <3> QED
      BY <1>0, <3>1, SMTT(30)
  <2>2. CASE \E n \in Nodes : \E key \in submitted[n] : RetryThresholdPasses(n, key)
    BY <1>0, <2>2, SMTT(30) DEF RetryThresholdPasses, mainchain, witness, bank
  <2>3. CASE \E tx \in pool : MintVouchers(tx)
    <3>1. UNCHANGED <<height, locked, known, lastQueried, cache, reading, faults>>
      BY <1>0, <2>3, MintIs
    <3> QED
      BY <1>0, <3>1, SMTT(30)
  <2>4. CASE \E tx \in pool : LoseTransaction(tx)
    <3>1. /\ Fault("lost", MaxLost)
          /\ UNCHANGED <<locked, known, lastQueried, reading, cache, height>>
      BY <2>4 DEF LoseTransaction, mainchain, witness, orchestrator
    <3> QED
      BY <1>0, <3>1, FaultCounts, SMTT(30)
  <2>5. CASE UNCHANGED vars
    BY <1>0, <2>5, SMTT(30) DEF vars
  <2> QED
    BY <2>1, <2>2, <2>3, <2>4, <2>5
<1>2. \A k \in Kinds : Processed(k)' \in Nat /\ Processed(k) <= Processed(k)'
  <2>1. CASE \E tx \in pool : MintVouchers(tx)
    BY <1>0, <2>1, ProcessedGrows
  <2>2. CASE ~ \E tx \in pool : MintVouchers(tx)
    <3>1. minted' = minted
      BY <2>2 DEF NewBlock, RetryThresholdPasses, LoseTransaction, bank, vars
    <3>2. \A k \in Kinds : Processed(k) \in Nat
      BY <1>0, MintedType DEF IndInv
    <3> QED
      BY <3>1, <3>2, SMTT(30) DEF Processed
  <2> QED
    BY <2>1, <2>2
<1>3. \A n \in Nodes : cache[n] \subseteq cache'[n]
  BY <1>1
<1> QED
  BY <1>1, <1>2, <1>3, ScanKeeps

-----------------------------------------------------------------------------
(***************************************************************************)
(* Nothing has been missed at first.                                       *)
(***************************************************************************)
LEMMA InitScanningInv == Undisturbed /\ Init => ScanningInv
<1> SUFFICES ASSUME Undisturbed, Init PROVE ScanningInv
  OBVIOUS
<1>1. IndInv
  BY InitIndInv
<1>2. Events = {} /\ height = 0
  BY SMTT(30) DEF Init, Events
<1>3. LogInv
  BY <1>2 DEF LogInv, Earlier, Events
<1>4. ReadInv
  BY DEF Init, ReadInv
<1>5. ScanInv
  <2>1. \A n \in Nodes : lastQueried[n] = 0
    BY DEF Init, Undisturbed
  <2>2. faults \in [failed : Nat, crashed : Nat, lost : Nat] /\ 0 # Nil
    BY InterChainAssumption, SMTT(30) DEF Init
  <2> QED
    BY <1>2, <2>1, <2>2, SMTT(30) DEF ScanInv
<1> QED
  BY <1>1, <1>3, <1>4, <1>5 DEF ScanningInv

(***************************************************************************)
(* Every step of undisturbed nodes misses no event.                        *)
(***************************************************************************)
LEMMA NextScanningInv == Undisturbed /\ ScanningInv /\ [Next]_vars => ScanningInv'
<1> SUFFICES ASSUME Undisturbed, ScanningInv, [Next]_vars PROVE ScanningInv'
  OBVIOUS
<1>0. IndInv /\ LogInv
  BY DEF ScanningInv
<1>1. IndInv'
  BY <1>0, NextIndInv
<1>2. LogInv'
  <2>1. ASSUME NEW k \in Kinds, NEW t \in Targets, Lock(k, t) PROVE LogInv'
    BY <1>0, <2>1, LockLog
  <2>2. CASE ~ \E k \in Kinds, t \in Targets : Lock(k, t)
    <3>1. locked' = locked /\ (height' = height \/ height' = height + 1)
      BY <2>2 DEF Next, vars, NewBlock, Update, Crash, ProcessNextTokenLockEvent,
                  ProcessNextEvent, RetryThresholdPasses, MintVouchers, LoseTransaction,
                  mainchain
    <3>2. height \in Nat
      BY <1>0, Types, SMTT(30)
    <3> QED
      BY <1>0, <3>1, <3>2, SameLog, SMTT(30)
  <2> QED
    BY <2>1, <2>2
<1>3. ReadInv' /\ ScanInv'
  <2>1. ASSUME NEW k \in Kinds, NEW t \in Targets, Lock(k, t) PROVE ReadInv' /\ ScanInv'
    BY <2>1, LockScans
  <2>2. ASSUME NEW n \in Nodes, NEW h \in {known[n], height}, NEW ok \in BOOLEAN,
               Update(n, h, ok)
        PROVE  ReadInv' /\ ScanInv'
    BY <2>2, UpdateScans
  <2>3. ASSUME NEW n \in Nodes, Crash(n) PROVE ReadInv' /\ ScanInv'
    BY <2>3, CrashScans
  <2>4. ASSUME NEW n \in Nodes, NEW k \in Kinds, ProcessNextTokenLockEvent(n, k)
        PROVE  ReadInv' /\ ScanInv'
    BY <2>4, ReadScans
  <2>5. ASSUME NEW n \in Nodes, NEW ok \in BOOLEAN, ProcessNextEvent(n, ok)
        PROVE  ReadInv' /\ ScanInv'
    BY <2>5, ProcessScans
  <2>6. ASSUME \/ NewBlock
               \/ \E n \in Nodes : \E key \in submitted[n] : RetryThresholdPasses(n, key)
               \/ \E tx \in pool : MintVouchers(tx) \/ LoseTransaction(tx)
               \/ UNCHANGED vars
        PROVE  ReadInv' /\ ScanInv'
    BY <2>6, OtherScans
  <2> QED
    BY <2>1, <2>2, <2>3, <2>4, <2>5, <2>6 DEF Next
<1> QED
  BY <1>1, <1>2, <1>3 DEF ScanningInv

(***************************************************************************)
(* The orchestrator passes over no event: when every witness has scanned   *)
(* from the beginning, no query for events has failed and all tokens are   *)
(* sent to this chain, an event that is not minted yet is in the cache of  *)
(* every witness that is done with its block, across any crash between the *)
(* two steps with which update stores what it found.                       *)
(***************************************************************************)
THEOREM NothingMissedHolds == Undisturbed => (Spec => []NothingMissed)
<1>1. ScanningInv => NothingMissed
  <2> SUFFICES ASSUME ScanningInv, NEW n \in Nodes, NEW i \in Events,
                      locked[i].nonce > Processed(locked[i].kind),
                      lastQueried[n] # Nil, lastQueried[n] > locked[i].height
               PROVE  i \in cache[n]
    BY DEF NothingMissed
  <2>1. locked[i].height \in Nat /\ lastQueried[n] \in Nat
    BY Types, LogType, SMTT(30) DEF ScanningInv, IndInv, EventType
  <2>2. locked[i].height <= lastQueried[n]
    BY <2>1, SMTT(30)
  <2> QED
    BY <2>2 DEF ScanningInv, ScanInv
<1>2. Undisturbed => (Init => ScanningInv)
  BY InitScanningInv
<1>3. Undisturbed => (ScanningInv /\ [Next]_vars => ScanningInv')
  BY NextScanningInv
<1> SUFFICES ASSUME Undisturbed PROVE Spec => []NothingMissed
  OBVIOUS
<1>4. Init => ScanningInv
  BY <1>2
<1>5. ScanningInv /\ [Next]_vars => ScanningInv'
  BY <1>3
<1> QED
  BY <1>1, <1>4, <1>5, PTL DEF Spec
=============================================================================
