-------------------------- MODULE BlockStoreProofs --------------------------
(***************************************************************************)
(* Proofs about the block store: whatever the order of blocks, of the      *)
(* writes of both goroutines and of crashes, the links, the indices and    *)
(* the receipts are right but for the blocks a crash has damaged.          *)
(***************************************************************************)
EXTENDS BlockStore, TLAPS

USE ZenonT(30)

-----------------------------------------------------------------------------
(***************************************************************************)
(* A step for a transaction of a block names the two and what to do.       *)
(***************************************************************************)
LEMMA TxStepsParts ==
  ASSUME NEW op, NEW b, NEW s \in TxSteps(op, b)
  PROVE  /\ s.op = op /\ s.block = b /\ s.tx \in Range(TxsOf[b])
         /\ s = TxStep(op, b, s.tx)
<1>1. PICK t \in Range(TxsOf[b]) : s = TxStep(op, b, t)
  BY DEF TxSteps
<1> DEFINE u == TxStep(op, b, t)
<1>2. u.op = op /\ u.block = b /\ u.tx = t
  BY DEF TxStep
<1>3. s.op = op /\ s.block = b /\ s.tx = t
  <2> HIDE DEF u
  <2>1. s = u
    BY <1>1 DEF u
  <2> QED
    BY <2>1, <1>2
<1> QED
  BY <1>1, <1>3

(***************************************************************************)
(* A step before others.                                                   *)
(***************************************************************************)
LEMMA BeforeParts ==
  ASSUME NEW S, NEW q \in Seq(S), NEW x
  PROVE  /\ Before(x, q) # << >>
         /\ Head(Before(x, q)) = x /\ Tail(Before(x, q)) = q
         /\ Before(x, q) \in Seq(S \cup {x})
         /\ Range(Before(x, q)) = {x} \cup Range(q)
<1> DEFINE T == S \cup {x}
<1>1. << x >> \in Seq(T) /\ q \in Seq(T)
  BY SMTT(30)
<1> HIDE DEF T
<1>2. /\ << x >> \o q \in Seq(T) /\ Len(<< x >> \o q) = Len(q) + 1
      /\ << x >> \o q # << >>
      /\ Head(<< x >> \o q) = x /\ Tail(<< x >> \o q) = q
  BY <1>1, SMTT(30)
<1>3. \A i \in 1 .. Len(q) : (<< x >> \o q)[i + 1] = q[i]
  BY <1>1, SMTT(30)
<1>4. (<< x >> \o q)[1] = x
  BY <1>1, SMTT(30)
<1>5. DOMAIN q = 1 .. Len(q) /\ DOMAIN (<< x >> \o q) = 1 .. Len(q) + 1 /\ Len(q) \in Nat
  BY <1>1, <1>2, SMTT(30)
<1>6. ASSUME NEW y \in Range(<< x >> \o q) PROVE y \in {x} \cup Range(q)
  <2>1. PICK i \in 1 .. Len(q) + 1 : y = (<< x >> \o q)[i]
    BY <1>5 DEF Range
  <2>2. i = 1 \/ (i - 1 \in 1 .. Len(q) /\ i = (i - 1) + 1)
    BY <1>5, SMTT(30)
  <2> QED
    BY <2>1, <2>2, <1>3, <1>4, <1>5 DEF Range
<1>7. ASSUME NEW y \in {x} \cup Range(q) PROVE y \in Range(<< x >> \o q)
  <2>1. CASE y = x
    <3>1. 1 \in 1 .. Len(q) + 1
      BY <1>5, SMTT(30)
    <3> QED
      BY <2>1, <3>1, <1>4, <1>5 DEF Range
  <2>2. CASE y \in Range(q)
    <3>1. PICK i \in 1 .. Len(q) : y = q[i]
      BY <2>2, <1>5 DEF Range
    <3>2. i + 1 \in 1 .. Len(q) + 1
      BY <1>5, SMTT(30)
    <3> QED
      BY <3>1, <3>2, <1>3, <1>5 DEF Range
  <2> QED
    BY <2>1, <2>2
<1> QED
  BY <1>2, <1>6, <1>7 DEF Before, T

(***************************************************************************)
(* Steps that come first, and the others after them.                       *)
(***************************************************************************)
LEMMA ConcatParts ==
  ASSUME NEW S, NEW r \in Seq(S), NEW u \in Seq(S)
  PROVE  /\ r = << >> => r \o u = u
         /\ r # << >> => /\ r \o u # << >>
                         /\ Head(r \o u) = Head(r) /\ Tail(r \o u) = Tail(r) \o u
                         /\ Tail(r) \in Seq(S) /\ Head(r) \in S
         /\ r \o u \in Seq(S)
         /\ Range(r \o u) = Range(r) \cup Range(u)
<1>1. r \o u \in Seq(S)
  BY SMTT(30)
<1>2. r = << >> => r \o u = u
  BY SMTT(30)
<1>3. ASSUME r # << >>
      PROVE  /\ r \o u # << >>
             /\ Head(r \o u) = Head(r) /\ Tail(r \o u) = Tail(r) \o u
             /\ Tail(r) \in Seq(S) /\ Head(r) \in S
  <2>1. Len(r) \in Nat /\ Len(r) > 0 /\ Len(u) \in Nat
    BY <1>3, SMTT(30)
  <2>2. Len(r \o u) = Len(r) + Len(u) /\ r \o u # << >>
    BY <2>1, SMTT(30)
  <2>3. Head(r \o u) = Head(r) /\ Tail(r) \in Seq(S) /\ Head(r) \in S
    BY <2>1, <1>3, SMTT(30)
  <2>4. Tail(r \o u) = Tail(r) \o u
    BY <2>1, <2>2, <1>1, <1>3, SMTT(30)
  <2> QED
    BY <2>2, <2>3, <2>4
<1>4. /\ DOMAIN r = 1 .. Len(r) /\ DOMAIN u = 1 .. Len(u)
      /\ DOMAIN (r \o u) = 1 .. Len(r) + Len(u)
      /\ Len(r) \in Nat /\ Len(u) \in Nat
  BY <1>1, SMTT(30)
<1>5. /\ \A i \in 1 .. Len(r) : (r \o u)[i] = r[i]
      /\ \A i \in 1 .. Len(u) : (r \o u)[Len(r) + i] = u[i]
  BY <1>1, SMTT(30)
<1>6. /\ \A i \in 1 .. Len(r) + Len(u) :
           i \in 1 .. Len(r) \/ \E j \in 1 .. Len(u) : i = Len(r) + j
      /\ \A i \in 1 .. Len(r) : i \in 1 .. Len(r) + Len(u)
      /\ \A i \in 1 .. Len(u) : Len(r) + i \in 1 .. Len(r) + Len(u)
  <2>1. ASSUME NEW i \in 1 .. Len(r) + Len(u), i \notin 1 .. Len(r)
        PROVE  \E j \in 1 .. Len(u) : i = Len(r) + j
    <3>1. i - Len(r) \in 1 .. Len(u) /\ i = Len(r) + (i - Len(r))
      BY <2>1, <1>4, SMTT(30)
    <3> QED
      BY <3>1
  <2>2. /\ \A i \in 1 .. Len(r) : i \in 1 .. Len(r) + Len(u)
        /\ \A i \in 1 .. Len(u) : Len(r) + i \in 1 .. Len(r) + Len(u)
    BY <1>4, SMTT(30)
  <2> QED
    BY <2>1, <2>2
<1>7. ASSUME NEW y \in Range(r \o u) PROVE y \in Range(r) \cup Range(u)
  <2>1. PICK i \in 1 .. Len(r) + Len(u) : y = (r \o u)[i]
    BY <1>4 DEF Range
  <2>2. CASE i \in 1 .. Len(r)
    BY <2>1, <2>2, <1>4, <1>5 DEF Range
  <2>3. CASE \E j \in 1 .. Len(u) : i = Len(r) + j
    BY <2>1, <2>3, <1>4, <1>5 DEF Range
  <2> QED
    BY <2>2, <2>3, <1>6
<1>8. Range(r) \cup Range(u) \subseteq Range(r \o u)
  BY <1>4, <1>5, <1>6 DEF Range
<1> QED
  BY <1>1, <1>2, <1>3, <1>7, <1>8

(***************************************************************************)
(* The steps for the transactions of a block, of which some may be done.   *)
(***************************************************************************)
LEMMA RestsParts ==
  ASSUME BlocksFormTree, NEW b \in Blocks, NEW op
  PROVE  /\ << >> \in Rests(op, b)
         /\ ForTxs(op, b) \in Rests(op, b)
         /\ Range(ForTxs(op, b)) = TxSteps(op, b)
         /\ \A r \in Rests(op, b) :
              /\ r \in Seq(TxSteps(op, b))
              /\ r # << >> => /\ Head(r) \in TxSteps(op, b)
                              /\ Tail(r) \in Rests(op, b)
                              /\ Range(r) = {Head(r)} \cup Range(Tail(r))
<1> DEFINE S == TxSteps(op, b)
           N == Len(TxsOf[b])
<1>1. TxsOf[b] \in Seq(Range(TxsOf[b]))
  BY DEF BlocksFormTree
<1>2. N \in Nat /\ DOMAIN TxsOf[b] = 1 .. N
  BY <1>1, SMTT(30)
<1>3. \A n \in 0 .. N : \A r \in [1 .. n -> S] : r \in Rests(op, b)
  BY DEF Rests
<1>4. << >> \in Rests(op, b)
  <2>1. 0 \in 0 .. N /\ << >> \in [1 .. 0 -> S]
    BY <1>2, SMTT(30)
  <2> QED
    BY <2>1, <1>3
<1>5. ForTxs(op, b) \in [1 .. N -> S]
  BY <1>2 DEF ForTxs, TxSteps, Range
<1>6. ForTxs(op, b) \in Rests(op, b)
  <2>1. N \in 0 .. N
    BY <1>2, SMTT(30)
  <2> QED
    BY <2>1, <1>3, <1>5
<1>7. Range(ForTxs(op, b)) = TxSteps(op, b)
  BY <1>2 DEF ForTxs, TxSteps, Range
<1>8. ASSUME NEW r \in Rests(op, b)
      PROVE  /\ r \in Seq(S)
             /\ r # << >> => /\ Head(r) \in S
                             /\ Tail(r) \in Rests(op, b)
                             /\ Range(r) = {Head(r)} \cup Range(Tail(r))
  <2> HIDE DEF S, N
  <2>1. PICK n \in 0 .. N : r \in [1 .. n -> S]
    BY DEF Rests, S, N
  <2>2. r \in Seq(S) /\ Len(r) = n
    BY <2>1, <1>2, SMTT(30)
  <2>3. ASSUME r # << >>
        PROVE  /\ Head(r) \in S /\ Tail(r) \in Seq(S)
               /\ n - 1 \in 0 .. N /\ Tail(r) \in [1 .. n - 1 -> S]
    <3>1. Len(r) \in Nat /\ Len(r) # 0 /\ n \in Nat
      BY <2>1, <2>2, <2>3, <1>2, SMTT(30)
    <3>2. Head(r) \in S /\ Tail(r) \in Seq(S) /\ Len(Tail(r)) = n - 1
      BY <2>2, <2>3, SMTT(30)
    <3>3. n - 1 \in 0 .. N
      BY <3>1, <2>2, <1>2, SMTT(30)
    <3>4. \A q \in Seq(S) : q \in [1 .. Len(q) -> S]
      BY SMTT(30)
    <3>5. Tail(r) \in [1 .. n - 1 -> S]
      BY <3>2, <3>4
    <3> QED
      BY <3>2, <3>3, <3>5
  <2>4. ASSUME r # << >> PROVE r = Before(Head(r), Tail(r))
    <3>1. Len(r) > 0 /\ Len(r) \in Nat
      BY <2>2, <2>4, SMTT(30)
    <3>2. r = << Head(r) >> \o Tail(r)
      BY <2>2, <2>4, <3>1, SMTT(30)
    <3> QED
      BY <3>2 DEF Before
  <2>5. ASSUME r # << >> PROVE Range(r) = {Head(r)} \cup Range(Tail(r))
    BY <2>3, <2>4, <2>5, BeforeParts
  <2>6. ASSUME r # << >> PROVE Tail(r) \in Rests(op, b)
    BY <2>3, <2>6, <1>3
  <2> QED
    BY <2>2, <2>3, <2>5, <2>6
<1> QED
  BY <1>4, <1>6, <1>7, <1>8
-----------------------------------------------------------------------------
(***************************************************************************)
(* What the step addBlock is at tells of the rest of it.                   *)
(***************************************************************************)
SyncAt(b, r) ==
  \/ /\ Head(todo["sync"]).op = "txGet" /\ Tail(todo["sync"]) = r
     /\ Tx("sync") \in Range(TxsOf[b])
  \/ /\ Head(todo["sync"]).op = "txPut" /\ Tail(todo["sync"]) = r
     /\ Tx("sync") \in Range(TxsOf[b]) /\ ~IsFinal(Tx("sync"))
  \/ /\ Head(todo["sync"]).op = "index" /\ Tail(todo["sync"]) = r
  \/ /\ Head(todo["sync"]).op = "save" /\ Tail(todo["sync"]) = Before(Step("index", b), r)
     /\ b \notin Stored
     /\ ParentOf[b] \in Stored => b \in block[ParentOf[b]].children
  \/ /\ Head(todo["sync"]).op = "link"
     /\ Tail(todo["sync"]) = Before(Step("save", b), Before(Step("index", b), r))
     /\ b \notin Stored /\ ParentOf[b] \in Stored

(***************************************************************************)
(* At any step of addBlock what is left of it is as SyncAt says.           *)
(***************************************************************************)
LEMMA SyncCases ==
  ASSUME BlocksFormTree, SyncInv, todo["sync"] # << >>
  PROVE  \E b \in Blocks : \E r \in Rests("txGet", b) : Block("sync") = b /\ SyncAt(b, r)
<1> DEFINE q == todo["sync"]
<1> DEFINE Shape(b, r) ==
        \/ q = r
        \/ \E t \in Range(TxsOf[b]) : q = Before(TxStep("txPut", b, t), r) /\ ~IsFinal(t)
        \/ q = Before(Step("index", b), r)
        \/ /\ q = Before(Step("save", b), Before(Step("index", b), r))
           /\ b \notin Stored
           /\ ParentOf[b] \in Stored => b \in block[ParentOf[b]].children
        \/ /\ q = Before(Step("link", b), Before(Step("save", b), Before(Step("index", b), r)))
           /\ b \notin Stored /\ ParentOf[b] \in Stored
<1>0. PICK b \in Blocks : \E r \in Rests("txGet", b) : Shape(b, r)
  BY DEF SyncInv
<1>1. PICK r \in Rests("txGet", b) : Shape(b, r)
  BY <1>0
<1>2. r \in Seq(TxSteps("txGet", b))
  BY RestsParts
<1> DEFINE index == Step("index", b)
           save == Step("save", b)
           link == Step("link", b)
           p1 == Before(index, r)
           p2 == Before(save, p1)
           p3 == Before(link, p2)
           S0 == TxSteps("txGet", b)
           S1 == S0 \cup {index}
           S2 == S1 \cup {save}
<1>f. /\ index.op = "index" /\ index.block = b
      /\ save.op = "save" /\ save.block = b
      /\ link.op = "link" /\ link.block = b
  BY DEF Step
<1>s. \/ q = r
      \/ \E t \in Range(TxsOf[b]) : q = Before(TxStep("txPut", b, t), r) /\ ~IsFinal(t)
      \/ q = p1
      \/ /\ q = p2 /\ b \notin Stored
         /\ ParentOf[b] \in Stored => b \in block[ParentOf[b]].children
      \/ q = p3 /\ b \notin Stored /\ ParentOf[b] \in Stored
  BY <1>1
<1>g. SyncAt(b, r) <=>
        \/ Head(q).op = "txGet" /\ Tail(q) = r /\ Tx("sync") \in Range(TxsOf[b])
        \/ /\ Head(q).op = "txPut" /\ Tail(q) = r
           /\ Tx("sync") \in Range(TxsOf[b]) /\ ~IsFinal(Tx("sync"))
        \/ Head(q).op = "index" /\ Tail(q) = r
        \/ /\ Head(q).op = "save" /\ Tail(q) = p1 /\ b \notin Stored
           /\ ParentOf[b] \in Stored => b \in block[ParentOf[b]].children
        \/ Head(q).op = "link" /\ Tail(q) = p2 /\ b \notin Stored /\ ParentOf[b] \in Stored
  BY DEF SyncAt
<1>h. Block("sync") = Head(q).block /\ Tx("sync") = Head(q).tx
  BY DEF Block, Tx
<1>n. q # << >>
  OBVIOUS
<1> HIDE DEF q, Shape, S0
<1>3. Head(p1) = index /\ Tail(p1) = r /\ p1 \in Seq(S1)
  <2> HIDE DEF index
  <2> QED  BY <1>2, BeforeParts DEF S0
<1> HIDE DEF p1, S1, index
<1>4. Head(p2) = save /\ Tail(p2) = p1 /\ p2 \in Seq(S2)
  <2> HIDE DEF save
  <2> QED  BY <1>3, BeforeParts
<1> HIDE DEF p2, S2, save
<1>5. Head(p3) = link /\ Tail(p3) = p2
  <2> HIDE DEF link
  <2> QED  BY <1>4, BeforeParts
<1> HIDE DEF p3, link
<1>6. CASE q = r
  <2>1. Head(q) \in TxSteps("txGet", b) /\ Tail(q) \in Rests("txGet", b)
    BY <1>6, <1>n, RestsParts
  <2>3. Head(q).op = "txGet" /\ Head(q).block = b /\ Head(q).tx \in Range(TxsOf[b])
    BY <2>1, TxStepsParts
  <2>4. SyncAt(b, Tail(q))
    BY <2>3, <1>h DEF SyncAt, q
  <2> QED
    BY <2>1, <2>3, <2>4, <1>h
<1>7. CASE \E t \in Range(TxsOf[b]) : q = Before(TxStep("txPut", b, t), r) /\ ~IsFinal(t)
  <2>1. PICK t \in Range(TxsOf[b]) : q = Before(TxStep("txPut", b, t), r) /\ ~IsFinal(t)
    BY <1>7
  <2> DEFINE put == TxStep("txPut", b, t)
  <2>2. put.op = "txPut" /\ put.block = b /\ put.tx = t
    BY DEF TxStep
  <2> HIDE DEF put
  <2>3. Head(q) = put /\ Tail(q) = r
    BY <2>1, <1>2, BeforeParts DEF put
  <2> QED
    BY <2>1, <2>2, <2>3, <1>g, <1>h
<1>8. CASE q = p1
  BY <1>8, <1>3, <1>f, <1>g, <1>h
<1>9. CASE /\ q = p2 /\ b \notin Stored
           /\ ParentOf[b] \in Stored => b \in block[ParentOf[b]].children
  BY <1>9, <1>4, <1>f, <1>g, <1>h
<1>10. CASE q = p3 /\ b \notin Stored /\ ParentOf[b] \in Stored
  BY <1>10, <1>5, <1>f, <1>g, <1>h
<1> QED
  BY <1>s, <1>6, <1>7, <1>8, <1>9, <1>10

(***************************************************************************)
(* What the step the engine is at tells of the rest of its call.           *)
(***************************************************************************)
EngineAt(b) ==
  \/ /\ Head(todo["engine"]).op = "committed" /\ Tail(todo["engine"]) = << >>
     /\ block[b].status = "valid"
  \/ /\ Head(todo["engine"]).op = "receipt" /\ Tx("engine") \in Range(TxsOf[b])
     /\ \E mark \in {"valid", "invalid"} : \E r \in Rests("receipt", b) :
          /\ Tail(todo["engine"]) = r \o << Step(mark, b) >>
          /\ \A t \in Range(TxsOf[b]) : \/ <<b, t>> \in receiptsV2 \/ t = Tx("engine")
                                        \/ TxStep("receipt", b, t) \in Range(r)
     /\ block[b].status = "pending"
     /\ ParentOf[b] \in Stored /\ IsValid(block[ParentOf[b]].status)
  \/ /\ Head(todo["engine"]).op \in {"valid", "invalid"} /\ Tail(todo["engine"]) = << >>
     /\ block[b].status = "pending"
     /\ ParentOf[b] \in Stored /\ IsValid(block[ParentOf[b]].status)
     /\ \A t \in Range(TxsOf[b]) : <<b, t>> \in receiptsV2
  \/ /\ Head(todo["engine"]).op = "direct" /\ IsValid(block[b].status)
     /\ Tail(todo["engine"]) \in Rests("txForce", b)
  \/ /\ Head(todo["engine"]).op = "txForce" /\ Tx("engine") \in Range(TxsOf[b])
     /\ IsFinalized(block[b].status)
     /\ Tail(todo["engine"]) \in Rests("txForce", b)
  \/ /\ Head(todo["engine"]).op = "txLocked" /\ Tx("engine") \in Range(TxsOf[b])
     /\ IsFinalized(block[b].status)
     /\ \E a, c \in Stored :
          /\ IsFinalized(block[a].status) /\ IsValid(block[c].status)
          /\ \E f \in Rests("txForce", a), r \in Rests("txLocked", b) :
               Tail(todo["engine"]) = r \o Before(Step("indirect", c), f)
  \/ /\ Head(todo["engine"]).op = "indirect" /\ IsValid(block[b].status)
     /\ \E a \in Stored : /\ IsFinalized(block[a].status)
                         /\ Tail(todo["engine"]) \in Rests("txForce", a)

-----------------------------------------------------------------------------
(***************************************************************************)
(* A call that is not over: its first step, and the rest of it.            *)
(***************************************************************************)
LEMMA SeqParts ==
  ASSUME NEW S, NEW q \in Seq(S)
  PROVE  /\ << >> \o Tail(q) = Tail(q) \/ q = << >>
         /\ q # << >> => /\ Head(q) \in S /\ Tail(q) \in Seq(S)
                         /\ Range(q) = {Head(q)} \cup Range(Tail(q))
                         /\ Head(q) \in Range(q)
<1>1. CASE q = << >>
  BY <1>1
<1>2. CASE q # << >>
  <2>1. Head(q) \in S /\ Tail(q) \in Seq(S) /\ q = << Head(q) >> \o Tail(q)
    <3>1. Len(q) > 0 /\ Len(q) \in Nat
      BY <1>2, SMTT(30)
    <3> QED
      BY <1>2, <3>1, SMTT(30)
  <2>2. << >> \o Tail(q) = Tail(q)
    BY <2>1, SMTT(30)
  <2>3. q = Before(Head(q), Tail(q))
    BY <2>1 DEF Before
  <2>4. Range(Before(Head(q), Tail(q))) = {Head(q)} \cup Range(Tail(q))
    BY <2>1, BeforeParts
  <2> QED
    BY <2>1, <2>2, <2>3, <2>4
<1> QED
  BY <1>1, <1>2

(***************************************************************************)
(* The steps of a call have a block each.                                  *)
(***************************************************************************)
AllSteps == [op : Ops, block : Blocks] \cup [op : Ops, block : Blocks, tx : Txs]

(***************************************************************************)
(* The steps made for a block are steps of the right type.                 *)
(***************************************************************************)
LEMMA StepTypes ==
  ASSUME NEW b \in Blocks, NEW op \in Ops
  PROVE  /\ Step(op, b) \in AllSteps
         /\ \A t \in Range(TxsOf[b]) : TxStep(op, b, t) \in AllSteps
         /\ TxSteps(op, b) \subseteq AllSteps
         /\ \A s \in AllSteps : s.block \in Blocks
<1>1. Step(op, b) \in AllSteps
  BY DEF Step, AllSteps
<1>2. \A t \in Range(TxsOf[b]) : t \in Txs
  BY DEF Txs
<1>3. \A t \in Range(TxsOf[b]) : TxStep(op, b, t) \in AllSteps
  BY <1>2 DEF TxStep, AllSteps
<1>4. \A s \in AllSteps : s.block \in Blocks
  BY DEF AllSteps
<1> QED
  BY <1>1, <1>3, <1>4 DEF TxSteps

(***************************************************************************)
(* Steps, followed by another step and the rest.                           *)
(***************************************************************************)
Followed(r, s, f) == r \o Before(s, f)

(***************************************************************************)
(* What comes first of them, and what is left then.                        *)
(***************************************************************************)
LEMMA ThenParts ==
  ASSUME NEW r \in Seq(AllSteps), NEW s \in AllSteps, NEW f \in Seq(AllSteps)
  PROVE  /\ Followed(r, s, f) \in Seq(AllSteps) /\ Followed(r, s, f) # << >>
         /\ \A x : x \in Range(Followed(r, s, f)) <=>
                   x \in Range(r) \/ x = s \/ x \in Range(f)
         /\ r = << >> => Head(Followed(r, s, f)) = s /\ Tail(Followed(r, s, f)) = f
         /\ r # << >> => /\ Head(Followed(r, s, f)) = Head(r)
                         /\ Tail(Followed(r, s, f)) = Followed(Tail(r), s, f)
<1> DEFINE u == Before(s, f)
<1>1. /\ u \in Seq(AllSteps \cup {s}) /\ u # << >> /\ Head(u) = s /\ Tail(u) = f
      /\ Range(u) = {s} \cup Range(f)
  BY BeforeParts
<1>2. u \in Seq(AllSteps)
  <2>1. AllSteps \cup {s} = AllSteps
    OBVIOUS
  <2> QED
    BY <1>1, <2>1
<1> HIDE DEF u
<1>3. r = << >> => r \o u = u
  BY <1>2, ConcatParts, SMTT(30)
<1>4. r # << >> => /\ r \o u # << >>
                   /\ Head(r \o u) = Head(r) /\ Tail(r \o u) = Tail(r) \o u
  BY <1>2, ConcatParts, SMTT(30)
<1>5. Range(r \o u) = Range(r) \cup Range(u) /\ r \o u \in Seq(AllSteps)
  BY <1>2, ConcatParts, SMTT(30)
<1>6. \A x : x \in Range(r \o u) <=> x \in Range(r) \/ x = s \/ x \in Range(f)
  BY <1>1, <1>5
<1> QED
  BY <1>1, <1>3, <1>4, <1>5, <1>6 DEF u, Followed

(***************************************************************************)
(* What is left of the steps for the transactions of a block is made of    *)
(* such steps only, and so it stays when the first is taken.               *)
(***************************************************************************)
LEMMA RestsSteps ==
  ASSUME BlocksFormTree, NEW b \in Blocks, NEW op \in Ops, NEW r \in Rests(op, b)
  PROVE  /\ r \in Seq(AllSteps)
         /\ \A x \in Range(r) : x \in TxSteps(op, b)
         /\ r # << >> => /\ Head(r) \in TxSteps(op, b) /\ Tail(r) \in Rests(op, b)
                         /\ Range(r) = {Head(r)} \cup Range(Tail(r))
<1>1. /\ r \in Seq(TxSteps(op, b))
      /\ r # << >> => /\ Head(r) \in TxSteps(op, b) /\ Tail(r) \in Rests(op, b)
                      /\ Range(r) = {Head(r)} \cup Range(Tail(r))
  BY RestsParts
<1>2. \A x \in Range(r) : x \in TxSteps(op, b)
  BY <1>1, SMTT(30) DEF Range
<1>3. \A A, B : A \subseteq B => Seq(A) \subseteq Seq(B)
  BY SMTT(30)
<1>4. r \in Seq(AllSteps)
  BY <1>1, <1>3, StepTypes
<1> QED
  BY <1>1, <1>2, <1>4

(***************************************************************************)
(* A step is no step for another operation.                                *)
(***************************************************************************)
LEMMA OtherStep ==
  ASSUME NEW s, NEW op, NEW d, NEW t, s.op # op
  PROVE  TxStep(op, d, t) # s
<1>1. TxStep(op, d, t).op = op
  BY DEF TxStep
<1> QED
  BY <1>1

(***************************************************************************)
(* The three calls of the engine, each at any of its steps.                *)
(***************************************************************************)
LEMMA CommitCases ==
  ASSUME NEW b \in Stored, todo["engine"] = << Step("committed", b) >>,
         block[b].status = "valid"
  PROVE  /\ Block("engine") = b /\ EngineAt(b)
         /\ \A s \in Range(todo["engine"]) : s.op # "txLocked"
<1> DEFINE s == Step("committed", b)
           q == todo["engine"]
<1>1. s.op = "committed" /\ s.block = b
  BY DEF Step
<1> HIDE DEF s
<1>2. Head(q) = s /\ Tail(q) = << >> /\ Range(q) = {s}
  <2>1. q = Before(s, << >>) /\ << >> \in Seq({s}) /\ Range(<< >>) = {}
    <3>1. << s >> \o << >> = << s >> /\ << >> \in Seq({s})
      BY SMTT(30)
    <3>2. Range(<< >>) = {}
      BY SMTT(30) DEF Range
    <3> QED
      BY <3>1, <3>2 DEF Before, s
  <2>2. /\ Head(Before(s, << >>)) = s /\ Tail(Before(s, << >>)) = << >>
        /\ Range(Before(s, << >>)) = {s} \cup Range(<< >>)
    BY <2>1, BeforeParts
  <2>3. {s} \cup {} = {s}
    OBVIOUS
  <2> QED
    BY <2>1, <2>2, <2>3
<1>3. Head(q).op = "committed" /\ Head(q).block = b
  BY <1>1, <1>2
<1>4. Block("engine") = b
  BY <1>3 DEF Block
<1>5. EngineAt(b)
  BY <1>2, <1>3 DEF EngineAt
<1>6. \A x \in Range(q) : x.op # "txLocked"
  BY <1>1, <1>2
<1> QED
  BY <1>4, <1>5, <1>6

(***************************************************************************)
(* One step with nothing after it.                                         *)
(***************************************************************************)
LEMMA NoStepAfter ==
  ASSUME NEW s
  PROVE  << s >> = Before(s, << >>) /\ Range(<< >>) = {} /\ << >> \in Seq(AllSteps)
<1>1. << s >> \o << >> = << s >>
  BY SMTT(30)
<1>2. Range(<< >>) = {}
  BY SMTT(30) DEF Range
<1>3. << >> \in Seq(AllSteps)
  BY SMTT(30)
<1> QED
  BY <1>1, <1>2, <1>3 DEF Before

(***************************************************************************)
(* At any step of the execution of a block no step under the lock is left. *)
(***************************************************************************)
LEMMA ExecutionCases ==
  ASSUME BlocksFormTree, Stored \subseteq Blocks, ExecutionInv
  PROVE  /\ \E b \in Stored : Block("engine") = b /\ EngineAt(b)
         /\ \A s \in Range(todo["engine"]) : s.op # "txLocked"
         /\ Head(todo["engine"]).op \in {"receipt", "valid", "invalid"}
<1> DEFINE q == todo["engine"]
<1>0. PICK b \in Stored, mark \in {"valid", "invalid"} : \E r \in Rests("receipt", b) :
        /\ q = r \o << Step(mark, b) >>
        /\ block[b].status = "pending"
        /\ ParentOf[b] \in Stored /\ IsValid(block[ParentOf[b]].status)
        /\ \A t \in Range(TxsOf[b]) :
             <<b, t>> \in receiptsV2 \/ TxStep("receipt", b, t) \in Range(r)
  BY DEF ExecutionInv
<1>1. PICK r \in Rests("receipt", b) :
        /\ q = r \o << Step(mark, b) >>
        /\ block[b].status = "pending"
        /\ ParentOf[b] \in Stored /\ IsValid(block[ParentOf[b]].status)
        /\ \A t \in Range(TxsOf[b]) :
             <<b, t>> \in receiptsV2 \/ TxStep("receipt", b, t) \in Range(r)
  BY <1>0
<1> DEFINE s == Step(mark, b)
<1>2. s.op = mark /\ s.block = b
  BY DEF Step
<1>3. b \in Blocks /\ s \in AllSteps /\ "receipt" \in Ops
  BY StepTypes DEF Ops
<1>g. \A h \in Rests("receipt", b) :
        /\ Head(q).op = "receipt" /\ Tx("engine") \in Range(TxsOf[b])
        /\ Tail(q) = h \o << s >>
        /\ \A t \in Range(TxsOf[b]) : \/ <<b, t>> \in receiptsV2 \/ t = Tx("engine")
                                      \/ TxStep("receipt", b, t) \in Range(h)
        /\ block[b].status = "pending"
        /\ ParentOf[b] \in Stored /\ IsValid(block[ParentOf[b]].status)
        => EngineAt(b)
  BY DEF EngineAt
<1>h. /\ Head(q).op = mark /\ Tail(q) = << >>
      /\ block[b].status = "pending"
      /\ ParentOf[b] \in Stored /\ IsValid(block[ParentOf[b]].status)
      /\ \A t \in Range(TxsOf[b]) : <<b, t>> \in receiptsV2
      => EngineAt(b)
  BY DEF EngineAt
<1>i. Block("engine") = Head(q).block /\ Tx("engine") = Head(q).tx
  BY DEF Block, Tx
<1>n. << s >> = Before(s, << >>) /\ Range(<< >>) = {} /\ << >> \in Seq(AllSteps)
  BY NoStepAfter
<1> HIDE DEF s
<1>4. q = r \o Before(s, << >>)
  BY <1>1, <1>n DEF s
<1> HIDE DEF q
<1>5. /\ r \in Seq(AllSteps)
      /\ r # << >> => /\ Head(r) \in TxSteps("receipt", b)
                      /\ Tail(r) \in Rests("receipt", b)
                      /\ Range(r) = {Head(r)} \cup Range(Tail(r))
  BY <1>3, RestsSteps
<1>6. \A x \in Range(r) : x \in TxSteps("receipt", b)
  BY <1>3, RestsSteps
<1>t. /\ \A x \in Range(q) : x \in Range(r) \/ x = s
      /\ r = << >> => Head(q) = s /\ Tail(q) = << >>
      /\ r # << >> => Head(q) = Head(r) /\ Tail(q) = Tail(r) \o Before(s, << >>)
  <2> DEFINE e == << >>
             u == Followed(r, s, e)
  <2>0. q = u /\ Followed(Tail(r), s, e) = Tail(r) \o Before(s, e)
    BY <1>4 DEF Followed
  <2>1. e \in Seq(AllSteps) /\ \A x : x \notin Range(e)
    BY <1>n
  <2> HIDE DEF e
  <2>2. r \in Seq(AllSteps) /\ s \in AllSteps
    BY <1>3, <1>5
  <2>3. /\ \A x : x \in Range(u) <=> x \in Range(r) \/ x = s \/ x \in Range(e)
        /\ r = << >> => Head(u) = s /\ Tail(u) = e
        /\ r # << >> => Head(u) = Head(r) /\ Tail(u) = Followed(Tail(r), s, e)
    BY <2>1, <2>2, ThenParts, ZenonT(120)
  <2> HIDE DEF u
  <2>4. /\ \A x \in Range(q) : x \in Range(r) \/ x = s
        /\ r = << >> => Head(q) = s /\ Tail(q) = e
        /\ r # << >> => Head(q) = Head(r) /\ Tail(q) = Tail(r) \o Before(s, e)
    BY <2>0, <2>1, <2>3
  <2> QED
    BY <2>4 DEF e
<1>7. \A x \in Range(q) : x.op # "txLocked"
  <2>1. \A x \in Range(r) : x.op = "receipt"
    BY <1>6, TxStepsParts
  <2>2. s.op # "txLocked"
    BY <1>2
  <2> QED
    BY <2>1, <2>2, <1>t, <1>n
<1>8. CASE r = << >>
  <2>1. \A t \in Range(TxsOf[b]) : <<b, t>> \in receiptsV2
    BY <1>1, <1>8, <1>n
  <2>2. Head(q).op = mark /\ Head(q).block = b /\ Tail(q) = << >>
    BY <1>2, <1>t, <1>8
  <2>3. EngineAt(b)
    BY <2>1, <2>2, <1>1, <1>h
  <2> QED
    BY <2>2, <2>3, <1>7, <1>i DEF q
<1>9. CASE r # << >>
  <2>0. Head(q) \in TxSteps("receipt", b)
    BY <1>5, <1>t, <1>9
  <2>1. /\ Head(q).op = "receipt" /\ Head(q).block = b /\ Head(q).tx \in Range(TxsOf[b])
        /\ Head(q) = TxStep("receipt", b, Head(q).tx)
    BY <2>0, TxStepsParts
  <2>2. ASSUME NEW t \in Range(TxsOf[b]), TxStep("receipt", b, t) = Head(q)
        PROVE  t = Head(q).tx
    <3>1. TxStep("receipt", b, t).tx = t
      BY DEF TxStep
    <3> QED
      BY <3>1, <2>2
  <2>3. \A t \in Range(TxsOf[b]) : \/ <<b, t>> \in receiptsV2 \/ t = Tx("engine")
                                   \/ TxStep("receipt", b, t) \in Range(Tail(r))
    BY <1>1, <1>5, <1>t, <1>9, <2>2, <1>i
  <2>4. EngineAt(b)
    BY <2>1, <2>3, <1>1, <1>5, <1>t, <1>9, <1>g, <1>i, <1>n
  <2> QED
    BY <2>1, <2>4, <1>7, <1>i DEF q
<1> QED
  BY <1>8, <1>9

(***************************************************************************)
(* At any step of finalizeBlock: when transactions are still to be entered *)
(* under the lock, the next step is one of those.                          *)
(***************************************************************************)
LEMMA FinalizationCases ==
  ASSUME BlocksFormTree, Stored \subseteq Blocks, FinalizationInv, todo["engine"] # << >>
  PROVE  /\ \E b \in Stored : Block("engine") = b /\ EngineAt(b)
         /\ \/ \A s \in Range(todo["engine"]) : s.op # "txLocked"
            \/ Head(todo["engine"]).op = "txLocked"
<1> DEFINE q == todo["engine"]
<1>0. PICK b \in Stored : \E f \in Rests("txForce", b) :
        /\ IsValid(block[b].status)
        /\ \/ q = Before(Step("direct", b), f)
           \/ /\ IsFinalized(block[b].status)
              /\ \/ q = f
                 \/ \E c, d \in Stored : \E r \in Rests("txLocked", d) :
                      /\ q = r \o Before(Step("indirect", c), f)
                      /\ IsFinalized(block[d].status) /\ IsValid(block[c].status)
  BY DEF FinalizationInv
<1>1. PICK f \in Rests("txForce", b) :
        /\ IsValid(block[b].status)
        /\ \/ q = Before(Step("direct", b), f)
           \/ /\ IsFinalized(block[b].status)
              /\ \/ q = f
                 \/ \E c, d \in Stored : \E r \in Rests("txLocked", d) :
                      /\ q = r \o Before(Step("indirect", c), f)
                      /\ IsFinalized(block[d].status) /\ IsValid(block[c].status)
  BY <1>0
<1>2. b \in Blocks /\ "txForce" \in Ops /\ "txLocked" \in Ops /\ "indirect" \in Ops
  BY DEF Ops
<1>3. f \in Seq(AllSteps) /\ \A x \in Range(f) : x \in TxSteps("txForce", b)
  BY <1>2, RestsSteps
<1>4. \A x \in Range(f) : x.op = "txForce"
  BY <1>3, TxStepsParts
<1>i. Block("engine") = Head(q).block /\ Tx("engine") = Head(q).tx
  BY DEF Block, Tx
<1>j. \A a \in Stored : Head(q).op = "direct" /\ IsValid(block[a].status)
                          /\ Tail(q) \in Rests("txForce", a) => EngineAt(a)
  BY DEF EngineAt
<1>k. \A a \in Stored : Head(q).op = "txForce" /\ Tx("engine") \in Range(TxsOf[a])
                          /\ IsFinalized(block[a].status)
                          /\ Tail(q) \in Rests("txForce", a) => EngineAt(a)
  BY DEF EngineAt
<1>l. \A d, c \in Stored : \A r \in Rests("txLocked", d) :
        /\ Head(q).op = "txLocked" /\ Tx("engine") \in Range(TxsOf[d])
        /\ IsFinalized(block[d].status)
        /\ IsFinalized(block[b].status) /\ IsValid(block[c].status)
        /\ Tail(q) = r \o Before(Step("indirect", c), f)
        => EngineAt(d)
  BY DEF EngineAt
<1>m. \A c \in Stored : /\ Head(q).op = "indirect" /\ IsValid(block[c].status)
                        /\ IsFinalized(block[b].status) /\ Tail(q) = f
                        => EngineAt(c)
  BY DEF EngineAt
<1>n. q # << >>
  OBVIOUS
<1> HIDE DEF q
<1>5. CASE q = Before(Step("direct", b), f)
  <2> DEFINE s == Step("direct", b)
  <2>1. s.op = "direct" /\ s.block = b
    BY DEF Step
  <2> HIDE DEF s
  <2>2. Head(q) = s /\ Tail(q) = f /\ \A x \in Range(q) : x = s \/ x \in Range(f)
    <3>1. /\ Head(Before(s, f)) = s /\ Tail(Before(s, f)) = f
          /\ Range(Before(s, f)) = {s} \cup Range(f)
      BY <1>3, BeforeParts
    <3> QED
      BY <3>1, <1>5 DEF s
  <2>3. \A x \in Range(q) : x.op # "txLocked"
    BY <2>1, <2>2, <1>4
  <2>4. EngineAt(b) /\ Block("engine") = b
    BY <2>1, <2>2, <1>1, <1>i, <1>j
  <2> QED
    BY <2>3, <2>4 DEF q
<1>6. CASE q = f /\ IsFinalized(block[b].status)
  <2>1. Head(q) \in TxSteps("txForce", b) /\ Tail(q) \in Rests("txForce", b)
    BY <1>2, <1>6, <1>n, RestsSteps
  <2>2. Head(q).op = "txForce" /\ Head(q).block = b /\ Head(q).tx \in Range(TxsOf[b])
    BY <2>1, TxStepsParts
  <2>3. EngineAt(b) /\ Block("engine") = b
    BY <2>1, <2>2, <1>6, <1>i, <1>k
  <2>4. \A x \in Range(q) : x.op # "txLocked"
    BY <1>4, <1>6
  <2> QED
    BY <2>3, <2>4 DEF q
<1>7. CASE /\ IsFinalized(block[b].status)
           /\ \E c, d \in Stored : \E r \in Rests("txLocked", d) :
                /\ q = r \o Before(Step("indirect", c), f)
                /\ IsFinalized(block[d].status) /\ IsValid(block[c].status)
  <2>1. PICK c, d \in Stored : \E r \in Rests("txLocked", d) :
          /\ q = r \o Before(Step("indirect", c), f)
          /\ IsFinalized(block[d].status) /\ IsValid(block[c].status)
    BY <1>7
  <2>2. PICK r \in Rests("txLocked", d) :
          /\ q = r \o Before(Step("indirect", c), f)
          /\ IsFinalized(block[d].status) /\ IsValid(block[c].status)
    BY <2>1
  <2> DEFINE s == Step("indirect", c)
  <2>3. s.op = "indirect" /\ s.block = c /\ s \in AllSteps
    <3>1. s.op = "indirect" /\ s.block = c
      BY DEF Step
    <3> QED
      BY <3>1, <1>2, StepTypes
  <2>4. d \in Blocks
    OBVIOUS
  <2>5. q = Followed(r, s, f) /\ Followed(Tail(r), s, f) = Tail(r) \o Before(Step("indirect", c), f)
    BY <2>2 DEF Followed
  <2> HIDE DEF s
  <2>6. r \in Seq(AllSteps) /\ \A x \in Range(r) : x \in TxSteps("txLocked", d)
    BY <2>4, <1>2, RestsSteps
  <2>7. r # << >> => Head(r) \in TxSteps("txLocked", d) /\ Tail(r) \in Rests("txLocked", d)
    BY <2>4, <1>2, RestsSteps
  <2>8. /\ \A x : x \in Range(q) <=> x \in Range(r) \/ x = s \/ x \in Range(f)
        /\ r = << >> => Head(q) = s /\ Tail(q) = f
        /\ r # << >> => Head(q) = Head(r) /\ Tail(q) = Followed(Tail(r), s, f)
    <3> DEFINE u == Followed(r, s, f)
    <3>1. /\ \A x : x \in Range(u) <=> x \in Range(r) \/ x = s \/ x \in Range(f)
          /\ r = << >> => Head(u) = s /\ Tail(u) = f
          /\ r # << >> => Head(u) = Head(r) /\ Tail(u) = Followed(Tail(r), s, f)
      <4>1. r \in Seq(AllSteps) /\ s \in AllSteps /\ f \in Seq(AllSteps)
        BY <2>3, <2>6, <1>3
      <4> QED
        BY <4>1, ThenParts, ZenonT(120)
    <3> HIDE DEF u
    <3>2. q = u
      BY <2>5 DEF u
    <3> QED
      BY <3>1, <3>2
  <2>9. CASE r = << >>
    <3>1. Head(q).op = "indirect" /\ Head(q).block = c /\ Tail(q) = f
      BY <2>3, <2>8, <2>9
    <3>2. EngineAt(c) /\ Block("engine") = c
      BY <3>1, <2>2, <1>7, <1>i, <1>m
    <3>3. \A x : x \notin Range(r)
      <4>1. Range(<< >>) = {}
        BY NoStepAfter
      <4> QED
        BY <4>1, <2>9
    <3>4. \A x \in Range(q) : x.op # "txLocked"
      BY <3>3, <2>3, <2>8, <1>4
    <3> QED
      BY <3>2, <3>4 DEF q
  <2>10. CASE r # << >>
    <3>1. Head(q) \in TxSteps("txLocked", d) /\ Tail(r) \in Rests("txLocked", d)
      BY <2>7, <2>8, <2>10
    <3>2. Head(q).op = "txLocked" /\ Head(q).block = d /\ Head(q).tx \in Range(TxsOf[d])
      BY <3>1, TxStepsParts
    <3>3. EngineAt(d) /\ Block("engine") = d
      BY <3>1, <3>2, <2>2, <2>5, <2>8, <2>10, <1>7, <1>i, <1>l
    <3> QED
      BY <3>2, <3>3 DEF q
  <2> QED
    BY <2>9, <2>10
<1> QED
  BY <1>1, <1>5, <1>6, <1>7

(***************************************************************************)
(* The call the engine is in, at any of its steps.  While transactions are *)
(* still to be entered under the lock, the next step is one of those.      *)
(***************************************************************************)
LEMMA EngineCases ==
  ASSUME BlocksFormTree, Stored \subseteq Blocks, EngineInv, todo["engine"] # << >>
  PROVE  /\ \E b \in Stored : Block("engine") = b /\ EngineAt(b)
         /\ \/ \A s \in Range(todo["engine"]) : s.op # "txLocked"
            \/ Head(todo["engine"]).op = "txLocked"
<1>1. CASE \E b \in Stored : /\ todo["engine"] = << Step("committed", b) >>
                             /\ block[b].status = "valid"
  BY <1>1, CommitCases
<1>2. CASE ExecutionInv
  BY <1>2, ExecutionCases
<1>3. CASE FinalizationInv
  BY <1>3, FinalizationCases
<1> QED
  BY <1>1, <1>2, <1>3 DEF EngineInv, EngineIdle

(***************************************************************************)
(* While the engine does not hold Chain.mu, FinalizePreviousBlocks has no  *)
(* transaction left to enter.                                              *)
(***************************************************************************)
LEMMA LockedSteps ==
  ASSUME BlocksFormTree, Stored \subseteq Blocks, EngineInv, ~EngineHoldsMu,
         NEW d, NEW t
  PROVE  TxStep("txLocked", d, t) \notin Range(todo["engine"])
<1>1. TxStep("txLocked", d, t).op = "txLocked"
  BY DEF TxStep
<1>2. CASE EngineIdle
  <2>1. Range(<< >>) = {}
    BY NoStepAfter
  <2> QED
    BY <1>2, <2>1 DEF EngineIdle
<1>3. CASE todo["engine"] # << >>
  <2>1. \A s \in Range(todo["engine"]) : s.op # "txLocked"
    BY <1>3, EngineCases DEF EngineHoldsMu, Doing
  <2> QED
    BY <2>1, <1>1
<1> QED
  BY <1>2, <1>3 DEF EngineIdle

-----------------------------------------------------------------------------
(***************************************************************************)
(* The parts of the invariant a step does not touch.                       *)
(***************************************************************************)
StatusesStay ==
  /\ Stored \subseteq Stored'
  /\ \A b \in Stored : block'[b].status = block[b].status
  /\ \A b \in Stored' : b \in Stored \/ block'[b].status = "pending"

(***************************************************************************)
(* When no addBlock is under way there is nothing to know of it.           *)
(***************************************************************************)
LEMMA SyncIdle ==
  ASSUME BlocksFormTree, todo'["sync"] = << >>
  PROVE  SyncInv'
<1>1. Genesis \in Blocks /\ << >> \in Rests("txGet", Genesis)
  BY RestsParts DEF BlocksFormTree
<1> QED
  BY <1>1 DEF SyncInv

(***************************************************************************)
(* What is known of addBlock stays when the blocks and their statuses do.  *)
(***************************************************************************)
LEMMA SyncStays ==
  ASSUME SyncInv, todo'["sync"] = todo["sync"], UNCHANGED <<block, damaged>>
  PROVE  SyncInv'
<1>1. block' = block /\ Stored' = Stored
  BY DEF Stored
<1>2. \A t : IsFinal(t)' <=> IsFinal(t)
  BY <1>1 DEF IsFinal
<1> QED
  BY <1>1, <1>2, Zenon DEF SyncInv

(***************************************************************************)
(* What is known of the call of the engine stays when the statuses and the *)
(* receipts do.                                                            *)
(***************************************************************************)
LEMMA EngineStays ==
  ASSUME EngineInv, todo'["engine"] = todo["engine"], StatusesStay,
         receiptsV2' = receiptsV2
  PROVE  EngineInv'
<1>1. CASE EngineIdle
  BY <1>1 DEF EngineIdle, EngineInv
<1>2. CASE \E b \in Stored : /\ todo["engine"] = << Step("committed", b) >>
                             /\ block[b].status = "valid"
  BY <1>2 DEF EngineInv, StatusesStay
<1>3. CASE ExecutionInv
  <2>1. ExecutionInv'
    BY <1>3 DEF ExecutionInv, StatusesStay
  <2> QED
    BY <2>1 DEF EngineInv
<1>4. CASE FinalizationInv
  <2>1. FinalizationInv'
    <3>1. \A c \in Stored : c \in Stored' /\ block'[c].status = block[c].status
      BY DEF StatusesStay
    <3> QED
      BY <1>4, <3>1 DEF FinalizationInv
  <2> QED
    BY <2>1 DEF EngineInv
<1> QED
  BY <1>1, <1>2, <1>3, <1>4 DEF EngineInv

(***************************************************************************)
(* Links and heights stay right in a step that leaves them alone.          *)
(***************************************************************************)
LEMMA LinkStays ==
  ASSUME LinkInv, Stored' = Stored, UNCHANGED <<byHeight, damaged>>,
         \A b \in Stored : block'[b].children = block[b].children,
         todo'["sync"] = todo["sync"]
  PROVE  LinkInv'
  BY DEF LinkInv, Doing, Block

(***************************************************************************)
(* Valid blocks keep valid parents and receipts, also when a block is      *)
(* added, because that one is pending.                                     *)
(***************************************************************************)
LEMMA StatusStays ==
  ASSUME StatusInv, StatusesStay, receiptsV2 \subseteq receiptsV2'
  PROVE  StatusInv'
<1>1. \A b \in Stored' : IsValid(block'[b].status) => b \in Stored /\ IsValid(block[b].status)
  BY DEF StatusesStay, IsValid
<1> QED
  BY <1>1 DEF StatusInv, StatusesStay

(***************************************************************************)
(* The index entries stay right when the statuses and the index do, and no *)
(* step under the lock is lost.                                            *)
(***************************************************************************)
LEMMA IndexStays ==
  ASSUME IndexInv, StatusesStay, UNCHANGED <<txIndex, damaged>>,
         \A d, t : TxStep("txLocked", d, t) \in Range(todo["engine"])
                     => TxStep("txLocked", d, t) \in Range(todo'["engine"])
  PROVE  IndexInv'
<1>1. \A b \in Stored' : IsFinalized(block'[b].status)
                           => b \in Stored /\ IsFinalized(block[b].status)
  BY DEF StatusesStay, IsFinalized
<1>2. \A t : LeadsToFinal(t) => LeadsToFinal(t)'
  BY DEF LeadsToFinal, StatusesStay
<1> QED
  BY <1>1, <1>2 DEF IndexInv

-----------------------------------------------------------------------------
(***************************************************************************)
(* One step of a call is taken, and others may come in its place.          *)
(***************************************************************************)
LEMMA ThenSome ==
  ASSUME StepsInv, NEW a \in Actors, todo[a] # << >>, NEW steps \in Seq(AllSteps),
         Then(a, steps)
  PROVE  /\ todo'[a] = steps \o Tail(todo[a]) /\ StepsInv' /\ DOMAIN todo' = Actors
         /\ \A c \in Actors : c # a => todo'[c] = todo[c]
<1>1. todo \in [Actors -> Seq(AllSteps)]
  BY DEF StepsInv, AllSteps
<1>2. Tail(todo[a]) \in Seq(AllSteps)
  BY <1>1, SeqParts
<1>3. steps \o Tail(todo[a]) \in Seq(AllSteps)
  BY <1>2, ConcatParts, SMTT(30)
<1>4. todo' = [todo EXCEPT ![a] = steps \o Tail(todo[a])]
  BY DEF Then
<1>5. todo' \in [Actors -> Seq(AllSteps)]
  BY <1>1, <1>3, <1>4
<1>6. StepsInv' /\ DOMAIN todo' = Actors
  BY <1>5 DEF StepsInv, AllSteps
<1> QED
  BY <1>1, <1>4, <1>6

(***************************************************************************)
(* One step of a call is taken, and the others stay.                       *)
(***************************************************************************)
LEMMA ThenNone ==
  ASSUME StepsInv, NEW a \in Actors, todo[a] # << >>, Then(a, << >>)
  PROVE  /\ todo'[a] = Tail(todo[a]) /\ StepsInv' /\ DOMAIN todo' = Actors
         /\ \A c \in Actors : c # a => todo'[c] = todo[c]
         /\ \A s \in Range(todo[a]) : s = Head(todo[a]) \/ s \in Range(todo'[a])
<1>1. todo[a] \in Seq(AllSteps)
  BY DEF StepsInv, AllSteps
<1>2. << >> \o Tail(todo[a]) = Tail(todo[a])
  BY <1>1, SeqParts
<1>3. Range(todo[a]) = {Head(todo[a])} \cup Range(Tail(todo[a]))
  BY <1>1, SeqParts
<1>4. << >> \in Seq(AllSteps)
  BY NoStepAfter
<1>5. /\ todo'[a] = << >> \o Tail(todo[a]) /\ StepsInv' /\ DOMAIN todo' = Actors
      /\ \A c \in Actors : c # a => todo'[c] = todo[c]
  BY <1>4, ThenSome
<1> QED
  BY <1>2, <1>3, <1>5

(***************************************************************************)
(* A call is started.                                                      *)
(***************************************************************************)
LEMMA CallParts ==
  ASSUME StepsInv, NEW a \in Actors, NEW steps \in Seq(AllSteps),
         todo' = [todo EXCEPT ![a] = steps]
  PROVE  /\ todo'[a] = steps /\ StepsInv' /\ DOMAIN todo' = Actors
         /\ \A c \in Actors : c # a => todo'[c] = todo[c]
<1>1. todo \in [Actors -> Seq(AllSteps)]
  BY DEF StepsInv, AllSteps
<1>2. todo' \in [Actors -> Seq(AllSteps)]
  BY <1>1
<1>3. StepsInv' /\ DOMAIN todo' = Actors
  BY <1>2 DEF StepsInv, AllSteps
<1> QED
  BY <1>1, <1>3

(***************************************************************************)
(* The steps of addBlock after that of the link.                           *)
(***************************************************************************)
AddCall(link, s, i, f) == link \o << s, i >> \o f

(***************************************************************************)
(* The steps of addBlock, with and without the link of the parent.         *)
(***************************************************************************)
LEMMA AddSteps ==
  ASSUME NEW f \in Seq(AllSteps), NEW l \in AllSteps, NEW s \in AllSteps, NEW i \in AllSteps
  PROVE  /\ AddCall(<< >>, s, i, f) = Before(s, Before(i, f))
         /\ AddCall(<< l >>, s, i, f) = Before(l, Before(s, Before(i, f)))
         /\ Before(s, Before(i, f)) \in Seq(AllSteps)
         /\ Before(l, Before(s, Before(i, f))) \in Seq(AllSteps)
<1> DEFINE A == AllSteps
<1> HIDE DEF A
<1>1. f \in Seq(A) /\ l \in A /\ s \in A /\ i \in A
  BY DEF A
<1>2. << i >> \o f \in Seq(A) /\ << s, i >> \in Seq(A) /\ << s >> \in Seq(A) /\ << i >> \in Seq(A)
      /\ << l >> \in Seq(A)
  BY <1>1, SMTT(30)
<1>3. << s, i >> = << s >> \o << i >> /\ << >> \o << s, i >> = << s, i >>
  <2>1. << >> \o << s, i >> = << s, i >>
    BY <1>2, ConcatParts, SMTT(30)
  <2> DEFINE x == << s >> \o << i >>
             y == << s, i >>
  <2>2. x \in Seq(A) /\ Len(x) = 2
    BY <1>2, SMTT(30)
  <2>3. x[1] = s /\ x[2] = i
    BY <1>2, SMTT(30)
  <2>4. y \in Seq(A) /\ Len(y) = 2 /\ y[1] = s /\ y[2] = i
    BY <1>2, SMTT(30)
  <2> HIDE DEF x, y
  <2>5. \A k \in 1 .. 2 : x[k] = y[k]
    BY <2>3, <2>4, SMTT(30)
  <2>6. x = y
    BY <2>2, <2>4, <2>5, SMTT(30)
  <2> QED
    BY <2>1, <2>6 DEF x, y
<1>4. \A x, y, z \in Seq(A) : (x \o y) \o z = x \o (y \o z)
  BY SMTT(30)
<1>5. << s >> \o (<< i >> \o f) \in Seq(A) /\ << l >> \o (<< s >> \o (<< i >> \o f)) \in Seq(A)
  BY <1>2, ConcatParts, SMTT(30)
<1>6. << s, i >> \o f = << s >> \o (<< i >> \o f)
  <2>1. (<< s >> \o << i >>) \o f = << s >> \o (<< i >> \o f)
    <3>1. << s >> \in Seq(A) /\ << i >> \in Seq(A) /\ f \in Seq(A)
      BY <1>1, <1>2
    <3> QED
      BY <3>1, <1>4
  <2> QED
    BY <1>3, <2>1
<1>7. (<< l >> \o << s, i >>) \o f = << l >> \o (<< s, i >> \o f)
  <2>1. << l >> \in Seq(A) /\ << s, i >> \in Seq(A) /\ f \in Seq(A)
    BY <1>1, <1>2
  <2> QED
    BY <2>1, <1>4
<1> QED
  BY <1>3, <1>5, <1>6, <1>7 DEF Before, A, AddCall

(***************************************************************************)
(* addBlock begins.                                                        *)
(***************************************************************************)
LEMMA AddBlockStep ==
  ASSUME BlocksFormTree, IndInv, NEW b \in Blocks, AddBlock(b)
  PROVE  IndInv'
<1> DEFINE f == ForTxs("txGet", b)
           l == Step("link", b)
           s == Step("save", b)
           i == Step("index", b)
<1>1. /\ todo["sync"] = << >> /\ ~EngineHoldsMu /\ b \notin Stored
      /\ todo' = [todo EXCEPT !["sync"] =
                    AddCall(IF ParentOf[b] \in Stored THEN << l >> ELSE << >>, s, i, f)]
      /\ UNCHANGED <<block, byHeight, txIndex, receiptsV2, receiptsV1, lfb, damaged, crashes>>
  BY DEF AddBlock, indices, AddCall
<1>2. /\ TypeOK /\ StepsInv /\ SyncInv /\ EngineInv /\ MutexInv /\ LinkInv
      /\ StatusInv /\ IndexInv
  BY DEF IndInv
<1>3. f \in Rests("txGet", b) /\ f \in Seq(AllSteps)
  <2>1. f \in Rests("txGet", b)
    BY RestsParts
  <2>2. "txGet" \in Ops
    BY DEF Ops
  <2> QED
    BY <2>1, <2>2, RestsSteps
<1>4. l \in AllSteps /\ s \in AllSteps /\ i \in AllSteps
  <2>1. "link" \in Ops /\ "save" \in Ops /\ "index" \in Ops
    BY DEF Ops
  <2> QED
    BY <2>1, StepTypes
<1> HIDE DEF f, l, s, i
<1>5. PICK q \in Seq(AllSteps) :
        /\ todo' = [todo EXCEPT !["sync"] = q]
        /\ \/ q = Before(s, Before(i, f)) /\ ParentOf[b] \notin Stored
           \/ q = Before(l, Before(s, Before(i, f))) /\ ParentOf[b] \in Stored
  <2>1. CASE ParentOf[b] \in Stored
    <3>1. AddCall(<< l >>, s, i, f) = Before(l, Before(s, Before(i, f)))
      BY <1>3, <1>4, AddSteps, ZenonT(120)
    <3>2. Before(l, Before(s, Before(i, f))) \in Seq(AllSteps)
      BY <1>3, <1>4, AddSteps, ZenonT(120)
    <3>3. todo' = [todo EXCEPT !["sync"] = Before(l, Before(s, Before(i, f)))]
      BY <1>1, <2>1, <3>1
    <3> QED
      BY <2>1, <3>2, <3>3
  <2>2. CASE ParentOf[b] \notin Stored
    <3>1. AddCall(<< >>, s, i, f) = Before(s, Before(i, f))
      BY <1>3, <1>4, AddSteps, ZenonT(120)
    <3>2. Before(s, Before(i, f)) \in Seq(AllSteps)
      BY <1>3, <1>4, AddSteps, ZenonT(120)
    <3>3. todo' = [todo EXCEPT !["sync"] = Before(s, Before(i, f))]
      BY <1>1, <2>2, <3>1
    <3> QED
      BY <2>2, <3>2, <3>3
  <2> QED
    BY <2>1, <2>2
<1>6. /\ todo'["sync"] = q /\ StepsInv' /\ DOMAIN todo' = Actors
      /\ todo'["engine"] = todo["engine"]
  <2>1. "sync" \in Actors /\ "engine" \in Actors /\ "sync" # "engine"
    BY DEF Actors
  <2> QED
    BY <2>1, <1>2, <1>5, CallParts
<1>7. TypeOK'
  BY <1>1, <1>2, <1>6 DEF TypeOK, Stored
<1>8. SyncInv'
  BY <1>1, <1>3, <1>5, <1>6 DEF SyncInv, Stored, l, s, i
<1>9. StatusesStay
  BY <1>1 DEF StatusesStay, Stored
<1>10. EngineInv'
  BY <1>1, <1>2, <1>6, <1>9, EngineStays
<1>11. MutexInv'
  BY <1>1, <1>6 DEF MutexInv, EngineHoldsMu, Doing
<1>12. LinkInv'
  BY <1>1, <1>2 DEF LinkInv, Doing, Stored
<1>13. StatusInv'
  BY <1>1, <1>2, <1>9, StatusStays
<1>14. IndexInv'
  BY <1>1, <1>2, <1>6, <1>9, IndexStays
<1> QED
  BY <1>6, <1>7, <1>8, <1>10, <1>11, <1>12, <1>13, <1>14 DEF IndInv

(***************************************************************************)
(* The step addBlock is at, and what is left when it is taken: it holds    *)
(* Chain.mu, so the engine does not.                                       *)
(***************************************************************************)
LEMMA SyncParts ==
  ASSUME BlocksFormTree, IndInv, todo["sync"] # << >>
  PROVE  /\ \E b \in Blocks : \E r \in Rests("txGet", b) : Block("sync") = b /\ SyncAt(b, r)
         /\ ~EngineHoldsMu
         /\ Then("sync", << >>) =>
              /\ todo'["sync"] = Tail(todo["sync"]) /\ StepsInv' /\ DOMAIN todo' = Actors
              /\ todo'["engine"] = todo["engine"] /\ MutexInv'
<1>1. \E b \in Blocks : \E r \in Rests("txGet", b) : Block("sync") = b /\ SyncAt(b, r)
  BY SyncCases DEF IndInv
<1>2. ~EngineHoldsMu
  BY DEF IndInv, MutexInv, SyncHoldsMu
<1>3. ASSUME Then("sync", << >>)
      PROVE  /\ todo'["sync"] = Tail(todo["sync"]) /\ StepsInv' /\ DOMAIN todo' = Actors
             /\ todo'["engine"] = todo["engine"]
  <2>1. "sync" \in Actors /\ "engine" \in Actors /\ "sync" # "engine" /\ StepsInv
    BY DEF Actors, IndInv
  <2> QED
    BY <1>3, <2>1, ThenNone
<1>4. todo'["engine"] = todo["engine"] => MutexInv'
  BY <1>2 DEF MutexInv, EngineHoldsMu, Doing
<1> QED
  BY <1>1, <1>2, <1>3, <1>4

(***************************************************************************)
(* The parent gets its link to the block that is about to be saved.        *)
(***************************************************************************)
LEMMA LinkParentStep ==
  ASSUME BlocksFormTree, IndInv, LinkParent
  PROVE  IndInv'
<1>1. /\ todo["sync"] # << >> /\ Head(todo["sync"]).op = "link"
      /\ block' = [block EXCEPT ![ParentOf[Block("sync")]].children = @ \cup {Block("sync")}]
      /\ Then("sync", << >>)
      /\ UNCHANGED <<byHeight, txIndex, receiptsV2, receiptsV1, lfb, damaged, crashes>>
  BY DEF LinkParent, indices, Doing
<1>2. /\ TypeOK /\ StepsInv /\ SyncInv /\ EngineInv /\ MutexInv /\ LinkInv
      /\ StatusInv /\ IndexInv
  BY DEF IndInv
<1>3. PICK b \in Blocks : \E r \in Rests("txGet", b) : Block("sync") = b /\ SyncAt(b, r)
  BY <1>1, SyncParts
<1>4. PICK r \in Rests("txGet", b) : Block("sync") = b /\ SyncAt(b, r)
  BY <1>3
<1>5. /\ Tail(todo["sync"]) = Before(Step("save", b), Before(Step("index", b), r))
      /\ b \notin Stored /\ ParentOf[b] \in Stored
  BY <1>1, <1>4 DEF SyncAt
<1>6. /\ todo'["sync"] = Tail(todo["sync"]) /\ StepsInv' /\ DOMAIN todo' = Actors
      /\ todo'["engine"] = todo["engine"] /\ MutexInv'
  BY <1>1, SyncParts
<1> DEFINE p == ParentOf[b]
<1>7. block[p] \in [status : Statuses, children : SUBSET Blocks]
  BY <1>2, <1>5 DEF TypeOK
<1>8. /\ DOMAIN block' = DOMAIN block
      /\ block'[p] = [block[p] EXCEPT !.children = block[p].children \cup {b}]
      /\ \A c \in DOMAIN block : c # p => block'[c] = block[c]
  BY <1>1, <1>4, <1>5 DEF Stored
<1>9. block'[p].status = block[p].status /\ block'[p].children = block[p].children \cup {b}
  BY <1>7, <1>8
<1> HIDE DEF p
<1>10. block'[p] \in [status : Statuses, children : SUBSET Blocks]
  <2>1. block[p].children \cup {b} \in SUBSET Blocks
    BY <1>7
  <2> QED
    BY <2>1, <1>7, <1>8
<1>11. TypeOK'
  BY <1>1, <1>2, <1>6, <1>8, <1>10 DEF TypeOK, Stored
<1>12. StatusesStay
  BY <1>8, <1>9 DEF StatusesStay, Stored
<1>13. SyncInv'
  <2>1. todo'["sync"] = Before(Step("save", b), Before(Step("index", b), r))
    BY <1>5, <1>6
  <2>2. b \notin Stored'
    BY <1>5, <1>8 DEF Stored
  <2>3. b \in block'[ParentOf[b]].children
    BY <1>9 DEF p
  <2> QED
    BY <2>1, <2>2, <2>3 DEF SyncInv
<1>14. EngineInv'
  BY <1>1, <1>2, <1>6, <1>12, EngineStays
<1>15. StatusInv'
  BY <1>1, <1>2, <1>12, StatusStays
<1>16. IndexInv'
  BY <1>1, <1>2, <1>6, <1>12, IndexStays
<1>17. Doing("sync", "save")' /\ Block("sync")' = b
  <2> DEFINE s == Step("save", b)
  <2>1. s.op = "save" /\ s.block = b
    BY DEF Step
  <2>2. Before(Step("index", b), r) \in Seq(TxSteps("txGet", b) \cup {Step("index", b)})
    <3>1. r \in Seq(TxSteps("txGet", b))
      BY RestsParts
    <3> QED
      BY <3>1, BeforeParts
  <2> HIDE DEF s
  <2>3. todo'["sync"] # << >> /\ Head(todo'["sync"]) = s
    <3> DEFINE u == Before(Step("index", b), r)
    <3>1. todo'["sync"] = Before(s, u)
      BY <1>5, <1>6 DEF s
    <3>2. u \in Seq(TxSteps("txGet", b) \cup {Step("index", b)})
      BY <2>2
    <3> HIDE DEF u
    <3>3. Before(s, u) # << >> /\ Head(Before(s, u)) = s
      BY <3>2, BeforeParts
    <3> QED
      BY <3>1, <3>3
  <2> QED
    BY <2>1, <2>3 DEF Doing, Block
<1>18. LinkInv'
  <2>1. ~Doing("sync", "save") /\ ~Doing("sync", "index")
    BY <1>1 DEF Doing
  <2>2. \A c \in Stored : \A d \in block'[c].children :
          ParentOf[d] = c /\ (d \in Stored \cup damaged \/ d = b)
    <3>1. \A c \in Stored : \A d \in block[c].children :
            ParentOf[d] = c /\ d \in Stored \cup damaged
      BY <1>2, <2>1 DEF LinkInv
    <3>2. p \in Stored /\ ParentOf[b] = p
      BY <1>5 DEF p
    <3>3. \A c \in Stored : c # p => block'[c] = block[c]
      BY <1>8 DEF Stored
    <3>4. ASSUME NEW c \in Stored, NEW d \in block'[c].children
          PROVE  ParentOf[d] = c /\ (d \in Stored \cup damaged \/ d = b)
      <4>1. CASE c # p
        BY <4>1, <3>1, <3>3
      <4>2. CASE c = p
        <5>1. d \in block[p].children \/ d = b
          BY <4>2, <1>9
        <5> QED
          BY <4>2, <5>1, <3>1, <3>2
      <4> QED
        BY <4>1, <4>2
    <3> QED
      BY <3>4
  <2>3. \A c, d \in Stored \ damaged : ParentOf[d] = c => d \in block'[c].children
    BY <1>2, <1>8, <1>9 DEF LinkInv, Stored
  <2>4. \A c \in Stored \ damaged : c \in byHeight[Height[c]]
    BY <1>2, <2>1 DEF LinkInv
  <2>5. Stored' = Stored
    BY <1>8 DEF Stored
  <2> QED
    BY <1>1, <1>17, <2>2, <2>3, <2>4, <2>5 DEF LinkInv
<1> QED
  BY <1>6, <1>11, <1>13, <1>14, <1>15, <1>16, <1>18 DEF IndInv

(***************************************************************************)
(* The block is saved with the links to all its children that are there:   *)
(* those are found by their height, because addBlock is not in the middle  *)
(* of another block.                                                       *)
(***************************************************************************)
LEMMA SaveBlockStep ==
  ASSUME BlocksFormTree, IndInv, SaveBlock
  PROVE  IndInv'
<1>1. /\ todo["sync"] # << >> /\ Head(todo["sync"]).op = "save"
      /\ Then("sync", << >>)
      /\ UNCHANGED <<byHeight, txIndex, receiptsV2, receiptsV1, lfb, damaged, crashes>>
  BY DEF SaveBlock, indices, Doing
<1>2. /\ TypeOK /\ StepsInv /\ SyncInv /\ EngineInv /\ MutexInv /\ LinkInv
      /\ StatusInv /\ IndexInv
  BY DEF IndInv
<1>3. PICK b \in Blocks : \E r \in Rests("txGet", b) : Block("sync") = b /\ SyncAt(b, r)
  BY <1>1, SyncParts
<1>4. PICK r \in Rests("txGet", b) : Block("sync") = b /\ SyncAt(b, r)
  BY <1>3
<1>5. /\ Tail(todo["sync"]) = Before(Step("index", b), r) /\ b \notin Stored
      /\ ParentOf[b] \in Stored => b \in block[ParentOf[b]].children
  BY <1>1, <1>4 DEF SyncAt
<1>6. /\ todo'["sync"] = Tail(todo["sync"]) /\ StepsInv' /\ DOMAIN todo' = Actors
      /\ todo'["engine"] = todo["engine"] /\ MutexInv'
  BY <1>1, SyncParts
<1> DEFINE new == {c \in byHeight[Height[b] + 1] \cap Stored : ParentOf[c] = b}
<1>7. block' = [c \in Stored \cup {b} |->
                  IF c = b THEN [status |-> "pending", children |-> new] ELSE block[c]]
  BY <1>4 DEF SaveBlock, FindBlocksByHeight
<1>8. /\ Stored' = Stored \cup {b}
      /\ \A c \in Stored : block'[c] = block[c]
      /\ block'[b].status = "pending" /\ block'[b].children = new
  BY <1>5, <1>7 DEF Stored
<1>9. new \subseteq Stored /\ Stored \subseteq Blocks
  BY <1>2 DEF TypeOK
<1>10. block'[b] \in [status : Statuses, children : SUBSET Blocks]
  BY <1>7, <1>9 DEF Statuses
<1>11. TypeOK'
  <2>1. Stored' \subseteq Blocks
    BY <1>8, <1>9
  <2>2. \A c \in Stored' : block'[c] \in [status : Statuses, children : SUBSET Blocks]
    BY <1>2, <1>8, <1>10 DEF TypeOK
  <2>3. lfb' \in Stored'
    BY <1>1, <1>2, <1>8 DEF TypeOK
  <2> QED
    BY <1>1, <1>2, <1>6, <2>1, <2>2, <2>3 DEF TypeOK
<1>12. StatusesStay
  BY <1>8 DEF StatusesStay
<1>13. SyncInv'
  BY <1>4, <1>5, <1>6 DEF SyncInv
<1>14. EngineInv'
  BY <1>1, <1>2, <1>6, <1>12, EngineStays
<1>15. StatusInv'
  BY <1>1, <1>2, <1>12, StatusStays
<1>16. IndexInv'
  BY <1>1, <1>2, <1>6, <1>12, IndexStays
<1>17. Doing("sync", "index")' /\ Block("sync")' = b
  <2> DEFINE s == Step("index", b)
  <2>1. s.op = "index" /\ s.block = b
    BY DEF Step
  <2> HIDE DEF s
  <2>2. r \in Seq(TxSteps("txGet", b))
    BY RestsParts
  <2>3. Before(s, r) # << >> /\ Head(Before(s, r)) = s
    BY <2>2, BeforeParts
  <2>4. todo'["sync"] # << >> /\ Head(todo'["sync"]) = s
    BY <2>3, <1>5, <1>6 DEF s
  <2> QED
    BY <2>1, <2>4 DEF Doing, Block
<1>18. LinkInv'
  <2>1. ~Doing("sync", "index")
    BY <1>1 DEF Doing
  <2>2. \A c \in Stored : \A d \in block[c].children :
          ParentOf[d] = c /\ (d \in Stored \cup damaged \/ d = b)
    BY <1>2, <1>4 DEF LinkInv
  <2>3. \A c \in Stored' : \A d \in block'[c].children :
          ParentOf[d] = c /\ d \in Stored' \cup damaged
    BY <1>8, <2>2
  <2>4. \A c \in Stored \ damaged : c \in byHeight[Height[c]]
    BY <1>2, <2>1 DEF LinkInv
  <2>5. ASSUME NEW c \in Stored \ damaged, ParentOf[c] = b PROVE c \in new
    <3>1. c # Genesis
      BY <2>5 DEF BlocksFormTree
    <3>2. Height[c] = Height[b] + 1
      BY <3>1, <2>5, <1>9 DEF BlocksFormTree
    <3>3. c \in byHeight[Height[b] + 1]
      BY <2>4, <3>2
    <3> QED
      BY <2>5, <3>3
  <2>6. ParentOf[b] # b
    <3>1. CASE b = Genesis
      BY <3>1 DEF BlocksFormTree
    <3>2. CASE b # Genesis
      <4>1. Height[b] = Height[ParentOf[b]] + 1 /\ Height[b] \in Heights
        BY <3>2 DEF BlocksFormTree
      <4>2. \A h \in Heights : h # h + 1
        BY SMTT(30) DEF Heights
      <4> QED
        BY <4>1, <4>2
    <3> QED
      BY <3>1, <3>2
  <2> HIDE DEF new
  <2>7. ASSUME NEW c \in Stored' \ damaged, NEW d \in Stored' \ damaged, ParentOf[d] = c
        PROVE  d \in block'[c].children
    <3>1. CASE c \in Stored /\ d \in Stored
      BY <3>1, <2>7, <1>2, <1>8 DEF LinkInv
    <3>2. CASE c \in Stored /\ d = b
      BY <3>2, <2>7, <1>5, <1>8
    <3>3. CASE c = b /\ d \in Stored
      BY <3>3, <2>5, <2>7, <1>8
    <3>4. CASE c = b /\ d = b
      BY <3>4, <2>6, <2>7
    <3> QED
      BY <3>1, <3>2, <3>3, <3>4, <1>8
  <2>8. \A c \in Stored' \ damaged : c \in byHeight[Height[c]] \/ c = b
    BY <2>4, <1>8
  <2> QED
    BY <1>1, <1>17, <2>3, <2>7, <2>8 DEF LinkInv
<1> QED
  BY <1>6, <1>11, <1>13, <1>14, <1>15, <1>16, <1>18 DEF IndInv

(***************************************************************************)
(* The block is entered under its height.                                  *)
(***************************************************************************)
LEMMA AddBlockByHeightIndexStep ==
  ASSUME BlocksFormTree, IndInv, AddBlockByHeightIndex
  PROVE  IndInv'
<1>1. /\ todo["sync"] # << >> /\ Head(todo["sync"]).op = "index"
      /\ byHeight' = [byHeight EXCEPT ![Height[Block("sync")]] = @ \cup {Block("sync")}]
      /\ Then("sync", << >>)
      /\ UNCHANGED <<block, txIndex, receiptsV2, receiptsV1, lfb, damaged, crashes>>
  BY DEF AddBlockByHeightIndex, Doing
<1>2. /\ TypeOK /\ StepsInv /\ SyncInv /\ EngineInv /\ MutexInv /\ LinkInv
      /\ StatusInv /\ IndexInv
  BY DEF IndInv
<1>3. PICK b \in Blocks : \E r \in Rests("txGet", b) : Block("sync") = b /\ SyncAt(b, r)
  BY <1>1, SyncParts
<1>4. PICK r \in Rests("txGet", b) : Block("sync") = b /\ SyncAt(b, r)
  BY <1>3
<1>5. Tail(todo["sync"]) = r
  BY <1>1, <1>4 DEF SyncAt
<1>6. /\ todo'["sync"] = Tail(todo["sync"]) /\ StepsInv' /\ DOMAIN todo' = Actors
      /\ todo'["engine"] = todo["engine"] /\ MutexInv'
  BY <1>1, SyncParts
<1>7. /\ byHeight \in [Heights -> SUBSET Blocks]
      /\ byHeight' = [byHeight EXCEPT ![Height[b]] = byHeight[Height[b]] \cup {b}]
  BY <1>1, <1>2, <1>4 DEF TypeOK
<1>8. \A c \in Blocks : Height[c] \in Heights
  BY DEF BlocksFormTree
<1>9. /\ byHeight' \in [Heights -> SUBSET Blocks]
      /\ \A h \in Heights : byHeight[h] \subseteq byHeight'[h]
      /\ b \in byHeight'[Height[b]]
  BY <1>7, <1>8
<1>10. TypeOK'
  BY <1>1, <1>2, <1>6, <1>9 DEF TypeOK, Stored
<1>11. StatusesStay
  BY <1>1 DEF StatusesStay, Stored
<1>12. SyncInv'
  BY <1>4, <1>5, <1>6 DEF SyncInv
<1>13. EngineInv'
  BY <1>1, <1>2, <1>6, <1>11, EngineStays
<1>14. StatusInv'
  BY <1>1, <1>2, <1>11, StatusStays
<1>15. IndexInv'
  BY <1>1, <1>2, <1>6, <1>11, IndexStays
<1>16. LinkInv'
  <2>1. ~Doing("sync", "save")
    BY <1>1 DEF Doing
  <2>2. \A c \in Stored \ damaged : c \in byHeight[Height[c]] \/ c = b
    BY <1>2, <1>4 DEF LinkInv
  <2>3. \A c \in Stored : Height[c] \in Heights
    BY <1>2, <1>8 DEF TypeOK
  <2>4. \A c \in Stored \ damaged : c \in byHeight'[Height[c]]
    BY <2>2, <2>3, <1>9
  <2> QED
    BY <1>1, <1>2, <2>1, <2>4 DEF LinkInv, Stored
<1> QED
  BY <1>6, <1>10, <1>12, <1>13, <1>14, <1>15, <1>16 DEF IndInv

(***************************************************************************)
(* A transaction that is not in the index is in no finalized block: the    *)
(* entries of those are there, and those that are missing are written      *)
(* under the lock.                                                         *)
(***************************************************************************)
LEMMA LookUpTxStep ==
  ASSUME BlocksFormTree, IndInv, LookUpTx
  PROVE  IndInv'
<1>1. /\ todo["sync"] # << >> /\ Head(todo["sync"]).op = "txGet"
      /\ Then("sync", IF txIndex[Tx("sync")] = NoBlock
                        THEN << TxStep("txPut", Block("sync"), Tx("sync")) >> ELSE << >>)
      /\ UNCHANGED <<block, byHeight, txIndex, receiptsV2, receiptsV1, lfb, damaged, crashes>>
  BY DEF LookUpTx, indices, Doing
<1>2. /\ TypeOK /\ StepsInv /\ SyncInv /\ EngineInv /\ MutexInv /\ LinkInv
      /\ StatusInv /\ IndexInv
  BY DEF IndInv
<1>3. PICK b \in Blocks : \E r \in Rests("txGet", b) : Block("sync") = b /\ SyncAt(b, r)
  BY <1>1, SyncParts
<1>4. PICK r \in Rests("txGet", b) : Block("sync") = b /\ SyncAt(b, r)
  BY <1>3
<1>5. Tail(todo["sync"]) = r /\ Tx("sync") \in Range(TxsOf[b])
  BY <1>1, <1>4 DEF SyncAt
<1> DEFINE t == Tx("sync")
           s == TxStep("txPut", b, t)
<1>6. txIndex[t] = NoBlock => ~IsFinal(t)
  <2> SUFFICES ASSUME IsFinal(t) PROVE txIndex[t] # NoBlock
    OBVIOUS
  <2>1. PICK d \in Stored \ damaged : IsFinalized(block[d].status) /\ t \in Range(TxsOf[d])
    BY DEF IsFinal
  <2>2. TxStep("txLocked", d, t) \notin Range(todo["engine"])
    BY <1>1, <1>2, SyncParts, LockedSteps DEF TypeOK
  <2>3. LeadsToFinal(t)
    BY <2>1, <2>2, <1>2 DEF IndexInv
  <2> QED
    BY <2>3, <1>2 DEF LeadsToFinal, TypeOK, BlocksFormTree
<1>7. /\ StepsInv' /\ DOMAIN todo' = Actors /\ todo'["engine"] = todo["engine"]
      /\ todo'["sync"] = r \/ (todo'["sync"] = Before(s, r) /\ ~IsFinal(t))
  <2>1. "sync" \in Actors /\ "engine" \in Actors /\ "sync" # "engine" /\ "txPut" \in Ops
    BY DEF Actors, Ops
  <2>2. CASE txIndex[t] = NoBlock
    <3>1. Then("sync", << s >>) /\ s \in AllSteps
      BY <2>1, <2>2, <1>1, <1>4, <1>5, StepTypes
    <3> HIDE DEF s
    <3>2. << s >> \in Seq(AllSteps)
      BY <3>1, SMTT(30)
    <3>3. /\ todo'["sync"] = << s >> \o r /\ StepsInv' /\ DOMAIN todo' = Actors
          /\ todo'["engine"] = todo["engine"]
      BY <3>1, <3>2, <2>1, <1>1, <1>2, <1>5, ThenSome
    <3> QED
      BY <3>3, <2>2, <1>6 DEF Before
  <2>3. CASE txIndex[t] # NoBlock
    BY <2>3, <1>1, <1>5, SyncParts
  <2> QED
    BY <2>2, <2>3
<1>8. TypeOK'
  BY <1>1, <1>2, <1>7 DEF TypeOK, Stored
<1>9. StatusesStay
  BY <1>1 DEF StatusesStay, Stored
<1>10. \A x : IsFinal(x)' <=> IsFinal(x)
  BY <1>1 DEF IsFinal, Stored
<1>11. SyncInv'
  <2> HIDE DEF t
  <2>1. t \in Range(TxsOf[b])
    BY <1>5 DEF t
  <2>2. todo'["sync"] = r \/ (todo'["sync"] = Before(TxStep("txPut", b, t), r) /\ ~IsFinal(t))
    BY <1>7
  <2>3. PICK x \in Range(TxsOf[b]) :
          todo'["sync"] = r \/ (todo'["sync"] = Before(TxStep("txPut", b, x), r) /\ ~IsFinal(x)')
    BY <2>1, <2>2, <1>10
  <2> QED
    BY <2>3 DEF SyncInv
<1>12. EngineInv'
  BY <1>1, <1>2, <1>7, <1>9, EngineStays
<1>13. MutexInv'
  BY <1>1, <1>7, SyncParts DEF MutexInv, EngineHoldsMu, Doing
<1>14. LinkInv'
  <2>1. ~Doing("sync", "save") /\ ~Doing("sync", "index")
    BY <1>1 DEF Doing
  <2> QED
    BY <1>1, <1>2, <2>1 DEF LinkInv, Stored
<1>15. StatusInv'
  BY <1>1, <1>2, <1>9, StatusStays
<1>16. IndexInv'
  BY <1>1, <1>2, <1>7, <1>9, IndexStays
<1> QED
  BY <1>7, <1>8, <1>11, <1>12, <1>13, <1>14, <1>15, <1>16 DEF IndInv

(***************************************************************************)
(* The entry a new block makes never takes the place of one that leads to  *)
(* a finalized block.                                                      *)
(***************************************************************************)
LEMMA PutTxStep ==
  ASSUME BlocksFormTree, IndInv, IndexTx("sync", {"txPut"})
  PROVE  IndInv'
<1>1. /\ todo["sync"] # << >> /\ Head(todo["sync"]).op = "txPut"
      /\ txIndex' = [txIndex EXCEPT ![Tx("sync")] = Block("sync")]
      /\ Then("sync", << >>)
      /\ UNCHANGED <<block, byHeight, receiptsV2, receiptsV1, lfb, damaged, crashes>>
  BY DEF IndexTx
<1>2. /\ TypeOK /\ StepsInv /\ SyncInv /\ EngineInv /\ MutexInv /\ LinkInv
      /\ StatusInv /\ IndexInv
  BY DEF IndInv
<1>3. PICK b \in Blocks : \E r \in Rests("txGet", b) : Block("sync") = b /\ SyncAt(b, r)
  BY <1>1, SyncParts
<1>4. PICK r \in Rests("txGet", b) : Block("sync") = b /\ SyncAt(b, r)
  BY <1>3
<1> DEFINE t == Tx("sync")
<1>5. Tail(todo["sync"]) = r /\ t \in Range(TxsOf[b]) /\ ~IsFinal(t)
  BY <1>1, <1>4 DEF SyncAt
<1>6. /\ todo'["sync"] = Tail(todo["sync"]) /\ StepsInv' /\ DOMAIN todo' = Actors
      /\ todo'["engine"] = todo["engine"] /\ MutexInv'
  BY <1>1, SyncParts
<1>7. /\ txIndex' \in [Txs -> Blocks \cup {NoBlock}]
      /\ \A x \in Txs : x # t => txIndex'[x] = txIndex[x]
  <2>1. t \in Txs
    BY <1>5 DEF Txs
  <2>2. txIndex \in [Txs -> Blocks \cup {NoBlock}] /\ txIndex' = [txIndex EXCEPT ![t] = b]
    BY <1>1, <1>2, <1>4 DEF TypeOK
  <2> HIDE DEF t
  <2> QED
    BY <2>1, <2>2
<1> HIDE DEF t
<1>8. TypeOK'
  BY <1>1, <1>2, <1>6, <1>7 DEF TypeOK, Stored
<1>9. StatusesStay
  BY <1>1 DEF StatusesStay, Stored
<1>10. SyncInv'
  BY <1>4, <1>5, <1>6 DEF SyncInv
<1>11. EngineInv'
  BY <1>1, <1>2, <1>6, <1>9, EngineStays
<1>12. LinkInv'
  <2>1. ~Doing("sync", "save") /\ ~Doing("sync", "index")
    BY <1>1 DEF Doing
  <2> QED
    BY <1>1, <1>2, <2>1 DEF LinkInv, Stored
<1>13. StatusInv'
  BY <1>1, <1>2, <1>9, StatusStays
<1>14. IndexInv'
  <2> SUFFICES ASSUME NEW d \in Stored \ damaged, IsFinalized(block[d].status),
                      NEW x \in Range(TxsOf[d])
               PROVE  LeadsToFinal(x)' \/ TxStep("txLocked", d, x) \in Range(todo["engine"])
    BY <1>1, <1>6 DEF IndexInv, Stored
  <2>1. LeadsToFinal(x) \/ TxStep("txLocked", d, x) \in Range(todo["engine"])
    BY <1>2 DEF IndexInv
  <2>2. x # t
    BY <1>5 DEF IsFinal
  <2>3. d \in Blocks
    BY <1>2 DEF TypeOK
  <2>4. txIndex'[x] = txIndex[x]
    BY <2>2, <2>3, <1>7 DEF Txs
  <2> QED
    BY <2>1, <2>4, <1>1 DEF LeadsToFinal, Stored
<1> QED
  BY <1>6, <1>8, <1>10, <1>11, <1>12, <1>13, <1>14 DEF IndInv

-----------------------------------------------------------------------------
(***************************************************************************)
(* The steps of the engine.                                                *)
(***************************************************************************)

(***************************************************************************)
(* The step the engine is at, and what is left when it is taken.           *)
(***************************************************************************)
LEMMA EngineParts ==
  ASSUME BlocksFormTree, IndInv, todo["engine"] # << >>
  PROVE  /\ \E b \in Stored : Block("engine") = b /\ EngineAt(b)
         /\ Then("engine", << >>) =>
              /\ todo'["engine"] = Tail(todo["engine"]) /\ StepsInv' /\ DOMAIN todo' = Actors
              /\ todo'["sync"] = todo["sync"]
              /\ \A s \in Range(todo["engine"]) :
                   s = Head(todo["engine"]) \/ s \in Range(todo'["engine"])
<1>1. \E b \in Stored : Block("engine") = b /\ EngineAt(b)
  BY EngineCases DEF IndInv, TypeOK
<1>2. "sync" \in Actors /\ "engine" \in Actors /\ "sync" # "engine" /\ StepsInv
  BY DEF Actors, IndInv
<1>3. ASSUME Then("engine", << >>)
      PROVE  /\ todo'["engine"] = Tail(todo["engine"]) /\ StepsInv' /\ DOMAIN todo' = Actors
             /\ todo'["sync"] = todo["sync"]
             /\ \A s \in Range(todo["engine"]) :
                  s = Head(todo["engine"]) \/ s \in Range(todo'["engine"])
  BY <1>2, <1>3, ThenNone
<1> QED
  BY <1>1, <1>3

(***************************************************************************)
(* The lock is not taken by a step after which the next is another one.    *)
(***************************************************************************)
LEMMA MutexStays ==
  ASSUME MutexInv, todo'["sync"] = todo["sync"],
         \/ todo["sync"] = << >>
         \/ todo'["engine"] = << >>
         \/ Head(todo'["engine"]).op \notin {"txLocked", "indirect"}
         \/ EngineHoldsMu
  PROVE  MutexInv'
  BY DEF MutexInv, SyncHoldsMu, EngineHoldsMu, Doing

(***************************************************************************)
(* AddTxsToIndex with force makes the entry lead to a finalized block.     *)
(***************************************************************************)
LEMMA ForceTxStep ==
  ASSUME BlocksFormTree, IndInv, IndexTx("engine", {"txLocked", "txForce"})
  PROVE  IndInv'
<1>1. /\ todo["engine"] # << >> /\ Head(todo["engine"]).op \in {"txLocked", "txForce"}
      /\ txIndex' = [txIndex EXCEPT ![Tx("engine")] = Block("engine")]
      /\ Then("engine", << >>)
      /\ UNCHANGED <<block, byHeight, receiptsV2, receiptsV1, lfb, damaged, crashes>>
  BY DEF IndexTx
<1>2. /\ TypeOK /\ StepsInv /\ SyncInv /\ EngineInv /\ MutexInv /\ LinkInv
      /\ StatusInv /\ IndexInv
  BY DEF IndInv
<1>3. PICK b \in Stored : Block("engine") = b /\ EngineAt(b)
  BY <1>1, EngineParts
<1>4. /\ todo'["engine"] = Tail(todo["engine"]) /\ StepsInv' /\ DOMAIN todo' = Actors
      /\ todo'["sync"] = todo["sync"]
      /\ \A s \in Range(todo["engine"]) :
           s = Head(todo["engine"]) \/ s \in Range(todo'["engine"])
  BY <1>1, EngineParts
<1> DEFINE t == Tx("engine")
<1>5. b \in Blocks /\ t \in Range(TxsOf[b]) /\ IsFinalized(block[b].status)
  BY <1>1, <1>2, <1>3 DEF EngineAt, TypeOK
<1>6. /\ txIndex' \in [Txs -> Blocks \cup {NoBlock}] /\ txIndex'[t] = b
      /\ \A x \in Txs : x # t => txIndex'[x] = txIndex[x]
  <2>1. t \in Txs
    BY <1>5 DEF Txs
  <2>2. txIndex \in [Txs -> Blocks \cup {NoBlock}] /\ txIndex' = [txIndex EXCEPT ![t] = b]
    BY <1>1, <1>2, <1>3 DEF TypeOK
  <2> HIDE DEF t
  <2> QED
    BY <2>1, <2>2, <1>5
<1>7. TypeOK'
  BY <1>1, <1>2, <1>4, <1>6 DEF TypeOK, Stored
<1>8. StatusesStay
  BY <1>1 DEF StatusesStay, Stored
<1>9. SyncInv'
  BY <1>1, <1>2, <1>4, SyncStays
<1>10. ASSUME Head(todo["engine"]).op = "txForce" PROVE EngineInv' /\ MutexInv'
  <2>1. Tail(todo["engine"]) \in Rests("txForce", b)
    BY <1>3, <1>10 DEF EngineAt
  <2>2. IsValid(block[b].status)
    BY <1>5 DEF IsValid, IsFinalized
  <2>3. FinalizationInv'
    BY <2>1, <2>2, <1>1, <1>4, <1>5 DEF FinalizationInv, Stored
  <2>4. todo'["engine"] = << >> \/ Head(todo'["engine"]).op = "txForce"
    <3>1. "txForce" \in Ops
      BY DEF Ops
    <3>2. todo'["engine"] # << >> => Head(todo'["engine"]) \in TxSteps("txForce", b)
      BY <3>1, <2>1, <1>4, <1>5, RestsSteps
    <3> QED
      BY <3>2, TxStepsParts
  <2>5. MutexInv'
    BY <2>4, <1>2, <1>4, MutexStays
  <2> QED
    BY <2>3, <2>5 DEF EngineInv
<1>11. ASSUME Head(todo["engine"]).op = "txLocked" PROVE EngineInv' /\ MutexInv'
  <2>1. \E a, c \in Stored :
          /\ IsFinalized(block[a].status) /\ IsValid(block[c].status)
          /\ \E f \in Rests("txForce", a), r \in Rests("txLocked", b) :
               Tail(todo["engine"]) = r \o Before(Step("indirect", c), f)
    BY <1>3, <1>11 DEF EngineAt
  <2>2. FinalizationInv'
    <3>1. \A a \in Stored : IsFinalized(block[a].status) => IsValid(block[a].status)
      BY DEF IsFinalized, IsValid
    <3> QED
      BY <2>1, <3>1, <1>1, <1>4, <1>5 DEF FinalizationInv, Stored
  <2>3. MutexInv'
    BY <1>1, <1>2, <1>4, <1>11, MutexStays DEF EngineHoldsMu, Doing
  <2> QED
    BY <2>2, <2>3 DEF EngineInv
<1>12. EngineInv' /\ MutexInv'
  BY <1>1, <1>10, <1>11
<1>13. LinkInv'
  BY <1>1, <1>2, <1>4, LinkStays DEF Stored
<1>14. StatusInv'
  BY <1>1, <1>2, <1>8, StatusStays
<1>15. IndexInv'
  <2> SUFFICES ASSUME NEW d \in Stored \ damaged, IsFinalized(block[d].status),
                      NEW x \in Range(TxsOf[d])
               PROVE  LeadsToFinal(x)' \/ TxStep("txLocked", d, x) \in Range(todo'["engine"])
    BY <1>1 DEF IndexInv, Stored
  <2>1. LeadsToFinal(x) \/ TxStep("txLocked", d, x) \in Range(todo["engine"])
    BY <1>2 DEF IndexInv
  <2>2. x \in Txs
    <3>1. d \in Blocks
      BY <1>2 DEF TypeOK
    <3> QED
      BY <3>1 DEF Txs
  <2>3. CASE x = t
    <3> HIDE DEF t
    <3> QED
      BY <2>3, <1>1, <1>5, <1>6 DEF LeadsToFinal, Stored
  <2>4. CASE x # t /\ LeadsToFinal(x)
    <3> HIDE DEF t
    <3> QED
      BY <2>2, <2>4, <1>1, <1>6 DEF LeadsToFinal, Stored
  <2>5. CASE x # t /\ TxStep("txLocked", d, x) \in Range(todo["engine"])
    <3>1. TxStep("txLocked", d, x).tx = x
      BY DEF TxStep
    <3>2. TxStep("txLocked", d, x) # Head(todo["engine"])
      BY <3>1, <2>5 DEF Tx
    <3> QED
      BY <3>2, <2>5, <1>4
  <2> QED
    BY <2>1, <2>3, <2>4, <2>5
<1> QED
  BY <1>4, <1>7, <1>9, <1>12, <1>13, <1>14, <1>15 DEF IndInv

(***************************************************************************)
(* The first of the steps of an execution.                                 *)
(***************************************************************************)
LEMMA ExecutionSteps ==
  ASSUME BlocksFormTree, NEW b \in Blocks, NEW r \in Rests("receipt", b),
         NEW mark \in {"valid", "invalid"}
  PROVE  /\ r \o << Step(mark, b) >> \in Seq(AllSteps)
         /\ Head(r \o << Step(mark, b) >>).op \in {"receipt", "valid", "invalid"}
<1> DEFINE s == Step(mark, b)
           e == << >>
           u == Followed(r, s, e)
<1>1. s.op = mark
  BY DEF Step
<1>2. "receipt" \in Ops /\ s \in AllSteps
  BY StepTypes DEF Ops
<1> HIDE DEF s
<1>3. << s >> = Before(s, e) /\ e \in Seq(AllSteps)
  BY NoStepAfter
<1> HIDE DEF e
<1>4. r \in Seq(AllSteps) /\ (r # << >> => Head(r) \in TxSteps("receipt", b))
  BY <1>2, RestsSteps
<1>5. /\ u \in Seq(AllSteps)
      /\ r = << >> => Head(u) = s
      /\ r # << >> => Head(u) = Head(r)
  <2>1. r \in Seq(AllSteps)
    BY <1>4
  <2>2. s \in AllSteps /\ e \in Seq(AllSteps)
    BY <1>2, <1>3
  <2>3. u \in Seq(AllSteps)
    BY <2>1, <2>2, ThenParts, ZenonT(120)
  <2>4. r = << >> => Head(u) = s
    BY <2>1, <2>2, ThenParts, ZenonT(120)
  <2>5. r # << >> => Head(u) = Head(r)
    BY <2>1, <2>2, ThenParts, ZenonT(120)
  <2> QED
    BY <2>3, <2>4, <2>5
<1>6. u = r \o << Step(mark, b) >>
  BY <1>3 DEF Followed, s
<1> HIDE DEF u
<1>7. Head(u).op \in {"receipt", "valid", "invalid"}
  <2>1. CASE r = << >>
    BY <2>1, <1>1, <1>5
  <2>2. CASE r # << >>
    <3>1. Head(u) \in TxSteps("receipt", b)
      BY <2>2, <1>4, <1>5
    <3>2. Head(u).op = "receipt"
      BY <3>1, TxStepsParts
    <3> QED
      BY <3>2
  <2> QED
    BY <2>1, <2>2
<1> QED
  BY <1>5, <1>6, <1>7

(***************************************************************************)
(* The engine begins a call, with no step of FinalizePreviousBlocks.       *)
(***************************************************************************)
LEMMA CallStep ==
  ASSUME BlocksFormTree, IndInv, EngineIdle, NEW steps \in Seq(AllSteps),
         todo' = [todo EXCEPT !["engine"] = steps],
         Head(steps).op \notin {"txLocked", "indirect"},
         EngineInv', lfb' \in Stored,
         UNCHANGED <<block, byHeight, txIndex, receiptsV2, receiptsV1, damaged, crashes>>
  PROVE  IndInv'
<1>1. /\ TypeOK /\ StepsInv /\ SyncInv /\ EngineInv /\ MutexInv /\ LinkInv
      /\ StatusInv /\ IndexInv
  BY DEF IndInv
<1>2. /\ todo'["engine"] = steps /\ StepsInv' /\ DOMAIN todo' = Actors
      /\ todo'["sync"] = todo["sync"]
  <2>1. "sync" \in Actors /\ "engine" \in Actors /\ "sync" # "engine"
    BY DEF Actors
  <2> QED
    BY <2>1, <1>1, CallParts
<1>3. TypeOK'
  BY <1>1, <1>2 DEF TypeOK, Stored
<1>4. StatusesStay
  BY DEF StatusesStay, Stored
<1>5. SyncInv'
  BY <1>1, <1>2, SyncStays
<1>6. MutexInv'
  BY <1>1, <1>2, MutexStays
<1>7. LinkInv'
  BY <1>1, <1>2, LinkStays DEF Stored
<1>8. StatusInv'
  BY <1>1, <1>4, StatusStays
<1>9. IndexInv'
  <2>1. \A d, t : TxStep("txLocked", d, t) \notin Range(todo["engine"])
    <3>1. Range(<< >>) = {}
      BY NoStepAfter
    <3> QED
      BY <3>1 DEF EngineIdle
  <2> QED
    BY <1>1, <1>4, <2>1, IndexStays
<1> QED
  BY <1>2, <1>3, <1>5, <1>6, <1>7, <1>8, <1>9 DEF IndInv

(***************************************************************************)
(* The execution of a block begins.                                        *)
(***************************************************************************)
LEMMA ExecuteBlockStep ==
  ASSUME BlocksFormTree, IndInv, NEW b \in Stored, ExecuteBlock(b)
  PROVE  IndInv'
<1> DEFINE r == ForTxs("receipt", b)
<1>1. /\ EngineIdle /\ block[b].status = "pending"
      /\ ParentOf[b] \in Stored /\ IsValid(block[ParentOf[b]].status)
      /\ UNCHANGED <<block, byHeight, txIndex, receiptsV2, receiptsV1, lfb, damaged, crashes>>
  BY DEF ExecuteBlock, indices
<1>2. PICK mark \in {"valid", "invalid"} :
        todo' = [todo EXCEPT !["engine"] = r \o << Step(mark, b) >>]
  BY DEF ExecuteBlock
<1>3. TypeOK /\ StepsInv /\ b \in Blocks
  BY DEF IndInv, TypeOK
<1>4. r \in Rests("receipt", b) /\ Range(r) = TxSteps("receipt", b)
  BY <1>3, RestsParts
<1>5. \A t \in Range(TxsOf[b]) : TxStep("receipt", b, t) \in Range(r)
  BY <1>4 DEF TxSteps
<1> HIDE DEF r
<1> DEFINE steps == r \o << Step(mark, b) >>
<1>6. steps \in Seq(AllSteps) /\ Head(steps).op \in {"receipt", "valid", "invalid"}
  BY <1>3, <1>4, ExecutionSteps
<1>7. todo'["engine"] = steps
  BY <1>2, <1>3 DEF TypeOK, Actors
<1>8. ExecutionInv'
  BY <1>1, <1>4, <1>5, <1>7 DEF ExecutionInv, Stored
<1>9. EngineInv' /\ lfb' \in Stored
  BY <1>1, <1>3, <1>8 DEF EngineInv, TypeOK
<1> HIDE DEF steps
<1>10. todo' = [todo EXCEPT !["engine"] = steps]
  BY <1>2 DEF steps
<1> QED
  BY <1>1, <1>6, <1>9, <1>10, CallStep

(***************************************************************************)
(* CommitBlock begins.                                                     *)
(***************************************************************************)
LEMMA CommitBlockStep ==
  ASSUME BlocksFormTree, IndInv, NEW b \in Stored, CommitBlock(b)
  PROVE  IndInv'
<1> DEFINE s == Step("committed", b)
           steps == << s >>
<1>1. /\ EngineIdle /\ block[b].status = "valid"
      /\ todo' = [todo EXCEPT !["engine"] = steps]
      /\ UNCHANGED <<block, byHeight, txIndex, receiptsV2, receiptsV1, lfb, damaged, crashes>>
  BY DEF CommitBlock, indices
<1>2. TypeOK /\ StepsInv /\ b \in Blocks
  BY DEF IndInv, TypeOK
<1>3. s.op = "committed"
  BY DEF Step
<1>4. s \in AllSteps
  BY <1>2, StepTypes DEF Ops
<1>5. todo'["engine"] = << Step("committed", b) >>
  BY <1>1, <1>2 DEF TypeOK, Actors
<1>6. EngineInv' /\ lfb' \in Stored
  BY <1>1, <1>2, <1>5 DEF EngineInv, TypeOK, Stored
<1> HIDE DEF s
<1>7. steps \in Seq(AllSteps) /\ Head(steps) = s
  BY <1>4, SMTT(30)
<1> HIDE DEF steps
<1>8. Head(steps).op = "committed"
  BY <1>3, <1>7
<1> QED
  BY <1>1, <1>6, <1>7, <1>8, CallStep

(***************************************************************************)
(* finalizeBlock begins.                                                   *)
(***************************************************************************)
LEMMA FinalizeBlockStep ==
  ASSUME BlocksFormTree, IndInv, NEW b \in Stored, FinalizeBlock(b)
  PROVE  IndInv'
<1> DEFINE s == Step("direct", b)
           f == ForTxs("txForce", b)
           steps == Before(s, f)
<1>1. /\ EngineIdle /\ IsValid(block[b].status) /\ lfb' = b
      /\ todo' = [todo EXCEPT !["engine"] = steps]
      /\ UNCHANGED <<block, byHeight, txIndex, receiptsV2, receiptsV1, damaged, crashes>>
  BY DEF FinalizeBlock, indices, Before
<1>2. TypeOK /\ StepsInv /\ b \in Blocks
  BY DEF IndInv, TypeOK
<1>3. s.op = "direct"
  BY DEF Step
<1>4. s \in AllSteps /\ "txForce" \in Ops
  BY <1>2, StepTypes DEF Ops
<1>5. f \in Rests("txForce", b)
  BY <1>2, RestsParts
<1>6. f \in Seq(AllSteps)
  BY <1>2, <1>4, <1>5, RestsSteps
<1> HIDE DEF f
<1>7. todo'["engine"] = Before(Step("direct", b), f)
  BY <1>1, <1>2 DEF TypeOK, Actors
<1>8. FinalizationInv'
  BY <1>1, <1>5, <1>7 DEF FinalizationInv, Stored
<1>9. EngineInv' /\ lfb' \in Stored
  BY <1>1, <1>8 DEF EngineInv
<1> HIDE DEF s
<1>10. Head(steps) = s /\ steps \in Seq(AllSteps)
  <2>1. Head(steps) = s /\ steps \in Seq(AllSteps \cup {s})
    BY <1>6, BeforeParts
  <2>2. AllSteps \cup {s} = AllSteps
    BY <1>4
  <2> QED
    BY <2>1, <2>2
<1> HIDE DEF steps
<1>11. Head(steps).op = "direct"
  BY <1>3, <1>10
<1> QED
  BY <1>1, <1>9, <1>10, <1>11, CallStep

(***************************************************************************)
(* A receipt is added.                                                     *)
(***************************************************************************)
LEMMA AddTxReceiptStep ==
  ASSUME BlocksFormTree, IndInv, AddTxReceipt
  PROVE  IndInv'
<1>1. /\ todo["engine"] # << >> /\ Head(todo["engine"]).op = "receipt"
      /\ receiptsV2' = receiptsV2 \cup {<<Block("engine"), Tx("engine")>>}
      /\ receiptsV1' = [receiptsV1 EXCEPT ![Tx("engine")] = Block("engine")]
      /\ Then("engine", << >>)
      /\ UNCHANGED <<block, byHeight, txIndex, lfb, damaged, crashes>>
  BY DEF AddTxReceipt, Doing
<1>2. /\ TypeOK /\ StepsInv /\ SyncInv /\ EngineInv /\ MutexInv /\ LinkInv
      /\ StatusInv /\ IndexInv
  BY DEF IndInv
<1>3. PICK b \in Stored : Block("engine") = b /\ EngineAt(b)
  BY <1>1, EngineParts
<1>4. /\ todo'["engine"] = Tail(todo["engine"]) /\ StepsInv' /\ DOMAIN todo' = Actors
      /\ todo'["sync"] = todo["sync"]
      /\ \A s \in Range(todo["engine"]) :
           s = Head(todo["engine"]) \/ s \in Range(todo'["engine"])
  BY <1>1, EngineParts
<1> DEFINE t == Tx("engine")
<1>5. /\ t \in Range(TxsOf[b]) /\ block[b].status = "pending"
      /\ ParentOf[b] \in Stored /\ IsValid(block[ParentOf[b]].status)
      /\ \E mark \in {"valid", "invalid"} : \E r \in Rests("receipt", b) :
          /\ Tail(todo["engine"]) = r \o << Step(mark, b) >>
          /\ \A x \in Range(TxsOf[b]) : \/ <<b, x>> \in receiptsV2 \/ x = t
                                        \/ TxStep("receipt", b, x) \in Range(r)
  BY <1>1, <1>3 DEF EngineAt
<1>6. PICK mark \in {"valid", "invalid"} : \E r \in Rests("receipt", b) :
          /\ Tail(todo["engine"]) = r \o << Step(mark, b) >>
          /\ \A x \in Range(TxsOf[b]) : \/ <<b, x>> \in receiptsV2 \/ x = t
                                        \/ TxStep("receipt", b, x) \in Range(r)
  BY <1>5
<1>7. PICK r \in Rests("receipt", b) :
          /\ Tail(todo["engine"]) = r \o << Step(mark, b) >>
          /\ \A x \in Range(TxsOf[b]) : \/ <<b, x>> \in receiptsV2 \/ x = t
                                        \/ TxStep("receipt", b, x) \in Range(r)
  BY <1>6
<1>8. b \in Blocks /\ t \in Txs
  <2>1. b \in Blocks
    BY <1>2 DEF TypeOK
  <2> QED
    BY <2>1, <1>5 DEF Txs
<1>9. receiptsV2' = receiptsV2 \cup {<<b, t>>} /\ receiptsV1' = [receiptsV1 EXCEPT ![t] = b]
  BY <1>1, <1>3
<1> HIDE DEF t
<1>10. receiptsV2' \subseteq Blocks \X Txs /\ receiptsV1' \in [Txs -> Blocks \cup {NoBlock}]
  <2>1. receiptsV2 \subseteq Blocks \X Txs /\ receiptsV1 \in [Txs -> Blocks \cup {NoBlock}]
    BY <1>2 DEF TypeOK
  <2>2. <<b, t>> \in Blocks \X Txs
    BY <1>8
  <2>3. receiptsV2' \subseteq Blocks \X Txs
    BY <2>1, <2>2, <1>9
  <2>4. receiptsV1' \in [Txs -> Blocks \cup {NoBlock}]
    BY <2>1, <1>8, <1>9
  <2> QED
    BY <2>3, <2>4
<1>11. TypeOK'
  BY <1>1, <1>2, <1>4, <1>10 DEF TypeOK, Stored
<1>12. StatusesStay /\ receiptsV2 \subseteq receiptsV2'
  BY <1>1 DEF StatusesStay, Stored
<1>13. SyncInv'
  BY <1>1, <1>2, <1>4, SyncStays
<1>14. \A x \in Range(TxsOf[b]) :
         <<b, x>> \in receiptsV2' \/ TxStep("receipt", b, x) \in Range(r)
  BY <1>7, <1>9
<1>15. EngineInv'
  <2>1. ExecutionInv'
    BY <1>1, <1>4, <1>5, <1>7, <1>14 DEF ExecutionInv, Stored
  <2> QED
    BY <2>1 DEF EngineInv
<1>16. MutexInv'
  <2>1. Head(todo'["engine"]).op \in {"receipt", "valid", "invalid"}
    BY <1>4, <1>7, <1>8, ExecutionSteps
  <2> QED
    BY <2>1, <1>2, <1>4, MutexStays
<1>17. LinkInv'
  BY <1>1, <1>2, <1>4, LinkStays DEF Stored
<1>18. StatusInv'
  BY <1>2, <1>12, StatusStays
<1>19. IndexInv'
  <2>1. \A d, x : TxStep("txLocked", d, x) # Head(todo["engine"])
    BY <1>1, OtherStep
  <2>2. \A d, x : TxStep("txLocked", d, x) \in Range(todo["engine"])
                    => TxStep("txLocked", d, x) \in Range(todo'["engine"])
    BY <2>1, <1>4
  <2> QED
    BY <1>1, <1>2, <1>12, <2>2, IndexStays
<1> QED
  BY <1>4, <1>11, <1>13, <1>15, <1>16, <1>17, <1>18, <1>19 DEF IndInv

(***************************************************************************)
(* A saved block gets another status.                                      *)
(***************************************************************************)
LEMMA StatusChange ==
  ASSUME TypeOK, NEW b \in Stored, NEW st \in Statuses,
         block' = [block EXCEPT ![b].status = st]
  PROVE  /\ Stored' = Stored /\ block'[b].status = st
         /\ \A c \in Stored : c # b => block'[c].status = block[c].status
         /\ \A c \in Stored : block'[c].children = block[c].children
         /\ \A c \in Stored : block'[c] \in [status : Statuses, children : SUBSET Blocks]
<1>1. \A c \in Stored : block[c] \in [status : Statuses, children : SUBSET Blocks]
  BY DEF TypeOK
<1>2. /\ DOMAIN block' = DOMAIN block
      /\ block'[b] = [block[b] EXCEPT !.status = st]
      /\ \A c \in DOMAIN block : c # b => block'[c] = block[c]
  BY DEF Stored
<1>3. /\ block'[b].status = st /\ block'[b].children = block[b].children
      /\ block'[b] \in [status : Statuses, children : SUBSET Blocks]
  <2> DEFINE v == block[b]
             w == block'[b]
  <2>1. v \in [status : Statuses, children : SUBSET Blocks] /\ w = [v EXCEPT !.status = st]
    BY <1>1, <1>2
  <2> HIDE DEF v, w
  <2>2. w.status = st /\ w.children = v.children
    BY <2>1
  <2>3. w \in [status : Statuses, children : SUBSET Blocks]
    BY <2>1
  <2> QED
    BY <2>2, <2>3 DEF v, w
<1> QED
  BY <1>1, <1>2, <1>3 DEF Stored

(***************************************************************************)
(* A block becomes valid only when its parent is and all its receipts are  *)
(* there.                                                                  *)
(***************************************************************************)
LEMMA MarkBlockStep ==
  ASSUME BlocksFormTree, IndInv, MarkBlock
  PROVE  IndInv'
<1> DEFINE op == Head(todo["engine"]).op
<1>1. /\ todo["engine"] # << >> /\ op \in {"valid", "invalid", "committed"}
      /\ todo["sync"] = << >>
      /\ block' = [block EXCEPT ![Block("engine")].status = op]
      /\ Then("engine", << >>)
      /\ UNCHANGED <<byHeight, txIndex, receiptsV2, receiptsV1, lfb, damaged, crashes>>
  BY DEF MarkBlock, Doing, indices, SyncHoldsMu
<1>2. /\ TypeOK /\ StepsInv /\ SyncInv /\ EngineInv /\ MutexInv /\ LinkInv
      /\ StatusInv /\ IndexInv
  BY DEF IndInv
<1>3. PICK b \in Stored : Block("engine") = b /\ EngineAt(b)
  BY <1>1, EngineParts
<1>4. /\ todo'["engine"] = Tail(todo["engine"]) /\ StepsInv' /\ DOMAIN todo' = Actors
      /\ todo'["sync"] = todo["sync"]
      /\ \A s \in Range(todo["engine"]) :
           s = Head(todo["engine"]) \/ s \in Range(todo'["engine"])
  BY <1>1, EngineParts
<1>5. /\ Tail(todo["engine"]) = << >>
      /\ \/ block[b].status = "valid"
         \/ /\ block[b].status = "pending"
            /\ ParentOf[b] \in Stored /\ IsValid(block[ParentOf[b]].status)
            /\ \A t \in Range(TxsOf[b]) : <<b, t>> \in receiptsV2
  BY <1>1, <1>3 DEF EngineAt
<1>6. /\ Stored' = Stored /\ block'[b].status = op
      /\ \A c \in Stored : c # b => block'[c].status = block[c].status
      /\ \A c \in Stored : block'[c].children = block[c].children
      /\ \A c \in Stored : block'[c] \in [status : Statuses, children : SUBSET Blocks]
  <2>1. op \in Statuses /\ block' = [block EXCEPT ![b].status = op]
    BY <1>1, <1>3 DEF Statuses
  <2> HIDE DEF op
  <2> QED
    BY <2>1, <1>2, StatusChange
<1>7. block[b].status = "valid" => op = "committed"
  BY <1>1, <1>3 DEF EngineAt
<1> HIDE DEF op
<1>8. TypeOK'
  BY <1>1, <1>2, <1>4, <1>6 DEF TypeOK
<1>9. SyncInv'
  BY <1>1, <1>4, SyncIdle
<1>10. EngineInv' /\ MutexInv'
  BY <1>1, <1>2, <1>4, <1>5, MutexStays DEF EngineInv, EngineIdle
<1>11. LinkInv'
  BY <1>1, <1>2, <1>4, <1>6, LinkStays
<1>12. /\ \A c \in Stored : IsFinalized(block'[c].status) <=> IsFinalized(block[c].status)
       /\ \A c \in Stored : IsValid(block[c].status) => IsValid(block'[c].status)
  <2>1. ~IsFinalized(block[b].status) /\ ~IsFinalized(block'[b].status)
    BY <1>1, <1>5, <1>6 DEF IsFinalized
  <2>2. IsValid(block[b].status) => IsValid(block'[b].status)
    BY <1>5, <1>6, <1>7 DEF IsValid
  <2> QED
    BY <2>1, <2>2, <1>6
<1>13. StatusInv'
  <2>1. Genesis \in Stored' /\ IsFinalized(block'[Genesis].status)
    BY <1>2, <1>6, <1>12 DEF StatusInv
  <2>2. ASSUME NEW c \in Stored, IsValid(block'[c].status)
        PROVE  /\ c # Genesis => ParentOf[c] \in Stored /\ IsValid(block[ParentOf[c]].status)
               /\ \A t \in Range(TxsOf[c]) : <<c, t>> \in receiptsV2
    <3>1. CASE IsValid(block[c].status)
      BY <3>1, <1>2 DEF StatusInv
    <3>2. CASE c = b /\ block[b].status = "pending"
      BY <3>2, <1>5
    <3> QED
      BY <3>1, <3>2, <2>2, <1>5, <1>6 DEF IsValid
  <2> QED
    BY <2>1, <2>2, <1>1, <1>6, <1>12 DEF StatusInv
<1>14. IndexInv'
  <2>1. \A d, x : TxStep("txLocked", d, x) # Head(todo["engine"])
    BY <1>1, OtherStep DEF op
  <2>2. \A d, x : TxStep("txLocked", d, x) \in Range(todo["engine"])
                    => TxStep("txLocked", d, x) \in Range(todo'["engine"])
    BY <2>1, <1>4
  <2>3. \A x : LeadsToFinal(x) => LeadsToFinal(x)'
    BY <1>1, <1>6, <1>12 DEF LeadsToFinal
  <2> QED
    BY <2>2, <2>3, <1>1, <1>2, <1>6, <1>12 DEF IndexInv
<1> QED
  BY <1>4, <1>8, <1>9, <1>10, <1>11, <1>13, <1>14 DEF IndInv

(***************************************************************************)
(* FinalizePreviousBlocks: at the end of its loop, and for one block more. *)
(***************************************************************************)
LEMMA FinalizeAt ==
  ASSUME BlocksFormTree, IndInv, todo["engine"] # << >>,
         Head(todo["engine"]).op \in {"direct", "indirect"}
  PROVE  \E b \in Stored :
           /\ Block("engine") = b /\ IsValid(block[b].status)
           /\ \E a \in Stored : /\ a = b \/ IsFinalized(block[a].status)
                               /\ Tail(todo["engine"]) \in Rests("txForce", a)
<1>1. PICK b \in Stored : Block("engine") = b /\ EngineAt(b)
  BY EngineParts
<1> QED
  BY <1>1 DEF EngineAt

(***************************************************************************)
(* At a block that is finalized already, FinalizePreviousBlocks ends its   *)
(* loop.                                                                   *)
(***************************************************************************)
LEMMA FinalizeEndStep ==
  ASSUME BlocksFormTree, IndInv, todo["engine"] # << >>, todo["sync"] = << >>,
         Head(todo["engine"]).op \in {"direct", "indirect"},
         Then("engine", << >>), IsFinalized(block[Block("engine")].status),
         UNCHANGED <<block, byHeight, txIndex, receiptsV2, receiptsV1, lfb, damaged, crashes>>
  PROVE  IndInv'
<1>1. /\ TypeOK /\ StepsInv /\ SyncInv /\ EngineInv /\ MutexInv /\ LinkInv
      /\ StatusInv /\ IndexInv
  BY DEF IndInv
<1>2. PICK b \in Stored :
        /\ Block("engine") = b /\ IsValid(block[b].status)
        /\ \E a \in Stored : /\ a = b \/ IsFinalized(block[a].status)
                            /\ Tail(todo["engine"]) \in Rests("txForce", a)
  BY FinalizeAt
<1>3. PICK a \in Stored : /\ a = b \/ IsFinalized(block[a].status)
                          /\ Tail(todo["engine"]) \in Rests("txForce", a)
  BY <1>2
<1>4. /\ todo'["engine"] = Tail(todo["engine"]) /\ StepsInv' /\ DOMAIN todo' = Actors
      /\ todo'["sync"] = todo["sync"]
      /\ \A s \in Range(todo["engine"]) :
           s = Head(todo["engine"]) \/ s \in Range(todo'["engine"])
  BY EngineParts
<1>5. IsFinalized(block[a].status) /\ IsValid(block[a].status)
  BY <1>2, <1>3 DEF IsFinalized, IsValid
<1>6. FinalizationInv'
  BY <1>3, <1>4, <1>5 DEF FinalizationInv, Stored
<1>7. EngineInv'
  BY <1>6 DEF EngineInv
<1>8. TypeOK'
  BY <1>1, <1>4 DEF TypeOK, Stored
<1>9. StatusesStay
  BY DEF StatusesStay, Stored
<1>10. SyncInv' /\ MutexInv'
  BY <1>1, <1>4, SyncStays, MutexStays
<1>11. LinkInv'
  BY <1>1, <1>4, LinkStays DEF Stored
<1>12. StatusInv'
  BY <1>1, <1>9, StatusStays
<1>13. IndexInv'
  <2>1. \A d, x : TxStep("txLocked", d, x) # Head(todo["engine"])
    BY OtherStep
  <2>2. \A d, x : TxStep("txLocked", d, x) \in Range(todo["engine"])
                    => TxStep("txLocked", d, x) \in Range(todo'["engine"])
    BY <2>1, <1>4
  <2> QED
    BY <1>1, <1>9, <2>2, IndexStays
<1> QED
  BY <1>4, <1>7, <1>8, <1>10, <1>11, <1>12, <1>13 DEF IndInv

(***************************************************************************)
(* The steps that come in place of the one for a block.                    *)
(***************************************************************************)
LEMMA LoopSteps ==
  ASSUME BlocksFormTree, NEW b \in Blocks, NEW c \in Blocks, NEW f \in Seq(AllSteps)
  PROVE  LET r == ForTxs("txLocked", b)
             s == Step("indirect", c)
         IN  /\ r \in Rests("txLocked", b) /\ r \o << s >> \in Seq(AllSteps)
             /\ (r \o << s >>) \o f = r \o Before(s, f)
             /\ \A t \in Range(TxsOf[b]) :
                  TxStep("txLocked", b, t) \in Range(r \o Before(s, f))
<1> DEFINE r == ForTxs("txLocked", b)
           s == Step("indirect", c)
<1>1. r \in Rests("txLocked", b) /\ Range(r) = TxSteps("txLocked", b)
  BY RestsParts
<1>2. "txLocked" \in Ops /\ "indirect" \in Ops
  BY DEF Ops
<1>3. s \in AllSteps
  BY <1>2, StepTypes
<1>4. \A t \in Range(TxsOf[b]) : TxStep("txLocked", b, t) \in Range(r)
  BY <1>1 DEF TxSteps
<1> HIDE DEF r, s
<1>5. r \in Seq(AllSteps)
  BY <1>1, <1>2, RestsSteps
<1>6. << s >> \in Seq(AllSteps)
  BY <1>3, SMTT(30)
<1>7. r \o << s >> \in Seq(AllSteps)
  BY <1>5, <1>6, ConcatParts, SMTT(30)
<1>8. \A x, y, z \in Seq(AllSteps) : (x \o y) \o z = x \o (y \o z)
  BY SMTT(30)
<1>9. (r \o << s >>) \o f = r \o Before(s, f)
  BY <1>5, <1>6, <1>8 DEF Before
<1>10. \A x \in Range(r) : x \in Range(Followed(r, s, f))
  BY <1>3, <1>5, ThenParts
<1>11. \A t \in Range(TxsOf[b]) : TxStep("txLocked", b, t) \in Range(r \o Before(s, f))
  BY <1>4, <1>10 DEF Followed
<1> QED
  BY <1>1, <1>7, <1>9, <1>11 DEF r, s

(***************************************************************************)
(* A block that becomes finalized has a valid parent to go on with, and    *)
(* all its transactions are still to be entered.                           *)
(***************************************************************************)
LEMMA FinalizeOneStep ==
  ASSUME BlocksFormTree, IndInv, todo["engine"] # << >>, todo["sync"] = << >>,
         Head(todo["engine"]).op \in {"direct", "indirect"},
         NEW b \in Stored, b = Block("engine"), ~IsFinalized(block[b].status),
         block' = [block EXCEPT ![b].status = Head(todo["engine"]).op],
         Then("engine", ForTxs("txLocked", b) \o << Step("indirect", ParentOf[b]) >>),
         UNCHANGED <<byHeight, txIndex, receiptsV2, receiptsV1, lfb, damaged, crashes>>
  PROVE  IndInv'
<1> DEFINE op == Head(todo["engine"]).op
           r == ForTxs("txLocked", b)
           f == Tail(todo["engine"])
           p == ParentOf[b]
           s == Step("indirect", p)
<1>1. /\ TypeOK /\ StepsInv /\ SyncInv /\ EngineInv /\ MutexInv /\ LinkInv
      /\ StatusInv /\ IndexInv
  BY DEF IndInv
<1>2. /\ IsValid(block[b].status)
      /\ \E a \in Stored : /\ a = b \/ IsFinalized(block[a].status)
                          /\ f \in Rests("txForce", a)
  BY FinalizeAt
<1>3. PICK a \in Stored : /\ a = b \/ IsFinalized(block[a].status)
                          /\ f \in Rests("txForce", a)
  BY <1>2
<1>4. b \in Blocks /\ p \in Stored /\ p \in Blocks /\ IsValid(block[p].status)
  BY <1>1, <1>2 DEF TypeOK, StatusInv
<1>5. f \in Seq(AllSteps)
  <2>1. todo["engine"] \in Seq(AllSteps)
    BY <1>1 DEF StepsInv, AllSteps, Actors
  <2> QED
    BY <2>1, SeqParts
<1>6. /\ r \in Rests("txLocked", b) /\ r \o << s >> \in Seq(AllSteps)
      /\ (r \o << s >>) \o f = r \o Before(s, f)
      /\ \A t \in Range(TxsOf[b]) : TxStep("txLocked", b, t) \in Range(r \o Before(s, f))
  BY <1>4, <1>5, LoopSteps
<1> DEFINE steps == r \o << s >>
<1>7. /\ todo'["engine"] = steps \o f /\ StepsInv' /\ DOMAIN todo' = Actors
      /\ todo'["sync"] = todo["sync"]
  <2>1. /\ "sync" \in Actors /\ "engine" \in Actors /\ "sync" # "engine"
        /\ steps \in Seq(AllSteps) /\ Then("engine", steps)
    BY <1>6 DEF Actors
  <2> HIDE DEF steps
  <2> QED
    BY <2>1, <1>1, ThenSome
<1>8. todo'["engine"] = r \o Before(s, f)
  BY <1>6, <1>7
<1>9. /\ Stored' = Stored /\ block'[b].status = op
      /\ \A c \in Stored : c # b => block'[c].status = block[c].status
      /\ \A c \in Stored : block'[c].children = block[c].children
      /\ \A c \in Stored : block'[c] \in [status : Statuses, children : SUBSET Blocks]
  <2>1. op \in Statuses /\ block' = [block EXCEPT ![b].status = op]
    BY DEF Statuses
  <2> HIDE DEF op
  <2> QED
    BY <2>1, <1>1, StatusChange
<1>10. /\ IsFinalized(block'[b].status)
       /\ \A c \in Stored : IsFinalized(block'[c].status) => c = b \/ IsFinalized(block[c].status)
       /\ \A c \in Stored : IsFinalized(block[c].status) => IsFinalized(block'[c].status)
       /\ \A c \in Stored : IsValid(block[c].status) => IsValid(block'[c].status)
       /\ \A c \in Stored : IsValid(block'[c].status) => IsValid(block[c].status)
  <2>1. IsFinalized(block'[b].status) /\ IsValid(block'[b].status)
    BY <1>9 DEF IsFinalized, IsValid
  <2> QED
    BY <2>1, <1>2, <1>9
<1> HIDE DEF op, f, p
<1>11. FinalizationInv'
  <2>1. IsFinalized(block'[a].status) /\ IsValid(block'[a].status)
    BY <1>3, <1>10 DEF IsFinalized, IsValid
  <2>2. IsValid(block'[p].status)
    BY <1>4, <1>10
  <2> HIDE DEF r
  <2> QED
    <3>1. /\ a \in Stored' /\ b \in Stored' /\ p \in Stored'
          /\ todo'["engine"] = r \o Before(Step("indirect", p), f)
      BY <1>3, <1>4, <1>8, <1>9
    <3>2. r \in Rests("txLocked", b) /\ IsFinalized(block'[b].status)
      BY <1>6, <1>10
    <3>3. \E c, d \in Stored' : \E q \in Rests("txLocked", d) :
            /\ todo'["engine"] = q \o Before(Step("indirect", c), f)
            /\ IsFinalized(block'[d].status) /\ IsValid(block'[c].status)
      BY <2>2, <3>1, <3>2
    <3> QED
      BY <2>1, <3>1, <3>3, <1>3 DEF FinalizationInv
<1>12. EngineInv' /\ MutexInv'
  BY <1>1, <1>7, <1>11, MutexStays DEF EngineInv
<1>13. TypeOK'
  BY <1>1, <1>7, <1>9 DEF TypeOK
<1>14. SyncInv'
  BY <1>7, SyncIdle
<1>15. LinkInv'
  BY <1>1, <1>7, <1>9, LinkStays
<1>16. StatusInv'
  BY <1>1, <1>9, <1>10 DEF StatusInv
<1>17. IndexInv'
  <2>1. \A d, x : TxStep("txLocked", d, x) \notin Range(todo["engine"])
    <3>1. \A y \in Range(todo["engine"]) : y.op # "txLocked"
      BY <1>1, EngineCases DEF TypeOK
    <3>2. \A d, x : TxStep("txLocked", d, x).op = "txLocked"
      BY DEF TxStep
    <3> QED
      BY <3>1, <3>2
  <2>2. \A x : LeadsToFinal(x) => LeadsToFinal(x)'
    BY <1>9, <1>10 DEF LeadsToFinal
  <2> HIDE DEF r, s
  <2>3. ASSUME NEW d \in Stored' \ damaged', IsFinalized(block'[d].status),
               NEW x \in Range(TxsOf[d])
        PROVE  LeadsToFinal(x)' \/ TxStep("txLocked", d, x) \in Range(todo'["engine"])
    <3>1. CASE d = b
      BY <3>1, <1>6, <1>8
    <3>2. CASE d # b
      <4>1. d \in Stored \ damaged /\ IsFinalized(block[d].status)
        BY <3>2, <2>3, <1>9, <1>10
      <4> QED
        BY <4>1, <2>1, <2>2, <1>1 DEF IndexInv
    <3> QED
      BY <3>1, <3>2
  <2> QED
    BY <2>3 DEF IndexInv
<1> QED
  BY <1>7, <1>12, <1>13, <1>14, <1>15, <1>16, <1>17 DEF IndInv

(***************************************************************************)
(* One round of the loop of FinalizePreviousBlocks.                        *)
(***************************************************************************)
LEMMA FinalizePreviousBlocksStep ==
  ASSUME BlocksFormTree, IndInv, FinalizePreviousBlocks
  PROVE  IndInv'
<1>1. /\ todo["engine"] # << >> /\ Head(todo["engine"]).op \in {"direct", "indirect"}
      /\ todo["sync"] = << >>
      /\ UNCHANGED <<byHeight, txIndex, receiptsV2, receiptsV1, lfb, damaged, crashes>>
  BY DEF FinalizePreviousBlocks, Doing, indices, SyncHoldsMu
<1>2. PICK b \in Stored : b = Block("engine")
  BY <1>1, FinalizeAt
<1>3. CASE IsFinalized(block[b].status)
  <2>1. Then("engine", << >>) /\ UNCHANGED block
    BY <1>2, <1>3 DEF FinalizePreviousBlocks
  <2> QED
    BY <2>1, <1>1, <1>2, <1>3, FinalizeEndStep
<1>4. CASE ~IsFinalized(block[b].status)
  <2>1. /\ block' = [block EXCEPT ![b].status = Head(todo["engine"]).op]
        /\ Then("engine", ForTxs("txLocked", b) \o << Step("indirect", ParentOf[b]) >>)
    BY <1>2, <1>4 DEF FinalizePreviousBlocks
  <2> QED
    BY <2>1, <1>1, <1>2, <1>4, FinalizeOneStep
<1> QED
  BY <1>3, <1>4

-----------------------------------------------------------------------------
(***************************************************************************)
(* A crash damages the blocks of the calls it ends, so the rest of the     *)
(* invariant says nothing more of them.                                    *)
(***************************************************************************)
LEMMA CrashStep ==
  ASSUME BlocksFormTree, MaxCrashes \in Nat, IndInv, Crash
  PROVE  IndInv'
<1>1. /\ crashes < MaxCrashes /\ crashes' = crashes + 1
      /\ damaged' = damaged \cup {s.block : s \in Range(todo["sync"]) \cup Range(todo["engine"])}
      /\ todo' = [a \in Actors |-> << >>]
      /\ UNCHANGED <<block, byHeight, txIndex, receiptsV2, receiptsV1, lfb>>
  BY DEF Crash, indices
<1>2. /\ TypeOK /\ StepsInv /\ SyncInv /\ EngineInv /\ MutexInv /\ LinkInv
      /\ StatusInv /\ IndexInv
  BY DEF IndInv
<1>3. todo["sync"] \in Seq(AllSteps) /\ todo["engine"] \in Seq(AllSteps)
  BY <1>2 DEF StepsInv, AllSteps, Actors
<1>4. /\ DOMAIN todo' = Actors /\ todo'["sync"] = << >> /\ todo'["engine"] = << >>
  BY <1>1 DEF Actors
<1>5. crashes' \in 0 .. MaxCrashes
  BY <1>1, <1>2, SMTT(30) DEF TypeOK
<1>6. damaged' \subseteq Blocks
  <2>1. \A q \in Seq(AllSteps) : \A s \in Range(q) : s \in AllSteps
    BY SMTT(30) DEF Range
  <2>2. \A s \in AllSteps : s.block \in Blocks
    BY DEF AllSteps
  <2>3. damaged \subseteq Blocks
    BY <1>2 DEF TypeOK
  <2> QED
    BY <2>1, <2>2, <2>3, <1>1, <1>3
<1>7. TypeOK'
  BY <1>1, <1>2, <1>4, <1>5, <1>6 DEF TypeOK, Stored
<1>8. StepsInv'
  <2>1. << >> \in Seq(AllSteps)
    BY NoStepAfter
  <2> QED
    BY <2>1, <1>1 DEF StepsInv, AllSteps
<1>9. SyncInv'
  BY <1>4, SyncIdle
<1>10. EngineInv' /\ MutexInv'
  BY <1>4 DEF EngineInv, EngineIdle, MutexInv, SyncHoldsMu
<1>11. \A op : Doing("sync", op) => Block("sync") \in damaged'
  <2>1. todo["sync"] # << >> => Head(todo["sync"]) \in Range(todo["sync"])
    BY <1>3, SeqParts
  <2> QED
    BY <2>1, <1>1 DEF Doing, Block
<1>12. damaged \subseteq damaged'
  BY <1>1
<1>13. LinkInv'
  <2>1. \A b \in Stored : \A c \in block[b].children : ParentOf[c] = b /\ c \in Stored \cup damaged'
    BY <1>2, <1>11, <1>12 DEF LinkInv
  <2>2. \A b, c \in Stored \ damaged' : ParentOf[c] = b => c \in block[b].children
    BY <1>2, <1>12 DEF LinkInv
  <2>3. \A b \in Stored \ damaged' : b \in byHeight[Height[b]]
    <3>1. \A b \in Stored \ damaged :
            b \in byHeight[Height[b]] \/ (Doing("sync", "index") /\ Block("sync") = b)
      BY <1>2 DEF LinkInv
    <3> QED
      BY <1>11, <1>12, <3>1
  <2> QED
    BY <2>1, <2>2, <2>3, <1>1 DEF LinkInv, Stored
<1>14. StatusInv'
  BY <1>1, <1>2 DEF StatusInv, Stored
<1>15. IndexInv'
  <2> SUFFICES ASSUME NEW b \in Stored \ damaged', IsFinalized(block[b].status),
                      NEW t \in Range(TxsOf[b])
               PROVE  LeadsToFinal(t)
    BY <1>1 DEF IndexInv, LeadsToFinal, Stored
  <2>1. LeadsToFinal(t) \/ TxStep("txLocked", b, t) \in Range(todo["engine"])
    BY <1>2, <1>12 DEF IndexInv
  <2>2. TxStep("txLocked", b, t).block = b
    BY DEF TxStep
  <2>3. TxStep("txLocked", b, t) \notin Range(todo["engine"])
    BY <2>2, <1>1
  <2> QED
    BY <2>1, <2>3
<1> QED
  BY <1>7, <1>8, <1>9, <1>10, <1>13, <1>14, <1>15 DEF IndInv

(***************************************************************************)
(* A step of something else.                                               *)
(***************************************************************************)
LEMMA StutterStep ==
  ASSUME IndInv, UNCHANGED vars
  PROVE  IndInv'
<1>1. UNCHANGED <<block, byHeight, txIndex, receiptsV2, receiptsV1, lfb, todo, damaged, crashes>>
  BY DEF vars
<1>2. TypeOK' /\ StepsInv' /\ MutexInv'
  BY <1>1 DEF IndInv, TypeOK, Stored, StepsInv, MutexInv, SyncHoldsMu, EngineHoldsMu, Doing
<1>3. StatusesStay
  BY <1>1 DEF StatusesStay, Stored
<1>4. SyncInv' /\ EngineInv' /\ LinkInv' /\ StatusInv' /\ IndexInv'
  BY <1>1, <1>3, SyncStays, EngineStays, LinkStays, StatusStays, IndexStays DEF IndInv, Stored
<1> QED
  BY <1>2, <1>4 DEF IndInv

(***************************************************************************)
(* A new chain has its root only.                                          *)
(***************************************************************************)
LEMMA IndInvInit ==
  ASSUME BlocksFormTree, MaxCrashes \in Nat, Init
  PROVE  IndInv
<1>1. /\ block = [b \in {Genesis} |-> [status |-> "direct", children |-> {}]]
      /\ byHeight = [h \in Heights |-> IF h = 0 THEN {Genesis} ELSE {}]
      /\ txIndex = [t \in Txs |-> NoBlock]
      /\ receiptsV2 = {} /\ receiptsV1 = [t \in Txs |-> NoBlock]
      /\ lfb = Genesis /\ todo = [a \in Actors |-> << >>]
      /\ damaged = {} /\ crashes = 0
  BY DEF Init
<1>2. /\ Genesis \in Blocks /\ NoBlock \notin Blocks /\ ParentOf[Genesis] = NoBlock
      /\ TxsOf[Genesis] = << >> /\ Height[Genesis] = 0 /\ Height[Genesis] \in Heights
  BY DEF BlocksFormTree
<1>3. /\ Stored = {Genesis} /\ block[Genesis].status = "direct"
      /\ block[Genesis].children = {}
      /\ block[Genesis] \in [status : Statuses, children : SUBSET Blocks]
  BY <1>1 DEF Stored, Statuses
<1>4. todo["sync"] = << >> /\ todo["engine"] = << >> /\ DOMAIN todo = Actors
  BY <1>1 DEF Actors
<1>5. byHeight \in [Heights -> SUBSET Blocks]
  BY <1>1, <1>2
<1>6. 0 \in 0 .. MaxCrashes
  BY SMTT(30)
<1>7. TypeOK
  BY <1>1, <1>2, <1>3, <1>4, <1>5, <1>6 DEF TypeOK
<1>8. StepsInv
  <2>1. << >> \in Seq(AllSteps)
    BY NoStepAfter
  <2> QED
    BY <2>1, <1>1 DEF StepsInv, AllSteps
<1>9. SyncInv
  <2>1. << >> \in Rests("txGet", Genesis)
    BY <1>2, RestsParts
  <2> QED
    BY <2>1, <1>2, <1>4 DEF SyncInv
<1>10. EngineInv /\ MutexInv
  BY <1>4 DEF EngineInv, EngineIdle, MutexInv, SyncHoldsMu
<1>11. Range(TxsOf[Genesis]) = {}
  BY <1>2, NoStepAfter
<1>12. StatusInv /\ IndexInv
  BY <1>3, <1>11 DEF StatusInv, IndexInv, IsFinalized
<1>13. LinkInv
  <2>1. Genesis \in byHeight[Height[Genesis]]
    BY <1>1, <1>2
  <2>2. ParentOf[Genesis] # Genesis
    BY <1>2
  <2> QED
    BY <2>1, <2>2, <1>3 DEF LinkInv
<1> QED
  BY <1>7, <1>8, <1>9, <1>10, <1>12, <1>13 DEF IndInv

(***************************************************************************)
(* Every step of both goroutines, and a crash, keep the invariant.         *)
(***************************************************************************)
LEMMA IndInvNext ==
  ASSUME BlocksFormTree, MaxCrashes \in Nat, IndInv, [Next]_vars
  PROVE  IndInv'
<1>1. ASSUME NEW b \in Blocks, AddBlock(b) PROVE IndInv'
  BY <1>1, AddBlockStep
<1>2. CASE LinkParent
  BY <1>2, LinkParentStep
<1>3. CASE SaveBlock
  BY <1>3, SaveBlockStep
<1>4. CASE AddBlockByHeightIndex
  BY <1>4, AddBlockByHeightIndexStep
<1>5. CASE LookUpTx
  BY <1>5, LookUpTxStep
<1>6. CASE IndexTx("sync", {"txPut"})
  BY <1>6, PutTxStep
<1>7. ASSUME NEW b \in Stored, ExecuteBlock(b) PROVE IndInv'
  BY <1>7, ExecuteBlockStep
<1>8. ASSUME NEW b \in Stored, CommitBlock(b) PROVE IndInv'
  BY <1>8, CommitBlockStep
<1>9. ASSUME NEW b \in Stored, FinalizeBlock(b) PROVE IndInv'
  BY <1>9, FinalizeBlockStep
<1>10. CASE AddTxReceipt
  BY <1>10, AddTxReceiptStep
<1>11. CASE MarkBlock
  BY <1>11, MarkBlockStep
<1>12. CASE FinalizePreviousBlocks
  BY <1>12, FinalizePreviousBlocksStep
<1>13. CASE IndexTx("engine", {"txLocked", "txForce"})
  BY <1>13, ForceTxStep
<1>14. CASE Crash
  BY <1>14, CrashStep
<1>15. CASE UNCHANGED vars
  BY <1>15, StutterStep
<1> QED
  BY <1>1, <1>2, <1>3, <1>4, <1>5, <1>6, <1>7, <1>8, <1>9, <1>10, <1>11, <1>12, <1>13,
     <1>14, <1>15 DEF Next, Sync, Engine

-----------------------------------------------------------------------------
(***************************************************************************)
(* The inductive invariant holds of every run, for every tree of blocks,   *)
(* every placement of transactions in them and any number of crashes.      *)
(***************************************************************************)
THEOREM StoreInvariance ==
  ASSUME BlocksFormTree, MaxCrashes \in Nat
  PROVE  Spec => []IndInv
<1>1. Init => IndInv
  BY IndInvInit
<1>2. IndInv /\ [Next]_vars => IndInv'
  BY IndInvNext
<1> QED
  BY <1>1, <1>2, PTL DEF Spec

(***************************************************************************)
(* Between two calls of addBlock the child links are exactly the parent    *)
(* links of the saved blocks, but for blocks a crash has damaged, whatever *)
(* the order the blocks arrive in and whatever the engine writes in        *)
(* between (addBlock).                                                     *)
(***************************************************************************)
THEOREM LinksAreAlwaysExact ==
  ASSUME BlocksFormTree, MaxCrashes \in Nat
  PROVE  Spec => []LinksAreExact
<1>1. IndInv => LinksAreExact
  BY DEF IndInv, LinkInv, LinksAreExact, SyncHoldsMu, Doing
<1> QED
  BY <1>1, StoreInvariance, PTL

(***************************************************************************)
(* Every saved block that no crash has damaged is found by its height,     *)
(* which is the only way it gets to the engine (addBlock,                  *)
(* passReadyBlocks).                                                       *)
(***************************************************************************)
THEOREM AlwaysFoundByHeight ==
  ASSUME BlocksFormTree, MaxCrashes \in Nat
  PROVE  Spec => []FoundByHeight
<1>1. IndInv => FoundByHeight
  BY DEF IndInv, LinkInv, FoundByHeight, FindBlocksByHeight, SyncHoldsMu, Doing
<1> QED
  BY <1>1, StoreInvariance, PTL

(***************************************************************************)
(* Between two calls of the engine, the index entries of the transactions  *)
(* of every finalized block, but for one a crash has damaged, lead to a    *)
(* finalized block with that transaction, though addBlock makes entries    *)
(* for forks all the time (AddTxsToIndex, FinalizePreviousBlocks).         *)
(***************************************************************************)
THEOREM FinalTxsAreAlwaysIndexed ==
  ASSUME BlocksFormTree, MaxCrashes \in Nat
  PROVE  Spec => []FinalTxsAreIndexed
<1>1. IndInv => FinalTxsAreIndexed
  <2>1. Range(<< >>) = {}
    BY NoStepAfter
  <2> QED
    BY <2>1 DEF IndInv, IndexInv, FinalTxsAreIndexed, LeadsToFinal, EngineIdle
<1> QED
  BY <1>1, StoreInvariance, PTL

(***************************************************************************)
(* The receipt found for a transaction of a valid block is the one of its  *)
(* execution in that block, not in a fork, also after a crash              *)
(* (AddTxReceipt, FindTxReceiptByHash).                                    *)
(***************************************************************************)
THEOREM ReceiptIsAlwaysOfBlock ==
  ASSUME BlocksFormTree, MaxCrashes \in Nat
  PROVE  Spec => []ReceiptIsOfBlock
<1>1. IndInv => ReceiptIsOfBlock
  BY DEF IndInv, StatusInv, ReceiptIsOfBlock, FindTxReceipt
<1> QED
  BY <1>1, StoreInvariance, PTL
=============================================================================
