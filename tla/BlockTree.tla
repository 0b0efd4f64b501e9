----------------------------- MODULE BlockTree -----------------------------
(***************************************************************************)
(* Blocks and the tree they form (core/block.go, blockchain/chain.go).  A  *)
(* block hash commits to the whole chain below it, so a block is the       *)
(* sequence of the headers from the first block after the root up to and   *)
(* including its own: the parent is the sequence without its last header   *)
(* and an ancestor is a prefix.                                            *)
(***************************************************************************)
EXTENDS Integers, Sequences

CONSTANTS
  Epochs,       \* the epochs blocks are proposed in
  Payloads,     \* what else tells two blocks apart: transactions, timestamp
  RootHeight    \* the height of the root: 0 for genesis, more for a snapshot

ASSUME BlockAssumption ==
  /\ Epochs \subseteq Nat \ {0}
  /\ RootHeight \in Nat

(***************************************************************************)
(* What a header adds to the chain below it.  "hcc" is the number of       *)
(* blocks above the root up to and including the block its commit          *)
(* certificate (HCC.BlockHash) is for; that block is an ancestor.          *)
(***************************************************************************)
Header == [epoch : Epochs, hcc : Nat, payload : Payloads]

Blocks == {b \in Seq(Header) : \A i \in 1 .. Len(b) : b[i].hcc < i}

Root == << >>

Height(b) == RootHeight + Len(b)

Parent(b) == SubSeq(b, 1, Len(b) - 1)

Epoch(b) == IF b = Root THEN 0 ELSE b[Len(b)].epoch

(***************************************************************************)
(* The block the commit certificate of b is for.  The root has none and    *)
(* stands for itself.                                                      *)
(***************************************************************************)
Hcc(b) == IF b = Root THEN Root ELSE SubSeq(b, 1, b[Len(b)].hcc)

(***************************************************************************)
(* b is a or was built on top of a: following the parents from b leads to  *)
(* a.                                                                      *)
(***************************************************************************)
IsDescendant(a, b) ==
  Len(a) <= Len(b) /\ \A i \in 1 .. Len(a) : a[i] = b[i]

(***************************************************************************)
(* Neither block conflicts with the other: both are on one chain.          *)
(***************************************************************************)
SameChain(a, b) == IsDescendant(a, b) \/ IsDescendant(b, a)
=============================================================================
