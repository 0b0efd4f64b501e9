------------------------------ MODULE Finality ------------------------------
(***************************************************************************)
(* What the validators promise the users of the subchain: every node       *)
(* reports a growing chain of finalized blocks (FinalizedBlocks and        *)
(* GetLastFinalizedBlock of consensus/engine.go), and the chains of all    *)
(* nodes are prefixes of one.                                              *)
(***************************************************************************)
EXTENDS BlockTree

CONSTANT Nodes    \* the nodes that finalize blocks

VARIABLE final    \* final[n]: the last block finalized by n

Init == final = [n \in Nodes |-> Root]

(***************************************************************************)
(* n finalizes b: b extends what n finalized before and conflicts with     *)
(* nothing that any node has finalized.                                    *)
(***************************************************************************)
Finalize(n, b) ==
  /\ b \in Blocks
  /\ IsDescendant(final[n], b)
  /\ \A m \in Nodes : SameChain(final[m], b)
  /\ final' = [final EXCEPT ![n] = b]

Next == \E n \in Nodes : Finalize(n, final'[n])

Spec == Init /\ [][Next]_final
=============================================================================
