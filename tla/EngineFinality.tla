--------------------------- MODULE EngineFinality ---------------------------
(***************************************************************************)
(* What the consensus engine does with a certified block: processCCBlock and *)
(* finalizeBlock, one write to the database after another.                 *)
(***************************************************************************)
EXTENDS EngineState

(***************************************************************************)
(* finalizeBlock stores the last finalized block before it marks it.       *)
(***************************************************************************)
FinalizeBlock(n) ==
  /\ Doing(n, "finalize")
  /\ Commit(n, [db[n] EXCEPT !.lfb = Block(n)])
  /\ Then(n, << Task("direct", Block(n)) >>)
  /\ UNCHANGED network

\* Mutant of MarkFinalized: the loop does not stop at a finalized block.
MarkAllAncestors(n) ==
  /\ Doing(n, "direct") \/ Doing(n, "indirect")
  /\ db' = [db EXCEPT ![n].status[Block(n)] = Head(mem[n].work).op]
  /\ Then(n, << Task("indirect", Parent(Block(n))) >>)
  /\ UNCHANGED network

(***************************************************************************)
(* One round of the loop in FinalizePreviousBlocks: from the finalized     *)
(* block down to the first ancestor that is marked already.                *)
(***************************************************************************)
MarkFinalized(n) ==
  /\ Doing(n, "direct") \/ Doing(n, "indirect")
  /\ LET b == Block(n)
     IN  IF b \notin Stored(n) \/ IsFinalized(db[n].status[b])
           THEN Then(n, << >>) /\ UNCHANGED db
           ELSE /\ db' = [db EXCEPT ![n].status[b] = Head(mem[n].work).op]
                /\ Then(n, << Task("indirect", Parent(b)) >>)
  /\ UNCHANGED network

(***************************************************************************)
(* The end of processCCBlock: SetHighestCCBlock, then CommitBlock.         *)
(***************************************************************************)
SetHighestCCBlock(n) ==
  /\ Doing(n, "setHcc")
  /\ Commit(n, [db[n] EXCEPT !.hcc = Block(n)])
  /\ Then(n, << >>)
  /\ UNCHANGED network

CommitBlock(n) ==
  /\ Doing(n, "commit")
  /\ db' = [db EXCEPT ![n].status[Block(n)] = "committed"]
  /\ Then(n, << >>)
  /\ UNCHANGED network
=============================================================================
