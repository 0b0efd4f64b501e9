---------------------------- MODULE EngineBlocks ----------------------------
(***************************************************************************)
(* How the consensus engine gets blocks and casts votes: the path of blocks *)
(* from netsync (netsync/request.go) to the validation of the engine,      *)
(* proposals, votes, timers and crashes.                                   *)
(***************************************************************************)
EXTENDS EngineState

(***************************************************************************)
(* GetTip: a highest valid block among the descendants of the HCC.         *)
(***************************************************************************)
Branch(n) == {b \in StoredValid(n) : IsDescendant(db[n].hcc, b)}

IsTip(n, b) == b \in Branch(n) /\ \A c \in Branch(n) : Height(c) <= Height(b)

(***************************************************************************)
(* mainLoop receives a block: handleNormalBlock up to its validation.      *)
(***************************************************************************)
BlockMessage(n, b) ==
  /\ Idle(n)
  /\ b \in mem[n].inbox
  /\ LET pending == db[n].status[b] = "pending"
         ok == ValidateBlock(n, b)
     IN  /\ db' = IF pending /\ ~ok
                    THEN [db EXCEPT ![n].status[b] = "invalid"]
                    ELSE db
         /\ mem' = [mem EXCEPT ![n].inbox = @ \ {b},
                               ![n].work = IF pending /\ ok
                                             THEN << VotesTask(b, cert[b]) >>
                                             ELSE << >>]
  /\ UNCHANGED network

(***************************************************************************)
(* vote(): a new vote for the tip, stored before it is sent, or the last   *)
(* vote again.                                                             *)
(***************************************************************************)
MayVote(n, b) ==
  LET last == db[n].lastVote
  IN  last # NoVote /\ Height(last) # 0 => /\ Height(b) > Height(last)
                                           /\ Hcc(b) = db[n].hcc

Vote(n) ==
  /\ Doing(n, "vote")
  /\ \E tip \in Branch(n) :
       /\ IsTip(n, tip)
       /\ IF MayVote(n, tip)
            THEN /\ Commit(n, [db[n] EXCEPT !.lastVote = tip])
                 /\ voted' = [voted EXCEPT ![n] = @ \cup {tip}]
                 /\ Then(n, << Task("sendVote", tip) >>)
            ELSE /\ Then(n, << Task("sendVote", db[n].lastVote) >>)
                 /\ UNCHANGED <<db, voted>>
  /\ UNCHANGED <<proposed, cert, sent, crashes>>

SendVote(n) ==
  /\ Doing(n, "sendVote")
  /\ sent' = sent \cup
       {[voter |-> n, block |-> Block(n), epoch |-> db[n].epoch]}
  /\ Then(n, << >>)
  /\ UNCHANGED <<db, proposed, cert, voted, crashes>>

(***************************************************************************)
(* createProposal: the tip is extended and the certificate of the HCC      *)
(* attached.  The timestamp makes the block a new one.                     *)
(***************************************************************************)
Proposal(n, tip, p) ==
  Append(tip, [epoch |-> db[n].epoch, hcc |-> Len(db[n].hcc), payload |-> p])

ShouldPropose(n, tip) ==
  LET e == db[n].epoch IN e > Epoch(tip) /\ e \in Epochs /\ Proposer[e] = n

IsRepeated(n) ==
  LET last == mem[n].lastProposal IN last # NoBlock /\ Epoch(last) = db[n].epoch

(***************************************************************************)
(* mainLoop enters an epoch, new or repeated, and proposes: nothing, the   *)
(* last proposal again or a new block.  ProposeBlockTxs may fail.  The     *)
(* last proposal is only kept in memory until the next commit.             *)
(***************************************************************************)
EnterEpoch(n) ==
  LET entered(proposal, inbox) ==
        mem' = [mem EXCEPT ![n].voteTimerReady = FALSE,
                           ![n].blockProcessed = FALSE,
                           ![n].lastProposal = proposal,
                           ![n].inbox = inbox,
                           ![n].work = Tail(@)]
  IN
  /\ Doing(n, "enterEpoch")
  /\ \E tip \in Branch(n) :
       /\ IsTip(n, tip)
       /\ \/ /\ ~ShouldPropose(n, tip) \/ ~IsRepeated(n)
             /\ entered(mem[n].lastProposal, mem[n].inbox)
             /\ UNCHANGED <<db, proposed, cert>>
          \/ /\ ShouldPropose(n, tip) /\ IsRepeated(n)
             /\ entered(mem[n].lastProposal, mem[n].inbox \cup {mem[n].lastProposal})
             /\ UNCHANGED <<db, proposed, cert>>
          \/ /\ ShouldPropose(n, tip) /\ ~IsRepeated(n)
             /\ Cardinality(proposed) < MaxBlocks
             /\ \E p \in Payloads \ {Bad} :
                  LET b == Proposal(n, tip, p)
                  IN  /\ b \notin Stored(n)
                      /\ entered(b, mem[n].inbox \cup {b})
                      /\ db' = [db EXCEPT ![n].status = With(@, b, "pending")]
                      /\ proposed' = proposed \cup {b}
                      /\ cert' = With(cert, b, VotesOn(n, db[n].hcc))
  /\ UNCHANGED <<sent, voted, crashes>>

(***************************************************************************)
(* The timers of mainLoop.  An epoch that times out is repeated.           *)
(***************************************************************************)
VoteTimer(n) ==
  /\ Idle(n)
  /\ ~mem[n].voteTimerReady
  /\ mem' = [mem EXCEPT ![n].voteTimerReady = TRUE,
                        ![n].work = IF mem[n].blockProcessed
                                      THEN << Task("vote", Root) >> ELSE << >>]
  /\ UNCHANGED <<db, network>>

EpochTimer(n) ==
  /\ Idle(n)
  /\ mem' = [mem EXCEPT ![n].work =
               << Task("vote", Root), Task("enterEpoch", Root) >>]
  /\ UNCHANGED <<db, network>>

-----------------------------------------------------------------------------
(***************************************************************************)
(* netsync stores a block it received (RequestManager.AddBlock).           *)
(***************************************************************************)
AddBlock(n, b) ==
  /\ b \notin Stored(n)
  /\ db' = [db EXCEPT ![n].status = With(@, b, "pending")]
  /\ UNCHANGED <<mem, network>>

\* Mutant of PassReadyBlock: the parent need not have been processed.
PassStoredBlock(n, b) ==
  /\ b \notin mem[n].passed
  /\ Height(b) > Height(db[n].lfb)
  /\ Parent(b) \in Stored(n)
  /\ mem' = [mem EXCEPT ![n].passed = @ \cup {b},
                        ![n].inbox = IF db[n].status[b] = "pending"
                                       THEN @ \cup {b} ELSE @]
  /\ UNCHANGED <<db, network>>

(***************************************************************************)
(* passReadyBlocks hands a block to the engine once its parent is valid,   *)
(* and never a second time while it is in dumpBlockCache.                  *)
(***************************************************************************)
PassReadyBlock(n, b) ==
  /\ b \notin mem[n].passed
  /\ Height(b) > Height(db[n].lfb)
  /\ Height(b) = Height(db[n].lfb) + 1 => Parent(b) = db[n].lfb
  /\ Parent(b) \in StoredValid(n)
  /\ mem' = [mem EXCEPT ![n].passed = @ \cup {b},
                        ![n].inbox = IF db[n].status[b] = "pending"
                                       THEN @ \cup {b} ELSE @]
  /\ UNCHANGED <<db, network>>

\* Mutant of Crash: the last vote is forgotten.
CrashForgettingVote(n) ==
  /\ crashes < MaxCrashes
  /\ crashes' = crashes + 1
  /\ mem' = [mem EXCEPT ![n] = FreshMem(db[n].lastProposal)]
  /\ db' = [db EXCEPT ![n].lastVote = NoVote]
  /\ UNCHANGED <<proposed, cert, sent, voted>>

(***************************************************************************)
(* The process dies and is started again.                                  *)
(***************************************************************************)
Crash(n) ==
  /\ crashes < MaxCrashes
  /\ crashes' = crashes + 1
  /\ mem' = [mem EXCEPT ![n] = FreshMem(db[n].lastProposal)]
  /\ UNCHANGED <<db, proposed, cert, sent, voted>>

(***************************************************************************)
(* A peer proposes a block.                                                *)
(***************************************************************************)
PeerPropose(b) ==
  /\ b \notin proposed
  /\ Proposer[Epoch(b)] \in Faulty
  /\ Parent(b) \in proposed \cup {Root}
  /\ Cardinality(proposed) < MaxBlocks
  /\ proposed' = proposed \cup {b}
  /\ cert' = With(cert, b, PeerCert[b])
  /\ UNCHANGED <<db, mem, sent, voted, crashes>>
=============================================================================
