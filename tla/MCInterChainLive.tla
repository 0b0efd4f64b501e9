-------------------------- MODULE MCInterChainLive --------------------------
(***************************************************************************)
(* What must happen in the end, for TLC: the tokens that are locked are    *)
(* minted (InterChain), and whoever unsubscribes from the events of a feed *)
(* is let go (Feed).  They are checked by themselves: "part" says which    *)
(* one a behavior is about, the variables of the other are 0 in it.        *)
(***************************************************************************)
EXTENDS InterChain

CONSTANTS n1, n2, NoSender

VARIABLES part, inbox, sendCases, active, index, lock, sending, sub, buffer, received, due

feedVars == <<inbox, sendCases, active, index, lock, sending, sub, buffer, received, due>>

(***************************************************************************)
(* One sender and three subscriptions, two of which share a channel; and   *)
(* two senders that wait for each other.                                   *)
(***************************************************************************)
Feed == INSTANCE Feed WITH
  Subs <- {"a", "b", "c"}, Senders <- {"p"}, Capacity <- 1,
  ChannelOf <- [a |-> "x", b |-> "x", c |-> "y"]

Rivals == INSTANCE Feed WITH
  Subs <- {"a", "b"}, Senders <- {"p", "q"}, Capacity <- 1, ChannelOf <- [a |-> "x", b |-> "y"]

NoBridge ==
  /\ height = 0 /\ locked = 0 /\ known = 0 /\ lastQueried = 0 /\ cache = 0 /\ reading = 0
  /\ submitted = 0 /\ pool = 0 /\ support = 0 /\ minted = 0 /\ faults = 0

NoFeed ==
  /\ inbox = 0 /\ sendCases = 0 /\ active = 0 /\ index = 0 /\ lock = 0
  /\ sending = 0 /\ sub = 0 /\ buffer = 0 /\ received = 0 /\ due = 0

MCInit ==
  \/ part = "bridge" /\ Init /\ NoFeed
  \/ part = "feed" /\ Feed!Init /\ NoBridge
  \/ part = "rivals" /\ Rivals!Init /\ NoBridge

MCNext ==
  \/ part = "bridge" /\ Next /\ UNCHANGED <<part, feedVars>>
  \/ part = "feed" /\ Feed!Next /\ UNCHANGED <<part, vars>>
  \/ part = "rivals" /\ Rivals!Next /\ UNCHANGED <<part, vars>>

(***************************************************************************)
(* The fairness of InterChain and of Feed (see their FairSpec).            *)
(***************************************************************************)
MCSpec ==
  /\ MCInit /\ [][MCNext]_<<part, vars, feedVars>>
  /\ WF_vars(part = "bridge" /\ NewBlock)
  /\ \A n \in Nodes :
       /\ WF_vars(part = "bridge" /\ Update(n, height, TRUE))
       /\ \A k \in Kinds : SF_vars(part = "bridge" /\ ProcessNextTokenLockEvent(n, k))
       /\ SF_vars(part = "bridge" /\ ProcessNextEvent(n, TRUE))
       /\ \A k \in Kinds, nonce \in 1 .. MaxLocks :
            WF_vars(part = "bridge" /\ RetryThresholdPasses(n, <<k, nonce>>))
       /\ \A i \in 1 .. MaxLocks :
            WF_vars(part = "bridge" /\ MintVouchers([node |-> n, event |-> i]))
  /\ WF_feedVars(part = "feed" /\ (Feed!TrySend \/ Feed!EndFastPath \/ Feed!Select))
  /\ \A s \in {"a", "b", "c"} :
       WF_feedVars(part = "feed" /\ (Feed!RemoveLocked(s) \/ Feed!RemoveSub(s)))
  /\ WF_feedVars(part = "rivals" /\ (Rivals!TrySend \/ Rivals!EndFastPath \/ Rivals!Select))
  /\ \A s \in {"a", "b"} :
       WF_feedVars(part = "rivals" /\ (Rivals!RemoveLocked(s) \/ Rivals!RemoveSub(s)))

-----------------------------------------------------------------------------
(***************************************************************************)
(* No event is passed over: one that has not been minted yet is in the     *)
(* cache of every witness that is done with the block it is in.            *)
(***************************************************************************)
MCNothingMissed == part = "bridge" => NothingMissed

(***************************************************************************)
(* Every subscription has its case, in the inbox or in sendCases, as long  *)
(* as it lasts and no longer; and a finished Send gave its value once to   *)
(* the channel of each subscription that stayed on from its start to its   *)
(* end, and to none more often than it is subscribed (feed.go, Send and    *)
(* deactivate).                                                            *)
(***************************************************************************)
EachIsSentOnce ==
  /\ part = "feed" => Feed!CasesAreSubscriptions /\ Feed!EachIsSentOnce
  /\ part = "rivals" => Rivals!CasesAreSubscriptions /\ Rivals!EachIsSentOnce

(***************************************************************************)
(* All tokens locked for this chain are minted on it, after any crash of a *)
(* validator and any loss of a transaction.                                *)
(***************************************************************************)
MCEveryLockIsMinted ==
  \A k \in Kinds, nonce \in 1 .. MaxLocks :
    (part = "bridge" /\ Cardinality(Earlier(k, Here)) >= nonce)
      ~> (part = "bridge" /\ Processed(k) >= nonce)

\* Unsubscribe returns even while every reader sleeps: the blocked Send
\* takes the channel over removeSub, or the lock is free (feed.go, remove).
\* Again and again nobody waits for it, since each subscription ends once.
UnsubscribeReturns ==
  []<>(part # "bridge" => \A s \in DOMAIN sub : sub[s] # "removing")
=============================================================================
