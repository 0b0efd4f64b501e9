--------------------------- MODULE PeerSelection ----------------------------
(***************************************************************************)
(* Which peers an inventory request goes to (AddActivePeer and             *)
(* getInventory in netsync/request.go): the peers that have answered       *)
(* lately, filled up with a random sample, and from time to time two more. *)
(***************************************************************************)
EXTENDS Integers, FiniteSets, FiniteSetsExt

CONSTANTS
  Peers,        \* all peers
  EdgeNodes,    \* those that are edge nodes, which are not sampled
  MaxActive,    \* MaxNumPeersToSendRequests
  MaxScore,     \* MaxPeerActiveScore
  LeastScore,   \* bound: a score does not fall below it
  RefreshLimit  \* RefreshCounterLimit

VARIABLES
  connected,  \* the peers of the dispatcher
  active,     \* activePeers: active[p] is the score of p
  counter,    \* refreshCounter
  asked       \* the peers the last request was sent to

vars == <<connected, active, counter, asked>>

Init ==
  /\ connected \in SUBSET Peers
  /\ active = [p \in {} |-> 0]
  /\ counter = 0
  /\ asked = {}

Active == DOMAIN active

-----------------------------------------------------------------------------
\* Mutant of Evicted: the list is left as long as it is.
EvictedNone(p) == {{}}

(***************************************************************************)
(* The peer with the least score makes room for a new one; equal scores    *)
(* are told apart by the order of the map.                                 *)
(***************************************************************************)
Evicted(p) ==
  IF p \in Active \/ Cardinality(Active) < MaxActive THEN {{}}
  ELSE {{q} : q \in {r \in Active : \A s \in Active : active[r] <= active[s]}}

(***************************************************************************)
(* AddActivePeer: an inventory that is not gossip has come from p, whether *)
(* or not p was asked for it, and whether or not p is still connected.     *)
(***************************************************************************)
AddActivePeer(p) ==
  /\ \E gone \in Evicted(p) :
       active' = [q \in (Active \ gone) \cup {p} |-> IF q = p THEN MaxScore ELSE active[q]]
  /\ UNCHANGED <<connected, counter, asked>>

(***************************************************************************)
(* Every request costs the active peers one point; those that are not      *)
(* connected any more are removed.                                         *)
(***************************************************************************)
Aged == [p \in Active \cap connected |-> Max({active[p] - 1, LeastScore})]

Sampled == connected \ EdgeNodes

\* Mutant of TargetSize: the extra peers are forgotten.
TargetWithoutExtra(c) == MaxActive

TargetSize(c) == IF c = 0 THEN MaxActive + 2 ELSE MaxActive

(***************************************************************************)
(* getInventory.                                                           *)
(***************************************************************************)
GetInventory ==
  LET reused == {p \in DOMAIN Aged : Aged[p] > 0}
      next == IF counter + 1 >= RefreshLimit THEN 0 ELSE counter + 1
      size == TargetSize(next)
      samples == kSubset(Min({size, Cardinality(Sampled)}), Sampled)
      filled(new) == IF Cardinality(new) <= size - Cardinality(reused) THEN {new}
                     ELSE kSubset(size - Cardinality(reused), new)
  IN  /\ counter' = next
      /\ active' = Aged
      /\ IF Cardinality(reused) >= size THEN asked' = reused
         ELSE \E sample \in samples : \E new \in filled(sample \ reused) :
                asked' = reused \cup new
      /\ UNCHANGED connected

Connect(p) ==
  /\ p \notin connected
  /\ connected' = connected \cup {p}
  /\ UNCHANGED <<active, counter, asked>>

Disconnect(p) ==
  /\ p \in connected
  /\ connected' = connected \ {p}
  /\ UNCHANGED <<active, counter, asked>>

Next ==
  \/ GetInventory
  \/ \E p \in Peers : AddActivePeer(p) \/ Connect(p) \/ Disconnect(p)

Spec == Init /\ [][Next]_vars

-----------------------------------------------------------------------------
TypeOK ==
  /\ connected \subseteq Peers /\ asked \subseteq Peers
  /\ Active \subseteq Peers /\ \A p \in Active : active[p] \in LeastScore .. MaxScore
  /\ Cardinality(Active) <= MaxActive
  /\ counter \in 0 .. RefreshLimit - 1

(***************************************************************************)
(* An inventory request goes to connected peers only, to as many as there  *)
(* are up to MaxActive, and when the counter wraps to two peers, if there  *)
(* are, that were not active: a node whose active peers have nothing new   *)
(* for it finds others ("Query extra random peers").                       *)
(***************************************************************************)
AsksOthers ==
  GetInventory =>
    LET reused == {p \in Active \cap connected : active[p] > 1}
    IN  /\ asked' \subseteq connected
        /\ Cardinality(asked') >= Min({MaxActive, Cardinality(Sampled)})
        /\ counter' = 0 => Cardinality(asked' \ reused)
                             >= Min({2, Cardinality(Sampled \ reused)})

\* Every request is sent so (getInventory).
OthersAreTried == [][AsksOthers]_vars
=============================================================================
