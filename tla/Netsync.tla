------------------------------ MODULE Netsync ------------------------------
(***************************************************************************)
(* How a node that is behind gets the blocks of its peers                  *)
(* (netsync/request.go, netsync/sync.go): inventory requests, the hashes   *)
(* and headers that come back, the requests for blocks with their quotas   *)
(* and timeouts, and passReadyBlocks, which hands the stored blocks to the *)
(* consensus engine in the order of their heights.                         *)
(*                                                                         *)
(* The peers have all their blocks from the start.  The answer of a peer   *)
(* is put in flight with the request; it is delivered in any order or      *)
(* lost.  Time shows only in what has timed out or expired.                *)
(***************************************************************************)
EXTENDS Integers, FiniteSets, SequencesExt, FiniteSetsExt, Functions

CONSTANTS
  Peers,              \* the peers, no more than one request is sent to
  Blocks,             \* the hashes of all blocks
  Genesis,            \* the root of the chain
  NoBlock,            \* no hash
  ParentOf,           \* ParentOf[b]: the parent of b, NoBlock for the root
  InitChain,          \* the blocks the node has processed before it fell behind
  PeerBlocks,         \* PeerBlocks[p]: the sequence of the valid blocks of p
  PeerLfb,            \* PeerLfb[p]: the last block p has finalized
  Setups,             \* the downloads, "hash" and "header", that are enabled and
                      \*   the blocks the ledger cannot judge at first
  FastsyncQuota,      \* requests for blocks per tick, and
  GossipQuota,        \*   for those whose hash alone was announced
  MaxBlocksPerRequest,
  MaxInventorySize,
  CacheLimit,         \* DumpBlockCacheLimit
  QueueSize,          \* the capacity of the engine's message queue
  MaxInFlight,        \* bound on the answers to earlier inventory requests in flight
  MaxFaults           \* bound on messages lost and requests that come too late

VARIABLES
  mode,       \* the enabled downloads, a set
  chain,      \* the stored blocks, in the order they were added
  status,     \* status[b]: their statuses
  lfb,        \* the last finalized block
  pending,    \* pendingBlocks: the hashes of the blocks to get, in order
  info,       \* info[b]: the PendingBlock of b in pending
  headers,    \* pendingBlocksWithHeader
  cache,      \* dumpBlockCache, the least recently used first
  tip,        \* the block passed to the engine last, NoBlock if there is none
  inbox,      \* the blocks passed and not handled yet
  net,        \* the messages in flight to the node
  undecided,  \* the blocks the ledger cannot judge yet
  faults      \* the number of messages lost and of requests too late

vars == <<mode, chain, status, lfb, pending, info, headers, cache, tip, inbox,
          net, undecided, faults>>
store == <<chain, status, lfb, undecided>>
requests == <<pending, info, headers>>
passing == <<cache, tip, inbox>>

Height[b \in Blocks] == IF b = Genesis THEN 0 ELSE Height[ParentOf[b]] + 1

Ancestors[b \in Blocks] ==
  IF b = Genesis THEN {b} ELSE {b} \cup Ancestors[ParentOf[b]]

Init ==
  /\ \E setup \in Setups : mode = setup.mode /\ undecided = setup.undecided
  /\ chain = InitChain
  /\ status = [b \in ToSet(InitChain) |-> "valid"]
  /\ lfb = Genesis
  /\ pending = << >>
  /\ info = [b \in {} |-> {}]
  /\ headers = {}
  /\ cache = << >>
  /\ tip = NoBlock
  /\ inbox = << >>
  /\ net = {}
  /\ faults = 0

-----------------------------------------------------------------------------
Stored == DOMAIN status
Valid == {b \in Stored : status[b] = "valid"}

FindBlocksByHeight(h) == SelectSeq(chain, LAMBDA b : Height[b] = h)

(***************************************************************************)
(* The height of GetTip of the engine.                                     *)
(***************************************************************************)
TipHeight == Max({Height[b] : b \in Valid})

(***************************************************************************)
(* buildInventoryRequest below the height from which it backs off: the     *)
(* valid blocks of the heights from the fast sync tip down to the last     *)
(* finalized block, and that block.                                        *)
(***************************************************************************)
Starts ==
  LET top == IF tip = NoBlock THEN TipHeight ELSE Height[tip]
      at(h) == SelectSeq(FindBlocksByHeight(h), LAMBDA b : b \in Valid)
      below[h \in 0 .. top] ==
        IF h <= Height[lfb] THEN << >> ELSE at(h) \o below[h - 1]
  IN  (IF top < Height[lfb] THEN << >> ELSE below[top]) \o << lfb >>

\* Mutant of LocateStart: only the first of the hashes is looked up.
LocateFirst(p, starts) ==
  IF Head(starts) \in ToSet(PeerBlocks[p]) THEN Head(starts) ELSE NoBlock

(***************************************************************************)
(* handleInvRequest at peer p.  Its start is the first of the hashes that  *)
(* is a valid block there; from it on p lists its blocks level by level,   *)
(* only the finalized ones below its last finalized block, and that block  *)
(* at the end.                                                             *)
(***************************************************************************)
LocateStart(p, starts) ==
  LET known == SelectSeq(starts, LAMBDA b : b \in ToSet(PeerBlocks[p]))
  IN  IF known = << >> THEN NoBlock ELSE Head(known)

Children(p, b) ==
  LET all == SelectSeq(PeerBlocks[p], LAMBDA c : ParentOf[c] = b)
  IN  IF Height[b] < Height[PeerLfb[p]]
        THEN SelectSeq(all, LAMBDA c : c \in Ancestors[PeerLfb[p]])
        ELSE all

CollectBlocks == [p \in Peers, start \in Blocks |->
  LET listed[k \in 0 .. MaxInventorySize - 1] ==
        IF k = 0 THEN [queue |-> << start >>, blocks |-> << >>]
        ELSE LET l == listed[k - 1]
             IN  IF l.queue = << >> THEN l
                 ELSE [queue |-> Tail(l.queue) \o Children(p, Head(l.queue)),
                       blocks |-> Append(l.blocks, Head(l.queue))]
  IN  Append(listed[MaxInventorySize - 1].blocks, PeerLfb[p])]

Message(type, p, blocks) == [type |-> type, peer |-> p, blocks |-> blocks]

(***************************************************************************)
(* The headers and the hashes p sends for an inventory request.            *)
(***************************************************************************)
HandleInvRequest(p, starts) ==
  LET start == LocateStart(p, starts)
  IN  IF start = NoBlock THEN {}
      ELSE {Message(type, p, CollectBlocks[p, start]) : type \in {"headers", "hashes"}}

GetInventory ==
  UNION {HandleInvRequest(p, starts) : p \in Peers, starts \in {Starts}}

-----------------------------------------------------------------------------
(***************************************************************************)
(* A PendingBlock has its header or only its hash, the peers that have the *)
(* block, and the state of its request.                                    *)
(***************************************************************************)
NewPendingBlock(p, gossip) ==
  [header |-> FALSE, peers |-> {p}, state |-> "toSendData", gossip |-> gossip,
   timedOut |-> FALSE, expired |-> FALSE]

(***************************************************************************)
(* addHash for the blocks of a sequence: those that are not stored are     *)
(* listed once, in the order of the sequence.                              *)
(***************************************************************************)
Wanted(blocks) == ToSet(blocks) \ Stored

AddToList(blocks) ==
  LET first(b) == SelectInSeq(blocks, LAMBDA c : c = b)
      new == {first(b) : b \in Wanted(blocks) \ DOMAIN info}
  IN  pending \o [i \in 1 .. Cardinality(new) |->
                    blocks[CHOOSE k \in new : Cardinality({j \in new : j <= k}) = i]]

AddPeer(blocks, p, gossip) ==
  [b \in DOMAIN info \cup Wanted(blocks) |->
     IF b \notin DOMAIN info THEN NewPendingBlock(p, gossip)
     ELSE IF b \in ToSet(blocks) THEN [info[b] EXCEPT !.peers = @ \cup {p}]
     ELSE info[b]]

(***************************************************************************)
(* downloadBlockFromHeader looks at the headers in the order of their      *)
(* heights, as long as there is quota.  A block is due when it was not     *)
(* requested yet or its request has timed out; one that waits for its      *)
(* answer takes quota, too.  What has expired is given up.                 *)
(***************************************************************************)
InHeightOrder ==
  LET at(h) == {b \in Blocks : Height[b] = h}
  IN  FlattenSeq([i \in 1 .. Max({Height[b] : b \in Blocks}) + 1 |-> SetToSeq(at(i - 1))])

IsOver(b) == b \notin DOMAIN info \/ info[b].expired

TakesQuota(b) == ~IsOver(b) /\ info[b].state \in {"toSendBody", "waitBody"}

HeaderQuotaLeft(b) ==
  LET queue == SelectSeq(InHeightOrder, LAMBDA c : c \in headers)
      before == SubSeq(queue, 1, SelectInSeq(queue, LAMBDA c : c = b) - 1)
  IN  FastsyncQuota - Len(SelectSeq(before, TakesQuota))

DownloadBlockFromHeader ==
  LET seen == {b \in headers : "header" \in mode /\ HeaderQuotaLeft(b) > 0}
  IN  [send |-> {b \in seen : /\ TakesQuota(b)
                              /\ info[b].state = "toSendBody" \/ info[b].timedOut},
       drop |-> {b \in seen : IsOver(b)},
       left |-> Max({0, FastsyncQuota - Cardinality({b \in seen : TakesQuota(b)})})]

(***************************************************************************)
(* downloadBlockFromHash looks at all that is listed, in order, as long as *)
(* one of the quotas is left.  What has timed out is given up; a request   *)
(* sent for the header just before has not.                                *)
(***************************************************************************)
IsLate(b, byHeader) ==
  info[b].expired \/ (info[b].timedOut /\ b \notin byHeader.send)

IsDue(b, byHeader) ==
  /\ ~IsLate(b, byHeader)
  /\ \/ info[b].state = "toSendData"
     \/ "header" \notin mode /\ info[b].state = "toSendBody"

HashQuotaLeft(b, gossip, byHeader) ==
  LET before == SubSeq(pending, 1, SelectInSeq(pending, LAMBDA c : c = b) - 1)
      due(c) == /\ c \notin byHeader.drop /\ IsDue(c, byHeader)
                /\ info[c].gossip = gossip
  IN  (IF gossip THEN GossipQuota ELSE byHeader.left) - Len(SelectSeq(before, due))

DownloadBlockFromHash(byHeader) ==
  LET seen == {b \in DOMAIN info \ byHeader.drop :
                 /\ "hash" \in mode
                 /\ \E gossip \in BOOLEAN : HashQuotaLeft(b, gossip, byHeader) > 0}
  IN  [send |-> {b \in seen : /\ IsDue(b, byHeader)
                              /\ HashQuotaLeft(b, info[b].gossip, byHeader) > 0},
       drop |-> {b \in seen : IsLate(b, byHeader)}]

(***************************************************************************)
(* The requests go to one of the peers of every block; those to one peer   *)
(* are sent in batches, which the peer answers as a whole.                 *)
(***************************************************************************)
Batches(S) ==
  LET all == SelectSeq(InHeightOrder, LAMBDA b : b \in S)
  IN  {SubSeq(all, i, Min({i + MaxBlocksPerRequest - 1, Len(all)})) :
         i \in {j \in DOMAIN all : (j - 1) % MaxBlocksPerRequest = 0}}

Answers(pick, byHeader, byHash) ==
  UNION {{Message("blocks", p, batch) :
            batch \in Batches({b \in byHeader.send : pick[b] = p})} : p \in Peers}
  \cup {Message("blocks", pick[b], << b >>) : b \in byHash.send}

Sent(b, byHeader, byHash) ==
  IF b \in byHeader.send THEN [info[b] EXCEPT !.state = "waitBody", !.timedOut = FALSE]
  ELSE IF b \in byHash.send THEN [info[b] EXCEPT !.state = "waitData", !.timedOut = FALSE]
  ELSE info[b]

(***************************************************************************)
(* tryToDownload, once a second: an inventory request when the last one is *)
(* long enough ago, both downloads, and the headers of the blocks that are *)
(* not pending any more are taken from the queue.                          *)
(***************************************************************************)
TryToDownload(inventory) ==
  \E byHeader \in {DownloadBlockFromHeader} :
  \E byHash \in {DownloadBlockFromHash(byHeader)} :
    LET drop == byHeader.drop \cup byHash.drop
        left == DOMAIN info \ drop
    IN  /\ inventory => Cardinality({m \in net : m.type # "blocks"}) <= MaxInFlight
        /\ \E pick \in [byHeader.send \cup byHash.send -> Peers] :
             /\ \A b \in DOMAIN pick : pick[b] \in info[b].peers
             /\ net' = net \cup Answers(pick, byHeader, byHash)
                           \cup (IF inventory THEN GetInventory ELSE {})
        /\ pending' = SelectSeq(pending, LAMBDA b : b \in left)
        /\ info' = [b \in left |-> Sent(b, byHeader, byHash)]
        /\ headers' = headers \cap left
        /\ UNCHANGED <<mode, store, passing, faults>>

-----------------------------------------------------------------------------
Deliver(m) == net' = net \ {m}

(***************************************************************************)
(* handleInvResponse: a single hash is gossip.                             *)
(***************************************************************************)
HandleInvResponse(m) ==
  /\ m.type = "hashes"
  /\ Deliver(m)
  /\ pending' = AddToList(m.blocks)
  /\ info' = AddPeer(m.blocks, m.peer, Len(m.blocks) = 1)
  /\ UNCHANGED <<mode, headers, store, passing, faults>>

(***************************************************************************)
(* handleHeader and AddHeader for all headers of a message: those in a     *)
(* window above the last finalized block whose blocks are not stored.      *)
(***************************************************************************)
HandleHeaders(m) ==
  LET inWindow(b) == /\ Height[b] > Height[lfb]
                     /\ Height[b] <= TipHeight + MaxInventorySize + 1
      blocks == SelectSeq(m.blocks, inWindow)
      added == AddPeer(blocks, m.peer, TRUE)
      new == {b \in Wanted(blocks) : ~added[b].header}
  IN  /\ m.type = "headers"
      /\ Deliver(m)
      /\ pending' = AddToList(blocks)
      /\ info' = [b \in DOMAIN added |->
                    IF b \in new
                      THEN [added[b] EXCEPT !.header = TRUE, !.state = "toSendBody"]
                      ELSE added[b]]
      /\ headers' = headers \cup new
      /\ UNCHANGED <<mode, store, passing, faults>>

(***************************************************************************)
(* handleBlock and AddBlock for the blocks of a message.                   *)
(***************************************************************************)
HandleBlocks(m) ==
  LET new == SelectSeq(m.blocks, LAMBDA b : b \notin Stored)
  IN  /\ m.type = "blocks"
      /\ Deliver(m)
      /\ chain' = chain \o new
      /\ status' = [b \in Stored \cup ToSet(new) |->
                      IF b \in Stored THEN status[b] ELSE "pending"]
      /\ pending' = SelectSeq(pending, LAMBDA b : b \notin ToSet(new))
      /\ info' = [b \in DOMAIN info \ ToSet(new) |-> info[b]]
      /\ UNCHANGED <<mode, lfb, undecided, headers, passing, faults>>

-----------------------------------------------------------------------------
\* Mutant of PassReadyBlock: the parent need not have been processed.
PassStoredBlock(b) ==
  /\ b \notin ToSet(cache)
  /\ Height[b] > Height[lfb]
  /\ ParentOf[b] \in Stored
  /\ cache' = IF Len(cache) < CacheLimit THEN Append(cache, b)
                                         ELSE Append(Tail(cache), b)
  /\ IF status[b] = "pending"
       THEN Len(inbox) < QueueSize /\ inbox' = Append(inbox, b) /\ tip' = b
       ELSE UNCHANGED <<inbox, tip>>
  /\ UNCHANGED <<mode, store, requests, net, faults>>

(***************************************************************************)
(* One block in passReadyBlocks: it is passed when it has not been before, *)
(* as far as the cache remembers, and its parent is valid, or the last     *)
(* finalized block for a block of the next height.                         *)
(***************************************************************************)
PassReadyBlock(b) ==
  /\ b \notin ToSet(cache)
  /\ Height[b] > Height[lfb]
  /\ IF Height[b] = Height[lfb] + 1 THEN ParentOf[b] = lfb ELSE ParentOf[b] \in Valid
  /\ cache' = IF Len(cache) < CacheLimit THEN Append(cache, b)
                                         ELSE Append(Tail(cache), b)
  /\ IF status[b] = "pending"
       THEN Len(inbox) < QueueSize /\ inbox' = Append(inbox, b) /\ tip' = b
       ELSE UNCHANGED <<inbox, tip>>
  /\ UNCHANGED <<mode, store, requests, net, faults>>

(***************************************************************************)
(* The engine handles a block (handleNormalBlock): it is valid, or the     *)
(* ledger cannot judge it yet and it stays pending.                        *)
(***************************************************************************)
HandleBlock ==
  /\ inbox # << >>
  /\ inbox' = Tail(inbox)
  /\ LET b == Head(inbox)
     IN  IF status[b] # "pending" THEN UNCHANGED store
         ELSE IF b \in undecided
           THEN undecided' = undecided \ {b} /\ UNCHANGED <<chain, status, lfb>>
         ELSE /\ status' = [status EXCEPT ![b] =
                              IF Height[b] > Height[lfb] /\ ParentOf[b] \in Valid
                                THEN "valid" ELSE "invalid"]
              /\ UNCHANGED <<chain, lfb, undecided>>
  /\ UNCHANGED <<mode, requests, cache, tip, net, faults>>

(***************************************************************************)
(* The engine finalizes a block its peers have finalized.                  *)
(***************************************************************************)
Finalize(b) ==
  /\ b \in Valid
  /\ \E p \in Peers : b \in Ancestors[PeerLfb[p]]
  /\ Height[b] > Height[lfb]
  /\ \E c \in Valid : ParentOf[c] = b
  /\ lfb' = b
  /\ UNCHANGED <<mode, chain, status, undecided, requests, passing, net, faults>>

-----------------------------------------------------------------------------
Fault == faults < MaxFaults /\ faults' = faults + 1

(***************************************************************************)
(* HasTimedOut: ten seconds have passed since the request was sent.  It is *)
(* a fault when the answer is just late or the request was not sent.       *)
(***************************************************************************)
TimeOut(b) ==
  /\ ~info[b].timedOut
  /\ IF /\ info[b].state \in {"waitBody", "waitData"}
        /\ \A m \in net : m.type = "blocks" => b \notin ToSet(m.blocks)
       THEN UNCHANGED faults
       ELSE Fault
  /\ info' = [info EXCEPT ![b].timedOut = TRUE]
  /\ UNCHANGED <<mode, store, pending, headers, passing, net>>

(***************************************************************************)
(* HasExpired: five minutes after the hash was learnt.                     *)
(***************************************************************************)
Expire(b) ==
  /\ ~info[b].expired
  /\ Fault
  /\ info' = [info EXCEPT ![b].expired = TRUE]
  /\ UNCHANGED <<mode, store, pending, headers, passing, net>>

Lose(m) ==
  /\ Fault
  /\ Deliver(m)
  /\ UNCHANGED <<mode, store, requests, passing>>

DeliverAny ==
  \E m \in net : HandleInvResponse(m) \/ HandleHeaders(m) \/ HandleBlocks(m)

Tick == \E inventory \in BOOLEAN : TryToDownload(inventory)

Next ==
  \/ Tick
  \/ DeliverAny
  \/ \E b \in Stored : PassReadyBlock(b) \/ Finalize(b)
  \/ HandleBlock
  \/ \E b \in DOMAIN info : TimeOut(b) \/ Expire(b)
  \/ \E m \in net : Lose(m)

Spec == Init /\ [][Next]_vars

(***************************************************************************)
(* The ticker, the clock, the connections and both loops keep going.       *)
(***************************************************************************)
FairSpec ==
  /\ Spec
  /\ []<><<TryToDownload(TRUE)>>_vars
  /\ \A type \in {"headers", "hashes", "blocks"} : []<>(\A m \in net : m.type # type)
  /\ []<>(inbox = << >>)
  /\ WF_vars(\E b \in Stored : PassReadyBlock(b))
  /\ WF_vars(\E b \in DOMAIN info : TimeOut(b))

-----------------------------------------------------------------------------
(***************************************************************************)
(* The types.  The list, the map and the header queue of the request       *)
(* manager speak of the same blocks: what is listed is listed once and is  *)
(* not stored yet, and a header is queued for each listed block that has   *)
(* one, and besides only for blocks stored since the last tick.            *)
(***************************************************************************)
States == {"toSendData", "waitData", "toSendBody", "waitBody"}

TypeOK ==
  /\ mode \subseteq {"hash", "header"}
  /\ ToSet(chain) = Stored /\ Stored \subseteq Blocks /\ IsInjective(chain)
  /\ status \in [Stored -> {"pending", "valid", "invalid"}]
  /\ lfb \in Valid
  /\ pending \in Seq(Blocks)
  /\ info \in [ToSet(pending) -> [header : BOOLEAN, peers : SUBSET Peers, state : States,
                                  gossip : BOOLEAN, timedOut : BOOLEAN, expired : BOOLEAN]]
  /\ headers \subseteq Blocks
  /\ IsInjective(pending) /\ DOMAIN info \cap Stored = {}
  /\ {b \in DOMAIN info : info[b].header} = headers \ Stored
  /\ \A b \in DOMAIN info : info[b].state = "waitBody" => info[b].header
  /\ cache \in Seq(Blocks) /\ Len(cache) <= CacheLimit
  /\ tip \in Blocks \cup {NoBlock}
  /\ inbox \in Seq(Blocks)
  /\ \A m \in net : m.type \in {"headers", "hashes", "blocks"} /\ m.peer \in Peers
  /\ faults \in 0 .. MaxFaults

FinalizedByPeers == UNION {Ancestors[PeerLfb[p]] : p \in Peers}

(***************************************************************************)
(* A block the peers have finalized is never marked invalid, and the       *)
(* engine has processed its parent when it gets it, in whatever order the  *)
(* blocks arrive and however often one is passed (handleNormalBlock:       *)
(* "netsync layer ensures order of blocks").                               *)
(***************************************************************************)
FinalizedIsAccepted ==
  /\ \A b \in FinalizedByPeers \cap Stored : status[b] # "invalid"
  /\ \A b \in ToSet(inbox) : ParentOf[b] \in Valid

(***************************************************************************)
(* The node gets and accepts every block its peers have finalized, after   *)
(* any finite number of lost messages and late requests.                   *)
(***************************************************************************)
SyncCompletes == <>(FinalizedByPeers \subseteq Valid)
=============================================================================
