------------------------------ MODULE Snapshot ------------------------------
(***************************************************************************)
(* Snapshots and chain backups (snapshot/*.go) and the start of a node     *)
(* from them (cmd/thetasubchain/cmd/start.go, node/node.go).  A node writes *)
(* a file about one of its directly finalized blocks; a new node checks    *)
(* the file, loads the states and headers it holds, takes the block as the *)
(* root of its chain and goes on from there with the blocks of its peers.  *)
(* It may load earlier blocks, too, from a chain backup.                   *)
(*                                                                         *)
(* The blocks form one chain, named by their heights; each has the height  *)
(* of its highest certified ancestor (HCC) and the number of the validator *)
(* set its state holds.  A file holds sets of heights: the headers, the    *)
(* states and the proof trios that were written to it.                     *)
(***************************************************************************)
EXTENDS Integers, FiniteSets, FiniteSetsExt, TLC

CONSTANTS Nodes,               \* nodes started from snapshots
          Full,                \* a node started from the genesis snapshot
          Versions,            \* versions of files that are exported
          CheckpointInterval,  \* common.CheckpointInterval
          Chains,              \* chains: functions from heights to [hcc, set]
          Starts,              \* first heights asked of chain backups
          MaxFiles, MaxBackups \* bounds of the model

VARIABLES block,     \* height -> [hcc, set], the chain
          node,      \* what is in the database of each node
          files,     \* snapshots on disk
          backups,   \* chain backups on disk
          panics     \* operations that ended in a Go panic

vars == <<block, node, files, backups, panics>>

Genesis == 0
Height == Max(DOMAIN block)
SetOf(h) == block[h].set

\* The blocks with commit certificates: the certified ancestors of others,
\* and the last block, by its votes.
certified == {block[h].hcc : h \in DOMAIN block \ {Genesis}} \cup {Height}

\* A database without a chain: the node has not been started.
Empty == [phase |-> "empty", root |-> Genesis, top |-> Genesis, headers |-> {}, indexed |-> {},
          states |-> {}, trusted |-> {}, pending |-> {}, trios |-> {}]

\* A node that followed the whole chain from the genesis snapshot, which
\* has neither parent nor proof trios.
Whole(H) == [Empty EXCEPT !.phase = "running", !.top = H, !.headers = 0 .. H, !.indexed = 0 .. H,
                          !.states = 0 .. H]

Init ==
    /\ block \in Chains
    /\ node = [n \in Nodes \cup {Full} |-> IF n = Full THEN Whole(Height) ELSE Empty]
    /\ files = {} /\ backups = {} /\ panics = {}

----------------------------------------------------------------------------
(* The nodes follow the chain.                                             *)

\* The next block is executed on the state of its parent.
Follow(n) ==
    /\ node[n].phase = "running" /\ node[n].top < Height /\ node[n].top \in node[n].states
    /\ \E h \in {node[n].top + 1} :
         node' = [node EXCEPT ![n].top = h, ![n].headers = @ \cup {h}, ![n].indexed = @ \cup {h},
                              ![n].states = @ \cup {h}]
    /\ UNCHANGED <<block, files, backups, panics>>

\* The only child of a block, when it is at least committed at node n; a block
\* of a backup has the child links it had where the backup was written.
Children(n, h) == ({h + 1} \cap certified \cap node[n].headers) \ node[n].pending

\* Directly finalized: the root, the blocks with a committed child that
\* certifies them, and what a backup says was directly finalized.  A block
\* saved from its header alone is trusted or pending, and stays so.
IsDirectlyFinalized(n, h) ==
    \/ h = node[n].root
    \/ /\ h > Genesis /\ h \notin node[n].trusted \cup node[n].pending
       /\ \E c \in {h + 1} \cap certified : c <= node[n].top /\ block[c].hcc = h

LastFinalizedBlock(n) == Max({h \in node[n].root .. node[n].top : IsDirectlyFinalized(n, h)})

\* Finalized in one of the three ways.
IsFinalized(n, h) == h <= LastFinalizedBlock(n) /\ h \notin node[n].pending

\* Mutant of Depth: one HCC link too many.
DepthOneMore(isNext) == IF isNext THEN 2 ELSE 3

\* Enough steps back along the HCC links for a directly finalized block.
Depth(isNext) == IF isNext THEN 1 ELSE 2

\* The block in whose state the validators of block h are looked up; the
\* search also ends at a block that is not in the database.
Lookup[n \in Nodes \cup {Full}, h \in Nat, i \in Nat] ==
    IF i = 0 \/ h = Genesis \/ h \in node[n].trusted \/ h \notin node[n].headers
    THEN h ELSE Lookup[n, block[h].hcc, i - 1]

NoSet == -1

GetFinalizedValidatorSet(n, h, isNext) ==
    LET k == Lookup[n, h, Depth(isNext)]
    IN  IF k \in node[n].headers \cap node[n].states THEN SetOf(k) ELSE NoSet

----------------------------------------------------------------------------
(* Export.                                                                 *)

LastCheckPointHeight(h) == h - (h % CheckpointInterval)

\* The headers below h that the last checkpoint section of a file holds.
IntermediateHeaders(h) == LastCheckPointHeight(h) .. (h - 1)

\* The blocks whose states a file holds; versions 2 and 3 begin with the
\* state of the genesis block, for the proof of its validator set.
WrittenStates(v, h) ==
    {LastCheckPointHeight(h), h - 1, h} \cup IF v < 4 THEN {Genesis} ELSE {}

\* The height list of validator set updates has only the genesis block.
\* Its trio is in the database or is made from the block itself.
HasProofTrios(n) == Genesis \in node[n].trios \cup node[n].indexed

ExportFile(v, h) == [version |-> v, second |-> h,
                     headers |-> IntermediateHeaders(h) \cup {LastCheckPointHeight(h)},
                     states |-> WrittenStates(v, h), trios |-> IF v < 4 THEN {Genesis} ELSE {}]

ExportPanics(n, v, h) ==
    \/ h \notin node[n].states
    \/ /\ IntermediateHeaders(h) \subseteq node[n].headers
       /\ \/ v < 4 /\ ~HasProofTrios(n)
          \/ /\ h - 1 \in node[n].headers /\ block[h].hcc = h - 1
             /\ \/ Children(n, h) = {}
                \/ block[h + 1].hcc = h /\ ~(WrittenStates(v, h) \subseteq node[n].states)

ExportSucceeds(n, v, h) ==
    /\ IntermediateHeaders(h) \cup {h - 1} \subseteq node[n].headers
    /\ v < 4 => HasProofTrios(n)
    /\ Children(n, h) # {}
    /\ block[h].hcc = h - 1 /\ block[h + 1].hcc = h
    /\ WrittenStates(v, h) \subseteq node[n].states

\* ExportSnapshotV2 .. V4; in the other cases an error is answered.
ExportSnapshot(n, v, h) ==
    /\ node[n].phase = "running"
    /\ h \in node[n].indexed \ {Genesis} /\ IsDirectlyFinalized(n, h)
    /\ \/ /\ ExportPanics(n, v, h)
          /\ panics' = panics \cup {<<"export", v>>} /\ UNCHANGED files
       \/ /\ ExportSucceeds(n, v, h) /\ Cardinality(files) < MaxFiles
          /\ files' = files \cup {ExportFile(v, h)} /\ UNCHANGED panics
    /\ UNCHANGED <<block, node, backups>>

\* ExportChainBackup: from the highest finalized block of a range down to
\* its start, or to the last block that is there.  Votes for the genesis
\* block, and for blocks known by their headers alone, do not exist.
ExportChainBackup(n, start, end) ==
    /\ node[n].phase = "running" /\ Cardinality(backups) < MaxBackups
    /\ start <= end /\ end \in node[n].indexed /\ IsFinalized(n, end)
    /\ \E first \in {h \in start .. end : (h .. end) \subseteq node[n].headers} :
         /\ first = start \/ first - 1 \notin node[n].headers
         /\ backups' = backups \cup {[start |-> first, end |-> end,
                                      voted |-> (node[n].root + 1) .. end]}
    /\ UNCHANGED <<block, node, files, panics>>

----------------------------------------------------------------------------
(* Import.                                                                 *)

\* checkProofTrios and the proof of the first block of the tail trio.
ProvenValSet(f) == IF f.version < 4 THEN SetOf(Genesis) ELSE SetOf(f.second - 1)

CheckSnapshot(f) ==
    /\ f.second \in f.states /\ f.version < 4 => Genesis \in f.states
    /\ ProvenValSet(f) = SetOf(f.second)

\* The headers in the database once the file is loaded.
Saved(f) == f.headers \cup {f.second - 1, f.second}

CheckLastCheckpoint(f) ==
    \E i \in 0 .. CheckpointInterval - 1 :
        /\ f.second - i = LastCheckPointHeight(f.second)
        /\ (f.second - i + 1) .. f.second \subseteq Saved(f)

Accepts(f) == CheckSnapshot(f) /\ CheckLastCheckpoint(f)

\* The checkpoint is trusted, and the parent of the snapshot's block when
\* it was not already saved as an intermediate header.
TrustedBy(f) ==
    {LastCheckPointHeight(f.second)} \cup ({f.second - 1} \ f.headers)

\* ValidateSnapshot in a temporary database, then the chain is made: its
\* root is saved, indexed and directly finalized.
Start(n, f) ==
    /\ node[n].phase = "empty" /\ Accepts(f)
    /\ node' = [node EXCEPT ![n] = [Empty EXCEPT !.phase = "checked", !.root = f.second,
                   !.top = f.second, !.headers = {f.second}, !.indexed = {f.second}]]
    /\ UNCHANGED <<block, files, backups, panics>>

\* loadChainSegment goes down from the block of the snapshot.  The votes for
\* a block are checked against the validators of the genesis block.
ChecksOut(b, h) ==
    h \in b.voted /\ GetFinalizedValidatorSet(Full, h, FALSE) = SetOf(Genesis)

\* A block whose header is in the database already, other than the first and
\* the last two: the header of the previous trio is read, and there is none.
ReadsPrevTrio(n, f, h) ==
    h \in (node[n].headers \cup Saved(f)) \ {Genesis + 1, f.second - 1, f.second}

\* The block at which the loading of the chain stops, if there is one.
StopsAt(n, f, b) ==
    {h \in b.start .. f.second : ~ChecksOut(b, h) \/ ReadsPrevTrio(n, f, h) \/ f.trios = {}}

\* Nothing is proved by a file without proof trios: the last one is read.
LoadPanics(n, f, b, h) == f.trios = {} \/ (ChecksOut(b, h) /\ ReadsPrevTrio(n, f, h))

\* What loadSnapshot and loadPrevChain put into the database.  A block that
\* is there already, like the root, keeps its status.
Load(n, f, loaded, phase) ==
    node' = [node EXCEPT ![n].phase = phase, ![n].headers = @ \cup Saved(f) \cup loaded,
                ![n].indexed = @ \cup loaded, ![n].states = @ \cup f.states,
                ![n].trusted = @ \cup (TrustedBy(f) \ node[n].headers),
                ![n].pending = @ \cup (Saved(f) \ (TrustedBy(f) \cup node[n].headers)),
                ![n].trios = @ \cup f.trios]

\* ImportSnapshot, without and with a chain backup.  When the chain cannot be
\* loaded the process ends, and may be started again.
ImportSnapshot(n, f) ==
    /\ node[n].phase = "checked" /\ f.second = node[n].root
    /\ \/ Load(n, f, {}, "running") /\ UNCHANGED panics
       \/ \E b \in backups :
            /\ b.start <= f.second /\ f.second <= b.end
            /\ IF StopsAt(n, f, b) = {}
               THEN Load(n, f, b.start .. f.second, "running") /\ UNCHANGED panics
               ELSE \E h \in {Max(StopsAt(n, f, b))} :
                      /\ Load(n, f, h + 1 .. f.second, "checked")
                      /\ panics' = IF LoadPanics(n, f, b, h)
                                   THEN panics \cup {<<"chain", f.version>>} ELSE panics
    /\ UNCHANGED <<block, files, backups>>

\* Started again while its root is its last finalized block, a node loads
\* the snapshot once more.
Restart(n) ==
    /\ node[n].phase = "running" /\ node[n].root # Genesis /\ LastFinalizedBlock(n) = node[n].root
    /\ node' = [node EXCEPT ![n].phase = "checked"]
    /\ UNCHANGED <<block, files, backups, panics>>

Next ==
    \/ \E n \in Nodes \cup {Full} :
         \/ Follow(n)
         \/ Restart(n)
         \/ \E v \in Versions, h \in 1 .. Height : ExportSnapshot(n, v, h)
         \/ \E start \in Starts, end \in 0 .. Height : ExportChainBackup(n, start, end)
    \/ \E n \in Nodes, f \in files : Start(n, f) \/ ImportSnapshot(n, f)

Spec == Init /\ [][Next]_vars

----------------------------------------------------------------------------
(* Properties.                                                             *)

\* Every field of the databases and of the files is about blocks of the
\* chain, and a running node has the state of its last block.
TypeOK ==
    /\ \A n \in DOMAIN node :
         /\ node[n].headers \cup node[n].states \subseteq DOMAIN block
         /\ node[n].indexed \subseteq node[n].headers
         /\ node[n].phase = "running" => node[n].top \in node[n].states
    /\ \A f \in files : f.states \cup f.headers \subseteq DOMAIN block

\* A node that was started from a snapshot finds for its root, for each later
\* block, and for the blocks after them, the validators that a node with the
\* whole chain finds (ledger.GetFinalizedValidatorSet over what loadSnapshot
\* saved).  The lookup for the root itself may miss the state it ends at (and
\* panic), but does not end at other validators.
ImportedNodesAgree ==
    \A n \in Nodes : node[n].phase = "running" =>
        \A h \in node[n].root .. node[n].top, isNext \in BOOLEAN :
            h <= node[Full].top =>
                \/ GetFinalizedValidatorSet(n, h, isNext) = GetFinalizedValidatorSet(Full, h, isNext)
                \/ h = node[n].root /\ ~isNext /\ GetFinalizedValidatorSet(n, h, FALSE) = NoSet

\* A version 4 file is accepted by every new node, whoever wrote it, unless
\* its block itself changes the validators (checkSnapshotV4, checkTailTrio
\* and checkLastCheckpoint of what ExportSnapshotV4 wrote).
ExportsAreAccepted ==
    \A f \in files : f.version = 4 /\ SetOf(f.second) = SetOf(f.second - 1) => Accepts(f)
============================================================================
