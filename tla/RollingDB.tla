----------------------------- MODULE RollingDB ------------------------------
(***************************************************************************)
(* The database of the state tries (store/rollingdb): a stack of layers,   *)
(* each a directory of its own.  The newest layer takes all writes.  At    *)
(* certain heights a new layer is put on top; at others a goroutine copies *)
(* one finalized state from the old layers into the newest and destroys    *)
(* the old layers.                                                         *)
(*                                                                         *)
(* The engine goroutine commits one state per block (state.go Commit):     *)
(* "step" is what is left of that call.  "tasks" are the compactions that  *)
(* have been started with "go" and have not looked at the layers yet,      *)
(* "task" is the one that holds compactC.  A state is the set of the nodes *)
(* of its tries, account storage included.                                 *)
(***************************************************************************)
EXTENDS Integers, FiniteSets, FiniteSetsExt

CONSTANTS
  Blocks, Genesis,   \* the blocks; Genesis is the root
  ParentOf,          \* ParentOf[b]: the parent of b
  StateOf,           \* StateOf[b]: the root hash of the state after b
  NodesOf,           \* NodesOf[s]: the hashes of the nodes of state s
  Interval,          \* CfgStorageRollingInterval
  RollAt, CompactAt, \* the remainders 50 and 70
  Retained,          \* CfgStorageStatePruningRetainedBlocks + 10
  MaxUnfinalized,    \* bound: how far execution gets ahead of finality
  MaxLag,            \* bound: how late a started compaction looks
  MaxCrashes         \* bound on the number of crashes

VARIABLES
  disk,       \* disk[n]: nodes and tag of layer n; layer 0 is the root layer
  executed,   \* the blocks whose state has been committed
  lfb,        \* the last finalized block
  step,       \* what the engine goroutine has still to do for which block
  tasks,      \* the heights of the compactions that have not looked yet
  task,       \* the running compaction
  crashes     \* the number of crashes so far

vars == <<disk, executed, lfb, step, tasks, task, crashes>>

Height[b \in Blocks] == IF b = Genesis THEN 0 ELSE Height[ParentOf[b]] + 1

Ancestors[b \in Blocks] ==
  IF b = Genesis THEN {b} ELSE {b} \cup Ancestors[ParentOf[b]]

NoTask == [at |-> "idle"]
Untagged == [height |-> 0, roots |-> {}]

\* A fresh data directory: the snapshot has put the genesis state in the root
\* layer, and loadLayers has made layer 1.
Init ==
  /\ disk = [n \in {0, 1} |->
               [nodes |-> IF n = 0 THEN NodesOf[StateOf[Genesis]] ELSE {},
                tag |-> Untagged]]
  /\ executed = {Genesis}
  /\ lfb = Genesis
  /\ step = NoTask
  /\ tasks = {}
  /\ task = NoTask
  /\ crashes = 0

\* loadLayers and addLayer: the newest layer is the active one.
Active == Max(DOMAIN disk)
Layers == DOMAIN disk \ {0, Active}

\* Get asks every layer, from the newest to the root.
Get(n) == \E l \in DOMAIN disk : n \in disk[l].nodes
Readable(b) == \A n \in NodesOf[StateOf[b]] : Get(n)

\* destroy holds the lock of the database: Put, Write and addLayer wait.
Locked == task.at = "destroy"

isRollingHeight(h) == h % Interval = RollAt
isCompactionHeight(h) == h % Interval = CompactAt

Top == Max({Height[b] : b \in executed})

-----------------------------------------------------------------------------
\* The nodes of a state that its parent state does not have.
Dirty(b) == NodesOf[StateOf[b]] \ NodesOf[StateOf[ParentOf[b]]]

\* Save: the nodes the block has made, in one batch to the active layer.
Execute(b) ==
  /\ step = NoTask /\ ~Locked
  /\ b \notin executed /\ ParentOf[b] \in executed
  /\ Height[b] > Height[lfb]
  /\ Height[b] - Height[lfb] <= MaxUnfinalized
  /\ \A h \in tasks : Height[b] - h <= MaxLag
  /\ disk' = [disk EXCEPT ![Active].nodes = @ \cup Dirty(b)]
  /\ step' = [at |-> "tag", block |-> b]
  /\ UNCHANGED <<executed, lfb, tasks, task, crashes>>

Tagged(tag, h, root) ==
  IF h < tag.height THEN tag
  ELSE [height |-> h,
        roots |-> (IF h = tag.height THEN tag.roots ELSE {}) \cup {root}]

\* addTag: Put on the layer itself, without the lock.
addTag ==
  /\ step.at = "tag"
  /\ disk' = [disk EXCEPT ![Active].tag =
                Tagged(@, Height[step.block], StateOf[step.block])]
  /\ step' = [step EXCEPT !.at = "roll"]
  /\ UNCHANGED <<executed, lfb, tasks, task, crashes>>

\* The rest of Tag: addLayer, then the start of a compaction.
Roll ==
  /\ step.at = "roll"
  /\ LET h == Height[step.block] IN
     /\ isRollingHeight(h) => ~Locked
     /\ disk' = IF isRollingHeight(h)
                THEN [n \in DOMAIN disk \cup {Active + 1} |->
                        IF n \in DOMAIN disk THEN disk[n]
                        ELSE [nodes |-> {}, tag |-> Untagged]]
                ELSE disk
     /\ tasks' = IF isCompactionHeight(h) THEN tasks \cup {h} ELSE tasks
  /\ step' = [step EXCEPT !.at = "mark"]
  /\ UNCHANGED <<executed, lfb, task, crashes>>

\* The engine marks the block as valid.
MarkBlockValid ==
  /\ step.at = "mark"
  /\ executed' = executed \cup {step.block}
  /\ step' = NoTask
  /\ UNCHANGED <<disk, lfb, tasks, task, crashes>>

\* The engine finalizes a block it has executed.
Finalize(b) ==
  /\ step = NoTask
  /\ b \in executed /\ b # lfb /\ lfb \in Ancestors[b]
  /\ lfb' = b
  /\ UNCHANGED <<disk, executed, step, tasks, task, crashes>>

-----------------------------------------------------------------------------
\* Mutant of OldEnough: the retained layers are compacted as well.
OldEnoughAlways(h, l) == TRUE

\* "height - tag.Height > retained + 10" on unsigned integers: a layer that
\* is newer than the compaction wraps around, and is found too.
OldEnough(h, l) ==
  h < disk[l].tag.height \/ h - disk[l].tag.height > Retained

\* The state to move: that of the finalized block at the height of the tag,
\* when the layer has it among its roots.
FinalizedAt(h) == {b \in Ancestors[lfb] : Height[b] = h}
MovedStates(l) ==
  {StateOf[b] : b \in FinalizedAt(disk[l].tag.height)} \cap disk[l].tag.roots

\* The newest of the layers that are old enough, when it was cut off cleanly.
Sources(h) ==
  LET old == {l \in Layers : OldEnough(h, l)} IN
  {l \in old : /\ l = Max(old)
               /\ isRollingHeight(disk[l].tag.height)
               /\ MovedStates(l) # {}}

\* The goroutine takes compactC, or gives up when another one has it.
Compact(h) ==
  /\ h \in tasks
  /\ tasks' = tasks \ {h}
  /\ \/ /\ task # NoTask \/ Sources(h) = {}
        /\ UNCHANGED task
     \/ /\ task = NoTask
        /\ \E l \in Sources(h) : \E s \in MovedStates(l) :
             task' = [at |-> "copy", source |-> l, target |-> Active,
                      left |-> NodesOf[s]]
  /\ UNCHANGED <<disk, executed, lfb, step, crashes>>

\* copyState: a node is read through all the layers and written to the target.
CopyNode(n) ==
  /\ task.at = "copy" /\ n \in task.left
  /\ Get(n)
  /\ disk' = [disk EXCEPT ![task.target].nodes = @ \cup {n}]
  /\ task' = [task EXCEPT !.left = @ \ {n}]
  /\ UNCHANGED <<executed, lfb, step, tasks, crashes>>

Copied == task.left = {}

\* The copy is done; the goroutine takes the lock.
LockLayers ==
  /\ task.at = "copy" /\ Copied
  /\ task' = [task EXCEPT !.at = "destroy"]
  /\ UNCHANGED <<disk, executed, lfb, step, tasks, crashes>>

\* All layers up to the source, the root layer excepted.
Doomed(source) == {l \in Layers : l <= source}

\* destroy, one directory after the other, and the return.  os.RemoveAll
\* removes file after file: after a crash a layer may have lost its nodes, or
\* its tag too, and still be there.
Destroy ==
  /\ task.at = "destroy"
  /\ LET doomed == Doomed(task.source) IN
     IF doomed = {}
     THEN task' = NoTask /\ UNCHANGED disk
     ELSE /\ \/ disk' = [n \in DOMAIN disk \ {Min(doomed)} |-> disk[n]]
             \/ \E tag \in {disk[Min(doomed)].tag, Untagged} :
                  disk' = [disk EXCEPT ![Min(doomed)] = [nodes |-> {}, tag |-> tag]]
          /\ UNCHANGED task
  /\ UNCHANGED <<executed, lfb, step, tasks, crashes>>

\* The process dies and is restarted; what was being executed is not marked
\* valid and will be executed again.
Crash ==
  /\ crashes < MaxCrashes
  /\ crashes' = crashes + 1
  /\ step' = NoTask /\ tasks' = {} /\ task' = NoTask
  /\ UNCHANGED <<disk, executed, lfb>>

Next ==
  \/ \E b \in Blocks : Execute(b) \/ Finalize(b)
  \/ addTag
  \/ Roll
  \/ MarkBlockValid
  \/ \E h \in tasks : Compact(h)
  \/ task.at = "copy" /\ \E n \in task.left : CopyNode(n)
  \/ LockLayers
  \/ Destroy
  \/ Crash

Spec == Init /\ [][Next]_vars

-----------------------------------------------------------------------------
TypeOK ==
  /\ 0 \in DOMAIN disk /\ Active > 0
  /\ \A l \in DOMAIN disk :
       /\ disk[l].nodes \subseteq UNION {NodesOf[StateOf[b]] : b \in Blocks}
       /\ disk[l].tag.roots \subseteq {StateOf[b] : b \in Blocks}
  /\ executed \subseteq Blocks /\ lfb \in executed
  /\ step.at \in {"idle", "tag", "roll", "mark"}
  /\ task.at \in {"idle", "copy", "destroy"}
  /\ task # NoTask => task.source < task.target

\* Every block the engine may still build on has its whole state in the
\* layers that are left, whatever a compaction has destroyed and whenever the
\* process died: the last finalized block and all that descends from it.
BuildableStatesAreReadable ==
  \A b \in executed : lfb \in Ancestors[b] => Readable(b)

\* The retention the configuration asks for (compact,
\* minimumNumBlocksToRetain): the finalized blocks that are not older than it
\* have their whole state in the layers.
RetainedStatesAreReadable ==
  \A b \in Ancestors[lfb] : Top - Height[b] <= Retained => Readable(b)

\* copyTrie panics when it misses a node: the state that is being moved is
\* still whole while it is moved, and moved before a layer is destroyed.
MovedStateIsWhole ==
  task # NoTask => \A n \in task.left : Get(n)
=============================================================================
