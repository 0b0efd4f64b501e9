------------------------- MODULE EngineBlocksProofs -------------------------
(***************************************************************************)
(* What the invariant of ConsensusEngine says about the work that is left  *)
(* of a node, what has to be shown of a step for the invariant to be kept, *)
(* and that the steps that make, store and vote for blocks, the timers and *)
(* the crashes keep it.                                                    *)
(***************************************************************************)
EXTENDS EngineBlocks, BlockTreeProofs

USE ZenonT(30)

(***************************************************************************)
(* What the steps rest on: the invariant of the engine, and that a         *)
(* majority stays one when validators join it (MajorityMonotone).          *)
(***************************************************************************)
MajoritiesGrow ==
  \A S, T : S \subseteq T /\ HasMajority(S) => HasMajority(T)

Inv == EngineInv /\ MajoritiesGrow

-----------------------------------------------------------------------------
(***************************************************************************)
(* What the invariant says about the database of one node.                 *)
(***************************************************************************)
LEMMA NodeTypes ==
  ASSUME Inv, NEW n \in Honest
  PROVE  /\ proposed \subseteq Blocks
         /\ Stored(n) \subseteq Blocks
         /\ StoredValid(n) \subseteq Stored(n)
         /\ Root \in StoredValid(n)
         /\ db[n].hcc \in StoredValid(n) /\ db[n].lfb \in StoredValid(n)
         /\ voted \in [Honest -> SUBSET Blocks] /\ voted[n] \subseteq StoredValid(n)
         /\ \A b \in Stored(n) : db[n].status[b] \in Statuses
         /\ Height(db[n].lfb) \in Nat /\ Height(db[n].hcc) \in Nat
         /\ Height(db[n].lfb) <= Height(db[n].hcc)
         /\ \A b \in Stored(n) : Height(b) \in Nat
<1>1. /\ NodeTypeOK(n) /\ proposed \subseteq Blocks /\ StoreInv(n) /\ Root \in Blocks
      /\ voted \in [Honest -> SUBSET Blocks] /\ voted[n] \subseteq StoredValid(n)
      /\ Height(db[n].lfb) <= Height(db[n].hcc)
  BY RootType DEF Inv, EngineInv, TypeOK, VotingInv
<1>2. /\ Stored(n) \subseteq Blocks /\ StoredValid(n) \subseteq Stored(n)
      /\ db[n].hcc \in StoredValid(n) /\ db[n].lfb \in StoredValid(n)
      /\ \A b \in Stored(n) : db[n].status[b] \in Statuses
  BY <1>1 DEF NodeTypeOK, StoredValid
<1>3. Root \in StoredValid(n)
  BY <1>1 DEF StoreInv, StoredValid, IsFinalized, IsValid
<1>4. \A b \in Stored(n) : Height(b) \in Nat
  BY <1>2, BlockType
<1> QED
  BY <1>1, <1>2, <1>3, <1>4

(***************************************************************************)
(* The tree of the valid blocks of a node is closed: with a block it has   *)
(* its parent and the block of its certificate.                            *)
(***************************************************************************)
LEMMA ValidTree ==
  ASSUME Inv, NEW n \in Honest, NEW b \in Blocks, b # Root,
         b \in StoredValid(n) \/ Parent(b) \in StoredValid(n)
  PROVE  Parent(b) \in StoredValid(n) /\ Hcc(b) \in StoredValid(n)
<1>1. \A c \in StoredValid(n) : \A k \in 0 .. Len(c) : SubSeq(c, 1, k) \in StoredValid(n)
  BY DEF Inv, EngineInv, StoreInv
<1>2. Parent(b) \in StoredValid(n)
  BY <1>1, Cuts
<1> QED
  BY <1>1, <1>2, Cuts

-----------------------------------------------------------------------------
(***************************************************************************)
(* The tasks other than those for the votes of a certificate.              *)
(***************************************************************************)
Tasks ==
  {Task(op, b) : op \in {"vote", "sendVote", "enterEpoch", "apply", "commit", "setHcc",
                         "finalize", "direct", "indirect"},
                 b \in Blocks}

Join(q, r) == q \o r

Then1(b, e) == Before(Task("commit", b), e)

Then2(b, e) == CCTasks(b) \o e

(***************************************************************************)
(* The tasks, and the three parts of the work of a node.                   *)
(***************************************************************************)
LEMMA TaskFields ==
  ASSUME NEW op, NEW b
  PROVE  Task(op, b).op = op /\ Task(op, b).block = b
  BY DEF Task

(***************************************************************************)
(* The work of a node that is left after its vote.                         *)
(***************************************************************************)
IsRest(n, work) ==
  \E b \in StoredValid(n) : \E w \in CCWork(n, b), e \in EndWork(n, b) :
    work = Join(w, e) /\ CCInv(n, b, w)

(***************************************************************************)
(* The tasks the handlers leave are tasks, and the work put together from  *)
(* them are sequences of tasks.                                            *)
(***************************************************************************)
LEMMA WorkTypes ==
  ASSUME Inv, NEW n \in Honest, NEW b \in StoredValid(n)
  PROVE  /\ VoteWork(n) \subseteq Seq(Tasks)
         /\ CCWork(n, b) \subseteq Seq(Tasks)
         /\ EndWork(n, b) \subseteq Seq(Tasks)
         /\ MarkTasks(n) \subseteq Tasks
         /\ {Task("finalize", Parent(b)), Task("setHcc", b), Task("commit", b),
             Task("vote", Root), Task("enterEpoch", Root)} \subseteq Tasks
         /\ \A c \in Stored(n) : Task("apply", c) \in Tasks
         /\ \A c \in voted[n] : Task("sendVote", c) \in Tasks
<1>1. /\ b \in Blocks /\ StoredValid(n) \subseteq Blocks /\ voted[n] \subseteq Blocks
      /\ Root \in Blocks /\ Stored(n) \subseteq Blocks
  BY NodeTypes, RootType
<1>2. Parent(b) \in Blocks
  <2>1. CASE b = Root
    <3>1. \A k \in Int : k < 1 => SubSeq(<< >>, 1, k) = << >>
      BY SMTT(30)
    <3>2. Len(<< >>) - 1 = -1
      BY SMTT(30)
    <3>3. Parent(<< >>) = << >>
      BY <3>1, <3>2, SMTT(30) DEF Parent
    <3> QED
      BY <2>1, <3>3, <1>1 DEF Root
  <2>2. CASE b # Root
    BY <2>2, <1>1, ParentType
  <2> QED
    BY <2>1, <2>2
<1>3. /\ MarkTasks(n) \subseteq Tasks
      /\ {Task("finalize", Parent(b)), Task("setHcc", b), Task("commit", b),
          Task("vote", Root), Task("enterEpoch", Root)} \subseteq Tasks
      /\ \A c \in Stored(n) : Task("apply", c) \in Tasks
      /\ \A c \in voted[n] : Task("sendVote", c) \in Tasks
  BY <1>1, <1>2, SMTT(30) DEF Tasks, MarkTasks
<1>4. ASSUME NEW t \in Tasks PROVE << t >> \in Seq(Tasks)
  BY SMTT(30)
<1>5. << >> \in Seq(Tasks) /\ CCTasks(b) \in Seq(Tasks)
  BY <1>3, SMTT(30) DEF CCTasks
<1>6. ASSUME NEW t \in Tasks PROVE Before(t, CCTasks(b)) \in Seq(Tasks)
  BY <1>5, SMTT(30) DEF Before
<1>7. ASSUME NEW p \in VoteWork(n) PROVE p \in Seq(Tasks)
  <2>1. \/ p = << >> \/ p = << Task("vote", Root) >>
        \/ \E c \in voted[n] : p = << Task("sendVote", c) >>
    BY DEF VoteWork
  <2> QED
    BY <2>1, <1>3, <1>4, <1>5
<1>8. ASSUME NEW e \in EndWork(n, b) PROVE e \in Seq(Tasks)
  <2>1. \/ e = << >> \/ e = << Task("enterEpoch", Root) >>
        \/ \E c \in Stored(n) : e = << Task("apply", c) >>
    BY DEF EndWork
  <2> QED
    BY <2>1, <1>3, <1>4, <1>5
<1>9. ASSUME NEW w \in CCWork(n, b) PROVE w \in Seq(Tasks)
  <2>1. \/ w = << >> \/ w = << Task("commit", b) >> \/ w = CCTasks(b)
        \/ w = Before(Task("finalize", Parent(b)), CCTasks(b))
        \/ \E t \in MarkTasks(n) : w = Before(t, CCTasks(b))
    BY DEF CCWork
  <2> QED
    BY <2>1, <1>3, <1>4, <1>5, <1>6
<1> QED
  BY <1>3, <1>7, <1>8, <1>9

(***************************************************************************)
(* The work that is left, by its first task t.                             *)
(***************************************************************************)
VoteNext(n, t, rest) ==
  /\ t.op = "vote" \/ (t.op = "sendVote" /\ t.block \in voted[n])
  /\ IsRest(n, rest)

CommitNext(n, t, rest) ==
  \E b \in StoredValid(n) : \E e \in EndWork(n, b) :
    /\ t = Task("commit", b) /\ rest = e
    /\ b = db[n].hcc /\ db[n].status[b] = "valid"

SetHccNext(n, t, rest) ==
  \E b \in StoredValid(n) : \E e \in EndWork(n, b) :
    /\ t = Task("setHcc", b) /\ rest = Then1(b, e)
    /\ NewCC(n, b)
    /\ FinalizesParent(b) => db[n].lfb = Parent(b)

FinalizeNext(n, t, rest) ==
  \E b \in StoredValid(n) : \E e \in EndWork(n, b) :
    /\ t = Task("finalize", Parent(b)) /\ rest = Then2(b, e)
    /\ NewCC(n, b) /\ FinalizesParent(b)

MarkNext(n, t, rest) ==
  \E b \in StoredValid(n) : \E e \in EndWork(n, b) :
    /\ t \in MarkTasks(n) /\ rest = Then2(b, e)
    /\ IsDescendant(t.block, db[n].lfb)
    /\ NewCC(n, b) /\ FinalizesParent(b) /\ db[n].lfb = Parent(b)

EnterNext(n, t, rest) == t = Task("enterEpoch", Root) /\ rest = << >>

ApplyNext(n, t, rest) ==
  /\ t.op = "apply" /\ rest = << >>
  /\ t.block \in Stored(n) /\ Ready(n, t.block)
  /\ Height(Hcc(t.block)) <= Height(db[n].hcc)

VotesNext(n, t, rest) ==
  \E b \in Stored(n) : \E left \in SUBSET cert[b] :
    t = VotesTask(b, left) /\ rest = << >> /\ Ready(n, b) /\ VotesInv(n, b, left)

WorkNext(n, t, rest) ==
  \/ VoteNext(n, t, rest) \/ CommitNext(n, t, rest) \/ SetHccNext(n, t, rest)
  \/ FinalizeNext(n, t, rest) \/ MarkNext(n, t, rest) \/ EnterNext(n, t, rest)
  \/ ApplyNext(n, t, rest) \/ VotesNext(n, t, rest)

(***************************************************************************)
(* Whatever task a node that is not idle does first, WorkInv tells what    *)
(* holds before it and what is left after it.                              *)
(***************************************************************************)
LEMMA WorkCases ==
  ASSUME Inv, NEW n \in Honest, ~Idle(n)
  PROVE  WorkNext(n, Head(mem[n].work), Tail(mem[n].work))
<1> DEFINE t == Head(mem[n].work)
           rest == Tail(mem[n].work)
<1>1. WorkInv(n)
  BY DEF Inv, EngineInv
<1>2. CASE \E b \in Stored(n) :
             /\ Ready(n, b)
             /\ \E left \in SUBSET cert[b] :
                  mem[n].work = << VotesTask(b, left) >> /\ VotesInv(n, b, left)
  <2>1. \A x : Head(<< x >>) = x /\ Tail(<< x >>) = << >>
    BY SMTT(30)
  <2> QED
    BY <1>2, <2>1 DEF VotesNext, WorkNext
<1>3. CASE \E b \in StoredValid(n), p \in VoteWork(n) :
             \E w \in CCWork(n, b), e \in EndWork(n, b) :
               mem[n].work = p \o w \o e /\ CCInv(n, b, w)
  <2>1. PICK b \in StoredValid(n), p \in VoteWork(n) :
               \E w \in CCWork(n, b), e \in EndWork(n, b) :
                 mem[n].work = p \o w \o e /\ CCInv(n, b, w)
    BY <1>3
  <2>2. PICK w \in CCWork(n, b), e \in EndWork(n, b) :
               mem[n].work = p \o w \o e /\ CCInv(n, b, w)
    BY <2>1
  <2>3. /\ p \in Seq(Tasks) /\ w \in Seq(Tasks) /\ e \in Seq(Tasks)
        /\ Task("setHcc", b) \in Tasks /\ Task("commit", b) \in Tasks
        /\ Task("finalize", Parent(b)) \in Tasks /\ Task("enterEpoch", Root) \in Tasks
        /\ MarkTasks(n) \subseteq Tasks
        /\ \A c \in Stored(n) : Task("apply", c) \in Tasks
    BY WorkTypes
  <2>4. CASE p # << >>
    <3>1. PICK x \in Tasks : /\ p = << x >>
                             /\ x.op = "vote" \/ (x.op = "sendVote" /\ x.block \in voted[n])
      <4>1. p = << Task("vote", Root) >> \/ \E c \in voted[n] : p = << Task("sendVote", c) >>
        BY <2>4 DEF VoteWork
      <4>2. /\ Task("vote", Root) \in Tasks /\ Task("vote", Root).op = "vote"
            /\ \A c \in voted[n] : /\ Task("sendVote", c) \in Tasks
                                   /\ Task("sendVote", c).op = "sendVote"
                                   /\ Task("sendVote", c).block = c
        BY WorkTypes, TaskFields
      <4> QED
        BY <4>1, <4>2
    <3>2. mem[n].work = << x >> \o Join(w, e) /\ Join(w, e) \in Seq(Tasks)
      BY <2>2, <2>3, <3>1, SMTT(30) DEF Join
    <3>3. t = x /\ rest = Join(w, e)
      BY <3>2, SMTT(30)
    <3>4. CCInv(n, b, w)
      BY <2>2
    <3>5. IsRest(n, rest)
      BY <3>3, <3>4 DEF IsRest
    <3>6. t.op = "vote" \/ (t.op = "sendVote" /\ t.block \in voted[n])
      BY <3>1, <3>3
    <3> QED
      BY <3>5, <3>6 DEF VoteNext, WorkNext
  <2>5. CASE p = << >>
    <3>1. mem[n].work = w \o e
      BY <2>2, <2>3, <2>5, SMTT(30)
    <3>2. CASE w = << >> /\ Height(b) <= Height(db[n].hcc)
      <4>1. mem[n].work = e /\ e # << >>
        BY <2>3, <3>1, <3>2, SMTT(30) DEF Idle
      <4>2. CASE e = << Task("enterEpoch", Root) >>
        <5>1. t = Task("enterEpoch", Root) /\ rest = << >>
          BY <4>1, <4>2, SMTT(30)
        <5> QED
          BY <5>1 DEF EnterNext, WorkNext
      <4>3. CASE \E c \in {d \in Stored(n) : Ready(n, d) /\ Hcc(d) = b} :
                   e = << Task("apply", c) >>
        <5>1. PICK c \in Stored(n) : Ready(n, c) /\ Hcc(c) = b /\ e = << Task("apply", c) >>
          BY <4>3
        <5>2. t = Task("apply", c) /\ rest = << >>
          BY <4>1, <5>1, SMTT(30)
        <5> QED
          BY <5>1, <5>2, <3>2, SMTT(30) DEF Task, ApplyNext, WorkNext
      <4> QED
        BY <4>1, <4>2, <4>3 DEF EndWork
    <3>3. CASE w = << Task("commit", b) >> /\ b = db[n].hcc /\ db[n].status[b] = "valid"
      <4>1. t = Task("commit", b) /\ rest = e
        BY <3>1, <3>3, <2>3, SMTT(30)
      <4> QED
        BY <4>1, <3>3 DEF CommitNext, WorkNext
    <3>4. CASE /\ w = CCTasks(b) /\ NewCC(n, b)
               /\ FinalizesParent(b) => db[n].lfb = Parent(b)
      <4>1. t = Task("setHcc", b) /\ rest = Then1(b, e)
        BY <3>1, <3>4, <2>3, SMTT(30) DEF CCTasks, Then1, Before
      <4> QED
        BY <4>1, <3>4 DEF SetHccNext, WorkNext
    <3>5. ASSUME NEW x \in Tasks, w = Before(x, CCTasks(b))
          PROVE  t = x /\ rest = Then2(b, e)
      <4>1. CCTasks(b) \in Seq(Tasks)
        BY <2>3, SMTT(30) DEF CCTasks
      <4>2. mem[n].work = << x >> \o (CCTasks(b) \o e) /\ CCTasks(b) \o e \in Seq(Tasks)
        BY <3>1, <3>5, <2>3, <4>1, SMTT(30) DEF Before
      <4> QED
        BY <4>2, SMTT(30) DEF Then2
    <3>6. CASE /\ w = Before(Task("finalize", Parent(b)), CCTasks(b))
               /\ NewCC(n, b) /\ FinalizesParent(b)
      <4>1. t = Task("finalize", Parent(b)) /\ rest = Then2(b, e)
        BY <3>5, <3>6, <2>3
      <4> QED
        BY <4>1, <3>6 DEF FinalizeNext, WorkNext
    <3>7. CASE /\ \E x \in MarkTasks(n) : /\ w = Before(x, CCTasks(b))
                                         /\ IsDescendant(x.block, db[n].lfb)
               /\ NewCC(n, b) /\ FinalizesParent(b) /\ db[n].lfb = Parent(b)
      <4>1. PICK x \in MarkTasks(n) : w = Before(x, CCTasks(b))
                                      /\ IsDescendant(x.block, db[n].lfb)
        BY <3>7
      <4>2. t = x /\ rest = Then2(b, e)
        BY <3>5, <4>1, <2>3
      <4> QED
        BY <4>1, <4>2, <3>7 DEF MarkNext, WorkNext
    <3>8. CCInv(n, b, w)
      BY <2>2
    <3> QED
      BY <3>8, <3>2, <3>3, <3>4, <3>6, <3>7 DEF CCInv
  <2> QED
    BY <2>4, <2>5
<1> QED
  BY <1>1, <1>2, <1>3 DEF WorkInv

-----------------------------------------------------------------------------
(***************************************************************************)
(* What every step does to the messages: they become more, and the         *)
(* certificate of a block stays the same.                                  *)
(***************************************************************************)
Grow ==
  /\ proposed \subseteq proposed' /\ proposed' \subseteq Blocks /\ DOMAIN cert' = proposed'
  /\ \A b \in proposed : cert'[b] = cert[b]
  /\ sent \subseteq sent'
  /\ \A m \in Honest : voted[m] \subseteq voted'[m]
  /\ crashes' \in 0 .. MaxCrashes

(***************************************************************************)
(* A step of n changes nothing at the other nodes.                         *)
(***************************************************************************)
DbFrame(n) ==
  /\ DOMAIN db' = Honest /\ DOMAIN db'[n] = DOMAIN db[n]
  /\ \A m \in Honest \ {n} : db'[m] = db[m]

(***************************************************************************)
(* What every step does to the statuses of n's blocks.                     *)
(***************************************************************************)
StatusAdvances(n) ==
  \A b \in Stored(n) :
    /\ b \in Stored(n)'
    /\ \/ db'[n].status[b] = db[n].status[b]
       \/ /\ Rank(db[n].status[b]) < Rank(db'[n].status[b])
          /\ db'[n].status[b] = "invalid" => db[n].status[b] = "pending"

(***************************************************************************)
(* Votes and blocks are only added, so a signed vote stays signed, and a   *)
(* certificate a certificate.                                              *)
(***************************************************************************)
LEMMA StaysSigned ==
  ASSUME Inv, Grow
  PROVE  /\ \A v : IsSigned(v) => IsSigned(v)'
         /\ \A b : Certified(b) => Certified(b)'
         /\ \A b \in proposed : CertIsValid(b) => CertIsValid(b)'
         /\ AllVotes \cup UNION {cert[b] : b \in proposed}
              \subseteq AllVotes' \cup UNION {cert'[b] : b \in proposed'}
<1>1. \A v : IsSigned(v) => IsSigned(v)'
  BY DEF IsSigned, Grow
<1>2. ASSUME NEW b, Certified(b) PROVE Certified(b)'
  <2> DEFINE S == {v \in Honest : b \in voted[v]} \cup Faulty
             T == {v \in Honest : b \in voted'[v]} \cup Faulty
  <2>1. S \subseteq T /\ HasMajority(S)
    BY <1>2 DEF Grow, Certified
  <2> HIDE DEF S, T
  <2>2. HasMajority(T)
    BY <2>1 DEF Inv, MajoritiesGrow
  <2> QED
    BY <2>2 DEF T, Certified
<1>3. \A b \in proposed : CertIsValid(b) => CertIsValid(b)'
  BY <1>1 DEF CertIsValid, Grow
<1>4. AllVotes \cup UNION {cert[b] : b \in proposed}
        \subseteq AllVotes' \cup UNION {cert'[b] : b \in proposed'}
  BY DEF AllVotes, Grow
<1> QED
  BY <1>1, <1>2, <1>3, <1>4

(***************************************************************************)
(* A block that is stored, valid, processed or finalized stays so while    *)
(* statuses only advance.                                                  *)
(***************************************************************************)
LEMMA StaysValid ==
  ASSUME Inv, NEW n \in Honest, StatusAdvances(n),
         \A b \in Stored(n)' : db'[n].status[b] \in Statuses
  PROVE  /\ Stored(n) \subseteq Stored(n)'
         /\ StoredValid(n) \subseteq StoredValid(n)'
         /\ \A b \in Stored(n) : /\ db'[n].status[b] = "pending" => db[n].status[b] = "pending"
                                 /\ IsFinalized(db[n].status[b]) => IsFinalized(db'[n].status[b])
<1>1. \A b \in Stored(n) : db[n].status[b] \in Statuses
  BY NodeTypes
<1>2. \A b \in Stored(n) :
        /\ db'[n].status[b] = "pending" => db[n].status[b] = "pending"
        /\ IsFinalized(db[n].status[b]) => IsFinalized(db'[n].status[b])
        /\ IsValid(db[n].status[b]) => IsValid(db'[n].status[b])
  BY <1>1, SMTT(30) DEF StatusAdvances, Rank, Statuses, IsFinalized, IsValid
<1>3. Stored(n) \subseteq Stored(n)'
  BY DEF StatusAdvances
<1> QED
  BY <1>2, <1>3 DEF StoredValid

(***************************************************************************)
(* A block that was found ready to be applied stays so.                    *)
(***************************************************************************)
LEMMA StaysReady ==
  ASSUME Inv, Grow, NEW n \in Honest, StatusAdvances(n),
         \A b \in Stored(n)' : db'[n].status[b] \in Statuses,
         NEW c \in Stored(n), Ready(n, c),
         db'[n].status[c] = db[n].status[c], Height(c) > Height(db'[n].lfb)
  PROVE  Ready(n, c)'
<1>1. /\ StoredValid(n) \subseteq StoredValid(n)' /\ Stored(n) \subseteq Stored(n)'
      /\ \A b \in Stored(n) : IsFinalized(db[n].status[b]) => IsFinalized(db'[n].status[b])
  BY StaysValid
<1>2. c \in Blocks /\ c # Root
  BY NodeTypes DEF Ready, Inv, EngineInv, StoreInv, IsFinalized
<1>3. c \in proposed
  BY <1>2 DEF Inv, EngineInv, TypeOK, NodeTypeOK
<1>4. Parent(c) \in StoredValid(n) /\ Hcc(c) \in Stored(n)
  BY <1>2, ValidTree, NodeTypes DEF Ready, ValidateBlock
<1>5. CertIsValid(c) => CertIsValid(c)'
  BY <1>3, StaysSigned
<1> QED
  BY <1>1, <1>4, <1>5 DEF Ready, ValidateBlock, Stored

-----------------------------------------------------------------------------
(***************************************************************************)
(* The tree of n stays the same, except perhaps for new pending blocks.    *)
(***************************************************************************)
SameTree(n) ==
  /\ Stored(n) \subseteq Stored(n)'
  /\ \A b \in Stored(n)' : IF b \in Stored(n) THEN db'[n].status[b] = db[n].status[b]
                                              ELSE db'[n].status[b] = "pending"
  /\ db'[n].hcc = db[n].hcc /\ db'[n].lfb = db[n].lfb

(***************************************************************************)
(* What is left to do does not change as long as the tree does not.        *)
(***************************************************************************)
LEMMA SameTreeKeeps ==
  ASSUME Inv, Grow, NEW n \in Honest, SameTree(n)
  PROVE  /\ StoredValid(n)' = StoredValid(n) /\ StatusAdvances(n)
         /\ \A b \in Stored(n)' : db'[n].status[b] \in Statuses
         /\ \A c \in Stored(n) : Ready(n, c) => Ready(n, c)'
         /\ \A b \in StoredValid(n) : /\ CCWork(n, b)' = CCWork(n, b)
                                      /\ EndWork(n, b) \subseteq EndWork(n, b)'
         /\ VoteWork(n) \subseteq VoteWork(n)'
         /\ \A b \in StoredValid(n) : \A w : CCInv(n, b, w) => CCInv(n, b, w)'
         /\ \A r : IsRest(n, r) => IsRest(n, r)'
<1>1. /\ StatusAdvances(n)
      /\ \A b \in Stored(n)' : db'[n].status[b] \in Statuses
  BY NodeTypes DEF StatusAdvances, SameTree, Statuses
<1>2. StoredValid(n)' = StoredValid(n) /\ StoredValid(n) \subseteq Stored(n)
  <2>1. ASSUME NEW b PROVE b \in StoredValid(n)' <=> b \in StoredValid(n)
    BY DEF SameTree, StoredValid, IsValid
  <2> QED
    BY <2>1 DEF StoredValid
<1>3. ASSUME NEW c \in Stored(n), Ready(n, c) PROVE Ready(n, c)'
  <2>1. /\ Height(c) > Height(db'[n].lfb) /\ db'[n].status[c] = db[n].status[c]
    BY <1>3 DEF Ready, ValidateBlock, SameTree
  <2> QED
    BY <1>1, <1>3, <2>1, StaysReady
<1>4. VoteWork(n) \subseteq VoteWork(n)'
  BY DEF VoteWork, Grow
<1>5. ASSUME NEW b \in StoredValid(n)
      PROVE  CCWork(n, b)' = CCWork(n, b) /\ EndWork(n, b) \subseteq EndWork(n, b)'
  <2>1. CCWork(n, b)' = CCWork(n, b)
    BY <1>2, SMTT(30) DEF CCWork, MarkTasks
  <2>2. EndWork(n, b) \subseteq EndWork(n, b)'
    BY <1>3 DEF EndWork, SameTree
  <2> QED
    BY <2>1, <2>2
<1>6. ASSUME NEW b \in StoredValid(n), NEW w, CCInv(n, b, w) PROVE CCInv(n, b, w)'
  <2>1. db'[n].status[b] = db[n].status[b] /\ db'[n].hcc = db[n].hcc /\ db'[n].lfb = db[n].lfb
    BY <1>2 DEF SameTree
  <2>2. NewCC(n, b) => NewCC(n, b)'
    BY <2>1, StaysSigned DEF NewCC
  <2>3. MarkTasks(n)' = MarkTasks(n)
    BY <1>2, SMTT(30) DEF MarkTasks
  <2> QED
    BY <1>6, <2>1, <2>2, <2>3 DEF CCInv
<1>7. ASSUME NEW r, IsRest(n, r) PROVE IsRest(n, r)'
  BY <1>2, <1>5, <1>6, <1>7 DEF IsRest
<1> QED
  BY <1>1, <1>2, <1>3, <1>4, <1>5, <1>6, <1>7

-----------------------------------------------------------------------------
(***************************************************************************)
(* The invariant of the database of n, by what a step may change: its      *)
(* votes, its tree, and the blocks it is about to handle.                  *)
(***************************************************************************)
VotesOK(n) ==
  /\ db[n].index \subseteq AllVotes \cup UNION {cert[b] : b \in proposed}
  /\ db[n].epochVotes \in [Validators -> -1 .. MaxEpoch]
  /\ db[n].epoch \in 0 .. MaxEpoch
  /\ \A v \in db[n].index : IsSigned(v) /\ v.epoch \in 0 .. MaxEpoch - 1

TreeOK(n) ==
  /\ Stored(n) \subseteq proposed \cup {Root}
  /\ \A b \in Stored(n) : db[n].status[b] \in Statuses
  /\ db[n].hcc \in StoredValid(n) /\ db[n].lfb \in StoredValid(n)
  /\ db[n].lastVote \in StoredValid(n) \cup {NoVote}
  /\ db[n].lastVote # NoVote => db[n].lastVote \in voted[n]
  /\ Root \in Stored(n) /\ IsFinalized(db[n].status[Root])
  /\ \A b \in StoredValid(n) : \A k \in 0 .. Len(b) : SubSeq(b, 1, k) \in StoredValid(n)
  /\ \A b \in Stored(n) :
       /\ IsFinalized(db[n].status[b]) => IsDescendant(b, db[n].lfb)
       /\ db[n].status[b] = "committed" => Height(b) <= Height(db[n].hcc)

MemTypeOK(n) ==
  /\ mem[n].inbox \subseteq Stored(n) /\ mem[n].passed \subseteq Stored(n)
  /\ {db[n].lastProposal, mem[n].lastProposal} \subseteq Stored(n) \cup {NoBlock}
  /\ {mem[n].voteTimerReady, mem[n].blockProcessed} \subseteq BOOLEAN

(***************************************************************************)
(* The types and the store of a node, split by which steps touch them.     *)
(***************************************************************************)
LEMMA NodeParts ==
  ASSUME NEW n
  PROVE  /\ NodeTypeOK(n) /\ StoreInv(n) <=> VotesOK(n) /\ TreeOK(n) /\ MemTypeOK(n)
         /\ NodeTypeOK(n)' /\ StoreInv(n)' <=> VotesOK(n)' /\ TreeOK(n)' /\ MemTypeOK(n)'
<1>1. NodeTypeOK(n) /\ StoreInv(n) <=> VotesOK(n) /\ TreeOK(n) /\ MemTypeOK(n)
  BY DEF NodeTypeOK, StoreInv, VotesOK, TreeOK, MemTypeOK
<1>2. NodeTypeOK(n)' /\ StoreInv(n)' <=> VotesOK(n)' /\ TreeOK(n)' /\ MemTypeOK(n)'
  BY DEF NodeTypeOK, StoreInv, VotesOK, TreeOK, MemTypeOK
<1> QED
  BY <1>1, <1>2

(***************************************************************************)
(* The parts of the invariant that speak about one node.                   *)
(***************************************************************************)
LEMMA Parts ==
  ASSUME Inv, NEW n \in Honest
  PROVE  VotesOK(n) /\ TreeOK(n) /\ MemTypeOK(n) /\ QueueInv(n) /\ WorkInv(n)
  BY NodeParts DEF Inv, EngineInv, TypeOK

(***************************************************************************)
(* When a part is not touched, it stays true.                              *)
(***************************************************************************)
SameVotes(n) ==
  /\ db'[n].index = db[n].index /\ db'[n].epochVotes = db[n].epochVotes
  /\ db'[n].epoch = db[n].epoch

(***************************************************************************)
(* A step that stores no valid block, and moves neither the HCC nor the    *)
(* last finalized block, keeps the tree of blocks.                         *)
(***************************************************************************)
LEMMA TreeKeeps ==
  ASSUME Inv, Grow, NEW n \in Honest, SameTree(n), db'[n].lastVote = db[n].lastVote,
         Stored(n)' \subseteq proposed' \cup {Root}
  PROVE  TreeOK(n)'
<1>1. /\ TreeOK(n) /\ StoredValid(n)' = StoredValid(n)
      /\ \A b \in Stored(n)' : db'[n].status[b] \in Statuses
  BY Parts, SameTreeKeeps
<1>2. db'[n].lastVote # NoVote => db'[n].lastVote \in voted'[n]
  BY <1>1 DEF TreeOK, Grow
<1>3. Root \in Stored(n)' /\ IsFinalized(db'[n].status[Root])
  BY <1>1 DEF TreeOK, SameTree
<1>4. \A b \in Stored(n)' :
       /\ IsFinalized(db'[n].status[b]) => IsDescendant(b, db'[n].lfb)
       /\ db'[n].status[b] = "committed" => Height(b) <= Height(db'[n].hcc)
  BY <1>1 DEF TreeOK, SameTree, IsFinalized
<1>5. /\ db'[n].hcc \in StoredValid(n)' /\ db'[n].lfb \in StoredValid(n)'
      /\ db'[n].lastVote \in StoredValid(n)' \cup {NoVote}
      /\ \A b \in StoredValid(n)' : \A k \in 0 .. Len(b) : SubSeq(b, 1, k) \in StoredValid(n)'
  BY <1>1 DEF TreeOK, SameTree
<1> QED
  BY <1>1, <1>2, <1>3, <1>4, <1>5 DEF TreeOK

(***************************************************************************)
(* Steps that broadcast nothing.                                           *)
(***************************************************************************)
LEMMA QuietNetwork ==
  ASSUME Inv, UNCHANGED <<proposed, cert, sent>>, crashes' \in 0 .. MaxCrashes,
         \A m \in Honest : Stored(m) \subseteq Stored(m)' /\ voted[m] \subseteq voted'[m]
  PROVE  Grow /\ MessageInv'
<1>1. Grow
  BY DEF Grow, Inv, EngineInv, TypeOK
<1>2. MessageInv'
  BY DEF MessageInv, Inv, EngineInv
<1> QED
  BY <1>1, <1>2

-----------------------------------------------------------------------------
(***************************************************************************)
(* The parts of the state that an assignment leaves alone.                 *)
(***************************************************************************)
SetWork(n, w) == mem' = [mem EXCEPT ![n].work = w]

SetStatus(n, b, s) == db' = [db EXCEPT ![n].status[b] = s]

(***************************************************************************)
(* Then puts new tasks before the rest of the handler.                     *)
(***************************************************************************)
LEMMA ThenWork ==
  ASSUME Inv, NEW n \in Honest, NEW tasks, Then(n, tasks)
  PROVE  SetWork(n, Join(tasks, Tail(mem[n].work)))
  BY DEF Inv, EngineInv, Shape, Then, SetWork, Join

(***************************************************************************)
(* A step that writes nothing to the database changes no part of it.       *)
(***************************************************************************)
LEMMA SameDb ==
  ASSUME Inv, NEW n \in Honest, db' = db
  PROVE  /\ SameVotes(n) /\ SameTree(n) /\ DbFrame(n)
         /\ \A m \in Honest : Stored(m)' = Stored(m) /\ StoredValid(m)' = StoredValid(m)
  BY DEF Inv, EngineInv, Shape, SameVotes, SameTree, DbFrame, Stored, StoredValid

(***************************************************************************)
(* Writing the status of one stored block (SaveBlock) changes nothing else *)
(* in the database.                                                        *)
(***************************************************************************)
LEMMA OnlyStatus ==
  ASSUME Inv, NEW n \in Honest, NEW b \in Stored(n), NEW s,
         SetStatus(n, b, s)
  PROVE  /\ SameVotes(n) /\ DbFrame(n)
         /\ \A m \in Honest : Stored(m)' = Stored(m)
         /\ db'[n].status[b] = s /\ \A c \in Stored(n) \ {b} : db'[n].status[c] = db[n].status[c]
         /\ db'[n].hcc = db[n].hcc /\ db'[n].lfb = db[n].lfb /\ db'[n].lastVote = db[n].lastVote
         /\ db'[n].lastProposal = db[n].lastProposal
  BY DEF Inv, EngineInv, Shape, SameVotes, DbFrame, Stored, SetStatus

(***************************************************************************)
(* Work that begins with a vote or has nothing before its rest.            *)
(***************************************************************************)
FirstVote == << Task("vote", Root) >>

-----------------------------------------------------------------------------
(***************************************************************************)
(* What n does next when it is doing op.                                   *)
(***************************************************************************)
LEMMA DoingNext ==
  ASSUME Inv, NEW n \in Honest, NEW op, Doing(n, op)
  PROVE  LET t == Head(mem[n].work)
             rest == Tail(mem[n].work)
         IN  /\ t.op = op /\ t.block = Block(n)
             /\ op \in {"vote", "sendVote"} => VoteNext(n, t, rest)
             /\ op = "commit" => CommitNext(n, t, rest)
             /\ op = "setHcc" => SetHccNext(n, t, rest)
             /\ op = "finalize" => FinalizeNext(n, t, rest)
             /\ op \in {"direct", "indirect"} => MarkNext(n, t, rest)
             /\ op = "enterEpoch" => EnterNext(n, t, rest)
             /\ op = "apply" => ApplyNext(n, t, rest)
             /\ op = "hccVotes" => VotesNext(n, t, rest)
<1> DEFINE t == Head(mem[n].work)
           rest == Tail(mem[n].work)
<1>1. WorkNext(n, t, rest)
  BY WorkCases DEF Doing
<1>2. t.op = op /\ t.block = Block(n)
  BY DEF Doing, Block
<1> HIDE DEF t, rest
<1>3. /\ op \in {"vote", "sendVote"} => VoteNext(n, t, rest)
      /\ op = "commit" => CommitNext(n, t, rest)
      /\ op = "setHcc" => SetHccNext(n, t, rest)
      /\ op = "finalize" => FinalizeNext(n, t, rest)
      /\ op \in {"direct", "indirect"} => MarkNext(n, t, rest)
      /\ op = "enterEpoch" => EnterNext(n, t, rest)
      /\ op = "apply" => ApplyNext(n, t, rest)
      /\ op = "hccVotes" => VotesNext(n, t, rest)
  <2>1. VoteNext(n, t, rest) => t.op \in {"vote", "sendVote"}
    BY DEF VoteNext
  <2>2. CommitNext(n, t, rest) => t.op = "commit"
    BY TaskFields, SMTT(30) DEF CommitNext
  <2>3. SetHccNext(n, t, rest) => t.op = "setHcc"
    BY TaskFields, SMTT(30) DEF SetHccNext
  <2>4. FinalizeNext(n, t, rest) => t.op = "finalize"
    BY TaskFields, SMTT(30) DEF FinalizeNext
  <2>5. MarkNext(n, t, rest) => t.op \in {"direct", "indirect"}
    BY TaskFields, SMTT(30) DEF MarkNext, MarkTasks
  <2>6. EnterNext(n, t, rest) => t.op = "enterEpoch"
    BY TaskFields, SMTT(30) DEF EnterNext
  <2>7. ApplyNext(n, t, rest) => t.op = "apply"
    BY DEF ApplyNext
  <2>8. VotesNext(n, t, rest) => t.op = "hccVotes"
    BY SMTT(30) DEF VotesNext, VotesTask
  <2> QED
    BY <1>1, <1>2, <2>1, <2>2, <2>3, <2>4, <2>5, <2>6, <2>7, <2>8 DEF WorkNext
<1> QED
  BY <1>2, <1>3 DEF t, rest

(***************************************************************************)
(* State.commit.                                                           *)
(***************************************************************************)
LEMMA Committed ==
  ASSUME Inv, NEW n \in Honest, NEW d, Commit(n, d), DOMAIN d = DOMAIN db[n]
  PROVE  /\ DbFrame(n) /\ db'[n].lastProposal = mem[n].lastProposal
         /\ db'[n].status = d.status /\ db'[n].index = d.index /\ db'[n].epoch = d.epoch
         /\ db'[n].epochVotes = d.epochVotes /\ db'[n].hcc = d.hcc /\ db'[n].lfb = d.lfb
         /\ db'[n].lastVote = d.lastVote
  BY DEF Inv, EngineInv, Shape, Commit, DbFrame

MemFrame(n) ==
  /\ DOMAIN mem' = Honest /\ DOMAIN mem'[n] = DOMAIN mem[n]
  /\ \A m \in Honest \ {n} : mem'[m] = mem[m]

Frame(n) == DbFrame(n) /\ MemFrame(n)

(***************************************************************************)
(* The work left stays justified while neither it nor the tree of blocks   *)
(* changes.                                                                *)
(***************************************************************************)
LEMMA WorkKeeps ==
  ASSUME Inv, Grow, NEW n \in Honest, SameTree(n),
         mem'[n].work = mem[n].work, db'[n].index = db[n].index
  PROVE  WorkInv(n)'
<1>1. WorkInv(n) /\ Stored(n) \subseteq Stored(n)'
  BY DEF Inv, EngineInv, SameTree
<1>2. CASE \E b \in Stored(n) :
             /\ Ready(n, b)
             /\ \E left \in SUBSET cert[b] :
                  mem[n].work = << VotesTask(b, left) >> /\ VotesInv(n, b, left)
  <2>0. PICK b \in Stored(n) :
               /\ Ready(n, b)
               /\ \E left \in SUBSET cert[b] :
                    mem[n].work = << VotesTask(b, left) >> /\ VotesInv(n, b, left)
    BY <1>2
  <2>1. PICK left \in SUBSET cert[b] :
               Ready(n, b) /\ mem[n].work = << VotesTask(b, left) >> /\ VotesInv(n, b, left)
    BY <2>0
  <2>2. b \in proposed /\ Hcc(b) \in Stored(n)
    <3>1. NodeTypeOK(n) /\ StoreInv(n)
      BY DEF Inv, EngineInv, TypeOK
    <3>2. b # Root /\ Parent(b) \in StoredValid(n)
      BY <2>1, <3>1 DEF Ready, StoreInv, IsFinalized, ValidateBlock
    <3> QED
      BY <3>1, <3>2, ValidTree, NodeTypes DEF NodeTypeOK
  <2>3. cert'[b] = cert[b] /\ VotesInv(n, b, left)'
    BY <2>1, <2>2 DEF Grow, VotesInv, VotesOn, SameTree
  <2>4. Ready(n, b)'
    BY <2>1, SameTreeKeeps
  <2> QED
    BY <1>1, <2>1, <2>3, <2>4 DEF WorkInv
<1>3. CASE \E b \in StoredValid(n), p \in VoteWork(n) :
             \E w \in CCWork(n, b), e \in EndWork(n, b) :
               mem[n].work = p \o w \o e /\ CCInv(n, b, w)
  <2>1. PICK b \in StoredValid(n), p \in VoteWork(n) :
               \E w \in CCWork(n, b), e \in EndWork(n, b) :
                 mem[n].work = p \o w \o e /\ CCInv(n, b, w)
    BY <1>3
  <2>2. PICK w \in CCWork(n, b), e \in EndWork(n, b) :
               mem[n].work = p \o w \o e /\ CCInv(n, b, w)
    BY <2>1
  <2>3. /\ b \in StoredValid(n)' /\ p \in VoteWork(n)'
        /\ w \in CCWork(n, b)' /\ e \in EndWork(n, b)' /\ CCInv(n, b, w)'
    BY <2>2, SameTreeKeeps
  <2> QED
    BY <2>2, <2>3 DEF WorkInv
<1>4. WorkInv(n)
  BY <1>1
<1> QED
  BY <1>4, <1>2, <1>3 DEF WorkInv

SameMem(n) ==
  /\ mem'[n].inbox = mem[n].inbox /\ mem'[n].passed = mem[n].passed
  /\ mem'[n].lastProposal = mem[n].lastProposal
  /\ mem'[n].voteTimerReady = mem[n].voteTimerReady
  /\ mem'[n].blockProcessed = mem[n].blockProcessed

(***************************************************************************)
(* The stored votes stay signed while none is added.                       *)
(***************************************************************************)
LEMMA VotesKeep ==
  ASSUME Inv, Grow, NEW n \in Honest, SameVotes(n)
  PROVE  VotesOK(n)'
<1>1. /\ VotesOK(n) /\ \A v : IsSigned(v) => IsSigned(v)'
      /\ AllVotes \cup UNION {cert[b] : b \in proposed}
           \subseteq AllVotes' \cup UNION {cert'[b] : b \in proposed'}
  BY Parts, StaysSigned
<1> QED
  BY <1>1 DEF VotesOK, SameVotes

(***************************************************************************)
(* What the memory of a node points to stays stored.                       *)
(***************************************************************************)
LEMMA MemKeeps ==
  ASSUME Inv, NEW n \in Honest, SameMem(n), Stored(n) \subseteq Stored(n)',
         db'[n].lastProposal \in {mem[n].lastProposal, db[n].lastProposal}
  PROVE  MemTypeOK(n)'
<1>1. MemTypeOK(n)
  BY Parts
<1>2. /\ mem'[n].inbox \subseteq Stored(n)' /\ mem'[n].passed \subseteq Stored(n)'
      /\ {db'[n].lastProposal, mem'[n].lastProposal} \subseteq Stored(n)' \cup {NoBlock}
  BY <1>1 DEF MemTypeOK, SameMem
<1>3. {mem'[n].voteTimerReady, mem'[n].blockProcessed} \subseteq BOOLEAN
  BY <1>1 DEF MemTypeOK, SameMem
<1> QED
  BY <1>2, <1>3 DEF MemTypeOK

(***************************************************************************)
(* The parents of queued blocks stay processed, also when the last         *)
(* proposal is queued or is written to the database (State.commit).        *)
(***************************************************************************)
LEMMA QueueKeeps ==
  ASSUME Inv, NEW n \in Honest,
         Stored(n) \subseteq Stored(n)',
         \A b \in Stored(n) : db'[n].status[b] = "pending" => db[n].status[b] = "pending",
         mem'[n].inbox \subseteq mem[n].inbox \cup ({mem[n].lastProposal} \ {NoBlock}),
         mem'[n].lastProposal \in {mem[n].lastProposal, db[n].lastProposal},
         db'[n].lastProposal \in {mem[n].lastProposal, db[n].lastProposal}
  PROVE  QueueInv(n)'
<1>1. \A b \in mem[n].inbox \cup ({mem[n].lastProposal, db[n].lastProposal} \ {NoBlock}) :
        b # Root /\ Parent(b) \in Stored(n) /\ db[n].status[Parent(b)] # "pending"
  BY Parts DEF QueueInv
<1>2. mem'[n].inbox \cup ({mem'[n].lastProposal, db'[n].lastProposal} \ {NoBlock})
        \subseteq mem[n].inbox \cup ({mem[n].lastProposal, db[n].lastProposal} \ {NoBlock})
  OBVIOUS
<1> QED
  BY <1>1, <1>2 DEF QueueInv

-----------------------------------------------------------------------------
(***************************************************************************)
(* A node that does nothing keeps its part of the invariant.               *)
(***************************************************************************)
NodeInv(n) == VotesOK(n) /\ TreeOK(n) /\ MemTypeOK(n) /\ QueueInv(n) /\ WorkInv(n)

(***************************************************************************)
(* A step of one node keeps the invariant of the others.                   *)
(***************************************************************************)
LEMMA OtherNodeKeeps ==
  ASSUME Inv, Grow, NEW m \in Honest, db'[m] = db[m], mem'[m] = mem[m]
  PROVE  NodeInv(m)' /\ StatusAdvances(m)
<1>1. SameTree(m) /\ SameVotes(m) /\ SameMem(m) /\ Stored(m)' = Stored(m)
  BY DEF SameTree, SameVotes, SameMem, Stored
<1>2. VotesOK(m)'
  BY <1>1, VotesKeep
<1>3. TreeOK(m)'
  <2>1. Stored(m)' \subseteq proposed' \cup {Root}
    BY <1>1, Parts DEF TreeOK, Grow
  <2> QED
    BY <1>1, <2>1, TreeKeeps
<1>4. MemTypeOK(m)'
  BY <1>1, MemKeeps
<1>5. QueueInv(m)'
  BY <1>1, QueueKeeps
<1>6. WorkInv(m)'
  BY <1>1, WorkKeeps
<1>7. StatusAdvances(m)
  BY <1>1, SameTreeKeeps
<1> QED
  BY <1>2, <1>3, <1>4, <1>5, <1>6, <1>7 DEF NodeInv

(***************************************************************************)
(* A step of n keeps the whole invariant when it keeps n's part of it.     *)
(***************************************************************************)
LEMMA NodeStep ==
  ASSUME Inv, Grow, VotingInv', MessageInv',
         NEW n \in Honest, Frame(n), NodeInv(n)', StatusAdvances(n)
  PROVE  Inv' /\ \A m \in Honest : StatusAdvances(m)
<1>1. \A m \in Honest : NodeInv(m)' /\ StatusAdvances(m)
  BY OtherNodeKeeps DEF Frame, DbFrame, MemFrame
<1>2. Shape'
  BY DEF Shape, Frame, DbFrame, MemFrame, Inv, EngineInv
<1>3. \A m \in Honest : /\ NodeTypeOK(m)' /\ StoreInv(m)'
                        /\ QueueInv(m)' /\ WorkInv(m)'
  BY <1>1, NodeParts DEF NodeInv
<1>4. TypeOK'
  BY <1>3 DEF TypeOK, Grow
<1> QED
  BY <1>1, <1>2, <1>3, <1>4 DEF Inv, EngineInv

(***************************************************************************)
(* A step that changes nothing keeps the invariant.                        *)
(***************************************************************************)
LEMMA StutterStep ==
  ASSUME Inv, VotingInv', UNCHANGED vars
  PROVE  Inv' /\ \A m \in Honest : StatusAdvances(m)
<1>1. /\ UNCHANGED <<db, mem, proposed, cert, sent, voted, crashes>>
      /\ crashes' \in 0 .. MaxCrashes
  BY DEF vars, Inv, EngineInv, TypeOK
<1>2. Grow /\ MessageInv'
  BY <1>1, QuietNetwork DEF Stored
<1>3. \A m \in Honest : NodeInv(m)' /\ StatusAdvances(m)
  BY <1>1, <1>2, OtherNodeKeeps
<1>4. \A m \in Honest : /\ NodeTypeOK(m)' /\ StoreInv(m)'
                        /\ QueueInv(m)' /\ WorkInv(m)'
  BY <1>3, NodeParts DEF NodeInv
<1>5. Shape'
  BY <1>1 DEF Shape, Inv, EngineInv
<1>6. TypeOK'
  BY <1>2, <1>4 DEF TypeOK, Grow
<1> QED
  BY <1>2, <1>3, <1>4, <1>5, <1>6 DEF Inv, EngineInv

(***************************************************************************)
(* A step that changes neither the votes of n nor its queue.               *)
(***************************************************************************)
LEMMA TreeStep ==
  ASSUME Inv, Grow, VotingInv', MessageInv', NEW n \in Honest, Frame(n),
         SameVotes(n), SameMem(n), StatusAdvances(n), TreeOK(n)', WorkInv(n)',
         db'[n].lastProposal \in {mem[n].lastProposal, db[n].lastProposal}
  PROVE  Inv' /\ \A m \in Honest : StatusAdvances(m)
<1>1. VotesOK(n)'
  BY VotesKeep
<1>2. /\ Stored(n) \subseteq Stored(n)'
      /\ \A b \in Stored(n) : db'[n].status[b] = "pending" => db[n].status[b] = "pending"
  <2>1. \A b \in Stored(n)' : db'[n].status[b] \in Statuses
    BY DEF TreeOK
  <2> QED
    BY <2>1, StaysValid
<1>3. MemTypeOK(n)'
  BY <1>2, MemKeeps
<1>4. QueueInv(n)'
  BY <1>2, QueueKeeps DEF SameMem
<1> QED
  BY <1>1, <1>3, <1>4, NodeStep DEF NodeInv

(***************************************************************************)
(* Setting the work of a node changes nothing else in its memory.          *)
(***************************************************************************)
LEMMA OnlyWork ==
  ASSUME Inv, NEW n \in Honest, NEW w, SetWork(n, w)
  PROVE  SameMem(n) /\ MemFrame(n) /\ mem'[n].work = w
  BY DEF Inv, EngineInv, Shape, SameMem, MemFrame, SetWork

(***************************************************************************)
(* A vote, what checkCC left for a block and the end of the handler, one   *)
(* after another, make the work of a node.                                 *)
(***************************************************************************)
LEMMA AllWork ==
  ASSUME NEW n \in Honest, NEW p \in VoteWork(n)', NEW b \in StoredValid(n)',
         NEW w \in CCWork(n, b)', NEW e \in EndWork(n, b)', CCInv(n, b, w)',
         p \in Seq(Tasks), w \in Seq(Tasks), e \in Seq(Tasks),
         mem'[n].work = Join(p, Join(w, e))
  PROVE  WorkInv(n)'
<1>1. mem'[n].work = p \o w \o e
  BY SMTT(30) DEF Join
<1> QED
  BY <1>1 DEF WorkInv

-----------------------------------------------------------------------------
(***************************************************************************)
(* Steps of n that change nothing but its memory.                          *)
(***************************************************************************)
LEMMA SameNetwork ==
  ASSUME Inv, UNCHANGED <<db, proposed, cert, sent, voted>>, crashes' \in 0 .. MaxCrashes
  PROVE  Grow /\ MessageInv'
<1>1. \A m \in Honest : Stored(m) \subseteq Stored(m)' /\ voted[m] \subseteq voted'[m]
  BY DEF Stored
<1> QED
  BY <1>1, QuietNetwork

(***************************************************************************)
(* A step that only changes the memory of a node keeps the invariant when  *)
(* the queue and the work stay justified.                                  *)
(***************************************************************************)
LEMMA MemoryStep ==
  ASSUME Inv, VotingInv', NEW n \in Honest, MemFrame(n),
         UNCHANGED <<db, proposed, cert, sent, voted>>, crashes' \in 0 .. MaxCrashes,
         MemTypeOK(n)', QueueInv(n)', WorkInv(n)'
  PROVE  Inv' /\ \A m \in Honest : StatusAdvances(m)
<1>1. Grow /\ MessageInv'
  BY SameNetwork
<1>2. SameVotes(n) /\ SameTree(n) /\ DbFrame(n) /\ Stored(n)' = Stored(n)
  BY SameDb
<1>3. VotesOK(n)' /\ StatusAdvances(n)
  BY <1>1, <1>2, VotesKeep, SameTreeKeeps
<1>4. TreeOK(n)'
  <2>1. Stored(n)' \subseteq proposed' \cup {Root}
    BY <1>2, Parts DEF TreeOK
  <2> QED
    BY <1>1, <1>2, <2>1, TreeKeeps
<1> QED
  BY <1>1, <1>2, <1>3, <1>4, NodeStep DEF Frame, NodeInv

(***************************************************************************)
(* A step that only changes the work of a node keeps the invariant when    *)
(* the work stays justified.                                               *)
(***************************************************************************)
LEMMA WorkStep ==
  ASSUME Inv, VotingInv', NEW n \in Honest, NEW w, SetWork(n, w),
         UNCHANGED <<db, proposed, cert, sent, voted, crashes>>, WorkInv(n)'
  PROVE  Inv' /\ \A m \in Honest : StatusAdvances(m)
<1>1. SameMem(n) /\ MemFrame(n) /\ Stored(n)' = Stored(n)
  BY OnlyWork, SameDb
<1>c. crashes' \in 0 .. MaxCrashes
  BY DEF Inv, EngineInv, TypeOK
<1>2. MemTypeOK(n)' /\ QueueInv(n)'
  BY <1>1, MemKeeps, QueueKeeps DEF SameMem
<1> QED
  BY <1>1, <1>c, <1>2, MemoryStep

-----------------------------------------------------------------------------
(***************************************************************************)
(* Changes of one status: pending blocks become valid or invalid, valid    *)
(* ones are committed or finalized.                                        *)
(***************************************************************************)
LEMMA StatusChange ==
  ASSUME Inv, Grow, UNCHANGED proposed, NEW n \in Honest, NEW b \in Stored(n),
         NEW s \in Statuses, SetStatus(n, b, s),
         Rank(db[n].status[b]) < Rank(s), s = "invalid" => db[n].status[b] = "pending",
         s = "valid" => b # Root /\ Parent(b) \in StoredValid(n),
         s = "committed" => b = db[n].hcc /\ db[n].status[b] = "valid",
         IsFinalized(s) => IsDescendant(b, db[n].lfb) /\ b \in StoredValid(n)
  PROVE  TreeOK(n)' /\ StatusAdvances(n)
<1>1. /\ SameVotes(n) /\ DbFrame(n) /\ Stored(n)' = Stored(n)
      /\ db'[n].status[b] = s /\ \A c \in Stored(n) \ {b} : db'[n].status[c] = db[n].status[c]
      /\ db'[n].hcc = db[n].hcc /\ db'[n].lfb = db[n].lfb /\ db'[n].lastVote = db[n].lastVote
  BY OnlyStatus
<1>2. TreeOK(n) /\ db[n].status[b] \in Statuses
  BY Parts, NodeTypes
<1>3. StatusAdvances(n)
  BY <1>1 DEF StatusAdvances
<1>4. \A c \in Stored(n)' : db'[n].status[c] \in Statuses
  BY <1>1, <1>2 DEF TreeOK
<1>5. StoredValid(n) \subseteq StoredValid(n)'
  BY <1>3, <1>4, StaysValid
<1>6. StoredValid(n)' \subseteq StoredValid(n) \cup {b}
  BY <1>1 DEF StoredValid
<1>7. b \in StoredValid(n)' => b \in StoredValid(n) \/ (b # Root /\ Parent(b) \in StoredValid(n))
  BY <1>1, <1>2 DEF StoredValid, IsValid, IsFinalized, Statuses
<1>8. Root \in Stored(n)' /\ IsFinalized(db'[n].status[Root])
  BY <1>1, <1>2, <1>3, <1>4, StaysValid DEF TreeOK
<1>9. ASSUME NEW c \in StoredValid(n)', NEW k \in 0 .. Len(c)
      PROVE  SubSeq(c, 1, k) \in StoredValid(n)'
  <2>1. CASE c \in StoredValid(n)
    BY <1>2, <1>5, <2>1 DEF TreeOK
  <2>2. CASE c = b /\ b # Root /\ Parent(b) \in StoredValid(n)
    <3>1. b \in Blocks
      BY NodeTypes
    <3>2. SubSeq(b, 1, Len(b)) = b /\ (k = Len(b) \/ (k \in 0 .. Len(Parent(b))
                                         /\ SubSeq(b, 1, k) = SubSeq(Parent(b), 1, k)))
      BY <2>2, <3>1, Cuts
    <3>3. \A j \in 0 .. Len(Parent(b)) : SubSeq(Parent(b), 1, j) \in StoredValid(n)'
      BY <2>2, <1>2, <1>5 DEF TreeOK
    <3>4. SubSeq(b, 1, k) \in StoredValid(n)'
      BY <2>2, <3>2, <3>3
    <3> QED
      BY <2>2, <3>4
  <2> QED
    BY <1>6, <1>7, <2>1, <2>2
<1>10. \A c \in Stored(n)' :
        /\ IsFinalized(db'[n].status[c]) => IsDescendant(c, db'[n].lfb)
        /\ db'[n].status[c] = "committed" => Height(c) <= Height(db'[n].hcc)
  <2>1. Height(db[n].hcc) <= Height(db[n].hcc)
    BY NodeTypes, SMTT(30)
  <2> QED
    BY <1>1, <1>2, <2>1 DEF TreeOK
<1>11. /\ db'[n].hcc \in StoredValid(n)' /\ db'[n].lfb \in StoredValid(n)'
       /\ db'[n].lastVote \in StoredValid(n)' \cup {NoVote}
       /\ db'[n].lastVote # NoVote => db'[n].lastVote \in voted'[n]
       /\ Stored(n)' \subseteq proposed' \cup {Root}
  BY <1>1, <1>2, <1>5 DEF TreeOK, Grow
<1> QED
  BY <1>3, <1>4, <1>8, <1>9, <1>10, <1>11 DEF TreeOK

-----------------------------------------------------------------------------
(***************************************************************************)
(* The work of n after a step, put together from its parts.                *)
(***************************************************************************)
LEMMA NoWork ==
  ASSUME NEW n \in Honest, mem'[n].work = << >>, Root \in StoredValid(n)',
         db'[n].hcc \in Blocks
  PROVE  WorkInv(n)'
<1>1. << >> \in VoteWork(n)' /\ << >> \in CCWork(n, Root)' /\ << >> \in EndWork(n, Root)'
  BY DEF VoteWork, CCWork, EndWork
<1>2. CCInv(n, Root, << >>)'
  <2>1. Height(Root) <= Height(db'[n].hcc)
    BY DescendantBasics
  <2> QED
    BY <2>1 DEF CCInv
<1>3. << >> = << >> \o << >> \o << >>
  BY SMTT(30)
<1> QED
  BY <1>1, <1>2, <1>3 DEF WorkInv

(***************************************************************************)
(* Voting is what a handler may leave to be done first.                    *)
(***************************************************************************)
LEMMA VoteFirst ==
  ASSUME NEW n
  PROVE  FirstVote \in VoteWork(n)' /\ FirstVote \in Seq(Tasks)
<1>1. Task("vote", Root) \in Tasks
  BY RootType, SMTT(30) DEF Tasks
<1> QED
  BY <1>1, SMTT(30) DEF FirstVote, VoteWork

-----------------------------------------------------------------------------
(***************************************************************************)
(* The initial states.                                                     *)
(***************************************************************************)
LEMMA InitDb ==
  ASSUME Init, NEW n \in Honest
  PROVE  /\ db[n].status = [b \in {Root} |-> "direct"] /\ db[n].index = {}
         /\ db[n].epochVotes = [v \in Validators |-> -1] /\ db[n].epoch = 0
         /\ db[n].hcc = Root /\ db[n].lfb = Root /\ db[n].lastVote = NoVote
         /\ db[n].lastProposal = NoBlock
         /\ Stored(n) = {Root} /\ StoredValid(n) = {Root} /\ db[n].status[Root] = "direct"
<1>1. db[n] = [status |-> [b \in {Root} |-> "direct"], index |-> {},
               epochVotes |-> [v \in Validators |-> -1], epoch |-> 0,
               hcc |-> Root, lfb |-> Root, lastVote |-> NoVote, lastProposal |-> NoBlock]
  BY DEF Init
<1>2. Stored(n) = {Root} /\ db[n].status[Root] = "direct"
  BY <1>1, SMTT(30) DEF Stored
<1>3. StoredValid(n) = {Root}
  BY <1>2 DEF StoredValid, IsValid
<1> QED
  BY <1>1, <1>2, <1>3, SMTT(30)

(***************************************************************************)
(* The memory of a node that starts for the first time.                    *)
(***************************************************************************)
LEMMA InitMem ==
  ASSUME Init, NEW n \in Honest
  PROVE  /\ mem[n].lastProposal = NoBlock /\ mem[n].inbox = {} /\ mem[n].passed = {}
         /\ mem[n].work = << Task("enterEpoch", Root) >>
         /\ mem[n].voteTimerReady = FALSE /\ mem[n].blockProcessed = FALSE
<1>1. mem[n] = FreshMem(NoBlock)
  BY DEF Init
<1> QED
  BY <1>1, SMTT(30) DEF FreshMem

(***************************************************************************)
(* The invariant of the engine holds of a new database that holds the root *)
(* only.                                                                   *)
(***************************************************************************)
LEMMA InitStep ==
  ASSUME Init, MajoritiesGrow
  PROVE  Inv
<1>1. Shape
  BY DEF Shape, Init, FreshMem
<1>2. Root \in Blocks /\ Height(Root) \in Int /\ IsDescendant(Root, Root)
  BY RootType, DescendantBasics, BlockType, SMTT(30)
<1>3. ASSUME NEW n \in Honest PROVE NodeTypeOK(n)
  <2>1. /\ db[n].index = {} /\ db[n].epochVotes = [v \in Validators |-> -1]
        /\ db[n].epoch = 0 /\ db[n].hcc = Root /\ db[n].lfb = Root
        /\ db[n].lastVote = NoVote /\ db[n].lastProposal = NoBlock
        /\ Stored(n) = {Root} /\ StoredValid(n) = {Root} /\ db[n].status[Root] = "direct"
    BY InitDb
  <2>2. /\ mem[n].lastProposal = NoBlock /\ mem[n].inbox = {} /\ mem[n].passed = {}
        /\ {mem[n].voteTimerReady, mem[n].blockProcessed} \subseteq BOOLEAN
    <3>1. mem[n].voteTimerReady = FALSE /\ mem[n].blockProcessed = FALSE
      BY InitMem
    <3> QED
      BY <3>1, InitMem
  <2>3. MaxEpoch \in Nat
    BY EngineAssumption
  <2>4. /\ db[n].epochVotes \in [Validators -> -1 .. MaxEpoch]
        /\ db[n].epoch \in 0 .. MaxEpoch
    BY <2>1, <2>3, SMTT(30)
  <2>5. \A b \in Stored(n) : db[n].status[b] \in Statuses
    BY <2>1 DEF Statuses
  <2> QED
    BY <2>1, <2>2, <2>4, <2>5 DEF NodeTypeOK
<1>4. ASSUME NEW n \in Honest PROVE StoreInv(n)
  <2>1. /\ db[n].index = {} /\ db[n].hcc = Root /\ db[n].lfb = Root
        /\ db[n].lastVote = NoVote
        /\ Stored(n) = {Root} /\ StoredValid(n) = {Root} /\ db[n].status[Root] = "direct"
    BY InitDb
  <2>2. \A k \in 0 .. Len(Root) : SubSeq(Root, 1, k) = Root
    BY SMTT(30) DEF Root
  <2> QED
    BY <1>2, <2>1, <2>2 DEF StoreInv, IsFinalized
<1>5. ASSUME NEW n \in Honest PROVE QueueInv(n)
  <2>1. mem[n].inbox \cup ({mem[n].lastProposal, db[n].lastProposal} \ {NoBlock}) = {}
    <3>1. mem[n].inbox = {} /\ mem[n].lastProposal = NoBlock /\ db[n].lastProposal = NoBlock
      BY InitDb, InitMem
    <3> QED
      BY <3>1
  <2> QED
    BY <2>1 DEF QueueInv
<1>6. ASSUME NEW n \in Honest PROVE WorkInv(n)
  <2> DEFINE e == << Task("enterEpoch", Root) >>
  <2>1. << >> \o << >> \o e = e
    BY SMTT(30)
  <2>2. mem[n].work = e
    BY InitMem
  <2>3. StoredValid(n) = {Root} /\ db[n].hcc = Root
    BY InitDb
  <2>4. Root \in StoredValid(n) /\ Height(Root) <= Height(db[n].hcc)
    BY <1>2, <2>3, SMTT(30)
  <2>5. << >> \in VoteWork(n) /\ << >> \in CCWork(n, Root) /\ e \in EndWork(n, Root)
    BY DEF VoteWork, CCWork, EndWork
  <2>6. CCInv(n, Root, << >>)
    BY <2>4 DEF CCInv
  <2> HIDE DEF e
  <2> QED
    BY <2>1, <2>2, <2>4, <2>5, <2>6 DEF WorkInv
<1>7. MessageInv
  BY DEF MessageInv, Init
<1>8. proposed \subseteq Blocks /\ DOMAIN cert = proposed /\ crashes \in 0 .. MaxCrashes
  BY EngineAssumption, SMTT(30) DEF Init
<1>9. VotingInv
  <2>1. voted = [n \in Honest |-> {}]
    BY DEF Init
  <2>2. \A n \in Honest : Height(db[n].lfb) <= Height(db[n].hcc)
    BY <1>2, InitDb, SMTT(30)
  <2> QED
    BY <2>1, <2>2 DEF VotingInv
<1> QED
  BY <1>1, <1>3, <1>4, <1>5, <1>6, <1>7, <1>8, <1>9 DEF Inv, EngineInv, TypeOK

-----------------------------------------------------------------------------
(***************************************************************************)
(* Blocks that are stored or broadcast.                                    *)
(***************************************************************************)
StorePending(n, b) == db' = [db EXCEPT ![n].status = With(@, b, "pending")]

(***************************************************************************)
(* AddBlock stores a new block as pending and changes nothing else.        *)
(***************************************************************************)
LEMMA StoresBlock ==
  ASSUME Inv, NEW n \in Honest, NEW b, b \notin Stored(n), StorePending(n, b)
  PROVE  /\ SameVotes(n) /\ DbFrame(n) /\ SameTree(n)
         /\ Stored(n)' = Stored(n) \cup {b} /\ db'[n].status[b] = "pending"
         /\ \A m \in Honest : Stored(m) \subseteq Stored(m)'
         /\ \A m \in Honest \ {n} : Stored(m)' = Stored(m)
         /\ db'[n].lastVote = db[n].lastVote /\ db'[n].lastProposal = db[n].lastProposal
<1>1. /\ SameVotes(n) /\ DbFrame(n) /\ db'[n].hcc = db[n].hcc /\ db'[n].lfb = db[n].lfb
      /\ db'[n].lastVote = db[n].lastVote /\ db'[n].lastProposal = db[n].lastProposal
      /\ db'[n].status = With(db[n].status, b, "pending")
  BY DEF Inv, EngineInv, Shape, SameVotes, DbFrame, StorePending
<1>2. /\ Stored(n)' = Stored(n) \cup {b} /\ db'[n].status[b] = "pending"
      /\ \A c \in Stored(n) : db'[n].status[c] = db[n].status[c]
  BY <1>1 DEF With, Stored
<1>3. \A m \in Honest \ {n} : Stored(m)' = Stored(m)
  BY <1>1 DEF Stored, DbFrame
<1>4. SameTree(n)
  BY <1>1, <1>2 DEF SameTree
<1> QED
  BY <1>1, <1>2, <1>3, <1>4

-----------------------------------------------------------------------------
(***************************************************************************)
(* A node enters an epoch.                                                 *)
(***************************************************************************)
Entered(n, proposal, inbox) ==
  mem' = [mem EXCEPT ![n].voteTimerReady = FALSE,
                     ![n].blockProcessed = FALSE,
                     ![n].lastProposal = proposal,
                     ![n].inbox = inbox,
                     ![n].work = Tail(@)]

(***************************************************************************)
(* The three ways to enter an epoch.                                       *)
(***************************************************************************)
EnterOld(n) ==
  /\ \E inbox \in SUBSET (mem[n].inbox \cup ({mem[n].lastProposal} \ {NoBlock})) :
       Entered(n, mem[n].lastProposal, inbox)
  /\ UNCHANGED <<db, proposed, cert>>

EnterNew(n) ==
  \E tip \in Branch(n), p \in Payloads :
    /\ IsTip(n, tip) /\ ShouldPropose(n, tip) /\ Cardinality(proposed) < MaxBlocks
    /\ Proposal(n, tip, p) \notin Stored(n)
    /\ Entered(n, Proposal(n, tip, p), mem[n].inbox \cup {Proposal(n, tip, p)})
    /\ StorePending(n, Proposal(n, tip, p))
    /\ proposed' = proposed \cup {Proposal(n, tip, p)}
    /\ cert' = With(cert, Proposal(n, tip, p), VotesOn(n, db[n].hcc))

(***************************************************************************)
(* enterEpoch either queues the last proposal or a new one, or proposes    *)
(* nothing.                                                                *)
(***************************************************************************)
LEMMA EnterCases ==
  ASSUME NEW n, EnterEpoch(n)
  PROVE  /\ Doing(n, "enterEpoch") /\ UNCHANGED <<sent, voted, crashes>>
         /\ EnterOld(n) \/ EnterNew(n)
<1>1. Doing(n, "enterEpoch") /\ UNCHANGED <<sent, voted, crashes>>
  BY DEF EnterEpoch
<1>2. PICK tip \in Branch(n) :
        /\ IsTip(n, tip)
        /\ \/ /\ ~ShouldPropose(n, tip) \/ ~IsRepeated(n)
              /\ Entered(n, mem[n].lastProposal, mem[n].inbox)
              /\ UNCHANGED <<db, proposed, cert>>
           \/ /\ ShouldPropose(n, tip) /\ IsRepeated(n)
              /\ Entered(n, mem[n].lastProposal, mem[n].inbox \cup {mem[n].lastProposal})
              /\ UNCHANGED <<db, proposed, cert>>
           \/ /\ ShouldPropose(n, tip) /\ ~IsRepeated(n)
              /\ Cardinality(proposed) < MaxBlocks
              /\ \E p \in Payloads \ {Bad} :
                   /\ Proposal(n, tip, p) \notin Stored(n)
                   /\ Entered(n, Proposal(n, tip, p), mem[n].inbox \cup {Proposal(n, tip, p)})
                   /\ StorePending(n, Proposal(n, tip, p))
                   /\ proposed' = proposed \cup {Proposal(n, tip, p)}
                   /\ cert' = With(cert, Proposal(n, tip, p), VotesOn(n, db[n].hcc))
  BY DEF EnterEpoch, Entered, StorePending
<1>3. IsRepeated(n) => mem[n].inbox \cup {mem[n].lastProposal} \in
                         SUBSET (mem[n].inbox \cup ({mem[n].lastProposal} \ {NoBlock}))
  BY DEF IsRepeated
<1>4. CASE Entered(n, mem[n].lastProposal, mem[n].inbox) /\ UNCHANGED <<db, proposed, cert>>
  BY <1>1, <1>4 DEF EnterOld
<1>5. CASE /\ IsRepeated(n) /\ UNCHANGED <<db, proposed, cert>>
           /\ Entered(n, mem[n].lastProposal, mem[n].inbox \cup {mem[n].lastProposal})
  BY <1>1, <1>3, <1>5 DEF EnterOld
<1>6. CASE /\ ShouldPropose(n, tip) /\ Cardinality(proposed) < MaxBlocks
           /\ \E p \in Payloads \ {Bad} :
                /\ Proposal(n, tip, p) \notin Stored(n)
                /\ Entered(n, Proposal(n, tip, p), mem[n].inbox \cup {Proposal(n, tip, p)})
                /\ StorePending(n, Proposal(n, tip, p))
                /\ proposed' = proposed \cup {Proposal(n, tip, p)}
                /\ cert' = With(cert, Proposal(n, tip, p), VotesOn(n, db[n].hcc))
  <2>1. PICK p \in Payloads :
          /\ Proposal(n, tip, p) \notin Stored(n)
          /\ Entered(n, Proposal(n, tip, p), mem[n].inbox \cup {Proposal(n, tip, p)})
          /\ StorePending(n, Proposal(n, tip, p))
          /\ proposed' = proposed \cup {Proposal(n, tip, p)}
          /\ cert' = With(cert, Proposal(n, tip, p), VotesOn(n, db[n].hcc))
    BY <1>6
  <2>2. IsTip(n, tip)
    BY <1>2
  <2> QED
    BY <1>1, <1>6, <2>1, <2>2 DEF EnterNew
<1> QED
  BY <1>2, <1>4, <1>5, <1>6

(***************************************************************************)
(* A step that takes b from the queue.                                     *)
(***************************************************************************)
Received(n, b, w) == mem' = [mem EXCEPT ![n].inbox = @ \ {b}, ![n].work = w]

(***************************************************************************)
(* handleBlock marks a pending block that is not valid as invalid, goes on *)
(* to the votes of its certificate when it is valid, and ignores every     *)
(* other block.                                                            *)
(***************************************************************************)
LEMMA BlockCases ==
  ASSUME NEW n, NEW b, BlockMessage(n, b)
  PROVE  /\ b \in mem[n].inbox /\ UNCHANGED <<proposed, cert, sent, voted, crashes>>
         /\ \/ /\ db[n].status[b] = "pending" /\ ~ValidateBlock(n, b)
               /\ SetStatus(n, b, "invalid") /\ Received(n, b, << >>)
            \/ /\ db[n].status[b] = "pending" /\ ValidateBlock(n, b)
               /\ UNCHANGED db /\ Received(n, b, << VotesTask(b, cert[b]) >>)
            \/ /\ UNCHANGED db /\ Received(n, b, << >>)
<1> DEFINE pending == db[n].status[b] = "pending"
           ok == ValidateBlock(n, b)
<1>1. /\ b \in mem[n].inbox /\ UNCHANGED <<proposed, cert, sent, voted, crashes>>
      /\ db' = IF pending /\ ~ok THEN [db EXCEPT ![n].status[b] = "invalid"] ELSE db
      /\ mem' = [mem EXCEPT ![n].inbox = @ \ {b},
                            ![n].work = IF pending /\ ok THEN << VotesTask(b, cert[b]) >>
                                                         ELSE << >>]
  BY DEF BlockMessage, network
<1> HIDE DEF pending, ok
<1>2. CASE pending /\ ~ok
  BY <1>1, <1>2 DEF SetStatus, Received, pending, ok
<1>3. CASE pending /\ ok
  BY <1>1, <1>3 DEF Received, pending, ok
<1>4. CASE ~pending
  BY <1>1, <1>4 DEF Received
<1> QED
  BY <1>2, <1>3, <1>4

(***************************************************************************)
(* A vote before the rest of a handler is justified work.                  *)
(***************************************************************************)
LEMMA RestWork ==
  ASSUME Inv, Grow, NEW n \in Honest, SameTree(n), NEW r, IsRest(n, r),
         NEW p \in VoteWork(n)', p \in Seq(Tasks), mem'[n].work = Join(p, r)
  PROVE  WorkInv(n)'
<1>1. PICK b \in StoredValid(n) : \E w \in CCWork(n, b), e \in EndWork(n, b) :
             r = Join(w, e) /\ CCInv(n, b, w)
  BY DEF IsRest
<1>2. PICK w \in CCWork(n, b), e \in EndWork(n, b) : r = Join(w, e) /\ CCInv(n, b, w)
  BY <1>1
<1>3. w \in Seq(Tasks) /\ e \in Seq(Tasks)
  BY WorkTypes
<1>4. mem'[n].work = Join(p, Join(w, e))
  BY <1>2
<1>5. /\ b \in StoredValid(n)' /\ w \in CCWork(n, b)' /\ e \in EndWork(n, b)'
      /\ CCInv(n, b, w)'
  BY <1>2, SameTreeKeeps
<1> QED
  BY <1>3, <1>4, <1>5, AllWork

(***************************************************************************)
(* No work is a rest of a handler.                                         *)
(***************************************************************************)
LEMMA NoRest ==
  ASSUME Inv, NEW n \in Honest
  PROVE  IsRest(n, << >>)
<1>1. Root \in StoredValid(n) /\ db[n].hcc \in Blocks
  BY NodeTypes
<1>2. << >> \in CCWork(n, Root) /\ << >> \in EndWork(n, Root)
  BY DEF CCWork, EndWork
<1>3. CCInv(n, Root, << >>)
  <2>1. Height(Root) <= Height(db[n].hcc)
    BY <1>1, DescendantBasics
  <2> QED
    BY <2>1 DEF CCInv
<1>4. << >> = Join(<< >>, << >>)
  BY SMTT(30) DEF Join
<1> QED
  BY <1>1, <1>2, <1>3, <1>4 DEF IsRest

(***************************************************************************)
(* Entering the epoch, which every start begins with, is a rest of a       *)
(* handler.                                                                *)
(***************************************************************************)
LEMMA OnlyEnter ==
  ASSUME Inv, NEW n \in Honest
  PROVE  IsRest(n, << Task("enterEpoch", Root) >>)
<1>1. Root \in StoredValid(n) /\ db[n].hcc \in Blocks
  BY NodeTypes
<1>2. << >> \in CCWork(n, Root) /\ << Task("enterEpoch", Root) >> \in EndWork(n, Root)
  BY DEF CCWork, EndWork
<1>3. CCInv(n, Root, << >>)
  <2>1. Height(Root) <= Height(db[n].hcc)
    BY <1>1, DescendantBasics
  <2> QED
    BY <2>1 DEF CCInv
<1>4. << Task("enterEpoch", Root) >> = Join(<< >>, << Task("enterEpoch", Root) >>)
  BY SMTT(30) DEF Join
<1> QED
  BY <1>1, <1>2, <1>3, <1>4 DEF IsRest

(***************************************************************************)
(* A rest of a handler is a sequence of tasks.                             *)
(***************************************************************************)
LEMMA RestIsSeq ==
  ASSUME Inv, NEW n \in Honest, NEW r, IsRest(n, r)
  PROVE  r \in Seq(Tasks)
<1>1. PICK b \in StoredValid(n) : \E w \in CCWork(n, b), e \in EndWork(n, b) : r = Join(w, e)
  BY DEF IsRest
<1>2. PICK w \in CCWork(n, b), e \in EndWork(n, b) : r = Join(w, e)
  BY <1>1
<1>3. w \in Seq(Tasks) /\ e \in Seq(Tasks)
  BY WorkTypes
<1> QED
  BY <1>2, <1>3, SMTT(30) DEF Join

(***************************************************************************)
(* The rest of a handler is justified work.                                *)
(***************************************************************************)
LEMMA RestOnly ==
  ASSUME Inv, Grow, NEW n \in Honest, SameTree(n), IsRest(n, mem'[n].work)
  PROVE  WorkInv(n)'
<1> DEFINE p == << >>
           r == mem'[n].work
<1>1. p \in VoteWork(n)' /\ p \in Seq(Tasks)
  BY SMTT(30) DEF VoteWork
<1>2. r \in Seq(Tasks)
  BY RestIsSeq
<1>3. mem'[n].work = Join(p, r)
  BY <1>2, SMTT(30) DEF Join
<1> HIDE DEF p, r
<1>4. IsRest(n, r)
  BY DEF r
<1> QED
  BY <1>1, <1>3, <1>4, RestWork

(***************************************************************************)
(* The vote timer of mainLoop keeps the invariant.                         *)
(***************************************************************************)
LEMMA VoteTimerStep ==
  ASSUME Inv, VotingInv', NEW n \in Honest, VoteTimer(n)
  PROVE  Inv' /\ \A m \in Honest : StatusAdvances(m)
<1>1. UNCHANGED <<db, proposed, cert, sent, voted, crashes>>
  BY DEF VoteTimer, network
<1>2. /\ Grow /\ SameTree(n) /\ Stored(n)' = Stored(n) /\ StoredValid(n)' = StoredValid(n)
      /\ crashes' \in 0 .. MaxCrashes
  BY <1>1, SameNetwork, SameDb DEF Inv, EngineInv, TypeOK
<1>3. /\ MemFrame(n)
      /\ mem'[n].inbox = mem[n].inbox /\ mem'[n].passed = mem[n].passed
      /\ mem'[n].lastProposal = mem[n].lastProposal
      /\ mem'[n].blockProcessed = mem[n].blockProcessed
      /\ mem'[n].voteTimerReady = TRUE
  BY DEF VoteTimer, MemFrame, Inv, EngineInv, Shape
<1>4. mem'[n].work = << >> \/ mem'[n].work = FirstVote
  BY DEF VoteTimer, Inv, EngineInv, Shape, FirstVote
<1>5. MemTypeOK(n)'
  <2>1. MemTypeOK(n)
    BY Parts
  <2>2. {mem'[n].voteTimerReady, mem'[n].blockProcessed} \subseteq BOOLEAN
    BY <1>3, <2>1 DEF MemTypeOK
  <2>3. /\ mem'[n].inbox \subseteq Stored(n)' /\ mem'[n].passed \subseteq Stored(n)'
        /\ {db'[n].lastProposal, mem'[n].lastProposal} \subseteq Stored(n)' \cup {NoBlock}
    BY <1>1, <1>2, <1>3, <2>1 DEF MemTypeOK
  <2> QED
    BY <2>2, <2>3 DEF MemTypeOK
<1>6. QueueInv(n)'
  BY <1>1, <1>2, <1>3, QueueKeeps
<1>7. WorkInv(n)'
  <2>1. CASE mem'[n].work = << >>
    BY <1>1, <1>2, <2>1, NodeTypes, NoWork
  <2>2. CASE mem'[n].work = FirstVote
    <3> DEFINE r == << >>
    <3>1. IsRest(n, r)
      BY NoRest
    <3>2. mem'[n].work = Join(FirstVote, r)
      BY <2>2, VoteFirst, SMTT(30) DEF Join
    <3> HIDE DEF r
    <3> QED
      BY <1>2, <3>1, <3>2, VoteFirst, RestWork
  <2> QED
    BY <1>4, <2>1, <2>2
<1> QED
  BY <1>1, <1>2, <1>3, <1>5, <1>6, <1>7, MemoryStep

(***************************************************************************)
(* The epoch timer, after which the node votes again, keeps the invariant. *)
(***************************************************************************)
LEMMA EpochTimerStep ==
  ASSUME Inv, VotingInv', NEW n \in Honest, EpochTimer(n)
  PROVE  Inv' /\ \A m \in Honest : StatusAdvances(m)
<1> DEFINE r == << Task("enterEpoch", Root) >>
           w == << Task("vote", Root), Task("enterEpoch", Root) >>
<1>1. UNCHANGED <<db, proposed, cert, sent, voted, crashes>> /\ SetWork(n, w)
  BY DEF EpochTimer, network, SetWork
<1>2. IsRest(n, r)
  BY OnlyEnter
<1>3. w = Join(FirstVote, r)
  BY SMTT(30) DEF FirstVote, Join
<1> HIDE DEF r, w
<1>4. Grow /\ SameTree(n)
  BY <1>1, SameNetwork, SameDb DEF Inv, EngineInv, TypeOK
<1>5. mem'[n].work = Join(FirstVote, r)
  BY <1>1, <1>3, OnlyWork
<1>6. WorkInv(n)'
  BY <1>2, <1>4, <1>5, VoteFirst, RestWork
<1> QED
  BY <1>1, <1>6, WorkStep

(***************************************************************************)
(* Passing a block whose parent is processed to the engine                 *)
(* (passReadyBlocks of the sync manager) keeps the invariant.              *)
(***************************************************************************)
LEMMA PassReadyBlockStep ==
  ASSUME Inv, VotingInv', NEW n \in Honest, NEW b \in Stored(n), PassReadyBlock(n, b)
  PROVE  Inv' /\ \A m \in Honest : StatusAdvances(m)
<1>1. /\ UNCHANGED <<db, proposed, cert, sent, voted, crashes>>
      /\ Parent(b) \in StoredValid(n) /\ Height(b) > Height(db[n].lfb)
  BY DEF PassReadyBlock, network
<1>2. /\ Grow /\ SameTree(n) /\ Stored(n)' = Stored(n)
      /\ crashes' \in 0 .. MaxCrashes
  BY <1>1, SameNetwork, SameDb DEF Inv, EngineInv, TypeOK
<1>3. /\ MemFrame(n) /\ mem'[n].work = mem[n].work
      /\ mem'[n].inbox \subseteq mem[n].inbox \cup {b} /\ mem'[n].passed = mem[n].passed \cup {b}
      /\ mem'[n].lastProposal = mem[n].lastProposal
      /\ mem'[n].blockProcessed = mem[n].blockProcessed
      /\ mem'[n].voteTimerReady = mem[n].voteTimerReady
  BY DEF PassReadyBlock, MemFrame, Inv, EngineInv, Shape
<1>4. MemTypeOK(n)'
  <2>1. MemTypeOK(n)
    BY Parts
  <2>2. {mem'[n].voteTimerReady, mem'[n].blockProcessed} \subseteq BOOLEAN
    BY <1>3, <2>1 DEF MemTypeOK
  <2>3. /\ mem'[n].inbox \subseteq Stored(n)' /\ mem'[n].passed \subseteq Stored(n)'
        /\ {db'[n].lastProposal, mem'[n].lastProposal} \subseteq Stored(n)' \cup {NoBlock}
    BY <1>1, <1>2, <1>3, <2>1 DEF MemTypeOK
  <2> QED
    BY <2>2, <2>3 DEF MemTypeOK
<1>5. QueueInv(n)'
  <2>1. b # Root
    <3>1. b \in Blocks /\ db[n].lfb \in Blocks
      BY NodeTypes
    <3>2. Height(Root) <= Height(db[n].lfb) /\ Height(Root) \in Nat /\ Height(db[n].lfb) \in Nat
      BY <3>1, DescendantBasics, BlockType
    <3> QED
      BY <1>1, <3>2, SMTT(30)
  <2>2. Parent(b) \in Stored(n) /\ db[n].status[Parent(b)] # "pending"
    BY <1>1 DEF StoredValid, IsValid
  <2>3. QueueInv(n)
    BY Parts
  <2> QED
    BY <1>1, <1>2, <1>3, <2>1, <2>2, <2>3 DEF QueueInv
<1>6. WorkInv(n)'
  BY <1>1, <1>2, <1>3, WorkKeeps
<1> QED
  BY <1>1, <1>2, <1>3, <1>4, <1>5, <1>6, MemoryStep

(***************************************************************************)
(* A crash at any time, and the start after it, keep the invariant: the    *)
(* database is sound between any two writes.                               *)
(***************************************************************************)
LEMMA CrashStep ==
  ASSUME Inv, VotingInv', NEW n \in Honest, Crash(n)
  PROVE  Inv' /\ \A m \in Honest : StatusAdvances(m)
<1>1. UNCHANGED <<db, proposed, cert, sent, voted>> /\ crashes' \in 0 .. MaxCrashes
  BY EngineAssumption, SMTT(30) DEF Crash, Inv, EngineInv, TypeOK
<1>2. Grow /\ SameTree(n) /\ Stored(n)' = Stored(n)
  BY <1>1, SameNetwork, SameDb
<1>3. /\ MemFrame(n) /\ mem'[n] = FreshMem(db[n].lastProposal)
  <2>1. /\ mem'[n] = FreshMem(db[n].lastProposal) /\ DOMAIN mem' = Honest
        /\ \A m \in Honest \ {n} : mem'[m] = mem[m]
    BY DEF Crash, Inv, EngineInv, Shape
  <2>2. DOMAIN mem[n] = {"work", "inbox", "passed", "lastProposal", "voteTimerReady",
                         "blockProcessed"}
    BY DEF Inv, EngineInv, Shape
  <2>3. DOMAIN FreshMem(db[n].lastProposal) =
          {"work", "inbox", "passed", "lastProposal", "voteTimerReady", "blockProcessed"}
    BY DEF FreshMem
  <2> QED
    BY <2>1, <2>2, <2>3 DEF MemFrame
<1>4. /\ mem'[n].inbox = {} /\ mem'[n].passed = {}
      /\ mem'[n].lastProposal = db[n].lastProposal
      /\ mem'[n].blockProcessed = FALSE /\ mem'[n].voteTimerReady = FALSE
  BY <1>3, SMTT(30) DEF FreshMem
<1>5. MemTypeOK(n)'
  <2>1. MemTypeOK(n)
    BY Parts
  <2>2. {mem'[n].voteTimerReady, mem'[n].blockProcessed} \subseteq BOOLEAN
    BY <1>4
  <2>3. /\ mem'[n].inbox \subseteq Stored(n)' /\ mem'[n].passed \subseteq Stored(n)'
        /\ {db'[n].lastProposal, mem'[n].lastProposal} \subseteq Stored(n)' \cup {NoBlock}
    BY <1>1, <1>2, <1>4, <2>1 DEF MemTypeOK
  <2> QED
    BY <2>2, <2>3 DEF MemTypeOK
<1>6. QueueInv(n)'
  BY <1>1, <1>2, <1>4, QueueKeeps
<1>7. WorkInv(n)'
  <2>1. mem'[n].work = << Task("enterEpoch", Root) >>
    BY <1>3, SMTT(30) DEF FreshMem
  <2> QED
    BY <1>2, <2>1, OnlyEnter, RestOnly
<1> QED
  BY <1>1, <1>3, <1>5, <1>6, <1>7, MemoryStep

(***************************************************************************)
(* A vote is sent after it was stored.                                     *)
(***************************************************************************)
LEMMA SendVoteStep ==
  ASSUME Inv, VotingInv', NEW n \in Honest, SendVote(n)
  PROVE  Inv' /\ \A m \in Honest : StatusAdvances(m)
<1> DEFINE v == [voter |-> n, block |-> Block(n), epoch |-> db[n].epoch]
<1>1. /\ Doing(n, "sendVote") /\ Then(n, << >>) /\ sent' = sent \cup {v}
      /\ UNCHANGED <<db, proposed, cert, voted, crashes>>
  BY DEF SendVote
<1>2. IsRest(n, Tail(mem[n].work)) /\ Block(n) \in voted[n]
  <2>1. /\ Head(mem[n].work).op = "sendVote" /\ Head(mem[n].work).block = Block(n)
        /\ VoteNext(n, Head(mem[n].work), Tail(mem[n].work))
    BY <1>1, DoingNext
  <2> QED
    BY <2>1 DEF VoteNext
<1>3. Grow
  BY <1>1 DEF Grow, Inv, EngineInv, TypeOK
<1>4. MessageInv'
  <2>1. \A m \in Honest : Stored(m)' = Stored(m)
    BY <1>1, SameDb
  <2>2. v.voter \in Honest /\ v.block \in voted[v.voter] /\ v.epoch \in 0 .. MaxEpoch
    BY <1>2, Parts DEF VotesOK
  <2> QED
    BY <1>1, <2>1, <2>2 DEF MessageInv, Inv, EngineInv
<1>5. SameVotes(n) /\ SameTree(n) /\ DbFrame(n) /\ Stored(n)' = Stored(n)
  BY <1>1, SameDb
<1>6. StatusAdvances(n) /\ TreeOK(n)'
  <2>1. Stored(n)' \subseteq proposed' \cup {Root}
    BY <1>1, <1>5, Parts DEF TreeOK
  <2> QED
    BY <1>1, <1>3, <1>5, <2>1, TreeKeeps, SameTreeKeeps
<1>7. SetWork(n, Tail(mem[n].work))
  <2>1. SetWork(n, Join(<< >>, Tail(mem[n].work)))
    BY <1>1, ThenWork
  <2>2. Join(<< >>, Tail(mem[n].work)) = Tail(mem[n].work)
    BY <1>2, RestIsSeq, SMTT(30) DEF Join
  <2> QED
    BY <2>1, <2>2
<1>8. SameMem(n) /\ MemFrame(n) /\ mem'[n].work = Tail(mem[n].work)
  BY <1>7, OnlyWork
<1>9. WorkInv(n)'
  BY <1>2, <1>3, <1>5, <1>8, RestOnly
<1> QED
  BY <1>1, <1>3, <1>4, <1>5, <1>6, <1>8, <1>9, TreeStep DEF Frame

(***************************************************************************)
(* A node stores its last vote, or takes it from the database again.       *)
(***************************************************************************)
SendFirst(b) == << Task("sendVote", b) >>

(***************************************************************************)
(* A vote that is stored as LastVote may be sent.                          *)
(***************************************************************************)
LEMMA SendWork ==
  ASSUME Inv, Grow, NEW n \in Honest, SameTree(n), IsRest(n, Tail(mem[n].work)),
         NEW b \in voted'[n], b \in Blocks, Then(n, << Task("sendVote", b) >>)
  PROVE  SameMem(n) /\ MemFrame(n) /\ WorkInv(n)'
<1> DEFINE r == Tail(mem[n].work)
<1>1. SetWork(n, Join(SendFirst(b), r))
  BY ThenWork DEF SendFirst
<1>2. SendFirst(b) \in VoteWork(n)'
  BY DEF VoteWork, SendFirst
<1>3. SendFirst(b) \in Seq(Tasks)
  <2>1. Task("sendVote", b) \in Tasks
    BY SMTT(30) DEF Tasks
  <2> QED
    BY <2>1, SMTT(30) DEF SendFirst
<1> HIDE DEF r
<1>4. SameMem(n) /\ MemFrame(n) /\ mem'[n].work = Join(SendFirst(b), r)
  BY <1>1, OnlyWork
<1>5. IsRest(n, r)
  BY DEF r
<1> QED
  BY <1>2, <1>3, <1>4, <1>5, RestWork

(***************************************************************************)
(* Storing the vote as LastVote, before it is sent, keeps the invariant.   *)
(***************************************************************************)
LEMMA VoteStep ==
  ASSUME Inv, VotingInv', NEW n \in Honest, Vote(n)
  PROVE  Inv' /\ \A m \in Honest : StatusAdvances(m)
<1>1. Doing(n, "vote") /\ UNCHANGED <<proposed, cert, sent, crashes>>
  BY DEF Vote
<1>2. IsRest(n, Tail(mem[n].work))
  BY <1>1, DoingNext DEF VoteNext
<1>3. crashes' \in 0 .. MaxCrashes /\ DOMAIN voted = Honest
  BY <1>1, NodeTypes DEF Inv, EngineInv, TypeOK
<1>4. PICK tip \in Branch(n) :
        IF MayVote(n, tip)
          THEN /\ Commit(n, [db[n] EXCEPT !.lastVote = tip])
               /\ voted' = [voted EXCEPT ![n] = @ \cup {tip}]
               /\ Then(n, << Task("sendVote", tip) >>)
          ELSE /\ Then(n, << Task("sendVote", db[n].lastVote) >>)
               /\ UNCHANGED <<db, voted>>
  BY DEF Vote
<1>5. tip \in StoredValid(n) /\ tip \in Blocks
  BY NodeTypes DEF Branch
<1>6. CASE MayVote(n, tip)
  <2> DEFINE d == [db[n] EXCEPT !.lastVote = tip]
  <2>1. /\ Commit(n, d) /\ voted' = [voted EXCEPT ![n] = @ \cup {tip}]
        /\ Then(n, << Task("sendVote", tip) >>)
    BY <1>4, <1>6
  <2>2. /\ DOMAIN d = DOMAIN db[n] /\ d.lastVote = tip
        /\ d.status = db[n].status /\ d.index = db[n].index /\ d.epoch = db[n].epoch
        /\ d.epochVotes = db[n].epochVotes /\ d.hcc = db[n].hcc /\ d.lfb = db[n].lfb
    BY DEF Inv, EngineInv, Shape
  <2> HIDE DEF d
  <2>3. /\ DbFrame(n) /\ SameVotes(n) /\ db'[n].lastVote = tip /\ db'[n].status = db[n].status
        /\ db'[n].hcc = db[n].hcc /\ db'[n].lfb = db[n].lfb
        /\ db'[n].lastProposal = mem[n].lastProposal
    BY <2>1, <2>2, Committed DEF SameVotes
  <2>4. SameTree(n) /\ Stored(n)' = Stored(n)
    BY <2>3 DEF SameTree, Stored
  <2>5. \A m \in Honest : Stored(m) \subseteq Stored(m)' /\ voted[m] \subseteq voted'[m]
    BY <2>1, <2>3, <1>3 DEF Stored, DbFrame
  <2>6. Grow /\ MessageInv'
    BY <1>1, <1>3, <2>5, QuietNetwork
  <2>7. tip \in voted'[n]
    BY <2>1, <1>3
  <2>8. SameMem(n) /\ MemFrame(n) /\ WorkInv(n)'
    BY <2>1, <2>4, <2>6, <2>7, <1>2, <1>5, SendWork
  <2>9. StoredValid(n)' = StoredValid(n) /\ StatusAdvances(n)
    BY <2>4, <2>6, SameTreeKeeps
  <2>10. TreeOK(n)'
    <3>1. TreeOK(n)
      BY Parts
    <3>2. db'[n].lastVote \in StoredValid(n)' \cup {NoVote}
      BY <1>5, <2>3, <2>9
    <3> QED
      BY <3>1, <3>2, <2>3, <2>4, <2>7, <2>9, <1>1 DEF TreeOK
  <2> QED
    BY <2>3, <2>6, <2>8, <2>9, <2>10, TreeStep DEF Frame
<1>7. CASE ~MayVote(n, tip)
  <2>1. UNCHANGED <<db, voted>> /\ Then(n, << Task("sendVote", db[n].lastVote) >>)
    BY <1>4, <1>7
  <2>2. db[n].lastVote \in voted[n] /\ db[n].lastVote \in Blocks
    BY <1>7, Parts, NodeTypes DEF MayVote, TreeOK
  <2>3. Grow /\ MessageInv'
    BY <1>1, <1>3, <2>1, SameNetwork
  <2>4. SameTree(n) /\ SameVotes(n) /\ DbFrame(n) /\ Stored(n)' = Stored(n)
    BY <2>1, SameDb
  <2>5. SameMem(n) /\ MemFrame(n) /\ WorkInv(n)'
    BY <1>2, <2>1, <2>2, <2>3, <2>4, SendWork
  <2>6. TreeOK(n)' /\ StatusAdvances(n)
    <3>1. Stored(n)' \subseteq proposed' \cup {Root}
      BY <1>1, <2>4, Parts DEF TreeOK
    <3> QED
      BY <2>1, <2>3, <2>4, <3>1, TreeKeeps, SameTreeKeeps
  <2> QED
    BY <2>1, <2>3, <2>4, <2>5, <2>6, TreeStep DEF Frame
<1> QED
  BY <1>6, <1>7

(***************************************************************************)
(* Storing a block that was received keeps the invariant.                  *)
(***************************************************************************)
LEMMA AddBlockStep ==
  ASSUME Inv, VotingInv', NEW n \in Honest, NEW b \in proposed, AddBlock(n, b)
  PROVE  Inv' /\ \A m \in Honest : StatusAdvances(m)
<1>1. /\ b \notin Stored(n) /\ UNCHANGED <<mem, proposed, cert, sent, voted, crashes>>
      /\ StorePending(n, b)
  BY DEF AddBlock, StorePending, network
<1>2. /\ SameVotes(n) /\ DbFrame(n) /\ SameTree(n) /\ Stored(n)' = Stored(n) \cup {b}
      /\ \A m \in Honest : Stored(m) \subseteq Stored(m)'
      /\ db'[n].lastVote = db[n].lastVote /\ db'[n].lastProposal = db[n].lastProposal
  BY <1>1, StoresBlock
<1>3. Grow /\ MessageInv'
  <2>1. crashes' \in 0 .. MaxCrashes
    BY <1>1 DEF Inv, EngineInv, TypeOK
  <2> QED
    BY <1>1, <1>2, <2>1, QuietNetwork
<1>4. TreeOK(n)' /\ StatusAdvances(n)
  <2>1. Stored(n)' \subseteq proposed' \cup {Root}
    BY <1>1, <1>2, Parts DEF TreeOK
  <2> QED
    BY <1>2, <1>3, <2>1, TreeKeeps, SameTreeKeeps
<1>5. SameMem(n) /\ MemFrame(n)
  BY <1>1 DEF SameMem, MemFrame, Inv, EngineInv, Shape
<1>6. WorkInv(n)'
  BY <1>1, <1>2, <1>3, WorkKeeps DEF SameVotes
<1> QED
  BY <1>2, <1>3, <1>4, <1>5, <1>6, TreeStep DEF Frame

(***************************************************************************)
(* A block of a peer, whatever its certificate, keeps the invariant.       *)
(***************************************************************************)
LEMMA PeerProposeStep ==
  ASSUME Inv, VotingInv', NEW b \in PeerBlocks, PeerPropose(b)
  PROVE  Inv' /\ \A m \in Honest : StatusAdvances(m)
<1>1. /\ b \notin proposed /\ Proposer[Epoch(b)] \in Faulty
      /\ proposed' = proposed \cup {b} /\ cert' = With(cert, b, PeerCert[b])
      /\ UNCHANGED <<db, mem, sent, voted, crashes>>
  BY DEF PeerPropose
<1>2. /\ b \in Blocks /\ b # Root /\ \A v \in PeerCert[b] : v.epoch \in 0 .. MaxEpoch - 1
  BY EngineAssumption
<1>3. /\ DOMAIN cert' = proposed' /\ cert'[b] = PeerCert[b]
      /\ \A c \in proposed : cert'[c] = cert[c]
  BY <1>1 DEF With, Inv, EngineInv, TypeOK
<1>4. Grow
  BY <1>1, <1>2, <1>3 DEF Grow, Inv, EngineInv, TypeOK
<1>5. \A m \in Honest : Stored(m)' = Stored(m)
  BY <1>1 DEF Stored
<1>6. MessageInv'
  <2>1. MessageInv
    BY DEF Inv, EngineInv
  <2>2. \A n \in Honest : Proposer[Epoch(b)] # n
    BY <1>1 DEF Honest
  <2>3. \A c \in proposed' :
          /\ c # Root /\ \A v \in cert'[c] : v.epoch \in 0 .. MaxEpoch - 1
          /\ \A n \in Honest : Proposer[Epoch(c)] = n => c \in Stored(n)'
    BY <1>1, <1>2, <1>3, <1>5, <2>1, <2>2 DEF MessageInv
  <2> QED
    BY <1>1, <2>1, <2>3 DEF MessageInv
<1>7. \A m \in Honest : NodeInv(m)' /\ StatusAdvances(m)
  BY <1>1, <1>4, OtherNodeKeeps
<1>8. Shape'
  BY <1>1 DEF Shape, Inv, EngineInv
<1>9. \A m \in Honest : NodeTypeOK(m)' /\ StoreInv(m)' /\ QueueInv(m)' /\ WorkInv(m)'
  BY <1>7, NodeParts DEF NodeInv
<1>10. TypeOK'
  BY <1>4, <1>9 DEF TypeOK, Grow
<1> QED
  BY <1>6, <1>7, <1>8, <1>9, <1>10 DEF Inv, EngineInv

(***************************************************************************)
(* The memory of a node that has entered an epoch.                         *)
(***************************************************************************)
LEMMA EnteredMem ==
  ASSUME Inv, NEW n \in Honest, NEW proposal, NEW inbox, Entered(n, proposal, inbox),
         Tail(mem[n].work) = << >>
  PROVE  /\ MemFrame(n) /\ mem'[n].work = << >>
         /\ mem'[n].inbox = inbox /\ mem'[n].passed = mem[n].passed
         /\ mem'[n].lastProposal = proposal
         /\ {mem'[n].voteTimerReady, mem'[n].blockProcessed} \subseteq BOOLEAN
<1>1. /\ MemFrame(n) /\ mem'[n].inbox = inbox /\ mem'[n].passed = mem[n].passed
      /\ mem'[n].lastProposal = proposal
      /\ mem'[n].voteTimerReady = FALSE /\ mem'[n].blockProcessed = FALSE
  BY DEF Entered, Inv, EngineInv, Shape, MemFrame
<1>2. mem'[n].work = Tail(mem[n].work)
  BY DEF Entered, Inv, EngineInv, Shape
<1>3. {mem'[n].voteTimerReady, mem'[n].blockProcessed} \subseteq BOOLEAN
  BY <1>1
<1> QED
  BY <1>1, <1>2, <1>3

(***************************************************************************)
(* ... proposing nothing, or the last proposal again.                      *)
(***************************************************************************)
LEMMA EnterOldStep ==
  ASSUME Inv, VotingInv', NEW n \in Honest, Tail(mem[n].work) = << >>, NEW inbox,
         Entered(n, mem[n].lastProposal, inbox),
         inbox \subseteq mem[n].inbox \cup ({mem[n].lastProposal} \ {NoBlock}),
         UNCHANGED <<db, proposed, cert, sent, voted, crashes>>
  PROVE  Inv' /\ \A m \in Honest : StatusAdvances(m)
<1>1. /\ MemFrame(n) /\ mem'[n].work = << >>
      /\ mem'[n].inbox = inbox /\ mem'[n].passed = mem[n].passed
      /\ mem'[n].lastProposal = mem[n].lastProposal
      /\ {mem'[n].voteTimerReady, mem'[n].blockProcessed} \subseteq BOOLEAN
  BY EnteredMem
<1>2. crashes' \in 0 .. MaxCrashes
  BY DEF Inv, EngineInv, TypeOK
<1>3. Stored(n)' = Stored(n) /\ StoredValid(n)' = StoredValid(n)
  BY SameDb
<1>4. MemTypeOK(n)'
  <2>1. MemTypeOK(n)
    BY Parts
  <2>2. /\ mem'[n].inbox \subseteq Stored(n)' /\ mem'[n].passed \subseteq Stored(n)'
        /\ {db'[n].lastProposal, mem'[n].lastProposal} \subseteq Stored(n)' \cup {NoBlock}
    BY <1>1, <1>3, <2>1 DEF MemTypeOK
  <2> QED
    BY <1>1, <2>2 DEF MemTypeOK
<1>5. QueueInv(n)'
  BY <1>1, <1>3, QueueKeeps
<1>6. WorkInv(n)'
  <2>1. Root \in StoredValid(n)' /\ db'[n].hcc \in Blocks
    BY <1>3, NodeTypes
  <2> QED
    BY <1>1, <2>1, NoWork
<1> QED
  BY <1>1, <1>2, <1>4, <1>5, <1>6, MemoryStep

(***************************************************************************)
(* The block n creates is new: what only n may propose is in its store.    *)
(***************************************************************************)
LEMMA ProposalIs ==
  ASSUME Inv, NEW n \in Honest, NEW tip \in Branch(n), ShouldPropose(n, tip),
         NEW p \in Payloads
  PROVE  LET b == Proposal(n, tip, p)
         IN  /\ b \in Blocks /\ b # Root /\ Parent(b) = tip /\ Epoch(b) = db[n].epoch
             /\ Proposer[Epoch(b)] = n
             /\ b \notin Stored(n) => b \notin proposed
             /\ tip \in StoredValid(n)
<1> DEFINE b == Proposal(n, tip, p)
<1>1. tip \in StoredValid(n) /\ tip \in Blocks /\ db[n].hcc \in Blocks /\ IsDescendant(db[n].hcc, tip)
  BY NodeTypes DEF Branch
<1>2. db[n].epoch \in Epochs /\ Proposer[db[n].epoch] = n
  BY DEF ShouldPropose
<1>3. Len(db[n].hcc) \in 0 .. Len(tip)
  BY <1>1, BlockType, SMTT(30) DEF IsDescendant
<1>4. b \in Blocks /\ b # Root /\ Parent(b) = tip /\ Epoch(b) = db[n].epoch
  BY <1>1, <1>2, <1>3, AppendIsBlock, AppendType, SMTT(30) DEF Proposal
<1>5. b \notin Stored(n) => b \notin proposed
  BY <1>2, <1>4 DEF Inv, EngineInv, MessageInv
<1> QED
  BY <1>1, <1>2, <1>4, <1>5

(***************************************************************************)
(* ... proposing a new block.                                              *)
(***************************************************************************)
LEMMA EnterNewStep ==
  ASSUME Inv, VotingInv', NEW n \in Honest, Tail(mem[n].work) = << >>, NEW b \in Blocks,
         b # Root, Parent(b) \in StoredValid(n), Proposer[Epoch(b)] = n,
         b \notin Stored(n), b \notin proposed,
         Entered(n, b, mem[n].inbox \cup {b}), StorePending(n, b),
         proposed' = proposed \cup {b}, cert' = With(cert, b, VotesOn(n, db[n].hcc)),
         UNCHANGED <<sent, voted, crashes>>
  PROVE  Inv' /\ \A m \in Honest : StatusAdvances(m)
<1>1. /\ MemFrame(n) /\ mem'[n].work = << >>
      /\ mem'[n].inbox = mem[n].inbox \cup {b} /\ mem'[n].passed = mem[n].passed
      /\ mem'[n].lastProposal = b
      /\ {mem'[n].voteTimerReady, mem'[n].blockProcessed} \subseteq BOOLEAN
  <2> DEFINE inbox == mem[n].inbox \cup {b}
  <2>1. Entered(n, b, inbox)
    OBVIOUS
  <2> HIDE DEF inbox
  <2>2. MemFrame(n) /\ mem'[n].work = << >> /\ mem'[n].lastProposal = b
    BY <2>1, EnteredMem
  <2>3. mem'[n].inbox = inbox
    BY <2>1, EnteredMem, SMTT(30)
  <2>4. mem'[n].passed = mem[n].passed
    BY <2>1, EnteredMem
  <2>5. {mem'[n].voteTimerReady, mem'[n].blockProcessed} \subseteq BOOLEAN
    BY <2>1, EnteredMem
  <2> QED
    BY <2>2, <2>3, <2>4, <2>5 DEF inbox
<1>2. /\ SameVotes(n) /\ DbFrame(n) /\ SameTree(n) /\ Stored(n)' = Stored(n) \cup {b}
      /\ \A m \in Honest : Stored(m) \subseteq Stored(m)'
      /\ db'[n].lastVote = db[n].lastVote /\ db'[n].lastProposal = db[n].lastProposal
  BY StoresBlock
<1>3. /\ DOMAIN cert' = proposed' /\ cert'[b] = VotesOn(n, db[n].hcc)
      /\ \A c \in proposed : cert'[c] = cert[c]
  BY DEF With, Inv, EngineInv, TypeOK
<1>4. Grow
  BY <1>3 DEF Grow, Inv, EngineInv, TypeOK
<1>5. MessageInv'
  <2>1. MessageInv
    BY DEF Inv, EngineInv
  <2>2. \A v \in cert'[b] : v.epoch \in 0 .. MaxEpoch - 1
    BY <1>3, Parts DEF VotesOK, VotesOn
  <2>3. \A c \in proposed' :
          /\ c # Root /\ \A v \in cert'[c] : v.epoch \in 0 .. MaxEpoch - 1
          /\ \A m \in Honest : Proposer[Epoch(c)] = m => c \in Stored(m)'
    BY <1>2, <1>3, <2>1, <2>2 DEF MessageInv
  <2> QED
    BY <2>1, <2>3 DEF MessageInv
<1>6. VotesOK(n)'
  BY <1>2, <1>4, VotesKeep
<1>7. TreeOK(n)' /\ StatusAdvances(n)
  <2>1. Stored(n)' \subseteq proposed' \cup {Root}
    BY <1>2, Parts DEF TreeOK
  <2> QED
    BY <1>2, <1>4, <2>1, TreeKeeps, SameTreeKeeps
<1>8. MemTypeOK(n)'
  <2>1. MemTypeOK(n)
    BY Parts
  <2>2. /\ mem'[n].inbox \subseteq Stored(n)' /\ mem'[n].passed \subseteq Stored(n)'
        /\ {db'[n].lastProposal, mem'[n].lastProposal} \subseteq Stored(n)' \cup {NoBlock}
    BY <1>1, <1>2, <2>1 DEF MemTypeOK
  <2> QED
    BY <1>1, <2>2 DEF MemTypeOK
<1>9. QueueInv(n)'
  <2>1. QueueInv(n)
    BY Parts
  <2>2. Parent(b) \in Stored(n) /\ db[n].status[Parent(b)] # "pending"
    BY DEF StoredValid, IsValid
  <2>3. \A c \in Stored(n) : db'[n].status[c] = db[n].status[c] /\ c \in Stored(n)'
    BY <1>2 DEF SameTree
  <2> QED
    <3>1. \A c \in mem[n].inbox \cup ({mem[n].lastProposal, db[n].lastProposal} \ {NoBlock}) :
            c # Root /\ Parent(c) \in Stored(n) /\ db[n].status[Parent(c)] # "pending"
      BY <2>1 DEF QueueInv
    <3>2. ASSUME NEW c \in mem'[n].inbox \cup
                          ({mem'[n].lastProposal, db'[n].lastProposal} \ {NoBlock})
          PROVE  c # Root /\ Parent(c) \in Stored(n) /\ db[n].status[Parent(c)] # "pending"
      <4>1. c = b \/ c \in mem[n].inbox \cup ({db[n].lastProposal} \ {NoBlock})
        BY <1>1, <1>2
      <4> QED
        BY <4>1, <3>1, <2>2
    <3> QED
      BY <3>2, <2>3 DEF QueueInv
<1>10. WorkInv(n)'
  <2>1. /\ Root \in StoredValid(n) /\ db[n].hcc \in StoredValid(n)
        /\ StoredValid(n) \subseteq Stored(n) /\ Stored(n) \subseteq Blocks
    BY NodeTypes
  <2>2. StoredValid(n)' = StoredValid(n)
    BY <1>2, <1>4, SameTreeKeeps
  <2>3. db'[n].hcc = db[n].hcc
    BY <1>2 DEF SameTree
  <2>4. db[n].hcc \in Blocks
    BY <2>1
  <2> QED
    BY <1>1, <2>1, <2>2, <2>3, <2>4, NoWork
<1> QED
  BY <1>1, <1>2, <1>4, <1>5, <1>6, <1>7, <1>8, <1>9, <1>10, NodeStep DEF Frame, NodeInv

(***************************************************************************)
(* Entering an epoch and proposing in it keeps the invariant.              *)
(***************************************************************************)
LEMMA EnterEpochStep ==
  ASSUME Inv, VotingInv', NEW n \in Honest, EnterEpoch(n)
  PROVE  Inv' /\ \A m \in Honest : StatusAdvances(m)
<1>1. UNCHANGED <<sent, voted, crashes>> /\ (EnterOld(n) \/ EnterNew(n))
  BY EnterCases
<1>2. Tail(mem[n].work) = << >>
  BY EnterCases, DoingNext DEF EnterNext
<1>3. CASE EnterOld(n)
  <2>1. PICK inbox \in SUBSET (mem[n].inbox \cup ({mem[n].lastProposal} \ {NoBlock})) :
          Entered(n, mem[n].lastProposal, inbox)
    BY <1>3 DEF EnterOld
  <2>2. inbox \subseteq mem[n].inbox \cup ({mem[n].lastProposal} \ {NoBlock})
    OBVIOUS
  <2>3. UNCHANGED <<db, proposed, cert, sent, voted, crashes>>
    BY <1>1, <1>3 DEF EnterOld
  <2> QED
    BY <1>2, <2>1, <2>2, <2>3, EnterOldStep
<1>4. CASE EnterNew(n)
  <2>1. PICK tip \in Branch(n), p \in Payloads :
          /\ ShouldPropose(n, tip) /\ Proposal(n, tip, p) \notin Stored(n)
          /\ Entered(n, Proposal(n, tip, p), mem[n].inbox \cup {Proposal(n, tip, p)})
          /\ StorePending(n, Proposal(n, tip, p))
          /\ proposed' = proposed \cup {Proposal(n, tip, p)}
          /\ cert' = With(cert, Proposal(n, tip, p), VotesOn(n, db[n].hcc))
    BY <1>4 DEF EnterNew
  <2> DEFINE b == Proposal(n, tip, p)
  <2>2. /\ b \in Blocks /\ b # Root /\ Parent(b) \in StoredValid(n)
        /\ Proposer[Epoch(b)] = n /\ b \notin proposed
    BY <2>1, ProposalIs
  <2>3. /\ b \notin Stored(n) /\ Entered(n, b, mem[n].inbox \cup {b}) /\ StorePending(n, b)
        /\ proposed' = proposed \cup {b} /\ cert' = With(cert, b, VotesOn(n, db[n].hcc))
    BY <2>1
  <2> HIDE DEF b
  <2> QED
    BY <1>1, <1>2, <2>2, <2>3, EnterNewStep
<1> QED
  BY <1>1, <1>3, <1>4

(***************************************************************************)
(* The memory of a node that has taken a block from its queue.             *)
(***************************************************************************)
LEMMA ReceivedMem ==
  ASSUME Inv, NEW n \in Honest, NEW b, NEW w, Received(n, b, w)
  PROVE  /\ MemFrame(n) /\ mem'[n].work = w
         /\ mem'[n].inbox = mem[n].inbox \ {b} /\ mem'[n].passed = mem[n].passed
         /\ mem'[n].lastProposal = mem[n].lastProposal
         /\ mem'[n].voteTimerReady = mem[n].voteTimerReady
         /\ mem'[n].blockProcessed = mem[n].blockProcessed
  BY DEF Received, Inv, EngineInv, Shape, MemFrame

(***************************************************************************)
(* Taking a block from the queue keeps the queue sound.                    *)
(***************************************************************************)
LEMMA ReceivedQueue ==
  ASSUME Inv, NEW n \in Honest, NEW b, NEW w, Received(n, b, w),
         Stored(n) \subseteq Stored(n)', db'[n].lastProposal = db[n].lastProposal,
         \A c \in Stored(n) : db'[n].status[c] = "pending" => db[n].status[c] = "pending"
  PROVE  MemTypeOK(n)' /\ QueueInv(n)'
<1>1. /\ mem'[n].inbox \subseteq mem[n].inbox /\ mem'[n].passed = mem[n].passed
      /\ mem'[n].lastProposal = mem[n].lastProposal
      /\ mem'[n].voteTimerReady = mem[n].voteTimerReady
      /\ mem'[n].blockProcessed = mem[n].blockProcessed
  BY ReceivedMem
<1>2. MemTypeOK(n)
  BY Parts
<1>3. {mem'[n].voteTimerReady, mem'[n].blockProcessed} \subseteq BOOLEAN
  BY <1>1, <1>2 DEF MemTypeOK
<1>4. /\ mem'[n].inbox \subseteq Stored(n)' /\ mem'[n].passed \subseteq Stored(n)'
      /\ {db'[n].lastProposal, mem'[n].lastProposal} \subseteq Stored(n)' \cup {NoBlock}
  BY <1>1, <1>2 DEF MemTypeOK
<1>5. MemTypeOK(n)'
  BY <1>3, <1>4 DEF MemTypeOK
<1>6. QueueInv(n)'
  BY <1>1, QueueKeeps
<1> QED
  BY <1>5, <1>6

(***************************************************************************)
(* Validating a block from the queue (handleBlock) keeps the invariant.    *)
(***************************************************************************)
LEMMA BlockMessageStep ==
  ASSUME Inv, VotingInv', NEW n \in Honest, NEW b \in mem[n].inbox, BlockMessage(n, b)
  PROVE  Inv' /\ \A m \in Honest : StatusAdvances(m)
<1>1. /\ b \in Stored(n) /\ UNCHANGED <<proposed, cert, sent, voted, crashes>>
      /\ crashes' \in 0 .. MaxCrashes
  <2>1. UNCHANGED <<proposed, cert, sent, voted, crashes>>
    BY DEF BlockMessage, network
  <2>2. b \in Stored(n)
    BY Parts DEF MemTypeOK
  <2> QED
    BY <2>1, <2>2 DEF Inv, EngineInv, TypeOK
<1>2. ASSUME NEW w, Received(n, b, w), UNCHANGED db, WorkInv(n)'
      PROVE  Inv' /\ \A m \in Honest : StatusAdvances(m)
  <2>1. Stored(n)' = Stored(n)
    BY <1>2, SameDb
  <2>2. MemTypeOK(n)' /\ QueueInv(n)' /\ MemFrame(n)
    BY <1>2, <2>1, ReceivedQueue, ReceivedMem
  <2> QED
    BY <1>1, <1>2, <2>2, MemoryStep
<1>3. CASE db[n].status[b] = "pending" /\ SetStatus(n, b, "invalid") /\ Received(n, b, << >>)
  <2>1. /\ SameVotes(n) /\ DbFrame(n) /\ \A m \in Honest : Stored(m)' = Stored(m)
        /\ db'[n].hcc = db[n].hcc /\ db'[n].lastProposal = db[n].lastProposal
    BY <1>1, <1>3, OnlyStatus
  <2>2. Grow /\ MessageInv'
    BY <1>1, <2>1, QuietNetwork
  <2>3. TreeOK(n)' /\ StatusAdvances(n)
    <3>1. /\ "invalid" \in Statuses /\ Rank("pending") < Rank("invalid")
          /\ ~IsFinalized("invalid")
      BY SMTT(30) DEF Statuses, Rank, IsFinalized
    <3> QED
      BY <1>1, <1>3, <2>2, <3>1, StatusChange
  <2>4. \A c \in Stored(n) : db'[n].status[c] = "pending" => db[n].status[c] = "pending"
    <3>1. \A c \in Stored(n)' : db'[n].status[c] \in Statuses
      BY <2>3 DEF TreeOK
    <3> QED
      BY <2>3, <3>1, StaysValid
  <2>5. MemTypeOK(n)' /\ QueueInv(n)' /\ MemFrame(n) /\ mem'[n].work = << >>
    BY <1>3, <2>1, <2>4, ReceivedQueue, ReceivedMem
  <2>6. WorkInv(n)'
    <3>1. Root \in StoredValid(n)' /\ db'[n].hcc \in Blocks
      BY <2>1, <2>3, NodeTypes, StaysValid DEF TreeOK
    <3> QED
      BY <2>5, <3>1, NoWork
  <2>7. VotesOK(n)'
    BY <2>1, <2>2, VotesKeep
  <2> QED
    BY <2>1, <2>2, <2>3, <2>5, <2>6, <2>7, NodeStep DEF Frame, NodeInv
<1>4. CASE /\ db[n].status[b] = "pending" /\ ValidateBlock(n, b)
           /\ UNCHANGED db /\ Received(n, b, << VotesTask(b, cert[b]) >>)
  <2>1. SameTree(n) /\ Grow
    BY <1>1, <1>4, SameDb, SameNetwork
  <2>2. Ready(n, b)' /\ b \in Stored(n)'
    <3>1. Ready(n, b)
      BY <1>1, <1>4 DEF Ready
    <3> QED
      BY <1>1, <2>1, <3>1, SameTreeKeeps DEF SameTree
  <2>3. VotesInv(n, b, cert[b])'
    BY <1>1 DEF VotesInv
  <2>4. mem'[n].work = << VotesTask(b, cert'[b]) >>
    <3>1. mem'[n].work = << VotesTask(b, cert[b]) >>
      BY <1>4, ReceivedMem
    <3> QED
      BY <1>1, <3>1
  <2>5. WorkInv(n)'
    BY <2>2, <2>3, <2>4 DEF WorkInv
  <2> QED
    BY <1>2, <1>4, <2>5
<1>5. CASE UNCHANGED db /\ Received(n, b, << >>)
  <2>1. Root \in StoredValid(n)' /\ db'[n].hcc \in Blocks
    BY <1>5, NodeTypes, SameDb
  <2>2. mem'[n].work = << >>
    BY <1>5, ReceivedMem
  <2>3. WorkInv(n)'
    BY <2>1, <2>2, NoWork
  <2> QED
    BY <1>2, <1>5, <2>3
<1> QED
  BY BlockCases, <1>3, <1>4, <1>5
=============================================================================
