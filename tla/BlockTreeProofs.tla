-------------------------- MODULE BlockTreeProofs --------------------------
(***************************************************************************)
(* Facts about blocks, their parents, certificates and ancestors.          *)
(***************************************************************************)
EXTENDS BlockTree, TLAPS

(***************************************************************************)
(* A descendant agrees with its ancestor header by header.                 *)
(***************************************************************************)
LEMMA DescendantPointwise ==
  ASSUME NEW a \in Blocks, NEW b \in Blocks
  PROVE  IsDescendant(a, b) <=> /\ Len(a) <= Len(b)
                                /\ \A i \in 1 .. Len(a) : a[i] = b[i]
  BY DEF IsDescendant

(***************************************************************************)
(* A cut of a block's chain is a block, and an ancestor of it.             *)
(***************************************************************************)
LEMMA Cut ==
  ASSUME NEW b \in Blocks, NEW k \in 0 .. Len(b)
  PROVE  /\ SubSeq(b, 1, k) \in Blocks
         /\ Len(SubSeq(b, 1, k)) = k
         /\ IsDescendant(SubSeq(b, 1, k), b)
<1> DEFINE a == SubSeq(b, 1, k)
<1>1. /\ a \in Seq(Header)
      /\ Len(a) = k
      /\ \A i \in 1 .. k : a[i] = b[i]
  BY DEF Blocks
<1>2. /\ k \in Nat /\ Len(b) \in Nat /\ k <= Len(b)
      /\ \A i \in 1 .. Len(b) : b[i].hcc < i
  BY DEF Blocks
<1> HIDE DEF a
<1>3. \A i \in 1 .. Len(a) : a[i].hcc < i
  BY <1>1, <1>2
<1>4. a \in Blocks
  BY <1>1, <1>3 DEF Blocks
<1>5. IsDescendant(a, b)
  BY <1>1, <1>2, <1>4, DescendantPointwise
<1> QED
  BY <1>1, <1>4, <1>5 DEF a

(***************************************************************************)
(* A block is a sequence.                                                  *)
(***************************************************************************)
LEMMA BlockType ==
  ASSUME NEW b \in Blocks
  PROVE  /\ Len(b) \in Nat
         /\ Height(b) \in Nat
         /\ (Len(b) = 0) <=> (b = Root)
         /\ b # Root => /\ b[Len(b)].hcc \in 0 .. Len(b) - 1
                        /\ Len(b) >= 1
<1>1. b \in Seq(Header) /\ Len(b) \in Nat
  BY DEF Blocks
<1>2. (Len(b) = 0) <=> (b = Root)
  BY <1>1 DEF Root
<1>3. ASSUME b # Root PROVE b[Len(b)].hcc \in 0 .. Len(b) - 1 /\ Len(b) >= 1
  <2>1. Len(b) \in 1 .. Len(b)
    BY <1>1, <1>2, <1>3
  <2>2. b[Len(b)] \in Header /\ b[Len(b)].hcc < Len(b)
    BY <1>1, <2>1 DEF Blocks
  <2> QED
    BY <1>1, <2>1, <2>2 DEF Header
<1> QED
  BY <1>1, <1>2, <1>3, BlockAssumption DEF Height

(***************************************************************************)
(* Only the genesis block has height 0.                                    *)
(***************************************************************************)
LEMMA HeightZero ==
  ASSUME NEW b \in Blocks, Height(b) = 0
  PROVE  b = Root
<1>1. Len(b) \in Nat /\ ((Len(b) = 0) <=> (b = Root))
  BY BlockType
<1>2. RootHeight + Len(b) = 0
  BY DEF Height
<1>3. Len(b) = 0
  BY <1>1, <1>2, BlockAssumption
<1> QED
  BY <1>1, <1>3

(***************************************************************************)
(* The certified block a header names is a proper ancestor.                *)
(***************************************************************************)
LEMMA HccType ==
  ASSUME NEW b \in Blocks
  PROVE  /\ Hcc(b) \in Blocks
         /\ IsDescendant(Hcc(b), b)
         /\ Height(Hcc(b)) \in Nat
         /\ b # Root => Height(Hcc(b)) < Height(b)
<1>1. CASE b = Root
  BY <1>1, BlockType, DescendantPointwise DEF Hcc
<1>2. CASE b # Root
  <2>1. b[Len(b)].hcc \in 0 .. Len(b) /\ b[Len(b)].hcc < Len(b) /\ Len(b) \in Nat
    BY <1>2, BlockType
  <2>2. Hcc(b) = SubSeq(b, 1, b[Len(b)].hcc)
    BY <1>2 DEF Hcc
  <2>3. Hcc(b) \in Blocks /\ IsDescendant(Hcc(b), b) /\ Len(Hcc(b)) = b[Len(b)].hcc
    BY <2>1, <2>2, Cut
  <2> QED
    BY <2>1, <2>3, BlockType, BlockAssumption DEF Height
<1> QED
  BY <1>1, <1>2

(***************************************************************************)
(* The parent is the ancestor one height below.                            *)
(***************************************************************************)
LEMMA ParentType ==
  ASSUME NEW b \in Blocks, b # Root
  PROVE  /\ Parent(b) \in Blocks
         /\ IsDescendant(Parent(b), b)
         /\ Height(Parent(b)) = Height(b) - 1
<1>1. Len(b) - 1 \in 0 .. Len(b) /\ Len(b) \in Nat
  BY BlockType
<1> QED
  BY <1>1, Cut, BlockAssumption DEF Parent, Height

(***************************************************************************)
(* The root is a block, and its own certified block.                       *)
(***************************************************************************)
LEMMA RootType ==
  Root \in Blocks /\ Hcc(Root) = Root /\ Height(Root) = RootHeight
<1>1. Root \in Blocks /\ Len(Root) = 0
  BY DEF Root, Blocks
<1> QED
  BY <1>1, BlockAssumption DEF Hcc, Height

(***************************************************************************)
(* Ancestry is transitive.                                                 *)
(***************************************************************************)
LEMMA DescendantTransitive ==
  ASSUME NEW a \in Blocks, NEW b \in Blocks, NEW c \in Blocks,
         IsDescendant(a, b), IsDescendant(b, c)
  PROVE  IsDescendant(a, c)
  BY DescendantPointwise, BlockType

(***************************************************************************)
(* Every block descends from itself and from the root, and from nothing    *)
(* else at its own height.                                                 *)
(***************************************************************************)
LEMMA DescendantBasics ==
  ASSUME NEW a \in Blocks, NEW b \in Blocks
  PROVE  /\ IsDescendant(a, a)
         /\ Root \in Blocks
         /\ IsDescendant(Root, a)
         /\ IsDescendant(a, b) => Height(a) <= Height(b)
         /\ IsDescendant(a, b) /\ Height(a) = Height(b) => a = b
<1>1. Len(a) \in Nat /\ Len(b) \in Nat /\ a \in Seq(Header) /\ b \in Seq(Header)
  BY BlockType DEF Blocks
<1>2. IsDescendant(a, a)
  BY <1>1, DescendantPointwise
<1>3. Root \in Blocks /\ Len(Root) = 0
  BY DEF Root, Blocks
<1>4. IsDescendant(Root, a)
  BY <1>1, <1>3, DescendantPointwise
<1>5. IsDescendant(a, b) => Height(a) <= Height(b)
  BY <1>1, DescendantPointwise, BlockAssumption DEF Height
<1>6. ASSUME IsDescendant(a, b), Height(a) = Height(b) PROVE a = b
  <2>1. Len(a) = Len(b) /\ \A i \in 1 .. Len(a) : a[i] = b[i]
    BY <1>1, <1>6, DescendantPointwise, BlockAssumption DEF Height
  <2> QED
    BY <1>1, <2>1
<1> QED
  BY <1>2, <1>3, <1>4, <1>5, <1>6

(***************************************************************************)
(* A header whose certificate is for an ancestor of the block below it     *)
(* makes a block.                                                          *)
(***************************************************************************)
LEMMA AppendIsBlock ==
  ASSUME NEW b \in Blocks, NEW e \in Epochs, NEW h \in 0 .. Len(b),
         NEW p \in Payloads
  PROVE  Append(b, [epoch |-> e, hcc |-> h, payload |-> p]) \in Blocks
<1> DEFINE x == [epoch |-> e, hcc |-> h, payload |-> p]
           a == Append(b, x)
<1>1. x \in Header /\ x.hcc = h /\ b \in Seq(Header) /\ Len(b) \in Nat
  BY DEF Header, Blocks
<1> HIDE DEF x
<1>2. /\ a \in Seq(Header) /\ Len(a) = Len(b) + 1
      /\ a[Len(b) + 1] = x
      /\ \A i \in 1 .. Len(b) : a[i] = b[i]
  BY <1>1
<1> HIDE DEF a
<1>3. ASSUME NEW i \in 1 .. Len(a) PROVE a[i].hcc < i
  <2>1. CASE i = Len(b) + 1
    BY <1>1, <1>2, <2>1
  <2>2. CASE i # Len(b) + 1
    <3>1. i \in 1 .. Len(b)
      BY <1>1, <1>2, <2>2
    <3> QED
      BY <1>2, <3>1 DEF Blocks
  <2> QED
    BY <2>1, <2>2
<1>4. a \in Blocks
  BY <1>2, <1>3 DEF Blocks
<1> QED
  BY <1>4 DEF a, x

(***************************************************************************)
(* What appending a header to a block makes of it.                         *)
(***************************************************************************)
LEMMA AppendType ==
  ASSUME NEW b \in Blocks, NEW e \in Epochs, NEW h \in 0 .. Len(b),
         NEW p \in Payloads
  PROVE  LET c == Append(b, [epoch |-> e, hcc |-> h, payload |-> p])
         IN  c # Root /\ Parent(c) = b /\ Epoch(c) = e
<1> DEFINE x == [epoch |-> e, hcc |-> h, payload |-> p]
           c == Append(b, x)
<1>1. x \in Header /\ x.epoch = e /\ b \in Seq(Header) /\ Len(b) \in Nat
  BY DEF Header, Blocks
<1> HIDE DEF x
<1>2. /\ c \in Seq(Header) /\ Len(c) = Len(b) + 1
      /\ c[Len(b) + 1] = x
      /\ SubSeq(c, 1, Len(b)) = b
  BY <1>1
<1> HIDE DEF c
<1>3. c # Root
  BY <1>1, <1>2 DEF Root
<1>4. Parent(c) = b
  BY <1>1, <1>2 DEF Parent
<1>5. Epoch(c) = e
  BY <1>1, <1>2, <1>3 DEF Epoch
<1> QED
  BY <1>3, <1>4, <1>5 DEF c, x

(***************************************************************************)
(* A block other than the root is its parent and a last header.            *)
(***************************************************************************)
LEMMA LastHeader ==
  ASSUME NEW b \in Blocks, b # Root
  PROVE  /\ Epoch(b) \in Epochs
         /\ \E h \in 0 .. Len(Parent(b)), p \in Payloads :
              b = Append(Parent(b), [epoch |-> Epoch(b), hcc |-> h, payload |-> p])
<1> DEFINE x == b[Len(b)]
<1>1. /\ b \in Seq(Header) /\ Len(b) \in Nat /\ Len(b) >= 1
      /\ x.hcc \in 0 .. Len(b) - 1
  BY BlockType DEF Blocks
<1>2. x \in Header
  BY <1>1
<1>3. x = [epoch |-> x.epoch, hcc |-> x.hcc, payload |-> x.payload]
  BY <1>2 DEF Header
<1>4. Epoch(b) = x.epoch /\ x.epoch \in Epochs /\ x.payload \in Payloads
  BY <1>2 DEF Epoch, Header
<1>5. b = Append(Parent(b), x) /\ Len(Parent(b)) = Len(b) - 1
  <2> DEFINE a == Append(Parent(b), x)
  <2>1. /\ Parent(b) \in Seq(Header) /\ Len(Parent(b)) = Len(b) - 1
        /\ \A i \in 1 .. Len(b) - 1 : Parent(b)[i] = b[i]
    <3>1. \A k \in 0 .. Len(b) : /\ SubSeq(b, 1, k) \in Seq(Header)
                                 /\ Len(SubSeq(b, 1, k)) = k
                                 /\ \A i \in 1 .. k : SubSeq(b, 1, k)[i] = b[i]
      BY <1>1
    <3>2. Len(b) - 1 \in 0 .. Len(b)
      BY <1>1
    <3> QED
      BY <3>1, <3>2 DEF Parent
  <2>2. /\ a \in Seq(Header) /\ Len(a) = Len(b) /\ a[Len(b)] = x
        /\ \A i \in 1 .. Len(b) - 1 : a[i] = Parent(b)[i]
    BY <1>1, <1>2, <2>1
  <2> HIDE DEF a
  <2>3. \A i \in 1 .. Len(b) : a[i] = b[i]
    BY <1>1, <2>1, <2>2
  <2>4. a = b
    BY <1>1, <2>2, <2>3
  <2> QED
    BY <2>1, <2>4 DEF a
<1> HIDE DEF x
<1> QED
  BY <1>1, <1>3, <1>4, <1>5

(***************************************************************************)
(* The ancestors of a block are its cuts; but for the block itself they    *)
(* are cuts of its parent.                                                 *)
(***************************************************************************)
LEMMA Cuts ==
  ASSUME NEW b \in Blocks
  PROVE  /\ SubSeq(b, 1, Len(b)) = b
         /\ b # Root => \A k \in 0 .. Len(b) :
              k = Len(b) \/ /\ k \in 0 .. Len(Parent(b))
                            /\ SubSeq(b, 1, k) = SubSeq(Parent(b), 1, k)
         /\ b # Root => /\ \E k \in 0 .. Len(b) : Parent(b) = SubSeq(b, 1, k)
                        /\ \E k \in 0 .. Len(Parent(b)) :
                             Hcc(b) = SubSeq(Parent(b), 1, k)
<1>1. b \in Seq(Header) /\ Len(b) \in Nat
  BY BlockType DEF Blocks
<1>2. SubSeq(b, 1, Len(b)) = b
  BY <1>1
<1>3. ASSUME b # Root, NEW k \in 0 .. Len(b), k # Len(b)
      PROVE  k \in 0 .. Len(Parent(b)) /\ SubSeq(b, 1, k) = SubSeq(Parent(b), 1, k)
  BY <1>1, <1>3 DEF Parent
<1>4. ASSUME b # Root
      PROVE  /\ \E k \in 0 .. Len(b) : Parent(b) = SubSeq(b, 1, k)
             /\ \E k \in 0 .. Len(Parent(b)) : Hcc(b) = SubSeq(Parent(b), 1, k)
  <2>1. /\ b[Len(b)].hcc \in 0 .. Len(b) - 1 /\ Len(b) >= 1
    BY <1>4, BlockType
  <2>2. Len(b) - 1 \in 0 .. Len(b) /\ Parent(b) = SubSeq(b, 1, Len(b) - 1)
    BY <1>1, <2>1 DEF Parent
  <2>3. /\ b[Len(b)].hcc \in 0 .. Len(b) /\ b[Len(b)].hcc # Len(b)
        /\ Hcc(b) = SubSeq(b, 1, b[Len(b)].hcc)
    BY <1>1, <1>4, <2>1 DEF Hcc
  <2>4. /\ b[Len(b)].hcc \in 0 .. Len(Parent(b))
        /\ Hcc(b) = SubSeq(Parent(b), 1, b[Len(b)].hcc)
    BY <1>3, <1>4, <2>3
  <2> QED
    BY <2>2, <2>4
<1> QED
  BY <1>2, <1>3, <1>4
=============================================================================
