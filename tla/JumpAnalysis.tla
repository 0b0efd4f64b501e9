---------------------------- MODULE JumpAnalysis ----------------------------
(***************************************************************************)
(* The program counter of the interpreter and the destinations it may jump *)
(* to: codeBitmap of ledger/vm/analysis.go marks the bytes that are data   *)
(* of PUSH instructions, validJumpdest of contract.go refuses a jump to    *)
(* one of them, and nested contracts share the bitmaps through a map that  *)
(* is keyed by the hash of the code.  The code that creates a contract has *)
(* no hash and keeps its bitmap to itself.                                 *)
(*                                                                         *)
(* A byte of code is JUMPDEST, JUMP, JUMPI, another one-byte operation, or *)
(* n for PUSHn; as data of a PUSH it is just a byte.  A bitmap is the set  *)
(* of its bits that are 1.                                                 *)
(***************************************************************************)
EXTENDS Integers, Sequences, FiniteSets, SequencesExt

CONSTANTS Codes,      \* codes of deployed contracts
          InitCodes,  \* codes that create contracts
          ByteBits,   \* bits of a byte of the bitmap (8)
          MaxPush     \* 32
JUMPDEST == MaxPush + 1
JUMP == MaxPush + 2
JUMPI == MaxPush + 3
SIMPLE == MaxPush + 4

NoHash == << >>

VARIABLES contracts,  \* the nested contracts: code, hash, program counter
          jumpdests,  \* the shared map: code (its hash) |-> bitmap
          panicked    \* a bitmap was written beyond its end

vars == <<contracts, jumpdests, panicked>>

-----------------------------------------------------------------------------
\* The bits that set and set8 write, and the bytes they touch.
set(pos) == [bits |-> {pos}, bytes |-> {pos \div ByteBits}]

set8(pos) ==
  LET byte == pos \div ByteBits
      end  == (byte + 1) * ByteBits
  IN  [bits  |-> (pos .. end - 1) \cup (end .. pos + ByteBits - 1),
       bytes |-> {byte, byte + 1}]

Nothing == [bits |-> {}, bytes |-> {}]
Both(a, b) == [bits |-> a.bits \cup b.bits, bytes |-> a.bytes \cup b.bytes]

Skip(pc) == pc + ByteBits

\* The n bytes of data from pc on, eight at a time and then one at a time.
Marked[n \in 0 .. MaxPush, pc \in Nat] ==
  IF n >= ByteBits THEN Both(set8(pc), Marked[n - ByteBits, Skip(pc)])
  ELSE IF n > 0 THEN Both(set(pc), Marked[n - 1, pc + 1])
  ELSE Nothing

IsPush(op) == op \in 1 .. MaxPush

\* codeBitmap from pc on.
Scan(code) ==
  LET scan[pc \in 0 .. Len(code) + MaxPush] ==
        IF pc >= Len(code) THEN Nothing
        ELSE IF IsPush(code[pc + 1])
        THEN Both(Marked[code[pc + 1], pc + 1], scan[pc + 1 + code[pc + 1]])
        ELSE scan[pc + 1]
  IN  scan[0]

codeBitmap(code) == Scan(code).bits

BitmapBytes(code) == Len(code) \div ByteBits + 1 + MaxPush \div ByteBits

OutOfBounds(code) == \E b \in Scan(code).bytes : b >= BitmapBytes(code)

-----------------------------------------------------------------------------
Contract(code, hash) == [code |-> code, hash |-> hash, pc |-> 0]

Top == Last(contracts)

\* GetOp: beyond the end there is a STOP.
Running == Top.pc < Len(Top.code)
Op == Top.code[Top.pc + 1]

Init ==
  /\ \E c \in Codes : contracts = <<Contract(c, c)>>
  /\ jumpdests = [h \in {} |-> {}]
  /\ panicked = FALSE

\* mutant: the bitmaps of codes without a hash are shared, too
SharedAlways(k) == TRUE

Shared(k) == k.hash # NoHash

Analysis(k) == IF Shared(k) /\ k.hash \in DOMAIN jumpdests
               THEN jumpdests[k.hash] ELSE codeBitmap(k.code)

validJumpdest(k, dest) ==
  /\ dest < Len(k.code)
  /\ k.code[dest + 1] = JUMPDEST
  /\ dest \notin Analysis(k)

At(pc) == contracts' = [contracts EXCEPT ![Len(contracts)].pc = pc]

Return == IF Len(contracts) = 1 THEN UNCHANGED contracts ELSE contracts' = Front(contracts)

\* A jump to dest, by JUMP or by JUMPI when its condition holds.  The bitmap
\* is made when a byte that looks like a destination is first jumped to.
Jump(dest) ==
  /\ Running /\ Op \in {JUMP, JUMPI}
  /\ IF dest < Len(Top.code) /\ Top.code[dest + 1] = JUMPDEST
     THEN /\ jumpdests' = IF Shared(Top)
                          THEN [h \in DOMAIN jumpdests \cup {Top.hash} |->
                                  IF h = Top.hash THEN Analysis(Top) ELSE jumpdests[h]]
                          ELSE jumpdests
          /\ panicked' = (panicked \/ OutOfBounds(Top.code))
     ELSE UNCHANGED <<jumpdests, panicked>>
  /\ IF validJumpdest(Top, dest) THEN At(dest) ELSE Return

\* Any other operation, a JUMPI whose condition fails included.
Step ==
  /\ Running /\ Op # JUMP
  /\ At(Top.pc + 1 + (IF IsPush(Op) THEN Op ELSE 0))
  /\ UNCHANGED <<jumpdests, panicked>>

\* A call or a creation: the nested contract shares the map.
Nest(code, hash) ==
  /\ Running /\ Op = SIMPLE
  /\ Len(contracts) = 1
  /\ contracts' = Append([contracts EXCEPT ![1].pc = @ + 1], Contract(code, hash))
  /\ UNCHANGED <<jumpdests, panicked>>

Stop ==
  /\ ~Running
  /\ Return
  /\ UNCHANGED <<jumpdests, panicked>>

Next ==
  \/ \E dest \in 0 .. Len(Top.code) : Jump(dest)
  \/ Step
  \/ \E c \in InitCodes : Nest(c, NoHash) \/ Nest(c, c)
  \/ Stop

Spec == Init /\ [][Next]_vars

-----------------------------------------------------------------------------
(* Properties *)

\* Where the instructions of a code begin, when it is read from its start.
Starts(code) ==
  LET next[pc \in 0 .. Len(code)] ==
        IF pc = Len(code) THEN {}
        ELSE {pc} \cup LET q == pc + 1 + (IF IsPush(code[pc + 1]) THEN code[pc + 1] ELSE 0)
                       IN  IF q < Len(code) THEN next[q] ELSE {}
  IN  next[0]

\* No bitmap is written beyond its end, even when the code ends with a PUSH
\* whose data is missing (the comment in codeBitmap counts on four bytes).
TypeOK == ~panicked /\ \A i \in DOMAIN contracts : contracts[i].pc \in Nat

\* The interpreter never executes a byte that is data of a PUSH: wherever the
\* jumps of nested contracts lead, the program counter of each of them is at
\* the beginning of an instruction of its own code, or beyond the end.
PcIsAtInstruction ==
  \A i \in DOMAIN contracts :
    contracts[i].pc \in Starts(contracts[i].code) \/ contracts[i].pc >= Len(contracts[i].code)

=============================================================================
