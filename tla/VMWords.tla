------------------------------ MODULE VMWords ------------------------------
(***************************************************************************)
(* The arithmetic of the virtual machine: the instructions of              *)
(* ledger/vm/instructions.go on words.  The code computes them with signed *)
(* integers of any size and cuts the result to 256 bits; here a word has   *)
(* WordBytes bytes of ByteBits bits.  Three words are on top of the stack, *)
(* and a step pushes the result of an instruction.                         *)
(***************************************************************************)
EXTENDS Integers, Sequences

CONSTANTS ByteBits, WordBytes

VARIABLES x, y, z    \* the top three items of the stack

vars == <<x, y, z>>

Bits == ByteBits * WordBytes
Word == 0 .. 2^Bits - 1

U256(n) == n % 2^Bits
S256(n) == IF n < 2^(Bits - 1) THEN n ELSE n - 2^Bits

Abs(n) == IF n < 0 THEN -n ELSE n
Flag(b) == IF b THEN 1 ELSE 0

-----------------------------------------------------------------------------
(* Instructions: the first operand is the top of the stack. *)

opAdd(a, b) == U256(a + b)
opSub(a, b) == U256(a - b)
opMul(a, b) == U256(a * b)
opDiv(a, b) == IF b # 0 THEN U256(a \div b) ELSE 0
opMod(a, b) == IF b = 0 THEN 0 ELSE U256(a % b)

\* mutant: the quotient is rounded down
opSdivFloor(a, b) == IF b = 0 THEN 0 ELSE U256((S256(a) * S256(b)) \div (S256(b) * S256(b)))

opSdiv(a, b) ==
  LET s == S256(a)
      t == S256(b)
  IN  IF t = 0 \/ s = 0 THEN 0
      ELSE IF (s < 0) # (t < 0) THEN U256(-(Abs(s) \div Abs(t)))
      ELSE U256(Abs(s) \div Abs(t))

opSmod(a, b) ==
  LET s == S256(a)
      t == S256(b)
  IN  IF t = 0 THEN 0
      ELSE IF s < 0 THEN U256(-(Abs(s) % Abs(t)))
      ELSE U256(Abs(s) % Abs(t))

opAddmod(a, b, c) == IF c > 0 THEN U256((a + b) % c) ELSE 0
opMulmod(a, b, c) == IF c > 0 THEN U256((a * b) % c) ELSE 0

\* Or with the complement of the mask, or and with the mask.
opSignExtend(back, n) ==
  IF back < WordBytes - 1
  THEN LET bit == back * ByteBits + ByteBits - 1
       IN  IF (n \div 2^bit) % 2 = 1 THEN U256((n % 2^bit) - 2^bit) ELSE n % 2^bit
  ELSE n

opLt(a, b) == Flag(a < b)
opGt(a, b) == Flag(a > b)

opSlt(a, b) ==
  LET half == 2^(Bits - 1)
  IN  CASE a >= half /\ b < half -> 1
        [] a < half /\ b >= half -> 0
        [] OTHER -> Flag(a < b)

opSgt(a, b) ==
  LET half == 2^(Bits - 1)
  IN  CASE a >= half /\ b < half -> 0
        [] a < half /\ b >= half -> 1
        [] OTHER -> Flag(a > b)

opIszero(a) == Flag(~(a > 0))
opNot(a) == U256(-a - 1)

\* math.Byte counts from the most significant byte.
opByte(th, val) ==
  IF th < WordBytes THEN (val \div 2^(ByteBits * (WordBytes - 1 - th))) % 2^ByteBits ELSE 0

opSHL(shift, val) == IF shift >= Bits THEN 0 ELSE U256(val * 2^shift)
opSHR(shift, val) == IF shift >= Bits THEN 0 ELSE U256(val \div 2^shift)

opSAR(shift, val) ==
  IF shift >= Bits THEN U256(IF S256(val) >= 0 THEN 0 ELSE -1)
  ELSE U256(S256(val) \div 2^shift)

-----------------------------------------------------------------------------
Init == x \in Word /\ y \in Word /\ z \in Word

Results ==
  {opAdd(x, y), opSub(x, y), opMul(x, y), opDiv(x, y), opMod(x, y), opSdiv(x, y),
   opSmod(x, y), opAddmod(x, y, z), opMulmod(x, y, z), opSignExtend(x, y), opLt(x, y),
   opGt(x, y), opSlt(x, y), opSgt(x, y), opIszero(x), opNot(x), opByte(x, y),
   opSHL(x, y), opSHR(x, y), opSAR(x, y)}

Next == \E r \in Results : x' = r /\ y' = x /\ z' = y

Spec == Init /\ [][Next]_vars

-----------------------------------------------------------------------------
(* Properties *)

\* Every instruction leaves a word.
TypeOK == Results \subseteq Word

\* SDIV and SMOD are one division: quotient times divisor plus remainder is
\* the dividend, the remainder is smaller than the divisor and has the sign of
\* the dividend, also for the smallest word divided by -1.
SignedDivisionIsExact ==
  y # 0 =>
    LET r == S256(opSmod(x, y))
    IN  /\ opAdd(opMul(opSdiv(x, y), y), opSmod(x, y)) = x
        /\ Abs(r) < Abs(S256(y))
        /\ r # 0 => (r < 0) = (S256(x) < 0)

\* SLT and SGT order words as signed numbers, and are each other's mirror.
SignedOrderIsExact ==
  /\ opSlt(x, y) = Flag(S256(x) < S256(y))
  /\ opSgt(x, y) = opSlt(y, x)

\* ADDMOD and MULMOD reduce the sum and the product themselves, not the words
\* they overflow to: reducing the operands first makes no difference.
ModularIsExact ==
  z # 0 =>
    /\ opAddmod(x, y, z) = opAddmod(opMod(x, z), opMod(y, z), z)
    /\ opMulmod(x, y, z) = opMulmod(opMod(x, z), opMod(y, z), z)
    /\ opSub(opAddmod(x, y, z), opMod(x, z)) \in {opMod(y, z), opSub(opMod(y, z), z)}

\* Extending the sign of byte x is shifting it to the top and back with the
\* sign, and an arithmetic shift is a division that rounds down.
ShiftsAreExact ==
  /\ x < WordBytes =>
       LET n == Bits - ByteBits * (x + 1)
       IN  opSignExtend(x, y) = opSAR(n, opSHL(n, y))
  /\ x < Bits - 1 =>
       opSAR(x, y) = opSdiv(opSub(y, opMod(y, 2^x)), 2^x)
  /\ x < Bits => opAdd(opSHL(x, opSHR(x, y)), y % 2^x) = y

=============================================================================
