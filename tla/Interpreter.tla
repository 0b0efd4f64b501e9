---------------------------- MODULE Interpreter ----------------------------
(***************************************************************************)
(* One run of the bytecode interpreter: the loop of                        *)
(* ledger/vm/interpreter.go over the operations of jump_table.go, with the *)
(* stack checks of stack_table.go, the memory sizes of memory_table.go,    *)
(* the gas of gas_table.go, the instructions of instructions.go, and the   *)
(* integer pool of intpool.go.                                             *)
(*                                                                         *)
(* The code is any sequence of operations.  A stack item is the identity   *)
(* of its big integer, not its value: instructions overwrite integers in   *)
(* place and hand those they no longer need to a pool from which later     *)
(* ones are taken, so what matters is that an integer has one owner.       *)
(* Operands that are offsets and sizes are drawn when they are used.       *)
(***************************************************************************)
EXTENDS Integers, Sequences, FiniteSets, SequencesExt, TLC

CONSTANTS StackLimit,    \* params.StackLimit (1024)
          PoolLimit,     \* poolLimit (256)
          WordBytes,     \* bytes of a word (32)
          MaxMemory,     \* largest memory whose gas is computed (0xffffffffe0)
          Operands,      \* the offsets and sizes an operation may be given
          MemoryGas, QuadCoeffDiv,
          DataGas,       \* gas per word, or byte, of the sized operand
          BaseGas,       \* gas of the operations priced by the gas table
          GasLimit

VARIABLES status,       \* "running", or how the run ended
          stack, pool,  \* sequences of integers, the top last
          mem,          \* length of the memory in bytes
          lastGasCost,  \* Memory.lastGasCost
          gas,
          readOnly

vars == <<status, stack, pool, mem, lastGasCost, gas, readOnly>>

-----------------------------------------------------------------------------
(* The operations, jump_table.go.  An entry holds what validateStack is    *)
(* told of, the constant part of the gas, which operands size the memory   *)
(* (pairs of stack positions, the top is 0), the operand that is priced by *)
(* size (-1: none), and the flags.                                         *)

\* Sizes that are not operands.
Word == -1
Byte == -2

\* An operation is its name and, for DUP, SWAP and LOG, its number.
Ops0(names) == names \X {0}

Entry(pop, push, cost, regions, sized, flags) ==
  [pop |-> pop, push |-> push, cost |-> cost, regions |-> regions,
   sized |-> sized, flags |-> flags]

Plain(pop, push, cost) == Entry(pop, push, cost, {}, -1, {})

GasQuickStep == 2
GasFastestStep == 3
GasFastStep == 5
GasMidStep == 8
GasSlowStep == 10
GasExtStep == 20

ArithmeticTable ==
     [op \in Ops0({"STOP"}) |-> Entry(0, 0, 0, {}, -1, {"halts"})]
  @@ [op \in Ops0({"ADD", "SUB"}) |-> Plain(2, 1, GasFastestStep)]
  @@ [op \in Ops0({"MUL", "DIV", "SDIV", "MOD", "SMOD", "SIGNEXTEND"}) |-> Plain(2, 1, GasFastStep)]
  @@ [op \in Ops0({"ADDMOD", "MULMOD"}) |-> Plain(3, 1, GasMidStep)]
  @@ [op \in Ops0({"EXP"}) |-> Entry(2, 1, GasSlowStep, {}, 1, {})]

ComparisonTable ==
     [op \in Ops0({"LT", "GT", "SLT", "SGT", "EQ", "AND", "XOR", "OR", "BYTE"})
        |-> Plain(2, 1, GasFastestStep)]
  @@ [op \in Ops0({"ISZERO", "NOT"}) |-> Plain(1, 1, GasFastestStep)]

EnvironmentTable ==
     [op \in Ops0({"SHA3"}) |-> Entry(2, 1, BaseGas, {<<0, 1>>}, 1, {})]
  @@ [op \in Ops0({"ADDRESS", "ORIGIN", "CALLER", "CALLVALUE", "CALLDATASIZE", "CODESIZE",
              "GASPRICE"}) |-> Plain(0, 1, GasQuickStep)]
  @@ [op \in Ops0({"BALANCE", "EXTCODESIZE"}) |-> Plain(1, 1, BaseGas)]
  @@ [op \in Ops0({"CALLDATALOAD"}) |-> Plain(1, 1, GasFastestStep)]
  @@ [op \in Ops0({"CALLDATACOPY", "CODECOPY"}) |-> Entry(3, 0, GasFastestStep, {<<0, 2>>}, 2, {})]
  @@ [op \in Ops0({"EXTCODECOPY"}) |-> Entry(4, 0, BaseGas, {<<1, 3>>}, 3, {})]

BlockTable ==
     [op \in Ops0({"BLOCKHASH"}) |-> Plain(1, 1, GasExtStep)]
  @@ [op \in Ops0({"COINBASE", "TIMESTAMP", "NUMBER", "DIFFICULTY", "GASLIMIT", "CHAINID"})
        |-> Plain(0, 1, GasQuickStep)]
  @@ [op \in Ops0({"SELFBALANCE"}) |-> Plain(0, 1, GasFastStep)]

MemoryTable ==
     [op \in Ops0({"POP"}) |-> Plain(1, 0, GasQuickStep)]
  @@ [op \in Ops0({"MLOAD"}) |-> Entry(1, 1, GasFastestStep, {<<0, Word>>}, -1, {})]
  @@ [op \in Ops0({"MSTORE"}) |-> Entry(2, 0, GasFastestStep, {<<0, Word>>}, -1, {})]
  @@ [op \in Ops0({"MSTORE8"}) |-> Entry(2, 0, GasFastestStep, {<<0, Byte>>}, -1, {})]
  @@ [op \in Ops0({"SLOAD"}) |-> Plain(1, 1, BaseGas)]
  @@ [op \in Ops0({"SSTORE"}) |-> Entry(2, 0, BaseGas, {}, -1, {"writes"})]
  @@ [op \in Ops0({"JUMP"}) |-> Entry(1, 0, GasMidStep, {}, -1, {"jumps"})]
  @@ [op \in Ops0({"JUMPI"}) |-> Entry(2, 0, GasSlowStep, {}, -1, {"jumps"})]
  @@ [op \in Ops0({"PC", "MSIZE", "GAS"}) |-> Plain(0, 1, GasQuickStep)]
  @@ [op \in Ops0({"JUMPDEST"}) |-> Plain(0, 0, 1)]

\* PUSH1 to PUSH32 differ in the bytes they read and not in the stack.
PushTable == [op \in Ops0({"PUSH"}) |-> Plain(0, 1, GasFastestStep)]

DupTable == [op \in {"DUP"} \X (1 .. 16) |-> Plain(op[2], op[2] + 1, GasFastestStep)]

\* mutant: a swap asks for one item too few
SwapTableShort == [op \in {"SWAP"} \X (1 .. 16) |-> Plain(op[2], op[2], GasFastestStep)]

SwapTable == [op \in {"SWAP"} \X (1 .. 16) |-> Plain(op[2] + 1, op[2] + 1, GasFastestStep)]

LogTable ==
  [op \in {"LOG"} \X (0 .. 4) |->
     Entry(2 + op[2], 0, BaseGas + op[2], {<<0, 1>>}, 1, {"writes"})]

SystemTable ==
     [op \in Ops0({"CREATE"}) |-> Entry(3, 1, BaseGas, {<<1, 2>>}, -1, {"writes"})]
  @@ [op \in Ops0({"CALL", "CALLCODE"}) |-> Entry(7, 1, BaseGas, {<<3, 4>>, <<5, 6>>}, -1, {})]
  @@ [op \in Ops0({"RETURN"}) |-> Entry(2, 0, 0, {<<0, 1>>}, -1, {"halts"})]
  @@ [op \in Ops0({"SELFDESTRUCT"}) |-> Entry(1, 0, BaseGas, {}, -1, {"halts", "writes"})]

\* What the Homestead, Byzantium and Constantinople sets add.
HomesteadTable ==
  [op \in Ops0({"DELEGATECALL"}) |-> Entry(6, 1, BaseGas, {<<2, 3>>, <<4, 5>>}, -1, {})]

ByzantiumTable ==
     [op \in Ops0({"STATICCALL"}) |-> Entry(6, 1, BaseGas, {<<2, 3>>, <<4, 5>>}, -1, {})]
  @@ [op \in Ops0({"RETURNDATASIZE"}) |-> Plain(0, 1, GasQuickStep)]
  @@ [op \in Ops0({"RETURNDATACOPY"}) |-> Entry(3, 0, GasFastestStep, {<<0, 2>>}, 2, {})]
  @@ [op \in Ops0({"REVERT"}) |-> Entry(2, 0, 0, {<<0, 1>>}, -1, {"reverts"})]

ConstantinopleTable ==
     [op \in Ops0({"SHL", "SHR", "SAR"}) |-> Plain(2, 1, GasFastestStep)]
  @@ [op \in Ops0({"EXTCODEHASH"}) |-> Plain(1, 1, BaseGas)]
  @@ [op \in Ops0({"CREATE2"}) |-> Entry(4, 1, BaseGas, {<<1, 2>>}, 2, {"writes"})]

JumpTable ==
  ArithmeticTable @@ ComparisonTable @@ EnvironmentTable @@ BlockTable @@ MemoryTable
    @@ PushTable @@ DupTable @@ SwapTable @@ LogTable @@ SystemTable
    @@ HomesteadTable @@ ByzantiumTable @@ ConstantinopleTable

Ops == DOMAIN JumpTable

-----------------------------------------------------------------------------
(* The instructions, instructions.go.  An instruction pops some integers   *)
(* (or reads down to one, for DUP and SWAP), puts those at positions       *)
(* "early" and then "late" into the pool, and pushes one taken from the    *)
(* pool in between (Get), a new one (Fresh), one that it popped (its       *)
(* position), or none (Scratch: it takes one for itself and puts it        *)
(* back).  What a creation pushes depends on its outcome (Created).        *)
(* "regions" is the memory it accesses.                                    *)

None == -1
Get == -2
Fresh == -3
Scratch == -4
Swap == -5
Unsupported == -6
Created == -7

Instr(pops, result, early, late, regions) ==
  [pops |-> pops, result |-> result, early |-> early, late |-> late,
   regions |-> regions]

ArithmeticInstructions ==
     [op \in Ops0({"ADD", "SUB", "DIV", "SIGNEXTEND", "LT", "GT", "SLT", "SGT", "EQ", "OR",
              "XOR", "BYTE", "SHL", "SHR", "SAR"}) |-> Instr(2, 1, << >>, <<0>>, {})]
  @@ [op \in Ops0({"MUL", "MOD", "AND"}) |-> Instr(2, 0, << >>, <<1>>, {})]
  @@ [op \in Ops0({"SDIV", "SMOD"}) |-> Instr(2, Get, << >>, <<0, 1>>, {})]
  @@ [op \in Ops0({"EXP"}) |-> Instr(2, Fresh, << >>, <<0, 1>>, {})]
  @@ [op \in Ops0({"NOT", "ISZERO"}) |-> Instr(1, 0, << >>, << >>, {})]
  @@ [op \in Ops0({"ADDMOD", "MULMOD"}) |-> Instr(3, 0, << >>, <<1, 2>>, {})]

EnvironmentInstructions ==
     [op \in Ops0({"SHA3"}) |-> Instr(2, Get, << >>, <<0, 1>>, {<<0, 1>>})]
  @@ [op \in Ops0({"ADDRESS", "ORIGIN", "CALLER", "CHAINID", "SELFBALANCE"})
        |-> Instr(0, Fresh, << >>, << >>, {})]
  @@ [op \in Ops0({"BALANCE", "EXTCODESIZE", "EXTCODEHASH"}) |-> Instr(1, 0, << >>, << >>, {})]
  @@ [op \in Ops0({"CALLVALUE", "CALLDATASIZE", "RETURNDATASIZE", "CODESIZE", "GASPRICE",
              "TIMESTAMP", "NUMBER", "GASLIMIT"}) |-> Instr(0, Get, << >>, << >>, {})]
  @@ [op \in Ops0({"CALLDATALOAD"}) |-> Instr(1, Get, << >>, << >>, {})]
  @@ [op \in Ops0({"CALLDATACOPY", "CODECOPY"}) |-> Instr(3, None, << >>, <<0, 1, 2>>, {<<0, 2>>})]
  @@ [op \in Ops0({"RETURNDATACOPY"}) |-> Instr(3, Scratch, << >>, <<0, 1, 2>>, {<<0, 2>>})]
  @@ [op \in Ops0({"EXTCODECOPY"}) |-> Instr(4, None, << >>, <<1, 2, 3>>, {<<1, 3>>})]
  @@ [op \in Ops0({"BLOCKHASH", "COINBASE", "DIFFICULTY"}) |-> Instr(0, Unsupported, << >>, << >>, {})]

MemoryInstructions ==
     [op \in Ops0({"POP"}) |-> Instr(1, None, << >>, <<0>>, {})]
  @@ [op \in Ops0({"MLOAD"}) |-> Instr(1, Get, << >>, <<0>>, {<<0, Word>>})]
  @@ [op \in Ops0({"MSTORE"}) |-> Instr(2, None, << >>, <<0, 1>>, {<<0, Word>>})]
  @@ [op \in Ops0({"MSTORE8"}) |-> Instr(2, None, << >>, << >>, {<<0, Byte>>})]
  @@ [op \in Ops0({"SLOAD"}) |-> Instr(1, 0, << >>, << >>, {})]
  @@ [op \in Ops0({"SSTORE"}) |-> Instr(2, None, << >>, <<1>>, {})]
  @@ [op \in Ops0({"JUMP"}) |-> Instr(1, None, << >>, <<0>>, {})]
  @@ [op \in Ops0({"JUMPI"}) |-> Instr(2, None, << >>, <<0, 1>>, {})]
  @@ [op \in Ops0({"PC", "MSIZE", "GAS"}) |-> Instr(0, Get, << >>, << >>, {})]
  @@ [op \in Ops0({"STOP", "JUMPDEST"}) |-> Instr(0, None, << >>, << >>, {})]

\* args at operands 3 and 4, ret at operands 5 and 6
CallRegions == {<<3, 4>>, <<5, 6>>}

\* mutant: the value that is handed back is pushed
CreateResultReused(ok) == 0

\* The new address, or a zero from the pool when the creation has failed.
CreateResult(ok) == IF ok THEN Fresh ELSE Get

CallInstructions ==
     [op \in Ops0({"CREATE"}) |-> Instr(3, Created, << >>, <<0, 1, 2>>, {<<1, 2>>})]
  @@ [op \in Ops0({"CREATE2"}) |-> Instr(4, Created, << >>, <<0, 1, 2, 3>>, {<<1, 2>>})]
  @@ [op \in Ops0({"CALL", "CALLCODE"}) |->
        Instr(7, Get, <<0>>, <<1, 2, 3, 4, 5, 6>>, CallRegions)]
  @@ [op \in Ops0({"DELEGATECALL", "STATICCALL"}) |->
        Instr(6, Get, <<0>>, <<1, 2, 3, 4, 5>>, {<<2, 3>>, <<4, 5>>})]

EndInstructions ==
     [op \in Ops0({"RETURN", "REVERT"}) |-> Instr(2, None, << >>, <<0, 1>>, {<<0, 1>>})]
  @@ [op \in Ops0({"SELFDESTRUCT"}) |-> Instr(1, None, << >>, << >>, {})]

\* The instructions that makeLog, makePush, makeDup and makeSwap make.
MadeInstructions ==
     [op \in {"LOG"} \X (0 .. 4) |-> Instr(2 + op[2], None, << >>, <<0, 1>>, {<<0, 1>>})]
  @@ [op \in Ops0({"PUSH"}) |-> Instr(0, Get, << >>, << >>, {})]
  @@ [op \in {"DUP"} \X (1 .. 16) |-> Instr(0, Get, << >>, << >>, {})]
  @@ [op \in {"SWAP"} \X (1 .. 16) |-> Instr(0, Swap, << >>, << >>, {})]

Execute ==
  ArithmeticInstructions @@ EnvironmentInstructions @@ MemoryInstructions
    @@ CallInstructions @@ EndInstructions @@ MadeInstructions

-----------------------------------------------------------------------------
(* Memory and gas *)

toWordSize(size) == (size + WordBytes - 1) \div WordBytes

\* The positions of the operands that address memory or are priced by size,
\* and their values.
Positions(op) ==
  ({JumpTable[op].sized}
     \cup UNION {{r[1], r[2]} : r \in JumpTable[op].regions \cup Execute[op].regions})
    \ {None, Word, Byte}

Args == [op \in Ops |-> [Positions(op) -> Operands]]

SizeOf(r, arg) ==
  CASE r[2] = Word -> WordBytes [] r[2] = Byte -> 1 [] OTHER -> arg[r[2]]

calcMemSize(r, arg) == IF SizeOf(r, arg) = 0 THEN 0 ELSE arg[r[1]] + SizeOf(r, arg)

MaxOf(S) == CHOOSE n \in S : \A m \in S : m <= n

MinOf(S) == CHOOSE n \in S : \A m \in S : n <= m

Extent(regions, arg) == MaxOf({0} \cup {calcMemSize(r, arg) : r \in regions})

\* The size that memorySize asks for, in whole words.
memorySize ==
  [op \in Ops |-> [arg \in Args[op] |->
     toWordSize(Extent(JumpTable[op].regions, arg)) * WordBytes]]

\* The memory that the execution accesses.
Accessed == [op \in Ops |-> [arg \in Args[op] |-> Extent(Execute[op].regions, arg)]]

Fee(size) ==
  LET words == toWordSize(size)
  IN  words * MemoryGas + (words * words) \div QuadCoeffDiv

\* memoryGasCost: the fee for the memory gained.
memoryGasCost(size) == IF size > mem THEN Fee(size) - lastGasCost ELSE 0

NewGasCost(size) == IF size > mem THEN Fee(size) ELSE lastGasCost

\* The bytes of a number: (BitLen + 7) / 8.
byteLen(n) == MinOf({k \in 0 .. WordBytes : n < 256 ^ k})

\* Data is priced by the word, a log by the byte, and an exponent by its own
\* bytes.
Units(op, n) ==
  CASE op[1] = "LOG" -> n [] op[1] = "EXP" -> byteLen(n) [] OTHER -> toWordSize(n)

sizeGas(op, arg) ==
  LET at == JumpTable[op].sized
  IN  IF at = None THEN 0 ELSE Units(op, arg[at]) * DataGas

gasCost(op, size, arg) ==
  JumpTable[op].cost + memoryGasCost(size) + sizeGas(op, arg)

-----------------------------------------------------------------------------
(* The integers.  Their names do not matter: after every step they are     *)
(* numbered in the order in which the stack and then the pool hold them.   *)

Numbered(st, po) ==
  LET all   == st \o po
      Of(x) == Cardinality(ToSet(SubSeq(all, 1, SelectInSeq(all, LAMBDA y : y = x))))
  IN  IF Cardinality(ToSet(all)) = Len(all)
      THEN <<[i \in DOMAIN st |-> i], [i \in DOMAIN po |-> Len(st) + i]>>
      ELSE <<[i \in DOMAIN st |-> Of(st[i])], [i \in DOMAIN po |-> Of(po[i])]>>

Back(st, n) == st[Len(st) - n]

Dropped(st, n) == SubSeq(st, 1, Len(st) - n)

\* intPool.put of several integers: all or none.
Put(po, xs) == IF Len(po) > PoolLimit THEN po ELSE po \o xs

PutAt(po, st, at) == Put(po, [i \in DOMAIN at |-> Back(st, at[i])])

New(st, po) == MaxOf({0} \cup ToSet(st) \cup ToSet(po)) + 1

\* The stack and the pool after an instruction; ok: it creates what it should.
Effect(op, ok) ==
  LET in    == IF Execute[op].result = Created
               THEN [Execute[op] EXCEPT !.result = CreateResult(ok)] ELSE Execute[op]
      pool1 == PutAt(pool, stack, in.early)
      takes == in.result \in {Get, Scratch} /\ pool1 # << >>
      item  == CASE takes -> <<Last(pool1)>>
                 [] ~takes /\ in.result \in {Get, Scratch, Fresh} -> <<New(stack, pool1)>>
                 [] in.result \in 0 .. in.pops - 1 -> <<Back(stack, in.result)>>
                 [] OTHER -> << >>
      pool2 == PutAt(IF takes THEN Front(pool1) ELSE pool1, stack, in.late)
  IN  CASE in.result = Swap ->
             Numbered([stack EXCEPT ![Len(stack) - op[2]] = Back(stack, 0),
                                    ![Len(stack)] = Back(stack, op[2])], pool)
        [] in.result = Scratch ->
             Numbered(Dropped(stack, in.pops),
                      IF Len(pool2) > Len(pool1) THEN pool2 \o item ELSE pool2)
        [] OTHER -> Numbered(Dropped(stack, in.pops) \o item, pool2)

-----------------------------------------------------------------------------
Init ==
  /\ status = "running"
  /\ stack = << >>
  /\ pool = << >>
  /\ mem = 0
  /\ lastGasCost = 0
  /\ gas = GasLimit
  /\ readOnly \in BOOLEAN

\* Run returns: the integers left on the stack go to the pool.
Return(how, st, po) ==
  /\ status' = how
  /\ stack' = << >>
  /\ pool' = Numbered(<< >>, Put(po, st))[2]
  /\ UNCHANGED <<mem, lastGasCost, gas, readOnly>>

\* makeStackFunc of stack_table.go
Valid(e) == Len(stack) >= e.pop /\ Len(stack) + e.push - e.pop <= StackLimit

enforceRestrictions(op, e, value) ==
  readOnly /\ ("writes" \in e.flags \/ (op[1] = "CALL" /\ value # 0))

\* The items an operation looks at or takes, in its gas and memory functions
\* and in its execution.
Reach ==
  [op \in Ops |->
     MaxOf({CASE op[1] = "DUP" -> op[2] [] op[1] = "SWAP" -> op[2] + 1
              [] OTHER -> Execute[op].pops}
           \cup {JumpTable[op].sized + 1}
           \cup {r[1] + 1 : r \in JumpTable[op].regions \cup Execute[op].regions})]

Ended(e) == IF "reverts" \in e.flags THEN "reverted"
            ELSE IF "halts" \in e.flags THEN "halted" ELSE "running"

\* The instructions whose execution may fail: a jump to a place that is no
\* destination, and a copy from beyond the return data.
MayFail(op) == op[1] \in {"JUMP", "JUMPI", "RETURNDATACOPY"}

Fails(op, ok) == Execute[op].result = Unsupported \/ (MayFail(op) /\ ~ok)

HasOutcomes(op) == MayFail(op) \/ Execute[op].result = Created

\* One turn of the loop of Run.
Step(op, arg, value, ok) ==
  LET e    == JumpTable[op]
      size == memorySize[op][arg]
      cost == gasCost(op, size, arg)
  IN  /\ status = "running"
      /\ IF ~Valid(e) \/ enforceRestrictions(op, e, value)
              \/ size > MaxMemory \/ gas < cost
         THEN Return("error", stack, pool)
         ELSE IF Fails(op, ok)
         THEN Return("error", Dropped(stack, Execute[op].pops),
                     IF op[1] = "RETURNDATACOPY" THEN Effect(op, ok)[2] ELSE pool)
         ELSE \E next \in {Effect(op, ok)} :
                IF Ended(e) # "running" THEN Return(Ended(e), next[1], next[2])
                ELSE /\ gas' = gas - cost
                     /\ mem' = MaxOf({mem, size})
                     /\ lastGasCost' = NewGasCost(size)
                     /\ stack' = next[1]
                     /\ pool' = next[2]
                     /\ UNCHANGED <<status, readOnly>>

\* An EVM for the next transaction takes the pool over (poolOfIntPools).
Run ==
  /\ status # "running"
  /\ status' = "running"
  /\ mem' = 0
  /\ lastGasCost' = 0
  /\ gas' = GasLimit
  /\ readOnly' \in BOOLEAN
  /\ UNCHANGED <<stack, pool>>

Next ==
  \/ \E op \in Ops :
       \E arg \in Args[op], value \in IF op[1] = "CALL" THEN {0, 1} ELSE {0},
          ok \in {TRUE, ~HasOutcomes(op)} : Step(op, arg, value, ok)
  \/ Run

Spec == Init /\ [][Next]_vars

-----------------------------------------------------------------------------
(* Properties *)

\* The stack stays within its limit and gas is not overdrawn.
TypeOK ==
  /\ status \in {"running", "halted", "reverted", "error"}
  /\ Len(stack) <= StackLimit
  /\ mem \in 0 .. MaxMemory /\ mem % WordBytes = 0
  /\ gas \in 0 .. GasLimit
  /\ readOnly \in BOOLEAN

\* validateStack is told the truth: when it lets an operation pass, its gas
\* and memory functions and its execution find every item they read or pop.
StackIsDeepEnough ==
  \A op \in Ops : Valid(JumpTable[op]) => Len(stack) >= Reach[op]

\* No big integer is in two places: one that an instruction has handed to the
\* pool is not on the stack any more, and is not in the pool twice, so no
\* instruction overwrites an item that it does not own.
IntegersHaveOneOwner == Cardinality(ToSet(stack \o pool)) = Len(stack) + Len(pool)

\* Memory is resized before it is used: what an operation reads or writes is
\* within the size that its memory function has asked for (Memory.Set panics
\* otherwise).
MemoryIsLargeEnough ==
  \A op \in Ops : \A arg \in Args[op] :
    Accessed[op][arg] <= MaxOf({mem, memorySize[op][arg]})

\* Memory is paid for once: the fee for all of it, and not more, has been
\* charged, however it grew.
MemoryIsPaid ==
  status = "running" => lastGasCost = Fee(mem) /\ Fee(mem) <= GasLimit - gas

=============================================================================
