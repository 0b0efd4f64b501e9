-------------------------------- MODULE MCVM --------------------------------
(***************************************************************************)
(* The virtual machine, for TLC: the nested calls of a transaction, the    *)
(* steps of the interpreter, the arithmetic of words and the analysis of   *)
(* jump targets.  Each of the parts is checked by itself: "part" says      *)
(* which one a behavior is about, the variables of the others are 0 in it. *)
(***************************************************************************)
EXTENDS Interpreter, TLC

CONSTANTS o, c, nobody   \* addresses

VARIABLES
  part,
  phase, world, frames, static, logs, changes, kept, fails, outcome,
  x, y, z,
  contracts, jumpdests, panicked

callVars == <<phase, world, frames, static, logs, changes, kept, fails, outcome>>
wordVars == <<x, y, z>>
jumpVars == <<contracts, jumpdests, panicked>>

-----------------------------------------------------------------------------
(***************************************************************************)
(* The sender o and the contract c have one coin each; nobody has no       *)
(* account.  A call may ask for some or for all of the gas.  Five units of *)
(* gas are left to run; the data of a transaction may cost it too much.    *)
(***************************************************************************)
Calls == INSTANCE EVM WITH
  Origin <- o, Contracts <- {c}, Absent <- {nobody}, Balance <- o :> 1 @@ c :> 1,
  GasLimit <- 7, MaxGasLimit <- 7, DataCosts <- {0, 7}, TxGas <- 2, TxGasContractCreation <- 2,
  Values <- {0, 1}, Requests <- {1, 4}, CallCreateDepth <- 2, GasDivisor <- 4, CallGas <- 1,
  ValueGas <- 3, NewAccountGas <- 1, Stipend <- 2, CreateGas <- 2, CodeGas <- 1, MaxNonce <- 2,
  readOnly <- static, result <- outcome

(***************************************************************************)
(* All words of four bits.                                                 *)
(***************************************************************************)
Words == INSTANCE VMWords WITH ByteBits <- 2, WordBytes <- 2

(***************************************************************************)
(* All codes of up to five bytes, with pushes of one, of three and of four *)
(* (the longest, which may be the last byte of a code), the jump target 5, *)
(* the jump 6, the conditional jump 7, and 8 for the rest.                 *)
(***************************************************************************)
JumpCodes == UNION {[1 .. len -> {1, 3, 4, 5, 6, 8}] : len \in 1 .. 5}

Jumps == INSTANCE JumpAnalysis WITH
  Codes <- JumpCodes, InitCodes <- {<<8, 5, 6>>, <<1, 5, 6>>, <<5, 7, 3>>}, ByteBits <- 2, MaxPush <- 4

-----------------------------------------------------------------------------
NoCalls ==
  /\ phase = 0 /\ world = 0 /\ frames = 0 /\ static = 0 /\ logs = 0 /\ changes = 0
  /\ kept = 0 /\ fails = 0 /\ outcome = 0

NoInterpreter ==
  /\ status = 0 /\ stack = 0 /\ pool = 0 /\ mem = 0 /\ lastGasCost = 0 /\ gas = 0 /\ readOnly = 0

NoWords == x = 0 /\ y = 0 /\ z = 0

NoJumps == contracts = 0 /\ jumpdests = 0 /\ panicked = 0

MCInit ==
  \/ part = "calls" /\ Calls!Init /\ NoInterpreter /\ NoWords /\ NoJumps
  \/ part = "interpreter" /\ Init /\ NoCalls /\ NoWords /\ NoJumps
  \/ part = "words" /\ Words!Init /\ NoCalls /\ NoInterpreter /\ NoJumps
  \/ part = "jumps" /\ Jumps!Init /\ NoCalls /\ NoInterpreter /\ NoWords

MCNext ==
  \/ part = "calls" /\ Calls!Next /\ UNCHANGED <<part, vars, wordVars, jumpVars>>
  \/ part = "interpreter" /\ Next /\ UNCHANGED <<part, callVars, wordVars, jumpVars>>
  \/ part = "words" /\ Words!Next /\ UNCHANGED <<part, callVars, vars, jumpVars>>
  \/ part = "jumps" /\ Jumps!Next /\ UNCHANGED <<part, callVars, vars, wordVars>>

MCSpec == MCInit /\ [][MCNext]_<<part, callVars, vars, wordVars, jumpVars>>

-----------------------------------------------------------------------------
(***************************************************************************)
(* The types of the part that moves.                                       *)
(***************************************************************************)
MCTypeOK ==
  CASE part = "calls" -> Calls!TypeOK
    [] part = "interpreter" -> TypeOK
    [] part = "words" -> Words!TypeOK
    [] part = "jumps" -> Jumps!TypeOK

(***************************************************************************)
(* Nothing is made of nothing: what all the frames hold of gas, stipends   *)
(* included, and at the end what is left over, is within the limit the     *)
(* sender pays for (exec.go: "leftOverGas > gasLimit // should not         *)
(* happen"); and no call, creation or failure, at any depth, makes TFuel.  *)
(* Only a contract that leaves its balance to itself destroys some.        *)
(***************************************************************************)
NothingIsMade == part = "calls" => Calls!GasIsWithinLimit /\ Calls!CoinsAreNotMade

(***************************************************************************)
(* Whatever the frames below a static call do, with whatever kind of       *)
(* nested call, the accounts are those of the moment the static call       *)
(* began.                                                                  *)
(***************************************************************************)
StaticCallsDoNotWrite == part = "calls" => Calls!StaticCallsDoNotWrite

(***************************************************************************)
(* A transaction that fails changes nothing but the nonce that create      *)
(* spends, a nested call that fails leaves nothing moved, whatever it has  *)
(* called and whether or not the transaction succeeds, and the receipt of  *)
(* a transaction in which no nested call has failed tells what it did: its *)
(* balance changes lead from the balances before to those after, and its   *)
(* logs are those written.  (Of a nested call that fails both stay in the  *)
(* receipt: RevertToSnapshot leaves the lists alone.)                      *)
(***************************************************************************)
OutcomeIsTold ==
  part = "calls" =>
    /\ Calls!FailureLeavesNoTrace
    /\ Calls!FailedCallsMoveNothing
    /\ Calls!ReceiptTells

(***************************************************************************)
(* No big integer is in two places: one that an instruction has handed to  *)
(* the pool is not on the stack any more, and is not in the pool twice, so *)
(* no instruction overwrites an item that it does not own.                 *)
(***************************************************************************)
MCIntegersHaveOneOwner == part = "interpreter" => IntegersHaveOneOwner

(***************************************************************************)
(* When validateStack lets an operation pass, its gas and memory functions *)
(* and its execution find every item they read or pop; what it reads or    *)
(* writes of the memory is within the size that its memory function has    *)
(* asked for (Memory.Set panics otherwise); and the fee for all of the     *)
(* memory, and not more, has been charged, however it grew.                *)
(***************************************************************************)
MCAccessesAreCovered ==
  part = "interpreter" => StackIsDeepEnough /\ MemoryIsLargeEnough /\ MemoryIsPaid

(***************************************************************************)
(* SDIV and SMOD are one division, also for the smallest word divided by   *)
(* -1; SLT and SGT order words as signed numbers and are each other's      *)
(* mirror; ADDMOD and MULMOD reduce the sum and the product themselves,    *)
(* not the words they overflow to; extending the sign of byte x is         *)
(* shifting it to the top and back with the sign, and an arithmetic shift  *)
(* is a division that rounds down.                                         *)
(***************************************************************************)
ArithmeticIsExact ==
  part = "words" =>
    /\ Words!SignedDivisionIsExact /\ Words!SignedOrderIsExact
    /\ Words!ModularIsExact /\ Words!ShiftsAreExact

\* The interpreter never executes a byte that is data of a PUSH: wherever the
\* jumps of nested contracts lead, the program counter of each of them is at
\* the beginning of an instruction of its own code, or beyond the end.
PcIsAtInstruction == part = "jumps" => Jumps!PcIsAtInstruction
=============================================================================
