-------------------------------- MODULE EVM --------------------------------
(***************************************************************************)
(* The execution of one smart contract transaction by the virtual machine: *)
(* ledger/vm/exec.go (Execute), vm.go (Call, CallCode, DelegateCall,       *)
(* StaticCall, create), the call instructions of instructions.go, the      *)
(* read-only flag, depth and errors of interpreter.go, and the StateDB     *)
(* that ledger/state/storeview.go implements (accounts, snapshots, logs,   *)
(* balance changes).                                                       *)
(*                                                                         *)
(* A running contract is a frame, and the code of a frame is any sequence  *)
(* of instructions: each step the running (last) frame executes one.       *)
(* Instructions that touch neither the state nor another frame cost gas    *)
(* and nothing else, and are one action (Compute).  The precompiled        *)
(* contracts and CREATE2 are not in this module.                           *)
(***************************************************************************)
EXTENDS Integers, Sequences, FiniteSets, FiniteSetsExt, SequencesExt

CONSTANTS Origin,           \* the sender of the transaction, without code
          Contracts,        \* contracts that exist when it starts
          Absent,           \* addresses without an account
          Balance,          \* [{Origin} \cup Contracts -> Nat]
          GasLimit,
          MaxGasLimit,      \* types.GetMaxGasLimit
          DataCosts,        \* what the data of a transaction may cost
          Values,           \* amounts a call may carry
          Requests,         \* gas an instruction may ask for a call
          CallCreateDepth,  \* params.CallCreateDepth (1024)
          GasDivisor,       \* a caller keeps 1/64 of its gas
          TxGas, TxGasContractCreation,
          CallGas, ValueGas, NewAccountGas, Stipend, CreateGas, CodeGas,
          MaxNonce          \* bound on the contracts one account creates

VARIABLES phase,     \* "idle", "running" or "done"
          world,     \* the accounts of the store view: address |-> account
          frames,    \* the nested calls, the running one last
          readOnly,  \* EVMInterpreter.readOnly
          logs,      \* number of logs in the StateDB
          changes,   \* its balance changes, summed up per address
          kept,      \* the logs and changes of calls that have not failed
          fails,     \* a nested call has failed
          result     \* [err, left] of the transaction

vars == <<phase, world, frames, readOnly, logs, changes, kept, fails, result>>

-----------------------------------------------------------------------------
(* The StateDB *)

Account(bal, seq, code, slot) ==
  [bal |-> bal, seq |-> seq, code |-> code, slot |-> slot]

Exist(w, a) == a \in DOMAIN w

NewAccount == Account(0, 0, "empty", 0)

\* read only, in spite of its name: the new account is not stored
GetOrCreateAccount(w, a) == IF Exist(w, a) THEN w[a] ELSE NewAccount

SetAccount(w, a, acc) == [x \in DOMAIN w \cup {a} |-> IF x = a THEN acc ELSE w[x]]

GetCode(w, a) == GetOrCreateAccount(w, a).code

HasCode(w, a) == GetCode(w, a) = "code"

Empty(w, a) ==
  LET acc == GetOrCreateAccount(w, a)
  IN  acc.seq = 0 /\ acc.code = "empty" /\ acc.bal = 0

CreateAccountWithPreviousBalance(w, a) ==
  SetAccount(w, a, Account(GetOrCreateAccount(w, a).bal, 0, "empty", 0))

AddBalance(w, a, n) ==
  IF n = 0 THEN w
  ELSE SetAccount(w, a, [GetOrCreateAccount(w, a) EXCEPT !.bal = @ + n])

CanTransfer(w, a, n) == GetOrCreateAccount(w, a).bal >= n

Transfer(w, from, to, n) == AddBalance(AddBalance(w, from, -n), to, n)

AddChange(ch, a, n) == [x \in DOMAIN ch \cup {a} |->
                          (IF x \in DOMAIN ch THEN ch[x] ELSE 0)
                            + (IF x = a THEN n ELSE 0)]

TransferChange(ch, from, to, n) ==
  IF n = 0 THEN ch ELSE AddChange(AddChange(ch, from, -n), to, n)

-----------------------------------------------------------------------------
(* Frames *)

Frame(kind, self, caller, gas, w, sets) ==
  [kind |-> kind, self |-> self, caller |-> caller, gas |-> gas,
   snapshot |-> w, sets |-> sets, kept |-> kept]

Top == Last(frames)

depth == Len(frames)

Init ==
  /\ phase = "idle"
  /\ world = [a \in {Origin} \cup Contracts |->
                Account(Balance[a], 0, IF a = Origin THEN "empty" ELSE "code", 0)]
  /\ frames = << >>
  /\ readOnly = FALSE
  /\ logs = 0
  /\ changes = << >>
  /\ kept = [logs |-> 0, changes |-> << >>]
  /\ fails = FALSE
  /\ result = [err |-> "ok", left |-> 0]

\* fs is the stack of frames after a call that ends with gas left over.
PassUp(fs, left) ==
  IF fs = << >> THEN fs ELSE [fs EXCEPT ![Len(fs)].gas = @ + left]

\* The transaction ends when its outermost call does.
End(fs, err, left) ==
  IF fs = << >> THEN phase' = "done" /\ result' = [err |-> err, left |-> left]
                ELSE UNCHANGED <<phase, result>>

\* A call returns to the frames fs: it never ran, or it had no code.
Answer(fs, err, left) ==
  /\ frames' = PassUp(fs, left)
  /\ End(fs, err, left)

-----------------------------------------------------------------------------
(* Call, CallCode, DelegateCall and StaticCall of vm.go, made by account   *)
(* self on behalf of caller, when fs are the frames that stay.             *)

TooDeep == depth > CallCreateDepth

\* mutant: the balance of the caller is not looked at
RefusedByDepth(kind, self, value) == TooDeep

Refused(kind, self, value) ==
  \/ TooDeep
  \/ kind \in {"call", "callcode"} /\ ~CanTransfer(world, self, value)

\* mutant: the flag is cleared by the innermost static call
SetsAlways(kind) == kind = "static"

SetsReadOnly(kind) == kind = "static" /\ ~readOnly

\* What a failing call goes back to: the state before the transfer.
Snapshot(before, after) == before

\* mutant: only the outermost call goes back to its snapshot
RevertedOutermost(fs) == IF fs = << >> THEN Top.snapshot ELSE world

\* The accounts after the running frame has failed, when the frames fs stay.
Reverted(fs) == Top.snapshot

\* The balance changes of an instruction that does not fail (so far).
Change(Changed(_)) ==
  /\ changes' = Changed(changes)
  /\ kept' = [kept EXCEPT !.changes = Changed(@)]

\* The account whose state a call of this kind works on.
Self(kind, self, to) == IF kind \in {"call", "static"} THEN to ELSE self

Call(fs, kind, self, caller, to, value, gas) ==
  LET moved  == kind = "call"
      absent == moved /\ ~Exist(world, to)
      made   == IF absent THEN CreateAccountWithPreviousBalance(world, to) ELSE world
      paid   == IF moved THEN Transfer(made, self, to, value) ELSE made
  IN  IF Refused(kind, self, value) THEN
        /\ Answer(fs, "error", gas)
        /\ UNCHANGED <<world, readOnly, logs, changes, kept, fails>>
      ELSE IF absent /\ value = 0 THEN
        /\ Answer(fs, "ok", gas)
        /\ UNCHANGED <<world, readOnly, logs, changes, kept, fails>>
      ELSE
        /\ world' = paid
        /\ Change(LAMBDA ch : IF moved THEN TransferChange(ch, self, to, value) ELSE ch)
        /\ IF HasCode(paid, to)
           THEN /\ frames' = Append(fs, Frame(kind, Self(kind, self, to),
                                              IF kind = "delegate" THEN caller ELSE self,
                                              gas, Snapshot(world, paid), SetsReadOnly(kind)))
                /\ readOnly' = (readOnly \/ kind = "static")
                /\ phase' = "running"
                /\ UNCHANGED result
           ELSE Answer(fs, "ok", gas) /\ UNCHANGED readOnly
        /\ UNCHANGED <<logs, fails>>

\* create of vm.go: the nonce of the creator is spent whatever follows.
CreateAddress(w, a) == <<a, GetOrCreateAccount(w, a).seq>>

SpendNonce(w, a) == SetAccount(w, a, [GetOrCreateAccount(w, a) EXCEPT !.seq = @ + 1])

Collides(w, a) == GetOrCreateAccount(w, a).seq # 0 \/ GetCode(w, a) # "empty"

Create(fs, self, value, gas) ==
  LET addr  == CreateAddress(world, self)
      spent == SpendNonce(world, self)
      made  == Transfer(CreateAccountWithPreviousBalance(spent, addr), self, addr, value)
  IN  IF TooDeep \/ ~CanTransfer(world, self, value) THEN
        /\ Answer(fs, "error", gas)
        /\ UNCHANGED <<world, readOnly, logs, changes, kept, fails>>
      ELSE IF Collides(spent, addr) THEN
        /\ Answer(fs, "error", 0)
        /\ world' = spent
        /\ UNCHANGED <<readOnly, logs, changes, kept, fails>>
      ELSE
        /\ world' = made
        /\ Change(LAMBDA ch : TransferChange(ch, self, addr, value))
        /\ frames' = Append(fs, Frame("create", addr, self, gas, spent, FALSE))
        /\ phase' = "running"
        /\ UNCHANGED <<readOnly, logs, fails, result>>

-----------------------------------------------------------------------------
(* Execute of exec.go: the transaction calls a contract or creates one,    *)
(* with the gas that its intrinsic gas leaves.                             *)

\* Execute returns no gas used: the result tells that all of it is left.
RefuseTx ==
  /\ phase' = "done"
  /\ result' = [err |-> "error", left |-> GasLimit]
  /\ UNCHANGED <<world, frames, readOnly, logs, changes, kept, fails>>

CalculateIntrinsicGas(data, create) ==
  data + (IF create THEN TxGasContractCreation ELSE TxGas)

ExecuteCall(to, value, data) ==
  LET intrinsic == CalculateIntrinsicGas(data, FALSE)
  IN  /\ phase = "idle"
      /\ IF GasLimit > MaxGasLimit \/ intrinsic > GasLimit THEN RefuseTx
         ELSE Call(<< >>, "call", Origin, Origin, to, value, GasLimit - intrinsic)

ExecuteCreate(value, data) ==
  LET intrinsic == CalculateIntrinsicGas(data, TRUE)
  IN  /\ phase = "idle"
      /\ IF GasLimit > MaxGasLimit \/ intrinsic > GasLimit THEN RefuseTx
         ELSE Create(<< >>, Origin, value, GasLimit - intrinsic)

\* The running frame fails.  An error takes all of its gas, a revert none.
\* The accounts are as they were; logs and balance changes are not.
Leave(err) ==
  LET fs == Front(frames)
  IN  /\ Answer(fs, err, IF err = "error" THEN 0 ELSE Top.gas)
      /\ world' = Reverted(fs)
      /\ readOnly' = (readOnly /\ ~Top.sets)
      /\ kept' = Top.kept
      /\ fails' = (fails \/ fs # << >>)
      /\ UNCHANGED <<logs, changes>>

Fail == Leave("error")

\* The frames after the running one has paid for an instruction.
Paid(cost) == [frames EXCEPT ![Len(frames)].gas = @ - cost]

\* An instruction that costs "cost" and may write to the state.
Instruction(cost, writes, Effect) ==
  /\ phase = "running"
  /\ IF (writes /\ readOnly) \/ Top.gas < cost THEN Fail ELSE Effect

-----------------------------------------------------------------------------
(* The instructions *)

Compute ==
  Instruction(1, FALSE,
    /\ frames' = Paid(1)
    /\ UNCHANGED <<phase, world, readOnly, logs, changes, kept, fails, result>>)

opSstore(v) ==
  Instruction(1, TRUE,
    /\ frames' = Paid(1)
    /\ world' = SetAccount(world, Top.self,
                           [GetOrCreateAccount(world, Top.self) EXCEPT !.slot = v])
    /\ UNCHANGED <<phase, readOnly, logs, changes, kept, fails, result>>)

makeLog ==
  Instruction(1, TRUE,
    /\ frames' = Paid(1)
    /\ logs' = logs + 1
    /\ kept' = [kept EXCEPT !.logs = @ + 1]
    /\ UNCHANGED <<phase, world, readOnly, changes, fails, result>>)

gasCallCode(value) == CallGas + (IF value # 0 THEN ValueGas ELSE 0)

\* mutant: the caller does not pay for the value it sends
gasCallWithoutValue(to, value) == CallGas

gasCall(to, value) ==
  gasCallCode(value)
    + (IF value # 0 /\ Empty(world, to) THEN NewAccountGas ELSE 0)

gasDelegateCall == CallGas

\* callGas of gas.go: what was asked for, or all but a 64th of what is left.
callGas(available, asked) ==
  LET most == available - available \div GasDivisor
  IN  IF most < asked THEN most ELSE asked

opCall(kind, to, value, asked) ==
  LET base == CASE kind = "call" -> gasCall(to, value)
                [] kind = "callcode" -> gasCallCode(value)
                [] OTHER -> gasDelegateCall
      temp == callGas(Top.gas - base, asked)
  IN  Instruction(base, kind = "call" /\ value # 0,
        Call(Paid(base + temp), kind, Top.self, Top.caller, to, value,
             temp + (IF value # 0 THEN Stipend ELSE 0)))

opCreate(value) ==
  LET left == Top.gas - CreateGas
      gas  == left - left \div GasDivisor
  IN  Instruction(CreateGas, TRUE,
        Create(Paid(CreateGas + gas), Top.self, value, gas))

\* The world w when the running frame ends well and returns ret: what the
\* code of a create returns becomes the code of the contract.
Returned(w, ret) ==
  IF Top.kind # "create" THEN w
  ELSE SetAccount(w, Top.self, [GetOrCreateAccount(w, Top.self) EXCEPT !.code = ret])

Halt(cost, w) ==
  /\ Answer(Front(frames), "ok", Top.gas - cost)
  /\ world' = w
  /\ readOnly' = (readOnly /\ ~Top.sets)
  /\ UNCHANGED <<logs, fails>>

SuicideChange(ch, to, self, bal, gone) ==
  IF bal = 0 THEN ch ELSE AddChange(AddChange(ch, to, bal), self, -gone)

\* The balance goes to the heir, and is destroyed when that is the contract.
opSuicide(to) ==
  LET bal   == GetOrCreateAccount(world, Top.self).bal
      given == AddBalance(world, to, bal)
      acc   == GetOrCreateAccount(given, Top.self)
      dead  == SetAccount(given, Top.self, [acc EXCEPT !.code = "suicided", !.bal = 0])
  IN  Instruction(1, TRUE,
        /\ Halt(1, Returned(dead, "empty"))
        /\ Change(LAMBDA ch : SuicideChange(ch, to, Top.self, bal, acc.bal)))

\* STOP and RETURN.  The code of a new contract must be paid for, and small.
opReturn(ret) ==
  LET cost == IF Top.kind = "create" /\ ret # "empty" THEN CodeGas ELSE 0
  IN  /\ phase = "running"
      /\ IF Top.kind = "create" /\ (ret = "large" \/ Top.gas < cost) THEN Fail
         ELSE Halt(cost, Returned(world, ret)) /\ UNCHANGED <<changes, kept>>

opRevert == phase = "running" /\ Leave("revert")

Invalid == phase = "running" /\ Fail

-----------------------------------------------------------------------------
Known == (DOMAIN world) \cup Absent

Next ==
  \/ \E to \in Known, v \in Values, d \in DataCosts : ExecuteCall(to, v, d)
  \/ \E v \in Values, d \in DataCosts : ExecuteCreate(v, d)
  \/ Compute
  \/ \E v \in {0, 1} : opSstore(v)
  \/ makeLog
  \/ \E k \in {"call", "callcode"}, to \in Known, v \in Values, g \in Requests :
       phase = "running" /\ opCall(k, to, v, g)
  \/ \E k \in {"delegate", "static"}, to \in Known, g \in Requests :
       phase = "running" /\ opCall(k, to, 0, g)
  \/ \E v \in Values :
       /\ phase = "running"
       /\ world[Top.self].seq < MaxNonce
       /\ opCreate(v)
  \/ \E to \in Known : phase = "running" /\ opSuicide(to)
  \/ \E c \in {"code", "empty", "large"} : opReturn(c)
  \/ opRevert
  \/ Invalid

Spec == Init /\ [][Next]_vars

-----------------------------------------------------------------------------
(* Properties *)

Sum(f) == FoldFunction(+, 0, f)

Total(w) == Sum([a \in DOMAIN w |-> w[a].bal])

\* No account is overdrawn (SubBalance does not look: CanTransfer must have),
\* and the calls are never nested deeper than the limit allows.
TypeOK ==
  /\ phase \in {"idle", "running", "done"}
  /\ \A a \in DOMAIN world :
       /\ world[a].bal \in Nat
       /\ world[a].seq \in 0 .. MaxNonce
       /\ world[a].code \in {"empty", "code", "suicided"}
  /\ \A i \in DOMAIN frames : frames[i].gas \in Nat
  /\ depth <= CallCreateDepth + 1
  /\ readOnly \in BOOLEAN
  /\ (phase = "running") = (frames # << >>)

\* Gas is never created: what all the frames hold, stipends included, and at
\* the end what is left over, is within the limit the sender pays for
\* (exec.go: "leftOverGas > gasLimit // should not happen").
GasIsWithinLimit ==
  /\ Sum([i \in DOMAIN frames |-> frames[i].gas]) <= GasLimit
  /\ result.left <= GasLimit

\* No call, creation or failure, at any depth, makes TFuel; only a contract
\* that leaves its balance to itself destroys some.
CoinsAreNotMade == Total(world) <= Sum(Balance)

\* Whatever the frames below a static call do, with whatever kind of nested
\* call, the accounts are those of the moment the static call began.
StaticCallsDoNotWrite ==
  \A i \in DOMAIN frames : frames[i].sets => world = frames[i].snapshot

\* A transaction that fails changes nothing but the nonce that create spends.
FailureLeavesNoTrace ==
  phase = "done" /\ result.err # "ok" =>
    \A a \in DOMAIN world :
      a \in DOMAIN Balance /\ world[a].bal = Balance[a] /\ world[a].slot = 0

\* At every moment the balances are those before the transaction and what the
\* calls that have not failed have moved: a call that fails, at any depth and
\* whatever it has called, leaves nothing moved (RevertToSnapshot).
FailedCallsMoveNothing ==
  phase # "idle" =>
    \A a \in DOMAIN world \cup DOMAIN kept.changes :
      GetOrCreateAccount(world, a).bal
        = (IF a \in DOMAIN Balance THEN Balance[a] ELSE 0)
          + (IF a \in DOMAIN kept.changes THEN kept.changes[a] ELSE 0)

\* The receipt of a transaction in which no nested call has failed tells what
\* the transaction did: its balance changes lead from the balances before to
\* the balances after, and its logs are those written.  (Of a nested call that
\* fails the logs and the balance changes stay: RevertToSnapshot leaves both
\* lists alone.)
ReceiptTells ==
  phase = "done" /\ result.err = "ok" /\ ~fails =>
    logs = kept.logs /\ changes = kept.changes

=============================================================================
