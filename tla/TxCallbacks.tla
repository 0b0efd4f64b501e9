---------------------------- MODULE TxCallbacks -----------------------------
(***************************************************************************)
(* Synchronous broadcast of a transaction (rpc/tx.go).  A caller inserts   *)
(* its transaction, registers a callback under the transaction's hash and  *)
(* waits for an answer or for a timer.  One goroutine takes the finalized  *)
(* blocks of the consensus engine, a channel that is full drops them, and  *)
(* runs the callbacks of their transactions; on a ticker it trims the list *)
(* of callbacks that are older than the same timeout.                      *)
(*                                                                         *)
(* A callback is the caller it belongs to; time is the age of the          *)
(* callbacks, counted up to the timeout.                                   *)
(***************************************************************************)
EXTENDS Naturals, Sequences, FiniteSets, SequencesExt

CONSTANTS Callers,    \* calls of BroadcastRawTransaction
          TxOf,       \* the transaction of each call
          TxTimeout,  \* txTimeout
          QueueSize,  \* capacity of consensus.FinalizedBlocks()
          NoCaller    \* no callback under a hash

VARIABLES caller,     \* caller -> "new", "inserted", "waiting", "answered", "timed out"
          age,        \* caller -> time since its callback was registered
          txHashToCallback, \* transaction -> callback
          callbacks,  \* the list of callbacks, oldest first
          final,      \* transactions in finalized blocks
          queue,      \* finalized blocks not taken yet; a block has one transaction
          running     \* callbacks that were started as goroutines

vars == <<caller, age, txHashToCallback, callbacks, final, queue, running>>

Txs == {TxOf[p] : p \in Callers}

Init ==
    /\ caller = [p \in Callers |-> "new"] /\ age = [p \in Callers |-> 0]
    /\ txHashToCallback = [t \in Txs |-> NoCaller] /\ callbacks = <<>>
    /\ final = {} /\ queue = <<>> /\ running = {}

\* The mempool takes the transaction and passes it on.  While it fast syncs
\* it only passes it on, so that a second caller may bring the same one.
InsertTransaction(p) ==
    /\ caller[p] = "new" /\ TxOf[p] \notin final
    /\ caller' = [caller EXCEPT ![p] = "inserted"]
    /\ UNCHANGED <<age, txHashToCallback, callbacks, final, queue, running>>

\* A later callback for the same transaction takes the place of an earlier.
AddCallback(p) ==
    /\ caller[p] = "inserted"
    /\ caller' = [caller EXCEPT ![p] = "waiting"]
    /\ txHashToCallback' = [txHashToCallback EXCEPT ![TxOf[p]] = p]
    /\ callbacks' = Append(callbacks, p)
    /\ UNCHANGED <<age, final, queue, running>>

\* The consensus engine finalizes a block; it never waits for the queue.
Finalize(t) ==
    /\ t \notin final /\ \E p \in Callers : TxOf[p] = t /\ caller[p] # "new"
    /\ final' = final \cup {t}
    /\ queue' = IF Len(queue) < QueueSize THEN Append(queue, t) ELSE queue
    /\ UNCHANGED <<caller, age, txHashToCallback, callbacks, running>>

\* txCallback takes a block: RemoveCallback for each of its transactions.
ProcessBlock ==
    /\ queue # <<>> /\ queue' = Tail(queue)
    /\ \E t \in {Head(queue)} :
         /\ running' = running \cup ({txHashToCallback[t]} \ {NoCaller})
         /\ txHashToCallback' = [txHashToCallback EXCEPT ![t] = NoCaller]
    /\ UNCHANGED <<caller, age, callbacks, final>>

\* The goroutine of a callback: it answers the caller if that one waits.
Callback(p) ==
    /\ p \in running /\ running' = running \ {p}
    /\ caller' = [caller EXCEPT ![p] = IF @ = "waiting" THEN "answered" ELSE @]
    /\ UNCHANGED <<age, txHashToCallback, callbacks, final, queue>>

\* A callback started before its caller reached the select finds no one.
CallbackMissed(p) ==
    /\ p \in running /\ caller[p] = "waiting" /\ running' = running \ {p}
    /\ UNCHANGED <<caller, age, txHashToCallback, callbacks, final, queue>>

IsOld(p) == age[p] >= TxTimeout

TimeOut(p) ==
    /\ caller[p] = "waiting" /\ IsOld(p)
    /\ caller' = [caller EXCEPT ![p] = "timed out"]
    /\ UNCHANGED <<age, txHashToCallback, callbacks, final, queue, running>>

\* Mutant of IsSame: the entry is removed whoever's callback it holds.
IsSameAlways(p) == TRUE

\* Whether the callback under a hash is the one that is trimmed.
IsSame(p) ==
    \E q \in {txHashToCallback[TxOf[p]]} : q # NoCaller /\ age[q] = age[p]

\* The old callbacks at the front of the list.
Oldest == {i \in 1 .. Len(callbacks) : \A j \in 1 .. i : IsOld(callbacks[j])}

Trim ==
    /\ Oldest # {}
    /\ txHashToCallback' =
         [t \in Txs |-> IF \E i \in Oldest : TxOf[callbacks[i]] = t /\ IsSame(callbacks[i])
                        THEN NoCaller ELSE txHashToCallback[t]]
    /\ callbacks' = SubSeq(callbacks, Cardinality(Oldest) + 1, Len(callbacks))
    /\ UNCHANGED <<caller, age, final, queue, running>>

\* Time goes by for everyone; two callbacks may be made between two ticks.
Tick ==
    /\ \E p \in ToSet(callbacks) : ~IsOld(p)
    /\ age' = [p \in Callers |-> IF p \in ToSet(callbacks) /\ ~IsOld(p) THEN age[p] + 1 ELSE age[p]]
    /\ UNCHANGED <<caller, txHashToCallback, callbacks, final, queue, running>>

Next ==
    \/ \E p \in Callers : InsertTransaction(p) \/ AddCallback(p) \/ Callback(p) \/ CallbackMissed(p) \/ TimeOut(p)
    \/ \E t \in Txs : Finalize(t)
    \/ ProcessBlock \/ Trim \/ Tick

Spec == Init /\ [][Next]_vars

----------------------------------------------------------------------------
(* Properties.                                                             *)

TypeOK ==
    /\ age \in [Callers -> 0 .. TxTimeout] /\ Len(queue) <= QueueSize
    /\ txHashToCallback \in [Txs -> Callers \cup {NoCaller}]
    /\ running \subseteq Callers

\* A callback leaves the map only when its block came, when a later one
\* takes its place, or when it is as old as the timeout of its caller
\* (rpc/tx.go, Trim compares the times of creation).
LeavesMapInTime ==
    \A t \in Txs, p \in Callers :
        txHashToCallback[t] = p /\ txHashToCallback'[t] = NoCaller => t \in final \/ IsOld(p)

\* No step takes a callback out of the map before its time (rpc/tx.go, Trim).
YoungCallbacksStay == [][LeavesMapInTime]_vars
=============================================================================
