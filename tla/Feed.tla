-------------------------------- MODULE Feed --------------------------------
(***************************************************************************)
(* One-to-many event delivery (eth/event/feed.go).  Goroutines send values *)
(* to a feed, subscribe channels to it and cancel their subscriptions, all *)
(* at once.  Send holds the send lock while it offers its value to every   *)
(* channel; sendCases is reordered in place meanwhile: the first "active"  *)
(* cases are those that have not taken the value yet.  The receive case of *)
(* removeSub, which Go keeps at index 0, is the rendezvous in Remove.      *)
(***************************************************************************)
EXTENDS Naturals, Sequences, FiniteSets, SequencesExt

CONSTANTS Subs,       \* subscriptions
          Senders,    \* goroutines that call Send, each once
          ChannelOf,  \* the channel of each subscription
          Capacity,   \* buffer size of each channel
          NoSender    \* the send lock is free

VARIABLES inbox,      \* channels that wait to be added to sendCases
          sendCases,  \* channels in the order Send tries them
          active,     \* length of "cases", the prefix not served yet
          index,      \* loop counter of the fast path; 0 while Send selects
          lock,       \* who holds sendLock
          sending,    \* sender -> "start", "sending", "done"
          sub,        \* subscription -> "new", "on", "removing", "off"
          buffer,     \* channel -> values in its buffer
          received,   \* channel -> how often it was sent the value of each sender
          due         \* sender -> subscriptions that were on when it began

vars == <<inbox, sendCases, active, index, lock, sending, sub, buffer, received, due>>

Channels == {ChannelOf[s] : s \in Subs}
None == Len(sendCases) + 1

Init ==
    /\ inbox = <<>> /\ sendCases = <<>> /\ active = 0 /\ index = 0 /\ lock = NoSender
    /\ sending = [p \in Senders |-> "start"]
    /\ sub = [s \in Subs |-> "new"]
    /\ buffer = [c \in Channels |-> 0] /\ received = [c \in Channels |-> [p \in Senders |-> 0]]
    /\ due = [p \in Senders |-> {}]

\* caseList.find, with None for -1
find(cases, c) == IF c \in ToSet(cases) THEN SelectInSeq(cases, LAMBDA x : x = c) ELSE None

Subscribe(s) ==
    /\ sub[s] = "new"
    /\ sub' = [sub EXCEPT ![s] = "on"]
    /\ inbox' = Append(inbox, ChannelOf[s])
    /\ UNCHANGED <<sendCases, active, index, lock, sending, buffer, received, due>>

FromInbox(s) == ChannelOf[s] \in ToSet(inbox)

\* Unsubscribe, the part of remove that holds the mutex.
Unsubscribe(s) ==
    /\ sub[s] = "on"
    /\ IF FromInbox(s)
       THEN /\ inbox' = RemoveAt(inbox, find(inbox, ChannelOf[s]))
            /\ sub' = [sub EXCEPT ![s] = "off"]
       ELSE sub' = [sub EXCEPT ![s] = "removing"] /\ UNCHANGED inbox
    /\ UNCHANGED <<sendCases, active, index, lock, sending, buffer, received, due>>

\* No Send is in progress: the channel is deleted under the send lock.
RemoveLocked(s) ==
    /\ sub[s] = "removing" /\ lock = NoSender
    /\ sendCases' = RemoveAt(sendCases, find(sendCases, ChannelOf[s]))
    /\ sub' = [sub EXCEPT ![s] = "off"]
    /\ UNCHANGED <<inbox, active, index, lock, sending, buffer, received, due>>

\* The length of cases after the case at i was deleted from sendCases.
Shrunk(i) == IF i <= active THEN active - 1 ELSE active

\* Mutant of RemoveSub: a waiting Send does not listen to removeSub.
RemoveSubNever(s) == FALSE

\* Send waits in Select and takes the channel from removeSub.
RemoveSub(s) ==
    /\ sub[s] = "removing" /\ lock # NoSender /\ index = 0 /\ active > 0
    /\ \E i \in {find(sendCases, ChannelOf[s])} :
         /\ sendCases' = RemoveAt(sendCases, i)
         /\ active' = Shrunk(i)
    /\ index' = 1
    /\ sub' = [sub EXCEPT ![s] = "off"]
    /\ UNCHANGED <<inbox, lock, sending, buffer, received, due>>

\* The send lock is taken and the inbox is emptied into sendCases.
Send(p) ==
    /\ sending[p] = "start" /\ lock = NoSender
    /\ lock' = p /\ sending' = [sending EXCEPT ![p] = "sending"]
    /\ sendCases' = sendCases \o inbox /\ inbox' = <<>>
    /\ active' = Len(sendCases) + Len(inbox) /\ index' = 1
    /\ due' = [due EXCEPT ![p] = {s \in Subs : sub[s] = "on"}]
    /\ UNCHANGED <<sub, buffer, received>>

\* Mutant of deactivate: the list is cut without moving the case first.
deactivateNone(i) == UNCHANGED sendCases /\ active' = active - 1

\* caseList.deactivate: the case moves to the end of the active ones.
deactivate(i) ==
    /\ sendCases' = [sendCases EXCEPT ![i] = sendCases[active], ![active] = sendCases[i]]
    /\ active' = active - 1

Deliver(i) ==
    /\ buffer' = [buffer EXCEPT ![sendCases[i]] = @ + 1]
    /\ received' = [received EXCEPT ![sendCases[i]][lock] = @ + 1]
    /\ deactivate(i)

\* The fast path tries each active case without blocking; the counter stays
\* after a send, as the last active case has taken its place.
TrySend ==
    /\ lock # NoSender /\ index # 0 /\ index <= active
    /\ IF buffer[sendCases[index]] < Capacity
       THEN Deliver(index) /\ UNCHANGED index
       ELSE index' = index + 1 /\ UNCHANGED <<sendCases, active, buffer, received>>
    /\ UNCHANGED <<inbox, lock, sending, sub, due>>

\* The end of the fast path: Send has served everyone, or it selects.
EndFastPath ==
    /\ lock # NoSender /\ index > active
    /\ IF active = 0
       THEN /\ sending' = [sending EXCEPT ![lock] = "done"]
            /\ lock' = NoSender
       ELSE UNCHANGED <<sending, lock>>
    /\ index' = 0
    /\ UNCHANGED <<inbox, sendCases, active, sub, buffer, received, due>>

\* Select chooses any of the channels that can take the value.
Select ==
    /\ lock # NoSender /\ index = 0 /\ active > 0
    /\ \E i \in 1 .. active : buffer[sendCases[i]] < Capacity /\ Deliver(i)
    /\ index' = 1
    /\ UNCHANGED <<inbox, lock, sending, sub, due>>

\* The reader of a channel takes a value from it.
Receive(c) ==
    /\ buffer[c] > 0 /\ buffer' = [buffer EXCEPT ![c] = @ - 1]
    /\ UNCHANGED <<inbox, sendCases, active, index, lock, sending, sub, received, due>>

Next ==
    \/ \E s \in Subs : Subscribe(s) \/ Unsubscribe(s) \/ RemoveLocked(s) \/ RemoveSub(s)
    \/ \E p \in Senders : Send(p)
    \/ TrySend \/ EndFastPath \/ Select
    \/ \E c \in Channels : Receive(c)

Spec == Init /\ [][Next]_vars

\* Goroutines that can go on do.  Nobody has to subscribe, to unsubscribe or
\* to read a channel.
FairSpec ==
    /\ Spec
    /\ WF_vars(TrySend \/ EndFastPath \/ Select)
    /\ \A s \in Subs : WF_vars(RemoveLocked(s) \/ RemoveSub(s))

----------------------------------------------------------------------------
(* Properties.                                                             *)

\* The cases are the channels of the subscriptions that are on, whichever
\* part of the list they are in, and remove always finds its channel
\* (feed.go, remove and the use of removeSub in Send).
CasesAreSubscriptions ==
    \A c \in Channels :
        Len(SelectSeq(sendCases \o inbox, LAMBDA x : x = c))
            = Cardinality({s \in Subs : ChannelOf[s] = c /\ sub[s] \in {"on", "removing"}})

\* A finished Send gave its value once to the channel of each subscription
\* that stayed on from its start to its end, and to none more often than it
\* is subscribed (feed.go, Send and deactivate).
EachIsSentOnce ==
    \A p \in Senders, c \in Channels :
        LET on(S) == {s \in S : ChannelOf[s] = c} IN
        /\ received[c][p] <= Cardinality(on(Subs))
        /\ sending[p] = "done" /\ on(Subs) \subseteq {s \in due[p] : sub[s] = "on"}
             => received[c][p] = Cardinality(on(Subs))

\* Unsubscribe returns even while every reader sleeps: the blocked Send
\* takes the channel over removeSub, or the lock is free (feed.go, remove).
\* Again and again nobody waits for it, since each subscription ends once.
UnsubscribeReturns == []<>(\A s \in Subs : sub[s] # "removing")

=============================================================================
