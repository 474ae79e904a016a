----------------------------- MODULE PromiseJoins -----------------------------
(***************************************************************************)
(* The promise operations of the SDK, as the contract NearPromise uses     *)
(* them, over the receipts the host runs for it.                           *)
(*                                                                         *)
(* A call of an entry stages a graph of promises, one host call after the  *)
(* other: calls of the receiver, perhaps a join of them, perhaps a         *)
(* callback on the contract itself.  When the entry returns, what it has   *)
(* staged is sent with its state; if it fails, or the host stops it half   *)
(* way, both are dropped.  The host runs every receipt once, in any order  *)
(* that respects the graph, one at a time on the contract itself.  One of  *)
(* the promises may be returned: its result is the result of the call.     *)
(***************************************************************************)
EXTENDS Naturals, Sequences

CONSTANTS
  Calls,     \* the calls of entries
  FanIns,    \* how many children a callback waits for: 1 is then, more is a join
  Values,    \* the u64 values a child may return
  Lengths,   \* the lengths in bytes of what a child may return
  Fallback,  \* what a result that is no u64 decodes to
  Nothing    \* no bytes

Word == 8

\* The capacity of the result buffer of the callbacks.
Capacity == 8

ASSUME PromiseAssumption ==
  /\ FanIns \subseteq 1..8
  /\ Lengths \subseteq Nat \ {0}
  /\ Fallback \notin Values /\ Nothing \notin Values \cup {Fallback}

VARIABLES
  entry,     \* the call whose entry is running, with what it is going to stage
  staged,    \* the promises it has created so far
  caller,    \* caller[c]: "unsent", "running", "ok" or "failed"
  graph,     \* graph[c]: the promises c sent
  result,    \* result[c][i]: what came of promise i
  returned,  \* returned[c]: the promise c returns, or 0
  state      \* the contract's slots: the last writer in marker, and two words

vars == <<entry, staged, caller, graph, result, returned, state>>

-----------------------------------------------------------------------------
(***************************************************************************)
(* Results, with the statuses of the host: 0 not ready, 1 done, 2 failed.  *)
(***************************************************************************)
NotReady == [status |-> 0, length |-> 0, value |-> Nothing]

Done(length, value) == [status |-> 1, length |-> length, value |-> value]

Failed == [status |-> 2, length |-> 0, value |-> Nothing]

\* A call that returns nothing succeeds with no bytes.
Replies == {Failed, Done(0, Nothing)} \cup {Done(l, v) : l \in Lengths, v \in Values}

(***************************************************************************)
(* Staging: each operation appends a promise and answers with the graph;   *)
(* the index of the promise is the graph's length.                         *)
(***************************************************************************)
Promise(kind, inputs, fanIn) == [kind |-> kind, inputs |-> inputs, fanIn |-> fanIn]

stagePromiseCall(g) == Append(g, Promise("call", <<>>, 0))

stagePromiseCreateAccount(g) == Append(g, Promise("create_account", <<>>, 0))

stageCalls(n) == [i \in 1..n |-> Promise("call", <<>>, 0)]

stagePromiseAndReversed(g, indices) ==
  Append(g, Promise("and", [i \in DOMAIN indices |-> indices[Len(indices) + 1 - i]], 0))

stagePromiseAndN(g, indices) == Append(g, Promise("and", indices, 0))

stagePromiseThen(g, index, fanIn) == Append(g, Promise("then", <<index>>, fanIn))

callThenReturned == stagePromiseThen(stageCalls(1), 1, 1)

callAndThenReturned(n) ==
  stagePromiseThen(stagePromiseAndN(stageCalls(n), [i \in 1..n |-> i]), n + 1, n)

(***************************************************************************)
(* The result buffer of a callback: one descriptor for all its reads.      *)
(***************************************************************************)
Inactive == [status |-> 0, length |-> 0, fits |-> TRUE, value |-> Nothing]

resetPromiseResultFitsKept(buffer) == [Inactive EXCEPT !.fits = buffer.fits]

resetPromiseResult(buffer) == Inactive

\* Only a successful result has a length, and only one that fits is copied.
finishPromiseResult(buffer, input) ==
  IF input.status # 1 THEN [buffer EXCEPT !.status = input.status]
  ELSE IF input.length > Capacity
  THEN [buffer EXCEPT !.status = 1, !.length = input.length, !.fits = FALSE]
  ELSE [buffer EXCEPT !.status = 1, !.length = input.length, !.value = input.value]

promiseResultRead(buffer, input) == finishPromiseResult(resetPromiseResult(buffer), input)

borshUInt64DFitsOnly(buffer) == IF buffer.fits THEN buffer.value ELSE Fallback

borshUInt64D(buffer) ==
  IF buffer.status = 1 /\ buffer.fits /\ buffer.length = Word THEN buffer.value ELSE Fallback

\* The words a callback decodes, reading its inputs in order into the same buffer.
Decoded(inputs) ==
  LET after[i \in 0..Len(inputs)] ==
        IF i = 0 THEN Inactive ELSE promiseResultRead(after[i - 1], inputs[i])
  IN [i \in 1..Len(inputs) |-> borshUInt64D(after[i])]

-----------------------------------------------------------------------------
Idle == [call |-> Nothing, promises |-> <<>>, returns |-> 0, fails |-> FALSE]

Init ==
  /\ entry = Idle
  /\ staged = <<>>
  /\ caller = [c \in Calls |-> "unsent"]
  /\ graph = [c \in Calls |-> <<>>]
  /\ result = [c \in Calls |-> <<>>]
  /\ returned = [c \in Calls |-> 0]
  /\ state = [marker |-> Nothing, low |-> Nothing, high |-> Nothing]

\* A call starts: it will stage g, return promise index of it, and fail in the end or not.
Begin(c, g, index, fails) ==
  /\ entry = Idle
  /\ caller[c] = "unsent"
  /\ caller' = [caller EXCEPT ![c] = "running"]
  /\ entry' = [call |-> c, promises |-> g, returns |-> index, fails |-> fails]
  /\ UNCHANGED <<staged, graph, result, returned, state>>

send(c) == Begin(c, stagePromiseCall(<<>>), 0, FALSE)

batchCreateAccount(c) == Begin(c, stagePromiseCreateAccount(<<>>), 0, FALSE)

sendReturned(c) == Begin(c, stagePromiseCall(<<>>), 1, FALSE)

sendThen(c) == 1 \in FanIns /\ Begin(c, callThenReturned, Len(callThenReturned), FALSE)

sendAnd(c, n) == Begin(c, callAndThenReturned(n), Len(callAndThenReturned(n)), FALSE)

sendThenFail(c) == Begin(c, stagePromiseCall(<<>>), 0, TRUE)

\* One host call: the receipt exists from here on, but is not sent yet.
stage ==
  /\ entry # Idle
  /\ Len(staged) < Len(entry.promises)
  /\ staged' = Append(staged, entry.promises[Len(staged) + 1])
  /\ UNCHANGED <<entry, caller, graph, result, returned, state>>

AllStaged == entry # Idle /\ Len(staged) = Len(entry.promises)

\* The entry is over, with this verdict for its call.
Ends(verdict) ==
  /\ caller' = [caller EXCEPT ![entry.call] = verdict]
  /\ entry' = Idle
  /\ staged' = <<>>

\* What the host does with a call that returns: its receipts wait to be run.
Sends ==
  /\ graph' = [graph EXCEPT ![entry.call] = staged]
  /\ result' = [result EXCEPT ![entry.call] = [i \in 1..Len(staged) |-> NotReady]]
  /\ returned' = [returned EXCEPT ![entry.call] = entry.returns]

\* The entry stores its slots and returns.
okState ==
  /\ AllStaged /\ ~ entry.fails
  /\ Ends("ok") /\ Sends
  /\ state' = [state EXCEPT !.marker = entry.call]

errorOverflowReturned ==
  /\ AllStaged /\ entry.fails
  /\ Ends("ok") /\ Sends
  /\ UNCHANGED state

\* An error panics, whatever has been staged.
errorOverflow ==
  /\ AllStaged /\ entry.fails
  /\ Ends("failed")
  /\ UNCHANGED <<graph, result, returned, state>>

\* The host stops the entry between any two of its steps: out of gas, or a receipt it refuses.
Traps ==
  /\ entry # Idle
  /\ Ends("failed")
  /\ UNCHANGED <<graph, result, returned, state>>

-----------------------------------------------------------------------------
(***************************************************************************)
(* The receipts.  Any may fail: the method is missing, the gas runs out,   *)
(* the account to create exists.                                           *)
(***************************************************************************)
Promised(c) == 1..Len(graph[c])

Awaits(c, i, kind) == i \in Promised(c) /\ graph[c][i].kind = kind /\ result[c][i] = NotReady

child(c, i) ==
  /\ \E kind \in {"call", "create_account"} : Awaits(c, i, kind)
  /\ \E reply \in Replies : result' = [result EXCEPT ![c][i] = reply]
  /\ UNCHANGED <<entry, staged, caller, graph, returned, state>>

\* A callback's inputs: those of the join it is on, in the join's order, or the one it is on.
Inputs(c, i) ==
  LET on == graph[c][i].inputs[1] IN
  IF graph[c][on].kind = "and" THEN graph[c][on].inputs ELSE <<on>>

Ready(c, i) == \A k \in DOMAIN Inputs(c, i) : result[c][Inputs(c, i)[k]].status # 0

Words(c, i) == Decoded([k \in DOMAIN Inputs(c, i) |-> result[c][Inputs(c, i)[k]]])

\* callbackSuccess and callbackFailure: one read, no count is checked.
callbackThen(c, i) ==
  /\ Awaits(c, i, "then") /\ Ready(c, i)
  /\ graph[c][i].fanIn = 1
  /\ result' = [result EXCEPT ![c][i] = Done(Word, Words(c, i)[1])]
  /\ state' = [state EXCEPT !.marker = c]
  /\ UNCHANGED <<entry, staged, caller, graph, returned>>

\* callbackJoined, callbackJoined3, ..., callbackJoined8; with another count they would panic.
callbackJoined(c, i) ==
  /\ Awaits(c, i, "then") /\ Ready(c, i)
  /\ LET n == graph[c][i].fanIn
         words == Words(c, i)
     IN /\ n # 1
        /\ Len(words) = n
        /\ result' = [result EXCEPT ![c][i] = Done(Word, words[n])]
        /\ state' = [marker |-> c, low |-> words[1], high |-> words[2]]
  /\ UNCHANGED <<entry, staged, caller, graph, returned>>

callbackFails(c, i) ==
  /\ Awaits(c, i, "then") /\ Ready(c, i)
  /\ result' = [result EXCEPT ![c][i] = Failed]
  /\ UNCHANGED <<entry, staged, caller, graph, returned, state>>

\* A callback runs on the contract, where nothing else runs meanwhile.
Callback(c, i) ==
  /\ entry = Idle
  /\ callbackThen(c, i) \/ callbackJoined(c, i) \/ callbackFails(c, i)

Receipt(c) == \E i \in Promised(c) : child(c, i) \/ Callback(c, i)

Send(c) ==
  \/ send(c)
  \/ batchCreateAccount(c)
  \/ sendReturned(c)
  \/ sendThen(c)
  \/ sendThenFail(c)
  \/ \E n \in FanIns \ {1} : sendAnd(c, n)

Next ==
  \/ \E c \in Calls : Send(c) \/ Receipt(c)
  \/ stage
  \/ okState
  \/ errorOverflow
  \/ Traps

Spec == Init /\ [][Next]_vars

-----------------------------------------------------------------------------
(***************************************************************************)
(* Properties.                                                             *)
(***************************************************************************)
Words64 == Values \cup {Fallback}

Results == {NotReady} \cup Replies \cup {Done(Word, v) : v \in Words64}

Kinds == {"call", "create_account", "and", "then"}

PromiseType == [kind : Kinds, inputs : Seq(1..9), fanIn : 0..8]

\* What is read into the contract's words and into the callback's result is a u64 or the fallback,
\* and a running entry has staged the first of the promises it is going to send.
TypeOK ==
  /\ entry \in [call : Calls \cup {Nothing}, promises : Seq(PromiseType), returns : 0..10, fails : BOOLEAN]
  /\ staged \in Seq(PromiseType) /\ Len(staged) <= Len(entry.promises)
  /\ \A i \in 1..Len(staged) : staged[i] = entry.promises[i]
  /\ caller \in [Calls -> {"unsent", "running", "ok", "failed"}]
  /\ \A c \in Calls :
       /\ graph[c] \in Seq(PromiseType)
       /\ DOMAIN result[c] = Promised(c)
       /\ \A i \in Promised(c) : result[c][i] \in Results
       /\ returned[c] \in Promised(c) \cup {0}
  /\ state.marker \in Calls \cup {Nothing}
  /\ {state.low, state.high} \subseteq Words64 \cup {Nothing}

\* What a call answers: its own value, or the result of the promise it returned.
Outcome(c) ==
  IF caller[c] \in {"unsent", "running"} THEN NotReady
  ELSE IF caller[c] = "failed" THEN Failed
  ELSE IF returned[c] = 0 THEN Done(Word, Nothing) ELSE result[c][returned[c]]

Asked(c) ==
  [n |-> IF \E i \in Promised(c) : graph[c][i].kind = "and" THEN Len(graph[c]) - 2
         ELSE IF Len(graph[c]) = 2 THEN 1 ELSE Len(graph[c]),
   gathers |-> \E i \in Promised(c) : graph[c][i].kind = "then"]

Gathering == INSTANCE ScatterGather WITH
  answers <- [c \in Calls |-> [i \in 1..Asked(c).n |-> result[c][i]]],
  gathers <- [c \in Calls |-> Asked(c).gathers],
  outcome <- [c \in Calls |-> Outcome(c)],
  words <- <<state.low, state.high>>,
  last <- state.marker

\* The promises of a call amount to asking the children and gathering what they say in the
\* caller's order, a failed or malformed answer in its own place, whatever the order in which the
\* receipts ran; and the call answers with the callback's result, not a child's.  A call that
\* fails, or is stopped when it has staged some of its promises, asks nobody and leaves no mark;
\* one that asks has left its mark (stagePromiseThen, promiseResultRead, okState, errorOverflow).
ImplementsScatterGather == Gathering!GatherSpec

\* promise.py:595 of the repository's tests: a call whose create_account receipt fails has not
\* changed the contract's state.
FailedDetachedLeavesState ==
  \A c \in Calls : \A i \in Promised(c) :
    graph[c][i].kind = "create_account" /\ result[c][i] = Failed => state.marker # c
==============================================================================
