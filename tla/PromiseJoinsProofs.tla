--------------------------- MODULE PromiseJoinsProofs ---------------------------
(***************************************************************************)
(* Proofs about PromiseJoins: what a callback decodes from the one buffer  *)
(* it reads all its inputs into, the shape of the graphs the entries       *)
(* stage, and that a graph implements asking its children and gathering    *)
(* their answers.                                                          *)
(***************************************************************************)
EXTENDS PromiseJoins, TLAPS

-----------------------------------------------------------------------------
(***************************************************************************)
(* Decoding.                                                               *)
(***************************************************************************)

\* What one input amounts to.
ReadOne(input) == borshUInt64D(finishPromiseResult(Inactive, input))

\* Every read starts from an empty buffer, so no input sees what came before it.
LEMMA EachReadIsOwn ==
  ASSUME NEW n \in Nat, NEW inputs, DOMAIN inputs = 1..n, Len(inputs) = n
  PROVE  Decoded(inputs) = [i \in 1..n |-> ReadOne(inputs[i])]
<1> DEFINE after[i \in 0..Len(inputs)] ==
             IF i = 0 THEN Inactive ELSE promiseResultRead(after[i - 1], inputs[i])
           own == [i \in 0..n |-> IF i = 0 THEN Inactive ELSE finishPromiseResult(Inactive, inputs[i])]
<1>1. own = [i \in 0..Len(inputs) |->
               IF i = 0 THEN Inactive ELSE promiseResultRead(own[i - 1], inputs[i])]
  BY DEF promiseResultRead, resetPromiseResult
<1>2. after = [i \in 0..Len(inputs) |->
                 IF i = 0 THEN Inactive ELSE promiseResultRead(after[i - 1], inputs[i])]
  <2> DEFINE Equation(f) == f = [i \in 0..Len(inputs) |->
                                   IF i = 0 THEN Inactive ELSE promiseResultRead(f[i - 1], inputs[i])]
  <2>1. Equation(own)
    BY <1>1
  <2>2. after = CHOOSE f : Equation(f)
    OBVIOUS
  <2> HIDE DEF after, own, Equation
  <2>3. Equation(after)
    BY <2>1, <2>2
  <2> QED
    BY <2>3 DEF Equation
<1>3. \A i \in 1..n : after[i] = finishPromiseResult(Inactive, inputs[i])
  <2> HIDE DEF after
  <2> QED
    BY <1>2 DEF promiseResultRead, resetPromiseResult
<1>4. Decoded(inputs) = [i \in 1..n |-> borshUInt64D(after[i])]
  BY DEF Decoded
<1> HIDE DEF after
<1> QED
  BY <1>3, <1>4 DEF ReadOne

-----------------------------------------------------------------------------
(***************************************************************************)
(* The graphs that are staged.                                             *)
(***************************************************************************)
Child(kind) == Promise(kind, <<>>, 0)

Single(g, kind) == g = <<Child(kind)>>

Chained(g) == Len(g) = 2 /\ g[1] = Child("call") /\ g[2] = Promise("then", <<1>>, 1)

Joined(g, n) ==
  /\ Len(g) = n + 2
  /\ \A i \in 1..n : g[i] = Child("call")
  /\ g[n + 1] = Promise("and", [i \in 1..n |-> i], 0)
  /\ g[n + 2] = Promise("then", <<n + 1>>, n)

\* The promise a call returns is its callback's, or its only child's, or none's.
Staged(g, index) ==
  \/ Single(g, "call") /\ index \in {0, 1}
  \/ Single(g, "create_account") /\ index = 0
  \/ Chained(g) /\ index = 2 /\ 1 \in FanIns
  \/ \E n \in FanIns \ {1} : Joined(g, n) /\ index = n + 2

ChildResults == {NotReady} \cup Replies

CallbackResults == {NotReady, Failed} \cup {Done(Word, v) : v \in Words64}

ResultsOf(kind) ==
  CASE kind \in {"call", "create_account"} -> ChildResults
    [] kind = "and" -> {NotReady}
    [] kind = "then" -> CallbackResults

Typed ==
  /\ entry \in [call : Calls \cup {Nothing}, promises : Seq(PromiseType), returns : 0..10, fails : BOOLEAN]
  /\ staged \in Seq(PromiseType)
  /\ caller \in [Calls -> {"unsent", "running", "ok", "failed"}]
  /\ graph \in [Calls -> Seq(PromiseType)]
  /\ DOMAIN result = Calls
  /\ returned \in [Calls -> 0..10]
  /\ state \in [marker : Calls \cup {Nothing}, low : Words64 \cup {Nothing}, high : Words64 \cup {Nothing}]

CallIsStaged(c) ==
  /\ caller[c] = "ok" => Staged(graph[c], returned[c])
  /\ caller[c] # "ok" => graph[c] = <<>> /\ returned[c] = 0
  /\ DOMAIN result[c] = 1..Len(graph[c])
  /\ \A i \in 1..Len(graph[c]) : result[c][i] \in ResultsOf(graph[c][i].kind)

\* What has been staged is the beginning of what the running entry stages, and nothing is staged
\* when none runs.
EntryIsStaging ==
  /\ Len(staged) <= Len(entry.promises)
  /\ \A i \in 1..Len(staged) : staged[i] = entry.promises[i]
  /\ entry # Idle => /\ entry.call \in Calls /\ caller[entry.call] = "running"
                     /\ Staged(entry.promises, entry.returns)

\* Every graph that was sent is one that an entry stages, and each receipt has a result of its kind.
IInv == Typed /\ EntryIsStaging /\ \A c \in Calls : CallIsStaged(c)

LEMMA FanInRange ==
  ASSUME NEW n \in FanIns
  PROVE  n \in 1..8 /\ n \in Nat
BY PromiseAssumption

LEMMA PromiseTypes ==
  /\ Child("call") \in PromiseType /\ Child("create_account") \in PromiseType
  /\ Promise("then", <<1>>, 1) \in PromiseType
  /\ \A n \in 1..8 : /\ Promise("and", [i \in 1..n |-> i], 0) \in PromiseType
                     /\ Promise("then", <<n + 1>>, n) \in PromiseType
<1>1. <<>> \in Seq(1..9) /\ <<1>> \in Seq(1..9)
  OBVIOUS
<1>2. ASSUME NEW n \in 1..8
      PROVE  [i \in 1..n |-> i] \in Seq(1..9) /\ <<n + 1>> \in Seq(1..9)
  OBVIOUS
<1> QED
  BY <1>1, <1>2 DEF Child, Promise, PromiseType, Kinds

\* What the entries stage.
LEMMA StagedSingle ==
  /\ Single(stagePromiseCall(<<>>), "call")
  /\ Single(stagePromiseCreateAccount(<<>>), "create_account")
  /\ stagePromiseCall(<<>>) \in Seq(PromiseType)
  /\ stagePromiseCreateAccount(<<>>) \in Seq(PromiseType)
BY PromiseTypes DEF Single, Child, stagePromiseCall, stagePromiseCreateAccount

LEMMA StagedChain ==
  Chained(callThenReturned) /\ Len(callThenReturned) = 2 /\ callThenReturned \in Seq(PromiseType)
<1>1. stageCalls(1) = <<Child("call")>>
  BY DEF stageCalls, Child
<1>2. callThenReturned = Append(<<Child("call")>>, Promise("then", <<1>>, 1))
  BY <1>1 DEF callThenReturned, stagePromiseThen
<1> QED
  BY <1>2, PromiseTypes DEF Chained

LEMMA StagedJoin ==
  ASSUME NEW n \in FanIns
  PROVE  Joined(callAndThenReturned(n), n) /\ callAndThenReturned(n) \in Seq(PromiseType)
<1> DEFINE calls == stageCalls(n)
           order == [i \in 1..n |-> i]
           anded == Append(calls, Promise("and", order, 0))
           whole == Append(anded, Promise("then", <<n + 1>>, n))
<1>1. n \in 1..8 /\ n \in Nat
  BY FanInRange
<1>2. calls \in Seq(PromiseType) /\ Len(calls) = n /\ \A i \in 1..n : calls[i] = Child("call")
  BY <1>1, PromiseTypes DEF stageCalls, Child
<1>3. /\ Promise("and", order, 0) \in PromiseType /\ Promise("then", <<n + 1>>, n) \in PromiseType
  BY <1>1, PromiseTypes
<1> HIDE DEF calls, order
<1>4. /\ anded \in Seq(PromiseType) /\ Len(anded) = n + 1
      /\ \A i \in 1..n : anded[i] = Child("call")
      /\ anded[n + 1] = Promise("and", order, 0)
  BY <1>1, <1>2, <1>3
<1> HIDE DEF anded
<1>5. /\ whole \in Seq(PromiseType) /\ Len(whole) = n + 2
      /\ \A i \in 1..n : whole[i] = Child("call")
      /\ whole[n + 1] = Promise("and", order, 0)
      /\ whole[n + 2] = Promise("then", <<n + 1>>, n)
  BY <1>1, <1>3, <1>4
<1>6. callAndThenReturned(n) = whole
  BY DEF callAndThenReturned, stagePromiseThen, stagePromiseAndN, whole, anded, calls, order
<1> QED
  BY <1>5, <1>6 DEF Joined, order

LEMMA StagedLength ==
  ASSUME NEW g, NEW index, Staged(g, index)
  PROVE  Len(g) \in 1..10 /\ index \in 0..Len(g)
<1>1. CASE Single(g, "call") /\ index \in {0, 1}
  BY <1>1 DEF Single
<1>2. CASE Single(g, "create_account") /\ index = 0
  BY <1>2 DEF Single
<1>3. CASE Chained(g) /\ index = 2
  BY <1>3 DEF Chained
<1>4. ASSUME NEW n \in FanIns, Joined(g, n), index = n + 2
      PROVE  Len(g) \in 1..10 /\ index \in 0..Len(g)
  BY <1>4, FanInRange DEF Joined
<1> QED
  BY <1>1, <1>2, <1>3, <1>4 DEF Staged

LEMMA StagedIndex ==
  ASSUME NEW g, NEW index, Staged(g, index)
  PROVE  Len(g) \in 1..10 /\ index \in 0..10
<1>1. Len(g) \in 1..10 /\ index \in 0..Len(g)
  BY StagedLength
<1>2. \A l \in 1..10 : 0..l \subseteq 0..10
  OBVIOUS
<1> QED
  BY <1>1, <1>2

-----------------------------------------------------------------------------
(***************************************************************************)
(* Where a receipt stands in its graph.                                    *)
(***************************************************************************)

\* What the words of a callback on n children are: a u64, or the fallback, of each in order.
LEMMA ReadOneIsWord ==
  ASSUME NEW r \in ChildResults
  PROVE  /\ ReadOne(r) \in Words64
         /\ ReadOne(r) = Gathering!Read(r)
<1>1. CASE r = NotReady \/ r = Failed \/ r = Done(0, Nothing)
  BY <1>1 DEF NotReady, Failed, Done, ReadOne, borshUInt64D, finishPromiseResult, Inactive, Words64,
              Gathering!Read, Capacity, Word
<1>2. ASSUME NEW l \in Lengths, NEW v \in Values, r = Done(l, v)
      PROVE  ReadOne(r) = (IF l = 8 THEN v ELSE Fallback) /\ Gathering!Read(r) = (IF l = 8 THEN v ELSE Fallback)
  <2>1. l \in Nat
    BY PromiseAssumption
  <2> QED
    BY <1>2, <2>1 DEF Done, ReadOne, borshUInt64D, finishPromiseResult, Inactive, Gathering!Read, Capacity, Word
<1> QED
  BY <1>1, <1>2 DEF ChildResults, Replies, Words64

LEMMA KindsDiffer ==
  /\ Child("call").kind = "call" /\ Child("create_account").kind = "create_account"
  /\ \A inputs, n : Promise("then", inputs, n).kind = "then" /\ Promise("and", inputs, n).kind = "and"
  /\ \A inputs, n : Promise("then", inputs, n).inputs = inputs /\ Promise("and", inputs, n).inputs = inputs
  /\ \A inputs, n : Promise("then", inputs, n).fanIn = n
BY DEF Child, Promise

\* The call asks one child and gathers nothing.
Alone(c) ==
  /\ Len(graph[c]) = 1 /\ graph[c][1].kind \in {"call", "create_account"}
  /\ returned[c] \in {0, 1}
  /\ Asked(c) = [n |-> 1, gathers |-> FALSE]

\* The call asks n children and gathers them in its last promise, which it returns.
Gathers(c, n) ==
  /\ n \in FanIns /\ n \in 1..8
  /\ Asked(c) = [n |-> n, gathers |-> TRUE]
  /\ returned[c] = Len(graph[c]) /\ Len(graph[c]) > n
  /\ \A i \in 1..n : graph[c][i].kind = "call"
  /\ \A i \in 1..Len(graph[c]) :
       /\ i > n => graph[c][i].kind \in {"and", "then"}
       /\ graph[c][i].kind = "then" =>
            i = Len(graph[c]) /\ graph[c][i].fanIn = n /\ Inputs(c, i) = [k \in 1..n |-> k]
  /\ graph[c][Len(graph[c])].kind = "then"

LEMMA GraphShape ==
  ASSUME NEW c, Staged(graph[c], returned[c])
  PROVE  Alone(c) \/ \E n \in FanIns : Gathers(c, n)
<1> DEFINE g == graph[c]
<1>1. ASSUME NEW kind \in {"call", "create_account"}, Single(g, kind), returned[c] \in {0, 1}
      PROVE  Alone(c)
  <2>1. Len(g) = 1 /\ g[1].kind = kind
    BY <1>1, KindsDiffer DEF Single
  <2>2. \A i \in Promised(c) : g[i].kind \notin {"and", "then"}
    BY <1>1, <2>1 DEF Promised
  <2> QED
    BY <1>1, <2>1, <2>2 DEF Alone, Asked
<1>2. ASSUME Chained(g), returned[c] = 2, 1 \in FanIns
      PROVE  Gathers(c, 1)
  <2>1. Len(g) = 2 /\ g[1] = Child("call") /\ g[2] = Promise("then", <<1>>, 1)
    BY <1>2 DEF Chained
  <2>2. g[1].kind = "call" /\ g[2].kind = "then" /\ g[2].fanIn = 1 /\ g[2].inputs = <<1>>
    BY <2>1, KindsDiffer
  <2>3. Promised(c) = {1, 2}
    BY <2>1 DEF Promised
  <2>4. Asked(c) = [n |-> 1, gathers |-> TRUE]
    BY <2>1, <2>2, <2>3 DEF Asked
  <2>5. Inputs(c, 2) = [k \in 1..1 |-> k]
    <3>1. Inputs(c, 2) = <<1>>
      BY <2>2 DEF Inputs
    <3> QED
      BY <3>1
  <2> QED
    BY <1>2, <2>1, <2>2, <2>4, <2>5 DEF Gathers
<1>3. ASSUME NEW n \in FanIns \ {1}, Joined(g, n), returned[c] = n + 2
      PROVE  Gathers(c, n)
  <2>1. n \in 2..8
    BY <1>3, FanInRange
  <2>2. /\ Len(g) = n + 2 /\ \A i \in 1..n : g[i].kind = "call"
        /\ g[n + 1].kind = "and" /\ g[n + 1].inputs = [i \in 1..n |-> i]
        /\ g[n + 2].kind = "then" /\ g[n + 2].inputs = <<n + 1>> /\ g[n + 2].fanIn = n
    BY <1>3, KindsDiffer DEF Joined
  <2>3. Asked(c) = [n |-> n, gathers |-> TRUE]
    <3>1. n + 1 \in Promised(c) /\ n + 2 \in Promised(c) /\ Len(g) - 2 = n
      BY <2>1, <2>2 DEF Promised
    <3> QED
      BY <2>2, <3>1 DEF Asked
  <2>4. Inputs(c, n + 2) = [k \in 1..n |-> k]
    BY <2>2 DEF Inputs
  <2>5. \A i \in 1..Len(g) : i \in 1..n \/ i = n + 1 \/ i = n + 2
    BY <2>1, <2>2
  <2>6. \A i \in 1..Len(g) : g[i].kind = "then" => i = n + 2
    BY <2>2, <2>5
  <2>7. \A i \in 1..Len(g) : i > n => g[i].kind \in {"and", "then"}
    BY <2>1, <2>2, <2>5
  <2> QED
    BY <1>3, <2>1, <2>2, <2>3, <2>4, <2>6, <2>7 DEF Gathers
<1> QED
  BY <1>1, <1>2, <1>3 DEF Staged

LEMMA WordsOfGathered ==
  ASSUME NEW c \in Calls, IInv, NEW n, Gathers(c, n), NEW i \in 1..Len(graph[c]), graph[c][i].kind = "then"
  PROVE  /\ DOMAIN Inputs(c, i) = 1..n /\ \A k \in 1..n : Inputs(c, i)[k] = k
         /\ \A k \in 1..n : result[c][k] \in ChildResults
         /\ Words(c, i) = [k \in 1..n |-> ReadOne(result[c][k])]
         /\ Len(Words(c, i)) = n
         /\ \A k \in 1..n : Words(c, i)[k] \in Words64
<1>1. n \in Nat /\ n \in 1..8
  BY DEF Gathers
<1>2. Inputs(c, i) = [k \in 1..n |-> k]
  BY DEF Gathers
<1>3. \A k \in 1..n : k \in 1..Len(graph[c]) /\ graph[c][k].kind = "call"
  <2>1. Len(graph[c]) \in Nat
    BY DEF IInv, Typed
  <2> QED
    BY <1>1, <2>1 DEF Gathers
<1>4. \A k \in 1..n : result[c][k] \in ChildResults
  BY <1>3 DEF IInv, CallIsStaged, ResultsOf
<1> DEFINE read == [k \in 1..n |-> result[c][k]]
<1>5. DOMAIN read = 1..n /\ Len(read) = n
  BY <1>1
<1>6. Words(c, i) = Decoded(read)
  <2>1. [k \in DOMAIN Inputs(c, i) |-> result[c][Inputs(c, i)[k]]] = read
    BY <1>2
  <2> QED
    BY <2>1 DEF Words
<1>7. Decoded(read) = [k \in 1..n |-> ReadOne(read[k])]
  BY <1>1, <1>5, EachReadIsOwn
<1>8. Words(c, i) = [k \in 1..n |-> ReadOne(result[c][k])]
  BY <1>6, <1>7
<1>9. Len(Words(c, i)) = n
  BY <1>1, <1>8
<1>10. DOMAIN Inputs(c, i) = 1..n /\ \A k \in 1..n : Inputs(c, i)[k] = k
  BY <1>2
<1>11. \A k \in 1..n : Words(c, i)[k] \in Words64
  BY <1>4, <1>8, ReadOneIsWord
<1> QED
  BY <1>4, <1>8, <1>9, <1>10, <1>11

-----------------------------------------------------------------------------
(***************************************************************************)
(* The invariant.                                                          *)
(***************************************************************************)
LEMMA KindOfPromise ==
  ASSUME NEW g \in Seq(PromiseType), NEW i \in 1..Len(g)
  PROVE  g[i].kind \in Kinds
<1>1. g[i] \in PromiseType
  OBVIOUS
<1> QED
  BY <1>1 DEF PromiseType

LEMMA NotReadyIsResult == \A kind \in Kinds : NotReady \in ResultsOf(kind)
BY DEF Kinds, ResultsOf, ChildResults, CallbackResults

LEMMA InitIInv == Init => IInv
<1> SUFFICES ASSUME Init
             PROVE  IInv
  OBVIOUS
<1>1. Typed
  BY DEF Init, Typed, Idle
<1>2. ASSUME NEW c \in Calls
      PROVE  CallIsStaged(c)
  BY DEF Init, CallIsStaged
<1>3. EntryIsStaging
  BY DEF Init, EntryIsStaging, Idle
<1> QED
  BY <1>1, <1>2, <1>3 DEF IInv

LEMMA OthersStaged ==
  ASSUME NEW d \in Calls, CallIsStaged(d),
         caller'[d] = caller[d], graph'[d] = graph[d], result'[d] = result[d], returned'[d] = returned[d]
  PROVE  CallIsStaged(d)'
BY DEF CallIsStaged

\* A call that has not been sent may start, or end in failure, without disturbing the graphs.
LEMMA UnsentStaged ==
  ASSUME IInv, NEW c \in Calls, caller[c] # "ok", NEW verdict \in {"running", "failed"},
         caller' = [caller EXCEPT ![c] = verdict], UNCHANGED <<graph, result, returned>>
  PROVE  \A d \in Calls : CallIsStaged(d)'
<1> SUFFICES ASSUME NEW d \in Calls
             PROVE  CallIsStaged(d)'
  OBVIOUS
<1>1. CASE d = c
  BY <1>1 DEF IInv, Typed, CallIsStaged
<1>2. CASE d # c
  BY <1>2, OthersStaged DEF IInv, Typed
<1> QED
  BY <1>1, <1>2

LEMMA BeginIInv ==
  ASSUME IInv, NEW c \in Calls, NEW g \in Seq(PromiseType), NEW index, NEW fails \in BOOLEAN,
         Staged(g, index), Begin(c, g, index, fails)
  PROVE  IInv'
<1>1. /\ entry = Idle /\ caller[c] = "unsent" /\ caller' = [caller EXCEPT ![c] = "running"]
      /\ entry' = [call |-> c, promises |-> g, returns |-> index, fails |-> fails]
      /\ UNCHANGED <<staged, graph, result, returned, state>>
  BY DEF Begin
<1>2. index \in 0..10
  BY StagedIndex
<1>3. Len(staged) = 0
  BY <1>1 DEF IInv, Typed, EntryIsStaging, Idle
<1>4. Typed'
  BY <1>1, <1>2 DEF IInv, Typed
<1>5. EntryIsStaging'
  <2>1. caller'[c] = "running" /\ Staged(g, index)'
    BY <1>1 DEF IInv, Typed
  <2> QED
    BY <1>1, <1>3, <2>1 DEF EntryIsStaging, Staged
<1>6. \A d \in Calls : CallIsStaged(d)'
  BY <1>1, UnsentStaged
<1> QED
  BY <1>4, <1>5, <1>6 DEF IInv

LEMMA StageIInv ==
  ASSUME IInv, stage
  PROVE  IInv'
<1> DEFINE l == Len(staged)
           next == entry.promises[l + 1]
<1>1. /\ l < Len(entry.promises) /\ staged' = Append(staged, next)
      /\ UNCHANGED <<entry, caller, graph, result, returned, state>>
  BY DEF stage
<1>2. entry.promises \in Seq(PromiseType) /\ staged \in Seq(PromiseType) /\ l \in Nat
  BY DEF IInv, Typed
<1>3. next \in PromiseType
  <2>1. l + 1 \in 1..Len(entry.promises)
    BY <1>1, <1>2
  <2> QED
    BY <1>2, <2>1
<1>4. /\ staged' \in Seq(PromiseType) /\ Len(staged') = l + 1
      /\ \A i \in 1..(l + 1) : staged'[i] = IF i = l + 1 THEN next ELSE staged[i]
  <2> HIDE DEF next
  <2> QED
    BY <1>1, <1>2, <1>3
<1>5. Typed'
  BY <1>1, <1>4 DEF IInv, Typed
<1>6. EntryIsStaging'
  <2>1. Len(staged') <= Len(entry.promises)
    BY <1>1, <1>2, <1>4
  <2>2. \A i \in 1..Len(staged') : staged'[i] = entry.promises[i]
    BY <1>2, <1>4 DEF IInv, EntryIsStaging
  <2>3. entry' = entry /\ caller' = caller /\ (Staged(entry.promises, entry.returns) => Staged(entry.promises, entry.returns)')
    BY <1>1 DEF Staged
  <2> QED
    BY <2>1, <2>2, <2>3 DEF IInv, EntryIsStaging
<1>7. ASSUME NEW c \in Calls
      PROVE  CallIsStaged(c)'
  BY <1>1, OthersStaged DEF IInv
<1> QED
  BY <1>5, <1>6, <1>7 DEF IInv

\* An entry that has made all its host calls has staged all its promises.
LEMMA AllIsStaged ==
  ASSUME IInv, AllStaged
  PROVE  /\ entry # Idle /\ entry.call \in Calls /\ caller[entry.call] = "running"
         /\ staged \in Seq(PromiseType) /\ Staged(staged, entry.returns)
<1>1. /\ entry # Idle /\ entry.call \in Calls /\ caller[entry.call] = "running"
      /\ entry.promises \in Seq(PromiseType) /\ staged \in Seq(PromiseType)
      /\ Len(staged) = Len(entry.promises) /\ Staged(entry.promises, entry.returns)
      /\ \A i \in 1..Len(staged) : staged[i] = entry.promises[i]
  BY DEF AllStaged, IInv, Typed, EntryIsStaging
<1>2. staged = entry.promises
  BY <1>1
<1> QED
  BY <1>1, <1>2

\* An entry that ends leaves nothing staged.
LEMMA EndsStaging ==
  ASSUME entry' = Idle, staged' = <<>>
  PROVE  EntryIsStaging'
BY DEF EntryIsStaging, Idle

\* The call c sends the graph g and returns its promise index.
Sent(c, g, index) ==
  /\ caller[c] = "running"
  /\ caller' = [caller EXCEPT ![c] = "ok"]
  /\ graph' = [graph EXCEPT ![c] = g]
  /\ result' = [result EXCEPT ![c] = [i \in 1..Len(g) |-> NotReady]]
  /\ returned' = [returned EXCEPT ![c] = index]
  /\ state' = [state EXCEPT !.marker = c]
  /\ entry' = Idle /\ staged' = <<>>

LEMMA OkStateSends ==
  ASSUME IInv, okState
  PROVE  \E c \in Calls, g \in Seq(PromiseType), index \in 0..10 : Staged(g, index) /\ Sent(c, g, index)
<1>1. Staged(staged, entry.returns) /\ Sent(entry.call, staged, entry.returns)
  BY AllIsStaged DEF okState, Ends, Sends, Sent
<1>2. entry.call \in Calls /\ staged \in Seq(PromiseType)
  BY AllIsStaged DEF okState
<1>3. entry.returns \in 0..10
  BY <1>1, StagedIndex
<1> QED
  BY <1>1, <1>2, <1>3

LEMMA SentIInv ==
  ASSUME IInv, NEW c \in Calls, NEW g \in Seq(PromiseType), NEW index, Staged(g, index), Sent(c, g, index)
  PROVE  IInv'
<1>1. Len(g) \in 1..10 /\ index \in 0..10
  BY StagedIndex
<1>2. Typed'
  <2>1. entry' \in [call : Calls \cup {Nothing}, promises : Seq(PromiseType), returns : 0..10, fails : BOOLEAN]
        /\ staged' \in Seq(PromiseType)
    BY DEF Sent, Idle
  <2>2. caller' \in [Calls -> {"unsent", "running", "ok", "failed"}] /\ DOMAIN result' = Calls
    BY DEF IInv, Typed, Sent
  <2>3. graph' \in [Calls -> Seq(PromiseType)] /\ returned' \in [Calls -> 0..10]
    BY <1>1 DEF IInv, Typed, Sent
  <2>4. state' \in [marker : Calls \cup {Nothing}, low : Words64 \cup {Nothing}, high : Words64 \cup {Nothing}]
    BY DEF IInv, Typed, Sent
  <2> QED
    BY <2>1, <2>2, <2>3, <2>4 DEF Typed
<1>3. /\ caller'[c] = "ok" /\ graph'[c] = g /\ returned'[c] = index
      /\ result'[c] = [i \in 1..Len(g) |-> NotReady]
  BY DEF IInv, Typed, Sent
<1>4. CallIsStaged(c)'
  <2>1. \A i \in 1..Len(g) : g[i].kind \in Kinds
    BY KindOfPromise
  <2>2. \A i \in 1..Len(g) : NotReady \in ResultsOf(g[i].kind)
    BY <2>1, NotReadyIsResult
  <2>3. Staged(g, index)'
    OBVIOUS
  <2> QED
    BY <1>3, <2>2, <2>3 DEF CallIsStaged, Staged, ResultsOf
<1>5. ASSUME NEW d \in Calls, d # c
      PROVE  CallIsStaged(d)'
  <2>1. caller'[d] = caller[d] /\ graph'[d] = graph[d] /\ result'[d] = result[d] /\ returned'[d] = returned[d]
    BY <1>5 DEF IInv, Typed, Sent
  <2> QED
    BY <2>1, OthersStaged DEF IInv
<1>6. EntryIsStaging'
  BY EndsStaging DEF Sent
<1> QED
  BY <1>2, <1>4, <1>5, <1>6 DEF IInv

\* The running call fails, and sends nothing.
Dropped ==
  /\ entry # Idle
  /\ Ends("failed")
  /\ UNCHANGED <<graph, result, returned, state>>

LEMMA FailuresDrop == errorOverflow \/ Traps => Dropped
BY DEF errorOverflow, Traps, AllStaged, Dropped

LEMMA DroppedIInv ==
  ASSUME IInv, Dropped
  PROVE  IInv'
<1>1. /\ entry.call \in Calls /\ caller[entry.call] = "running"
      /\ caller' = [caller EXCEPT ![entry.call] = "failed"]
      /\ entry' = Idle /\ staged' = <<>> /\ UNCHANGED <<graph, result, returned, state>>
  BY DEF Dropped, Ends, IInv, EntryIsStaging
<1>2. Typed'
  BY <1>1 DEF IInv, Typed, Idle
<1>3. \A d \in Calls : CallIsStaged(d)'
  BY <1>1, UnsentStaged
<1>4. EntryIsStaging'
  BY <1>1, EndsStaging
<1> QED
  BY <1>2, <1>3, <1>4 DEF IInv

\* A receipt changes no result but its own, to one of its kind.
LEMMA ReceiptIInv ==
  ASSUME IInv, NEW c \in Calls, NEW i \in 1..Len(graph[c]), NEW r \in ResultsOf(graph[c][i].kind),
         result' = [result EXCEPT ![c][i] = r],
         state' \in [marker : Calls \cup {Nothing}, low : Words64 \cup {Nothing}, high : Words64 \cup {Nothing}],
         UNCHANGED <<entry, staged, caller, graph, returned>>
  PROVE  IInv'
<1>1. Typed' /\ EntryIsStaging'
  <2>1. Typed'
    BY DEF IInv, Typed
  <2>2. EntryIsStaging'
    BY DEF IInv, EntryIsStaging, Staged
  <2> QED
    BY <2>1, <2>2
<1>2. result'[c] = [result[c] EXCEPT ![i] = r]
  BY DEF IInv, Typed
<1>3. CallIsStaged(c)'
  <2>1. CallIsStaged(c)
    BY DEF IInv
  <2> QED
    BY <1>2, <2>1 DEF CallIsStaged
<1>4. ASSUME NEW d \in Calls, d # c
      PROVE  CallIsStaged(d)'
  <2>1. caller'[d] = caller[d] /\ graph'[d] = graph[d] /\ result'[d] = result[d] /\ returned'[d] = returned[d]
    BY <1>4 DEF IInv, Typed
  <2> QED
    BY <2>1, OthersStaged DEF IInv
<1> QED
  BY <1>1, <1>3, <1>4 DEF IInv

LEMMA CallbackOf ==
  ASSUME IInv, NEW c \in Calls, NEW i, Awaits(c, i, "then")
  PROVE  /\ i \in 1..Len(graph[c]) /\ graph[c][i].kind = "then"
         /\ \E n \in FanIns : Gathers(c, n)
<1>1. i \in 1..Len(graph[c]) /\ graph[c][i].kind = "then"
  BY DEF Awaits, Promised
<1>2. Staged(graph[c], returned[c])
  <2>1. graph[c] # <<>>
    BY <1>1
  <2> QED
    BY <2>1 DEF IInv, CallIsStaged
<1>3. ~ Alone(c)
  BY <1>1 DEF Alone
<1> QED
  BY <1>1, <1>2, <1>3, GraphShape

\* Every entry begins with a graph it stages.
Starts(c) ==
  \E g \in Seq(PromiseType), index \in 0..10, fails \in BOOLEAN : Staged(g, index) /\ Begin(c, g, index, fails)

LEMMA BeginStarts ==
  ASSUME NEW c, NEW g \in Seq(PromiseType), NEW index, NEW fails \in BOOLEAN,
         Staged(g, index), Begin(c, g, index, fails)
  PROVE  Starts(c)
<1>1. index \in 0..10
  BY StagedIndex
<1> QED
  BY <1>1 DEF Starts

LEMMA SendBegins ==
  ASSUME NEW c \in Calls, Send(c)
  PROVE  Starts(c)
<1>1. CASE send(c)
  BY <1>1, StagedSingle, BeginStarts DEF send, Staged
<1>2. CASE batchCreateAccount(c)
  BY <1>2, StagedSingle, BeginStarts DEF batchCreateAccount, Staged
<1>3. CASE sendReturned(c)
  BY <1>3, StagedSingle, BeginStarts DEF sendReturned, Staged
<1>4. CASE sendThen(c)
  BY <1>4, StagedChain, BeginStarts DEF sendThen, Staged
<1>5. CASE sendThenFail(c)
  BY <1>5, StagedSingle, BeginStarts DEF sendThenFail, Staged
<1>6. ASSUME NEW n \in FanIns \ {1}, sendAnd(c, n)
      PROVE  Starts(c)
  <2> DEFINE h == callAndThenReturned(n)
  <2>1. Joined(h, n) /\ h \in Seq(PromiseType) /\ Len(h) = n + 2
    BY StagedJoin DEF Joined
  <2>2. Staged(h, n + 2)
    BY <2>1 DEF Staged
  <2>3. Begin(c, h, n + 2, FALSE)
    BY <1>6, <2>1 DEF sendAnd
  <2> HIDE DEF h
  <2> QED
    BY <2>1, <2>2, <2>3, BeginStarts
<1> QED
  BY <1>1, <1>2, <1>3, <1>4, <1>5, <1>6 DEF Send

LEMMA NextIInv == IInv /\ [Next]_vars => IInv'
<1> SUFFICES ASSUME IInv, [Next]_vars
             PROVE  IInv'
  OBVIOUS
<1>1. ASSUME NEW c \in Calls, Send(c)
      PROVE  IInv'
  <2>1. PICK g \in Seq(PromiseType), index \in 0..10, fails \in BOOLEAN :
             Staged(g, index) /\ Begin(c, g, index, fails)
    BY <1>1, SendBegins DEF Starts
  <2> QED
    BY <2>1, BeginIInv
<1>2. ASSUME NEW c \in Calls, NEW i \in Promised(c), child(c, i)
      PROVE  IInv'
  <2>1. PICK kind \in {"call", "create_account"} : Awaits(c, i, kind)
    BY <1>2 DEF child
  <2>2. PICK reply \in Replies : result' = [result EXCEPT ![c][i] = reply]
    BY <1>2 DEF child
  <2>3. i \in 1..Len(graph[c]) /\ reply \in ResultsOf(graph[c][i].kind)
    BY <2>1 DEF Awaits, Promised, ResultsOf, ChildResults
  <2> QED
    BY <1>2, <2>2, <2>3, ReceiptIInv DEF child, IInv, Typed
<1>3. ASSUME NEW c \in Calls, NEW i \in Promised(c), Callback(c, i)
      PROVE  IInv'
  <2>1. Awaits(c, i, "then")
    BY <1>3 DEF Callback, callbackThen, callbackJoined, callbackFails
  <2>2. i \in 1..Len(graph[c]) /\ graph[c][i].kind = "then"
    BY <2>1, CallbackOf
  <2>3. PICK n \in FanIns : Gathers(c, n)
    BY <2>1, CallbackOf
  <2>4. ResultsOf(graph[c][i].kind) = CallbackResults
    BY <2>2 DEF ResultsOf
  <2>5. /\ Len(Words(c, i)) = n /\ \A k \in 1..n : Words(c, i)[k] \in Words64
        /\ n \in 1..8 /\ graph[c][i].fanIn = n
    BY <2>2, <2>3, WordsOfGathered DEF Gathers
  <2>6. CASE callbackThen(c, i)
    <3>1. Words(c, i)[1] \in Words64
      BY <2>5
    <3>2. Done(Word, Words(c, i)[1]) \in CallbackResults
      BY <3>1 DEF CallbackResults
    <3> QED
      BY <2>2, <2>4, <2>6, <3>2, ReceiptIInv DEF callbackThen, IInv, Typed
  <2>7. CASE callbackJoined(c, i)
    <3>1. n # 1 /\ {Words(c, i)[1], Words(c, i)[2], Words(c, i)[n]} \subseteq Words64
      BY <2>5, <2>7 DEF callbackJoined
    <3>2. Done(Word, Words(c, i)[n]) \in CallbackResults
      BY <3>1 DEF CallbackResults
    <3>3. /\ result' = [result EXCEPT ![c][i] = Done(Word, Words(c, i)[n])]
          /\ state' = [marker |-> c, low |-> Words(c, i)[1], high |-> Words(c, i)[2]]
          /\ UNCHANGED <<entry, staged, caller, graph, returned>>
      BY <2>5, <2>7 DEF callbackJoined
    <3> QED
      BY <2>2, <2>4, <3>1, <3>2, <3>3, ReceiptIInv DEF IInv, Typed
  <2>8. CASE callbackFails(c, i)
    <3>1. Failed \in CallbackResults
      BY DEF CallbackResults
    <3> QED
      BY <2>2, <2>4, <2>8, <3>1, ReceiptIInv DEF callbackFails, IInv, Typed
  <2> QED
    BY <1>3, <2>6, <2>7, <2>8 DEF Callback
<1>4. CASE UNCHANGED vars
  <2>1. Typed'
    BY <1>4 DEF vars, IInv, Typed
  <2>2. ASSUME NEW c \in Calls
        PROVE  CallIsStaged(c)'
    BY <1>4 DEF vars, IInv, CallIsStaged
  <2>3. EntryIsStaging'
    BY <1>4 DEF vars, IInv, EntryIsStaging, Staged
  <2> QED
    BY <2>1, <2>2, <2>3 DEF IInv
<1>5. CASE stage
  BY <1>5, StageIInv
<1>6. CASE okState
  BY <1>6, OkStateSends, SentIInv
<1>7. CASE errorOverflow \/ Traps
  BY <1>7, FailuresDrop, DroppedIInv
<1> QED
  BY <1>1, <1>2, <1>3, <1>4, <1>5, <1>6, <1>7 DEF Next, Receipt

LEMMA SpecIInv == Spec => []IInv
BY InitIInv, NextIInv, PTL DEF Spec

LEMMA IInvTypeOK == IInv => TypeOK
<1> SUFFICES ASSUME IInv
             PROVE  TypeOK
  OBVIOUS
<1>1. ASSUME NEW c \in Calls
      PROVE  /\ graph[c] \in Seq([kind : Kinds, inputs : Seq(1..9), fanIn : 0..8])
             /\ DOMAIN result[c] = Promised(c)
             /\ \A i \in Promised(c) : result[c][i] \in Results
             /\ returned[c] \in Promised(c) \cup {0}
  <2>1. \A kind : ResultsOf(kind) \subseteq Results \/ kind \notin Kinds
    BY DEF Kinds, ResultsOf, ChildResults, CallbackResults, Results, Replies
  <2>2. \A i \in Promised(c) : graph[c][i].kind \in Kinds
    BY KindOfPromise DEF IInv, Typed, Promised
  <2>3. \A i \in Promised(c) : result[c][i] \in Results
    BY <2>1, <2>2 DEF IInv, CallIsStaged, Promised
  <2>4. returned[c] \in Promised(c) \cup {0}
    <3>1. CASE caller[c] = "ok"
      <4>1. Len(graph[c]) \in 1..10 /\ returned[c] \in 0..Len(graph[c])
        BY <3>1, StagedLength DEF IInv, CallIsStaged
      <4> QED
        BY <4>1 DEF Promised
    <3>2. CASE caller[c] # "ok"
      BY <3>2 DEF IInv, CallIsStaged
    <3> QED
      BY <3>1, <3>2
  <2> QED
    BY <2>3, <2>4 DEF IInv, Typed, CallIsStaged, Promised, PromiseType
<1> QED
  BY <1>1 DEF TypeOK, IInv, Typed, EntryIsStaging

\* Whatever the order of the receipts and whatever the children answer, what a callback reads into
\* the contract's words and into its own result is a u64 or the fallback, a running entry has staged
\* the beginning of its graph, and every graph that was sent has one result for each promise, the
\* one it returns included (the entries and callbacks of NearPromise).
THEOREM SpecTypeOK == Spec => []TypeOK
BY SpecIInv, IInvTypeOK, PTL

-----------------------------------------------------------------------------
(***************************************************************************)
(* The refinement.                                                         *)
(***************************************************************************)
AnswersOf(c) == [i \in 1..Asked(c).n |-> result[c][i]]

LEMMA MappedParts ==
  ASSUME NEW c \in Calls
  PROVE  /\ [d \in Calls |-> AnswersOf(d)][c] = AnswersOf(c)
         /\ [d \in Calls |-> Asked(d).gathers][c] = Asked(c).gathers
         /\ [d \in Calls |-> Outcome(d)][c] = Outcome(c)
OBVIOUS

LEMMA AskedNothing ==
  ASSUME NEW c \in Calls, graph[c] = <<>>
  PROVE  Asked(c) = [n |-> 0, gathers |-> FALSE] /\ AnswersOf(c) = <<>>
<1>1. Promised(c) = {} /\ Len(graph[c]) = 0
  BY DEF Promised
<1>2. Asked(c) = [n |-> 0, gathers |-> FALSE]
  BY <1>1 DEF Asked
<1> QED
  BY <1>2 DEF AnswersOf

LEMMA InitRefines == Init => Gathering!GatherInit
<1> SUFFICES ASSUME Init
             PROVE  Gathering!GatherInit
  OBVIOUS
<1>1. \A c \in Calls : graph[c] = <<>> /\ caller[c] = "unsent"
  BY DEF Init
<1>2. \A c \in Calls : AnswersOf(c) = <<>> /\ Asked(c).gathers = FALSE /\ Outcome(c) = NotReady
  <2> SUFFICES ASSUME NEW c \in Calls
               PROVE  AnswersOf(c) = <<>> /\ Asked(c).gathers = FALSE /\ Outcome(c) = NotReady
    OBVIOUS
  <2>1. Asked(c) = [n |-> 0, gathers |-> FALSE] /\ AnswersOf(c) = <<>>
    BY <1>1, AskedNothing
  <2> QED
    BY <1>1, <2>1 DEF Outcome
<1> QED
  BY <1>2 DEF Gathering!GatherInit, Init, AnswersOf, NotReady, Gathering!Waiting

\* The shape of the graphs before a step is also their shape after it.
Shapes == \A c \in Calls : Staged(graph[c], returned[c]) => Alone(c) \/ \E n \in FanIns : Gathers(c, n)

LEMMA AllShapes == Shapes
BY GraphShape DEF Shapes

LEMMA NextShapes == Shapes'
BY AllShapes, PTL

\* The maps of the calls' answers, callbacks and outcomes.
AnswersMap == [c \in Calls |-> AnswersOf(c)]

GathersMap == [c \in Calls |-> Asked(c).gathers]

OutcomeMap == [c \in Calls |-> Outcome(c)]

LEMMA OthersMapped ==
  ASSUME NEW c \in Calls, \A d \in Calls \ {c} : /\ caller'[d] = caller[d] /\ graph'[d] = graph[d]
                                                 /\ result'[d] = result[d] /\ returned'[d] = returned[d]
  PROVE  /\ AnswersMap' = [AnswersMap EXCEPT ![c] = AnswersOf(c)']
         /\ GathersMap' = [GathersMap EXCEPT ![c] = Asked(c).gathers']
         /\ OutcomeMap' = [OutcomeMap EXCEPT ![c] = Outcome(c)']
<1>1. ASSUME NEW d \in Calls \ {c}
      PROVE  AnswersOf(d)' = AnswersOf(d) /\ Asked(d)' = Asked(d) /\ Outcome(d)' = Outcome(d)
  BY DEF AnswersOf, Asked, Outcome, Promised
<1> QED
  BY <1>1 DEF AnswersMap, GathersMap, OutcomeMap

\* The actions of ScatterGather over those maps.
LEMMA MappedWaiting == Gathering!Waiting = NotReady
BY DEF Gathering!Waiting, NotReady

LEMMA MappedAsk ==
  ASSUME NEW c \in Calls, NEW n, NEW gather, NEW own,
         OutcomeMap[c] = NotReady, AnswersMap[c] = <<>>,
         AnswersMap' = [AnswersMap EXCEPT ![c] = [i \in 1..n |-> NotReady]],
         GathersMap' = [GathersMap EXCEPT ![c] = gather],
         OutcomeMap' = [OutcomeMap EXCEPT ![c] = own],
         <<state.low, state.high>>' = <<state.low, state.high>>, state'.marker = c
  PROVE  Gathering!Ask(c, n, gather, own)
BY MappedWaiting DEF Gathering!Ask, AnswersMap, AnswersOf, GathersMap, OutcomeMap

LEMMA SentAsks ==
  ASSUME IInv, NEW c \in Calls, NEW g \in Seq(PromiseType), NEW index, Staged(g, index), Sent(c, g, index)
  PROVE  Gathering!GatherNext
<1>1. /\ graph'[c] = g /\ returned'[c] = index /\ caller'[c] = "ok"
      /\ result'[c] = [i \in 1..Len(g) |-> NotReady]
      /\ \A d \in Calls \ {c} : /\ caller'[d] = caller[d] /\ graph'[d] = graph[d]
                                /\ result'[d] = result[d] /\ returned'[d] = returned[d]
      /\ <<state.low, state.high>>' = <<state.low, state.high>> /\ state'.marker = c
  BY DEF Sent, IInv, Typed
<1>2. /\ AnswersMap' = [AnswersMap EXCEPT ![c] = AnswersOf(c)']
      /\ GathersMap' = [GathersMap EXCEPT ![c] = Asked(c).gathers']
      /\ OutcomeMap' = [OutcomeMap EXCEPT ![c] = Outcome(c)']
  BY <1>1, OthersMapped
<1>3. AnswersMap[c] = <<>> /\ OutcomeMap[c] = NotReady
  <2>1. caller[c] = "running" /\ graph[c] = <<>>
    BY DEF Sent, IInv, CallIsStaged
  <2> QED
    BY <2>1, AskedNothing DEF AnswersMap, OutcomeMap, Outcome
<1>4. Alone(c)' \/ \E n \in FanIns : Gathers(c, n)'
  BY <1>1, NextShapes DEF Shapes, Staged
<1>5. CASE Alone(c)'
  <2>1. Asked(c)' = [n |-> 1, gathers |-> FALSE] /\ Len(g) = 1 /\ index \in {0, 1}
    BY <1>1, <1>5 DEF Alone
  <2>2. AnswersOf(c)' = [i \in 1..1 |-> NotReady]
    BY <1>1, <2>1 DEF AnswersOf
  <2>3. PICK own \in {NotReady, Done(Word, Nothing)} : Outcome(c)' = own
    BY <1>1, <2>1 DEF Outcome
  <2>4. /\ AnswersMap' = [AnswersMap EXCEPT ![c] = [i \in 1..1 |-> NotReady]]
        /\ GathersMap' = [GathersMap EXCEPT ![c] = FALSE]
        /\ OutcomeMap' = [OutcomeMap EXCEPT ![c] = own]
    BY <1>2, <2>1, <2>2, <2>3
  <2>5. Gathering!Ask(c, 1, FALSE, own)
    BY <1>1, <1>3, <2>4, MappedAsk
  <2> QED
    BY <2>3, <2>5 DEF Gathering!GatherNext, NotReady, Done, Word, Gathering!Waiting, Gathering!Reply
<1>6. ASSUME NEW n \in FanIns, Gathers(c, n)'
      PROVE  Gathering!GatherNext
  <2>1. Asked(c)' = [n |-> n, gathers |-> TRUE] /\ index = Len(g) /\ Len(g) > n /\ n \in 1..8 /\ Len(g) \in Nat
    BY <1>1, <1>6 DEF Gathers
  <2>2. AnswersOf(c)' = [i \in 1..n |-> NotReady]
    BY <1>1, <2>1 DEF AnswersOf
  <2>3. Outcome(c)' = NotReady
    BY <1>1, <2>1 DEF Outcome
  <2>4. /\ AnswersMap' = [AnswersMap EXCEPT ![c] = [i \in 1..n |-> NotReady]]
        /\ GathersMap' = [GathersMap EXCEPT ![c] = TRUE]
        /\ OutcomeMap' = [OutcomeMap EXCEPT ![c] = NotReady]
    BY <1>2, <2>1, <2>2, <2>3
  <2>5. Gathering!Ask(c, n, TRUE, NotReady)
    BY <1>1, <1>3, <2>4, MappedAsk
  <2> QED
    BY <2>5 DEF Gathering!GatherNext, NotReady, Gathering!Waiting
<1> QED
  BY <1>4, <1>5, <1>6

LEMMA MappedRefuse ==
  ASSUME NEW c \in Calls, OutcomeMap[c] = NotReady, AnswersMap[c] = <<>>,
         OutcomeMap' = [OutcomeMap EXCEPT ![c] = Failed],
         AnswersMap' = AnswersMap, GathersMap' = GathersMap, UNCHANGED state
  PROVE  Gathering!Refuse(c)
<1>1. Gathering!Failure = Failed
  BY DEF Gathering!Failure, Gathering!Reply, Failed
<1> QED
  BY <1>1, MappedWaiting DEF Gathering!Refuse, AnswersMap, AnswersOf, GathersMap, OutcomeMap

LEMMA DroppedRefuses ==
  ASSUME IInv, Dropped
  PROVE  Gathering!GatherNext
<1>0. PICK c \in Calls : c = entry.call
  BY DEF Dropped, IInv, EntryIsStaging
<1>1. /\ c \in Calls /\ caller[c] = "running" /\ graph[c] = <<>> /\ caller'[c] = "failed"
      /\ UNCHANGED <<graph, result, returned, state>>
      /\ \A d \in Calls \ {c} : caller'[d] = caller[d]
  BY <1>0 DEF Dropped, Ends, IInv, Typed, EntryIsStaging, CallIsStaged
<1>2. AnswersMap[c] = <<>> /\ OutcomeMap[c] = NotReady
  BY <1>1, AskedNothing DEF AnswersMap, OutcomeMap, Outcome
<1>3. AnswersMap' = AnswersMap /\ GathersMap' = GathersMap
  BY <1>1 DEF AnswersMap, GathersMap, AnswersOf, Asked, Promised
<1>4. OutcomeMap' = [OutcomeMap EXCEPT ![c] = Failed]
  <2>1. OutcomeMap' = [OutcomeMap EXCEPT ![c] = Outcome(c)']
    BY <1>1, OthersMapped
  <2>2. Outcome(c)' = Failed
    BY <1>1 DEF Outcome
  <2> QED
    BY <2>1, <2>2
<1>5. Gathering!Refuse(c)
  BY <1>1, <1>2, <1>3, <1>4, MappedRefuse
<1> QED
  BY <1>5 DEF Gathering!GatherNext

\* A receipt leaves the graphs, so what every call asked.
Received(c, i, r) ==
  /\ AnswersMap' = [AnswersMap EXCEPT ![c] = AnswersOf(c)']
  /\ GathersMap' = GathersMap
  /\ OutcomeMap' = [OutcomeMap EXCEPT ![c] = Outcome(c)']
  /\ Asked(c)' = Asked(c)
  /\ caller[c] = "ok"
  /\ Staged(graph[c], returned[c])
  /\ \A j \in 1..Len(graph[c]) : result'[c][j] = IF j = i THEN r ELSE result[c][j]

LEMMA ReceiptMapped ==
  ASSUME IInv, NEW c \in Calls, NEW i \in 1..Len(graph[c]), NEW r,
         result' = [result EXCEPT ![c][i] = r], caller' = caller, graph' = graph, returned' = returned
  PROVE  Received(c, i, r)
<1>1. \A d \in Calls \ {c} : /\ caller'[d] = caller[d] /\ graph'[d] = graph[d]
                             /\ result'[d] = result[d] /\ returned'[d] = returned[d]
  BY DEF IInv, Typed
<1>2. Asked(c)' = Asked(c)
  BY DEF Asked, Promised
<1>3. GathersMap' = GathersMap
  BY DEF GathersMap, Asked, Promised
<1>4. graph[c] # <<>>
  OBVIOUS
<1>5. caller[c] = "ok" /\ Staged(graph[c], returned[c])
  BY <1>4 DEF IInv, CallIsStaged
<1>6. \A j \in 1..Len(graph[c]) : result'[c][j] = IF j = i THEN r ELSE result[c][j]
  BY DEF IInv, Typed, CallIsStaged
<1> QED
  BY <1>1, <1>2, <1>3, <1>5, <1>6, OthersMapped DEF Received

LEMMA MappedAnswer ==
  ASSUME NEW c \in Calls, NEW i \in DOMAIN AnswersMap[c], NEW reply \in Replies,
         AnswersMap[c][i] = NotReady,
         AnswersMap' = [AnswersMap EXCEPT ![c][i] = reply],
         GathersMap' = GathersMap,
         OutcomeMap' = IF GathersMap[c] \/ OutcomeMap[c] # NotReady THEN OutcomeMap
                       ELSE [OutcomeMap EXCEPT ![c] = reply],
         UNCHANGED state
  PROVE  Gathering!GatherNext
<1>1. reply \in Gathering!AnyAnswer
  BY DEF Replies, Gathering!AnyAnswer, Gathering!Failure, Gathering!Reply, Failed, Done
<1> DEFINE answers == [d \in Calls |-> [k \in 1..Asked(d).n |-> result[d][k]]]
           gathers == [d \in Calls |-> Asked(d).gathers]
           outcome == [d \in Calls |-> Outcome(d)]
<1>2. Gathering!Answer(c, i, reply)
  <2>1. answers[c][i] = Gathering!Waiting /\ answers' = [answers EXCEPT ![c][i] = reply]
    BY MappedWaiting DEF AnswersMap, AnswersOf
  <2>2. outcome' = IF gathers[c] \/ outcome[c] # Gathering!Waiting THEN outcome
                   ELSE [outcome EXCEPT ![c] = reply]
    BY MappedWaiting DEF GathersMap, OutcomeMap
  <2>3. gathers' = gathers /\ <<state.low, state.high>>' = <<state.low, state.high>>
    BY DEF GathersMap
  <2> QED
    BY <2>1, <2>2, <2>3 DEF Gathering!Answer
<1>3. i \in DOMAIN answers[c]
  BY DEF AnswersMap, AnswersOf
<1> QED
  BY <1>1, <1>2, <1>3 DEF Gathering!GatherNext

LEMMA ChildAnswers ==
  ASSUME IInv, NEW c \in Calls, NEW i, child(c, i)
  PROVE  Gathering!GatherNext
<1>1. /\ i \in 1..Len(graph[c]) /\ graph[c][i].kind \in {"call", "create_account"} /\ result[c][i] = NotReady
  BY DEF child, Awaits, Promised
<1>2. PICK reply \in Replies : result' = [result EXCEPT ![c][i] = reply]
  BY DEF child
<1>3. UNCHANGED <<caller, graph, returned, state>>
  BY DEF child
<1>4. Received(c, i, reply)
  BY <1>1, <1>2, <1>3, ReceiptMapped
<1>5. ASSUME NEW n \in Nat, Asked(c).n = n, i \in 1..n, n <= Len(graph[c])
      PROVE  /\ i \in DOMAIN AnswersMap[c] /\ AnswersMap[c][i] = NotReady
             /\ AnswersMap' = [AnswersMap EXCEPT ![c][i] = reply]
  <2>1. AnswersMap[c] = [j \in 1..n |-> result[c][j]]
    BY <1>5 DEF AnswersMap, AnswersOf
  <2>2. AnswersOf(c)' = [j \in 1..n |-> result'[c][j]]
    BY <1>4, <1>5 DEF Received, AnswersOf
  <2>3. Len(graph[c]) \in Nat
    BY DEF IInv, Typed
  <2>4. \A j \in 1..n : j \in 1..Len(graph[c])
    BY <1>5, <2>3
  <2>5. AnswersOf(c)' = [AnswersMap[c] EXCEPT ![i] = reply]
    BY <1>4, <2>1, <2>2, <2>4 DEF Received
  <2> QED
    BY <1>1, <1>4, <1>5, <2>1, <2>5 DEF Received
<1>6. CASE Alone(c)
  <2>1. i = 1 /\ Asked(c).n = 1 /\ Asked(c).gathers = FALSE /\ returned[c] \in {0, 1} /\ Len(graph[c]) = 1
    BY <1>1, <1>6 DEF Alone
  <2>2. /\ i \in DOMAIN AnswersMap[c] /\ AnswersMap[c][i] = NotReady
        /\ AnswersMap' = [AnswersMap EXCEPT ![c][i] = reply]
    BY <1>5, <2>1
  <2>3. GathersMap[c] = FALSE
    BY <2>1 DEF GathersMap
  <2>4. OutcomeMap' = IF OutcomeMap[c] # NotReady THEN OutcomeMap ELSE [OutcomeMap EXCEPT ![c] = reply]
    <3>1. CASE returned[c] = 0
      <4>1. Outcome(c) = Done(Word, Nothing) /\ Outcome(c)' = Done(Word, Nothing)
        BY <1>3, <1>4, <3>1 DEF Received, Outcome
      <4>2. Outcome(c) # NotReady /\ OutcomeMap[c] = Outcome(c)
        BY <4>1 DEF Done, NotReady, OutcomeMap
      <4>3. OutcomeMap' = OutcomeMap
        BY <1>4, <4>1 DEF Received, OutcomeMap
      <4> QED
        BY <4>2, <4>3
    <3>2. CASE returned[c] = 1
      <4>1. Outcome(c) = NotReady /\ Outcome(c)' = reply
        BY <1>1, <1>3, <1>4, <2>1, <3>2 DEF Received, Outcome
      <4> QED
        BY <1>4, <4>1 DEF Received, OutcomeMap
    <3> QED
      BY <2>1, <3>1, <3>2
  <2> QED
    BY <1>3, <1>4, <2>2, <2>3, <2>4, MappedAnswer DEF Received
<1>7. ASSUME NEW n \in FanIns, Gathers(c, n)
      PROVE  Gathering!GatherNext
  <2>1. n \in Nat /\ Len(graph[c]) \in Nat
    BY FanInRange DEF IInv, Typed
  <2>2. i \in 1..n /\ Asked(c).n = n /\ Asked(c).gathers = TRUE /\ n <= Len(graph[c])
        /\ returned[c] = Len(graph[c]) /\ returned[c] # i /\ returned[c] # 0
    BY <1>1, <1>7, <2>1 DEF Gathers
  <2>3. /\ i \in DOMAIN AnswersMap[c] /\ AnswersMap[c][i] = NotReady
        /\ AnswersMap' = [AnswersMap EXCEPT ![c][i] = reply]
    BY <1>5, <2>1, <2>2
  <2>4. GathersMap[c]
    BY <2>2 DEF GathersMap
  <2>5. Outcome(c)' = Outcome(c)
    BY <1>3, <1>4, <2>1, <2>2 DEF Received, Outcome
  <2>6. OutcomeMap' = OutcomeMap
    BY <1>4, <2>5 DEF Received, OutcomeMap
  <2> QED
    BY <1>3, <1>4, <2>3, <2>4, <2>6, MappedAnswer DEF Received
<1> QED
  BY <1>4, <1>6, <1>7, GraphShape DEF Received

\* A callback that ran: r is its result, and a join left its first two words in the contract.
LEMMA MappedGather ==
  ASSUME NEW c \in Calls, NEW n \in Nat, NEW r, Len(AnswersMap[c]) = n,
         GathersMap[c] = TRUE, OutcomeMap[c] = NotReady,
         \A k \in 1..n : AnswersMap[c][k] # NotReady,
         \/ /\ r = Done(Word, Gathering!Read(AnswersMap[c][n]))
            /\ <<state.low, state.high>>' =
                 IF n = 1 THEN <<state.low, state.high>>
                 ELSE <<Gathering!Read(AnswersMap[c][1]), Gathering!Read(AnswersMap[c][2])>>
            /\ state'.marker = c
         \/ r = Failed /\ UNCHANGED state,
         AnswersMap' = AnswersMap, GathersMap' = GathersMap,
         OutcomeMap' = [OutcomeMap EXCEPT ![c] = r]
  PROVE  Gathering!Gather(c)
<1> DEFINE answers == [d \in Calls |-> [k \in 1..Asked(d).n |-> result[d][k]]]
           gathers == [d \in Calls |-> Asked(d).gathers]
           outcome == [d \in Calls |-> Outcome(d)]
<1>1. /\ Len(answers[c]) = n /\ \A k \in 1..n : answers[c][k] # Gathering!Waiting
      /\ answers' = answers
  BY MappedWaiting DEF AnswersMap, AnswersOf
<1>2. gathers[c] /\ gathers' = gathers /\ outcome[c] = Gathering!Waiting /\ outcome' = [outcome EXCEPT ![c] = r]
  BY MappedWaiting DEF GathersMap, OutcomeMap
<1>3. AnswersMap = answers
  BY DEF AnswersMap, AnswersOf
<1>4. Failed = Gathering!Failure /\ \A v : Done(Word, v) = Gathering!Reply(1, 8, v)
  BY DEF Failed, Done, Word, Gathering!Failure, Gathering!Reply
<1>5. CASE /\ r = Done(Word, Gathering!Read(AnswersMap[c][n]))
           /\ <<state.low, state.high>>' =
                IF n = 1 THEN <<state.low, state.high>>
                ELSE <<Gathering!Read(AnswersMap[c][1]), Gathering!Read(AnswersMap[c][2])>>
           /\ state'.marker = c
  <2>1. outcome' = [outcome EXCEPT ![c] = Gathering!Reply(1, 8, Gathering!Read(answers[c][Len(answers[c])]))]
    <3>1. r = Gathering!Reply(1, 8, Gathering!Read(answers[c][Len(answers[c])]))
      <4> HIDE DEF answers
      <4> QED
        BY <1>1, <1>3, <1>4, <1>5
    <3> HIDE DEF answers, outcome
    <3> QED
      BY <1>2, <3>1
  <2>2. <<state.low, state.high>>' =
          IF Len(answers[c]) = 1 THEN <<state.low, state.high>>
          ELSE <<Gathering!Read(answers[c][1]), Gathering!Read(answers[c][2])>>
    BY <1>1, <1>3, <1>5
  <2>3. \A k \in 1..Len(answers[c]) : answers[c][k] # Gathering!Waiting
    BY <1>1
  <2> QED
    BY <1>1, <1>2, <1>5, <2>1, <2>2, <2>3 DEF Gathering!Gather
<1>6. CASE r = Failed /\ UNCHANGED state
  <2>1. outcome' = [outcome EXCEPT ![c] = Gathering!Failure]
    BY <1>2, <1>4, <1>6
  <2>2. \A k \in 1..Len(answers[c]) : answers[c][k] # Gathering!Waiting
    BY <1>1
  <2> QED
    BY <1>1, <1>2, <1>6, <2>1, <2>2 DEF Gathering!Gather
<1> QED
  BY <1>5, <1>6

LEMMA CallbackGathers ==
  ASSUME IInv, NEW c \in Calls, NEW i, Callback(c, i)
  PROVE  Gathering!Gather(c)
<1>1. Awaits(c, i, "then") /\ Ready(c, i)
  BY DEF Callback, callbackThen, callbackJoined, callbackFails
<1>2. i \in 1..Len(graph[c]) /\ graph[c][i].kind = "then" /\ result[c][i] = NotReady
  BY <1>1 DEF Awaits, Promised
<1>3. PICK n \in FanIns : Gathers(c, n)
  BY <1>1, CallbackOf
<1>4. n \in 1..8 /\ n \in Nat /\ i = Len(graph[c]) /\ i > n /\ returned[c] = i /\ graph[c][i].fanIn = n
      /\ Asked(c) = [n |-> n, gathers |-> TRUE]
  BY <1>2, <1>3 DEF Gathers
<1>5. /\ DOMAIN Inputs(c, i) = 1..n /\ \A k \in 1..n : Inputs(c, i)[k] = k
      /\ \A k \in 1..n : result[c][k] \in ChildResults
      /\ Words(c, i) = [k \in 1..n |-> ReadOne(result[c][k])]
  BY <1>2, <1>3, WordsOfGathered
<1>6. AnswersMap[c] = [k \in 1..n |-> result[c][k]]
  BY <1>4 DEF AnswersMap, AnswersOf
<1>7. \A k \in 1..n : AnswersMap[c][k] # NotReady
  BY <1>1, <1>5, <1>6 DEF Ready, NotReady
<1>8. Len(AnswersMap[c]) = n
  BY <1>4, <1>6
<1>9. \A k \in 1..n : Words(c, i)[k] = Gathering!Read(AnswersMap[c][k])
  BY <1>5, <1>6, ReadOneIsWord
<1>10. ASSUME NEW r, result' = [result EXCEPT ![c][i] = r], caller' = caller, graph' = graph, returned' = returned
       PROVE  /\ GathersMap[c] = TRUE /\ OutcomeMap[c] = NotReady
              /\ AnswersMap' = AnswersMap /\ GathersMap' = GathersMap
              /\ OutcomeMap' = [OutcomeMap EXCEPT ![c] = r]
  <2>1. Received(c, i, r)
    BY <1>2, <1>10, ReceiptMapped
  <2>2. AnswersOf(c)' = AnswersMap[c]
    <3>1. AnswersOf(c)' = [k \in 1..n |-> result'[c][k]]
      BY <1>4, <2>1 DEF AnswersOf, Received
    <3>2. \A k \in 1..n : k \in 1..Len(graph[c]) /\ k # i
      BY <1>2, <1>4
    <3>3. \A k \in 1..n : result'[c][k] = result[c][k]
      BY <2>1, <3>2 DEF Received
    <3> QED
      BY <1>6, <3>1, <3>3
  <2>3. AnswersMap' = AnswersMap
    BY <2>1, <2>2 DEF Received, AnswersMap
  <2>4. Outcome(c) = NotReady /\ Outcome(c)' = r
    BY <1>2, <1>4, <1>10, <2>1 DEF Outcome, Received
  <2>5. GathersMap[c] = TRUE /\ OutcomeMap[c] = NotReady
    BY <1>4, <2>4 DEF GathersMap, OutcomeMap
  <2> QED
    BY <2>1, <2>3, <2>4, <2>5 DEF Received
<1>11. CASE callbackThen(c, i)
  <2>1. n = 1 /\ result' = [result EXCEPT ![c][i] = Done(Word, Words(c, i)[1])]
        /\ state' = [state EXCEPT !.marker = c] /\ caller' = caller /\ graph' = graph /\ returned' = returned
    BY <1>4, <1>11 DEF callbackThen
  <2>2. <<state.low, state.high>>' = <<state.low, state.high>>
    BY <2>1 DEF IInv, Typed
  <2>3. Words(c, i)[1] = Gathering!Read(AnswersMap[c][n])
    BY <1>9, <2>1
  <2>4. <<state.low, state.high>>' =
          IF n = 1 THEN <<state.low, state.high>>
          ELSE <<Gathering!Read(AnswersMap[c][1]), Gathering!Read(AnswersMap[c][2])>>
    BY <2>1, <2>2
  <2> DEFINE r == Done(Word, Gathering!Read(AnswersMap[c][n]))
  <2>5. result' = [result EXCEPT ![c][i] = r] /\ r = Done(Word, Gathering!Read(AnswersMap[c][n]))
    BY <2>1, <2>3
  <2> HIDE DEF r
  <2>6. /\ GathersMap[c] = TRUE /\ OutcomeMap[c] = NotReady
        /\ AnswersMap' = AnswersMap /\ GathersMap' = GathersMap
        /\ OutcomeMap' = [OutcomeMap EXCEPT ![c] = r]
    BY <1>10, <2>1, <2>5
  <2>7. state'.marker = c
    BY <2>1 DEF IInv, Typed
  <2> QED
    BY <1>4, <1>7, <1>8, <2>4, <2>5, <2>6, <2>7, MappedGather
<1>12. CASE callbackJoined(c, i)
  <2>1. n # 1 /\ result' = [result EXCEPT ![c][i] = Done(Word, Words(c, i)[n])]
        /\ state' = [marker |-> c, low |-> Words(c, i)[1], high |-> Words(c, i)[2]]
        /\ caller' = caller /\ graph' = graph /\ returned' = returned
    BY <1>4, <1>12 DEF callbackJoined
  <2>2. <<state.low, state.high>>' = <<Gathering!Read(AnswersMap[c][1]), Gathering!Read(AnswersMap[c][2])>>
    BY <1>4, <1>9, <2>1
  <2>3. <<state.low, state.high>>' =
          IF n = 1 THEN <<state.low, state.high>>
          ELSE <<Gathering!Read(AnswersMap[c][1]), Gathering!Read(AnswersMap[c][2])>>
    BY <2>1, <2>2
  <2>4. Words(c, i)[n] = Gathering!Read(AnswersMap[c][n])
    BY <1>4, <1>9
  <2>5. state'.marker = c
    BY <2>1
  <2>6. /\ GathersMap[c] = TRUE /\ OutcomeMap[c] = NotReady
        /\ AnswersMap' = AnswersMap /\ GathersMap' = GathersMap
        /\ OutcomeMap' = [OutcomeMap EXCEPT ![c] = Done(Word, Words(c, i)[n])]
    BY <1>10, <2>1
  <2> QED
    BY <1>4, <1>7, <1>8, <2>3, <2>4, <2>5, <2>6, MappedGather
<1>13. CASE callbackFails(c, i)
  <2>1. result' = [result EXCEPT ![c][i] = Failed] /\ state' = state
        /\ caller' = caller /\ graph' = graph /\ returned' = returned
    BY <1>13 DEF callbackFails
  <2> QED
    BY <1>4, <1>7, <1>8, <1>10, <2>1, MappedGather
<1> QED
  BY <1>11, <1>12, <1>13 DEF Callback

\* A call that starts, and one more promise staged, are invisible.
LEMMA QuietStep ==
  ASSUME IInv, UNCHANGED <<graph, result, returned, state>>,
         \A c \in Calls : Outcome(c)' = Outcome(c)
  PROVE  UNCHANGED Gathering!gathering
<1>1. ASSUME NEW c \in Calls
      PROVE  AnswersOf(c)' = AnswersOf(c) /\ Asked(c)' = Asked(c)
  BY DEF AnswersOf, Asked, Promised
<1>2. AnswersMap' = AnswersMap /\ GathersMap' = GathersMap /\ OutcomeMap' = OutcomeMap
  BY <1>1 DEF AnswersMap, GathersMap, OutcomeMap
<1> QED
  BY <1>2 DEF Gathering!gathering, AnswersMap, AnswersOf, GathersMap, OutcomeMap

LEMMA BeginIsQuiet ==
  ASSUME IInv, NEW c \in Calls, NEW g, NEW index, NEW fails, Begin(c, g, index, fails)
  PROVE  UNCHANGED Gathering!gathering
<1>1. /\ caller[c] = "unsent" /\ caller' = [caller EXCEPT ![c] = "running"]
      /\ UNCHANGED <<graph, result, returned, state>>
  BY DEF Begin
<1>2. ASSUME NEW d \in Calls
      PROVE  Outcome(d)' = Outcome(d)
  <2>1. CASE d = c
    <3>1. caller[d] = "unsent" /\ caller'[d] = "running"
      BY <1>1, <2>1 DEF IInv, Typed
    <3> QED
      BY <3>1 DEF Outcome
  <2>2. CASE d # c
    <3>1. caller'[d] = caller[d]
      BY <1>1, <2>2 DEF IInv, Typed
    <3> QED
      BY <1>1, <3>1 DEF Outcome
  <2> QED
    BY <2>1, <2>2
<1> QED
  BY <1>1, <1>2, QuietStep

LEMMA NextRefines == IInv /\ [Next]_vars => [Gathering!GatherNext]_Gathering!gathering
<1> SUFFICES ASSUME IInv, [Next]_vars
             PROVE  [Gathering!GatherNext]_Gathering!gathering
  OBVIOUS
<1>1. ASSUME NEW c \in Calls, Send(c)
      PROVE  UNCHANGED Gathering!gathering
  BY <1>1, SendBegins, BeginIsQuiet DEF Starts
<1>2. CASE stage \/ UNCHANGED vars
  <2>1. UNCHANGED <<caller, graph, result, returned, state>>
    BY <1>2 DEF stage, vars
  <2>2. \A c \in Calls : Outcome(c)' = Outcome(c)
    BY <2>1 DEF Outcome
  <2>3. UNCHANGED Gathering!gathering
    BY <2>1, <2>2, QuietStep
  <2> QED
    BY <2>3
<1>3. ASSUME NEW c \in Calls, Receipt(c)
      PROVE  Gathering!GatherNext
  <2>1. ASSUME NEW i \in Promised(c), Callback(c, i)
        PROVE  Gathering!GatherNext
    BY <2>1, CallbackGathers DEF Gathering!GatherNext
  <2> QED
    BY <1>3, <2>1, ChildAnswers DEF Receipt
<1>4. CASE okState
  BY <1>4, OkStateSends, SentAsks
<1>5. CASE errorOverflow \/ Traps
  BY <1>5, FailuresDrop, DroppedRefuses
<1> QED
  BY <1>1, <1>2, <1>3, <1>4, <1>5 DEF Next

\* The promises a call stages amount to asking its children at once and gathering what they say in
\* the order they were asked, whatever the number of children, the order of the receipts and what
\* fails; and a call that fails or is stopped while it stages them asks nobody and leaves no mark
\* (stagePromiseCall, stagePromiseAndN and stagePromiseThen; the entries and callbacks of NearPromise).
THEOREM RefinesScatterGather == Spec => ImplementsScatterGather
<1>1. Init => Gathering!GatherInit
  BY InitRefines
<1>2. IInv /\ [Next]_vars => [Gathering!GatherNext]_Gathering!gathering
  BY NextRefines
<1> QED
  BY <1>1, <1>2, SpecIInv, PTL DEF Spec, ImplementsScatterGather, Gathering!GatherSpec
====
