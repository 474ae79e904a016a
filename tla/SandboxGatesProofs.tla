--------------------------- MODULE SandboxGatesProofs ---------------------------
EXTENDS SandboxGates, CollectionGatesProofs

\* The words of the arithmetic contract, for every Half.
THEOREM LimbsAreNumbersHolds == Spec => []LimbsAreNumbers
<1>1. LimbsAreNumbers
  BY Compares, Adds, Subtracts, Multiplies DEF LimbsAreNumbers
<1> QED
  BY <1>1, PTL

\* Buffer64: a call that does not trap reads what it set itself, for every size of a page, number
\* of pages, capacity and sequence of operations.
THEOREM BuffersAreOwnHolds == Spec => []BuffersAreOwn
<1>1. BuffersAreOwn
  BY ReadsOwn DEF BuffersAreOwn
<1> QED
  BY <1>1, PTL

-----------------------------------------------------------------------------
CallsOnly(script, methods) ==
  /\ Len(script) \in Nat
  /\ \A i \in 1..Len(script) :
       /\ script[i].caught \in Nat
       /\ script[i].does = "call" => script[i].method \in methods /\ script[i].arg \in Nat

LEMMA CallsOnlyJoins ==
  ASSUME NEW a, NEW b, NEW methods, CallsOnly(a, methods), CallsOnly(b, methods)
  PROVE  CallsOnly(a \o b, methods)
BY DEF CallsOnly

TreeMethods == {"deploy", "initialize", "putKey", "putValue", "removeTail"}

VectorMethods == {"deploy", "initialize", "push", "setFirst", "pop"}

LEMMA ViewsCalls ==
  ASSUME NEW method, NEW values, Len(values) \in Nat, NEW methods
  PROVE  CallsOnly(ViewsAt(method, values), methods)
BY DEF CallsOnly, ViewsAt, Views, Step

LEMMA TreeMapCalls == CallsOnly(TreeMapScript, TreeMethods)
<1>1. CallsOnly(Deployed(0), TreeMethods)
  BY DEF CallsOnly, Deployed, Sends, Step, TreeMethods
<1>2. \A key, value \in Nat : CallsOnly(Puts(key, value), TreeMethods)
  BY DEF CallsOnly, Puts, Sends, Step, TreeMethods
<1>3. ASSUME NEW key \in Nat, NEW value \in Nat
      PROVE  CallsOnly(Try(Puts(key, value)), TreeMethods)
  <2> DEFINE puts == Puts(key, value)
             guarded == [i \in 1..Len(puts) |-> [puts[i] EXCEPT !.caught = Len(puts) + 2 - i, !.claims = TRUE]]
  <2>1. Len(puts) = 2 /\ puts[1] = Sends("putKey", key, Anything) /\ puts[2] = Sends("putValue", value, Anything)
    BY DEF Puts
  <2> HIDE DEF puts
  <2>2. Len(guarded) = 2 /\ \A i \in 1..2 : guarded[i] = [puts[i] EXCEPT !.caught = 4 - i, !.claims = TRUE]
    BY <2>1
  <2> HIDE DEF guarded
  <2>5. 1 \in 1..2 /\ 2 \in 1..2
    OBVIOUS
  <2>6. /\ guarded[1] = [puts[1] EXCEPT !.caught = 4 - 1, !.claims = TRUE]
        /\ guarded[2] = [puts[2] EXCEPT !.caught = 4 - 2, !.claims = TRUE]
    BY ONLY <2>2, <2>5, Zenon
  <2>a. /\ guarded[1] = [Sends("putKey", key, Anything) EXCEPT !.caught = 4 - 1, !.claims = TRUE]
        /\ guarded[2] = [Sends("putValue", value, Anything) EXCEPT !.caught = 4 - 2, !.claims = TRUE]
    BY ONLY <2>1, <2>6, Zenon
  <2>b. /\ guarded[1].caught = 3 /\ guarded[1].method = "putKey" /\ guarded[1].arg = key
        /\ guarded[2].caught = 2 /\ guarded[2].method = "putValue" /\ guarded[2].arg = value
    BY <2>a DEF Sends, Step
  <2>3. CallsOnly(guarded, TreeMethods)
    <3>1. \A i \in 1..2 : i = 1 \/ i = 2
      OBVIOUS
    <3> QED
      BY <2>2, <2>b, <3>1 DEF CallsOnly, TreeMethods
  <2>4. CallsOnly(<<Unreachable>>, TreeMethods)
    <3>1. Unreachable.does # "call" /\ Unreachable.caught = 0
      BY DEF Unreachable, Step
    <3> QED
      BY <3>1 DEF CallsOnly
  <2> QED
    BY <2>3, <2>4, CallsOnlyJoins DEF Try, guarded, puts
<1>4. CallsOnly(<< Views("get", 0, 0) >>, TreeMethods)
  BY DEF CallsOnly, Views, Step
<1>5. CallsOnly(<< Views("get", 0, 3), Views("has", 5, 1), Views("has", 20, 1), Views("has", 100, 1),
                   Views("has", 7, 0), Views("getValue", 20, 2000) >>, TreeMethods)
  BY DEF CallsOnly, Views, Step
<1>6. CallsOnly(ViewsAt("keyAt", <<5, 20, 100, 0>>), TreeMethods)
  BY ViewsCalls
<1>7. CallsOnly(<< Views("get", 0, 3), Sends("removeTail", 100, Anything), Views("get", 0, 2),
                   Views("has", 100, 0) >>, TreeMethods)
  BY DEF CallsOnly, Views, Sends, Step, TreeMethods
<1>8. CallsOnly(<< Views("get", 0, 2) >>, TreeMethods)
  BY DEF CallsOnly, Views, Step
<1> QED
  BY <1>1, <1>2, <1>3, <1>4, <1>5, <1>6, <1>7, <1>8, CallsOnlyJoins DEF TreeMapScript

LEMMA VectorCalls == CallsOnly(VectorScript, VectorMethods)
<1>1. CallsOnly(Deployed(0), VectorMethods)
  BY DEF CallsOnly, Deployed, Sends, Step, VectorMethods
<1>2. CallsOnly(<< Remembers, Views("get", 0, 0), Views("getAt", 0, 0), Rejects("setFirst", 9),
                   Rejects("pop", 0), Unchanged,
                   Sends("push", 1, 1), Sends("push", 2, 2), Views("get", 0, 2) >>, VectorMethods)
  BY DEF CallsOnly, Views, Sends, Remembers, Rejects, Unchanged, Step, VectorMethods
<1>3. CallsOnly(ViewsAt("getAt", <<1, 2>>), VectorMethods)
  BY ViewsCalls
<1>4. CallsOnly(
        << Stores([k \in {<<"VEC1", 0>>, <<"VEC1", 1>>} |-> k[2] + 1]),
          Sends("setFirst", 8, 8), Views("getAt", 0, 8), One(<<"VEC1", 0>>, 8), One(<<"VEC1", 1>>, 2),
          Sends("pop", 0, 1), Lacks({<<"VEC1", 1>>}), One(<<"VEC1", 0>>, 8), Views("getAt", 1, 0),
          Sends("push", 30, Anything), Sends("push", 40, Anything), Sends("push", 50, Anything),
          Views("get", 0, 4) >>, VectorMethods)
  BY DEF CallsOnly, Stores, One, Lacks, Views, Sends, Step, VectorMethods
<1>5. CallsOnly(RejectsUnchanged("push", 60), VectorMethods)
  BY DEF CallsOnly, RejectsUnchanged, Remembers, Rejects, Unchanged, Step, VectorMethods
<1>6. CallsOnly(<< Views("getAt", 99, 0) >>, VectorMethods)
  BY DEF CallsOnly, Views, Step
<1> QED
  BY <1>1, <1>2, <1>3, <1>4, <1>5, <1>6, CallsOnlyJoins DEF VectorScript

-----------------------------------------------------------------------------
(***************************************************************************)
(* What a step of the gate's process, and one of the node, does to the     *)
(* place in the script and to the transactions.                            *)
(***************************************************************************)
At(i) == Script[gate][i]

\* The step is over: it was no call, or the answer to the call is in.
Proceeds ==
  /\ pc' = pc + 1 /\ phase' = "idle"
  /\ At(pc).does = "call" => phase = "waiting" /\ outcome.step = pc

\* An except clause of the gate.
Catches == At(pc).caught # 0 /\ pc' = pc + At(pc).caught /\ phase' = "idle"

Signs == At(pc).does = "call" /\ phase' = "signed" /\ pc' = pc

Submits ==
  /\ phase = "signed" /\ phase' = "waiting" /\ pc' = pc
  /\ pool' = pool \cup {[signer |-> At(pc).signer, nonce |-> nonce, step |-> pc]}

ClientMoves ==
  /\ verdict = "running" /\ pc <= Len(Script[gate])
  /\ verdict' \in {"running", "failed"}
  /\ UNCHANGED <<gate, executed, outcome, calls>>
  /\ polls' \in {0, polls} \/ (polls' = polls + 1 /\ polls + 1 < Polls)
  /\ lost' \in {lost, TRUE}
  /\ mistaken \in BOOLEAN => mistaken' \in BOOLEAN
  /\ \/ (Proceeds \/ Catches \/ UNCHANGED <<pc, phase>>) /\ UNCHANGED pool
     \/ phase = "idle" /\ Signs /\ UNCHANGED pool
     \/ Submits

LEMMA StepAt ==
  ASSUME NEW step \in CurrentStep
  PROVE  verdict = "running" /\ pc <= Len(Script[gate]) /\ step = At(pc)
BY DEF CurrentStep, At

LEMMA AsksMoves ==
  ASSUME NEW step \in CurrentStep, Asks(step), UNCHANGED calls
  PROVE  ClientMoves
<1>1. verdict = "running" /\ pc <= Len(Script[gate]) /\ step = At(pc)
  BY StepAt
<1>2. CASE access_key(step)
  BY <1>1, <1>2 DEF access_key, ClientMoves, Signs, nodeVars
<1>3. CASE broadcast_tx_commit(step)
  BY <1>1, <1>3 DEF broadcast_tx_commit, ClientMoves, Submits
<1>4. CASE answer(step)
  BY <1>1, <1>4 DEF answer, Raise, Fail, Advance, Proceed, nodeVars, ClientMoves, Proceeds, Catches
<1>5. CASE NotReached(step)
  BY <1>1, <1>5 DEF NotReached, Fail, nodeVars, ClientMoves
<1> QED
  BY <1>2, <1>3, <1>4, <1>5 DEF Asks

LEMMA LosesMoves ==
  ASSUME NEW step \in CurrentStep, Loses(step), UNCHANGED calls
  PROVE  ClientMoves
<1>1. verdict = "running" /\ pc <= Len(Script[gate]) /\ step = At(pc)
  BY StepAt
<1> QED
  BY <1>1 DEF Loses, rpc_call_raises, answer_not_read, Raise, Fail, Proceed, nodeVars, ClientMoves, Catches

\* A view, a poll and a look at the keys are no calls.
LEMMA LooksMoves ==
  ASSUME NEW step \in CurrentStep, Looks(step)
  PROVE  ClientMoves
<1>1. verdict = "running" /\ pc <= Len(Script[gate]) /\ step = At(pc)
  BY StepAt
<1>2. UNCHANGED calls
  BY DEF Looks, LedgerLooks, RegistrationLooks, PlainView, CounterView, StateView, YieldPoll, ledgerVars, tokenVars
<1>3. ASSUME NEW found, NEW value, ViewAnswers(step, found, value)
      PROVE  ClientMoves
  BY <1>1, <1>2, <1>3 DEF ViewAnswers, Raise, Fail, Advance, Proceed, nodeVars, ClientMoves, Proceeds, Catches
<1>4. ASSUME NEW value, PollAnswers(step, value)
      PROVE  ClientMoves
  BY <1>1, <1>2, <1>4 DEF PollAnswers, Fail, Advance, Proceed, nodeVars, ClientMoves, Proceeds
<1>5. ASSUME NEW stored, StateAnswers(step, stored)
      PROVE  ClientMoves
  BY <1>1, <1>2, <1>5 DEF StateAnswers, Fail, Advance, Proceed, nodeVars, ClientMoves, Proceeds
<1>6. ASSUME NEW what \in {"logs", "receipts"}, NEW actual, Compared(step, what, actual)
      PROVE  ClientMoves
  BY <1>1, <1>2, <1>6 DEF Compared, Fail, Advance, Proceed, nodeVars, ClientMoves, Proceeds
<1>7. CASE PlainView(step)
  BY <1>7, <1>3 DEF PlainView
<1>8. CASE CounterView(step)
  BY <1>8, <1>3 DEF CounterView
<1>9. CASE StateView(step)
  BY <1>9, <1>5 DEF StateView
<1>10. CASE YieldPoll(step)
  BY <1>10, <1>4 DEF YieldPoll
<1>11. CASE LedgerLooks(step)
  BY <1>11, <1>3, <1>5, <1>6 DEF LedgerLooks
<1>12. CASE RegistrationLooks(step)
  BY <1>12, <1>3, <1>5, <1>6 DEF RegistrationLooks, RegistrationView
<1> QED
  BY <1>7, <1>8, <1>9, <1>10, <1>11, <1>12 DEF Looks

-----------------------------------------------------------------------------
\* A transfer call exists only once a transaction ran.
CallsHaveRun == calls["call"] # FreeCall => executed # <<>>

\* A transaction runs, and is answered now or by a later receipt.
Runs(tx) ==
  /\ pool' = pool \ {tx} /\ executed' = Append(executed, tx.step)
  /\ outcome' = outcome \/ outcome'.step = tx.step

\* A receipt of the last transaction: it may answer the client.
Settles ==
  /\ executed # <<>> /\ UNCHANGED <<pool, executed>>
  /\ outcome' = outcome \/ outcome'.step = executed[Len(executed)]

NodeMoves ==
  /\ UNCHANGED <<gate, pc, phase, polls, mistaken, verdict>>
  /\ lost' \in {lost, TRUE}
  /\ \/ \E tx \in pool : Runs(tx)
     \/ \E tx \in pool : pool' = pool \ {tx} /\ UNCHANGED <<executed, outcome, calls>>
     \/ Settles /\ UNCHANGED calls
     \/ Settles /\ calls["call"] # FreeCall
     \/ UNCHANGED <<pool, executed, outcome, calls>>

LEMMA ExecutesMoves ==
  ASSUME Executes
  PROVE  NodeMoves
<1>1. PICK tx \in pool : CollectionRuns(tx) \/ LedgerRuns(tx) \/ RegistrationRuns(tx)
  BY DEF Executes
<1>2. Included(tx)
  BY <1>1 DEF CollectionRuns, LedgerRuns, RegistrationRuns
<1>3. ASSUME CollectionRuns(tx)
      PROVE  outcome' = outcome \/ outcome'.step = tx.step
  <2> DEFINE s == Script[gate][tx.step]
  <2>1. CASE FlatCall(tx, s)
    BY <2>1 DEF FlatCall, Answered
  <2>2. CASE QueueCall(tx, s)
    BY <2>2 DEF QueueCall, Installs, Answered
  <2>3. CASE IterableCall(tx, s)
    BY <2>3 DEF IterableCall, Installs, MapCall, SetCall, Answered
  <2>4. CASE CounterCall(tx, s)
    BY <2>4 DEF CounterCall, Answered
  <2> QED
    BY <1>3, <2>1, <2>2, <2>3, <2>4 DEF CollectionRuns
<1>4. ASSUME LedgerRuns(tx)
      PROVE  outcome' = outcome \/ outcome'.step = tx.step
  BY <1>4 DEF LedgerRuns, TokenCall, DualSetMax, ScheduledCall, RejectedCall, Answered
<1>5. ASSUME RegistrationRuns(tx)
      PROVE  outcome' = outcome \/ outcome'.step = tx.step
  BY <1>5 DEF RegistrationRuns, InstallsRegistry, InitializesRegistry, RegistryCall, Answered
<1>6. Runs(tx)
  BY <1>1, <1>2, <1>3, <1>4, <1>5 DEF Runs, Included
<1> QED
  BY <1>2, <1>6 DEF NodeMoves, Included, clientVars

LEMMA ReceiptsMoves ==
  ASSUME Receipts, CallsHaveRun
  PROVE  NodeMoves
<1>1. CASE receiver_answers /\ UNCHANGED <<collectionVars, registrationVars>>
  <2>1. UNCHANGED <<clientVars, nodeVars, lost>> /\ calls["call"] # FreeCall
    BY <1>1 DEF receiver_answers
  <2> QED
    BY <2>1 DEF NodeMoves, Settles, CallsHaveRun, clientVars, nodeVars
<1>2. CASE resolver_runs
  <2>1. /\ UNCHANGED <<clientVars, pool, accessNonce, executed, lost>>
        /\ Contract!Delivered("call") /\ outcome'.step = Current
    BY <1>2 DEF resolver_runs, Contract!ft_resolve_transfer, Contract!ResolverPanics, Answered
  <2>2. calls["call"] # FreeCall
    BY <2>1 DEF Contract!Delivered
  <2> QED
    BY <2>1, <2>2 DEF NodeMoves, Settles, CallsHaveRun, clientVars, Current
<1>3. CASE \E tx \in 1..Len(Script[gate]) : yield_times_out(tx) /\ UNCHANGED <<ledgerVars, registrationVars>>
  <2>1. /\ UNCHANGED <<clientVars, pool, accessNonce, executed, lost, calls>>
        /\ executed # <<>> /\ outcome'.step = executed[Len(executed)]
    BY <1>3 DEF yield_times_out, ledgerVars, tokenVars
  <2> QED
    BY <2>1 DEF NodeMoves, Settles, clientVars
<1> QED
  BY <1>1, <1>2, <1>3 DEF Receipts

LEMMA OthersMove ==
  ASSUME Drops \/ Visited \/ UNCHANGED vars
  PROVE  NodeMoves
<1>1. CASE Drops
  BY <1>1 DEF Drops, dropped, NodeMoves, clientVars, contractVars, ledgerVars, tokenVars
<1>2. CASE Visited
  BY <1>2 DEF Visited, visit, visit_registry, NodeMoves, clientVars, nodeVars, ledgerVars, tokenVars
<1>3. CASE UNCHANGED vars
  BY <1>3 DEF vars, NodeMoves, clientVars, nodeVars, contractVars, ledgerVars, tokenVars
<1> QED
  BY <1>1, <1>2, <1>3

Finishes ==
  /\ verdict = "running" /\ pc > Len(Script[gate]) /\ verdict' = "passed"
  /\ UNCHANGED <<gate, pc, phase, polls, lost, mistaken, pool, executed, outcome, calls>>

\* Every step of the gate and its node is one of these.
LEMMA StepMoves ==
  ASSUME [Next]_vars, CallsHaveRun
  PROVE  ClientMoves \/ NodeMoves \/ Finishes
<1>1. CASE Client
  <2>1. ASSUME NEW step \in CurrentStep, (Asks(step) \/ Loses(step)) /\ UNCHANGED contractVars
        PROVE  ClientMoves
    <3>1. UNCHANGED calls
      BY <2>1 DEF contractVars, ledgerVars, tokenVars
    <3> QED
      BY <2>1, <3>1, AsksMoves, LosesMoves
  <2>2. ASSUME Finish /\ UNCHANGED contractVars
        PROVE  Finishes
    BY <2>2 DEF Finish, Finishes, nodeVars, contractVars, ledgerVars, tokenVars
  <2> QED
    BY <1>1, <2>1, <2>2, LooksMoves DEF Client
<1> QED
  BY <1>1, ExecutesMoves, ReceiptsMoves, OthersMove DEF Next

-----------------------------------------------------------------------------
Steps == Len(Script[gate])

PlaceOK ==
  /\ gate \in Gates /\ pc \in 1..(Steps + 1)
  /\ phase \in {"idle", "signed", "waiting"}
  /\ phase # "idle" => pc <= Steps /\ At(pc).does = "call"
  /\ polls \in 0..(Polls - 1) /\ lost \in BOOLEAN /\ mistaken \in BOOLEAN
  /\ verdict \in {"running", "passed", "failed"}
  /\ verdict = "passed" => pc = Steps + 1

TransactionsOK ==
  /\ \A tx \in pool : /\ tx.step \in 1..Steps /\ At(tx.step).does = "call"
                     /\ tx.signer = At(tx.step).signer
  /\ executed \in Seq(1..Steps)
  /\ \A n \in 1..Len(executed) : At(executed[n]).does = "call"
  /\ CallsHaveRun

\* A step is submitted once, and the script does not go back: a transaction is of an earlier step,
\* or of the one whose answer the gate waits for.
SentOnce ==
  /\ \A n \in 1..Len(executed) : executed[n] <= pc /\ (executed[n] = pc => phase = "waiting")
  /\ \A tx \in pool : tx.step <= pc /\ (tx.step = pc => phase = "waiting")
  /\ \A tx \in pool, n \in 1..Len(executed) : executed[n] # tx.step
  /\ \A t, u \in pool : t.step = u.step => t = u

\* The gate leaves a call it does not catch only when it ran.
InTurn ==
  /\ \A tx \in pool : At(tx.step).caught = 0 => tx.step = pc
  /\ \A m, n \in Ran : m < n => executed[m] < executed[n]
  /\ \A i \in CallsOf(gate) : i < pc => \E n \in 1..Len(executed) : executed[n] = i
  /\ outcome.step # 0 => \E n \in 1..Len(executed) : executed[n] = outcome.step

ClientInv == PlaceOK /\ TransactionsOK /\ SentOnce /\ InTurn

LEMMA ScriptFacts ==
  ASSUME gate \in Gates
  PROVE  /\ Steps \in Nat
         /\ \A i \in 1..Steps :
              /\ At(i).caught \in 0..(Steps + 1 - i)
              /\ \A j \in (i + 1)..(i + At(i).caught - 1) : At(j).does = "call" => At(j).caught # 0
BY ScriptsAssumption DEF WellNested, Steps, At

LEMMA ClientInitial == Init => ClientInv
<1> SUFFICES ASSUME Init PROVE ClientInv
  OBVIOUS
<1>1. PICK g \in Gates : Start(g)
  BY DEF Init
<1>2. calls["call"] = FreeCall
  BY DEF Init, LedgerInit, Contract!Init
<1>3. Steps \in Nat
  BY <1>1, ScriptFacts DEF Start
<1>4. PlaceOK
  <2>1. /\ gate \in Gates /\ pc = 1 /\ phase = "idle" /\ polls = 0
        /\ lost = FALSE /\ mistaken = FALSE /\ verdict = "running"
    BY <1>1, Zenon DEF Start
  <2>2. 0 \in 0..(Polls - 1) /\ 1 \in 1..(Steps + 1)
    BY <1>3, PollsAssumption
  <2> QED
    BY <2>1, <2>2 DEF PlaceOK
<1>5. TransactionsOK
  BY <1>1, <1>2 DEF Start, TransactionsOK, CallsHaveRun
<1>6. SentOnce
  BY <1>1 DEF Start, SentOnce
<1>7. InTurn
  BY <1>1 DEF Start, InTurn, Ran, CallsOf
<1> QED
  BY <1>4, <1>5, <1>6, <1>7 DEF ClientInv

\* Where a step of the gate leaves the place.
LEMMA PlaceKept ==
  ASSUME PlaceOK, TransactionsOK, ClientMoves \/ NodeMoves \/ Finishes
  PROVE  PlaceOK'
<1>1. Steps' = Steps /\ \A i : At(i)' = At(i)
  BY DEF ClientMoves, NodeMoves, Finishes, Steps, At
<1>2. Steps \in Nat /\ Polls \in Nat \ {0} /\ (pc <= Steps => At(pc).caught \in 0..(Steps + 1 - pc))
  BY ScriptFacts, PollsAssumption DEF PlaceOK
<1>3. CASE ClientMoves
  <2>1. pc <= Steps /\ verdict = "running"
    BY <1>3 DEF ClientMoves, Steps
  <2>2. /\ gate' \in Gates /\ pc' \in 1..(Steps + 1) /\ phase' \in {"idle", "signed", "waiting"}
        /\ phase' # "idle" => pc' <= Steps /\ At(pc').does = "call"
    BY <1>1, <1>2, <1>3, <2>1 DEF PlaceOK, ClientMoves, Proceeds, Catches, Signs, Submits
  <2>3. polls' \in 0..(Polls - 1) /\ lost' \in BOOLEAN /\ mistaken' \in BOOLEAN
    <3>1. polls' \in 0..(Polls - 1)
      <4>1. polls \in 0..(Polls - 1) /\ (polls' \in {0, polls} \/ (polls' = polls + 1 /\ polls + 1 < Polls))
        BY <1>3 DEF PlaceOK, ClientMoves
      <4> QED
        BY <1>2, <4>1
    <3>2. lost' \in BOOLEAN
      BY <1>3 DEF PlaceOK, ClientMoves
    <3>3. mistaken' \in BOOLEAN
      BY <1>3, Zenon DEF PlaceOK, ClientMoves
    <3> QED
      BY <3>1, <3>2, <3>3
  <2>4. verdict' \in {"running", "failed"}
    BY <1>3 DEF ClientMoves
  <2> QED
    BY <1>1, <2>2, <2>3, <2>4 DEF PlaceOK
<1>4. CASE NodeMoves
  BY <1>1, <1>4 DEF PlaceOK, NodeMoves
<1>5. CASE Finishes
  BY <1>1, <1>2, <1>5 DEF PlaceOK, Finishes, Steps
<1> QED
  BY <1>3, <1>4, <1>5

LEMMA TransactionsKept ==
  ASSUME PlaceOK, TransactionsOK, ClientMoves \/ NodeMoves \/ Finishes
  PROVE  TransactionsOK'
<1>1. Steps' = Steps /\ \A i : At(i)' = At(i)
  BY DEF ClientMoves, NodeMoves, Finishes, Steps, At
<1>3. CASE ClientMoves
  <2>1. pc \in 1..Steps
    BY <1>3 DEF ClientMoves, Steps, PlaceOK
  <2>2. CASE UNCHANGED pool
    BY <1>1, <1>3, <2>2 DEF TransactionsOK, ClientMoves, CallsHaveRun
  <2>3. CASE Submits
    BY <1>1, <1>3, <2>1, <2>3 DEF TransactionsOK, ClientMoves, CallsHaveRun, Submits, PlaceOK
  <2> QED
    BY <1>3, <2>2, <2>3 DEF ClientMoves
<1>4. CASE NodeMoves
  <2>1. CASE \E tx \in pool : Runs(tx)
    <3>1. PICK tx \in pool : Runs(tx)
      BY <2>1
    <3>2. tx.step \in 1..Steps /\ At(tx.step).does = "call"
      BY DEF TransactionsOK
    <3>3. /\ executed' \in Seq(1..Steps) /\ executed' # <<>> /\ Len(executed') = Len(executed) + 1
          /\ \A n \in 1..Len(executed') : IF n = Len(executed) + 1 THEN executed'[n] = tx.step
                                         ELSE n \in 1..Len(executed) /\ executed'[n] = executed[n]
      BY <3>1, <3>2 DEF Runs, TransactionsOK
    <3>4. pool' \subseteq pool
      BY <3>1 DEF Runs
    <3>5. \A n \in 1..Len(executed') : At(executed'[n]).does = "call"
      BY <3>2, <3>3 DEF TransactionsOK
    <3> QED
      BY <1>1, <3>3, <3>4, <3>5 DEF TransactionsOK, CallsHaveRun
  <2>2. CASE pool' \subseteq pool /\ UNCHANGED <<executed, calls>>
    BY <1>1, <2>2 DEF TransactionsOK, CallsHaveRun
  <2>3. CASE Settles
    BY <1>1, <2>3 DEF TransactionsOK, CallsHaveRun, Settles
  <2> QED
    BY <1>4, <2>1, <2>2, <2>3 DEF NodeMoves
<1>5. CASE Finishes
  BY <1>1, <1>5 DEF TransactionsOK, Finishes, CallsHaveRun
<1> QED
  BY <1>3, <1>4, <1>5

\* What a transaction that runs adds.
LEMMA RunsAppends ==
  ASSUME TransactionsOK, NEW tx \in pool, Runs(tx)
  PROVE  /\ Len(executed) \in Nat /\ Len(executed') = Len(executed) + 1
         /\ executed'[Len(executed) + 1] = tx.step
         /\ \A n \in 1..Len(executed) : executed'[n] = executed[n]
         /\ \A n \in 1..Len(executed') : n = Len(executed) + 1 \/ n \in 1..Len(executed)
BY DEF TransactionsOK, Runs

LEMMA SentOnceKept ==
  ASSUME PlaceOK, TransactionsOK, SentOnce, ClientMoves \/ NodeMoves \/ Finishes
  PROVE  SentOnce'
<1>1. pc \in Nat /\ \A n \in 1..Len(executed) : executed[n] \in Nat
  BY ScriptFacts DEF PlaceOK, TransactionsOK
<1>2. \A tx \in pool : tx.step \in Nat
  BY DEF TransactionsOK
<1>3. CASE ClientMoves
  <2>1. pc <= Steps /\ At(pc).caught \in Nat /\ UNCHANGED executed
    BY <1>3, ScriptFacts DEF ClientMoves, Steps, PlaceOK
  <2>2. CASE Proceeds /\ UNCHANGED pool
    BY <1>1, <1>2, <2>1, <2>2 DEF SentOnce, Proceeds
  <2>3. CASE Catches /\ UNCHANGED pool
    BY <1>1, <1>2, <2>1, <2>3 DEF SentOnce, Catches
  <2>4. CASE UNCHANGED <<pc, phase, pool>>
    BY <2>1, <2>4 DEF SentOnce
  <2>5. CASE phase = "idle" /\ Signs /\ UNCHANGED pool
    BY <2>1, <2>5 DEF SentOnce, Signs
  <2>6. CASE Submits
    <3> DEFINE new == [signer |-> At(pc).signer, nonce |-> nonce, step |-> pc]
    <3>1. /\ phase = "signed" /\ phase' = "waiting" /\ pc' = pc /\ pool' = pool \cup {new} /\ new.step = pc
      BY <2>6 DEF Submits
    <3> HIDE DEF new
    <3>2. /\ \A n \in 1..Len(executed) : executed[n] # pc
          /\ \A tx \in pool : tx.step # pc
      BY <3>1 DEF SentOnce
    <3> QED
      BY <1>1, <2>1, <3>1, <3>2 DEF SentOnce
  <2> QED
    BY <1>3, <2>2, <2>3, <2>4, <2>5, <2>6 DEF ClientMoves
<1>4. CASE NodeMoves
  <2>1. UNCHANGED <<pc, phase>>
    BY <1>4 DEF NodeMoves
  <2>2. ASSUME NEW tx \in pool, Runs(tx)
        PROVE  SentOnce'
    <3>1. pool' = pool \ {tx}
      BY <2>2 DEF Runs
    <3>2. \A n \in 1..Len(executed') : executed'[n] <= pc /\ (executed'[n] = pc => phase = "waiting")
      BY <2>2, RunsAppends DEF SentOnce
    <3>3. \A t \in pool' : t.step # tx.step
      BY <3>1 DEF SentOnce
    <3>4. \A t \in pool', n \in 1..Len(executed') : executed'[n] # t.step
      BY <2>2, <3>1, <3>3, RunsAppends DEF SentOnce
    <3> QED
      BY <2>1, <3>1, <3>2, <3>4 DEF SentOnce
  <2>3. CASE pool' \subseteq pool /\ UNCHANGED executed
    BY <2>1, <2>3 DEF SentOnce
  <2> QED
    BY <1>4, <2>2, <2>3 DEF NodeMoves, Settles
<1>5. CASE Finishes
  BY <1>5 DEF SentOnce, Finishes
<1> QED
  BY <1>3, <1>4, <1>5

LEMMA InTurnKept ==
  ASSUME PlaceOK, TransactionsOK, SentOnce, InTurn, ClientMoves \/ NodeMoves \/ Finishes
  PROVE  InTurn'
<1> DEFINE HasRun(i) == \E n \in 1..Len(executed) : executed[n] = i
<1>1. /\ Steps' = Steps /\ CallsOf(gate)' = CallsOf(gate) /\ \A i : At(i)' = At(i)
  BY DEF ClientMoves, NodeMoves, Finishes, Steps, At, CallsOf
<1>2. /\ pc \in Nat /\ pc >= 1 /\ Steps \in Nat
      /\ \A i \in CallsOf(gate) : i \in 1..Steps /\ At(i).does = "call" /\ At(i).caught = 0
  BY ScriptFacts DEF PlaceOK, CallsOf, At, Steps
<1>3. CASE ClientMoves
  <2>1. pc \in 1..Steps /\ UNCHANGED <<executed, outcome>>
    BY <1>2, <1>3 DEF ClientMoves, Steps
  <2>2. Ran' = Ran
    BY <1>1, <1>3 DEF ClientMoves, Ran
  <2>3. CASE Proceeds /\ UNCHANGED pool
    <3>1. pc' = pc + 1 /\ (At(pc).does = "call" => HasRun(pc))
      BY <1>2, <2>3 DEF Proceeds, InTurn
    <3>2. \A tx \in pool : At(tx.step).caught # 0
      BY <3>1 DEF InTurn, TransactionsOK, SentOnce
    <3>3. \A i \in CallsOf(gate) : i < pc + 1 => HasRun(i)
      <4>1. \A i \in CallsOf(gate) : i < pc + 1 => i < pc \/ i = pc
        BY <1>2
      <4> QED
        BY <1>2, <3>1, <4>1 DEF InTurn
    <3> QED
      BY <1>1, <2>1, <2>2, <2>3, <3>1, <3>2, <3>3 DEF InTurn
  <2>4. CASE Catches /\ UNCHANGED pool
    <3> DEFINE jump == At(pc).caught
    <3>1. pc' = pc + jump /\ jump # 0 /\ jump \in Nat
      BY <2>1, <2>4, ScriptFacts DEF Catches, PlaceOK
    <3>2. \A tx \in pool : At(tx.step).caught # 0
      BY <3>1 DEF InTurn
    <3>3. ASSUME NEW i \in CallsOf(gate), i < pc + jump
          PROVE  i < pc
      <4>1. i \in 1..Steps /\ At(i).does = "call" /\ At(i).caught = 0 /\ i # pc
        BY <1>2, <3>1
      <4>2. i \notin (pc + 1)..(pc + jump - 1)
        BY <2>1, <4>1, ScriptFacts DEF PlaceOK
      <4> QED
        BY <1>2, <3>1, <3>3, <4>1, <4>2
    <3> QED
      BY <1>1, <2>1, <2>2, <2>4, <3>1, <3>2, <3>3 DEF InTurn
  <2>5. CASE UNCHANGED <<pc, phase, pool>>
    BY <1>1, <2>1, <2>2, <2>5 DEF InTurn
  <2>6. CASE Signs /\ UNCHANGED pool
    BY <1>1, <2>1, <2>2, <2>6 DEF InTurn, Signs
  <2>7. CASE Submits
    <3>1. pc' = pc /\ \A tx \in pool' : tx \in pool \/ tx.step = pc
      BY <2>7 DEF Submits
    <3> QED
      BY <1>1, <2>1, <2>2, <3>1 DEF InTurn
  <2> QED
    BY <1>3, <2>3, <2>4, <2>5, <2>6, <2>7 DEF ClientMoves
<1>4. CASE NodeMoves
  <2>1. UNCHANGED <<gate, pc, phase>>
    BY <1>4 DEF NodeMoves
  <2>2. ASSUME NEW tx \in pool, Runs(tx)
        PROVE  InTurn'
    <3>1. pool' \subseteq pool
      BY <2>2 DEF Runs
    <3>2. \A i : HasRun(i) => HasRun(i)'
      BY <2>2, RunsAppends
    <3>3. HasRun(tx.step)'
      BY <2>2, RunsAppends
    <3>4. \A n \in Ran' : n \in Ran \/ (n = Len(executed) + 1 /\ At(tx.step).caught = 0)
      BY <2>1, <2>2, RunsAppends DEF Ran, At
    <3>5. \A n \in Ran : n \in 1..Len(executed) /\ executed'[n] = executed[n] /\ executed[n] <= pc
      BY <2>2, RunsAppends DEF Ran, SentOnce
    <3>6. ASSUME NEW m \in Ran', NEW n \in Ran', m < n
          PROVE  executed'[m] < executed'[n]
      <4>1. CASE n \in Ran
        <5>1. m \in Ran
          BY <2>2, <3>4, <3>5, <3>6, <4>1, RunsAppends
        <5> QED
          BY <3>5, <3>6, <4>1, <5>1 DEF InTurn
      <4>2. CASE n = Len(executed) + 1 /\ At(tx.step).caught = 0
        <5>1. m \in Ran
          BY <2>2, <3>4, <3>6, <4>2, RunsAppends
        <5>2. executed'[n] = tx.step /\ tx.step = pc
          BY <2>2, <4>2, RunsAppends DEF InTurn
        <5>3. executed[m] # pc /\ executed[m] \in Nat
          <6>1. m \in 1..Len(executed)
            BY <3>5, <5>1
          <6>2. executed[m] # pc
            <7>1. executed[m] # tx.step
              BY <2>2, <6>1 DEF SentOnce
            <7> QED
              BY <5>2, <7>1
          <6>3. executed[m] \in 1..Steps
            BY <1>2, <6>1 DEF TransactionsOK
          <6> QED
            BY <1>2, <6>2, <6>3
        <5> QED
          BY <1>2, <3>5, <5>1, <5>2, <5>3
      <4> QED
        BY <3>4, <4>1, <4>2
    <3>8. outcome'.step # 0 => \E n \in 1..Len(executed') : executed'[n] = outcome'.step
      BY <2>2, <3>2, <3>3 DEF InTurn, Runs
    <3> QED
      BY <1>1, <2>1, <3>1, <3>2, <3>6, <3>8 DEF InTurn
  <2>3. CASE pool' \subseteq pool /\ UNCHANGED <<executed, outcome>>
    BY <1>1, <2>1, <2>3 DEF InTurn, Ran
  <2>4. CASE Settles
    <3>1. executed # <<>> /\ UNCHANGED <<pool, executed>>
          /\ (outcome' = outcome \/ outcome'.step = executed[Len(executed)])
      BY <2>4 DEF Settles
    <3>2. Len(executed) \in 1..Len(executed)
      BY <3>1 DEF TransactionsOK
    <3> QED
      BY <1>1, <2>1, <3>1, <3>2 DEF InTurn, Ran
  <2> QED
    BY <1>4, <2>2, <2>3, <2>4 DEF NodeMoves
<1>5. CASE Finishes
  BY <1>1, <1>5 DEF InTurn, Finishes, Ran
<1> QED
  BY <1>3, <1>4, <1>5

\* Whatever is lost, the gate stays in its script and its calls in their turn.
THEOREM ClientInvariant == Spec => []ClientInv
<1>1. ClientInv /\ [Next]_vars => ClientInv'
  <2> SUFFICES ASSUME ClientInv, [Next]_vars PROVE ClientInv'
    OBVIOUS
  <2>1. ClientMoves \/ NodeMoves \/ Finishes
    BY StepMoves DEF ClientInv, TransactionsOK
  <2> QED
    BY <2>1, PlaceKept, TransactionsKept, SentOnceKept, InTurnKept DEF ClientInv
<1> QED
  BY <1>1, ClientInitial, PTL DEF Spec

\* TypeOK of the gates: sign_and_send and the polls stay where the script and their bounds put them.
THEOREM GatesTypeOK == Spec => []TypeOK
<1>1. ClientInv => TypeOK
  BY DEF ClientInv, PlaceOK, TransactionsOK, SentOnce, TypeOK, Steps, At
<1> QED
  BY <1>1, ClientInvariant, PTL

\* sign_and_send: a gate that passed has run each of its transactions once and in its order.
THEOREM PassedRanEachOnceHolds == Spec => []PassedRanEachOnce
<1>1. ClientInv => PassedRanEachOnce
  <2> SUFFICES ASSUME ClientInv, verdict = "passed"
               PROVE  {executed[n] : n \in Ran} = CallsOf(gate)
    BY DEF PassedRanEachOnce, ClientInv, InTurn
  <2>1. pc = Steps + 1 /\ Steps \in Nat
    BY ScriptFacts DEF ClientInv, PlaceOK
  <2>2. ASSUME NEW n \in Ran
        PROVE  executed[n] \in CallsOf(gate)
    <3>1. n \in 1..Len(executed) /\ At(executed[n]).caught = 0
      BY DEF Ran, At
    <3>2. executed[n] \in 1..Steps /\ At(executed[n]).does = "call"
      BY <2>1, <3>1 DEF ClientInv, TransactionsOK
    <3> QED
      BY <3>1, <3>2 DEF CallsOf, At, Steps
  <2>3. ASSUME NEW i \in CallsOf(gate)
        PROVE  \E n \in Ran : i = executed[n]
    <3>1. i \in 1..Steps /\ At(i).caught = 0
      BY DEF CallsOf, At, Steps
    <3>2. i < pc
      BY <2>1, <3>1
    <3>3. PICK n \in 1..Len(executed) : executed[n] = i
      BY <3>2 DEF ClientInv, InTurn
    <3> QED
      BY <3>1, <3>3 DEF Ran, At
  <2> QED
    BY <2>2, <2>3
<1> QED
  BY <1>1, ClientInvariant, PTL

-----------------------------------------------------------------------------
(***************************************************************************)
(* What the contracts keep, whoever calls them: the storage of the gate's  *)
(* account changes only by their calls.                                    *)
(***************************************************************************)

\* The gate's own calls, or those of others when it is over.
Calls == {<<At(tx.step).method, At(tx.step).arg>> : tx \in pool} \cup Visits

HomeMoves ==
  /\ gate' = gate /\ "test.near" \in DOMAIN chain'
  /\ \/ UNCHANGED Home
     \/ \E call \in Calls : Home' = Run(Home, call[1], call[2]).storage

LEMMA StepHome ==
  ASSUME [Next]_vars, gate \in {"treemap", "vector"}, "test.near" \in DOMAIN chain
  PROVE  HomeMoves
<1>1. ASSUME UNCHANGED <<gate, chain>>
      PROVE  HomeMoves
  BY <1>1 DEF HomeMoves, Home
<1>2. CASE Client
  <2>1. ASSUME NEW step \in CurrentStep, Asks(step) \/ Loses(step), UNCHANGED contractVars
        PROVE  HomeMoves
    <3>1. UNCHANGED gate
      BY <2>1 DEF Asks, Loses, access_key, broadcast_tx_commit, answer, NotReached, rpc_call_raises, answer_not_read,
                  Raise, Fail, Advance, Proceed
    <3> QED
      BY <1>1, <2>1, <3>1 DEF contractVars, collectionVars
  <2>2. ASSUME NEW step \in CurrentStep, Looks(step)
        PROVE  HomeMoves
    <3>1. UNCHANGED chain
      BY <2>2 DEF Looks, LedgerLooks, RegistrationLooks, PlainView, CounterView, StateView, YieldPoll, collectionVars
    <3>2. UNCHANGED gate
      BY <2>2, LooksMoves DEF ClientMoves
    <3> QED
      BY <1>1, <3>1, <3>2
  <2>3. ASSUME Finish, UNCHANGED contractVars
        PROVE  HomeMoves
    BY <1>1, <2>3 DEF Finish, contractVars, collectionVars
  <2> QED
    BY <1>2, <2>1, <2>2, <2>3 DEF Client
<1>3. CASE Executes
  <2>1. PICK tx \in pool : CollectionRuns(tx) \/ LedgerRuns(tx) \/ RegistrationRuns(tx)
    BY <1>3 DEF Executes
  <2> DEFINE s == At(tx.step)
             result == Run(chain[s.account], s.method, s.arg)
  <2>2. CollectionRuns(tx) /\ UNCHANGED gate
    BY <2>1 DEF LedgerRuns, RegistrationRuns, CollectionRuns, Included, clientVars
  <2>3. FlatCall(tx, s)
    BY <2>2 DEF CollectionRuns, QueueCall, IterableCall, CounterCall, At
  <2>4. chain' = [chain EXCEPT ![s.account] = result.storage]
    BY <2>3 DEF FlatCall
  <2>5. CASE s.account = "test.near"
    <3> DEFINE call == <<s.method, s.arg>>
    <3>1. call \in Calls /\ call[1] = s.method /\ call[2] = s.arg
      BY DEF Calls
    <3>2. "test.near" \in DOMAIN chain' /\ chain'["test.near"] = result.storage
      BY <2>4, <2>5
    <3>3. Home' = Run(Home, call[1], call[2]).storage
      BY <2>5, <3>1, <3>2 DEF Home
    <3> HIDE DEF call
    <3> QED
      BY <2>2, <3>1, <3>2, <3>3 DEF HomeMoves
  <2>6. CASE s.account # "test.near"
    BY <2>2, <2>4, <2>6 DEF HomeMoves, Home
  <2> QED
    BY <2>5, <2>6
<1>4. CASE Drops
  BY <1>1, <1>4 DEF Drops, dropped, clientVars, contractVars, collectionVars
<1>5. CASE Receipts
  BY <1>1, <1>5 DEF Receipts, receiver_answers, resolver_runs, yield_times_out, clientVars, collectionVars
<1>6. CASE Visited
  <2>1. CASE visit
    <3>1. PICK call \in Visits :
            chain' = [chain EXCEPT !["test.near"] = Run(chain["test.near"], call[1], call[2]).storage]
      BY <2>1 DEF visit
    <3>2. UNCHANGED gate
      BY <2>1 DEF visit, clientVars
    <3> QED
      BY <3>1, <3>2 DEF HomeMoves, Home, Calls
  <2>2. CASE visit_registry
    BY <2>2 DEF visit_registry
  <2> QED
    BY <1>6, <2>1, <2>2 DEF Visited
<1>7. CASE UNCHANGED vars
  BY <1>1, <1>7 DEF vars, clientVars, contractVars, collectionVars
<1> QED
  BY <1>2, <1>3, <1>4, <1>5, <1>6, <1>7 DEF Next

-----------------------------------------------------------------------------
LEMMA TreeCallsAllowed ==
  ASSUME TransactionsOK, gate = "treemap"
  PROVE  \A call \in Calls : call[1] \in TreeMethods /\ call[2] \in Nat
<1>1. Script["treemap"] = TreeMapScript
  BY DEF Script
<1>2. \A tx \in pool : At(tx.step).method \in TreeMethods /\ At(tx.step).arg \in Nat
  BY <1>1, TreeMapCalls DEF TransactionsOK, CallsOnly, At, Steps
<1>3. \A call \in Visits : call[1] \in TreeMethods /\ call[2] \in Nat
  BY DEF Visits, TreeMethods
<1> QED
  BY <1>2, <1>3 DEF Calls

LEMMA TreeRunKept ==
  ASSUME gate = "treemap", NEW s, s = Tree!Empty \/ TreeInv(s), NEW method \in TreeMethods, NEW arg \in Nat,
         NEW r, r = Run(s, method, arg).storage
  PROVE  r = Tree!Empty \/ TreeInv(r)
<1>1. CASE method = "deploy"
  BY <1>1 DEF Run, Returns
<1>2. CASE method = "initialize"
  <2>1. r = Tree!Run(s, "initialize", arg).storage
    BY <1>2 DEF Run
  <2>2. CASE s = Tree!Empty
    BY <2>1, <2>2, InitializedSorted, CapacityAssumption
  <2>3. CASE TreeInv(s)
    <3>1. Tree!Field("marker") \in DOMAIN s
      BY <2>3 DEF TreeInv, TreeTyped, TreeKeys
    <3>2. r = s
      BY <2>1, <3>1 DEF Tree!Run, Tree!initialize, Tree!When, Tree!Trap
    <3> QED
      BY <2>3, <3>2
  <2> QED
    BY <2>2, <2>3
<1>3. CASE method \in {"putKey", "putValue", "removeTail"} /\ Field("STATE") \notin DOMAIN s
  BY <1>3 DEF Run, Trap
<1>4. CASE method \in {"putKey", "putValue", "removeTail"} /\ Field("STATE") \in DOMAIN s
  <2>1. r = Tree!Run(s, method, arg).storage
    BY <1>4 DEF Run
  <2>2. TreeInv(s)
    BY <1>4 DEF Tree!Empty
  <2> QED
    <3>1. TreeCapacity \in Nat
      BY CapacityAssumption
    <3>2. TreeInv(Tree!Run(s, method, arg).storage)
      BY <1>4, <2>2, <3>1, RunKeepsSorted
    <3> QED
      BY <2>1, <3>2
<1> QED
  BY <1>1, <1>2, <1>3, <1>4 DEF TreeMethods

TreeHome ==
  gate = "treemap" => "test.near" \in DOMAIN chain /\ (Home = Tree!Empty \/ TreeInv(Home))

\* NearTreeMap: the sorted map keeps its structure, whoever interleaves putKey, putValue and
\* removeTail.
THEOREM TreeIsSortedHolds == Spec => []TreeIsSorted
<1>1. Init => TreeHome
  BY DEF Init, CollectionInit, TreeHome, Home, Empty, Tree!Empty
<1>2. ClientInv /\ TreeHome /\ [Next]_vars => TreeHome'
  <2> SUFFICES ASSUME ClientInv, TreeHome, [Next]_vars, gate' = "treemap"
               PROVE  "test.near" \in DOMAIN chain' /\ (Home' = Tree!Empty \/ TreeInv(Home)')
    BY DEF TreeHome
  <2>1. gate = "treemap"
    BY StepMoves DEF ClientMoves, NodeMoves, Finishes, ClientInv, TransactionsOK
  <2>2. HomeMoves
    BY <2>1, StepHome DEF TreeHome
  <2>3. CASE UNCHANGED Home
    <3>1. TreeInv(Home) => TreeInv(Home)'
      BY <2>3 DEF TreeInv, TreeTyped, Tree!Sorted, Tree!length, Tree!pendingKey, Tree!keyAt, Tree!Indices
    <3> QED
      BY <2>1, <2>2, <2>3, <3>1 DEF TreeHome, HomeMoves
  <2>4. ASSUME NEW call \in Calls, Home' = Run(Home, call[1], call[2]).storage
        PROVE  Home' = Tree!Empty \/ TreeInv(Home)'
    <3>1. call[1] \in TreeMethods /\ call[2] \in Nat
      BY <2>1, TreeCallsAllowed DEF ClientInv
    <3> QED
      BY <2>1, <2>4, <3>1, TreeRunKept DEF TreeHome
  <2> QED
    BY <2>2, <2>3, <2>4 DEF HomeMoves
<1>3. TreeHome => TreeIsSorted
  BY DEF TreeHome, TreeIsSorted, TreeInv, HasField, Tree!Empty
<1> QED
  BY <1>1, <1>2, <1>3, ClientInvariant, PTL DEF Spec

-----------------------------------------------------------------------------
LEMMA VectorCallsAllowed ==
  ASSUME TransactionsOK, gate = "vector"
  PROVE  \A call \in Calls : call[1] \in VectorMethods
<1>1. Script["vector"] = VectorScript
  BY DEF Script
<1>2. \A tx \in pool : At(tx.step).method \in VectorMethods
  BY <1>1, VectorCalls DEF TransactionsOK, CallsOnly, At, Steps
<1>3. \A call \in Visits : call[1] \in VectorMethods
  BY DEF Visits, VectorMethods
<1> QED
  BY <1>2, <1>3 DEF Calls

LEMMA VectorRunKept ==
  ASSUME gate = "vector", NEW s, s = Vector!Empty \/ VectorInv(s), NEW method \in VectorMethods, NEW arg,
         NEW r, r = Run(s, method, arg).storage
  PROVE  r = Vector!Empty \/ VectorInv(r)
<1>a. VectorCapacity \in Nat
  BY CapacityAssumption
<1>1. CASE method = "deploy"
  BY <1>1 DEF Run, Returns
<1>2. CASE method = "initialize"
  <2>1. r = Vector!Run(s, "initialize", arg).storage
    BY <1>2 DEF Run
  <2>2. CASE s = Vector!Empty
    BY <1>a, <2>1, <2>2, InitializedDense
  <2>3. CASE VectorInv(s)
    <3>1. Vector!Field("marker") \in DOMAIN s
      BY <2>3 DEF VectorInv, VectorKeys
    <3>2. r = s
      BY <2>1, <3>1 DEF Vector!Run, Vector!initialize, Vector!When, Vector!Trap
    <3> QED
      BY <2>3, <3>2
  <2> QED
    BY <2>2, <2>3
<1>3. CASE method \in {"push", "setFirst", "pop"} /\ Field("STATE") \notin DOMAIN s
  BY <1>3 DEF Run, Trap
<1>4. CASE method \in {"push", "setFirst", "pop"} /\ Field("STATE") \in DOMAIN s
  <2>1. r = Vector!Run(s, method, arg).storage
    BY <1>4 DEF Run
  <2>2. VectorInv(s)
    BY <1>4 DEF Vector!Empty
  <2>3. VectorInv(Vector!Run(s, method, arg).storage)
    BY <1>4, <1>a, <2>2, RunKeepsDense
  <2> QED
    BY <2>1, <2>3
<1> QED
  BY <1>1, <1>2, <1>3, <1>4 DEF VectorMethods

VectorHome ==
  gate = "vector" => "test.near" \in DOMAIN chain /\ (Home = Vector!Empty \/ VectorInv(Home))

\* NearVector: the keys stay dense, whoever interleaves push, setFirst and pop.
THEOREM VectorKeysAreDenseHolds == Spec => []VectorKeysAreDense
<1>1. Init => VectorHome
  BY DEF Init, CollectionInit, VectorHome, Home, Empty, Vector!Empty
<1>2. ClientInv /\ VectorHome /\ [Next]_vars => VectorHome'
  <2> SUFFICES ASSUME ClientInv, VectorHome, [Next]_vars, gate' = "vector"
               PROVE  "test.near" \in DOMAIN chain' /\ (Home' = Vector!Empty \/ VectorInv(Home)')
    BY DEF VectorHome
  <2>1. gate = "vector"
    BY StepMoves DEF ClientMoves, NodeMoves, Finishes, ClientInv, TransactionsOK
  <2>2. HomeMoves
    BY <2>1, StepHome DEF VectorHome
  <2>3. CASE UNCHANGED Home
    <3>1. VectorInv(Home) => VectorInv(Home)'
      BY <2>3 DEF VectorInv, Vector!Dense, Vector!length
    <3> QED
      BY <2>1, <2>2, <2>3, <3>1 DEF VectorHome, HomeMoves
  <2>4. ASSUME NEW call \in Calls, Home' = Run(Home, call[1], call[2]).storage
        PROVE  Home' = Vector!Empty \/ VectorInv(Home)'
    <3>1. call[1] \in VectorMethods
      BY <2>1, VectorCallsAllowed DEF ClientInv
    <3> QED
      BY <2>1, <2>4, <3>1, VectorRunKept DEF VectorHome
  <2> QED
    BY <2>2, <2>3, <2>4 DEF HomeMoves
<1>3. VectorHome => VectorKeysAreDense
  BY DEF VectorHome, VectorKeysAreDense, VectorInv, HasField, Vector!Empty
<1> QED
  BY <1>1, <1>2, <1>3, ClientInvariant, PTL DEF Spec

-----------------------------------------------------------------------------
(***************************************************************************)
(* NearStorageRegistration: what a call keeps of its deposit is the cost   *)
(* of what it registers.                                                   *)
(***************************************************************************)

\* What a call relies on: a price the contract was initialised with.
Priced(s) == Registry!Field("perByteCost") \in DOMAIN s /\ Registry!price(s) \in Nat

Registered(s) == {a \in DOMAIN AccountLength : Registry!entry(a) \in DOMAIN s}

Paid(result) == IF result.transfer = <<>> THEN 0 ELSE result.transfer[2]

\* The parts of KeepsItsCosts.
RefusesAll(s, result) == result.verdict = "trap" /\ result.storage = s /\ result.transfer = <<>>

SamePrice(s, r) == Priced(r) /\ Registry!price(r) = Registry!price(s)

TakesOn(s, r, deposit, paid) ==
  \E a \in (DOMAIN AccountLength) \ Registered(s) :
    /\ Registered(r) = Registered(s) \cup {a} /\ deposit = paid + Registry!cost(s, a) /\ paid \in Nat
    /\ Registry!CanPrice(s, Registry!variableAccountEntryBytes(a))

GivesUp(s, r, caller, deposit, paid) ==
  /\ caller \in Registered(s) /\ Registered(r) = Registered(s) \ {caller}
  /\ deposit + Registry!cost(s, caller) = paid /\ paid <= Registry!U128Max
  /\ Registry!CanPrice(s, Registry!variableAccountEntryBytes(caller))

Leaves(s, r, deposit, paid) ==
  Registered(r) = Registered(s) /\ paid \in Nat /\ (deposit = paid \/ deposit = paid + 1)

KeepsItsCosts(s, caller, deposit, result) ==
  \/ RefusesAll(s, result)
  \/ /\ SamePrice(s, result.storage)
     /\ \/ TakesOn(s, result.storage, deposit, Paid(result))
        \/ GivesUp(s, result.storage, caller, deposit, Paid(result))
        \/ Leaves(s, result.storage, deposit, Paid(result))

-----------------------------------------------------------------------------
LEMMA RegistryWrites ==
  ASSUME NEW s, NEW key, NEW value
  PROVE  /\ DOMAIN Registry!write(s, key, value) = DOMAIN s \cup {key}
         /\ Registry!write(s, key, value)[key] = value
         /\ \A k \in DOMAIN s : k # key => Registry!write(s, key, value)[k] = s[k]
BY DEF Registry!write

LEMMA RegistryRemoves ==
  ASSUME NEW s, NEW key
  PROVE  /\ DOMAIN Registry!remove(s, key) = (DOMAIN s) \ {key}
         /\ \A k \in DOMAIN s : k # key => Registry!remove(s, key)[k] = s[k]
BY DEF Registry!remove

OtherFields == {"lastDelta", "lastCost", "totalSupply", "lastCode"}

LEMMA RegistryKeysDiffer ==
  /\ \A f \in OtherFields : Registry!Field(f) # Registry!Field("perByteCost")
  /\ \A a : Registry!entry(a) # Registry!Field("perByteCost")
  /\ \A a : \A f \in OtherFields : Registry!entry(a) # Registry!Field(f)
  /\ \A a, b : Registry!entry(a) = Registry!entry(b) => a = b
BY DEF Registry!Field, Registry!entry, OtherFields

\* Only the names of the last measurement and of the supply differ.
SameEntries(s, r) == SamePrice(s, r) /\ Registered(r) = Registered(s)

LEMMA FieldWrites ==
  ASSUME NEW s, Priced(s), NEW f \in OtherFields, NEW value
  PROVE  SameEntries(s, Registry!write(s, Registry!Field(f), value))
<1> DEFINE r == Registry!write(s, Registry!Field(f), value)
<1>1. /\ DOMAIN r = DOMAIN s \cup {Registry!Field(f)}
      /\ \A k \in DOMAIN s : k # Registry!Field(f) => r[k] = s[k]
  BY DEF Registry!write
<1> HIDE DEF r
<1>2. SamePrice(s, r)
  BY <1>1, RegistryKeysDiffer DEF SamePrice, Priced, Registry!price
<1>3. Registered(r) = Registered(s)
  BY <1>1, RegistryKeysDiffer DEF Registered
<1> QED
  BY <1>2, <1>3 DEF SameEntries, r

LEMMA SameEntriesJoins ==
  ASSUME NEW s, NEW r, NEW q, SameEntries(s, r), SameEntries(r, q)
  PROVE  SameEntries(s, q)
BY DEF SameEntries, SamePrice

LEMMA CodedSame ==
  ASSUME NEW s, Priced(s), NEW mark
  PROVE  SameEntries(s, Registry!Coded(s, mark))
BY FieldWrites DEF Registry!Coded, OtherFields

LEMMA MeasuredSame ==
  ASSUME NEW s, Priced(s), NEW delta, NEW amount, NEW mark
  PROVE  SameEntries(s, Registry!Measured(s, delta, amount, mark))
<1> DEFINE r == Registry!write(s, Registry!Field("lastDelta"), delta)
           q == Registry!write(r, Registry!Field("lastCost"), amount)
<1>1. SameEntries(s, r)
  BY FieldWrites DEF OtherFields
<1>2. Priced(r)
  BY <1>1 DEF SameEntries, SamePrice
<1> HIDE DEF r
<1>3. SameEntries(r, q)
  BY <1>2, FieldWrites DEF OtherFields
<1>4. Priced(q)
  BY <1>3 DEF SameEntries, SamePrice
<1> HIDE DEF q
<1>5. SameEntries(q, Registry!Coded(q, mark))
  BY <1>4, CodedSame
<1>6. Registry!Measured(s, delta, amount, mark) = Registry!Coded(q, mark)
  BY DEF Registry!Measured, q, r
<1> QED
  BY <1>1, <1>3, <1>5, <1>6, SameEntriesJoins

LEMMA CostTyped ==
  ASSUME NEW s, Priced(s), NEW a \in DOMAIN AccountLength
  PROVE  Registry!cost(s, a) \in Nat
<1>1. AccountLength[a] \in Nat
  BY DEF AccountLength
<1> QED
  BY <1>1 DEF Priced, Registry!cost, Registry!variableAccountEntryBytes

\* A transfer of nothing is none.
LEMMA RefundsPaid ==
  ASSUME NEW s, NEW value, NEW caller, NEW amount \in Nat, NEW lines
  PROVE  Paid(Registry!Done(s, value, Registry!Refunds(caller, amount), lines)) = amount
<1> DEFINE result == Registry!Done(s, value, Registry!Refunds(caller, amount), lines)
<1>1. result.transfer = IF amount = 0 THEN <<>> ELSE <<caller, amount>>
  BY DEF Registry!Done, Registry!Refunds
<1> HIDE DEF result
<1>2. amount = 0 => Paid(result) = amount
  BY <1>1 DEF Paid
<1>3. amount # 0 => Paid(result) = amount
  <2> SUFFICES ASSUME amount # 0 PROVE Paid(result) = amount
    OBVIOUS
  <2>1. result.transfer = <<caller, amount>>
    BY <1>1
  <2>2. <<caller, amount>> # <<>> /\ <<caller, amount>>[2] = amount
    OBVIOUS
  <2> QED
    BY <2>1, <2>2 DEF Paid
<1>4. Paid(result) = amount
  BY <1>2, <1>3
<1> QED
  BY <1>4 DEF result

LEMMA ErrorSettles ==
  ASSUME NEW s, NEW caller, NEW deposit
  PROVE  KeepsItsCosts(s, caller, deposit, Registry!Error(s))
BY DEF KeepsItsCosts, RefusesAll, Registry!Error

LEMMA CheckedSettles ==
  ASSUME NEW s, NEW caller, NEW deposit, NEW guard, NEW ending, guard => KeepsItsCosts(s, caller, deposit, ending)
  PROVE  KeepsItsCosts(s, caller, deposit, Registry!Checked(guard, s, ending))
BY ErrorSettles DEF Registry!Checked

\* A call that changes no registration, and gives the deposit back but for a yocto.
LEMMA LeavingSettles ==
  ASSUME NEW s, NEW caller, NEW deposit \in Nat, NEW r, SameEntries(s, r), NEW value, NEW lines,
         NEW amount \in Nat, deposit = amount \/ deposit = amount + 1
  PROVE  KeepsItsCosts(s, caller, deposit, Registry!Done(r, value, Registry!Refunds(caller, amount), lines))
<1> DEFINE result == Registry!Done(r, value, Registry!Refunds(caller, amount), lines)
<1>1. Paid(result) = amount
  BY ONLY amount \in Nat, RefundsPaid
<1>2. result.storage = r
  BY DEF Registry!Done
<1> HIDE DEF result
<1> QED
  BY <1>1, <1>2 DEF KeepsItsCosts, SameEntries, Leaves, result

LEMMA NoTransfer ==
  ASSUME NEW caller
  PROVE  Registry!Refunds(caller, 0) = <<>>
BY DEF Registry!Refunds

-----------------------------------------------------------------------------
LEMMA InsertSettles ==
  ASSUME NEW s, Priced(s), NEW caller, NEW a \in DOMAIN AccountLength, NEW deposit \in Nat, NEW value,
         Registry!Inserts(s, a, deposit)
  PROVE  KeepsItsCosts(s, caller, deposit,
                 Registry!Done(Registry!Inserted(s, a), value,
                               Registry!Refunds(caller, deposit - Registry!cost(s, a)), <<>>))
<1> DEFINE paid == deposit - Registry!cost(s, a)
           w == Registry!write(s, Registry!entry(a), Registry!Token(0))
           r == Registry!Inserted(s, a)
           result == Registry!Done(r, value, Registry!Refunds(caller, paid), <<>>)
<1>1. Registry!entry(a) \notin DOMAIN s /\ deposit >= Registry!cost(s, a)
  BY DEF Registry!Inserts, Registry!readWasMissing
<1>2. paid \in Nat /\ deposit = paid + Registry!cost(s, a)
  BY <1>1, CostTyped
<1>3. DOMAIN w = DOMAIN s \cup {Registry!entry(a)} /\ \A k \in DOMAIN s : k # Registry!entry(a) => w[k] = s[k]
  BY DEF Registry!write
<1> HIDE DEF w
<1>4. SamePrice(s, w)
  BY <1>3, RegistryKeysDiffer DEF SamePrice, Priced, Registry!price
<1>5. Registered(w) = Registered(s) \cup {a}
  BY <1>3, RegistryKeysDiffer DEF Registered
<1>6. SameEntries(w, r)
  BY <1>4, MeasuredSame DEF SamePrice, Registry!Inserted, w
<1>7. Paid(result) = paid /\ result.storage = r
  <2>1. Paid(result) = paid
    <3>1. paid \in Nat
      BY <1>2
    <3> HIDE DEF paid, r
    <3> QED
      BY ONLY <3>1, RefundsPaid
  <2>2. result.storage = r
    BY DEF Registry!Done
  <2> QED
    BY <2>1, <2>2
<1> HIDE DEF paid, r, result
<1>8. a \in (DOMAIN AccountLength) \ Registered(s)
  BY <1>1 DEF Registered
<1>9. Registered(r) = Registered(s) \cup {a}
  BY <1>5, <1>6 DEF SameEntries
<1>10. TakesOn(s, r, deposit, paid)
  <2>1. Registry!CanPrice(s, Registry!variableAccountEntryBytes(a))
    BY DEF Registry!Inserts
  <2> QED
    BY <1>2, <1>8, <1>9, <2>1 DEF TakesOn
<1>11. SamePrice(s, r)
  BY <1>4, <1>6 DEF SameEntries, SamePrice
<1> QED
  BY <1>7, <1>10, <1>11 DEF KeepsItsCosts, result, r, paid

LEMMA RemoveSettles ==
  ASSUME NEW s, Priced(s), NEW caller \in DOMAIN AccountLength, NEW force, NEW value,
         Registry!Removes(s, caller, force)
  PROVE  KeepsItsCosts(s, caller, 1,
                 Registry!Done(Registry!Removed(s, caller), value,
                               Registry!Refunds(caller, Registry!cost(s, caller) + 1), <<>>))
<1> DEFINE paid == Registry!cost(s, caller) + 1
           w == Registry!remove(s, Registry!entry(caller))
           burned == Registry!supply(s) - s[Registry!entry(caller)].amount
           q == Registry!write(w, Registry!Field("totalSupply"), burned)
           r == Registry!Removed(s, caller)
           result == Registry!Done(r, value, Registry!Refunds(caller, paid), <<>>)
<1>1. Registry!entry(caller) \in DOMAIN s
  BY DEF Registry!Removes, Registry!readWasValidPresent
<1>2. paid \in Nat /\ 1 + Registry!cost(s, caller) = paid
  BY CostTyped
<1>3. /\ DOMAIN w = (DOMAIN s) \ {Registry!entry(caller)}
      /\ \A k \in DOMAIN s : k # Registry!entry(caller) => w[k] = s[k]
  BY RegistryRemoves
<1> HIDE DEF w
<1>4. SamePrice(s, w)
  BY <1>3, RegistryKeysDiffer DEF SamePrice, Priced, Registry!price
<1>5. Registered(w) = Registered(s) \ {caller}
  BY <1>3, RegistryKeysDiffer DEF Registered
<1>6. SameEntries(w, q)
  BY <1>4, FieldWrites DEF SamePrice, OtherFields
<1>7. SameEntries(q, r)
  <2>1. Priced(q)
    BY <1>6 DEF SameEntries, SamePrice
  <2>2. r = Registry!Measured(q, Registry!variableAccountEntryBytes(caller), Registry!cost(s, caller), 1)
    BY DEF Registry!Removed, w
  <2> QED
    BY <2>1, <2>2, MeasuredSame
<1>8. SameEntries(w, r)
  BY <1>6, <1>7, SameEntriesJoins
<1>9. Paid(result) = paid /\ result.storage = r
  <2>1. Paid(result) = paid
    <3>1. paid \in Nat
      BY <1>2
    <3> HIDE DEF paid, r
    <3> QED
      BY ONLY <3>1, RefundsPaid
  <2>2. result.storage = r
    BY DEF Registry!Done
  <2> QED
    BY <2>1, <2>2
<1> HIDE DEF paid, r, result
<1>10. GivesUp(s, r, caller, 1, paid)
  <2>1. /\ Registry!CanPrice(s, Registry!variableAccountEntryBytes(caller))
        /\ Registry!cost(s, caller) + 1 <= Registry!U128Max
    BY DEF Registry!Removes
  <2>2. paid <= Registry!U128Max
    BY <2>1 DEF paid
  <2> QED
    BY <1>1, <1>2, <1>5, <1>8, <2>1, <2>2 DEF SameEntries, GivesUp, Registered
<1>11. SamePrice(s, r)
  BY <1>4, <1>8 DEF SameEntries, SamePrice
<1> QED
  BY <1>9, <1>10, <1>11 DEF KeepsItsCosts, result, r, paid

LEMMA SameItself ==
  ASSUME NEW s, Priced(s)
  PROVE  SameEntries(s, s)
BY DEF SameEntries, SamePrice

LEMMA UnregistersSettles ==
  ASSUME NEW s, Priced(s), NEW caller \in DOMAIN AccountLength, NEW force, NEW deposit \in Nat, NEW lines
  PROVE  KeepsItsCosts(s, caller, deposit, Registry!Unregisters(s, caller, force, deposit, lines))
<1> DEFINE Gone == Registry!Done(Registry!Removed(s, caller), 1,
                                 Registry!Refunds(caller, Registry!cost(s, caller) + 1), <<>>)
           ending == Registry!Unregisters(s, caller, force, deposit, lines)
<1>1. CASE deposit # 1 \/ Registry!price(s) = 0
  BY <1>1, ErrorSettles DEF Registry!Unregisters
<1>2. CASE deposit = 1 /\ Registry!price(s) # 0 /\ Registry!readWasMissing(s, caller)
  <2>1. ending = Registry!Done(Registry!Coded(s, 0), 0, Registry!Refunds(caller, 0), lines)
    BY <1>2, NoTransfer DEF Registry!Unregisters
  <2> HIDE DEF ending
  <2>2. SameEntries(s, Registry!Coded(s, 0))
    BY CodedSame
  <2>3. deposit = 0 + 1
    BY <1>2
  <2> QED
    BY <2>1, <2>2, <2>3, LeavingSettles DEF ending
<1>3. CASE deposit = 1 /\ Registry!price(s) # 0 /\ ~Registry!readWasMissing(s, caller)
  <2>1. ending = Registry!Checked(Registry!Removes(s, caller, force), s, Gone)
    BY <1>3 DEF Registry!Unregisters
  <2>2. Registry!Removes(s, caller, force) => KeepsItsCosts(s, caller, deposit, Gone)
    BY <1>3, RemoveSettles
  <2> HIDE DEF ending, Gone
  <2> QED
    BY <2>1, <2>2, CheckedSettles DEF ending
<1> QED
  BY <1>1, <1>2, <1>3

LEMMA DepositSettles ==
  ASSUME NEW s, Priced(s), NEW caller, NEW a \in DOMAIN AccountLength, NEW deposit \in Nat
  PROVE  KeepsItsCosts(s, caller, deposit, Registry!storage_deposit(s, caller, a, deposit))
<1> DEFINE New == Registry!Done(Registry!Inserted(s, a), Registry!cost(s, a),
                                Registry!Refunds(caller, deposit - Registry!cost(s, a)), <<>>)
           Old == Registry!Done(s, Registry!cost(s, a), Registry!Refunds(caller, deposit), <<>>)
           ending == Registry!storage_deposit(s, caller, a, deposit)
<1>1. Registry!Inserts(s, a, deposit) => KeepsItsCosts(s, caller, deposit, New)
  BY InsertSettles
<1>2. KeepsItsCosts(s, caller, deposit, Old)
  BY SameItself, LeavingSettles
<1>3. \/ ending = Registry!Checked(Registry!Inserts(s, a, deposit), s, New)
      \/ ending = Registry!Checked(/\ Registry!readWasValidPresent(s, a)
                                    /\ Registry!CanPrice(s, Registry!variableAccountEntryBytes(a)), s, Old)
  BY DEF Registry!storage_deposit
<1> HIDE DEF New, Old, ending
<1> QED
  BY <1>1, <1>2, <1>3, CheckedSettles DEF ending

LEMMA RegisterSettles ==
  ASSUME NEW s, Priced(s), NEW caller \in DOMAIN AccountLength, NEW deposit \in Nat
  PROVE  KeepsItsCosts(s, caller, deposit, Registry!registerCaller(s, caller, deposit))
<1> DEFINE New == Registry!Done(Registry!Inserted(s, caller), Registry!variableAccountEntryBytes(caller),
                                Registry!Refunds(caller, deposit - Registry!cost(s, caller)), <<>>)
           Old == Registry!Done(s, s[Registry!Field("lastCode")], Registry!Refunds(caller, deposit), <<>>)
           ending == Registry!registerCaller(s, caller, deposit)
<1>1. Registry!Inserts(s, caller, deposit) => KeepsItsCosts(s, caller, deposit, New)
  BY InsertSettles
<1>2. KeepsItsCosts(s, caller, deposit, Old)
  BY SameItself, LeavingSettles
<1>3. \/ ending = Registry!Checked(Registry!Inserts(s, caller, deposit), s, New)
      \/ ending = Registry!Checked(Registry!price(s) # 0 /\ Registry!readWasValidPresent(s, caller), s, Old)
  BY DEF Registry!registerCaller
<1> HIDE DEF New, Old, ending
<1> QED
  BY <1>1, <1>2, <1>3, CheckedSettles DEF ending

LEMMA WithdrawSettles ==
  ASSUME NEW s, Priced(s), NEW caller, NEW amount, NEW deposit \in Nat
  PROVE  KeepsItsCosts(s, caller, deposit, Registry!storage_withdraw(s, caller, amount, deposit))
<1> DEFINE guard == /\ deposit = 1
                    /\ Registry!readWasValidPresent(s, caller)
                    /\ amount = 0
                    /\ Registry!CanPrice(s, Registry!variableAccountEntryBytes(caller))
           ending == Registry!Done(s, Registry!cost(s, caller), <<>>, <<>>)
<1>1. guard => KeepsItsCosts(s, caller, deposit, ending)
  <2> SUFFICES ASSUME deposit = 1 PROVE KeepsItsCosts(s, caller, deposit, ending)
    OBVIOUS
  <2>1. ending = Registry!Done(s, Registry!cost(s, caller), Registry!Refunds(caller, 0), <<>>)
    BY NoTransfer
  <2>2. deposit = 0 + 1
    OBVIOUS
  <2> HIDE DEF ending
  <2> QED
    BY <2>1, <2>2, SameItself, LeavingSettles
<1>2. Registry!storage_withdraw(s, caller, amount, deposit) = Registry!Checked(guard, s, ending)
  BY DEF Registry!storage_withdraw
<1> HIDE DEF guard, ending
<1> QED
  BY ONLY <1>1, <1>2, CheckedSettles

LEMMA ProbeSettles ==
  ASSUME NEW s, Priced(s), NEW caller, NEW deposit \in Nat, NEW value
  PROVE  KeepsItsCosts(s, caller, deposit, Registry!Probed(s, deposit, value))
<1> DEFINE ending == Registry!Done(Registry!Coded(s, value), value, <<>>, <<>>)
<1>1. deposit = 0 => KeepsItsCosts(s, caller, deposit, ending)
  <2> SUFFICES ASSUME deposit = 0 PROVE KeepsItsCosts(s, caller, deposit, ending)
    OBVIOUS
  <2>1. ending = Registry!Done(Registry!Coded(s, value), value, Registry!Refunds(caller, 0), <<>>)
    BY NoTransfer
  <2>2. SameEntries(s, Registry!Coded(s, value))
    BY CodedSame
  <2> HIDE DEF ending
  <2> QED
    BY <2>1, <2>2, LeavingSettles
<1>2. Registry!Probed(s, deposit, value) = Registry!Checked(deposit = 0, s, ending)
  BY DEF Registry!Probed
<1> HIDE DEF ending
<1> QED
  BY <1>1, <1>2, ErrorSettles DEF Registry!Checked

\* A contract that is initialised has a price.
THEOREM InitializedPriced ==
  ASSUME NEW costProfile \in Nat
  PROVE  LET result == Registry!init(Registry!Empty, costProfile) IN
         /\ result.verdict = "ok" /\ Priced(result.storage) /\ Registered(result.storage) = {}
         /\ Registry!price(result.storage)
              = costProfile + IF costProfile >= Limb \div 2 THEN (Limb - 1) * Limb ELSE 0
<1> DEFINE names == {Registry!Field(f) : f \in {"perByteCost", "lastDelta", "lastCost", "totalSupply", "lastCode"}}
           Initial == [key \in names |->
                         IF key # Registry!Field("perByteCost") THEN 0
                         ELSE costProfile + IF costProfile >= Limb \div 2 THEN (Limb - 1) * Limb ELSE 0]
           r == [k \in DOMAIN Initial \cup {Registry!Field("STATE")} |->
                   IF k \in DOMAIN Initial THEN Initial[k] ELSE 1]
           result == Registry!init(Registry!Empty, costProfile)
<1>1. result.verdict = "ok" /\ result.storage = r
  <2>1. \A key \in {Registry!Field("STATE")} \cup DOMAIN Initial : key \notin DOMAIN Registry!Empty
    BY DEF Registry!Empty
  <2>2. result = Registry!initialize(Registry!Empty, Initial)
    BY DEF Registry!init
  <2> HIDE DEF Initial, result
  <2> QED
    BY <2>1, <2>2 DEF Registry!initialize, Registry!When, Registry!Returns
<1>2. Registry!Field("perByteCost") \in names
  OBVIOUS
<1> HIDE DEF result
<1>3. /\ Priced(r)
      /\ Registry!price(r) = costProfile + IF costProfile >= Limb \div 2 THEN (Limb - 1) * Limb ELSE 0
  <2>1. r[Registry!Field("perByteCost")]
          = costProfile + IF costProfile >= Limb \div 2 THEN (Limb - 1) * Limb ELSE 0
    BY <1>2
  <2>2. (Limb - 1) * Limb \in Nat
    BY LimbAssumption
  <2>3. r[Registry!Field("perByteCost")] \in Nat /\ Registry!Field("perByteCost") \in DOMAIN r
    BY <1>2, <2>1, <2>2
  <2> HIDE DEF r
  <2> QED
    BY <2>1, <2>3 DEF Priced, Registry!price
<1>4. Registered(r) = {}
  <2>1. \A a : Registry!entry(a) \notin DOMAIN r
    BY DEF Registry!entry, Registry!Field
  <2> HIDE DEF r
  <2> QED
    BY <2>1 DEF Registered
<1> QED
  BY <1>1, <1>3, <1>4 DEF result

\* A call of NearStorageRegistration settles, whatever its price, the attached deposit, the amount and
\* the accounts of the gate it is by and about: it is refused as a whole, or keeps the cost of the
\* account it registers, or gives back the cost of the caller it unregisters and the yocto, or changes
\* no registration and keeps a yocto at most.
THEOREM RegistryCallSettles ==
  ASSUME NEW s, Priced(s), NEW caller \in DOMAIN AccountLength, NEW method \in VisitedMethods,
         NEW args, args.account \in DOMAIN AccountLength, args.deposit \in Nat
  PROVE  KeepsItsCosts(s, caller, args.deposit, Registry!Run(s, caller, method, args))
<1> DEFINE result == Registry!Run(s, caller, method, args)
<1>1. CASE ~args.readable
  BY <1>1, ErrorSettles DEF Registry!Run
<1>2. CASE args.readable /\ method = "storage_deposit"
  <2>1. result = Registry!storage_deposit(s, caller, args.account, args.deposit)
    BY <1>2 DEF Registry!Run
  <2> HIDE DEF result
  <2> QED
    BY <2>1, DepositSettles DEF result
<1>3. CASE args.readable /\ method = "storage_withdraw"
  <2>1. result = Registry!storage_withdraw(s, caller, args.amount, args.deposit)
    BY <1>3 DEF Registry!Run
  <2> HIDE DEF result
  <2> QED
    BY <2>1, WithdrawSettles DEF result
<1>4. CASE args.readable /\ method = "registerCaller"
  <2>1. result = Registry!registerCaller(s, caller, args.deposit)
    BY <1>4 DEF Registry!Run
  <2> HIDE DEF result
  <2> QED
    BY <2>1, RegisterSettles DEF result
<1>5. CASE args.readable /\ method \in {"storage_unregister", "unregisterCaller"}
  <2>1. \/ result = Registry!Unregisters(s, caller, args.amount = 1, args.deposit, <<"not registered">>)
        \/ result = Registry!Unregisters(s, caller, FALSE, args.deposit, <<>>)
    BY <1>5 DEF Registry!Run, Registry!storage_unregister, Registry!unregisterCaller
  <2>2. \A logged :
          KeepsItsCosts(s, caller, args.deposit,
                        Registry!Unregisters(s, caller, args.amount = 1, args.deposit, logged))
    BY UnregistersSettles
  <2>3. \A logged :
          KeepsItsCosts(s, caller, args.deposit,
                        Registry!Unregisters(s, caller, FALSE, args.deposit, logged))
    BY UnregistersSettles
  <2> HIDE DEF result
  <2> QED
    BY <2>1, <2>2, <2>3 DEF result
<1>6. CASE args.readable /\ method = "forceUnregisterCaller"
  <2>1. result = Registry!Checked(args.amount <= 1, s,
                                  Registry!Unregisters(s, caller, args.amount = 1, args.deposit, <<>>))
    BY <1>6 DEF Registry!Run, Registry!forceUnregisterCaller
  <2> HIDE DEF result
  <2> QED
    BY <2>1, UnregistersSettles, CheckedSettles DEF result
<1>7. CASE args.readable /\ method \in {"probeCaller", "probeCallerBalanceW0", "probeCallerBalanceW1"}
  <2>1. \E value : result = Registry!Probed(s, args.deposit, value)
    BY <1>7 DEF Registry!Run
  <2> HIDE DEF result
  <2> QED
    BY <2>1, ProbeSettles DEF result
<1> QED
  BY <1>1, <1>2, <1>3, <1>4, <1>5, <1>6, <1>7 DEF VisitedMethods

-----------------------------------------------------------------------------
(***************************************************************************)
(* The script of the registration gate: a registry is initialised, at a    *)
(* price that is known, before it is called.                               *)
(***************************************************************************)
Names == {"short", "long", "malformed", "nonzero", "forced", "add_overflow", "missing"}

\* The registries in which some price of a few bytes is an amount, and PerByte is not the price.
OverflowHomes == {"withdraw_overflow", "add_overflow"}

\* The fixtures that leave the price.
SeedingMethods ==
  {"seedCallerMalformed8", "seedCallerZero", "seedCallerOne",
   "fixtureSeedCallerMixedSupply", "fixtureSeedCallerMaxSupply", "fixtureRemoveCaller"}

\* What a step of the gate makes sure of: a registry has a price, that of add_overflow is the fixture's.
Opens(step) ==
  IF step.does # "call" THEN {}
  ELSE IF step.method = "initialize" THEN {step.account}
  ELSE IF step.method = "fixtureSetCostAddOverflow" THEN {"raised"}
  ELSE {}

Initializes(step) ==
  /\ step.method = "initialize" /\ step.arg.amount \in Nat
  /\ \/ step.account \in OverflowHomes
     \/ step.arg.amount \in {0, PerByte}
     \/ step.arg.amount >= Limb \div 2

Serves(step, opened) ==
  /\ step.method \in VisitedMethods
  /\ step.signer \in Names /\ step.arg.account \in Names /\ step.arg.deposit \in Nat
  /\ step.account = "add_overflow" => /\ "raised" \in opened
                                      /\ step.signer = "add_overflow" /\ step.arg.deposit = 1
  /\ step.account = "withdraw_overflow" => step.method = "storage_withdraw"

Prices(step) ==
  \/ step.method \in SeedingMethods
  \/ step.method = "fixtureSetCostMax" /\ step.account # "add_overflow"
  \/ step.method = "fixtureSetCostAddOverflow" /\ step.account = "add_overflow" /\ step.arg.readable

Fitting(step, opened) ==
  step.does = "call" =>
    /\ step.caught = 0
    /\ \/ step.method \in {"create", "deploy"}
       \/ step.account \in Homes /\ Initializes(step)
       \/ step.account \in Homes \cap opened /\ (Serves(step, opened) \/ Prices(step))

Before(script, i) == UNION {Opens(script[j]) : j \in 1..(i - 1)}

\* The calls of the script fit what was opened before it and in it, and it opens what comes after.
Leads(script, opened, after) ==
  /\ Len(script) \in Nat
  /\ \A i \in 1..Len(script) : Fitting(script[i], opened \cup Before(script, i))
  /\ after \subseteq opened \cup Before(script, Len(script) + 1)

LEMMA FitsMore ==
  ASSUME NEW step, NEW opened, NEW more, opened \subseteq more, Fitting(step, opened)
  PROVE  Fitting(step, more)
BY DEF Fitting, Serves

LEMMA LeadsJoins ==
  ASSUME NEW a, NEW b, NEW opened, NEW between, NEW after,
         Leads(a, opened, between), Leads(b, between, after)
  PROVE  Leads(a \o b, opened, after)
<1> DEFINE c == a \o b
<1>1. /\ Len(a) \in Nat /\ Len(b) \in Nat /\ Len(c) = Len(a) + Len(b)
      /\ \A i \in 1..Len(a) : c[i] = a[i]
      /\ \A i \in 1..Len(b) : c[Len(a) + i] = b[i]
  BY DEF Leads
<1> HIDE DEF c
<1>2. \A i \in 1..(Len(a) + 1) : Before(a, i) \subseteq Before(c, i)
  BY <1>1 DEF Before
<1>3. ASSUME NEW i \in 1..(Len(b) + 1)
      PROVE  Before(a, Len(a) + 1) \cup Before(b, i) \subseteq Before(c, Len(a) + i)
  <2>1. ASSUME NEW t \in Before(a, Len(a) + 1)
        PROVE  t \in Before(c, Len(a) + i)
    <3>1. PICK j \in 1..Len(a) : t \in Opens(a[j])
      BY <1>1, <2>1 DEF Before
    <3> QED
      BY <1>1, <3>1 DEF Before
  <2>2. ASSUME NEW t \in Before(b, i)
        PROVE  t \in Before(c, Len(a) + i)
    <3>1. PICK j \in 1..(i - 1) : t \in Opens(b[j])
      BY <2>2 DEF Before
    <3>2. c[Len(a) + j] = b[j] /\ Len(a) + j \in 1..(Len(a) + i - 1)
      BY <1>1
    <3> QED
      BY <3>1, <3>2 DEF Before
  <2> QED
    BY <2>1, <2>2
<1>4. ASSUME NEW i \in 1..Len(c)
      PROVE  Fitting(c[i], opened \cup Before(c, i))
  <2>1. CASE i <= Len(a)
    <3>1. i \in 1..Len(a) /\ i \in 1..(Len(a) + 1)
      BY <1>1, <2>1
    <3>2. Fitting(a[i], opened \cup Before(a, i)) /\ c[i] = a[i]
      BY <1>1, <3>1 DEF Leads
    <3>3. opened \cup Before(a, i) \subseteq opened \cup Before(c, i)
      BY <1>2, <3>1
    <3> QED
      BY <3>2, <3>3, FitsMore
  <2>2. CASE i > Len(a)
    <3> DEFINE j == i - Len(a)
    <3>1. j \in 1..Len(b) /\ j \in 1..(Len(b) + 1) /\ i = Len(a) + j
      BY <1>1, <2>2
    <3> HIDE DEF j
    <3>2. Fitting(b[j], between \cup Before(b, j)) /\ c[i] = b[j]
      BY <1>1, <3>1 DEF Leads
    <3>3. between \subseteq opened \cup Before(a, Len(a) + 1)
      BY DEF Leads
    <3>4. Before(a, Len(a) + 1) \cup Before(b, j) \subseteq Before(c, i)
      BY <1>3, <3>1
    <3>5. between \cup Before(b, j) \subseteq opened \cup Before(c, i)
      BY <3>3, <3>4
    <3> QED
      BY <3>2, <3>5, FitsMore
  <2> QED
    BY <1>1, <2>1, <2>2
<1>5. after \subseteq opened \cup Before(c, Len(c) + 1)
  <2>1. Len(b) + 1 \in 1..(Len(b) + 1) /\ Len(c) + 1 = Len(a) + (Len(b) + 1)
    BY <1>1
  <2>2. Before(a, Len(a) + 1) \cup Before(b, Len(b) + 1) \subseteq Before(c, Len(c) + 1)
    BY <1>3, <2>1
  <2> QED
    BY <2>2 DEF Leads
<1>6. Len(c) \in Nat
  BY <1>1
<1>7. Leads(c, opened, after)
  BY <1>4, <1>5, <1>6 DEF Leads
<1> QED
  BY <1>7 DEF c

\* Steps that need no more than what was opened before.
AllFitting(script, opened) == Len(script) \in Nat /\ \A i \in 1..Len(script) : Fitting(script[i], opened)

LEMMA StaysLeads ==
  ASSUME NEW script, NEW opened, AllFitting(script, opened)
  PROVE  Leads(script, opened, opened)
<1>1. ASSUME NEW i \in 1..Len(script)
      PROVE  Fitting(script[i], opened \cup Before(script, i))
  BY FitsMore DEF AllFitting
<1> QED
  BY <1>1 DEF Leads, AllFitting

LEMMA StaysJoins ==
  ASSUME NEW a, NEW b, NEW opened, AllFitting(a, opened), AllFitting(b, opened)
  PROVE  AllFitting(a \o b, opened)
<1> DEFINE c == a \o b
<1>1. /\ Len(a) \in Nat /\ Len(b) \in Nat /\ Len(c) = Len(a) + Len(b)
      /\ \A i \in 1..Len(a) : c[i] = a[i]
      /\ \A i \in 1..Len(b) : c[Len(a) + i] = b[i]
  BY DEF AllFitting
<1> HIDE DEF c
<1>2. ASSUME NEW i \in 1..Len(c)
      PROVE  Fitting(c[i], opened)
  <2>1. CASE i <= Len(a)
    <3>1. i \in 1..Len(a)
      BY <1>1, <2>1
    <3> QED
      BY <1>1, <3>1 DEF AllFitting
  <2>2. CASE i > Len(a)
    <3>1. i - Len(a) \in 1..Len(b) /\ i = Len(a) + (i - Len(a))
      BY <1>1, <2>2
    <3> QED
      BY <1>1, <3>1 DEF AllFitting
  <2> QED
    BY <1>1, <2>1, <2>2
<1> QED
  BY <1>1, <1>2 DEF AllFitting, c

LEMMA LeadsOn ==
  ASSUME NEW a, NEW b, NEW opened, NEW after, Leads(a, opened, after), AllFitting(b, after)
  PROVE  Leads(a \o b, opened, after)
BY StaysLeads, LeadsJoins

LEMMA StaysOne ==
  ASSUME NEW opened, NEW a,
         Fitting(a, opened)
  PROVE  AllFitting(<<a>>, opened)
<1>1. Len(<<a>>) = 1 /\ <<a>>[1] = a
  OBVIOUS
<1>2. \A i \in 1..1 : i = 1
  OBVIOUS
<1> QED
  BY <1>1, <1>2 DEF AllFitting

LEMMA StaysTwo ==
  ASSUME NEW opened, NEW a, NEW b,
         Fitting(a, opened), Fitting(b, opened)
  PROVE  AllFitting(<<a, b>>, opened)
<1>1. Len(<<a, b>>) = 2 /\ <<a, b>>[1] = a /\ <<a, b>>[2] = b
  OBVIOUS
<1>2. \A i \in 1..2 : i = 1 \/ i = 2
  OBVIOUS
<1> QED
  BY <1>1, <1>2 DEF AllFitting

LEMMA StaysThree ==
  ASSUME NEW opened, NEW a, NEW b, NEW c,
         Fitting(a, opened), Fitting(b, opened), Fitting(c, opened)
  PROVE  AllFitting(<<a, b, c>>, opened)
<1>1. Len(<<a, b, c>>) = 3 /\ <<a, b, c>>[1] = a /\ <<a, b, c>>[2] = b /\ <<a, b, c>>[3] = c
  OBVIOUS
<1>2. \A i \in 1..3 : i = 1 \/ i = 2 \/ i = 3
  OBVIOUS
<1> QED
  BY <1>1, <1>2 DEF AllFitting

LEMMA StaysFour ==
  ASSUME NEW opened, NEW a, NEW b, NEW c, NEW d,
         Fitting(a, opened), Fitting(b, opened), Fitting(c, opened), Fitting(d, opened)
  PROVE  AllFitting(<<a, b, c, d>>, opened)
<1>1. /\ Len(<<a, b, c, d>>) = 4
      /\ <<a, b, c, d>>[1] = a
      /\ <<a, b, c, d>>[2] = b
      /\ <<a, b, c, d>>[3] = c
      /\ <<a, b, c, d>>[4] = d
  OBVIOUS
<1>2. \A i \in 1..4 : i = 1 \/ i = 2 \/ i = 3 \/ i = 4
  OBVIOUS
<1> QED
  BY <1>1, <1>2 DEF AllFitting

LEMMA StaysFive ==
  ASSUME NEW opened, NEW a, NEW b, NEW c, NEW d, NEW e,
         Fitting(a, opened), Fitting(b, opened), Fitting(c, opened), Fitting(d, opened), Fitting(e, opened)
  PROVE  AllFitting(<<a, b, c, d, e>>, opened)
<1>1. /\ Len(<<a, b, c, d, e>>) = 5
      /\ <<a, b, c, d, e>>[1] = a
      /\ <<a, b, c, d, e>>[2] = b
      /\ <<a, b, c, d, e>>[3] = c
      /\ <<a, b, c, d, e>>[4] = d
      /\ <<a, b, c, d, e>>[5] = e
  OBVIOUS
<1>2. \A i \in 1..5 : i = 1 \/ i = 2 \/ i = 3 \/ i = 4 \/ i = 5
  OBVIOUS
<1> QED
  BY <1>1, <1>2 DEF AllFitting

-----------------------------------------------------------------------------
\* A step that is no call fits anywhere.
LEMMA Quiet ==
  ASSUME NEW step, NEW opened, step.does # "call"
  PROVE  Fitting(step, opened)
BY DEF Fitting

LEMMA ViewFits ==
  ASSUME NEW home, NEW method, NEW arg, NEW returns, NEW opened
  PROVE  Fitting(On(home, Views(method, arg, returns)), opened)
BY Quiet DEF On, Views, Step

LEMMA LooksFit ==
  ASSUME NEW home, NEW opened
  PROVE  /\ Fitting(On(home, Remembers), opened)
         /\ Fitting(On(home, Unchanged), opened)
         /\ Fitting(On(home, SameKeys), opened)
<1>1. On(home, Remembers).does = "remembers" /\ On(home, Unchanged).does = "unchanged"
      /\ On(home, SameKeys).does = "same keys"
  BY DEF On, Remembers, Unchanged, SameKeys, Step
<1> QED
  BY <1>1, Quiet

LEMMA KeysFit ==
  ASSUME NEW home, NEW a, NEW opened
  PROVE  Fitting(Zero(home, a), opened) /\ Fitting(Missing(home, a), opened)
<1>1. Zero(home, a).does = "stores" /\ Missing(home, a).does = "lacks"
  BY DEF Zero, Missing, On, Stores, Lacks, Step
<1> QED
  BY <1>1, Quiet

LEMMA OutcomesFit ==
  ASSUME NEW lines, NEW a, NEW amount, NEW opened
  PROVE  /\ Fitting(_outcome_logs(lines), opened)
         /\ Fitting(Transferred(a, amount), opened)
         /\ Fitting(NotTransferred, opened)
<1>1. /\ _outcome_logs(lines).does = "logs"
      /\ Transferred(a, amount).does = "receipts"
      /\ NotTransferred.does = "receipts"
  BY DEF _outcome_logs, Transferred, NotTransferred, Step
<1> QED
  BY <1>1, Quiet

-----------------------------------------------------------------------------
\* The fields of a request that are looked at.
Asked(step, home, caller, method, arg) ==
  /\ step.does = "call" /\ step.caught = 0
  /\ step.account = home /\ step.signer = caller /\ step.method = method /\ step.arg = arg

LEMMA RequestsAsked ==
  ASSUME NEW home, NEW caller, NEW method, NEW arg, NEW returns
  PROVE  /\ Asked(Requests(home, caller, method, arg, returns), home, caller, method, arg)
         /\ Asked(Refused(Requests(home, caller, method, arg, returns)), home, caller, method, arg)
BY DEF Asked, Requests, Refused, SignedBy, On, Sends, Step

LEMMA RequestFields ==
  ASSUME NEW a, NEW amount, NEW deposit
  PROVE  /\ Request(a, amount, deposit).account = a
         /\ Request(a, amount, deposit).amount = amount
         /\ Request(a, amount, deposit).deposit = deposit
BY DEF Request

LEMMA HomesNamed ==
  /\ \A home \in {"contract", "deposit_contract", "unregister_contract", "withdraw_contract",
                  "withdraw_overflow", "overflow", "zero_cost", "add_overflow"} : home \in Homes
  /\ \A home \in Homes \ OverflowHomes : home # "add_overflow" /\ home # "withdraw_overflow"
<1>1. /\ DOMAIN Contracts = 1..7
      /\ Contracts[1] = "contract" /\ Contracts[2] = "deposit_contract" /\ Contracts[3] = "unregister_contract"
      /\ Contracts[4] = "withdraw_contract" /\ Contracts[5] = "withdraw_overflow"
      /\ Contracts[6] = "overflow" /\ Contracts[7] = "zero_cost"
  BY DEF Contracts
<1> QED
  BY <1>1 DEF Homes, OverflowHomes

\* A call of a registry that was opened.
LEMMA ServiceFits ==
  ASSUME NEW opened, NEW home \in opened, home \in Homes \ OverflowHomes, NEW caller \in Names,
         NEW method \in VisitedMethods, NEW a \in Names, NEW amount, NEW deposit \in Nat, NEW returns
  PROVE  /\ Fitting(Requests(home, caller, method, Request(a, amount, deposit), returns), opened)
         /\ Fitting(Refused(Requests(home, caller, method, Request(a, amount, deposit), returns)), opened)
<1> DEFINE arg == Request(a, amount, deposit)
<1>1. arg.account = a /\ arg.deposit = deposit
  BY RequestFields
<1> HIDE DEF arg
<1>2. ASSUME NEW step, Asked(step, home, caller, method, arg)
      PROVE  Fitting(step, opened)
  BY <1>1, <1>2, HomesNamed DEF Asked, Fitting, Serves
<1> QED
  BY <1>2, RequestsAsked DEF arg

LEMMA SeedFits ==
  ASSUME NEW opened, NEW home \in opened, home \in Homes, NEW caller, NEW method \in SeedingMethods
  PROVE  Fitting(Prepares(home, caller, method), opened)
<1>1. Asked(Prepares(home, caller, method), home, caller, method, Request(caller, 0, 0))
  BY RequestsAsked DEF Prepares
<1> HIDE DEF Prepares
<1> QED
  BY <1>1 DEF Asked, Fitting, Prices

LEMMA RepriceFits ==
  ASSUME NEW opened, NEW home \in opened, home \in Homes, NEW caller, home # "add_overflow"
  PROVE  Fitting(Prepares(home, caller, "fixtureSetCostMax"), opened)
<1>1. Asked(Prepares(home, caller, "fixtureSetCostMax"), home, caller, "fixtureSetCostMax", Request(caller, 0, 0))
  BY RequestsAsked DEF Prepares
<1> HIDE DEF Prepares
<1> QED
  BY <1>1 DEF Asked, Fitting, Prices

LEMMA InstalledLeads ==
  ASSUME NEW opened, NEW home \in Homes, NEW perByte \in Nat,
         home \in OverflowHomes \/ perByte \in {0, PerByte} \/ perByte >= Limb \div 2
  PROVE  Leads(Installed(home, perByte), opened, opened \cup {home})
<1> DEFINE deploys == Requests(home, home, "deploy", Request(home, 0, 0), Anything)
           starts == Requests(home, home, "initialize", Request(home, perByte, 0), Anything)
<1>1. Installed(home, perByte) = <<deploys>> \o <<starts>>
  BY DEF Installed
<1>2. Asked(deploys, home, home, "deploy", Request(home, 0, 0))
  BY RequestsAsked
<1>3. Asked(starts, home, home, "initialize", Request(home, perByte, 0))
  BY RequestsAsked
<1> HIDE DEF deploys, starts
<1>4. Leads(<<deploys>>, opened, opened)
  <2>1. Fitting(deploys, opened)
    BY <1>2 DEF Asked, Fitting
  <2> QED
    BY <2>1, StaysOne, StaysLeads
<1>5. Leads(<<starts>>, opened, opened \cup {home})
  <2>1. Fitting(starts, opened)
    BY <1>3, RequestFields DEF Asked, Fitting, Initializes
  <2>2. Opens(starts) = {home}
    BY <1>3 DEF Asked, Opens
  <2>3. AllFitting(<<starts>>, opened)
    BY <2>1, StaysOne
  <2>4. Len(<<starts>>) = 1 /\ <<starts>>[1] = starts
    OBVIOUS
  <2>5. home \in Before(<<starts>>, Len(<<starts>>) + 1)
    BY <2>2, <2>4 DEF Before
  <2> QED
    BY <2>3, <2>5, StaysLeads DEF Leads
<1> QED
  BY <1>1, <1>4, <1>5, LeadsJoins
-----------------------------------------------------------------------------
LEMMA FailsStays ==
  ASSUME NEW s, NEW opened, Fitting(Refused(s), opened)
  PROVE  AllFitting(FailsUnchanged(s), opened)
BY LooksFit, StaysThree DEF FailsUnchanged

LEMMA BalanceStays ==
  ASSUME NEW home, NEW a, NEW total, NEW opened
  PROVE  AllFitting(_expect_storage_balance(home, a, total), opened)
BY LooksFit, ViewFits, StaysThree DEF _expect_storage_balance, LooksUnchanged

LEMMA BoundsStay ==
  ASSUME NEW home, NEW perByte, NEW wire, NEW opened
  PROVE  AllFitting(_expect_storage_bounds(home, perByte, wire), opened)
BY LooksFit, ViewFits, StaysThree DEF _expect_storage_bounds, LooksUnchanged

LEMMA TryViewStays ==
  ASSUME NEW home, NEW method, NEW arg, NEW returns, NEW opened
  PROVE  AllFitting(Try(<< On(home, Views(method, arg, returns)) >>), opened)
<1> DEFINE view == On(home, Views(method, arg, returns))
           steps == << view >>
           guarded == [i \in 1..Len(steps) |-> [steps[i] EXCEPT !.caught = Len(steps) + 2 - i, !.claims = TRUE]]
<1>1. Len(steps) = 1 /\ steps[1] = view
  OBVIOUS
<1>2. [view EXCEPT !.caught = 2, !.claims = TRUE].does = "view"
  BY DEF On, Views, Step
<1> HIDE DEF view, steps
<1>3. Len(guarded) = 1 /\ \A i \in 1..1 : guarded[i] = [steps[i] EXCEPT !.caught = 3 - i, !.claims = TRUE]
  BY <1>1
<1> HIDE DEF guarded
<1>4. 1 \in 1..1 /\ 3 - 1 = 2
  OBVIOUS
<1>5. guarded[1] = [steps[1] EXCEPT !.caught = 3 - 1, !.claims = TRUE]
  BY ONLY <1>3, <1>4, Zenon
<1>6. Len(guarded) = 1 /\ guarded[1] = [view EXCEPT !.caught = 2, !.claims = TRUE]
  BY ONLY <1>1, <1>3, <1>4, <1>5, Zenon
<1>7. AllFitting(guarded, opened)
  <2>1. Fitting(guarded[1], opened)
    BY <1>2, <1>6, Quiet
  <2>2. \A i \in 1..1 : i = 1
    OBVIOUS
  <2> QED
    BY <1>6, <2>1, <2>2 DEF AllFitting
<1>8. AllFitting(<<Unreachable>>, opened)
  <2>1. Unreachable.does # "call"
    BY DEF Unreachable, Step
  <2> QED
    BY <2>1, Quiet, StaysOne
<1>9. Try(steps) = guarded \o <<Unreachable>>
  BY DEF Try, guarded
<1> QED
  BY <1>7, <1>8, <1>9, StaysJoins DEF steps, view

LEMMA FailingLooksStay ==
  ASSUME NEW home, NEW a, NEW wire, NEW opened
  PROVE  /\ AllFitting(_expect_storage_balance_failure(home, a), opened)
         /\ AllFitting(_expect_storage_bounds_failure(home, wire), opened)
<1>1. ASSUME NEW method, NEW arg
      PROVE  AllFitting(LooksFailing(home, Views(method, arg, Anything)), opened)
  <2>1. AllFitting(<< On(home, Remembers) >>, opened) /\ AllFitting(<< On(home, Unchanged) >>, opened)
    BY LooksFit, StaysOne
  <2> QED
    BY <2>1, TryViewStays, StaysJoins DEF LooksFailing
<1> QED
  BY <1>1 DEF _expect_storage_balance_failure, _expect_storage_bounds_failure

LEMMA CostsStay ==
  ASSUME NEW home, NEW a, NEW amount, NEW opened
  PROVE  AllFitting(Costs(home, a), opened) /\ AllFitting(Supplies(home, amount), opened)
BY ViewFits, StaysTwo DEF Costs, Supplies

LEMMA ReclaimedStays ==
  ASSUME NEW home, NEW a, NEW opened
  PROVE  AllFitting(Reclaimed(home, a), opened)
BY ViewFits, OutcomesFit, KeysFit, StaysThree DEF Reclaimed

\* The calls of the gate by name.
LEMMA CallsFit ==
  ASSUME NEW opened, NEW home \in opened, home \in Homes \ OverflowHomes, NEW caller \in Names, NEW a \in Names,
         NEW amount, NEW deposit \in Nat, NEW returns
  PROVE  /\ Fitting(_storage_deposit(home, caller, a, deposit, returns), opened)
         /\ Fitting(Refused(_storage_deposit(home, caller, a, deposit, returns)), opened)
         /\ Fitting(_register(home, caller, deposit, returns), opened)
         /\ Fitting(Refused(_register(home, caller, deposit, returns)), opened)
         /\ Fitting(_unregister(home, caller, deposit, returns), opened)
         /\ Fitting(Refused(_unregister(home, caller, deposit, returns)), opened)
         /\ Fitting(_force_unregister(home, caller, amount, deposit, returns), opened)
         /\ Fitting(Refused(_force_unregister(home, caller, amount, deposit, returns)), opened)
         /\ Fitting(_storage_unregister(home, caller, amount, deposit, returns), opened)
         /\ Fitting(Refused(_storage_unregister(home, caller, amount, deposit, returns)), opened)
         /\ Fitting(_storage_withdraw(home, caller, amount, deposit, returns), opened)
         /\ Fitting(Refused(_storage_withdraw(home, caller, amount, deposit, returns)), opened)
<1> DEFINE methods == {"storage_deposit", "registerCaller", "unregisterCaller", "forceUnregisterCaller",
                       "storage_unregister", "storage_withdraw"}
<1>1. methods \subseteq VisitedMethods
  BY DEF VisitedMethods
<1>2. \A n : \A method \in methods, b \in Names :
        /\ Fitting(Requests(home, caller, method, Request(b, n, deposit), returns), opened)
        /\ Fitting(Refused(Requests(home, caller, method, Request(b, n, deposit), returns)), opened)
  BY <1>1, ServiceFits
<1> QED
  BY <1>2 DEF _storage_deposit, _register, _unregister, _force_unregister, _storage_unregister, _storage_withdraw

LEMMA DepositsTyped ==
  /\ generous \in Nat /\ excess \in Nat
  /\ \A a \in Names : Total(a) \in Nat /\ Total(a) - 1 \in Nat /\ Total(a) + excess \in Nat
<1>1. \A a \in Names : AccountLength[a] \in Nat
  BY DEF Names, AccountLength
<1>2. \A a \in Names : Delta(a) \in Nat /\ Delta(a) >= 1
  BY <1>1 DEF Delta
<1>3. \A a \in Names : Total(a) \in Nat /\ Total(a) >= 1
  BY <1>2, PerByteAssumption DEF Total
<1> QED
  BY <1>3 DEF generous, excess

-----------------------------------------------------------------------------
LEMMA DepositScenesLead ==
  ASSUME NEW opened
  PROVE  Leads(_run_storage_deposit_scenes, opened, opened \cup {"deposit_contract"})
<1> DEFINE c == "deposit_contract"
           inside == opened \cup {c}
           p1 == FailsUnchanged(_storage_deposit(c, "short", "short", Total("short") - 1, Anything))
           p2 == << _storage_deposit(c, "short", "short", Total("short"), Total("short")), Zero(c, "short"),
                    On(c, Views("lastDelta", "", Delta("short"))), On(c, Views("get", "", Delta("short"))) >>
           p3 == << _storage_deposit(c, "short", "short", excess, Total("short")), Transferred("short", excess),
                    _storage_deposit(c, "short", "long", Total("long") + excess, Total("long")),
                    Transferred("short", excess), Zero(c, "long") >>
           p4 == << Prepares(c, "malformed", "seedCallerMalformed8") >>
           p5 == FailsUnchanged(_storage_deposit(c, "short", "malformed", generous, Anything))
           script == Installed(c, PerByte) \o p1 \o p2 \o Costs(c, "short")
                       \o _expect_storage_balance(c, "short", Total("short"))
                       \o p3 \o _expect_storage_balance(c, "long", Total("long")) \o p4 \o p5
<1>1. c \in Homes /\ c \in Homes \ OverflowHomes /\ c \in inside
  BY HomesNamed DEF OverflowHomes
<1>2. {"short", "long", "malformed"} \subseteq Names /\ "seedCallerMalformed8" \in SeedingMethods
  BY DEF Names, SeedingMethods
<1>3. Leads(Installed(c, PerByte), opened, inside)
  BY <1>1, PerByteAssumption, InstalledLeads
<1>4. \A returns : \A a \in Names, deposit \in Nat :
        /\ Fitting(_storage_deposit(c, "short", a, deposit, returns), inside)
        /\ Fitting(Refused(_storage_deposit(c, "short", a, deposit, returns)), inside)
  BY <1>1, <1>2, CallsFit
<1> HIDE DEF inside, c
<1>5. AllFitting(p1, inside)
  BY <1>2, <1>4, DepositsTyped, FailsStays
<1>6. AllFitting(p2, inside)
  BY <1>2, <1>4, DepositsTyped, KeysFit, ViewFits, StaysFour
<1>7. AllFitting(p3, inside)
  BY <1>2, <1>4, DepositsTyped, KeysFit, OutcomesFit, StaysFive
<1>8. AllFitting(p4, inside)
  BY <1>1, <1>2, SeedFits, StaysOne
<1>9. AllFitting(p5, inside)
  BY <1>2, <1>4, DepositsTyped, FailsStays
<1>10. _run_storage_deposit_scenes = script
  BY DEF _run_storage_deposit_scenes, c
<1> HIDE DEF p1, p2, p3, p4, p5
<1>11. Leads(script, opened, inside)
  BY <1>3, <1>5, <1>6, <1>7, <1>8, <1>9, CostsStay, BalanceStays, LeadsOn
<1> QED
  BY <1>10, <1>11 DEF inside, c

LEMMA UnreadableFits ==
  ASSUME NEW opened, NEW home \in opened, home \in Homes \ OverflowHomes, NEW caller \in Names,
         NEW amount, NEW deposit \in Nat, NEW returns
  PROVE  Fitting(Refused([_storage_unregister(home, caller, amount, deposit, returns) EXCEPT !.arg.readable = FALSE]),
              opened)
<1> DEFINE arg == Request(caller, amount, deposit)
           request == Requests(home, caller, "storage_unregister", arg, returns)
           step == Refused([request EXCEPT !.arg.readable = FALSE])
<1>1. /\ step.does = "call" /\ step.caught = 0 /\ step.account = home /\ step.signer = caller
      /\ step.method = "storage_unregister" /\ step.arg = [arg EXCEPT !.readable = FALSE]
  BY DEF Requests, Refused, SignedBy, On, Sends, Step
<1>2. step.arg.account = caller /\ step.arg.deposit = deposit
  BY <1>1 DEF Request
<1>3. step = Refused([_storage_unregister(home, caller, amount, deposit, returns) EXCEPT !.arg.readable = FALSE])
  BY DEF _storage_unregister
<1> HIDE DEF step
<1>4. "storage_unregister" \in VisitedMethods
  BY DEF VisitedMethods
<1>5. Fitting(step, opened)
  BY <1>1, <1>2, <1>4, HomesNamed DEF Fitting, Serves
<1> QED
  BY <1>3, <1>5

LEMMA UnregisterScenesLead ==
  ASSUME NEW opened
  PROVE  Leads(_run_public_storage_unregister_scenes, opened, opened \cup {"unregister_contract"})
<1> DEFINE c == "unregister_contract"
           inside == opened \cup {c}
           registered == << _register(c, "short", generous, Delta("short")) >>
           forced == _storage_unregister(c, "short", 1, 1, Anything)
           p1 == RejectedWithoutLog(_storage_unregister(c, "short", 1, 0, Anything))
           p2 == RejectedWithoutLog(_storage_unregister(c, "short", 1, 2, Anything))
           p3 == << Prepares(c, "short", "fixtureSeedCallerMixedSupply") >>
           p4 == FailsUnchanged(_storage_unregister(c, "short", 0, 1, Anything))
           p5 == FailsUnchanged([forced EXCEPT !.arg.readable = FALSE])
           p6 == << Prepares(c, "short", "seedCallerOne") >>
           p7 == FailsUnchanged(forced)
           p8 == << Prepares(c, "short", "fixtureRemoveCaller"), Prepares(c, "malformed", "seedCallerMalformed8") >>
           p9 == FailsUnchanged(_storage_unregister(c, "malformed", 1, 1, Anything))
           p10 == << Prepares(c, c, "fixtureSetCostMax"), Prepares(c, "short", "seedCallerZero") >>
           first == Installed(c, PerByte)
                      \o NotRegistered(c, "short", 0) \o NotRegistered(c, "short", 1) \o NotRegistered(c, "long", 0)
                      \o p1 \o p2 \o registered \o Supplies(c, 0) \o RemovedWithoutLog(c, 0) \o Supplies(c, 0)
           second == first \o registered \o RemovedWithoutLog(c, 1) \o registered \o p3 \o p4
                       \o RemovedWithoutLog(c, 1) \o Supplies(c, 0) \o p5
           third == second \o NotRegistered(c, "short", 0) \o p6 \o p7 \o p8 \o p9 \o p10 \o p7
<1>1. c \in Homes /\ c \in Homes \ OverflowHomes /\ c \in inside /\ c # "add_overflow"
  BY HomesNamed DEF OverflowHomes
<1>2. /\ {"short", "long", "malformed"} \subseteq Names
      /\ {"seedCallerMalformed8", "seedCallerOne", "seedCallerZero", "fixtureSeedCallerMixedSupply",
          "fixtureRemoveCaller"} \subseteq SeedingMethods
  BY DEF Names, SeedingMethods
<1>3. Leads(Installed(c, PerByte), opened, inside)
  BY <1>1, PerByteAssumption, InstalledLeads
<1>4. \A amount, returns : \A caller \in Names, deposit \in Nat :
        /\ Fitting(_storage_unregister(c, caller, amount, deposit, returns), inside)
        /\ Fitting(Refused(_storage_unregister(c, caller, amount, deposit, returns)), inside)
        /\ Fitting(_register(c, caller, deposit, returns), inside)
  BY <1>1, CallsFit
<1>5. Fitting(Refused([forced EXCEPT !.arg.readable = FALSE]), inside)
  BY <1>1, <1>2, UnreadableFits
<1>6. Fitting(Prepares(c, c, "fixtureSetCostMax"), inside)
  BY <1>1, RepriceFits
<1>7. \A caller : \A method \in SeedingMethods : Fitting(Prepares(c, caller, method), inside)
  BY <1>1, SeedFits
<1> HIDE DEF inside, c
<1>8. \A force : \A caller \in Names : AllFitting(NotRegistered(c, caller, force), inside)
  BY <1>4, OutcomesFit, KeysFit, StaysThree DEF NotRegistered
<1>9. \A force : AllFitting(RemovedWithoutLog(c, force), inside)
  BY <1>2, <1>4, OutcomesFit, KeysFit, StaysFour DEF RemovedWithoutLog
<1>10. \A deposit \in Nat :
         AllFitting(RejectedWithoutLog(_storage_unregister(c, "short", 1, deposit, Anything)), inside)
  <2>1. \A s : Fitting(Refused(s), inside) => AllFitting(RejectedWithoutLog(s), inside)
    BY LooksFit, OutcomesFit, StaysFour DEF RejectedWithoutLog
  <2> QED
    BY <1>2, <1>4, <2>1
<1>11. AllFitting(p1, inside) /\ AllFitting(p2, inside)
  BY <1>10
<1>12. AllFitting(registered, inside)
  BY <1>2, <1>4, DepositsTyped, StaysOne
<1>13. AllFitting(p3, inside) /\ AllFitting(p6, inside)
  BY <1>2, <1>7, StaysOne
<1>14. AllFitting(p4, inside) /\ AllFitting(p7, inside) /\ AllFitting(p9, inside)
  BY <1>2, <1>4, FailsStays
<1>15. AllFitting(p5, inside)
  BY <1>5, FailsStays
<1>16. AllFitting(p8, inside) /\ AllFitting(p10, inside)
  BY <1>2, <1>6, <1>7, StaysTwo
<1>17. _run_public_storage_unregister_scenes = third
  BY DEF _run_public_storage_unregister_scenes, c
<1> HIDE DEF registered, p1, p2, p3, p4, p5, p6, p7, p8, p9, p10
<1>18. Leads(first, opened, inside)
  BY <1>2, <1>3, <1>8, <1>9, <1>11, <1>12, CostsStay, LeadsOn
<1> HIDE DEF first
<1>19. Leads(second, opened, inside)
  BY <1>9, <1>12, <1>13, <1>14, <1>15, <1>18, CostsStay, LeadsOn
<1> HIDE DEF second
<1>20. Leads(third, opened, inside)
  BY <1>2, <1>8, <1>13, <1>14, <1>16, <1>19, LeadsOn
<1> QED
  BY <1>17, <1>20 DEF inside, c

-----------------------------------------------------------------------------
\* The pieces that the gate repeats.
LEMMA FlattenThree ==
  ASSUME NEW pieces, NEW opened, Len(pieces) = 3, \A i \in 1..3 : AllFitting(pieces[i], opened)
  PROVE  AllFitting(FlattenSeq(pieces), opened)
<1>1. PICK a, b, c : pieces[1] = a /\ pieces[2] = b /\ pieces[3] = c
  OBVIOUS
<1>2. AllFitting(a, opened) /\ AllFitting(b, opened) /\ AllFitting(c, opened)
  BY <1>1
<1> DEFINE flat == [i \in 1..3 |-> IF i = 1 THEN a ELSE IF i = 2 THEN a \o b ELSE a \o b \o c]
           Flattens(f) == f = [i \in 1..Len(pieces) |-> IF i = 1 THEN pieces[i] ELSE f[i - 1] \o pieces[i]]
           chosen == CHOOSE f : Flattens(f)
<1>3. FlattenSeq(pieces) = chosen[3]
  BY DEF FlattenSeq
<1>4. Flattens(flat)
  <2>1. \A i \in 1..3 : flat[i] = IF i = 1 THEN pieces[i] ELSE flat[i - 1] \o pieces[i]
    BY <1>1
  <2> QED
    BY <2>1
<1>5. chosen = [i \in 1..Len(pieces) |-> IF i = 1 THEN pieces[i] ELSE chosen[i - 1] \o pieces[i]]
  BY <1>4
<1> HIDE DEF flat, chosen
<1>6. \A i \in 1..3 : chosen[i] = IF i = 1 THEN pieces[i] ELSE chosen[i - 1] \o pieces[i]
  BY <1>5
<1>7. chosen[1] = a /\ chosen[2] = chosen[1] \o b /\ chosen[3] = chosen[2] \o c
  BY <1>1, <1>6
<1>8. AllFitting(chosen[3], opened)
  BY <1>2, <1>7, StaysJoins
<1> QED
  BY <1>3, <1>8

LEMMA FlattenFour ==
  ASSUME NEW pieces, NEW opened, Len(pieces) = 4, \A i \in 1..4 : AllFitting(pieces[i], opened)
  PROVE  AllFitting(FlattenSeq(pieces), opened)
<1>1. PICK a, b, c, d : pieces[1] = a /\ pieces[2] = b /\ pieces[3] = c /\ pieces[4] = d
  OBVIOUS
<1>2. AllFitting(a, opened) /\ AllFitting(b, opened) /\ AllFitting(c, opened) /\ AllFitting(d, opened)
  BY <1>1
<1> DEFINE flat == [i \in 1..4 |-> IF i = 1 THEN a ELSE IF i = 2 THEN a \o b
                                     ELSE IF i = 3 THEN a \o b \o c ELSE a \o b \o c \o d]
           Flattens(f) == f = [i \in 1..Len(pieces) |-> IF i = 1 THEN pieces[i] ELSE f[i - 1] \o pieces[i]]
           chosen == CHOOSE f : Flattens(f)
<1>3. FlattenSeq(pieces) = chosen[4]
  BY DEF FlattenSeq
<1>4. Flattens(flat)
  <2>1. \A i \in 1..4 : flat[i] = IF i = 1 THEN pieces[i] ELSE flat[i - 1] \o pieces[i]
    BY <1>1
  <2> QED
    BY <2>1
<1>5. chosen = [i \in 1..Len(pieces) |-> IF i = 1 THEN pieces[i] ELSE chosen[i - 1] \o pieces[i]]
  BY <1>4
<1> HIDE DEF flat, chosen
<1>6. \A i \in 1..4 : chosen[i] = IF i = 1 THEN pieces[i] ELSE chosen[i - 1] \o pieces[i]
  BY <1>5
<1>7. chosen[1] = a /\ chosen[2] = chosen[1] \o b /\ chosen[3] = chosen[2] \o c /\ chosen[4] = chosen[3] \o d
  BY <1>1, <1>6
<1>8. AllFitting(chosen[4], opened)
  BY <1>2, <1>7, StaysJoins
<1> QED
  BY <1>3, <1>8

\* The fixtures of the two registries whose costs are no amounts, and the calls they then refuse.
LEMMA WithdrawOverflowFits ==
  ASSUME NEW opened, "withdraw_overflow" \in opened, NEW amount, NEW returns
  PROVE  Fitting(Refused(_storage_withdraw("withdraw_overflow", "short", amount, 1, returns)), opened)
<1> DEFINE arg == Request("short", amount, 1)
           step == Refused(_storage_withdraw("withdraw_overflow", "short", amount, 1, returns))
<1>1. arg.account = "short" /\ arg.deposit = 1
  BY RequestFields
<1>2. Asked(step, "withdraw_overflow", "short", "storage_withdraw", arg)
  BY RequestsAsked DEF _storage_withdraw
<1> HIDE DEF arg, step
<1>3. "short" \in Names /\ "storage_withdraw" \in VisitedMethods
  BY DEF Names, VisitedMethods
<1>4. "withdraw_overflow" \in Homes
  BY HomesNamed
<1>5. Fitting(step, opened)
  BY <1>1, <1>2, <1>3, <1>4 DEF Asked, Fitting, Serves
<1> QED
  BY <1>5 DEF step

LEMMA AddOverflowFits ==
  ASSUME NEW opened, "add_overflow" \in opened, "raised" \in opened, NEW force, NEW returns
  PROVE  /\ Fitting(Refused(_force_unregister("add_overflow", "add_overflow", force, 1, returns)), opened)
         /\ Fitting(Refused(_storage_unregister("add_overflow", "add_overflow", force, 1, returns)), opened)
<1> DEFINE arg == Request("add_overflow", force, 1)
<1>1. arg.account = "add_overflow" /\ arg.deposit = 1
  BY RequestFields
<1> HIDE DEF arg
<1>2. "add_overflow" \in Names /\ {"forceUnregisterCaller", "storage_unregister"} \subseteq VisitedMethods
  BY DEF Names, VisitedMethods
<1>3. "add_overflow" \in Homes
  BY HomesNamed
<1>4. ASSUME NEW step, NEW method \in {"forceUnregisterCaller", "storage_unregister"},
             Asked(step, "add_overflow", "add_overflow", method, arg)
      PROVE  Fitting(step, opened)
  BY <1>1, <1>2, <1>3, <1>4 DEF Asked, Fitting, Serves
<1> QED
  BY <1>4, RequestsAsked DEF arg, _force_unregister, _storage_unregister

LEMMA RaisesLeads ==
  ASSUME NEW opened, "add_overflow" \in opened
  PROVE  Leads(<< Prepares("add_overflow", "add_overflow", "fixtureSetCostAddOverflow"),
                  Prepares("add_overflow", "add_overflow", "seedCallerZero") >>, opened, opened \cup {"raised"})
<1> DEFINE a == Prepares("add_overflow", "add_overflow", "fixtureSetCostAddOverflow")
           b == Prepares("add_overflow", "add_overflow", "seedCallerZero")
<1>1. Asked(a, "add_overflow", "add_overflow", "fixtureSetCostAddOverflow", Request("add_overflow", 0, 0))
  BY RequestsAsked DEF Prepares
<1>2. "add_overflow" \in Homes /\ "seedCallerZero" \in SeedingMethods
  BY HomesNamed DEF SeedingMethods
<1>3. Fitting(b, opened)
  BY <1>2, SeedFits
<1>4. Request("add_overflow", 0, 0).readable
  BY DEF Request
<1> HIDE DEF a, b
<1>5. Fitting(a, opened) /\ Opens(a) = {"raised"}
  BY <1>1, <1>2, <1>4 DEF Asked, Fitting, Prices, Opens
<1>6. AllFitting(<<a, b>>, opened)
  BY <1>3, <1>5, StaysTwo
<1>7. Len(<<a, b>>) = 2 /\ <<a, b>>[1] = a
  OBVIOUS
<1>8. "raised" \in Before(<<a, b>>, Len(<<a, b>>) + 1)
  BY <1>5, <1>7 DEF Before
<1>9. Leads(<<a, b>>, opened, opened \cup {"raised"})
  BY <1>6, <1>8, StaysLeads DEF Leads
<1> QED
  BY <1>9 DEF a, b

-----------------------------------------------------------------------------
LEMMA WithdrawScenesLead ==
  ASSUME NEW opened
  PROVE  Leads(_run_storage_withdraw_scenes, opened,
               (opened \cup {"withdraw_contract"}) \cup {"withdraw_overflow"})
<1> DEFINE c == "withdraw_contract"
           over == "withdraw_overflow"
           inside == opened \cup {c}
           after == inside \cup {over}
           r1 == << _register(c, "short", generous, Anything) >>
           r2 == << _register(c, "long", generous, Anything) >>
           f1 == FailsUnchanged(_storage_withdraw(c, "short", 0, 0, Anything))
           f2 == FailsUnchanged(_storage_withdraw(c, "short", 0, 2, Anything))
           f3 == FailsUnchanged(_storage_withdraw(c, "short", 1, 1, Anything))
           f4 == FailsUnchanged(_storage_withdraw(c, "short", Limb, 1, Anything))
           f5 == FailsUnchanged(_storage_withdraw(c, "short", Limb * Limb - 1, 1, Anything))
           f6 == FailsUnchanged(_storage_withdraw(c, "missing", 0, 1, Anything))
           p1 == << Prepares(c, "malformed", "seedCallerMalformed8") >>
           f7 == FailsUnchanged(_storage_withdraw(c, "malformed", 0, 1, Anything))
           p2 == << Prepares(over, "short", "seedCallerZero"), Prepares(over, over, "fixtureSetCostMax") >>
           f8 == FailsUnchanged(_storage_withdraw(over, "short", 0, 1, Anything))
           first == Installed(c, PerByte) \o r1 \o Withdrawn(c, "short") \o r2 \o Withdrawn(c, "long")
           second == first \o f1 \o f2 \o f3 \o f4 \o f5 \o f6 \o p1 \o f7
           third == second \o Installed(over, 1) \o p2 \o f8
<1>1. /\ c \in Homes /\ c \in Homes \ OverflowHomes /\ c \in inside
      /\ over \in Homes /\ over \in OverflowHomes /\ over \in after
      /\ over # "add_overflow"
  BY HomesNamed DEF OverflowHomes
<1>2. /\ {"short", "long", "malformed", "missing"} \subseteq Names
      /\ {"seedCallerMalformed8", "seedCallerZero"} \subseteq SeedingMethods
  BY DEF Names, SeedingMethods
<1>3. Leads(Installed(c, PerByte), opened, inside) /\ Leads(Installed(over, 1), inside, after)
  BY <1>1, PerByteAssumption, InstalledLeads
<1>4. \A amount, returns : \A caller \in Names, deposit \in Nat :
        /\ Fitting(_storage_withdraw(c, caller, amount, deposit, returns), inside)
        /\ Fitting(Refused(_storage_withdraw(c, caller, amount, deposit, returns)), inside)
        /\ Fitting(_register(c, caller, deposit, returns), inside)
  BY <1>1, CallsFit
<1>5. AllFitting(f8, after)
  BY <1>1, WithdrawOverflowFits, FailsStays
<1>6. AllFitting(p2, after)
  BY <1>1, <1>2, RepriceFits, SeedFits, StaysTwo
<1>7. AllFitting(p1, inside)
  BY <1>1, <1>2, SeedFits, StaysOne
<1> HIDE DEF inside, after, c, over
<1>8. AllFitting(f1, inside) /\ AllFitting(f2, inside) /\ AllFitting(f3, inside) /\ AllFitting(f4, inside)
  BY <1>2, <1>4, FailsStays
<1>9. AllFitting(f5, inside) /\ AllFitting(f6, inside) /\ AllFitting(f7, inside)
  BY <1>2, <1>4, FailsStays
<1>10. AllFitting(r1, inside) /\ AllFitting(r2, inside)
  BY <1>2, <1>4, DepositsTyped, StaysOne
<1>11. ASSUME NEW a \in Names
       PROVE  AllFitting(Withdrawn(c, a), inside)
  <2> DEFINE look == << On(c, Remembers), _storage_withdraw(c, a, 0, 1, Total(a)), _outcome_logs(<<>>),
                        NotTransferred, On(c, Unchanged) >>
             pieces == [i \in 1..3 |-> look \o Supplies(c, 0)]
  <2>1. AllFitting(look, inside)
    BY <1>4, LooksFit, OutcomesFit, StaysFive
  <2>2. Withdrawn(c, a) = FlattenSeq(pieces)
    BY DEF Withdrawn
  <2> HIDE DEF look
  <2>3. Len(pieces) = 3 /\ \A i \in 1..3 : pieces[i] = look \o Supplies(c, 0)
    OBVIOUS
  <2> HIDE DEF pieces
  <2>4. AllFitting(look \o Supplies(c, 0), inside)
    BY <2>1, CostsStay, StaysJoins
  <2>5. Len(pieces) = 3 /\ \A i \in 1..3 : AllFitting(pieces[i], inside)
    BY <2>3, <2>4
  <2>6. AllFitting(FlattenSeq(pieces), inside)
    BY <2>5, FlattenThree
  <2> QED
    BY <2>2, <2>6
<1>12. _run_storage_withdraw_scenes = third
  BY DEF _run_storage_withdraw_scenes, c, over
<1> HIDE DEF r1, r2, f1, f2, f3, f4, f5, f6, f7, f8, p1, p2
<1>13. Leads(first, opened, inside)
  BY <1>2, <1>3, <1>10, <1>11, LeadsOn
<1> HIDE DEF first
<1>14. Leads(second, opened, inside)
  BY <1>7, <1>8, <1>9, <1>13, LeadsOn
<1> HIDE DEF second
<1>15. Leads(third, opened, after)
  BY <1>3, <1>5, <1>6, <1>14, LeadsOn, LeadsJoins
<1> QED
  BY <1>12, <1>15 DEF after, inside, c, over

\* The rest of main, on the contract that is opened first.
LEMMA RegisteringStays ==
  ASSUME NEW opened, "contract" \in opened
  PROVE  AllFitting(Registering, opened)
<1> DEFINE c == "contract"
           wires == <<"", "{}", "not-json", "4096 bytes">>
           bounds == [i \in 1..4 |-> _expect_storage_bounds(c, PerByte, wires[i])]
           p1 == << Refused(_register(c, "short", 0, Anything)), On(c, Unchanged) >>
           p2 == << Refused(_register(c, "short", 1, Anything)), On(c, Unchanged) >>
           p3 == << _register(c, "short", generous, Delta("short")) >>
           p4 == << Zero(c, "short") >>
           p5 == << _register(c, "short", excess, Delta("short")), _register(c, "short", 0, Anything),
                    _register(c, "long", generous, Delta("long")), Zero(c, "long") >>
           looks == _expect_storage_balance(c, "short", Total("short"))
           first == FlattenSeq(bounds) \o _expect_storage_balance(c, "short", 0) \o p1 \o p2 \o p3
           script == first \o Costs(c, "short") \o p4 \o looks \o looks \o p5
                       \o _expect_storage_balance(c, "long", Total("long"))
<1>1. c \in opened /\ c \in Homes \ OverflowHomes
  BY HomesNamed DEF OverflowHomes
<1>2. {"short", "long"} \subseteq Names
  BY DEF Names
<1>3. \A returns : \A caller \in Names, deposit \in Nat :
        /\ Fitting(_register(c, caller, deposit, returns), opened)
        /\ Fitting(Refused(_register(c, caller, deposit, returns)), opened)
  BY <1>1, CallsFit
<1>4. Registering = script
  BY DEF Registering
<1> HIDE DEF c, wires
<1>5. AllFitting(FlattenSeq(bounds), opened)
  <2>1. Len(bounds) = 4 /\ \A i \in 1..4 : bounds[i] = _expect_storage_bounds(c, PerByte, wires[i])
    OBVIOUS
  <2> HIDE DEF bounds
  <2>2. Len(bounds) = 4 /\ \A i \in 1..4 : AllFitting(bounds[i], opened)
    BY <2>1, BoundsStay
  <2> QED
    BY <2>2, FlattenFour
<1>6. AllFitting(p1, opened) /\ AllFitting(p2, opened)
  BY <1>2, <1>3, LooksFit, StaysTwo
<1>7. AllFitting(p3, opened)
  BY <1>2, <1>3, DepositsTyped, StaysOne
<1>8. AllFitting(p4, opened)
  BY KeysFit, StaysOne
<1>9. AllFitting(p5, opened)
  BY <1>2, <1>3, DepositsTyped, KeysFit, StaysFour
<1>10. AllFitting(looks, opened)
  BY BalanceStays
<1> HIDE DEF bounds, p1, p2, p3, p4, p5, looks
<1>11. AllFitting(first, opened)
  BY <1>5, <1>6, <1>7, BalanceStays, StaysJoins
<1> HIDE DEF first
<1>12. AllFitting(script, opened)
  BY <1>8, <1>9, <1>10, <1>11, BalanceStays, CostsStay, StaysJoins
<1> QED
  BY <1>4, <1>12

LEMMA UnregisteringStays ==
  ASSUME NEW opened, "contract" \in opened
  PROVE  AllFitting(Unregistering, opened)
<1> DEFINE c == "contract"
           callers == <<"short", "short", "long", "long">>
           deposits == <<0, 2, 0, 2>>
           refused == [i \in 1..4 |-> FailsUnchanged(_unregister(c, callers[i], deposits[i], Anything))]
           p1 == << On(c, Remembers), _unregister(c, "short", 1, 0), Missing(c, "short"), On(c, SameKeys) >>
           script == FlattenSeq(refused)
                       \o _assert_exact_reclaim(c, "long") \o _assert_exact_reclaim(c, "short")
                       \o _expect_storage_bounds(c, PerByte, "") \o _expect_storage_balance(c, "short", 0) \o p1
<1>1. c \in opened /\ c \in Homes \ OverflowHomes
  BY HomesNamed DEF OverflowHomes
<1>2. /\ {"short", "long"} \subseteq Names
      /\ \A i \in 1..4 : callers[i] \in Names /\ deposits[i] \in Nat
  BY DEF Names
<1>3. \A returns : \A caller \in Names, deposit \in Nat :
        /\ Fitting(_unregister(c, caller, deposit, returns), opened)
        /\ Fitting(Refused(_unregister(c, caller, deposit, returns)), opened)
  BY <1>1, CallsFit
<1>4. Unregistering = script
  BY DEF Unregistering
<1> HIDE DEF c, callers, deposits
<1>5. AllFitting(FlattenSeq(refused), opened)
  <2>1. Len(refused) = 4 /\ \A i \in 1..4 : AllFitting(refused[i], opened)
    BY <1>2, <1>3, FailsStays
  <2> HIDE DEF refused
  <2>2. Len(refused) = 4 /\ \A i \in 1..4 : AllFitting(refused[i], opened)
    BY <2>1
  <2> QED
    BY <2>2, FlattenFour
<1>6. \A a \in Names : AllFitting(_assert_exact_reclaim(c, a), opened)
  <2>1. \A a \in Names : AllFitting(<< Zero(c, a), _unregister(c, a, 1, 1) >>, opened)
    BY <1>3, KeysFit, StaysTwo
  <2> QED
    BY <2>1, ReclaimedStays, StaysJoins DEF _assert_exact_reclaim
<1>7. AllFitting(p1, opened)
  BY <1>2, <1>3, LooksFit, KeysFit, StaysFour
<1> HIDE DEF refused, p1
<1>8. /\ AllFitting(_assert_exact_reclaim(c, "long"), opened)
      /\ AllFitting(_assert_exact_reclaim(c, "short"), opened)
  BY <1>2, <1>6
<1>9. /\ AllFitting(_expect_storage_bounds(c, PerByte, ""), opened)
      /\ AllFitting(_expect_storage_balance(c, "short", 0), opened)
  BY BalanceStays, BoundsStay
<1>10. AllFitting(script, opened)
  BY <1>5, <1>7, <1>8, <1>9, StaysJoins
<1> QED
  BY <1>4, <1>10

LEMMA ForcingStays ==
  ASSUME NEW opened, "contract" \in opened
  PROVE  AllFitting(Forcing, opened)
<1> DEFINE c == "contract"
           registered == << _register(c, "forced", generous, Delta("forced")) >>
           mixed == << Prepares(c, "forced", "fixtureSeedCallerMixedSupply") >>
           largest == << Prepares(c, "forced", "fixtureSeedCallerMaxSupply") >>
           one == << Prepares(c, "forced", "seedCallerOne") >>
           malformed == << Prepares(c, "malformed", "seedCallerMalformed8") >>
           nonzero == << Prepares(c, "nonzero", "seedCallerOne") >>
           f1 == FailsUnchanged(_force_unregister(c, "forced", 1, 0, Anything))
           f2 == FailsUnchanged(_force_unregister(c, "forced", 1, 2, Anything))
           f3 == FailsUnchanged(_force_unregister(c, "forced", 2, 1, Anything))
           f4 == FailsUnchanged(_force_unregister(c, "forced", 0, 1, Anything))
           f5 == FailsUnchanged(_force_unregister(c, "forced", 1, 1, Anything))
           f6 == FailsUnchanged(_force_unregister(c, "malformed", 1, 1, Anything))
           f7 == FailsUnchanged(_unregister(c, "nonzero", 1, Anything))
           reclaim == _assert_force_reclaim(c, "forced")
           p1 == << On(c, Remembers), _force_unregister(c, "forced", 1, 1, 0), On(c, SameKeys) >>
           first == f1 \o f2 \o f3 \o registered \o mixed \o f4
           second == first \o reclaim \o Supplies(c, 0) \o registered \o largest \o reclaim \o Supplies(c, 0)
           third == second \o registered \o reclaim \o Supplies(c, 0) \o p1 \o one \o f5
           script == third \o malformed \o _expect_storage_balance_failure(c, "malformed") \o f6 \o nonzero \o f7
<1>1. c \in opened /\ c \in Homes \ OverflowHomes /\ c \in Homes
  BY HomesNamed DEF OverflowHomes
<1>2. /\ {"forced", "malformed", "nonzero"} \subseteq Names
      /\ {"fixtureSeedCallerMixedSupply", "fixtureSeedCallerMaxSupply", "seedCallerOne",
          "seedCallerMalformed8"} \subseteq SeedingMethods
  BY DEF Names, SeedingMethods
<1>3. \A amount, returns : \A caller \in Names, deposit \in Nat :
        /\ Fitting(_register(c, caller, deposit, returns), opened)
        /\ Fitting(Refused(_unregister(c, caller, deposit, returns)), opened)
        /\ Fitting(_force_unregister(c, caller, amount, deposit, returns), opened)
        /\ Fitting(Refused(_force_unregister(c, caller, amount, deposit, returns)), opened)
  BY <1>1, CallsFit
<1>4. \A caller : \A method \in SeedingMethods : Fitting(Prepares(c, caller, method), opened)
  BY <1>1, SeedFits
<1>5. Forcing = script
  BY DEF Forcing
<1> HIDE DEF c
<1>6. AllFitting(registered, opened)
  BY <1>2, <1>3, DepositsTyped, StaysOne
<1>7. /\ AllFitting(mixed, opened) /\ AllFitting(largest, opened) /\ AllFitting(one, opened)
      /\ AllFitting(malformed, opened) /\ AllFitting(nonzero, opened)
  BY <1>2, <1>4, StaysOne
<1>8. AllFitting(f1, opened) /\ AllFitting(f2, opened) /\ AllFitting(f3, opened) /\ AllFitting(f4, opened)
  BY <1>2, <1>3, FailsStays
<1>9. AllFitting(f5, opened) /\ AllFitting(f6, opened) /\ AllFitting(f7, opened)
  BY <1>2, <1>3, FailsStays
<1>10. AllFitting(reclaim, opened)
  <2>1. AllFitting(<< _force_unregister(c, "forced", 1, 1, 1) >>, opened)
    BY <1>2, <1>3, StaysOne
  <2> QED
    BY <2>1, ReclaimedStays, StaysJoins DEF _assert_force_reclaim
<1>11. AllFitting(p1, opened)
  BY <1>2, <1>3, LooksFit, StaysThree
<1> HIDE DEF registered, mixed, largest, one, malformed, nonzero, f1, f2, f3, f4, f5, f6, f7, reclaim, p1
<1>12. AllFitting(first, opened)
  BY <1>6, <1>7, <1>8, StaysJoins
<1> HIDE DEF first
<1>13. AllFitting(second, opened)
  BY <1>6, <1>7, <1>10, <1>12, CostsStay, StaysJoins
<1> HIDE DEF second
<1>14. AllFitting(third, opened)
  BY <1>6, <1>7, <1>9, <1>10, <1>11, <1>13, CostsStay, StaysJoins
<1> HIDE DEF third
<1>15. AllFitting(script, opened)
  BY <1>7, <1>9, <1>14, FailingLooksStay, StaysJoins
<1> QED
  BY <1>5, <1>15

LEMMA OverflowingLeads ==
  ASSUME NEW opened
  PROVE  Leads(Overflowing, opened,
               (((opened \cup {"overflow"}) \cup {"add_overflow"}) \cup {"raised"}) \cup {"zero_cost"})
<1> DEFINE c == "overflow"
           add == "add_overflow"
           zero == "zero_cost"
           inside == opened \cup {c}
           added == inside \cup {add}
           raised == added \cup {"raised"}
           after == raised \cup {zero}
           p1 == << Prepares(c, c, "fixtureSetCostMax"), Prepares(c, "short", "seedCallerZero") >>
           f1 == FailsUnchanged(_storage_deposit(c, "short", "malformed", 0, Anything))
           p2 == << Missing(c, "malformed") >>
           f2 == FailsUnchanged(_force_unregister(c, "short", 1, 1, Anything))
           p3 == << Zero(c, "short") >>
           raises == << Prepares(add, add, "fixtureSetCostAddOverflow"), Prepares(add, add, "seedCallerZero") >>
           f3 == FailsUnchanged(_force_unregister(add, add, 1, 1, Anything))
           f4 == FailsUnchanged(_storage_unregister(add, add, 1, 1, Anything))
           f5 == FailsUnchanged(_storage_deposit(zero, "short", "malformed", 0, Anything))
           f6 == FailsUnchanged(_register(zero, "short", 0, Anything))
           first == Installed(c, Limb - 1) \o p1
                      \o _expect_storage_bounds_failure(c, "") \o _expect_storage_balance_failure(c, "short")
                      \o f1 \o p2 \o f2 \o p3
           second == first \o Installed(add, 1) \o raises \o f3 \o f4
           script == second \o Installed(zero, 0) \o _expect_storage_bounds_failure(zero, "") \o f5 \o f6
<1>1. /\ c \in Homes /\ c \in Homes \ OverflowHomes /\ c \in inside /\ c # "add_overflow"
      /\ add \in Homes /\ add \in OverflowHomes
      /\ zero \in Homes /\ zero \in Homes \ OverflowHomes /\ zero \in after
  BY HomesNamed DEF OverflowHomes
<1>2. /\ {"short", "malformed"} \subseteq Names
      /\ "seedCallerZero" \in SeedingMethods
  BY DEF Names, SeedingMethods
<1>3. Leads(Installed(c, Limb - 1), opened, inside)
  <2>1. Limb - 1 \in Nat /\ Limb - 1 >= Limb \div 2
    BY LimbAssumption
  <2> QED
    BY <1>1, <2>1, InstalledLeads
<1>4. Leads(Installed(add, 1), inside, added) /\ Leads(Installed(zero, 0), raised, after)
  BY <1>1, InstalledLeads
<1>5. Leads(raises, added, raised)
  BY RaisesLeads
<1>6. \A amount, returns : \A caller \in Names, a \in Names, deposit \in Nat :
        /\ Fitting(Refused(_storage_deposit(c, caller, a, deposit, returns)), inside)
        /\ Fitting(Refused(_force_unregister(c, caller, amount, deposit, returns)), inside)
        /\ Fitting(Refused(_storage_deposit(zero, caller, a, deposit, returns)), after)
        /\ Fitting(Refused(_register(zero, caller, deposit, returns)), after)
  BY <1>1, CallsFit
<1>7. AllFitting(f3, raised) /\ AllFitting(f4, raised)
  BY AddOverflowFits, FailsStays
<1>8. AllFitting(p1, inside)
  BY <1>1, <1>2, RepriceFits, SeedFits, StaysTwo
<1>9. Overflowing = script
  BY DEF Overflowing
<1> HIDE DEF c, add, zero, inside, added, raised, after
<1>10. AllFitting(f1, inside) /\ AllFitting(f2, inside)
  BY <1>2, <1>6, FailsStays
<1>11. AllFitting(f5, after) /\ AllFitting(f6, after)
  BY <1>2, <1>6, FailsStays
<1>12. AllFitting(p2, inside) /\ AllFitting(p3, inside)
  BY KeysFit, StaysOne
<1> HIDE DEF p1, p2, p3, raises, f1, f2, f3, f4, f5, f6
<1>13. Leads(first, opened, inside)
  BY <1>3, <1>8, <1>10, <1>12, FailingLooksStay, LeadsOn
<1> HIDE DEF first
<1>14. Leads(second, opened, raised)
  BY <1>4, <1>5, <1>7, <1>13, LeadsOn, LeadsJoins
<1> HIDE DEF second
<1>15. Leads(script, opened, after)
  BY <1>4, <1>11, <1>14, FailingLooksStay, LeadsOn, LeadsJoins
<1> QED
  BY <1>9, <1>15 DEF after, raised, added, inside, c, add, zero

\* The calls of the registration gate fit, in the order it makes them.
LEMMA RegistrationLeads == Leads(StorageRegistrationScript, {}, {"contract"})
<1> DEFINE creates == [i \in 1..Len(Subaccounts) |->
                         On(Subaccounts[i], Sends("create", Request(Subaccounts[i], 0, 0), Anything))]
           after1 == {} \cup {"contract"}
           after2 == after1 \cup {"deposit_contract"}
           after3 == after2 \cup {"unregister_contract"}
           after4 == (after3 \cup {"withdraw_contract"}) \cup {"withdraw_overflow"}
           after5 == (((after4 \cup {"overflow"}) \cup {"add_overflow"}) \cup {"raised"}) \cup {"zero_cost"}
           opening == creates \o Installed("contract", PerByte)
           scenes == opening \o _run_storage_deposit_scenes
                       \o _run_public_storage_unregister_scenes \o _run_storage_withdraw_scenes
           script == scenes \o Registering \o Unregistering \o Forcing \o Overflowing
<1>1. AllFitting(creates, {})
  <2>1. Len(Subaccounts) = 14
    BY DEF Subaccounts, Contracts
  <2>2. \A a : Fitting(On(a, Sends("create", Request(a, 0, 0), Anything)), {})
    BY DEF Fitting, On, Sends, Step
  <2>3. Len(creates) = 14
    BY <2>1
  <2>4. \A i \in 1..14 : Fitting(creates[i], {})
    BY <2>1, <2>2
  <2> HIDE DEF creates
  <2> QED
    BY <2>3, <2>4 DEF AllFitting
<1>2. StorageRegistrationScript = script
  BY DEF StorageRegistrationScript
<1> HIDE DEF creates
<1>3. Leads(creates, {}, {})
  BY <1>1, StaysLeads
<1>4. Leads(Installed("contract", PerByte), {}, after1)
  <2>1. "contract" \in Homes
    BY HomesNamed
  <2> QED
    BY <2>1, PerByteAssumption, InstalledLeads
<1>5. Leads(opening, {}, after1)
  BY <1>3, <1>4, LeadsJoins
<1>6. "contract" \in after4
  OBVIOUS
<1>7. Leads(_run_storage_deposit_scenes, after1, after2)
  BY DepositScenesLead
<1>8. Leads(_run_public_storage_unregister_scenes, after2, after3)
  BY UnregisterScenesLead
<1>9. Leads(_run_storage_withdraw_scenes, after3, after4)
  BY WithdrawScenesLead
<1>10. Leads(Overflowing, after4, after5)
  BY OverflowingLeads
<1>11. "contract" \in after5
  OBVIOUS
<1> HIDE DEF opening, after1, after2, after3, after4, after5
<1>12. Leads(scenes, {}, after4)
  BY <1>5, <1>7, <1>8, <1>9, LeadsJoins
<1>13. AllFitting(Registering, after4) /\ AllFitting(Unregistering, after4) /\ AllFitting(Forcing, after4)
  BY <1>6, RegisteringStays, UnregisteringStays, ForcingStays
<1> HIDE DEF scenes
<1>14. Leads(script, {}, after5)
  BY <1>10, <1>12, <1>13, LeadsOn, LeadsJoins
<1> HIDE DEF script
<1>15. Leads(script, {}, {"contract"})
  BY <1>11, <1>14 DEF Leads
<1> QED
  BY <1>2, <1>15

-----------------------------------------------------------------------------
(***************************************************************************)
(* The registries of the gate have the prices its script gave them.        *)
(***************************************************************************)
\* Where it is not PerByte, no entry costs an amount.
GoodPrice(home, s) ==
  /\ Priced(s)
  /\ home \notin OverflowHomes =>
       Registry!price(s) \in {0, PerByte} \/ Registry!price(s) * 75 > Registry!U128Max

\* What the transactions that ran made sure of.
HaveRun == UNION {Opens(At(executed[n])) : n \in 1..Len(executed)}

RegistryInv ==
  gate = "registration" =>
    /\ DOMAIN registries = Homes
    /\ \A home \in Homes : registries[home] = Registry!Empty \/ GoodPrice(home, registries[home])
    /\ \A home \in Homes \cap HaveRun : Priced(registries[home])
    /\ "raised" \in HaveRun =>
         Priced(registries["add_overflow"]) /\ Registry!price(registries["add_overflow"]) = Registry!AddOverflow

\* The calls before the place of the gate ran, and only that of its place may be outstanding.
LEMMA CallsRan ==
  ASSUME ClientInv, gate = "registration"
  PROVE  /\ Before(Script[gate], pc) \subseteq HaveRun
         /\ \A tx \in pool : tx.step = pc /\ Fitting(At(tx.step), HaveRun)
         /\ verdict = "passed" => pool = {} /\ "contract" \in HaveRun
<1> DEFINE script == Script[gate]
<1>1. Leads(script, {}, {"contract"})
  <2>1. script = StorageRegistrationScript
    BY DEF Script
  <2> HIDE DEF script
  <2> QED
    BY <2>1, RegistrationLeads
<1>2. /\ Steps = Len(script) /\ Len(script) \in Nat /\ pc \in 1..(Len(script) + 1)
      /\ \A i : At(i) = script[i]
  BY <1>1 DEF Leads, Steps, At, ClientInv, PlaceOK
<1>3. \A i \in 1..Len(script) : At(i).does = "call" => At(i).caught = 0
  BY <1>1, <1>2 DEF Leads, Fitting
<1>4. ASSUME NEW t \in Before(script, pc)
      PROVE  t \in HaveRun
  <2>1. PICK j \in 1..(pc - 1) : t \in Opens(script[j])
    BY <1>4 DEF Before
  <2>2. j \in 1..Len(script) /\ j < pc /\ At(j) = script[j]
    BY <1>2, <2>1
  <2>3. At(j).does = "call"
    BY <2>1, <2>2 DEF Opens
  <2>4. j \in CallsOf(gate)
    BY <1>2, <1>3, <2>2, <2>3 DEF CallsOf
  <2>5. PICK n \in 1..Len(executed) : executed[n] = j
    BY <2>2, <2>4 DEF ClientInv, InTurn
  <2> QED
    BY <2>1, <2>2, <2>5 DEF HaveRun
<1>5. ASSUME NEW tx \in pool
      PROVE  tx.step = pc /\ Fitting(At(tx.step), HaveRun)
  <2>1. tx.step \in 1..Len(script) /\ At(tx.step).does = "call"
    BY <1>2 DEF ClientInv, TransactionsOK
  <2>2. tx.step = pc
    BY <1>3, <2>1 DEF ClientInv, InTurn
  <2>3. Fitting(script[pc], {} \cup Before(script, pc))
    BY <1>1, <2>1, <2>2 DEF Leads
  <2>4. {} \cup Before(script, pc) \subseteq HaveRun
    BY <1>4
  <2> QED
    BY <1>2, <2>2, <2>3, <2>4, FitsMore
<1>6. ASSUME verdict = "passed"
      PROVE  pool = {} /\ "contract" \in HaveRun
  <2>1. pc = Len(script) + 1
    BY <1>2, <1>6 DEF ClientInv, PlaceOK
  <2>2. \A tx \in pool : tx.step \in 1..Len(script) /\ tx.step = pc
    BY <1>2, <1>5 DEF ClientInv, TransactionsOK
  <2>3. "contract" \in Before(script, pc)
    BY <1>1, <2>1 DEF Leads
  <2> QED
    BY <1>2, <1>4, <2>1, <2>2, <2>3
<1> QED
  BY <1>4, <1>5, <1>6

-----------------------------------------------------------------------------
LEMMA InitKeeps ==
  ASSUME NEW home, NEW s, s = Registry!Empty \/ Priced(s), GoodPrice(home, s) \/ ~Priced(s), NEW amount \in Nat,
         home \in OverflowHomes \/ amount \in {0, PerByte} \/ amount >= Limb \div 2
  PROVE  /\ GoodPrice(home, Registry!init(s, amount).storage)
         /\ Priced(s) => Registry!init(s, amount).storage = s
<1> DEFINE result == Registry!init(s, amount)
<1>1. CASE Priced(s)
  <2> DEFINE names == {Registry!Field(f) : f \in {"perByteCost", "lastDelta", "lastCost", "totalSupply", "lastCode"}}
             Initial == [key \in names |->
                           IF key # Registry!Field("perByteCost") THEN 0
                           ELSE amount + IF amount >= Limb \div 2 THEN (Limb - 1) * Limb ELSE 0]
  <2>1. Registry!Field("perByteCost") \in DOMAIN Initial
    OBVIOUS
  <2>2. result = Registry!initialize(s, Initial)
    BY DEF Registry!init
  <2> HIDE DEF Initial, result
  <2>3. Registry!Field("perByteCost") \in DOMAIN s
    BY <1>1 DEF Priced
  <2>4. result.storage = s
    BY <2>1, <2>2, <2>3 DEF Registry!initialize, Registry!When, Registry!Trap
  <2> QED
    BY <1>1, <2>4 DEF result
<1>2. CASE ~Priced(s)
  <2> DEFINE p == Registry!price(result.storage)
  <2>1. /\ Priced(result.storage)
        /\ p = amount + IF amount >= Limb \div 2 THEN (Limb - 1) * Limb ELSE 0
    BY <1>2, InitializedPriced
  <2> HIDE DEF result
  <2>2. ASSUME home \notin OverflowHomes
        PROVE  p \in {0, PerByte} \/ p * 75 > Registry!U128Max
    <3>1. CASE amount >= Limb \div 2
      <4>1. Limb * Limb \in Nat /\ Limb * Limb >= 2 * Limb /\ (Limb - 1) * Limb = Limb * Limb - Limb
        BY LimbAssumption
      <4>2. p = amount + (Limb * Limb - Limb)
        BY <2>1, <3>1, <4>1
      <4> DEFINE square == Limb * Limb
      <4>3. square \in Nat /\ square >= 2 * Limb /\ p = amount + (square - Limb)
        BY <4>1, <4>2
      <4> HIDE DEF square, p
      <4>4. p * 75 > square - 1
        BY <4>3, LimbAssumption
      <4> QED
        BY <4>4 DEF Registry!U128Max, square
    <3>2. CASE ~(amount >= Limb \div 2)
      BY <2>1, <2>2, <3>2
    <3> QED
      BY <3>1, <3>2
  <2> QED
    BY <1>2, <2>1, <2>2 DEF GoodPrice, result
<1> QED
  BY <1>1, <1>2

\* The fixtures that write or remove an entry.
LEMMA SeedKeeps ==
  ASSUME NEW s, Priced(s), NEW caller, NEW method \in SeedingMethods, NEW args
  PROVE  SamePrice(s, Registry!Run(s, caller, method, args).storage)
<1> DEFINE result == Registry!Run(s, caller, method, args)
<1>1. CASE ~args.readable
  BY <1>1 DEF Registry!Run, Registry!Error, SamePrice
<1>2. ASSUME NEW q, Priced(q), NEW token
      PROVE  SamePrice(q, Registry!Seeded(q, caller, token).storage)
  <2> DEFINE w == Registry!write(q, Registry!entry(caller), token)
             mark == Registry!status(q, Registry!entry(caller))
  <2>1. SamePrice(q, w)
    <3>1. /\ DOMAIN w = DOMAIN q \cup {Registry!entry(caller)}
          /\ \A k \in DOMAIN q : k # Registry!entry(caller) => w[k] = q[k]
      BY DEF Registry!write
    <3> HIDE DEF w
    <3> QED
      BY <1>2, <3>1, RegistryKeysDiffer DEF SamePrice, Priced, Registry!price
  <2>2. Registry!Seeded(q, caller, token).storage = Registry!Coded(w, mark)
    BY DEF Registry!Seeded, Registry!Done
  <2> HIDE DEF w, mark
  <2>3. SameEntries(w, Registry!Coded(w, mark))
    BY <2>1, CodedSame DEF SamePrice
  <2> QED
    BY <2>1, <2>2, <2>3 DEF SameEntries, SamePrice
<1>3. ASSUME NEW amount
      PROVE  SamePrice(s, Registry!SeededSupply(s, caller, amount).storage)
  <2> DEFINE q == Registry!write(s, Registry!Field("totalSupply"), amount)
  <2>1. SameEntries(s, q)
    BY FieldWrites DEF OtherFields
  <2>2. Registry!SeededSupply(s, caller, amount) = Registry!Seeded(q, caller, Registry!Token(amount))
    BY DEF Registry!SeededSupply
  <2> HIDE DEF q
  <2>3. Priced(q)
    BY <2>1 DEF SameEntries, SamePrice
  <2>4. SamePrice(q, Registry!Seeded(q, caller, Registry!Token(amount)).storage)
    BY <1>2, <2>3
  <2> QED
    BY <2>1, <2>2, <2>4 DEF SameEntries, SamePrice
<1>4. SamePrice(s, Registry!fixtureRemoveCaller(s, caller).storage)
  <2> DEFINE w == Registry!remove(s, Registry!entry(caller))
             mark == Registry!status(s, Registry!entry(caller))
  <2>1. SamePrice(s, w)
    <3>1. /\ DOMAIN w = (DOMAIN s) \ {Registry!entry(caller)}
          /\ \A k \in DOMAIN s : k # Registry!entry(caller) => w[k] = s[k]
      BY RegistryRemoves
    <3> HIDE DEF w
    <3> QED
      BY <3>1, RegistryKeysDiffer DEF SamePrice, Priced, Registry!price
  <2>2. Registry!fixtureRemoveCaller(s, caller).storage = Registry!Measured(w, 0, 0, mark)
    BY DEF Registry!fixtureRemoveCaller, Registry!Done
  <2> HIDE DEF w, mark
  <2>3. SameEntries(w, Registry!Measured(w, 0, 0, mark))
    BY <2>1, MeasuredSame DEF SamePrice
  <2> QED
    BY <2>1, <2>2, <2>3 DEF SameEntries, SamePrice
<1>5. CASE args.readable
  <2>1. \/ \E token : result = Registry!Seeded(s, caller, token)
        \/ \E amount : result = Registry!SeededSupply(s, caller, amount)
        \/ result = Registry!fixtureRemoveCaller(s, caller)
    BY <1>5 DEF Registry!Run, SeedingMethods
  <2> HIDE DEF result
  <2> QED
    BY <1>2, <1>3, <1>4, <2>1 DEF result
<1> QED
  BY <1>1, <1>5

LEMMA RepricedTo ==
  ASSUME NEW s, NEW perByte \in Nat
  PROVE  /\ Priced(Registry!Repriced(s, perByte).storage)
         /\ Registry!price(Registry!Repriced(s, perByte).storage) = perByte
<1> DEFINE w == Registry!write(s, Registry!Field("perByteCost"), perByte)
<1>1. Priced(w) /\ Registry!price(w) = perByte
  <2>1. Registry!Field("perByteCost") \in DOMAIN w /\ w[Registry!Field("perByteCost")] = perByte
    BY DEF Registry!write
  <2> HIDE DEF w
  <2> QED
    BY <2>1 DEF Priced, Registry!price
<1>2. Registry!Repriced(s, perByte).storage = Registry!Measured(w, 0, 0, 1)
  BY DEF Registry!Repriced, Registry!Done
<1> HIDE DEF w
<1>3. SameEntries(w, Registry!Measured(w, 0, 0, 1))
  BY <1>1, MeasuredSame
<1> QED
  BY <1>1, <1>2, <1>3 DEF SameEntries, SamePrice

LEMMA Largest == Registry!U128Max \in Nat /\ Registry!U128Max >= 3 /\ Registry!AddOverflow \in Nat
<1>1. Limb * Limb \in Nat /\ Limb * Limb >= 4
  BY LimbAssumption
<1>2. Registry!U128Max \in Nat /\ Registry!U128Max >= 3
  BY <1>1 DEF Registry!U128Max
<1> QED
  BY <1>2 DEF Registry!AddOverflow


-----------------------------------------------------------------------------
\* What a call makes of the storage of its registry.
Result(step, s) ==
  IF step.method = "initialize" THEN Registry!init(s, step.arg.amount)
  ELSE Registry!Run(s, step.signer, step.method, step.arg)

LEMMA NamesKnown == Names = DOMAIN AccountLength
BY DEF Names, AccountLength

\* A call that fits leaves its registry a price, and the price the fixture set.
LEMMA ResultKept ==
  ASSUME NEW step, step.does = "call", NEW opened, Fitting(step, opened),
         step.method \notin {"create", "deploy"},
         NEW s, s = Registry!Empty \/ GoodPrice(step.account, s), step.account \in opened => Priced(s)
  PROVE  /\ step.account \in Homes /\ GoodPrice(step.account, Result(step, s).storage)
         /\ \/ Priced(s) /\ SamePrice(s, Result(step, s).storage) /\ "raised" \notin Opens(step)
            \/ ~Priced(s) /\ "raised" \notin Opens(step)
            \/ step.account # "add_overflow" /\ "raised" \notin Opens(step)
            \/ step.account = "add_overflow" /\ Registry!price(Result(step, s).storage) = Registry!AddOverflow
<1> DEFINE home == step.account
           result == Result(step, s)
<1>1. home \in Homes /\ (home \in opened => GoodPrice(home, s) /\ Priced(s))
  BY DEF Fitting, GoodPrice, Registry!Empty, Priced
<1>2. CASE Initializes(step)
  <2>1. /\ step.method = "initialize" /\ step.arg.amount \in Nat
        /\ home \in OverflowHomes \/ step.arg.amount \in {0, PerByte} \/ step.arg.amount >= Limb \div 2
    BY <1>2 DEF Initializes
  <2>2. s = Registry!Empty \/ Priced(s)
    BY DEF GoodPrice
  <2>3. GoodPrice(home, s) \/ ~Priced(s)
    BY DEF Registry!Empty, Priced
  <2>4. result = Registry!init(s, step.arg.amount)
    BY <2>1 DEF Result
  <2>5. "raised" \notin Opens(step)
    <3>1. "raised" \notin Homes
      BY DEF Homes, Contracts
    <3> QED
      BY <1>1, <2>1, <3>1 DEF Opens
  <2> HIDE DEF result, home
  <2>6. GoodPrice(home, result.storage) /\ (Priced(s) => result.storage = s)
    BY <2>1, <2>2, <2>3, <2>4, InitKeeps
  <2>7. Priced(s) => SamePrice(s, result.storage)
    BY <2>6 DEF SamePrice
  <2> QED
    BY <1>1, <2>5, <2>6, <2>7 DEF home, result
<1>3. ASSUME home \in opened, step.method # "initialize", step.method # "fixtureSetCostAddOverflow",
             SamePrice(s, result.storage)
      PROVE  GoodPrice(home, result.storage) /\ "raised" \notin Opens(step) /\ Priced(s)
  BY <1>1, <1>3 DEF GoodPrice, SamePrice, Opens
<1>4. CASE home \in opened /\ Serves(step, opened)
  <2>1. step.method \in VisitedMethods /\ step.method # "initialize" /\ step.method # "fixtureSetCostAddOverflow"
    BY <1>4 DEF Serves, VisitedMethods
  <2>2. result = Registry!Run(s, step.signer, step.method, step.arg)
    BY <2>1 DEF Result
  <2>3. KeepsItsCosts(s, step.signer, step.arg.deposit, result)
    BY <1>1, <1>4, <2>1, <2>2, NamesKnown, RegistryCallSettles DEF Serves
  <2>4. SamePrice(s, result.storage)
    BY <1>1, <1>4, <2>3 DEF KeepsItsCosts, RefusesAll, SamePrice
  <2> QED
    BY <1>1, <1>3, <1>4, <2>1, <2>4
<1>5. CASE home \in opened /\ step.method \in SeedingMethods
  <2>1. step.method # "initialize" /\ step.method # "fixtureSetCostAddOverflow"
    BY <1>5 DEF SeedingMethods
  <2>2. SamePrice(s, result.storage)
    BY <1>1, <1>5, <2>1, SeedKeeps DEF Result
  <2> QED
    BY <1>1, <1>3, <1>5, <2>1, <2>2
<1>6. CASE home \in opened /\ step.method = "fixtureSetCostMax" /\ home # "add_overflow"
  <2>1. result = IF ~step.arg.readable THEN Registry!Error(s) ELSE Registry!Repriced(s, Registry!U128Max)
    BY <1>6 DEF Result, Registry!Run
  <2>2. "raised" \notin Opens(step)
    BY <1>6 DEF Opens
  <2> HIDE DEF result
  <2>3. CASE ~step.arg.readable
    BY <1>1, <1>6, <2>1, <2>2, <2>3 DEF Registry!Error, result
  <2>4. CASE step.arg.readable
    <3>1. Priced(result.storage) /\ Registry!price(result.storage) = Registry!U128Max
      BY <2>1, <2>4, Largest, RepricedTo
    <3>2. Registry!price(result.storage) * 75 > Registry!U128Max
      BY <3>1, Largest
    <3> QED
      BY <1>1, <1>6, <2>2, <3>1, <3>2 DEF GoodPrice, result
  <2> QED
    BY <2>3, <2>4
<1>7. CASE home \in opened /\ step.method = "fixtureSetCostAddOverflow" /\ home = "add_overflow" /\ step.arg.readable
  <2>1. result = Registry!Repriced(s, Registry!AddOverflow)
    BY <1>7 DEF Result, Registry!Run
  <2> HIDE DEF result
  <2>2. Priced(result.storage) /\ Registry!price(result.storage) = Registry!AddOverflow
    BY <2>1, Largest, RepricedTo
  <2>3. "add_overflow" \in OverflowHomes
    BY DEF OverflowHomes
  <2> QED
    BY <1>1, <1>7, <2>2, <2>3 DEF GoodPrice, result
<1> QED
  BY <1>2, <1>4, <1>5, <1>6, <1>7 DEF Fitting, Prices

-----------------------------------------------------------------------------
\* The registries change by the transactions of the gate, and by the calls of others when it is over.
LEMMA RegistryMoves ==
  ASSUME ClientInv, gate = "registration", [Next]_vars
  PROVE  \/ UNCHANGED vars
         \/ UNCHANGED <<gate, registries, effects, executed>> /\ verdict # "passed"
         \/ \E tx \in pool : RegistrationRuns(tx)
         \/ visit_registry
<1> DEFINE Rests == UNCHANGED <<gate, registries, effects, executed>>
<1>1. CASE Client
  <2>1. verdict = "running"
    BY <1>1, StepAt DEF Client, Finish
  <2>2. ASSUME NEW step \in CurrentStep, (Asks(step) \/ Loses(step)) /\ UNCHANGED contractVars
        PROVE  Rests
    <3>1. UNCHANGED <<gate, executed>>
      BY <2>2 DEF Asks, Loses, access_key, broadcast_tx_commit, answer, NotReached, rpc_call_raises, answer_not_read,
                  Raise, Fail, Advance, Proceed, nodeVars
    <3> QED
      BY <2>2, <3>1 DEF contractVars, registrationVars
  <2>3. ASSUME NEW step \in CurrentStep, Looks(step)
        PROVE  Rests
    <3>1. UNCHANGED registrationVars
      BY <2>3 DEF Looks, RegistrationLooks
    <3>2. UNCHANGED <<gate, executed>>
      BY <2>3, LooksMoves DEF ClientMoves
    <3> QED
      BY <3>1, <3>2 DEF registrationVars
  <2>4. ASSUME Finish, UNCHANGED contractVars
        PROVE  Rests
    BY <2>4 DEF Finish, contractVars, registrationVars, nodeVars
  <2> QED
    BY <1>1, <2>1, <2>2, <2>3, <2>4 DEF Client
<1>2. CASE Executes
  <2>1. PICK tx \in pool : CollectionRuns(tx) \/ LedgerRuns(tx) \/ RegistrationRuns(tx)
    BY <1>2 DEF Executes
  <2> DEFINE s == Script[gate][tx.step]
  <2>2. ~LedgerRuns(tx)
    BY DEF LedgerRuns
  <2>3. ~CollectionRuns(tx)
    <3>1. ~FlatCall(tx, s) /\ ~QueueCall(tx, s) /\ ~IterableCall(tx, s) /\ ~CounterCall(tx, s)
      BY DEF FlatCall, Flat, QueueCall, IterableCall, CounterCall
    <3> QED
      BY <3>1 DEF CollectionRuns
  <2> QED
    BY <2>1, <2>2, <2>3
<1>3. CASE Drops
  <2>1. pool # {}
    BY <1>3 DEF Drops
  <2>2. verdict # "passed"
    BY <2>1, CallsRan
  <2> QED
    BY <1>3, <2>2 DEF Drops, dropped, clientVars, contractVars, registrationVars
<1>4. ~Receipts
  BY DEF Receipts, receiver_answers, resolver_runs, yield_times_out
<1>5. CASE Visited
  BY <1>5, VisitorsAssumption DEF Visited, visit
<1> QED
  BY <1>1, <1>2, <1>3, <1>4, <1>5 DEF Next

\* A transaction of the gate.
LEMMA RegistryRuns ==
  ASSUME ClientInv, gate = "registration", NEW tx \in pool, RegistrationRuns(tx)
  PROVE  /\ verdict # "passed" /\ UNCHANGED <<gate, verdict>>
         /\ At(tx.step).does = "call" /\ Fitting(At(tx.step), HaveRun)
         /\ Len(executed') = Len(executed) + 1 /\ executed'[Len(executed')] = tx.step
         /\ HaveRun' = HaveRun \cup Opens(At(tx.step))
         /\ \/ At(tx.step).method \in {"create", "deploy"} /\ UNCHANGED registries
            \/ LET step == At(tx.step) IN
               /\ step.method \notin {"create", "deploy"}
               /\ registries' = [registries EXCEPT ![step.account] = Result(step, registries[step.account]).storage]
               /\ step.method # "initialize" =>
                    LET result == Result(step, registries[step.account]) IN
                    effects' = [deposit |-> IF result.verdict = "ok" THEN step.arg.deposit ELSE 0,
                                transfer |-> result.transfer, logs |-> result.logs]
<1> DEFINE step == At(tx.step)
<1>1. /\ UNCHANGED clientVars /\ pool' = pool \ {tx} /\ executed' = Append(executed, tx.step)
      /\ InstallsRegistry(tx, step) \/ InitializesRegistry(tx, step) \/ RegistryCall(tx, step)
  BY DEF RegistrationRuns, Included, At
<1>2. UNCHANGED <<gate, verdict>> /\ \A i : At(i)' = At(i)
  BY <1>1 DEF clientVars, At
<1>3. verdict # "passed" /\ Fitting(step, HaveRun)
  BY CallsRan
<1>4. step.does = "call"
  BY DEF ClientInv, TransactionsOK
<1>5. /\ Len(executed) \in Nat /\ Len(executed') = Len(executed) + 1
      /\ executed'[Len(executed) + 1] = tx.step
      /\ \A n \in 1..Len(executed) : executed'[n] = executed[n]
      /\ \A n \in 1..Len(executed') : n = Len(executed) + 1 \/ n \in 1..Len(executed)
  BY <1>1 DEF ClientInv, TransactionsOK
<1>6. HaveRun' = HaveRun \cup Opens(step)
  <2>1. HaveRun' = UNION {Opens(At(executed'[n])) : n \in 1..Len(executed')}
    BY <1>2 DEF HaveRun, At
  <2>2. HaveRun' \subseteq HaveRun \cup Opens(step)
    BY <1>5, <2>1 DEF HaveRun
  <2>3. ASSUME NEW t \in HaveRun
        PROVE  t \in HaveRun'
    <3>1. PICK n \in 1..Len(executed) : t \in Opens(At(executed[n]))
      BY <2>3 DEF HaveRun
    <3>2. n \in 1..Len(executed') /\ executed'[n] = executed[n]
      BY <1>5
    <3> QED
      BY <2>1, <3>1, <3>2
  <2>4. Opens(step) \subseteq HaveRun'
    <3>1. Len(executed) + 1 \in 1..Len(executed')
      BY <1>5
    <3> QED
      BY <1>5, <2>1, <3>1
  <2> QED
    BY <2>2, <2>3, <2>4
<1>7. CASE InstallsRegistry(tx, step)
  BY <1>2, <1>3, <1>4, <1>5, <1>6, <1>7 DEF InstallsRegistry
<1>8. CASE InitializesRegistry(tx, step)
  BY <1>2, <1>3, <1>4, <1>5, <1>6, <1>8 DEF InitializesRegistry, Result
<1>9. CASE RegistryCall(tx, step)
  BY <1>2, <1>3, <1>4, <1>5, <1>6, <1>9 DEF RegistryCall, Applied, Result
<1> QED
  BY <1>1, <1>7, <1>8, <1>9

LEMMA RegistryInvInitial == Init => RegistryInv
<1> SUFFICES ASSUME Init PROVE RegistryInv
  OBVIOUS
<1>1. registries = [a \in Homes |-> Empty] /\ executed = <<>>
  BY DEF Init, RegistrationInit, Start
<1>2. HaveRun = {}
  BY <1>1 DEF HaveRun
<1> QED
  BY <1>1, <1>2 DEF RegistryInv, Empty, Registry!Empty

LEMMA RunsKeepPrices ==
  ASSUME ClientInv, RegistryInv, gate = "registration", NEW tx \in pool, RegistrationRuns(tx)
  PROVE  RegistryInv'
<1> DEFINE step == At(tx.step)
           home == step.account
           s == registries[home]
           r == Result(step, s).storage
<1>1. /\ UNCHANGED gate /\ step.does = "call" /\ Fitting(step, HaveRun)
      /\ HaveRun' = HaveRun \cup Opens(step)
  BY RegistryRuns
<1>2. CASE step.method \in {"create", "deploy"} /\ UNCHANGED registries
  <2>1. HaveRun' = HaveRun
    BY <1>1, <1>2 DEF Opens
  <2> QED
    BY <1>1, <1>2, <2>1 DEF RegistryInv, GoodPrice
<1>3. CASE step.method \notin {"create", "deploy"} /\ registries' = [registries EXCEPT ![home] = r]
  <2>1. home \in Homes /\ "add_overflow" \in Homes
    BY <1>1, <1>3, HomesNamed DEF Fitting
  <2>2. (s = Registry!Empty \/ GoodPrice(home, s)) /\ (home \in HaveRun => Priced(s))
    BY <2>1 DEF RegistryInv
  <2>3. /\ GoodPrice(home, r)
        /\ \/ Priced(s) /\ SamePrice(s, r) /\ "raised" \notin Opens(step)
           \/ ~Priced(s) /\ "raised" \notin Opens(step)
           \/ home # "add_overflow" /\ "raised" \notin Opens(step)
           \/ home = "add_overflow" /\ Registry!price(r) = Registry!AddOverflow
    BY <1>1, <1>3, <2>2, ResultKept
  <2>4. Opens(step) \subseteq {home, "raised"}
    BY DEF Opens
  <2>5. /\ DOMAIN registries = Homes /\ DOMAIN registries' = Homes
        /\ registries'[home] = r
        /\ \A other \in Homes : other # home => registries'[other] = registries[other]
    BY <1>3, <2>1 DEF RegistryInv
  <2> HIDE DEF step, home, s, r
  <2>6. \A other \in Homes : registries'[other] = Registry!Empty \/ GoodPrice(other, registries'[other])
    BY <2>3, <2>5 DEF RegistryInv
  <2>7. "raised" \notin Homes
    BY DEF Homes, Contracts
  <2>8. \A other \in Homes \cap HaveRun' : Priced(registries'[other])
    BY <1>1, <2>3, <2>4, <2>5, <2>7 DEF RegistryInv, GoodPrice
  <2>9. ASSUME "raised" \in HaveRun'
        PROVE  /\ Priced(registries'["add_overflow"])
               /\ Registry!price(registries'["add_overflow"]) = Registry!AddOverflow
    <3>1. CASE home = "add_overflow"
      <4>1. Priced(r)
        BY <2>3 DEF GoodPrice
      <4>2. CASE Registry!price(r) = Registry!AddOverflow
        BY <2>5, <3>1, <4>1, <4>2
      <4>3. CASE "raised" \notin Opens(step)
        <5>1. Priced(s) /\ Registry!price(s) = Registry!AddOverflow
          BY <1>1, <2>9, <3>1, <4>3 DEF RegistryInv, s
        <5>2. Registry!price(r) = Registry!AddOverflow
          BY <2>3, <3>1, <5>1 DEF SamePrice
        <5> QED
          BY <2>5, <3>1, <4>1, <5>2
      <4> QED
        BY <2>3, <4>2, <4>3
    <3>2. CASE home # "add_overflow"
      BY <1>1, <2>1, <2>3, <2>5, <2>9, <3>2 DEF RegistryInv
    <3> QED
      BY <3>1, <3>2
  <2> QED
    BY <1>1, <2>5, <2>6, <2>8, <2>9 DEF RegistryInv, GoodPrice
<1> QED
  BY <1>2, <1>3, RegistryRuns


-----------------------------------------------------------------------------
\* A call is an error that changes nothing, or succeeds.
LEMMA RunsWhole ==
  ASSUME NEW s, NEW caller, NEW method \in VisitedMethods, NEW args
  PROVE  LET result == Registry!Run(s, caller, method, args) IN
         result = Registry!Error(s) \/ result.verdict = "ok"
<1> DEFINE AllOrNothing(result) == result = Registry!Error(s) \/ result.verdict = "ok"
           result == Registry!Run(s, caller, method, args)
<1> SUFFICES AllOrNothing(result)
  OBVIOUS
<1>1. \A r, value, transfer, lines : AllOrNothing(Registry!Done(r, value, transfer, lines))
  BY DEF Registry!Done
<1>2. AllOrNothing(Registry!Error(s))
  OBVIOUS
<1> HIDE DEF AllOrNothing
<1>3. \A guard, ending : AllOrNothing(ending) => AllOrNothing(Registry!Checked(guard, s, ending))
  BY <1>2 DEF Registry!Checked
<1>4. \A force, deposit, lines : AllOrNothing(Registry!Unregisters(s, caller, force, deposit, lines))
  BY <1>1, <1>2, <1>3 DEF Registry!Unregisters
<1>5. CASE ~args.readable
  BY <1>2, <1>5 DEF Registry!Run
<1>6. CASE args.readable /\ method = "storage_deposit"
  <2>1. result = Registry!storage_deposit(s, caller, args.account, args.deposit)
    BY <1>6 DEF Registry!Run
  <2> HIDE DEF result
  <2> QED
    BY <1>1, <1>3, <2>1 DEF Registry!storage_deposit, result
<1>7. CASE args.readable /\ method = "registerCaller"
  <2>1. result = Registry!registerCaller(s, caller, args.deposit)
    BY <1>7 DEF Registry!Run
  <2> HIDE DEF result
  <2> QED
    BY <1>1, <1>3, <2>1 DEF Registry!registerCaller, result
<1>8. CASE args.readable /\ method \in {"storage_unregister", "unregisterCaller", "forceUnregisterCaller"}
  <2>1. \/ \E force, lines : result = Registry!Unregisters(s, caller, force, args.deposit, lines)
        \/ result = Registry!Checked(args.amount <= 1, s,
                                     Registry!Unregisters(s, caller, args.amount = 1, args.deposit, <<>>))
    BY <1>8 DEF Registry!Run, Registry!storage_unregister, Registry!unregisterCaller, Registry!forceUnregisterCaller
  <2> HIDE DEF result
  <2> QED
    BY <1>3, <1>4, <2>1 DEF result
<1>9. CASE args.readable
           /\ method \in {"storage_withdraw", "probeCaller", "probeCallerBalanceW0", "probeCallerBalanceW1"}
  <2>1. \E guard, r, value : result = Registry!Checked(guard, s, Registry!Done(r, value, <<>>, <<>>))
    BY <1>9 DEF Registry!Run, Registry!storage_withdraw, Registry!Probed
  <2> HIDE DEF result
  <2> QED
    BY <1>1, <1>3, <2>1 DEF result
<1> QED
  BY <1>5, <1>6, <1>7, <1>8, <1>9 DEF VisitedMethods

LEMMA WithdrawalsKeep ==
  ASSUME NEW s, NEW caller, NEW args
  PROVE  Registry!Run(s, caller, "storage_withdraw", args).storage = s
<1> DEFINE result == Registry!Run(s, caller, "storage_withdraw", args)
<1>1. result = Registry!Error(s) \/ result = Registry!storage_withdraw(s, caller, args.amount, args.deposit)
  BY DEF Registry!Run
<1> HIDE DEF result
<1>2. result.storage = s
  BY <1>1 DEF Registry!storage_withdraw, Registry!Checked, Registry!Error, Registry!Done
<1> QED
  BY <1>2 DEF result

\* The step is a call of the registry that settles.
ServedWith(home, caller, deposit, result) ==
  LET s == registries[home] IN
  /\ GoodPrice(home, s)
  /\ KeepsItsCosts(s, caller, deposit, result) /\ (result = Registry!Error(s) \/ result.verdict = "ok")
  /\ home = "withdraw_overflow" => result.storage = s
  /\ home = "add_overflow" => caller = home /\ deposit = 1 /\ Registry!price(s) = Registry!AddOverflow
  /\ registries' = [registries EXCEPT ![home] = result.storage]
  /\ effects' = [deposit |-> IF result.verdict = "ok" THEN deposit ELSE 0,
                 transfer |-> result.transfer, logs |-> result.logs]

Served(home) == \E result : \E caller \in Names, deposit \in Nat : ServedWith(home, caller, deposit, result)

LEMMA VisitServes ==
  ASSUME ClientInv, RegistryInv, visit_registry
  PROVE  UNCHANGED <<gate, executed>> /\ Served("contract")
<1> DEFINE s == registries["contract"]
<1>1. /\ verdict = "passed" /\ gate = "registration" /\ UNCHANGED <<gate, executed>>
      /\ \E caller, account \in Customers, method \in VisitedMethods, flag \in 0..1,
            deposit \in {0, 1, Total("short"), generous} :
           Applied("contract", deposit, Registry!Run(s, caller, method, Request(account, flag, deposit)))
  BY DEF visit_registry, clientVars, nodeVars
<1>2. PICK caller \in Customers, account \in Customers, method \in VisitedMethods, flag \in 0..1,
           deposit \in {0, 1, Total("short"), generous} :
        Applied("contract", deposit, Registry!Run(s, caller, method, Request(account, flag, deposit)))
  BY <1>1
<1> DEFINE args == Request(account, flag, deposit)
           result == Registry!Run(s, caller, method, args)
<1>3. caller \in Names /\ account \in Names /\ "short" \in Names
  BY DEF Customers, Names
<1>4. deposit \in Nat /\ args.account = account /\ args.deposit = deposit
  BY <1>3, DepositsTyped, RequestFields
<1>5. "contract" \in HaveRun /\ "contract" \in Homes
  BY <1>1, CallsRan, HomesNamed
<1>6. Priced(s) /\ GoodPrice("contract", s)
  BY <1>1, <1>5 DEF RegistryInv, GoodPrice, Registry!Empty, Priced
<1> HIDE DEF args, s
<1>7. KeepsItsCosts(s, caller, args.deposit, result)
  BY <1>3, <1>4, <1>6, NamesKnown, RegistryCallSettles
<1>8. result = Registry!Error(s) \/ result.verdict = "ok"
  BY RunsWhole
<1>9. Applied("contract", deposit, result)
  BY <1>2 DEF args
<1> HIDE DEF result
<1>10. ServedWith("contract", caller, deposit, result)
  BY <1>4, <1>6, <1>7, <1>8, <1>9 DEF ServedWith, Applied, s
<1> QED
  BY <1>1, <1>3, <1>4, <1>10 DEF Served

LEMMA RunServes ==
  ASSUME ClientInv, RegistryInv, gate = "registration", NEW tx \in pool, RegistrationRuns(tx),
         At(tx.step).method \in VisitedMethods
  PROVE  At(tx.step).account \in Homes /\ Served(At(tx.step).account)
<1> DEFINE step == At(tx.step)
           home == step.account
           s == registries[home]
           result == Result(step, s)
<1>1. step.method \notin {"create", "deploy", "initialize"} /\ step.method \notin SeedingMethods
      /\ step.method # "fixtureSetCostMax" /\ step.method # "fixtureSetCostAddOverflow"
  BY DEF VisitedMethods, SeedingMethods
<1>2. /\ step.does = "call" /\ Fitting(step, HaveRun)
      /\ registries' = [registries EXCEPT ![home] = result.storage]
      /\ effects' = [deposit |-> IF result.verdict = "ok" THEN step.arg.deposit ELSE 0,
                     transfer |-> result.transfer, logs |-> result.logs]
  BY <1>1, RegistryRuns
<1>3. home \in Homes \cap HaveRun /\ Serves(step, HaveRun)
  BY <1>1, <1>2 DEF Fitting, Prices, Initializes
<1>4. Priced(s) /\ GoodPrice(home, s)
  BY <1>3 DEF RegistryInv, GoodPrice, Registry!Empty, Priced
<1>5. result = Registry!Run(s, step.signer, step.method, step.arg)
  BY <1>1 DEF Result
<1>6. /\ step.signer \in Names /\ step.arg.account \in Names /\ step.arg.deposit \in Nat
      /\ home = "add_overflow" => "raised" \in HaveRun /\ step.signer = home /\ step.arg.deposit = 1
      /\ home = "withdraw_overflow" => step.method = "storage_withdraw"
  BY <1>3 DEF Serves
<1>7. home = "add_overflow" => Registry!price(s) = Registry!AddOverflow
  BY <1>6 DEF RegistryInv
<1> HIDE DEF step, home, s, result
<1>8. step.method \in VisitedMethods
  BY DEF step
<1>9. KeepsItsCosts(s, step.signer, step.arg.deposit, result)
  BY <1>4, <1>5, <1>6, <1>8, NamesKnown, RegistryCallSettles
<1>10. result = Registry!Error(s) \/ result.verdict = "ok"
  BY <1>5, <1>8, RunsWhole
<1>11. home = "withdraw_overflow" => result.storage = s
  BY <1>5, <1>6, WithdrawalsKeep
<1>12. ServedWith(home, step.signer, step.arg.deposit, result)
  BY <1>2, <1>4, <1>6, <1>7, <1>9, <1>10, <1>11 DEF ServedWith, s
<1>13. Served(home)
  BY <1>6, <1>12 DEF Served
<1> QED
  BY <1>3, <1>13 DEF home, step

LEMMA ServedKeepsPrice ==
  ASSUME NEW home \in Homes, Served(home), DOMAIN registries = Homes
  PROVE  /\ GoodPrice(home, registries'[home])
         /\ \A other \in Homes : other # home => registries'[other] = registries[other]
         /\ DOMAIN registries' = Homes
<1>1. PICK result : \E caller \in Names, deposit \in Nat : ServedWith(home, caller, deposit, result)
  BY DEF Served
<1>2. SamePrice(registries[home], result.storage) /\ GoodPrice(home, registries[home])
  BY <1>1 DEF ServedWith, KeepsItsCosts, RefusesAll, SamePrice, GoodPrice
<1>3. registries' = [registries EXCEPT ![home] = result.storage]
  BY <1>1 DEF ServedWith
<1>4. GoodPrice(home, result.storage)
  BY <1>2 DEF SamePrice, GoodPrice
<1> QED
  BY <1>3, <1>4

\* The registries of the gate have their prices, whoever calls them.
THEOREM RegistriesPriced == Spec => []RegistryInv
<1>1. ClientInv /\ RegistryInv /\ [Next]_vars => RegistryInv'
  <2> SUFFICES ASSUME ClientInv, RegistryInv, [Next]_vars PROVE RegistryInv'
    OBVIOUS
  <2>1. UNCHANGED gate
    BY StepMoves DEF ClientMoves, NodeMoves, Finishes, ClientInv, TransactionsOK
  <2>2. CASE gate # "registration"
    BY <2>1, <2>2 DEF RegistryInv
  <2>3. CASE gate = "registration"
    <3>1. ASSUME UNCHANGED <<gate, registries, effects, executed>>
          PROVE  RegistryInv'
      <4>1. HaveRun' = HaveRun
        BY <3>1 DEF HaveRun, At
      <4> QED
        BY <3>1, <4>1 DEF RegistryInv, GoodPrice
    <3>2. ASSUME visit_registry
          PROVE  RegistryInv'
      <4>1. UNCHANGED executed /\ Served("contract")
        BY <3>2, VisitServes
      <4>2. HaveRun' = HaveRun
        BY <2>1, <4>1 DEF HaveRun, At
      <4>3. "contract" \in Homes /\ DOMAIN registries = Homes
        BY <2>3, HomesNamed DEF RegistryInv
      <4>4. /\ GoodPrice("contract", registries'["contract"])
            /\ \A other \in Homes : other # "contract" => registries'[other] = registries[other]
            /\ DOMAIN registries' = Homes
        BY <4>1, <4>3, ServedKeepsPrice
      <4>5. "add_overflow" \in Homes
        BY HomesNamed
      <4> QED
        BY <2>1, <2>3, <4>2, <4>4, <4>5 DEF RegistryInv, GoodPrice
    <3>3. UNCHANGED vars => UNCHANGED <<gate, registries, effects, executed>>
      BY DEF vars, clientVars, nodeVars, contractVars, registrationVars
    <3> QED
      BY <2>3, <3>1, <3>2, <3>3, RegistryMoves, RunsKeepPrices
  <2> QED
    BY <2>2, <2>3
<1> QED
  BY <1>1, RegistryInvInitial, ClientInvariant, PTL DEF Spec


-----------------------------------------------------------------------------
\* What a registry retains changes with its entries.
LEMMA LengthsKnown ==
  /\ Names = {"short", "long", "malformed", "nonzero", "forced", "add_overflow", "missing"}
  /\ \A a \in Names : Delta(a) \in Nat /\ Delta(a) >= 75 /\ Registry!variableAccountEntryBytes(a) = Delta(a)
                      /\ Total(a) \in Nat
  /\ Delta("add_overflow") = 85
<1>1. \A a \in Names : AccountLength[a] \in Nat /\ AccountLength[a] >= 11
  BY DEF Names, AccountLength
<1>2. \A a \in Names : Delta(a) \in Nat /\ Delta(a) >= 75 /\ Registry!variableAccountEntryBytes(a) = Delta(a)
  BY <1>1 DEF Delta, Registry!variableAccountEntryBytes
<1>3. \A a \in Names : Total(a) \in Nat
  BY <1>2, PerByteAssumption DEF Total
<1>4. Delta("add_overflow") = 85
  BY DEF Delta, AccountLength
<1> QED
  BY <1>2, <1>3, <1>4 DEF Names

LEMMA EntryPrices ==
  ASSUME NEW s
  PROVE  \A a \in Names :
           /\ EntryPrice(s, a) = (IF a \in Registered(s) THEN Total(a) ELSE 0)
           /\ EntryPrice(s, a) \in Nat
BY LengthsKnown, NamesKnown DEF EntryPrice, Registered

LEMMA RetainedSame ==
  ASSUME NEW s, NEW r, Registered(r) = Registered(s)
  PROVE  Retained(r) = Retained(s) /\ Retained(s) \in Nat
<1>1. \A a \in Names : EntryPrice(r, a) = EntryPrice(s, a) /\ EntryPrice(s, a) \in Nat
  BY EntryPrices
<1> QED
  BY <1>1, LengthsKnown DEF Retained

LEMMA RetainedMore ==
  ASSUME NEW s, NEW r, NEW a \in Names \ Registered(s), Registered(r) = Registered(s) \cup {a}
  PROVE  Retained(r) = Retained(s) + Total(a) /\ Retained(s) \in Nat
<1>1. \A b \in Names : /\ EntryPrice(s, b) \in Nat
                       /\ b # a => EntryPrice(r, b) = EntryPrice(s, b)
                       /\ b = a => EntryPrice(r, b) = EntryPrice(s, b) + Total(b)
  BY EntryPrices, LengthsKnown
<1>2. \A b \in Names : Total(b) \in Nat
  BY LengthsKnown
<1> HIDE DEF Names
<1>3. {"short", "long", "malformed", "nonzero", "forced", "add_overflow", "missing"} = Names
  BY LengthsKnown
<1> QED
  BY <1>1, <1>2, <1>3 DEF Retained

\* What a call takes on or gives up, it takes on and gives up at PerByte.
LEMMA CostsTotal ==
  ASSUME NEW home \in Homes \ OverflowHomes, NEW s, GoodPrice(home, s), NEW a \in Names,
         Registry!CanPrice(s, Registry!variableAccountEntryBytes(a))
  PROVE  Registry!cost(s, a) = Total(a)
<1> DEFINE p == Registry!price(s)
           n == Delta(a)
<1>1. n \in Nat /\ n >= 75 /\ Registry!variableAccountEntryBytes(a) = n
  BY LengthsKnown
<1>2. p \in Nat /\ p # 0 /\ p * n <= Registry!U128Max /\ (p = PerByte \/ p * 75 > Registry!U128Max)
  BY <1>1 DEF GoodPrice, Priced, Registry!CanPrice
<1>3. Registry!cost(s, a) = p * n /\ Total(a) = n * PerByte
  BY <1>1 DEF Registry!cost, Total
<1> HIDE DEF p, n
<1>4. p * 75 <= p * n
  BY <1>1, <1>2
<1>5. p = PerByte
  BY <1>1, <1>2, <1>4, Largest
<1> QED
  BY <1>1, <1>3, <1>5, PerByteAssumption

\* 85 bytes at the price of the fixture cost the largest amount.
LEMMA AddOverflowCosts ==
  /\ Registry!AddOverflow * 85 = Registry!U128Max
  /\ Registry!AddOverflow >= 1
<1>1. Registry!U128Max \in Nat /\ Registry!U128Max >= 3 /\ Registry!U128Max % 85 = 0
  BY Largest, LargestCostAssumption DEF Registry!U128Max
<1> DEFINE largest == Registry!U128Max
<1> HIDE DEF largest
<1>2. largest \in Nat /\ largest >= 3 /\ largest % 85 = 0
        => (largest \div 85) * 85 = largest /\ largest \div 85 >= 1
  OBVIOUS
<1> QED
  BY <1>1, <1>2 DEF largest, Registry!AddOverflow

LEMMA AddOverflowLeaves ==
  ASSUME NEW s, Priced(s), Registry!price(s) = Registry!AddOverflow, NEW r, NEW paid
  PROVE  ~TakesOn(s, r, 1, paid) /\ ~GivesUp(s, r, "add_overflow", 1, paid)
<1>1. ASSUME TakesOn(s, r, 1, paid)
      PROVE  FALSE
  <2>1. PICK a \in Names : 1 = paid + Registry!cost(s, a) /\ paid \in Nat
    BY <1>1, NamesKnown DEF TakesOn
  <2> DEFINE n == Delta(a)
             p == Registry!price(s)
  <2>2. n \in Nat /\ n >= 75 /\ Registry!cost(s, a) = p * n /\ p \in Nat /\ p >= 1
    BY LengthsKnown, AddOverflowCosts, Largest DEF Registry!cost
  <2> HIDE DEF n, p
  <2>3. p * n >= n
    BY <2>2
  <2> QED
    BY <2>1, <2>2, <2>3
<1>2. ASSUME GivesUp(s, r, "add_overflow", 1, paid)
      PROVE  FALSE
  <2>1. 1 + Registry!cost(s, "add_overflow") = paid /\ paid <= Registry!U128Max
    BY <1>2 DEF GivesUp
  <2>2. Registry!variableAccountEntryBytes("add_overflow") = 85
    BY LengthsKnown
  <2>3. Registry!cost(s, "add_overflow") = Registry!AddOverflow * 85
    BY <2>2 DEF Registry!cost
  <2> QED
    BY <2>1, <2>3, AddOverflowCosts, Largest
<1> QED
  BY <1>1, <1>2

LEMMA ServedKeepsCosts ==
  ASSUME NEW home \in Homes, Served(home), DOMAIN registries = Homes
  PROVE  LET before == Retained(registries[home])
             after == Retained(registries'[home])
             paid == effects'.deposit + before
         IN  \/ paid = Transfer' + after
             \/ paid = Transfer' + after + 1 /\ before = after
<1> DEFINE s == registries[home]
           r == registries'[home]
           before == Retained(s)
           after == Retained(r)
           kept == effects'.deposit
           given == Transfer'
           Settled == kept + before = given + after \/ (kept + before = given + after + 1 /\ before = after)
<1> SUFFICES Settled
  OBVIOUS
<1>1. PICK result : \E caller \in Names, deposit \in Nat : ServedWith(home, caller, deposit, result)
  BY DEF Served
<1>2. PICK caller \in Names, deposit \in Nat : ServedWith(home, caller, deposit, result)
  BY <1>1
<1>3. /\ GoodPrice(home, s) /\ KeepsItsCosts(s, caller, deposit, result)
      /\ result = Registry!Error(s) \/ result.verdict = "ok"
      /\ home = "withdraw_overflow" => result.storage = s
      /\ home = "add_overflow" => caller = home /\ deposit = 1 /\ Registry!price(s) = Registry!AddOverflow
      /\ r = result.storage
      /\ kept = IF result.verdict = "ok" THEN deposit ELSE 0
      /\ given = Paid(result)
  BY <1>2 DEF ServedWith, Transfer, Paid
<1> HIDE DEF s, r, kept, given
<1>4. CASE result = Registry!Error(s)
  <2>1. r = s /\ kept = 0 /\ given = 0
    BY <1>3, <1>4 DEF Registry!Error, Paid
  <2>2. before \in Nat /\ after = before
    BY <2>1, RetainedSame
  <2> QED
    BY <2>1, <2>2
<1>5. CASE result # Registry!Error(s)
  <2>1. /\ kept = deposit
        /\ \/ TakesOn(s, r, deposit, given)
           \/ GivesUp(s, r, caller, deposit, given)
           \/ Leaves(s, r, deposit, given)
    BY <1>3, <1>5 DEF KeepsItsCosts, RefusesAll
  <2>2. CASE Leaves(s, r, deposit, given)
    <3>1. before \in Nat /\ after = before
      BY <2>2, RetainedSame DEF Leaves
    <3>2. given \in Nat /\ (deposit = given \/ deposit = given + 1)
      BY <2>2 DEF Leaves
    <3> HIDE DEF before, after
    <3> QED
      BY <2>1, <3>1, <3>2
  <2>3. CASE TakesOn(s, r, deposit, given)
    <3>1. PICK a \in Names \ Registered(s) :
            /\ Registered(r) = Registered(s) \cup {a} /\ deposit = given + Registry!cost(s, a) /\ given \in Nat
            /\ Registry!CanPrice(s, Registry!variableAccountEntryBytes(a))
      BY <2>3, NamesKnown DEF TakesOn
    <3>2. home \notin OverflowHomes
      <4>1. r # s
        BY <3>1 DEF Registered
      <4>2. home # "add_overflow"
        BY <1>3, <2>3, AddOverflowLeaves DEF GoodPrice
      <4> QED
        BY <1>3, <4>1, <4>2 DEF OverflowHomes
    <3>3. Registry!cost(s, a) = Total(a)
      BY <1>3, <3>1, <3>2, CostsTotal
    <3>4. after = before + Total(a) /\ before \in Nat /\ Total(a) \in Nat
      BY <3>1, RetainedMore, LengthsKnown
    <3> HIDE DEF before, after
    <3> QED
      BY <2>1, <3>1, <3>3, <3>4
  <2>4. CASE GivesUp(s, r, caller, deposit, given)
    <3>1. /\ caller \in Registered(s) /\ Registered(r) = Registered(s) \ {caller}
          /\ deposit + Registry!cost(s, caller) = given
          /\ Registry!CanPrice(s, Registry!variableAccountEntryBytes(caller))
      BY <2>4 DEF GivesUp
    <3>2. home \notin OverflowHomes
      <4>1. r # s
        BY <3>1 DEF Registered
      <4>2. home # "add_overflow"
        BY <1>3, <2>4, AddOverflowLeaves DEF GoodPrice
      <4> QED
        BY <1>3, <4>1, <4>2 DEF OverflowHomes
    <3>3. Registry!cost(s, caller) = Total(caller)
      BY <1>3, <3>1, <3>2, CostsTotal
    <3>4. caller \in Names \ Registered(r) /\ Registered(s) = Registered(r) \cup {caller}
      BY <3>1
    <3>5. before = after + Total(caller) /\ after \in Nat /\ Total(caller) \in Nat
      BY <3>4, RetainedMore, LengthsKnown
    <3> HIDE DEF before, after
    <3> QED
      BY <2>1, <3>1, <3>3, <3>5
  <2> QED
    BY <2>1, <2>2, <2>3, <2>4
<1> QED
  BY <1>4, <1>5

\* A call of NearStorageRegistration keeps the price of what it registers and gives back that of what
\* it unregisters, whatever was lost on the way, and whoever calls.
THEOREM RegistryKeepsItsCostsHolds == Spec => RegistryKeepsItsCosts
<1> DEFINE Settled(home) ==
             LET before == Retained(registries[home])
                 after == Retained(registries'[home])
                 paid == effects'.deposit + before
             IN  \/ paid = Transfer' + after
                 \/ paid = Transfer' + after + 1 /\ before = after
           AllSettled == gate = "registration" => \A home \in {h \in Homes : CallsRegistry(h)} : Settled(home)
<1>1. ClientInv /\ RegistryInv /\ [Next]_vars => [AllSettled]_vars
  <2> SUFFICES ASSUME ClientInv, RegistryInv, [Next]_vars, ~(UNCHANGED vars), gate = "registration",
                      NEW home \in Homes, CallsRegistry(home)
               PROVE  Settled(home)
    OBVIOUS
  <2>1. DOMAIN registries = Homes
    BY DEF RegistryInv
  <2>2. CASE visit_registry
    <3>1. UNCHANGED executed /\ Served("contract")
      BY <2>2, VisitServes
    <3>2. home = "contract"
      BY <3>1 DEF CallsRegistry
    <3> QED
      BY <2>1, <3>1, <3>2, ServedKeepsCosts
  <2>3. ASSUME NEW tx \in pool, RegistrationRuns(tx)
        PROVE  Settled(home)
    <3>1. verdict # "passed" /\ Len(executed') = Len(executed) + 1 /\ executed'[Len(executed')] = tx.step
      BY <2>3, RegistryRuns
    <3>2. At(tx.step).account = home /\ At(tx.step).method \in VisitedMethods
      BY <3>1 DEF CallsRegistry, Last, At
    <3>3. Served(home)
      BY <2>3, <3>2, RunServes
    <3> QED
      BY <2>1, <3>3, ServedKeepsCosts
  <2>4. CASE UNCHANGED <<gate, registries, effects, executed>> /\ verdict # "passed"
    BY <2>4 DEF CallsRegistry
  <2> QED
    BY <2>2, <2>3, <2>4, RegistryMoves
<1>2. [][AllSettled]_vars => RegistryKeepsItsCosts
  BY PTL DEF RegistryKeepsItsCosts
<1> QED
  BY <1>1, <1>2, ClientInvariant, RegistriesPriced, PTL DEF Spec

-----------------------------------------------------------------------------
(***************************************************************************)
(* A gate whose script follows its contract fails only when something was  *)
(* lost.  A line says which calls the gate makes and what the chain and    *)
(* the keys it keeps are before each of them: a gate on its line stays on  *)
(* it whatever the node delays or drops, and what remains for a script is  *)
(* to show such a line, from one step of it to the next.                   *)
(***************************************************************************)
\* What a call does to the chain, and what a view finds there.
Ends(c, s) == Run(c[s.account], s.method, s.arg)

After(c, s) == [c EXCEPT ![s.account] = Ends(c, s).storage]

Found(c, s) ==
  IF Field("STATE") \in DOMAIN c[s.account] THEN ViewVerdict(s.method, s.arg) ELSE "not initialized"

Value(c, s) == IF Field("STATE") \in DOMAIN c[s.account] THEN View(c[s.account], s.method, s.arg) ELSE 0

AsExpected(s, found, value) ==
  /\ s.expects = "ok" <=> found = "ok"
  /\ s.expects \in {"failure", found}
  /\ s.returns \in {Anything, value}

\* A gate takes the step s, n places on: it compares what it is told, or catches what it was waiting for.
Agrees(s, found, value, n) ==
  \/ AsExpected(s, found, value) /\ n = 1
  \/ s.expects = "ok" /\ found # "ok" /\ s.caught # 0 /\ n = s.caught

SeesKeys(s, stored, kept) ==
  \/ s.does = "lacks" /\ s.arg \cap DOMAIN stored = {}
  \/ s.does = "stores" /\ \A k \in DOMAIN s.arg : k \in DOMAIN stored /\ stored[k] = s.arg[k]
  \/ s.does = "unchanged" /\ stored = kept
  \/ s.does = "same keys" /\ DOMAIN stored = DOMAIN kept

\* The step s is taken from the chain c with the keys kept, and leaves c2 and kept2.
Takes(s, c, kept, n, c2, kept2) ==
  \/ /\ s.does = "call" /\ s.method # "scheduleYield"
     /\ Agrees(s, Ends(c, s).verdict, Ends(c, s).value, n)
     /\ c2 = After(c, s) /\ kept2 = kept
  \/ /\ s.does = "view"
     /\ Agrees(s, Found(c, s), Value(c, s), n)
     /\ c2 = c /\ kept2 = kept
  \/ /\ s.does = "remembers" /\ n = 1
     /\ c2 = c /\ kept2 = c["test.near"]
  \/ SeesKeys(s, c["test.near"], kept) /\ n = 1 /\ c2 = c /\ kept2 = kept

\* The script goes along places with the chain before[i] and the keys kept[i]: what it expects is what
\* the contract does.
Follows(places, before, kept) ==
  /\ Flat /\ gate # "yield" /\ places \subseteq 1..(Steps + 1)
  /\ 1 \in places /\ before[1] = [a \in {"test.near", "fresh", "caller"} |-> Empty]
  /\ kept[1] = [k \in {} |-> 0]
  /\ \A i \in places \ {Steps + 1} :
       \E n \in Nat \ {0} :
         i + n \in places /\ Takes(At(i), before[i], kept[i], n, before[i + n], kept[i + n])

\* What a step that keeps the gate leaves as it was.
LEMMA GateKeeps ==
  ASSUME UNCHANGED gate
  PROVE  /\ \A s, method, arg : Run(s, method, arg)' = Run(s, method, arg)
         /\ \A s, method, arg : View(s, method, arg)' = View(s, method, arg)
         /\ \A method, arg : ViewVerdict(method, arg)' = ViewVerdict(method, arg)
         /\ \A i : At(i)' = At(i)
         /\ Steps' = Steps
         /\ Flat' = Flat
<1>1. \A s, method, arg : Run(s, method, arg)' = Run(s, method, arg)
  BY DEF Run
<1>2. \A s, method, arg : View(s, method, arg)' = View(s, method, arg)
  BY DEF View
<1>3. \A method, arg : ViewVerdict(method, arg)' = ViewVerdict(method, arg)
  BY DEF ViewVerdict
<1>4. /\ \A i : At(i)' = At(i)
      /\ Steps' = Steps
      /\ Flat' = Flat
  BY DEF At, Steps, Flat
<1> QED
  BY <1>1, <1>2, <1>3, <1>4

\* A line stays a line while the gate is the same.
LEMMA FollowsStays ==
  ASSUME UNCHANGED gate, NEW places, NEW before, NEW kept
  PROVE  Follows(places, before, kept)' <=> Follows(places, before, kept)
<1>1. \A c, s : Ends(c, s)' = Ends(c, s)
  BY GateKeeps DEF Ends
<1>2. \A c, s : After(c, s)' = After(c, s)
  BY <1>1 DEF After
<1>3. \A c, s : Found(c, s)' = Found(c, s)
  BY GateKeeps DEF Found
<1>4. \A c, s : Value(c, s)' = Value(c, s)
  BY GateKeeps DEF Value
<1>5. \A s, c, k, n, c2, k2 : Takes(s, c, k, n, c2, k2)' <=> Takes(s, c, k, n, c2, k2)
  BY <1>1, <1>2, <1>3, <1>4 DEF Takes
<1>6. \A i, c, k, n, c2, k2 : Takes(At(i), c, k, n, c2, k2)' <=> Takes(At(i), c, k, n, c2, k2)
  BY <1>5, GateKeeps
<1> QED
  BY <1>6, GateKeeps DEF Follows

\* While nothing is lost, the gate is at one of the places, with the keys it kept, and the chain is
\* as it was before that place, or its transaction has run and the answer is what it does there.
OnLine(places, before, kept) ==
  ~lost =>
    /\ verdict # "failed"
    /\ verdict = "running" =>
         /\ pc \in places /\ snapshot = kept[pc]
         /\ \A tx \in pool : tx.step = pc
         /\ outcome.step # pc => chain = before[pc]
         /\ outcome.step = pc =>
              /\ phase = "waiting" /\ pool = {}
              /\ outcome.verdict = Ends(before[pc], At(pc)).verdict
              /\ outcome.value = Ends(before[pc], At(pc)).value
              /\ chain = After(before[pc], At(pc))

\* The client goes on to another place of the line.
GoesOn(places, before, kept) ==
  \E n \in Nat \ {0} :
    /\ pc' = pc + n /\ pc + n \in places /\ snapshot' = kept[pc + n] /\ before[pc + n] = chain
    /\ verdict' = verdict /\ pool = {} /\ UNCHANGED <<pool, outcome, chain>>

\* The gate is on its line at the place it went on to.
LEMMA GoneOn ==
  ASSUME ClientInv, NEW places, NEW before, NEW kept, GoesOn(places, before, kept), verdict = "running"
  PROVE  OnLine(places, before, kept)'
<1>1. PICK n \in Nat \ {0} :
        /\ pc' = pc + n /\ pc + n \in places /\ snapshot' = kept[pc + n] /\ before[pc + n] = chain
        /\ verdict' = verdict /\ pool = {} /\ UNCHANGED <<pool, outcome, chain>>
  BY DEF GoesOn
<1>2. pc \in Nat /\ outcome.step \in Nat /\ outcome.step <= pc
  <2>1. pc \in Nat
    BY DEF ClientInv, PlaceOK
  <2>2. CASE outcome.step # 0
    <3>1. PICK m \in 1..Len(executed) : executed[m] = outcome.step
      BY <2>2 DEF ClientInv, InTurn
    <3>2. executed \in Seq(1..Steps) /\ executed[m] <= pc
      BY DEF ClientInv, TransactionsOK, SentOnce
    <3>4. \A S : executed \in Seq(S) => executed[m] \in S
      BY <3>1
    <3>3. executed[m] \in 1..Steps /\ Steps \in Nat
      BY <3>2, <3>4, ScriptFacts DEF ClientInv, PlaceOK
    <3> QED
      BY <2>1, <3>1, <3>2, <3>3
  <2> QED
    BY <2>1, <2>2
<1>3. outcome'.step # pc'
  BY <1>1, <1>2
<1> QED
  BY <1>1, <1>3 DEF OnLine

\* The gate's place is one of the line, and its step is taken from there.
LEMMA TakesNext ==
  ASSUME ClientInv, NEW places, NEW before, NEW kept, Follows(places, before, kept),
         OnLine(places, before, kept), ~lost, NEW step \in CurrentStep
  PROVE  /\ verdict = "running" /\ pc <= Steps /\ step = At(pc) /\ pc \in places
         /\ \E n \in Nat \ {0} :
              pc + n \in places /\ Takes(step, before[pc], kept[pc], n, before[pc + n], kept[pc + n])
<1>1. verdict = "running" /\ pc <= Steps /\ step = At(pc)
  BY StepAt DEF Steps
<1>2. Steps \in Nat /\ pc \in Nat
  BY ScriptFacts DEF ClientInv, PlaceOK
<1>3. pc \in places /\ pc # Steps + 1
  BY <1>1, <1>2 DEF OnLine
<1> QED
  BY <1>1, <1>3 DEF Follows

\* Nothing runs and nothing is outstanding unless the gate waits.
LEMMA IdleLine ==
  ASSUME ClientInv, NEW places, NEW before, NEW kept, OnLine(places, before, kept), ~lost,
         verdict = "running", phase # "waiting"
  PROVE  pool = {} /\ outcome.step # pc /\ chain = before[pc]
<1>1. \A tx \in pool : FALSE
  BY DEF OnLine, ClientInv, SentOnce
<1>2. outcome.step # pc
  BY DEF OnLine
<1> QED
  BY <1>1, <1>2 DEF OnLine

\* The gate asks for a call or a view: it stays at its place.
LEMMA AsksFollows ==
  ASSUME ClientInv, NEW places, NEW before, NEW kept, Follows(places, before, kept),
         OnLine(places, before, kept), ~lost, NEW step \in CurrentStep,
         Asks(step), UNCHANGED contractVars
  PROVE  OnLine(places, before, kept)'
<1>1. /\ verdict = "running" /\ pc <= Steps /\ step = At(pc) /\ pc \in places
      /\ \E n \in Nat \ {0} :
           pc + n \in places /\ Takes(step, before[pc], kept[pc], n, before[pc + n], kept[pc + n])
  BY TakesNext
<1>2. PICK n \in Nat \ {0} :
        pc + n \in places /\ Takes(step, before[pc], kept[pc], n, before[pc + n], kept[pc + n])
  BY <1>1
<1>3. UNCHANGED chain
  BY DEF contractVars, collectionVars
<1>4. CASE access_key(step)
  <2>1. UNCHANGED <<gate, pc, snapshot, verdict, pool, outcome, lost>> /\ phase = "idle"
    BY <1>4 DEF access_key, nodeVars
  <2>2. outcome.step # pc /\ pool = {} /\ chain = before[pc]
    BY <1>1, <2>1, IdleLine
  <2> QED
    BY <1>1, <1>3, <2>1, <2>2 DEF OnLine
<1>5. CASE broadcast_tx_commit(step)
  <2>1. /\ UNCHANGED <<gate, pc, snapshot, verdict, outcome, lost>> /\ phase = "signed"
        /\ pool' = pool \cup {[signer |-> step.signer, nonce |-> nonce, step |-> pc]}
    BY <1>5 DEF broadcast_tx_commit
  <2>2. outcome.step # pc /\ pool = {} /\ chain = before[pc]
    BY <1>1, <2>1, IdleLine
  <2>3. \A tx \in pool' : tx.step = pc
    BY <2>1, <2>2
  <2> QED
    BY <1>1, <1>3, <2>1, <2>2, <2>3 DEF OnLine
<1>6. CASE answer(step)
  <2>1. /\ phase = "waiting" /\ outcome.step = pc /\ step.does = "call"
        /\ UNCHANGED <<pool, outcome, lost>>
    BY <1>1, <1>6 DEF answer, nodeVars, ClientInv, PlaceOK
  <2>2. /\ pool = {} /\ chain = After(before[pc], step) /\ snapshot = kept[pc]
        /\ outcome.verdict = Ends(before[pc], step).verdict /\ outcome.value = Ends(before[pc], step).value
    BY <1>1, <2>1 DEF OnLine
  <2>3. /\ Agrees(step, outcome.verdict, outcome.value, n)
        /\ before[pc + n] = chain /\ kept[pc + n] = snapshot
    BY <1>2, <2>1, <2>2 DEF Takes, SeesKeys
  <2>4. CASE AsExpected(step, outcome.verdict, outcome.value) /\ n = 1
    <3>1. Expected(step) /\ Matches(step)
      BY <2>4 DEF AsExpected, Expected, Matches
    <3>2. Advance
      BY <1>6, <3>1 DEF answer
    <3>3. pc' = pc + n /\ snapshot' = snapshot /\ verdict' = verdict
      BY <2>4, <3>2 DEF Advance, Proceed
    <3>4. GoesOn(places, before, kept)
      BY <1>2, <1>3, <2>1, <2>2, <2>3, <3>3 DEF GoesOn
    <3> QED
      BY <1>1, <3>4, GoneOn
  <2>5. CASE step.expects = "ok" /\ outcome.verdict # "ok" /\ step.caught # 0 /\ n = step.caught
    <3>1. ~Expected(step)
      BY <2>5 DEF Expected
    <3>2. Raise(step, TRUE)
      BY <1>6, <3>1 DEF answer
    <3>3. pc' = pc + n /\ snapshot' = snapshot /\ verdict' = verdict
      BY <2>5, <3>2 DEF Raise, Proceed
    <3>4. GoesOn(places, before, kept)
      BY <1>2, <1>3, <2>1, <2>2, <2>3, <3>3 DEF GoesOn
    <3> QED
      BY <1>1, <3>4, GoneOn
  <2> QED
    BY <2>3, <2>4, <2>5 DEF Agrees
<1>7. CASE NotReached(step)
  BY <1>2, <1>7 DEF NotReached, Takes, SeesKeys
<1> QED
  BY <1>4, <1>5, <1>6, <1>7 DEF Asks

\* The answer of a view takes the gate to the next place.
LEMMA ViewFollows ==
  ASSUME ClientInv, NEW places, NEW before, NEW kept, Follows(places, before, kept),
         OnLine(places, before, kept), ~lost, NEW step \in CurrentStep,
         UNCHANGED chain, ViewAnswers(step, Found(chain, step), Value(chain, step))
  PROVE  OnLine(places, before, kept)'
<1>1. /\ verdict = "running" /\ pc <= Steps /\ step = At(pc) /\ pc \in places
      /\ \E n \in Nat \ {0} :
           pc + n \in places /\ Takes(step, before[pc], kept[pc], n, before[pc + n], kept[pc + n])
  BY TakesNext
<1>2. PICK n \in Nat \ {0} :
        pc + n \in places /\ Takes(step, before[pc], kept[pc], n, before[pc + n], kept[pc + n])
  BY <1>1
<1>3. step.does = "view" /\ UNCHANGED <<pool, outcome, lost>>
  BY DEF ViewAnswers, nodeVars
<1>4. phase # "waiting"
  BY <1>1, <1>3 DEF ClientInv, PlaceOK
<1>5. pool = {} /\ chain = before[pc] /\ snapshot = kept[pc]
  BY <1>1, <1>4, IdleLine DEF OnLine
<1> DEFINE found == Found(chain, step)
           value == Value(chain, step)
<1>6. Agrees(step, found, value, n) /\ before[pc + n] = chain /\ kept[pc + n] = snapshot
  BY <1>2, <1>3, <1>5 DEF Takes, SeesKeys
<1>7. ViewAnswers(step, found, value)
  OBVIOUS
<1> HIDE DEF found, value
<1>8. pc' = pc + n /\ snapshot' = snapshot /\ verdict' = verdict
  <2>1. CASE AsExpected(step, found, value) /\ n = 1
    <3>1. Advance
      BY <1>7, <2>1 DEF ViewAnswers, AsExpected
    <3> QED
      BY <2>1, <3>1 DEF Advance, Proceed
  <2>2. CASE step.expects = "ok" /\ found # "ok" /\ step.caught # 0 /\ n = step.caught
    <3>1. Raise(step, TRUE)
      BY <1>7, <2>2 DEF ViewAnswers
    <3> QED
      BY <2>2, <3>1 DEF Raise, Proceed
  <2> QED
    BY <1>6, <2>1, <2>2 DEF Agrees
<1>9. GoesOn(places, before, kept)
  BY <1>2, <1>3, <1>5, <1>6, <1>8 DEF GoesOn
<1> QED
  BY <1>1, <1>9, GoneOn

\* So does a look at the keys of the storage.
LEMMA LookFollows ==
  ASSUME ClientInv, NEW places, NEW before, NEW kept, Follows(places, before, kept),
         OnLine(places, before, kept), ~lost, NEW step \in CurrentStep,
         UNCHANGED chain, StateAnswers(step, chain["test.near"])
  PROVE  OnLine(places, before, kept)'
<1>1. /\ verdict = "running" /\ pc <= Steps /\ step = At(pc) /\ pc \in places
      /\ \E n \in Nat \ {0} :
           pc + n \in places /\ Takes(step, before[pc], kept[pc], n, before[pc + n], kept[pc + n])
  BY TakesNext
<1>2. PICK n \in Nat \ {0} :
        pc + n \in places /\ Takes(step, before[pc], kept[pc], n, before[pc + n], kept[pc + n])
  BY <1>1
<1>3. /\ step.does \in {"remembers", "lacks", "stores", "unchanged", "same keys"}
      /\ UNCHANGED <<pool, outcome, lost>>
  BY DEF StateAnswers, nodeVars
<1>4. phase # "waiting"
  BY <1>1, <1>3 DEF ClientInv, PlaceOK
<1>5. pool = {} /\ chain = before[pc] /\ snapshot = kept[pc]
  BY <1>1, <1>4, IdleLine DEF OnLine
<1>6. n = 1 /\ before[pc + n] = chain
  BY <1>2, <1>3, <1>5 DEF Takes
<1>7. pc' = pc + 1 /\ snapshot' = kept[pc + n] /\ verdict' = verdict
  <2>1. CASE step.does = "remembers"
    <3>1. kept[pc + n] = chain["test.near"]
      BY <1>2, <1>5, <2>1 DEF Takes, SeesKeys
    <3> QED
      BY <2>1, <3>1 DEF StateAnswers, Proceed
  <2>2. CASE step.does # "remembers"
    <3>1. SeesKeys(step, chain["test.near"], snapshot) /\ kept[pc + n] = snapshot
      BY <1>2, <1>3, <1>5, <2>2 DEF Takes
    <3>2. Holds(step, chain["test.near"])
      BY <3>1 DEF SeesKeys, Holds
    <3>3. Advance
      BY <2>2, <3>2 DEF StateAnswers
    <3> QED
      BY <3>1, <3>3 DEF Advance, Proceed
  <2> QED
    BY <2>1, <2>2
<1>8. GoesOn(places, before, kept)
  BY <1>2, <1>3, <1>5, <1>6, <1>7 DEF GoesOn
<1> QED
  BY <1>1, <1>8, GoneOn

\* What the client does keeps the gate on its line.
LEMMA LineClient ==
  ASSUME ClientInv, NEW places, NEW before, NEW kept, Follows(places, before, kept),
         OnLine(places, before, kept), ~lost, Client
  PROVE  OnLine(places, before, kept)'
<1>1. Flat /\ gate \notin {"queue", "iterable", "counter", "ledger", "registration"}
  BY DEF Follows, Flat
<1>2. ASSUME NEW step \in CurrentStep, Asks(step), UNCHANGED contractVars
      PROVE  OnLine(places, before, kept)'
  BY <1>2, AsksFollows
<1>3. ASSUME NEW step \in CurrentStep, Loses(step)
      PROVE  OnLine(places, before, kept)'
  BY <1>3 DEF Loses, rpc_call_raises, answer_not_read, OnLine
<1>4. ASSUME NEW step \in CurrentStep, Looks(step)
      PROVE  OnLine(places, before, kept)'
  <2>1. CASE PlainView(step)
    <3>1. UNCHANGED chain
      BY <2>1 DEF PlainView, collectionVars
    <3>2. ViewAnswers(step, Found(chain, step), Value(chain, step))
      BY <1>1, <2>1 DEF PlainView, Found, Value
    <3> QED
      BY <1>4, <3>1, <3>2, ViewFollows
  <2>2. CASE StateView(step)
    <3>1. UNCHANGED chain
      BY <2>2 DEF StateView, collectionVars
    <3>2. StateAnswers(step, chain["test.near"])
      BY <1>1, <2>2 DEF StateView, Keys
    <3> QED
      BY <1>4, <3>1, <3>2, LookFollows
  <2>3. CASE YieldPoll(step)
    <3>1. step.does = "poll"
      BY <2>3 DEF YieldPoll, PollAnswers
    <3>2. \E n, c2, k2 : Takes(step, before[pc], kept[pc], n, c2, k2)
      BY <1>4, TakesNext
    <3> QED
      BY <3>1, <3>2 DEF Takes, SeesKeys
  <2> QED
    BY <1>1, <1>4, <2>1, <2>2, <2>3 DEF Looks, CounterView, LedgerLooks, RegistrationLooks
<1>5. ASSUME Finish, UNCHANGED contractVars
      PROVE  OnLine(places, before, kept)'
  BY <1>5 DEF Finish, OnLine
<1> QED
  BY <1>2, <1>3, <1>4, <1>5 DEF Client

\* A transaction that the node runs does to the chain what the line says of its place.
LEMMA LineRuns ==
  ASSUME ClientInv, NEW places, NEW before, NEW kept, Follows(places, before, kept),
         OnLine(places, before, kept), ~lost, NEW tx \in pool, CollectionRuns(tx)
  PROVE  OnLine(places, before, kept)'
<1> DEFINE s == At(tx.step)
<1>1. Flat /\ gate \notin {"queue", "iterable", "counter", "ledger", "registration"}
  BY DEF Follows, Flat
<1>2. UNCHANGED <<gate, pc, phase, snapshot, verdict, lost>> /\ pool' = pool \ {tx}
  BY DEF CollectionRuns, Included, clientVars
<1>3. CASE verdict # "running"
  BY <1>2, <1>3 DEF OnLine
<1>4. CASE verdict = "running"
  <2>1. /\ pc \in places /\ snapshot = kept[pc] /\ tx.step = pc /\ \A t \in pool : t.step = pc
        /\ outcome.step # pc /\ chain = before[pc]
    BY <1>4 DEF OnLine
  <2>2. phase = "waiting" /\ s.does = "call" /\ s = At(pc) /\ pc <= Steps
    BY <2>1 DEF ClientInv, SentOnce, PlaceOK
  <2>3. pool' = {}
    BY <1>2, <2>1 DEF ClientInv, SentOnce
  <2>4. s.method # "scheduleYield"
    <3>1. s \in CurrentStep
      BY <1>4, <2>2 DEF CurrentStep, At, Steps
    <3>2. \E n, c2, k2 : Takes(s, before[pc], kept[pc], n, c2, k2)
      BY <3>1, TakesNext
    <3> HIDE DEF s
    <3> QED
      BY <2>2, <3>2 DEF Takes, SeesKeys
  <2>5. FlatCall(tx, s)
    BY <1>1 DEF CollectionRuns, QueueCall, IterableCall, CounterCall, At
  <2> HIDE DEF s
  <2>6. /\ chain' = After(before[pc], s)
        /\ outcome' = [step |-> pc, verdict |-> Ends(before[pc], s).verdict, value |-> Ends(before[pc], s).value]
    BY <2>1, <2>4, <2>5 DEF FlatCall, Answered, After, Ends
  <2>7. /\ outcome'.step = pc /\ outcome'.verdict = Ends(before[pc], At(pc)).verdict
        /\ outcome'.value = Ends(before[pc], At(pc)).value /\ chain' = After(before[pc], At(pc))
    BY <2>2, <2>6
  <2>8. Ends(before[pc], At(pc))' = Ends(before[pc], At(pc)) /\ After(before[pc], At(pc))' = After(before[pc], At(pc))
    <3>1. At(pc)' = At(pc)
      BY <1>2 DEF At
    <3>2. \A c, t : Ends(c, t)' = Ends(c, t)
      BY <1>2, GateKeeps DEF Ends
    <3>3. \A c, t : After(c, t)' = After(c, t)
      BY <3>2 DEF After
    <3> QED
      BY <1>2, <3>1, <3>2, <3>3
  <2> QED
    BY <1>2, <2>1, <2>2, <2>3, <2>7, <2>8 DEF OnLine
<1> QED
  BY <1>3, <1>4

\* What the node does keeps the gate on its line.
LEMMA LineNode ==
  ASSUME ClientInv, NEW places, NEW before, NEW kept, Follows(places, before, kept),
         OnLine(places, before, kept), ~lost, Executes \/ Drops \/ Receipts \/ Visited
  PROVE  OnLine(places, before, kept)'
<1>1. gate \notin {"queue", "iterable", "counter", "ledger", "registration", "yield"}
  BY DEF Follows, Flat
<1>2. CASE Executes
  BY <1>1, <1>2, LineRuns DEF Executes, LedgerRuns, RegistrationRuns
<1>3. CASE Drops
  BY <1>3 DEF Drops, dropped, OnLine
<1>4. CASE Receipts
  BY <1>1, <1>4 DEF Receipts, receiver_answers, resolver_runs, yield_times_out
<1>5. CASE Visited
  BY <1>5 DEF Visited, visit, visit_registry, clientVars, nodeVars, OnLine
<1> QED
  BY <1>2, <1>3, <1>4, <1>5

\* Whatever the line of the gate is, the gate is on it.
LineInv ==
  \A places, before, kept : Follows(places, before, kept) => OnLine(places, before, kept)

\* near_rpc.py under a gate: where the contract does what the script expects of every step, the gate
\* fails only when a request, an answer or a transaction was lost, whatever the node delays.
THEOREM FollowingGatesPass ==
  Spec => []((\E places, before, kept : Follows(places, before, kept)) => (verdict = "failed" => lost))
<1>1. Init => LineInv
  BY DEF Init, Start, CollectionInit, LineInv, OnLine, Follows
<1>2. ClientInv /\ LineInv /\ [Next]_vars => LineInv'
  <2> SUFFICES ASSUME ClientInv, LineInv, [Next]_vars,
                      NEW places, NEW before, NEW kept, Follows(places, before, kept)'
               PROVE  OnLine(places, before, kept)'
    BY DEF LineInv
  <2>1. UNCHANGED gate /\ lost' \in {lost, TRUE}
    <3>1. ClientMoves \/ NodeMoves \/ Finishes
      BY StepMoves DEF ClientInv, TransactionsOK
    <3> QED
      BY <3>1 DEF ClientMoves, NodeMoves, Finishes
  <2>2. Follows(places, before, kept)
    BY <2>1, FollowsStays
  <2>3. OnLine(places, before, kept)
    BY <2>2 DEF LineInv
  <2>4. CASE lost
    BY <2>1, <2>4 DEF OnLine
  <2>5. CASE ~lost /\ UNCHANGED vars
    <3>1. UNCHANGED <<gate, pc, phase, snapshot, verdict, lost, pool, outcome, chain>>
      BY <2>5 DEF vars, clientVars, nodeVars, contractVars, collectionVars
    <3>2. At(pc)' = At(pc)
      BY <3>1 DEF At
    <3>3. \A c, t : Ends(c, t)' = Ends(c, t)
      BY <3>1, GateKeeps DEF Ends
    <3>4. \A c, t : After(c, t)' = After(c, t)
      BY <3>3 DEF After
    <3>5. Ends(before[pc], At(pc))' = Ends(before[pc], At(pc)) /\ After(before[pc], At(pc))' = After(before[pc], At(pc))
      BY <3>1, <3>2, <3>3, <3>4
    <3> QED
      BY <2>3, <3>1, <3>5 DEF OnLine
  <2>6. CASE ~lost /\ Next
    BY <2>2, <2>3, <2>6, LineClient, LineNode DEF Next
  <2> QED
    BY <2>4, <2>5, <2>6
<1>3. LineInv => ((\E places, before, kept : Follows(places, before, kept)) => (verdict = "failed" => lost))
  BY DEF LineInv, OnLine
<1> QED
  BY <1>1, <1>2, <1>3, ClientInvariant, PTL DEF Spec

\* A line along a part of a script, from the chain c with the keys k to c2 with k2.
Line(script, places, before, kept, c, k, c2, k2) ==
  /\ Len(script) \in Nat
  /\ places \subseteq 1..(Len(script) + 1) /\ 1 \in places /\ Len(script) + 1 \in places
  /\ before[1] = c /\ kept[1] = k /\ before[Len(script) + 1] = c2 /\ kept[Len(script) + 1] = k2
  /\ \A i \in places \ {Len(script) + 1} :
       \E n \in Nat \ {0} :
         i + n \in places /\ Takes(script[i], before[i], kept[i], n, before[i + n], kept[i + n])

\* Some line does.
Carries(script, c, k, c2, k2) ==
  \E places, before, kept : Line(script, places, before, kept, c, k, c2, k2)

\* One step.
LEMMA CarriesOne ==
  ASSUME NEW s, NEW c, NEW k, NEW c2, NEW k2, Takes(s, c, k, 1, c2, k2)
  PROVE  Carries(<<s>>, c, k, c2, k2)
<1> DEFINE script == <<s>>
           before == <<c, c2>>
           kept == <<k, k2>>
<1>1. Len(script) = 1 /\ script[1] = s
  OBVIOUS
<1>2. before[1] = c /\ before[2] = c2 /\ kept[1] = k /\ kept[2] = k2
  OBVIOUS
<1> HIDE DEF script, before, kept
<1>3. \A i \in {1, 2} \ {2} :
        \E n \in Nat \ {0} :
          i + n \in {1, 2} /\ Takes(script[i], before[i], kept[i], n, before[i + n], kept[i + n])
  <2>1. Takes(script[1], before[1], kept[1], 1, before[1 + 1], kept[1 + 1])
    BY <1>1, <1>2
  <2> QED
    BY <2>1
<1>4. Len(script) + 1 = 2 /\ {1, 2} \subseteq 1..(Len(script) + 1)
  BY <1>1
<1>5. Line(script, {1, 2}, before, kept, c, k, c2, k2)
  BY <1>1, <1>2, <1>3, <1>4 DEF Line
<1>6. Carries(script, c, k, c2, k2)
  BY <1>5 DEF Carries
<1> QED
  BY <1>6 DEF script

\* Steps that leave everything as it was.
LEMMA CarriesAll ==
  ASSUME NEW script, Len(script) \in Nat, NEW c, NEW k,
         \A i \in 1..Len(script) : Takes(script[i], c, k, 1, c, k)
  PROVE  Carries(script, c, k, c, k)
<1> DEFINE beyond == Len(script) + 1
           before == [i \in 1..beyond |-> c]
           kept == [i \in 1..beyond |-> k]
<1>1. beyond \in Nat /\ 1 \in 1..beyond /\ beyond \in 1..beyond
  OBVIOUS
<1>2. \A i \in 1..beyond : before[i] = c /\ kept[i] = k
  OBVIOUS
<1>3. \A i \in (1..beyond) \ {beyond} : i + 1 \in 1..beyond /\ i \in 1..Len(script)
  OBVIOUS
<1> HIDE DEF before, kept
<1>4. \A i \in (1..beyond) \ {beyond} :
        \E n \in Nat \ {0} :
          i + n \in 1..beyond /\ Takes(script[i], before[i], kept[i], n, before[i + n], kept[i + n])
  <2> SUFFICES ASSUME NEW i \in (1..beyond) \ {beyond}
               PROVE  /\ 1 \in Nat \ {0} /\ i + 1 \in 1..beyond
                      /\ Takes(script[i], before[i], kept[i], 1, before[i + 1], kept[i + 1])
    OBVIOUS
  <2>1. i + 1 \in 1..beyond /\ i \in 1..Len(script) /\ i \in 1..beyond
    BY <1>3
  <2>2. Takes(script[i], c, k, 1, c, k)
    BY <2>1
  <2> QED
    BY <1>2, <2>1, <2>2
<1>5. Line(script, 1..beyond, before, kept, c, k, c, k)
  BY <1>1, <1>2, <1>4 DEF Line
<1> QED
  BY <1>5 DEF Carries

\* One part after the other.
LEMMA CarriesJoins ==
  ASSUME NEW a, NEW b, NEW c, NEW k, NEW c1, NEW k1, NEW c2, NEW k2,
         Carries(a, c, k, c1, k1), Carries(b, c1, k1, c2, k2)
  PROVE  Carries(a \o b, c, k, c2, k2)
<1> DEFINE ab == a \o b
           la == Len(a)
           lb == Len(b)
           beyond == la + lb + 1
<1>1. /\ la \in Nat /\ lb \in Nat /\ Len(ab) = la + lb
      /\ \A i \in 1..la : ab[i] = a[i]
      /\ \A i \in 1..lb : ab[i + la] = b[i]
  BY DEF Carries, Line
<1>2. PICK pa, ba, ka :
        /\ pa \subseteq 1..(la + 1) /\ 1 \in pa /\ la + 1 \in pa
        /\ ba[1] = c /\ ka[1] = k /\ ba[la + 1] = c1 /\ ka[la + 1] = k1
        /\ \A i \in pa \ {la + 1} :
             \E n \in Nat \ {0} : i + n \in pa /\ Takes(a[i], ba[i], ka[i], n, ba[i + n], ka[i + n])
  BY DEF Carries, Line
<1>3. PICK pb, bb, kb :
        /\ pb \subseteq 1..(lb + 1) /\ 1 \in pb /\ lb + 1 \in pb
        /\ bb[1] = c1 /\ kb[1] = k1 /\ bb[lb + 1] = c2 /\ kb[lb + 1] = k2
        /\ \A i \in pb \ {lb + 1} :
             \E n \in Nat \ {0} : i + n \in pb /\ Takes(b[i], bb[i], kb[i], n, bb[i + n], kb[i + n])
  BY DEF Carries, Line
<1> HIDE DEF ab, la, lb
<1> DEFINE places == {i \in 1..beyond : (i <= la /\ i \in pa) \/ (i > la /\ i - la \in pb)}
           before == [i \in 1..beyond |-> IF i <= la THEN ba[i] ELSE bb[i - la]]
           kept == [i \in 1..beyond |-> IF i <= la THEN ka[i] ELSE kb[i - la]]
<1>4. \A i \in pa : i \in places /\ before[i] = ba[i] /\ kept[i] = ka[i]
  <2> SUFFICES ASSUME NEW i \in pa PROVE i \in places /\ before[i] = ba[i] /\ kept[i] = ka[i]
    OBVIOUS
  <2>1. i \in 1..beyond /\ i \in 1..(la + 1)
    BY <1>1, <1>2
  <2>2. CASE i <= la
    BY <2>1, <2>2
  <2>3. CASE i = la + 1
    <3>1. i > la /\ i - la = 1 /\ ~(i <= la)
      BY <1>1, <2>3
    <3> QED
      BY <1>2, <1>3, <2>1, <2>3, <3>1
  <2> QED
    BY <1>1, <2>1, <2>2, <2>3
<1>5. \A j \in pb : j + la \in places /\ before[j + la] = bb[j] /\ kept[j + la] = kb[j]
  <2> SUFFICES ASSUME NEW j \in pb PROVE j + la \in places /\ before[j + la] = bb[j] /\ kept[j + la] = kb[j]
    OBVIOUS
  <2>1. j \in 1..(lb + 1) /\ j + la \in 1..beyond /\ ~(j + la <= la) /\ (j + la) - la = j /\ j + la > la
    BY <1>1, <1>3
  <2> QED
    BY <2>1
<1>6. \A i \in places : (i <= la /\ i \in pa) \/ (\E j \in pb : i = j + la)
  <2> SUFFICES ASSUME NEW i \in places, i > la PROVE i = (i - la) + la /\ i - la \in pb
    BY <1>1
  <2> QED
    BY <1>1
<1>7. /\ places \subseteq 1..beyond /\ 1 \in places /\ beyond \in places
      /\ before[1] = c /\ kept[1] = k /\ before[beyond] = c2 /\ kept[beyond] = k2
  <2>1. (lb + 1) + la = beyond
    BY <1>1
  <2>2. 1 \in places /\ before[1] = c /\ kept[1] = k
    BY <1>2, <1>4
  <2>3. beyond \in places /\ before[beyond] = c2 /\ kept[beyond] = k2
    BY <1>3, <1>5, <2>1
  <2> QED
    BY <2>2, <2>3
<1> HIDE DEF places, before, kept
<1>8. ASSUME NEW i \in places \ {beyond}
      PROVE  \E n \in Nat \ {0} :
               i + n \in places /\ Takes(ab[i], before[i], kept[i], n, before[i + n], kept[i + n])
  <2>1. CASE i <= la /\ i \in pa
    <3>1. i # la + 1 /\ i \in 1..la
      BY <1>1, <1>2, <2>1
    <3>2. PICK n \in Nat \ {0} : i + n \in pa /\ Takes(a[i], ba[i], ka[i], n, ba[i + n], ka[i + n])
      BY <1>2, <2>1, <3>1
    <3>3. /\ before[i] = ba[i] /\ kept[i] = ka[i] /\ ab[i] = a[i]
          /\ i + n \in places /\ before[i + n] = ba[i + n] /\ kept[i + n] = ka[i + n]
      BY <1>1, <1>4, <2>1, <3>1, <3>2
    <3> QED
      BY <3>2, <3>3
  <2>2. ASSUME NEW j \in pb, i = j + la
        PROVE  \E n \in Nat \ {0} :
                 i + n \in places /\ Takes(ab[i], before[i], kept[i], n, before[i + n], kept[i + n])
    <3>1. j # lb + 1 /\ j \in 1..lb
      BY <1>1, <1>3, <2>2
    <3>2. PICK n \in Nat \ {0} : j + n \in pb /\ Takes(b[j], bb[j], kb[j], n, bb[j + n], kb[j + n])
      BY <1>3, <2>2, <3>1
    <3>3. (j + n) + la = i + n
      BY <1>1, <2>2, <3>1
    <3>4. /\ before[i] = bb[j] /\ kept[i] = kb[j] /\ ab[i] = b[j]
          /\ i + n \in places /\ before[i + n] = bb[j + n] /\ kept[i + n] = kb[j + n]
      BY <1>1, <1>5, <2>2, <3>1, <3>2, <3>3
    <3> QED
      BY <3>2, <3>4
  <2> QED
    BY <1>6, <2>1, <2>2
<1>9. Len(ab) \in Nat /\ Len(ab) + 1 = beyond
  BY <1>1
<1>10. Line(ab, places, before, kept, c, k, c2, k2)
  BY <1>7, <1>8, <1>9 DEF Line
<1>11. Carries(ab, c, k, c2, k2)
  BY <1>10 DEF Carries
<1> QED
  BY <1>11 DEF ab

\* What the gate has read of the keys when it starts.
NoKeys == [k \in {} |-> 0]

\* The chain when only the gate's account has a storage.
Only(s) == [a \in {"test.near", "fresh", "caller"} |-> IF a = "test.near" THEN s ELSE Empty]

\* A script that is carried to its end is a line of its gate.
LEMMA CarriesFollows ==
  ASSUME Flat, gate # "yield", NEW c2, NEW k2, Carries(Script[gate], Only(Empty), NoKeys, c2, k2)
  PROVE  \E places, before, kept : Follows(places, before, kept)
<1>1. Only(Empty) = [a \in {"test.near", "fresh", "caller"} |-> Empty]
  BY DEF Only
<1>2. Steps = Len(Script[gate]) /\ \A i : At(i) = Script[gate][i]
  BY DEF Steps, At
<1>3. PICK places, before, kept : Line(Script[gate], places, before, kept, Only(Empty), NoKeys, c2, k2)
  BY DEF Carries
<1>4. Follows(places, before, kept)
  BY <1>1, <1>2, <1>3 DEF Line, Follows, NoKeys
<1> QED
  BY <1>4

\* The storage of the gate's own account.
LEMMA OnlyHome ==
  ASSUME NEW st, NEW r
  PROVE  Only(st)["test.near"] = st /\ [Only(st) EXCEPT !["test.near"] = r] = Only(r)
BY DEF Only

\* A call that ends well.
LEMMA SendsTakes ==
  ASSUME NEW st, NEW k, NEW method, method # "scheduleYield", NEW arg, NEW returns,
         NEW r, r = Run(st, method, arg), r.verdict = "ok", returns \in {Anything, r.value}
  PROVE  Takes(Sends(method, arg, returns), Only(st), k, 1, Only(r.storage), k)
<1> DEFINE s == Sends(method, arg, returns)
<1>1. /\ s.does = "call" /\ s.method = method /\ s.arg = arg /\ s.account = "test.near"
      /\ s.expects = "ok" /\ s.returns = returns
  BY DEF Sends, Step
<1> HIDE DEF s
<1>2. Ends(Only(st), s) = r
  BY <1>1, OnlyHome DEF Ends
<1>3. After(Only(st), s) = Only(r.storage)
  BY <1>1, <1>2, OnlyHome DEF After
<1>4. Agrees(s, Ends(Only(st), s).verdict, Ends(Only(st), s).value, 1)
  BY <1>1, <1>2 DEF Agrees, AsExpected
<1>5. Takes(s, Only(st), k, 1, Only(r.storage), k)
  BY <1>1, <1>3, <1>4 DEF Takes
<1> QED
  BY <1>5 DEF s

\* The same, as a part of a script.
LEMMA SendsCarries ==
  ASSUME NEW st, NEW k, NEW method, method # "scheduleYield", NEW arg, NEW returns,
         NEW r, r = Run(st, method, arg), r.verdict = "ok", returns \in {Anything, r.value}
  PROVE  Carries(<< Sends(method, arg, returns) >>, Only(st), k, Only(r.storage), k)
BY SendsTakes, CarriesOne

\* A view that answers what the gate expects.
LEMMA ViewTakes ==
  ASSUME NEW st, Field("STATE") \in DOMAIN st, NEW k, NEW method, NEW arg, NEW returns,
         ViewVerdict(method, arg) = "ok", returns \in {Anything, View(st, method, arg)}
  PROVE  Takes(Views(method, arg, returns), Only(st), k, 1, Only(st), k)
<1> DEFINE s == Views(method, arg, returns)
<1>1. /\ s.does = "view" /\ s.method = method /\ s.arg = arg /\ s.account = "test.near"
      /\ s.expects = "ok" /\ s.returns = returns
  BY DEF Views, Step
<1> HIDE DEF s
<1>2. Found(Only(st), s) = "ok" /\ Value(Only(st), s) = View(st, method, arg)
  BY <1>1, OnlyHome DEF Found, Value
<1>3. Agrees(s, Found(Only(st), s), Value(Only(st), s), 1)
  BY <1>1, <1>2 DEF Agrees, AsExpected
<1>4. Takes(s, Only(st), k, 1, Only(st), k)
  BY <1>1, <1>3 DEF Takes
<1> QED
  BY <1>4 DEF s

\* The gate reads the keys, and later finds them unchanged.
LEMMA KeysTake ==
  ASSUME NEW st, NEW k
  PROVE  /\ Takes(Remembers, Only(st), k, 1, Only(st), st)
         /\ Takes(Unchanged, Only(st), st, 1, Only(st), st)
<1>1. Remembers.does = "remembers" /\ Unchanged.does = "unchanged"
  BY DEF Remembers, Unchanged, Step
<1> QED
  BY <1>1, OnlyHome DEF Takes, SeesKeys

\* deploy and initialize.
LEMMA DeployedCarries ==
  ASSUME NEW initial, NEW k, NEW r, r = Run(Empty, "initialize", initial), r.verdict = "ok"
  PROVE  Carries(Deployed(initial), Only(Empty), k, Only(r.storage), k)
<1>1. Run(Empty, "deploy", 0) = Returns(Empty, 0)
  BY DEF Run
<1>2. Returns(Empty, 0).verdict = "ok" /\ Returns(Empty, 0).storage = Empty
  BY DEF Returns
<1>3. Carries(<< Sends("deploy", 0, Anything) >>, Only(Empty), k, Only(Empty), k)
  BY <1>1, <1>2, SendsCarries
<1>4. Carries(<< Sends("initialize", initial, Anything) >>, Only(Empty), k, Only(r.storage), k)
  BY SendsCarries
<1>5. Deployed(initial) = << Sends("deploy", 0, Anything) >> \o << Sends("initialize", initial, Anything) >>
  BY DEF Deployed
<1> QED
  BY <1>3, <1>4, <1>5, CarriesJoins

\* The first of two parts.
LEMMA JoinedFirst ==
  ASSUME NEW a, NEW b, Len(a) \in Nat, Len(b) \in Nat
  PROVE  Len(a \o b) = Len(a) + Len(b) /\ \A i \in 1..Len(a) : (a \o b)[i] = a[i]
OBVIOUS

\* A step that fails as the gate says, and whose except clause leads to the end of its try.
LEMMA TryCarries ==
  ASSUME NEW s0, NEW c, NEW k, Takes([s0 EXCEPT !.caught = 2, !.claims = TRUE], c, k, 2, c, k)
  PROVE  Carries(Try(<<s0>>), c, k, c, k)
<1> DEFINE script == Try(<<s0>>)
           steps == <<s0>>
           guarded == [i \in 1..Len(steps) |-> [steps[i] EXCEPT !.caught = Len(steps) + 2 - i, !.claims = TRUE]]
<1>1. Len(script) = 2 /\ script[1] = [s0 EXCEPT !.caught = 2, !.claims = TRUE]
  <2>1. Len(steps) = 1 /\ steps[1] = s0
    OBVIOUS
  <2> HIDE DEF steps
  <2>2. Len(guarded) = 1 /\ \A i \in 1..1 : guarded[i] = [steps[i] EXCEPT !.caught = 3 - i, !.claims = TRUE]
    BY <2>1
  <2> DEFINE rest == << Unreachable >>
  <2>3. Len(rest) = 1 /\ script = guarded \o rest
    BY DEF Try, steps
  <2> HIDE DEF script, guarded, rest
  <2>4. guarded[1] = [steps[1] EXCEPT !.caught = 2, !.claims = TRUE]
    BY <2>2
  <2>5. Len(guarded \o rest) = 2 /\ (guarded \o rest)[1] = guarded[1]
    <3>1. 1 \in 1..Len(guarded) /\ Len(guarded) \in Nat /\ Len(rest) \in Nat
      BY <2>2, <2>3
    <3>2. Len(guarded \o rest) = Len(guarded) + Len(rest) /\ (guarded \o rest)[1] = guarded[1]
      BY <3>1, JoinedFirst
    <3> QED
      BY <2>2, <2>3, <3>2
  <2> QED
    BY <2>1, <2>3, <2>4, <2>5
<1> HIDE DEF script
<1>2. Takes(script[1], c, k, 2, c, k)
  BY <1>1
<1> DEFINE before == [i \in 1..3 |-> c]
           kept == [i \in 1..3 |-> k]
<1>3. \A i \in 1..3 : before[i] = c /\ kept[i] = k
  OBVIOUS
<1> HIDE DEF before, kept
<1>4. 1 + 2 \in {1, 3} /\ Takes(script[1], before[1], kept[1], 2, before[1 + 2], kept[1 + 2])
  BY <1>2, <1>3
<1>5. \A i \in {1, 3} \ {3} :
        \E n \in Nat \ {0} :
          i + n \in {1, 3} /\ Takes(script[i], before[i], kept[i], n, before[i + n], kept[i + n])
  BY <1>4
<1>6. Line(script, {1, 3}, before, kept, c, k, c, k)
  BY <1>1, <1>3, <1>5 DEF Line
<1>7. Carries(script, c, k, c, k)
  BY <1>6 DEF Carries
<1> QED
  BY <1>7 DEF script

\* A view that must fail, and traps.
LEMMA FailureCarries ==
  ASSUME NEW st, Field("STATE") \in DOMAIN st, NEW k, NEW method, ViewVerdict(method, 0) = "trap"
  PROVE  Carries(ViewFails(method), Only(st), k, Only(st), k)
<1> DEFINE s == [Views(method, 0, Anything) EXCEPT !.caught = 2, !.claims = TRUE]
<1>1. /\ s.does = "view" /\ s.method = method /\ s.arg = 0 /\ s.account = "test.near"
      /\ s.expects = "ok" /\ s.caught = 2
  BY DEF Views, Step
<1> HIDE DEF s
<1>2. Found(Only(st), s) = "trap"
  BY <1>1, OnlyHome DEF Found
<1>3. Agrees(s, Found(Only(st), s), Value(Only(st), s), 2)
  BY <1>1, <1>2 DEF Agrees
<1>4. Takes(s, Only(st), k, 2, Only(st), k)
  BY <1>1, <1>3 DEF Takes
<1> QED
  BY <1>4, TryCarries DEF s, ViewFails

\* A call that must fail, and traps.
LEMMA TrapCarries ==
  ASSUME NEW st, NEW k, NEW method, method # "scheduleYield", NEW arg, Run(st, method, arg) = Trap(st)
  PROVE  Carries(Try(<< Sends(method, arg, Anything) >>), Only(st), k, Only(st), k)
<1> DEFINE s == [Sends(method, arg, Anything) EXCEPT !.caught = 2, !.claims = TRUE]
<1>1. /\ s.does = "call" /\ s.method = method /\ s.arg = arg /\ s.account = "test.near"
      /\ s.expects = "ok" /\ s.caught = 2
  BY DEF Sends, Step
<1> HIDE DEF s
<1>2. Ends(Only(st), s) = Trap(st)
  BY <1>1, OnlyHome DEF Ends
<1>3. Trap(st).verdict = "trap" /\ Trap(st).storage = st
  BY DEF Trap
<1>4. After(Only(st), s) = Only(st)
  BY <1>1, <1>2, <1>3, OnlyHome DEF After
<1>5. Agrees(s, Ends(Only(st), s).verdict, Ends(Only(st), s).value, 2)
  BY <1>1, <1>2, <1>3 DEF Agrees
<1>6. Takes(s, Only(st), k, 2, Only(st), k)
  BY <1>1, <1>4, <1>5 DEF Takes
<1> QED
  BY <1>6, TryCarries DEF s

\* The gate looks for a key that must be there with its value.
LEMMA KeysFound ==
  ASSUME NEW st, NEW k, NEW key, key \in DOMAIN st
  PROVE  Takes(One(key, st[key]), Only(st), k, 1, Only(st), k)
<1> DEFINE s == One(key, st[key])
<1>1. s.does = "stores" /\ s.arg = [x \in {key} |-> st[key]]
  BY DEF One, Stores, Step
<1> HIDE DEF s
<1>2. SeesKeys(s, Only(st)["test.near"], k)
  BY <1>1, OnlyHome DEF SeesKeys
<1>3. Takes(s, Only(st), k, 1, Only(st), k)
  BY <1>2 DEF Takes
<1> QED
  BY <1>3 DEF s

\* It looks for keys that must not be there.
LEMMA KeysMissed ==
  ASSUME NEW st, NEW k, NEW keys, keys \cap DOMAIN st = {}
  PROVE  Takes(Lacks(keys), Only(st), k, 1, Only(st), k)
<1> DEFINE s == Lacks(keys)
<1>1. s.does = "lacks" /\ s.arg = keys
  BY DEF Lacks, Step
<1> HIDE DEF s
<1>2. SeesKeys(s, Only(st)["test.near"], k)
  BY <1>1, OnlyHome DEF SeesKeys
<1>3. Takes(s, Only(st), k, 1, Only(st), k)
  BY <1>2 DEF Takes
<1> QED
  BY <1>3 DEF s

\* initialize of a contract whose only key is its marker.
LEMMA PureStarts ==
  ASSUME gate \in {"arithmetic", "memory"}, NEW r, r = Run(Empty, "initialize", 0)
  PROVE  r.verdict = "ok" /\ Field("STATE") \in DOMAIN r.storage
<1>1. r = initialize(Empty, [k \in {Field("marker")} |-> 0])
  BY DEF Run, PureRun
<1>2. DOMAIN Empty = {}
  BY DEF Empty
<1> QED
  BY <1>1, <1>2 DEF initialize, When, Returns

\* Views of the parts of a result, each with what the contract computes.
LEMMA AnswersCarry ==
  ASSUME gate = "arithmetic", NEW st, Field("STATE") \in DOMAIN st, NEW k, NEW method,
         NEW parts, Len(parts) \in Nat,
         \A i \in 1..Len(parts) : Token!Result(method)[parts[i][1]] = parts[i][2]
  PROVE  Carries(Answers(method, parts), Only(st), k, Only(st), k)
<1> DEFINE script == Answers(method, parts)
<1>1. Len(script) = Len(parts) /\ \A i \in 1..Len(parts) : script[i] = Views(method, parts[i][1], parts[i][2])
  BY DEF Answers
<1> HIDE DEF script
<1>2. \A part : ViewVerdict(method, part) = "ok" /\ View(st, method, part) = Token!Result(method)[part]
  BY DEF ViewVerdict, View, Token!View
<1>3. \A i \in 1..Len(script) : Takes(script[i], Only(st), k, 1, Only(st), k)
  BY <1>1, <1>2, ViewTakes
<1>4. Carries(script, Only(st), k, Only(st), k)
  BY <1>1, <1>3, CarriesAll
<1> QED
  BY <1>4 DEF script

\* A result and its upper word.
LEMMA WholeCarries ==
  ASSUME gate = "arithmetic", NEW st, Field("STATE") \in DOMAIN st, NEW k, NEW method, NEW ok, NEW w0, NEW w1,
         Answered3(Token!Result(method), ok, w0, w1)
  PROVE  /\ Carries(Whole(method, ok, w0, w1), Only(st), k, Only(st), k)
         /\ ok = 1 => Carries(High(method, w1), Only(st), k, Only(st), k)
<1>1. LET parts == << <<"Ok", ok>>, <<"W0", w0>>, <<"W1", w1>> >> IN
      Len(parts) = 3 /\ \A i \in 1..3 : Token!Result(method)[parts[i][1]] = parts[i][2]
  BY DEF Answered3
<1>2. LET parts == << <<"Ok", ok>>, <<"W1", w1>> >> IN
      Len(parts) = 2 /\ \A i \in 1..2 : Token!Result(method)[parts[i][1]] = parts[i][2]
  BY DEF Answered3
<1>3. Carries(Answers(method, << <<"Ok", ok>>, <<"W0", w0>>, <<"W1", w1>> >>), Only(st), k, Only(st), k)
  BY <1>1, AnswersCarry
<1>4. Carries(Answers(method, << <<"Ok", ok>>, <<"W1", w1>> >>), Only(st), k, Only(st), k)
  BY <1>2, AnswersCarry
<1> QED
  BY <1>3, <1>4 DEF Whole, High

\* A result that is not representable.
LEMMA TooLargeCarries ==
  ASSUME gate = "arithmetic", NEW st, Field("STATE") \in DOMAIN st, NEW k, NEW method,
         Token!Result(method).Ok = 0
  PROVE  Carries(NotRepresentable(method), Only(st), k, Only(st), k)
<1>1. LET parts == << <<"Ok", 0>> >> IN
      Len(parts) = 1 /\ \A i \in 1..1 : Token!Result(method)[parts[i][1]] = parts[i][2]
  OBVIOUS
<1>2. Carries(Answers(method, << <<"Ok", 0>> >>), Only(st), k, Only(st), k)
  BY <1>1, AnswersCarry
<1> QED
  BY <1>2 DEF NotRepresentable

\* token_arithmetic.py: every sum, difference and product it expects is the one the contract computes.
LEMMA ArithmeticCarries ==
  ASSUME gate = "arithmetic"
  PROVE  \E c2, k2 : Carries(TokenArithmeticScript, Only(Empty), NoKeys, c2, k2)
<1> DEFINE r == Run(Empty, "initialize", 0)
           st == r.storage
           c == Only(st)
<1>1. r.verdict = "ok" /\ Field("STATE") \in DOMAIN st
  BY PureStarts
<1>2. Carries(Deployed(0), Only(Empty), NoKeys, Only(r.storage), NoKeys)
  BY <1>1, DeployedCarries
<1> HIDE DEF r
<1>3. Carries(Deployed(0), Only(Empty), NoKeys, c, NoKeys)
  BY <1>2
<1> HIDE DEF st
<1>4. Ones = Token!MaxWord
  BY DEF Ones, WordOf, Token!MaxWord, Token!Word
<1>5. /\ Carries(<< Remembers >>, c, NoKeys, c, st)
      /\ Carries(<< Unchanged >>, c, st, c, st)
  BY KeysTake, CarriesOne
<1>6. /\ Carries(Whole("addCarry", 1, 0, 1), c, st, c, st)
      /\ Carries(Whole("addOverflow", 0, 0, 0), c, st, c, st)
      /\ Carries(High("addHigh", Ones - 1), c, st, c, st)
  BY <1>1, <1>4, AdditionsAnswer, WholeCarries
<1>7. /\ Carries(Whole("subBorrow", 1, Ones, 0), c, st, c, st)
      /\ Carries(Whole("subUnderflow", 0, Ones, Ones), c, st, c, st)
      /\ Carries(High("subHigh", 1), c, st, c, st)
  BY <1>1, <1>4, SubtractionsAnswer, WholeCarries
<1>8. /\ Carries(Whole("mulFactorZero", 1, 0, 0), c, st, c, st)
      /\ Carries(Whole("mulTokenZero", 1, 0, 0), c, st, c, st)
      /\ Carries(Whole("mulMixed", 1, 2, 2), c, st, c, st)
      /\ Carries(Whole("mulU64Square", 1, 1, Ones - 1), c, st, c, st)
      /\ Carries(High("mulMaxOne", Ones), c, st, c, st)
  BY <1>1, <1>4, ProductsAnswer, WholeCarries
<1>9. /\ Carries(High("mulHighFit", Ones), c, st, c, st)
      /\ Carries(Whole("mulExactMax", 1, Ones, Ones), c, st, c, st)
      /\ Carries(Whole("mulCarryBoundary", 1, (Half - 1) * Half, Ones), c, st, c, st)
  BY <1>1, <1>4, ProductsAnswer, WholeCarries
<1>10. /\ Carries(NotRepresentable("mulMaxTwo"), c, st, c, st)
       /\ Carries(NotRepresentable("mulCarryOverflow"), c, st, c, st)
  BY <1>1, ProductsAnswer, TooLargeCarries
<1> HIDE DEF c
<1> DEFINE a == Deployed(0) \o << Remembers >> \o Whole("addCarry", 1, 0, 1) \o Whole("addOverflow", 0, 0, 0)
                  \o High("addHigh", Ones - 1)
           b == a \o Whole("subBorrow", 1, Ones, 0) \o Whole("subUnderflow", 0, Ones, Ones) \o High("subHigh", 1)
           d == b \o Whole("mulFactorZero", 1, 0, 0) \o Whole("mulTokenZero", 1, 0, 0)
                  \o Whole("mulMixed", 1, 2, 2) \o Whole("mulU64Square", 1, 1, Ones - 1) \o High("mulMaxOne", Ones)
           e == d \o NotRepresentable("mulMaxTwo") \o High("mulHighFit", Ones)
                  \o Whole("mulExactMax", 1, Ones, Ones) \o NotRepresentable("mulCarryOverflow")
                  \o Whole("mulCarryBoundary", 1, (Half - 1) * Half, Ones) \o << Unchanged >>
<1>11. TokenArithmeticScript = e
  BY DEF TokenArithmeticScript
<1>12. Carries(a, Only(Empty), NoKeys, c, st)
  BY <1>3, <1>5, <1>6, CarriesJoins
<1> HIDE DEF a
<1>13. Carries(b, Only(Empty), NoKeys, c, st)
  BY <1>7, <1>12, CarriesJoins
<1> HIDE DEF b
<1>14. Carries(d, Only(Empty), NoKeys, c, st)
  BY <1>8, <1>13, CarriesJoins
<1> HIDE DEF d
<1>15. Carries(e, Only(Empty), NoKeys, c, st)
  BY <1>5, <1>9, <1>10, <1>14, CarriesJoins
<1> HIDE DEF e
<1> QED
  BY <1>11, <1>15

\* A view of NearMemory that the gate expects to answer.
LEMMA BufferViewTakes ==
  ASSUME gate = "memory", NEW st, Field("STATE") \in DOMAIN st, NEW k, NEW method, NEW arg, NEW returns,
         Memory!Verdict(method, arg) = "ok", Memory!View(method, arg) = returns
  PROVE  Takes(Views(method, arg, returns), Only(st), k, 1, Only(st), k)
<1>1. ViewVerdict(method, arg) = "ok" /\ View(st, method, arg) = returns
  BY DEF ViewVerdict, View
<1> QED
  BY <1>1, ViewTakes

\* A view of NearMemory that the gate expects to fail.
LEMMA BufferTrapCarries ==
  ASSUME gate = "memory", ArenaRoomy, NEW st, Field("STATE") \in DOMAIN st, NEW k,
         NEW method \in {"outOfBounds", "staleHandle", "wrongCapacity", "doubleBegin"}
  PROVE  Carries(ViewFails(method), Only(st), k, Only(st), k)
<1>1. ViewVerdict(method, 0) = "trap"
  BY MemoryTraps DEF ViewVerdict
<1> QED
  BY <1>1, FailureCarries

\* The memory gate: what it expects of the buffers is what the contract's arena does.
LEMMA MemoryCarries ==
  ASSUME gate = "memory", ArenaRoomy
  PROVE  \E c2, k2 : Carries(MemoryScript, Only(Empty), NoKeys, c2, k2)
<1> DEFINE r == Run(Empty, "initialize", 0)
           st == r.storage
           c == Only(st)
           k == NoKeys
<1>1. r.verdict = "ok" /\ Field("STATE") \in DOMAIN st
  BY PureStarts
<1>2. Carries(Deployed(0), Only(Empty), k, c, k)
  BY <1>1, DeployedCarries
<1> HIDE DEF r, st
<1>3. \A value \in Nat :
        /\ Takes(Views("roundTrip", value, value), c, k, 1, c, k)
        /\ Takes(Views("startsZero", value, 0), c, k, 1, c, k)
        /\ Takes(Views("growAndReuse", value, value), c, k, 1, c, k)
  BY <1>1, MemoryAnswers, BufferViewTakes
<1>4. /\ Carries(ViewFails("outOfBounds"), c, k, c, k)
      /\ Carries(ViewFails("staleHandle"), c, k, c, k)
      /\ Carries(ViewFails("wrongCapacity"), c, k, c, k)
      /\ Carries(ViewFails("doubleBegin"), c, k, c, k)
  BY <1>1, BufferTrapCarries
<1> HIDE DEF c, k
<1> DEFINE answers == << Views("roundTrip", 1, 1), Views("roundTrip", 12, 12), Views("startsZero", 0, 0),
                         Views("startsZero", 0, 0), Views("growAndReuse", 7, 7), Views("growAndReuse", 99, 99) >>
<1>5. /\ Len(answers) = 6
      /\ answers[1] = Views("roundTrip", 1, 1) /\ answers[2] = Views("roundTrip", 12, 12)
      /\ answers[3] = Views("startsZero", 0, 0) /\ answers[4] = Views("startsZero", 0, 0)
      /\ answers[5] = Views("growAndReuse", 7, 7) /\ answers[6] = Views("growAndReuse", 99, 99)
  OBVIOUS
<1> HIDE DEF answers
<1>6. Carries(answers, c, k, c, k)
  <2>1. \A i \in 1..Len(answers) : Takes(answers[i], c, k, 1, c, k)
    BY <1>3, <1>5
  <2> QED
    BY <1>5, <2>1, CarriesAll
<1>7. Carries(Deployed(0) \o answers, Only(Empty), k, c, k)
  BY <1>2, <1>6, CarriesJoins
<1>8. Carries(Deployed(0) \o answers \o ViewFails("outOfBounds") \o ViewFails("staleHandle")
                \o ViewFails("wrongCapacity") \o ViewFails("doubleBegin"), Only(Empty), k, c, k)
  BY <1>4, <1>7, CarriesJoins
<1> QED
  BY <1>8 DEF MemoryScript, answers, k

\* Steps taken one after the other.
LEMMA CarriesEach ==
  ASSUME NEW script, Len(script) \in Nat, NEW cs, NEW ks,
         \A i \in 1..Len(script) : Takes(script[i], cs[i], ks[i], 1, cs[i + 1], ks[i + 1])
  PROVE  Carries(script, cs[1], ks[1], cs[Len(script) + 1], ks[Len(script) + 1])
<1> DEFINE beyond == Len(script) + 1
<1>1. 1..beyond \subseteq 1..beyond /\ 1 \in 1..beyond /\ beyond \in 1..beyond
  OBVIOUS
<1>2. \A i \in (1..beyond) \ {beyond} : i + 1 \in 1..beyond /\ i \in 1..Len(script)
  OBVIOUS
<1>3. \A i \in (1..beyond) \ {beyond} :
        \E n \in Nat \ {0} :
          i + n \in 1..beyond /\ Takes(script[i], cs[i], ks[i], n, cs[i + n], ks[i + n])
  <2> SUFFICES ASSUME NEW i \in (1..beyond) \ {beyond}
               PROVE  /\ 1 \in Nat \ {0} /\ i + 1 \in 1..beyond
                      /\ Takes(script[i], cs[i], ks[i], 1, cs[i + 1], ks[i + 1])
    OBVIOUS
  <2> QED
    BY <1>2
<1>4. Line(script, 1..beyond, cs, ks, cs[1], ks[1], cs[beyond], ks[beyond])
  BY <1>1, <1>3 DEF Line
<1> QED
  BY <1>4 DEF Carries

\* Two steps.
LEMMA CarriesTwo ==
  ASSUME NEW a, NEW b, NEW c0, NEW k0, NEW c1, NEW k1, NEW c2, NEW k2,
         Takes(a, c0, k0, 1, c1, k1), Takes(b, c1, k1, 1, c2, k2)
  PROVE  Carries(<<a, b>>, c0, k0, c2, k2)
<1> DEFINE script == <<a, b>>  cs == <<c0, c1, c2>>  ks == <<k0, k1, k2>>
<1>1. Len(script) = 2 /\ script[1] = a /\ script[2] = b
  OBVIOUS
<1>2. cs[1] = c0 /\ cs[2] = c1 /\ cs[3] = c2 /\ ks[1] = k0 /\ ks[2] = k1 /\ ks[3] = k2
  OBVIOUS
<1> HIDE DEF script, cs, ks
<1>3. Takes(script[1], cs[1], ks[1], 1, cs[1 + 1], ks[1 + 1]) /\ Takes(script[2], cs[2], ks[2], 1, cs[2 + 1], ks[2 + 1])
  BY <1>1, <1>2
<1>4. \A i \in 1..Len(script) : Takes(script[i], cs[i], ks[i], 1, cs[i + 1], ks[i + 1])
  BY <1>1, <1>3
<1>5. Carries(script, cs[1], ks[1], cs[Len(script) + 1], ks[Len(script) + 1])
  <2>1. Len(script) \in Nat
    BY <1>1
  <2> QED
    BY <1>4, <2>1, CarriesEach, Zenon
<1>6. Carries(script, c0, k0, c2, k2)
  BY <1>1, <1>2, <1>5
<1> QED
  BY <1>6 DEF script

\* The two fields that NearJsonBooleanMutation writes before it encodes its answer.
BothKept(st) ==
  /\ {Field("STATE"), Field("left"), Field("right")} \subseteq DOMAIN st
  /\ st[Field("left")] = 11 /\ st[Field("right")] = 22

\* json_boolean_mutation.py: a discriminant that is neither 0 nor 1 leaves the fields of the call before.
LEMMA BooleanCarries ==
  ASSUME gate = "boolean"
  PROVE  \E c2, k2 : Carries(JsonBooleanScript, Only(Empty), NoKeys, c2, k2)
<1> DEFINE k == NoKeys
           keys == {Field("STATE"), Field("left"), Field("right")}
           r == Run(Empty, "initialize", 0)
<1>1. /\ Single!left = Field("left") /\ Single!right = Field("right")
      /\ Field("STATE") # Field("left") /\ Field("STATE") # Field("right") /\ Field("left") # Field("right")
  BY DEF Single!left, Single!right, Single!Field, Field
<1>2. r.verdict = "ok" /\ keys \subseteq DOMAIN r.storage
  <2> DEFINE initials == [x \in {Single!left, Single!right} |-> IF x = Single!left THEN 1 ELSE 2]
  <2>1. r = initialize(Empty, initials)
    BY DEF Run, Single!BooleanRun, Single!initialize, initialize, Single!When, When, Single!Field, Field,
           Single!Returns, Returns, Single!Trap, Trap
  <2>2. DOMAIN Empty = {} /\ DOMAIN initials = {Single!left, Single!right}
    BY DEF Empty
  <2> HIDE DEF initials
  <2> QED
    BY <1>1, <2>1, <2>2 DEF initialize, When, Returns
<1>3. Carries(Deployed(0), Only(Empty), k, Only(r.storage), k)
  BY <1>2, DeployedCarries
<1> HIDE DEF r
<1>4. ASSUME NEW st, keys \subseteq DOMAIN st, NEW arg \in {0, 1}
      PROVE  \E st2 : BothKept(st2) /\ Takes(Sends("setChecked", arg, arg), Only(st), k, 1, Only(st2), k)
  <2> DEFINE written == write(write(st, Field("left"), 11), Field("right"), 22)
  <2>1. Run(st, "setChecked", arg) = Returns(written, arg)
    BY <1>1, <1>4 DEF Run, Single!BooleanRun, Single!setChecked, Single!When, Single!Returns, Returns,
                      Single!write, write
  <2>2. BothKept(written)
    BY <1>1, <1>4 DEF BothKept, write
  <2> HIDE DEF written
  <2>3. Returns(written, arg).verdict = "ok" /\ Returns(written, arg).storage = written
        /\ Returns(written, arg).value = arg
    BY DEF Returns
  <2>4. Takes(Sends("setChecked", arg, arg), Only(st), k, 1, Only(Returns(written, arg).storage), k)
    BY <2>1, <2>3, SendsTakes
  <2> QED
    BY <2>2, <2>3, <2>4
<1>5. ASSUME NEW st, BothKept(st)
      PROVE  /\ keys \subseteq DOMAIN st
             /\ Carries(BothFields, Only(st), k, Only(st), k)
             /\ Carries(Try(<< Sends("setChecked", 2, Anything) >>), Only(st), k, Only(st), k)
  <2>1. Field("STATE") \in DOMAIN st /\ keys \subseteq DOMAIN st
    BY <1>5 DEF BothKept
  <2>2. /\ ViewVerdict("left", 0) = "ok" /\ View(st, "left", 0) = 11
        /\ ViewVerdict("right", 0) = "ok" /\ View(st, "right", 0) = 22
    BY <1>1, <1>5 DEF ViewVerdict, View, Single!BooleanView, BothKept
  <2>3. /\ Takes(Views("left", 0, 11), Only(st), k, 1, Only(st), k)
        /\ Takes(Views("right", 0, 22), Only(st), k, 1, Only(st), k)
    BY <2>1, <2>2, ViewTakes
  <2>4. Carries(BothFields, Only(st), k, Only(st), k)
    BY <2>3, CarriesTwo DEF BothFields
  <2>5. Run(st, "setChecked", 2) = Trap(st)
    BY <2>1 DEF Run, Single!BooleanRun, Single!setChecked, Single!When, Single!Trap, Trap
  <2> QED
    BY <2>1, <2>4, <2>5, TrapCarries
<1>6. PICK s1 : BothKept(s1) /\ Takes(Sends("setChecked", 0, 0), Only(r.storage), k, 1, Only(s1), k)
  BY <1>2, <1>4 DEF r
<1>7. PICK s2 : BothKept(s2) /\ Takes(Sends("setChecked", 1, 1), Only(s1), k, 1, Only(s2), k)
  BY <1>4, <1>5, <1>6
<1>8. PICK s3 : BothKept(s3) /\ Takes(Sends("setChecked", 0, 0), Only(s2), k, 1, Only(s3), k)
  BY <1>4, <1>5, <1>7
<1>9. PICK s4 : BothKept(s4) /\ Takes(Sends("setChecked", 1, 1), Only(s3), k, 1, Only(s4), k)
  BY <1>4, <1>5, <1>8
<1>10. Carries(<< Sends("setChecked", 0, 0), Sends("setChecked", 1, 1) >>, Only(s2), k, Only(s4), k)
  BY <1>8, <1>9, CarriesTwo
<1> DEFINE first == Deployed(0) \o << Sends("setChecked", 0, 0) >> \o BothFields \o << Sends("setChecked", 1, 1) >>
<1>11. Carries(first, Only(Empty), k, Only(s2), k)
  <2>1. /\ Carries(<< Sends("setChecked", 0, 0) >>, Only(r.storage), k, Only(s1), k)
        /\ Carries(<< Sends("setChecked", 1, 1) >>, Only(s1), k, Only(s2), k)
    BY <1>6, <1>7, CarriesOne
  <2> QED
    BY <1>3, <1>5, <1>6, <1>7, <2>1, CarriesJoins
<1> HIDE DEF first
<1>12. Carries(first \o BothFields \o BothFields \o Try(<< Sends("setChecked", 2, Anything) >>) \o BothFields
                 \o << Sends("setChecked", 0, 0), Sends("setChecked", 1, 1) >>, Only(Empty), k, Only(s4), k)
  BY <1>5, <1>7, <1>10, <1>11, CarriesJoins
<1> QED
  BY <1>12 DEF JsonBooleanScript, first

\* The storage of NearTokenStorage: no token, or the token v, after a call that answered m.
TokenLacked(st) ==
  {Field("STATE"), Field("marker")} \subseteq DOMAIN st /\ {TokenKey, Single!absentKey} \cap DOMAIN st = {}

TokenKept(st, v, m) ==
  /\ {Field("STATE"), Field("marker"), TokenKey} \subseteq DOMAIN st /\ Single!absentKey \notin DOMAIN st
  /\ st[TokenKey] = v /\ st[Field("marker")] = m

\* The keys of the contract and of the gate.
LEMMA TokenKeys ==
  /\ Single!tokenKey = TokenKey /\ Single!Field("marker") = Field("marker")
  /\ TokenKey # Single!absentKey /\ Field("marker") # Single!absentKey /\ Field("marker") # TokenKey
  /\ Field("STATE") # Field("marker") /\ Field("STATE") # TokenKey /\ Field("STATE") # Single!absentKey
BY DEF Single!tokenKey, TokenKey, Single!Field, Field, Single!absentKey

\* The entries that write the token, whatever is there.
LEMMA TokenPuts ==
  ASSUME gate = "tokens", NEW st, NEW m,
         \/ m = 0 /\ TokenLacked(st)
         \/ m = 1 /\ \E v0, m0 : TokenKept(st, v0, m0),
         NEW k, NEW method, NEW arg, NEW v,
         \/ method = "putMixed" /\ v = Stored(16, 3, 4)
         \/ method = "putMax" /\ v = Stored(16, 9, 9)
         \/ method = "putZero" /\ v = Stored(16, 0, 0)
         \/ method = "putShort" /\ v = Stored(8, 0, 0)
         \/ method = "putOversized" /\ v = Stored(arg, 0, 0)
  PROVE  \E st2 : TokenKept(st2, v, m) /\ Takes(Sends(method, arg, m), Only(st), k, 1, Only(st2), k)
<1> DEFINE written == write(write(st, TokenKey, v), Field("marker"), m)
           r == Returns(written, m)
<1>1. /\ {Field("STATE"), Field("marker")} \subseteq DOMAIN st /\ Single!absentKey \notin DOMAIN st
      /\ Single!status(st, TokenKey) = m
  BY DEF TokenLacked, TokenKept, Single!status
<1>2. Run(st, method, arg) = Single!PutToken(st, v)
  BY <1>1 DEF Run, Single!TokensRun, Stored, Single!Codec!Token, Single!Codec!MalformedToken
<1>3. Single!PutToken(st, v) = r
  BY <1>1, TokenKeys DEF Single!PutToken, Single!Marked, Single!write, write, Single!Returns, Returns
<1>4. TokenKept(written, v, m)
  BY <1>1, TokenKeys DEF TokenKept, write
<1>5. r.verdict = "ok" /\ r.storage = written /\ r.value = m
  BY DEF Returns
<1> HIDE DEF written, r
<1>6. Takes(Sends(method, arg, m), Only(st), k, 1, Only(r.storage), k)
  <2>1. method # "scheduleYield"
    OBVIOUS
  <2> QED
    BY <1>2, <1>3, <1>5, <2>1, SendsTakes
<1> QED
  BY <1>4, <1>5, <1>6

\* remove, where a token is and where none is.
LEMMA TokenRemoves ==
  ASSUME gate = "tokens", NEW st, NEW m,
         \/ m = 0 /\ TokenLacked(st)
         \/ m = 1 /\ \E v0, m0 : TokenKept(st, v0, m0),
         NEW k
  PROVE  \E st2 : TokenLacked(st2) /\ Takes(Sends("remove", 0, m), Only(st), k, 1, Only(st2), k)
<1> DEFINE written == write(remove(st, TokenKey), Field("marker"), m)
           r == Returns(written, m)
<1>1. /\ {Field("STATE"), Field("marker")} \subseteq DOMAIN st /\ Single!absentKey \notin DOMAIN st
      /\ Single!status(st, TokenKey) = m
  BY DEF TokenLacked, TokenKept, Single!status
<1>2. Run(st, "remove", 0) = r
  BY <1>1, TokenKeys DEF Run, Single!TokensRun, Single!Marked, Single!write, write, Single!Returns, Returns,
                         Single!remove, remove
<1>3. TokenLacked(written)
  BY <1>1, TokenKeys DEF TokenLacked, write, remove
<1>4. r.verdict = "ok" /\ r.storage = written /\ r.value = m
  BY DEF Returns
<1> HIDE DEF written, r
<1>5. Takes(Sends("remove", 0, m), Only(st), k, 1, Only(r.storage), k)
  BY <1>2, <1>4, SendsTakes
<1> QED
  BY <1>3, <1>4, <1>5

\* What the views answer of a token that is there, and where none is.
LEMMA TokenViews ==
  ASSUME gate = "tokens", NEW st, NEW k
  PROVE  /\ TokenLacked(st) =>
              /\ Takes(Views("has", 0, 0), Only(st), k, 1, Only(st), k)
              /\ Takes(Views("readStatus", 0, 0), Only(st), k, 1, Only(st), k)
              /\ Takes(Views("readLength", 0, 0), Only(st), k, 1, Only(st), k)
              /\ Takes(Views("readFits", 0, 1), Only(st), k, 1, Only(st), k)
              /\ Carries(Fallback, Only(st), k, Only(st), k)
              /\ Takes(Lacks({TokenKey}), Only(st), k, 1, Only(st), k)
         /\ \A size \in Nat : \A w0, w1, m :
              TokenKept(st, Stored(size, w0, w1), m) =>
                /\ Takes(Views("has", 0, 1), Only(st), k, 1, Only(st), k)
                /\ Takes(Views("get", 0, m), Only(st), k, 1, Only(st), k)
                /\ Takes(Views("staleAfterMissW0", 0, 90), Only(st), k, 1, Only(st), k)
                /\ Takes(One(TokenKey, Stored(size, w0, w1)), Only(st), k, 1, Only(st), k)
                /\ Carries(Described(size, IF size <= 16 THEN 1 ELSE 0), Only(st), k, Only(st), k)
                /\ size = 16 => Carries(Decoded(w0, w1), Only(st), k, Only(st), k)
                /\ size # 16 => Carries(Fallback, Only(st), k, Only(st), k)
<1>1. \A method, arg : ViewVerdict(method, arg) = "ok" /\ View(st, method, arg) = Single!TokensView(st, method, arg)
  BY DEF ViewVerdict, View
<1>2. ASSUME Field("STATE") \in DOMAIN st, NEW method, NEW returns, Single!TokensView(st, method, 0) = returns
      PROVE  Takes(Views(method, 0, returns), Only(st), k, 1, Only(st), k)
  BY <1>1, <1>2, ViewTakes
<1>3. ASSUME TokenLacked(st)
      PROVE  /\ Takes(Views("has", 0, 0), Only(st), k, 1, Only(st), k)
             /\ Takes(Views("readStatus", 0, 0), Only(st), k, 1, Only(st), k)
             /\ Takes(Views("readLength", 0, 0), Only(st), k, 1, Only(st), k)
             /\ Takes(Views("readFits", 0, 1), Only(st), k, 1, Only(st), k)
             /\ Carries(Fallback, Only(st), k, Only(st), k)
             /\ Takes(Lacks({TokenKey}), Only(st), k, 1, Only(st), k)
  <2>1. Field("STATE") \in DOMAIN st /\ TokenKey \notin DOMAIN st
    BY <1>3 DEF TokenLacked
  <2>2. /\ Single!TokensView(st, "has", 0) = 0 /\ Single!TokensView(st, "readStatus", 0) = 0
        /\ Single!TokensView(st, "readLength", 0) = 0 /\ Single!TokensView(st, "readFits", 0) = 1
        /\ Single!TokensView(st, "readW0", 0) = 90 /\ Single!TokensView(st, "readW1", 0) = 90
    BY <2>1, TokenKeys DEF Single!TokensView, Single!status, Single!TokenLength, Single!TokenWord, Single!Codec!word
  <2>3. /\ Takes(Views("readW0", 0, 90), Only(st), k, 1, Only(st), k)
        /\ Takes(Views("readW1", 0, 90), Only(st), k, 1, Only(st), k)
    BY <1>2, <2>1, <2>2
  <2>4. Carries(Fallback, Only(st), k, Only(st), k)
    BY <2>3, CarriesTwo DEF Fallback, Decoded
  <2>5. Takes(Lacks({TokenKey}), Only(st), k, 1, Only(st), k)
    BY <2>1, KeysMissed
  <2> QED
    BY <1>2, <2>1, <2>2, <2>4, <2>5
<1>4. ASSUME NEW size \in Nat, NEW w0, NEW w1, NEW m, TokenKept(st, Stored(size, w0, w1), m)
      PROVE  /\ Takes(Views("has", 0, 1), Only(st), k, 1, Only(st), k)
             /\ Takes(Views("get", 0, m), Only(st), k, 1, Only(st), k)
             /\ Takes(Views("staleAfterMissW0", 0, 90), Only(st), k, 1, Only(st), k)
             /\ Takes(One(TokenKey, Stored(size, w0, w1)), Only(st), k, 1, Only(st), k)
             /\ Carries(Described(size, IF size <= 16 THEN 1 ELSE 0), Only(st), k, Only(st), k)
             /\ size = 16 => Carries(Decoded(w0, w1), Only(st), k, Only(st), k)
             /\ size # 16 => Carries(Fallback, Only(st), k, Only(st), k)
  <2> DEFINE v == Stored(size, w0, w1)
             fits == IF size <= 16 THEN 1 ELSE 0
  <2>1. /\ Field("STATE") \in DOMAIN st /\ TokenKey \in DOMAIN st /\ Single!absentKey \notin DOMAIN st
        /\ st[TokenKey] = v /\ st[Field("marker")] = m
    BY <1>4 DEF TokenKept
  <2>2. v.length = size /\ v["w0"] = w0 /\ v["w1"] = w1
    BY DEF Stored
  <2> HIDE DEF v, fits
  <2>3. /\ Single!TokensView(st, "has", 0) = 1 /\ Single!TokensView(st, "readStatus", 0) = 1
        /\ Single!TokensView(st, "readLength", 0) = size /\ Single!TokensView(st, "get", 0) = m
        /\ Single!TokensView(st, "staleAfterMissW0", 0) = 90
    BY <2>1, <2>2, TokenKeys DEF Single!TokensView, Single!status, Single!TokenLength, Single!TokenWord,
                                 Single!Codec!word
  <2>4. Single!TokensView(st, "readFits", 0) = fits
    BY <2>1, <2>2, TokenKeys DEF Single!TokensView, Single!TokenLength, fits
  <2>5. /\ Single!TokensView(st, "readW0", 0) = IF size = 16 THEN w0 ELSE 90
        /\ Single!TokensView(st, "readW1", 0) = IF size = 16 THEN w1 ELSE 90
    BY <2>1, <2>2, TokenKeys DEF Single!TokensView, Single!TokenWord, Single!Codec!word
  <2>6. Takes(One(TokenKey, v), Only(st), k, 1, Only(st), k)
    BY <2>1, KeysFound
  <2>7. Carries(Described(size, fits), Only(st), k, Only(st), k)
    <3> DEFINE script == << Views("readStatus", 0, 1), Views("readLength", 0, size), Views("readFits", 0, fits) >>
    <3>1. /\ Len(script) = 3 /\ script[1] = Views("readStatus", 0, 1)
          /\ script[2] = Views("readLength", 0, size) /\ script[3] = Views("readFits", 0, fits)
      OBVIOUS
    <3>2. /\ Takes(Views("readStatus", 0, 1), Only(st), k, 1, Only(st), k)
          /\ Takes(Views("readLength", 0, size), Only(st), k, 1, Only(st), k)
          /\ Takes(Views("readFits", 0, fits), Only(st), k, 1, Only(st), k)
      BY <1>2, <2>1, <2>3, <2>4
    <3> HIDE DEF script
    <3>3. \A i \in 1..Len(script) : Takes(script[i], Only(st), k, 1, Only(st), k)
      BY <3>1, <3>2
    <3>4. Carries(script, Only(st), k, Only(st), k)
      BY <3>1, <3>3, CarriesAll
    <3> QED
      BY <3>4 DEF script, Described
  <2>8. ASSUME size = 16 PROVE Carries(Decoded(w0, w1), Only(st), k, Only(st), k)
    <3>1. /\ Takes(Views("readW0", 0, w0), Only(st), k, 1, Only(st), k)
          /\ Takes(Views("readW1", 0, w1), Only(st), k, 1, Only(st), k)
      BY <1>2, <2>1, <2>5, <2>8
    <3> QED
      BY <3>1, CarriesTwo DEF Decoded
  <2>9. ASSUME size # 16 PROVE Carries(Fallback, Only(st), k, Only(st), k)
    <3>1. /\ Takes(Views("readW0", 0, 90), Only(st), k, 1, Only(st), k)
          /\ Takes(Views("readW1", 0, 90), Only(st), k, 1, Only(st), k)
      BY <1>2, <2>1, <2>5, <2>9
    <3> QED
      BY <3>1, CarriesTwo DEF Fallback, Decoded
  <2>10. /\ Takes(Views("has", 0, 1), Only(st), k, 1, Only(st), k)
         /\ Takes(Views("get", 0, m), Only(st), k, 1, Only(st), k)
         /\ Takes(Views("staleAfterMissW0", 0, 90), Only(st), k, 1, Only(st), k)
    BY <1>2, <2>1, <2>3
  <2> QED
    BY <2>6, <2>7, <2>8, <2>9, <2>10 DEF v, fits
<1> QED
  BY <1>3, <1>4

\* Four steps, of which only the third changes what is stored.
LEMMA CarriesFour ==
  ASSUME NEW a, NEW b, NEW c, NEW d, NEW x, NEW y, NEW k,
         Takes(a, x, k, 1, x, k), Takes(b, x, k, 1, x, k), Takes(c, x, k, 1, y, k), Takes(d, y, k, 1, y, k)
  PROVE  Carries(<<a, b, c, d>>, x, k, y, k)
<1> DEFINE script == <<a, b, c, d>>  cs == <<x, x, x, y, y>>  ks == <<k, k, k, k, k>>
<1>1. Len(script) = 4 /\ script[1] = a /\ script[2] = b /\ script[3] = c /\ script[4] = d
  OBVIOUS
<1>2. /\ cs[1] = x /\ cs[2] = x /\ cs[3] = x /\ cs[4] = y /\ cs[5] = y
      /\ ks[1] = k /\ ks[2] = k /\ ks[3] = k /\ ks[4] = k /\ ks[5] = k
  OBVIOUS
<1> HIDE DEF script, cs, ks
<1>3. \A i \in 1..Len(script) : Takes(script[i], cs[i], ks[i], 1, cs[i + 1], ks[i + 1])
  BY <1>1, <1>2
<1>4. Len(script) \in Nat
  BY <1>1
<1>5. Carries(script, cs[1], ks[1], cs[Len(script) + 1], ks[Len(script) + 1])
  BY <1>3, <1>4, CarriesEach, Zenon
<1>6. Carries(script, x, k, y, k)
  BY <1>1, <1>2, <1>5
<1> QED
  BY <1>6 DEF script

\* Five steps, of which only the third and the last change what is stored.
LEMMA CarriesFive ==
  ASSUME NEW a, NEW b, NEW c, NEW d, NEW e, NEW x, NEW y, NEW z, NEW k,
         Takes(a, x, k, 1, x, k), Takes(b, x, k, 1, x, k), Takes(c, x, k, 1, y, k), Takes(d, y, k, 1, y, k),
         Takes(e, y, k, 1, z, k)
  PROVE  Carries(<<a, b, c, d, e>>, x, k, z, k)
<1> DEFINE script == <<a, b, c, d, e>>  cs == <<x, x, x, y, y, z>>  ks == <<k, k, k, k, k, k>>
<1>1. Len(script) = 5 /\ script[1] = a /\ script[2] = b /\ script[3] = c /\ script[4] = d /\ script[5] = e
  OBVIOUS
<1>2. /\ cs[1] = x /\ cs[2] = x /\ cs[3] = x /\ cs[4] = y /\ cs[5] = y /\ cs[6] = z
      /\ ks[1] = k /\ ks[2] = k /\ ks[3] = k /\ ks[4] = k /\ ks[5] = k /\ ks[6] = k
  OBVIOUS
<1> HIDE DEF script, cs, ks
<1>3. \A i \in 1..Len(script) : Takes(script[i], cs[i], ks[i], 1, cs[i + 1], ks[i + 1])
  BY <1>1, <1>2
<1>4. Len(script) \in Nat
  BY <1>1
<1>5. Carries(script, cs[1], ks[1], cs[Len(script) + 1], ks[Len(script) + 1])
  BY <1>3, <1>4, CarriesEach, Zenon
<1>6. Carries(script, x, k, z, k)
  BY <1>1, <1>2, <1>5
<1> QED
  BY <1>6 DEF script

\* token_storage.py: what it reads back is what was written, or the fallback, and what was removed is gone.
LEMMA TokensCarry ==
  ASSUME gate = "tokens"
  PROVE  \E c2, k2 : Carries(TokenStorageScript, Only(Empty), NoKeys, c2, k2)
<1> DEFINE k == NoKeys
           r == Run(Empty, "initialize", 0)
           Unmoved(script, st) == Carries(script, Only(st), k, Only(st), k)
<1>1. r.verdict = "ok" /\ TokenLacked(r.storage)
  <2> DEFINE initials == [x \in {Field("marker")} |-> 0]
  <2>1. r = initialize(Empty, initials)
    BY TokenKeys DEF Run, Single!TokensRun, Single!initialize, initialize, Single!When, When, Single!Field, Field,
           Single!Returns, Returns, Single!Trap, Trap
  <2>2. DOMAIN Empty = {} /\ DOMAIN initials = {Field("marker")}
    BY DEF Empty
  <2> HIDE DEF initials
  <2> QED
    BY <2>1, <2>2, TokenKeys DEF initialize, When, Returns, TokenLacked
<1>2. PICK s0 : TokenLacked(s0) /\ Carries(Deployed(0), Only(Empty), k, Only(s0), k)
  BY <1>1, DeployedCarries
<1> HIDE DEF k, r
<1>3. PICK s1 : TokenKept(s1, Stored(16, 3, 4), 0) /\ Takes(Sends("putMixed", 0, 0), Only(s0), k, 1, Only(s1), k)
  BY <1>2, TokenPuts
<1>4. PICK s2 : TokenKept(s2, Stored(16, 9, 9), 1) /\ Takes(Sends("putMax", 0, 1), Only(s1), k, 1, Only(s2), k)
  BY <1>3, TokenPuts
<1>5. PICK s3 : TokenKept(s3, Stored(8, 0, 0), 1) /\ Takes(Sends("putShort", 0, 1), Only(s2), k, 1, Only(s3), k)
  BY <1>4, TokenPuts
<1>6. PICK s4 : TokenKept(s4, Stored(20, 0, 0), 1) /\ Takes(Sends("putOversized", 20, 1), Only(s3), k, 1, Only(s4), k)
  BY <1>5, TokenPuts
<1>7. PICK s5 : TokenKept(s5, Stored(16, 0, 0), 1) /\ Takes(Sends("putZero", 0, 1), Only(s4), k, 1, Only(s5), k)
  BY <1>6, TokenPuts
<1>8. PICK s6 : TokenLacked(s6) /\ Takes(Sends("remove", 0, 1), Only(s5), k, 1, Only(s6), k)
  BY <1>7, TokenRemoves
<1>9. PICK s7 : TokenLacked(s7) /\ Takes(Sends("remove", 0, 0), Only(s6), k, 1, Only(s7), k)
  BY <1>8, TokenRemoves
<1> DEFINE missing == << Views("has", 0, 0), Views("readStatus", 0, 0), Views("readLength", 0, 0), Views("readFits", 0, 1) >>
           mixed == << One(TokenKey, Stored(16, 3, 4)), Views("staleAfterMissW0", 0, 90),
                       Sends("putMax", 0, 1), Views("get", 0, 1) >>
           max == << One(TokenKey, Stored(16, 9, 9)), Sends("putShort", 0, 1) >>
           oversized == << One(TokenKey, Stored(20, 0, 0)), Sends("putZero", 0, 1) >>
           zero == << Views("has", 0, 1), One(TokenKey, Stored(16, 0, 0)),
                      Sends("remove", 0, 1), Lacks({TokenKey}), Sends("remove", 0, 0) >>
<1>10. Carries(missing, Only(s0), k, Only(s0), k)
  BY <1>2, TokenViews, CarriesFour
<1>11. Carries(mixed, Only(s1), k, Only(s2), k)
  BY <1>3, <1>4, TokenViews, CarriesFour
<1>12. Carries(max, Only(s2), k, Only(s3), k)
  BY <1>4, <1>5, TokenViews, CarriesTwo
<1>13. Carries(oversized, Only(s4), k, Only(s5), k)
  BY <1>6, <1>7, TokenViews, CarriesTwo
<1>14. Carries(zero, Only(s5), k, Only(s7), k)
  BY <1>7, <1>8, <1>9, TokenViews, CarriesFive
<1> HIDE DEF missing, mixed, max, oversized, zero
<1>15. Unmoved(Fallback, s0) /\ Unmoved(Decoded(3, 4), s1) /\ Unmoved(Decoded(9, 9), s2)
  BY <1>2, <1>3, <1>4, TokenViews
<1>16. Unmoved(Described(8, 1), s3) /\ Unmoved(Fallback, s3) /\ Unmoved(Described(20, 0), s4) /\ Unmoved(Fallback, s4)
  <2>1. (IF 8 <= 16 THEN 1 ELSE 0) = 1 /\ (IF 20 <= 16 THEN 1 ELSE 0) = 0
    OBVIOUS
  <2> QED
    BY <1>5, <1>6, <2>1, TokenViews
<1>17. Unmoved(Decoded(0, 0), s5) /\ Unmoved(Fallback, s7)
  BY <1>7, <1>9, TokenViews
<1> DEFINE a == Deployed(0) \o missing \o Fallback \o << Sends("putMixed", 0, 0) >> \o Decoded(3, 4)
           b == a \o mixed \o Decoded(9, 9) \o max
           d == b \o Described(8, 1) \o Fallback \o << Sends("putOversized", 20, 1) >>
           e == d \o Described(20, 0) \o Fallback \o oversized \o Decoded(0, 0) \o zero \o Fallback
<1>18. Carries(a, Only(Empty), k, Only(s1), k)
  BY <1>2, <1>3, <1>10, <1>15, CarriesOne, CarriesJoins
<1> HIDE DEF a
<1>19. Carries(b, Only(Empty), k, Only(s3), k)
  BY <1>11, <1>12, <1>15, <1>18, CarriesJoins
<1> HIDE DEF b
<1>20. Carries(d, Only(Empty), k, Only(s4), k)
  <2>1. Carries(<< Sends("putOversized", 20, 1) >>, Only(s3), k, Only(s4), k)
    BY <1>6, CarriesOne
  <2>2. Carries(b \o Described(8, 1), Only(Empty), k, Only(s3), k)
    BY <1>16, <1>19, CarriesJoins
  <2>3. Carries(b \o Described(8, 1) \o Fallback, Only(Empty), k, Only(s3), k)
    BY <1>16, <2>2, CarriesJoins
  <2> QED
    BY <2>1, <2>3, CarriesJoins
<1> HIDE DEF d
<1>21. Carries(e, Only(Empty), k, Only(s7), k)
  BY <1>13, <1>14, <1>16, <1>17, <1>20, CarriesJoins
<1>22. TokenStorageScript = e
  BY DEF TokenStorageScript, a, b, d, missing, mixed, max, oversized, zero
<1> HIDE DEF e
<1> QED
  BY <1>21, <1>22 DEF k

\* The records that the host charges beside the contract's own fields.
Records(st) == {key \in DOMAIN st : key[1] = "key"}

\* What the host charges for a record.
RecordCost(st, key) == key[2] + st[key] + Single!PerRecord

\* The first key of some, and the sum of what their records cost.
First(keys) == CHOOSE key \in keys : TRUE

Sums(st, keys, sum) ==
  sum = [t \in SUBSET keys |-> IF t = {} THEN 0 ELSE RecordCost(st, First(t)) + sum[t \ {First(t)}]]

\* The usage is the account and the sum of its records.
LEMMA UsageSums ==
  ASSUME NEW st
  PROVE  Single!storageUsage(st) = Single!PerAccount + (CHOOSE sum : Sums(st, Records(st), sum))[Records(st)]
BY DEF Single!storageUsage, Single!MapThenSumSet, Single!MapThenFoldSet, Sums, Records, RecordCost, First

\* What is charged for no record, and for one.
LEMMA UsageIs ==
  ASSUME NEW st
  PROVE  /\ Records(st) = {} => Single!storageUsage(st) = Single!PerAccount
         /\ \A key : Records(st) = {key} /\ RecordCost(st, key) \in Nat =>
                       Single!storageUsage(st) = Single!PerAccount + RecordCost(st, key)
<1> DEFINE keys == Records(st)
           sum == CHOOSE f : Sums(st, keys, f)
<1>1. Single!storageUsage(st) = Single!PerAccount + sum[keys]
  BY UsageSums
<1>2. Single!PerAccount \in Nat
  BY DEF Single!PerAccount
<1> HIDE DEF keys, sum
<1>3. ASSUME keys = {} PROVE sum[keys] = 0
  <2> DEFINE f == [t \in SUBSET keys |-> 0]
  <2>1. \A t \in SUBSET keys : t = {}
    BY <1>3
  <2>2. f = [t \in SUBSET keys |-> IF t = {} THEN 0 ELSE RecordCost(st, First(t)) + f[t \ {First(t)}]]
    BY <2>1
  <2> HIDE DEF f
  <2>3. Sums(st, keys, f)
    BY <2>2 DEF Sums
  <2>4. Sums(st, keys, sum)
    BY <2>3 DEF sum
  <2> QED
    BY <1>3, <2>4 DEF Sums
<1>4. ASSUME NEW key, keys = {key}, RecordCost(st, key) \in Nat PROVE sum[keys] = RecordCost(st, key)
  <2> DEFINE f == [t \in SUBSET keys |-> IF t = {} THEN 0 ELSE RecordCost(st, key)]
  <2>1. \A t \in SUBSET keys : t # {} => t = keys /\ First(t) = key /\ t \ {First(t)} = {}
    BY <1>4 DEF First
  <2>2. {} \in SUBSET keys /\ keys \in SUBSET keys /\ keys # {}
    BY <1>4
  <2>3. f[{}] = 0 /\ \A t \in SUBSET keys : t # {} => f[t] = RecordCost(st, First(t)) + f[t \ {First(t)}]
    BY <1>4, <2>1, <2>2
  <2>4. \A t \in SUBSET keys : f[t] = IF t = {} THEN 0 ELSE RecordCost(st, First(t)) + f[t \ {First(t)}]
    BY <2>3
  <2>5. f = [t \in SUBSET keys |-> f[t]]
    OBVIOUS
  <2> HIDE DEF f
  <2>6. f = [t \in SUBSET keys |-> IF t = {} THEN 0 ELSE RecordCost(st, First(t)) + f[t \ {First(t)}]]
    BY <2>4, <2>5
  <2>7. Sums(st, keys, f)
    BY <2>6 DEF Sums
  <2>8. Sums(st, keys, sum)
    BY <2>7 DEF sum
  <2>9. \A t \in SUBSET keys : sum[t] = IF t = {} THEN 0 ELSE RecordCost(st, First(t)) + sum[t \ {First(t)}]
    BY <2>8 DEF Sums
  <2>10. sum[{}] = 0 /\ sum[keys] = RecordCost(st, key) + sum[{}]
    BY <2>1, <2>2, <2>9
  <2> QED
    BY <1>4, <2>10
<1> QED
  BY <1>1, <1>2, <1>3, <1>4 DEF keys

\* The storage of NearStorageEconomics with no record, or with one of the size.
Fields(st) == {Field("STATE"), Field("marker")} \subseteq DOMAIN st

NoRecord(st) == Fields(st) /\ Records(st) = {}

OneRecord(st, key, size) == Fields(st) /\ Records(st) = {key} /\ st[key] = size

\* What the contract reads of its usage.
LEMMA RecordUsage ==
  ASSUME NEW st
  PROVE  /\ NoRecord(st) => Single!storageUsage(st) = 200
         /\ \A n \in Nat, size \in Nat :
              OneRecord(st, <<"key", n>>, size) => Single!storageUsage(st) = 240 + n + size
<1>1. ASSUME NEW n \in Nat, NEW size \in Nat, OneRecord(st, <<"key", n>>, size)
      PROVE  Single!storageUsage(st) = 240 + n + size
  <2> DEFINE key == <<"key", n>>
  <2>1. Records(st) = {key} /\ st[key] = size /\ key[2] = n
    BY <1>1 DEF OneRecord
  <2> HIDE DEF key
  <2>2. RecordCost(st, key) = n + size + 40
    BY <2>1 DEF RecordCost, Single!PerRecord
  <2>3. Single!storageUsage(st) = Single!PerAccount + RecordCost(st, key)
    BY <2>1, <2>2, UsageIs
  <2> QED
    BY <2>2, <2>3 DEF Single!PerAccount
<1> QED
  BY <1>1, UsageIs DEF NoRecord, Single!PerAccount

\* The record is written, or removed, and then the answer kept: the other keys stay.
LEMMA RecordKept ==
  ASSUME NEW st, Fields(st), NEW n, NEW m
  PROVE  /\ \A size :
              \/ NoRecord(st)
              \/ \E size0 : OneRecord(st, <<"key", n>>, size0)
              => /\ OneRecord(write(st, <<"key", n>>, size), <<"key", n>>, size)
                 /\ OneRecord(write(write(st, <<"key", n>>, size), Field("marker"), m), <<"key", n>>, size)
         /\ \/ NoRecord(st)
            \/ \E size0 : OneRecord(st, <<"key", n>>, size0)
            => /\ NoRecord(remove(st, <<"key", n>>))
               /\ NoRecord(write(remove(st, <<"key", n>>), Field("marker"), m))
<1> DEFINE key == <<"key", n>>
           mark == Field("marker")
<1>1. /\ key[1] = "key" /\ Field("STATE")[1] # "key" /\ mark[1] # "key"
      /\ key # mark /\ key # Field("STATE") /\ mark # Field("STATE")
  BY DEF Field
<1> HIDE DEF key, mark
<1>2. ASSUME NEW size, NoRecord(st) \/ \E size0 : OneRecord(st, key, size0)
      PROVE  OneRecord(write(st, key, size), key, size) /\ OneRecord(write(write(st, key, size), mark, m), key, size)
  <2>1. Records(st) \subseteq {key}
    BY <1>2 DEF NoRecord, OneRecord
  <2> DEFINE one == write(st, key, size)
             two == write(one, mark, m)
  <2>2. /\ DOMAIN one = DOMAIN st \cup {key} /\ DOMAIN two = DOMAIN st \cup {key, mark}
        /\ one[key] = size /\ two[key] = size
    BY <1>1 DEF write
  <2> HIDE DEF one, two
  <2>3. Records(one) = {key} /\ Records(two) = {key}
    BY <1>1, <2>1, <2>2 DEF Records
  <2>4. Fields(one) /\ Fields(two)
    BY <2>2 DEF Fields
  <2> QED
    BY <2>2, <2>3, <2>4 DEF OneRecord, one, two
<1>3. ASSUME NoRecord(st) \/ \E size0 : OneRecord(st, key, size0)
      PROVE  NoRecord(remove(st, key)) /\ NoRecord(write(remove(st, key), mark, m))
  <2>1. Records(st) \subseteq {key}
    BY <1>3 DEF NoRecord, OneRecord
  <2> DEFINE one == remove(st, key)
             two == write(one, mark, m)
  <2>2. DOMAIN one = DOMAIN st \ {key} /\ DOMAIN two = (DOMAIN st \ {key}) \cup {mark}
    BY DEF write, remove
  <2> HIDE DEF one, two
  <2>3. Records(one) = {} /\ Records(two) = {}
    BY <1>1, <2>1, <2>2 DEF Records
  <2>4. Fields(one) /\ Fields(two)
    BY <1>1, <2>2 DEF Fields, mark
  <2> QED
    BY <2>3, <2>4 DEF NoRecord, one, two
<1> QED
  BY <1>2, <1>3 DEF key, mark

\* What an entry that writes a record adds to the usage.
Grows(st, method, n, size, m) ==
  /\ {n, size, m} \subseteq Nat /\ m < 1000
  /\ \/ n = 3 /\ size = 4 /\ method \in {"insertShort4", "replaceShort4"}
     \/ n = 3 /\ size = 8 /\ method = "growShort8"
     \/ n = 7 /\ size = 4 /\ method = "insertLong4"
  /\ \/ NoRecord(st) /\ m = 40 + n + size
     \/ \E size0 \in Nat : OneRecord(st, <<"key", n>>, size0) /\ size = size0 + m

\* The same for an entry that removes one.
Shrinks(st, method, n, m) ==
  /\ {n, m} \subseteq Nat /\ m < 1000
  /\ \/ n = 3 /\ method = "removeShort"
     \/ n = 7 /\ method = "removeLong"
     \/ n = 2 /\ method = "removeMissing"
  /\ \/ NoRecord(st) /\ m = 0
     \/ \E size \in Nat : OneRecord(st, <<"key", n>>, size) /\ m = 40 + n + size

\* The entries that write a record answer what it grew by.
LEMMA RecordWrites ==
  ASSUME gate = "economics", NEW st, NEW k, NEW n, NEW size, NEW m, NEW method, Grows(st, method, n, size, m)
  PROVE  \E st2 : OneRecord(st2, <<"key", n>>, size) /\ Takes(Sends(method, 0, m), Only(st), k, 1, Only(st2), k)
<1> USE DEF Grows
<1> DEFINE key == <<"key", n>>
           one == write(st, key, size)
           two == write(one, Field("marker"), m)
           r == Returns(two, m)
<1>1. Fields(st) /\ Field("STATE") \in DOMAIN st
  BY DEF NoRecord, OneRecord, Fields
<1>2. OneRecord(one, key, size) /\ OneRecord(two, key, size)
  BY <1>1, RecordKept
<1>3. method \notin {"deploy", "create", "initialize", "scheduleYield"} /\ key \in {Single!shortKey, Single!longKey}
  BY DEF Single!shortKey, Single!longKey
<1> DEFINE grown == (Single!storageUsage(one) + Single!Wrap - Single!storageUsage(st)) % Single!Wrap
<1>4. Run(st, method, 0) = Single!Grown(st, one)
  BY <1>1, <1>3 DEF Run, Single!EconomicsRun, Single!shortKey, Single!longKey, Single!write, write
<1>5. Single!Grown(st, one) = Returns(write(one, Field("marker"), grown), grown)
  BY DEF Single!Grown, Single!Marked, Single!Returns, Returns, Single!write, write, Single!Field, Field
<1>6. grown = m
  <2>1. Single!storageUsage(one) = 240 + n + size
    BY <1>2, RecordUsage
  <2>2. CASE NoRecord(st) /\ m = 40 + n + size
    <3>1. Single!storageUsage(st) = 200
      BY <2>2, RecordUsage
    <3> QED
      BY <2>1, <2>2, <3>1 DEF Single!Wrap
  <2>3. ASSUME NEW size0 \in Nat, OneRecord(st, key, size0), size = size0 + m
        PROVE  grown = m
    <3>1. Single!storageUsage(st) = 240 + n + size0
      BY <2>3, RecordUsage
    <3> QED
      BY <2>1, <2>3, <3>1 DEF Single!Wrap
  <2> QED
    BY <2>2, <2>3
<1> HIDE DEF grown, one
<1>7. r.verdict = "ok" /\ r.storage = two /\ r.value = m
  BY DEF Returns
<1>8. Run(st, method, 0) = r
  BY <1>4, <1>5, <1>6
<1> HIDE DEF two, r
<1>9. Takes(Sends(method, 0, m), Only(st), k, 1, Only(r.storage), k)
  BY <1>3, <1>7, <1>8, SendsTakes
<1> QED
  BY <1>2, <1>7, <1>9

\* The entries that remove a record answer what it took.
LEMMA RecordRemoves ==
  ASSUME gate = "economics", NEW st, NEW k, NEW n, NEW m, NEW method, Shrinks(st, method, n, m)
  PROVE  \E st2 : NoRecord(st2) /\ Takes(Sends(method, 0, m), Only(st), k, 1, Only(st2), k)
<1> USE DEF Shrinks
<1> DEFINE key == <<"key", n>>
           one == remove(st, key)
           two == write(one, Field("marker"), m)
           r == Returns(two, m)
<1>1. Fields(st) /\ Field("STATE") \in DOMAIN st
  BY DEF NoRecord, OneRecord, Fields
<1>2. NoRecord(one) /\ NoRecord(two)
  BY <1>1, RecordKept
<1>3. method \notin {"deploy", "create", "initialize", "scheduleYield"}
  OBVIOUS
<1> DEFINE taken == (Single!storageUsage(st) + Single!Wrap - Single!storageUsage(one)) % Single!Wrap
<1>4. Run(st, method, 0) = Single!Reclaimed(st, one)
  BY <1>1, <1>3 DEF Run, Single!EconomicsRun, Single!shortKey, Single!longKey, Single!missingKey,
                    Single!remove, remove
<1>5. Single!Reclaimed(st, one) = Returns(write(one, Field("marker"), taken), taken)
  BY DEF Single!Reclaimed, Single!Marked, Single!Returns, Returns, Single!write, write, Single!Field, Field
<1>6. taken = m
  <2>1. Single!storageUsage(one) = 200
    BY <1>2, RecordUsage
  <2>2. CASE NoRecord(st) /\ m = 0
    <3>1. Single!storageUsage(st) = 200
      BY <2>2, RecordUsage
    <3> QED
      BY <2>1, <2>2, <3>1 DEF Single!Wrap
  <2>3. ASSUME NEW size \in Nat, OneRecord(st, key, size), m = 40 + n + size
        PROVE  taken = m
    <3>1. Single!storageUsage(st) = 240 + n + size
      BY <2>3, RecordUsage
    <3> QED
      BY <2>1, <2>3, <3>1 DEF Single!Wrap
  <2> QED
    BY <2>2, <2>3
<1> HIDE DEF taken, one
<1>7. r.verdict = "ok" /\ r.storage = two /\ r.value = m
  BY DEF Returns
<1>8. Run(st, method, 0) = r
  BY <1>4, <1>5, <1>6
<1> HIDE DEF two, r
<1>9. Takes(Sends(method, 0, m), Only(st), k, 1, Only(r.storage), k)
  BY <1>3, <1>7, <1>8, SendsTakes
<1> QED
  BY <1>2, <1>7, <1>9

\* storage_economics.py: each answer is what the host charged or gave back, and in the end all is back.
LEMMA EconomicsCarries ==
  ASSUME gate = "economics"
  PROVE  \E c2, k2 : Carries(StorageEconomicsScript, Only(Empty), NoKeys, c2, k2)
<1> DEFINE k == NoKeys
           r == Run(Empty, "initialize", 0)
           short == <<"key", 3>>
           long == <<"key", 7>>
<1>1. r.verdict = "ok" /\ NoRecord(r.storage)
  <2> DEFINE initials == [x \in {Field("marker")} |-> 0]
             there == {Field("marker"), Field("STATE")}
  <2>1. r = initialize(Empty, initials)
    BY DEF Run, Single!EconomicsRun, Single!initialize, initialize, Single!When, When, Single!Field, Field,
           Single!Returns, Returns, Single!Trap, Trap
  <2>2. DOMAIN Empty = {} /\ DOMAIN initials = {Field("marker")}
    BY DEF Empty
  <2> HIDE DEF initials
  <2>3. r.verdict = "ok" /\ DOMAIN r.storage = there
    BY <2>1, <2>2 DEF initialize, When, Returns
  <2>4. \A key \in there : key[1] # "key"
    BY DEF Field
  <2> QED
    BY <2>3, <2>4 DEF NoRecord, Fields, Records
<1>2. PICK s0 : NoRecord(s0) /\ Carries(Deployed(0), Only(Empty), k, Only(s0), k)
  BY <1>1, DeployedCarries
<1> HIDE DEF k, r
<1>3. PICK s1 : OneRecord(s1, short, 4) /\ Takes(Sends("insertShort4", 0, 47), Only(s0), k, 1, Only(s1), k)
  <2>1. Grows(s0, "insertShort4", 3, 4, 47)
    BY <1>2 DEF Grows
  <2> QED
    BY <2>1, RecordWrites
<1>4. PICK s2 : OneRecord(s2, short, 4) /\ Takes(Sends("replaceShort4", 0, 0), Only(s1), k, 1, Only(s2), k)
  <2>1. Grows(s1, "replaceShort4", 3, 4, 0)
    BY <1>3 DEF Grows
  <2> QED
    BY <2>1, RecordWrites
<1>5. PICK s3 : OneRecord(s3, short, 8) /\ Takes(Sends("growShort8", 0, 4), Only(s2), k, 1, Only(s3), k)
  <2>1. Grows(s2, "growShort8", 3, 8, 4)
    BY <1>4 DEF Grows
  <2> QED
    BY <2>1, RecordWrites
<1>6. PICK s4 : NoRecord(s4) /\ Takes(Sends("removeShort", 0, 51), Only(s3), k, 1, Only(s4), k)
  <2>1. Shrinks(s3, "removeShort", 3, 51)
    BY <1>5 DEF Shrinks
  <2> QED
    BY <2>1, RecordRemoves
<1>7. PICK s5 : NoRecord(s5) /\ Takes(Sends("removeMissing", 0, 0), Only(s4), k, 1, Only(s5), k)
  <2>1. Shrinks(s4, "removeMissing", 2, 0)
    BY <1>6 DEF Shrinks
  <2> QED
    BY <2>1, RecordRemoves
<1>8. PICK s6 : OneRecord(s6, long, 4) /\ Takes(Sends("insertLong4", 0, 51), Only(s5), k, 1, Only(s6), k)
  <2>1. Grows(s5, "insertLong4", 7, 4, 51)
    BY <1>7 DEF Grows
  <2> QED
    BY <2>1, RecordWrites
<1>9. PICK s7 : NoRecord(s7) /\ Takes(Sends("removeLong", 0, 51), Only(s6), k, 1, Only(s7), k)
  <2>1. Shrinks(s6, "removeLong", 7, 51)
    BY <1>8 DEF Shrinks
  <2> QED
    BY <2>1, RecordRemoves
<1>10. ASSUME NEW st, NoRecord(st) PROVE Takes(Views("usage", 0, Baseline), Only(st), k, 1, Only(st), k)
  <2>1. ViewVerdict("usage", 0) = "ok" /\ View(st, "usage", 0) = Baseline
    BY <1>10, RecordUsage DEF ViewVerdict, View, Single!EconomicsView, Baseline
  <2> QED
    BY <1>10, <2>1, ViewTakes DEF NoRecord, Fields
<1> DEFINE script == << Views("usage", 0, Baseline), Views("usage", 0, Baseline), Sends("insertShort4", 0, Short4),
             Sends("replaceShort4", 0, 0), Sends("growShort8", 0, 4), Sends("removeShort", 0, Short4 + 4),
             Sends("removeMissing", 0, 0), Sends("insertLong4", 0, Short4 + 4),
             Sends("removeLong", 0, Short4 + 4), Views("usage", 0, Baseline) >>
           cs == << Only(s0), Only(s0), Only(s0), Only(s1), Only(s2), Only(s3), Only(s4), Only(s5), Only(s6),
                    Only(s7), Only(s7) >>
           ks == [i \in 1..11 |-> k]
<1>11. /\ Len(script) = 10
       /\ script[1] = Views("usage", 0, Baseline) /\ script[2] = Views("usage", 0, Baseline)
       /\ script[3] = Sends("insertShort4", 0, 47) /\ script[4] = Sends("replaceShort4", 0, 0)
       /\ script[5] = Sends("growShort8", 0, 4) /\ script[6] = Sends("removeShort", 0, 51)
       /\ script[7] = Sends("removeMissing", 0, 0) /\ script[8] = Sends("insertLong4", 0, 51)
       /\ script[9] = Sends("removeLong", 0, 51) /\ script[10] = Views("usage", 0, Baseline)
  BY DEF Short4
<1>12. /\ cs[1] = Only(s0) /\ cs[2] = Only(s0) /\ cs[3] = Only(s0) /\ cs[4] = Only(s1) /\ cs[5] = Only(s2)
       /\ cs[6] = Only(s3) /\ cs[7] = Only(s4) /\ cs[8] = Only(s5) /\ cs[9] = Only(s6) /\ cs[10] = Only(s7)
       /\ cs[11] = Only(s7)
  OBVIOUS
<1>13. \A i \in 1..11 : ks[i] = k
  OBVIOUS
<1> HIDE DEF cs, ks
<1>14. StorageEconomicsScript = Deployed(0) \o script
  BY DEF StorageEconomicsScript
<1> HIDE DEF script
<1>15. \A i \in 1..10 : Takes(script[i], cs[i], k, 1, cs[i + 1], k)
  <2>1. /\ Takes(script[1], cs[1], k, 1, cs[2], k) /\ Takes(script[2], cs[2], k, 1, cs[3], k)
        /\ Takes(script[3], cs[3], k, 1, cs[4], k) /\ Takes(script[4], cs[4], k, 1, cs[5], k)
        /\ Takes(script[5], cs[5], k, 1, cs[6], k) /\ Takes(script[6], cs[6], k, 1, cs[7], k)
        /\ Takes(script[7], cs[7], k, 1, cs[8], k) /\ Takes(script[8], cs[8], k, 1, cs[9], k)
        /\ Takes(script[9], cs[9], k, 1, cs[10], k) /\ Takes(script[10], cs[10], k, 1, cs[11], k)
    BY <1>2, <1>3, <1>4, <1>5, <1>6, <1>7, <1>8, <1>9, <1>10, <1>11, <1>12
  <2>2. \A i \in 1..10 : i = 1 \/ i = 2 \/ i = 3 \/ i = 4 \/ i = 5 \/ i = 6 \/ i = 7 \/ i = 8 \/ i = 9 \/ i = 10
    OBVIOUS
  <2> QED
    BY <2>1, <2>2
<1>16. \A i \in 1..Len(script) : Takes(script[i], cs[i], ks[i], 1, cs[i + 1], ks[i + 1])
  BY <1>11, <1>13, <1>15
<1>17. Carries(script, cs[1], ks[1], cs[Len(script) + 1], ks[Len(script) + 1])
  <2>1. Len(script) \in Nat
    BY <1>11
  <2> QED
    BY <1>16, <2>1, CarriesEach, Zenon
<1>18. Carries(script, Only(s0), k, Only(s7), k)
  BY <1>11, <1>12, <1>13, <1>17
<1> QED
  BY <1>2, <1>14, <1>18, CarriesJoins DEF k

\* The gates of the contracts that compute or keep single values: token_arithmetic.py for every width
\* of the words, memory.py for every arena with room for two of the largest buffers, token_storage.py,
\* storage_economics.py and json_boolean_mutation.py.  Nothing they assert of their contracts fails, unless
\* the node lost something.
THEOREM SingleValueGatesPass ==
  Spec => [](\/ gate \in {"arithmetic", "tokens", "economics", "boolean"}
             \/ gate = "memory" /\ ArenaRoomy
             => OnlyTransportFails)
<1> DEFINE Single5 == \/ gate \in {"arithmetic", "tokens", "economics", "boolean"}
                      \/ gate = "memory" /\ ArenaRoomy
           Passes == Single5 => OnlyTransportFails
<1>1. ((\E places, before, kept : Follows(places, before, kept)) => (verdict = "failed" => lost)) => Passes
  <2> SUFFICES ASSUME Single5
               PROVE  \E places, before, kept : Follows(places, before, kept)
    BY DEF OnlyTransportFails
  <2>1. Flat /\ gate # "yield"
    BY DEF Flat
  <2>2. \E c2, k2 : Carries(Script[gate], Only(Empty), NoKeys, c2, k2)
    <3>1. /\ Script["arithmetic"] = TokenArithmeticScript /\ Script["memory"] = MemoryScript
          /\ Script["tokens"] = TokenStorageScript /\ Script["economics"] = StorageEconomicsScript
          /\ Script["boolean"] = JsonBooleanScript
      BY DEF Script
    <3>2. CASE gate = "arithmetic"
      BY <3>1, <3>2, ArithmeticCarries
    <3>3. CASE gate = "memory" /\ ArenaRoomy
      BY <3>1, <3>3, MemoryCarries
    <3>4. CASE gate = "tokens"
      BY <3>1, <3>4, TokensCarry
    <3>5. CASE gate = "economics"
      BY <3>1, <3>5, EconomicsCarries
    <3>6. CASE gate = "boolean"
      BY <3>1, <3>6, BooleanCarries
    <3> QED
      BY <3>2, <3>3, <3>4, <3>5, <3>6
  <2> QED
    BY <2>1, <2>2, CarriesFollows
<1> HIDE DEF Single5, Passes
<1>2. Spec => []Passes
  BY <1>1, FollowingGatesPass, PTL
<1> QED
  BY <1>2 DEF Single5, Passes
=============================================================================
