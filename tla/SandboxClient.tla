----------------------------- MODULE SandboxClient -----------------------------
(***************************************************************************)
(* NearClient, the JSON-RPC client of the sandbox gates, and a gate that   *)
(* drives it: a script of calls, views and looks at the stored keys, run   *)
(* by one process against a node that executes the signed transactions.    *)
(*                                                                         *)
(* A call is three exchanges with the node: the access key is read, the    *)
(* transaction is signed with the next nonce and submitted, and the        *)
(* submission is answered once every receipt has run.  Any request or      *)
(* answer may be lost, and the node may forget a transaction it holds or   *)
(* run it after the client has given up: the client then raises            *)
(* NearRpcError, as it does when the outcome is not the expected one, and  *)
(* retries nothing.  What the contracts do is left to the modules that     *)
(* extend this one.                                                        *)
(***************************************************************************)
EXTENDS CollectionScripts, LedgerScript, RegistrationScript

CONSTANTS
  Gates,   \* the gates that may be run
  Polls,   \* how often a poll asks before it gives up
  Signers  \* the accounts that carry the client's key

ASSUME PollsAssumption == Polls \in Nat \ {0}

VARIABLES
  gate, pc, phase,
  polls,        \* how often the poll in progress has asked
  snapshot,     \* the stored keys the gate read to compare them later
  nonce,        \* of the transaction the client signed last
  pool,         \* the transactions the node holds and has not run
  accessNonce,  \* accessNonce[a]: the nonce of the last transaction of a that ran
  executed,     \* the steps whose transactions ran, in that order
  outcome,      \* of the last of them
  lost,         \* some request, answer or transaction was lost, or came too late
  mistaken,     \* a loss was taken for the rejection the gate was waiting for
  verdict

\* The sixteen gates of the sandbox suite that are modelled, by name.
Script ==
  [vector |-> VectorScript, lazy |-> LazyScript, treemap |-> TreeMapScript,
   lookup |-> LookupScript, storage |-> StorageScript, queue |-> QueueScript,
   iterable |-> IterableScript, counter |-> CounterScript, yield |-> YieldScript,
   arithmetic |-> TokenArithmeticScript, memory |-> MemoryScript,
   tokens |-> TokenStorageScript, economics |-> StorageEconomicsScript,
   boolean |-> JsonBooleanScript,
   ledger |-> FungibleLedgerScript, registration |-> StorageRegistrationScript]

\* A jump of an except clause stays in the script, and what it jumps over is the rest of its try.
WellNested(script) ==
  /\ Len(script) \in Nat
  /\ \A i \in 1..Len(script) :
       /\ script[i].caught \in 0..(Len(script) + 1 - i)
       /\ script[i].claims \in BOOLEAN
       /\ \A j \in (i + 1)..(i + script[i].caught - 1) : script[j].does = "call" => script[j].caught # 0

ASSUME ScriptsAssumption == Gates \subseteq DOMAIN Script /\ \A g \in Gates : WellNested(Script[g])

clientVars == <<gate, pc, phase, polls, snapshot, nonce, mistaken, verdict>>

nodeVars == <<pool, accessNonce, executed, outcome>>

\* The step the gate is at, if its script is not over.
CurrentStep ==
  IF verdict = "running" /\ pc <= Len(Script[gate]) THEN {Script[gate][pc]} ELSE {}

-----------------------------------------------------------------------------
(***************************************************************************)
(* The client.                                                             *)
(***************************************************************************)
Start(g) ==
  /\ gate = g /\ pc = 1 /\ phase = "idle" /\ polls = 0 /\ snapshot = [k \in {} |-> 0] /\ nonce = 0
  /\ pool = {} /\ accessNonce = [a \in Signers |-> 0] /\ executed = <<>>
  /\ outcome = [step |-> 0, verdict |-> "ok", value |-> 0]
  /\ lost = FALSE /\ mistaken = FALSE /\ verdict = "running"

Proceed(n) ==
  /\ pc' = pc + n
  /\ phase' = "idle"
  /\ polls' = 0
  /\ UNCHANGED <<gate, nonce, verdict>>

Advance == Proceed(1) /\ UNCHANGED <<snapshot, mistaken>>

\* An assertion of the gate fails, or an error nothing catches.
Fail == verdict' = "failed" /\ UNCHANGED <<gate, pc, phase, polls, snapshot, nonce, mistaken>>

\* sign_and_send tries again with a new nonce, the first time an answer is lost.
RaiseRetried(step, byTheContract) ==
  IF step.caught # 0
  THEN Proceed(step.caught) /\ UNCHANGED <<mistaken, snapshot>>
  ELSE IF ~byTheContract /\ phase = "waiting" /\ ~lost
  THEN phase' = "idle" /\ UNCHANGED <<gate, pc, polls, snapshot, nonce, mistaken, verdict>>
  ELSE Fail

\* NearRpcError.  The handlers do not ask what it was raised for.
Raise(step, byTheContract) ==
  \/ step.caught = 0 /\ Fail
  \/ /\ step.caught # 0
     /\ Proceed(step.caught)
     /\ mistaken' = (mistaken \/ (step.claims /\ ~byTheContract))
     /\ UNCHANGED snapshot

access_key(step) ==
  /\ phase = "idle" /\ step.does = "call"
  /\ nonce' = accessNonce[step.signer] + 1
  /\ phase' = "signed"
  /\ UNCHANGED <<gate, pc, polls, snapshot, mistaken, verdict, nodeVars, lost>>

broadcast_tx_commit(step) ==
  /\ phase = "signed"
  /\ pool' = pool \cup {[signer |-> step.signer, nonce |-> nonce, step |-> pc]}
  /\ phase' = "waiting"
  /\ UNCHANGED <<gate, pc, polls, snapshot, nonce, mistaken, verdict, accessNonce, executed, outcome, lost>>

Expected(step) == IF step.expects = "ok" THEN outcome.verdict = "ok" ELSE outcome.verdict # "ok"

Matches(step) ==
  /\ step.expects \in {"failure", outcome.verdict}
  /\ step.returns \in {Anything, outcome.value}

\* sign_and_send returns the outcome when it is the expected one, and the gate compares it.
answer(step) ==
  /\ phase = "waiting" /\ outcome.step = pc
  /\ \/ ~Expected(step) /\ Raise(step, TRUE)
     \/ Expected(step) /\ Matches(step) /\ Advance
     \/ Expected(step) /\ ~Matches(step) /\ Fail
  /\ UNCHANGED <<nodeVars, lost>>

\* A view that answers, with what the storage holds now, and one that panics.
ViewAnswers(step, found, value) ==
  /\ step.does = "view"
  /\ \/ found = "ok" /\ step.expects = "ok" /\ step.returns \in {Anything, value} /\ Advance
     \/ found = "ok" /\ step.expects = "ok" /\ step.returns \notin {Anything, value} /\ Fail
     \/ found = "ok" /\ step.expects # "ok" /\ Fail
     \/ found # "ok" /\ step.expects = "ok" /\ Raise(step, TRUE)
     \/ found # "ok" /\ step.expects \in {"failure", found} /\ Advance
     \/ found # "ok" /\ step.expects \notin {"ok", "failure", found} /\ Fail
  /\ UNCHANGED <<nodeVars, lost>>

PollAnswersForever(step, value) ==
  /\ step.does = "poll"
  /\ IF value = step.returns THEN Advance
     ELSE polls' = polls + 1 /\ UNCHANGED <<gate, pc, phase, snapshot, nonce, mistaken, verdict>>
  /\ UNCHANGED <<nodeVars, lost>>

\* A view repeated without a pause until it answers what the gate waits for.
PollAnswers(step, value) ==
  /\ step.does = "poll"
  /\ \/ value = step.returns /\ Advance
     \/ value # step.returns /\ polls + 1 = Polls /\ Fail
     \/ /\ value # step.returns /\ polls + 1 < Polls
        /\ polls' = polls + 1
        /\ UNCHANGED <<gate, pc, phase, snapshot, nonce, mistaken, verdict>>
  /\ UNCHANGED <<nodeVars, lost>>

Holds(step, stored) ==
  CASE step.does = "lacks" -> step.arg \cap DOMAIN stored = {}
    [] step.does = "stores" -> \A k \in DOMAIN step.arg : k \in DOMAIN stored /\ stored[k] = step.arg[k]
    [] step.does = "unchanged" -> stored = snapshot
    [] step.does = "same keys" -> DOMAIN stored = DOMAIN snapshot

\* view_state_values, to keep it or to compare it.
StateAnswers(step, stored) ==
  /\ \/ /\ step.does = "remembers"
        /\ snapshot' = stored
        /\ Proceed(1)
        /\ UNCHANGED mistaken
     \/ /\ step.does \in {"lacks", "stores", "unchanged", "same keys"}
        /\ IF Holds(step, stored) THEN Advance ELSE Fail
  /\ UNCHANGED <<nodeVars, lost>>

\* What the response, or the receipts it names, say of the last transaction.
Compared(step, what, actual) ==
  /\ step.does = what
  /\ IF step.arg = actual THEN Advance ELSE Fail
  /\ UNCHANGED <<nodeVars, lost>>

NotReached(step) == step.does = "unreachable" /\ Fail /\ UNCHANGED <<nodeVars, lost>>

Finish ==
  /\ verdict = "running" /\ pc > Len(Script[gate])
  /\ verdict' = "passed"
  /\ UNCHANGED <<gate, pc, phase, polls, snapshot, nonce, mistaken, nodeVars, lost>>

UnansweredUnlessSubmitted(step) ==
  step.does \notin {"unreachable", "logs"} /\ phase # "waiting"

\* Any request may stay without the answer it is due.
Unanswered(step) == step.does \notin {"unreachable", "logs"}

\* The connection is refused, or the node answers with an error of its own, such as that the
\* transaction is not final yet: rpc_call raises NearRpcError.
rpc_call_raises(step) ==
  /\ Unanswered(step)
  /\ lost' = TRUE
  /\ Raise(step, FALSE)
  /\ UNCHANGED nodeVars

\* No answer within the 60 seconds, or a broken one: the error is not the URLError that rpc_call
\* turns into NearRpcError, and no gate catches it.
answer_not_read(step) ==
  /\ Unanswered(step)
  /\ lost' = TRUE
  /\ Fail
  /\ UNCHANGED nodeVars

-----------------------------------------------------------------------------
(***************************************************************************)
(* The node.                                                               *)
(***************************************************************************)

\* A transaction runs if its nonce is above the last one its signer's key was used with.
Included(tx) ==
  /\ tx.nonce > accessNonce[tx.signer]
  /\ accessNonce' = [accessNonce EXCEPT ![tx.signer] = tx.nonce]
  /\ pool' = pool \ {tx}
  /\ executed' = Append(executed, tx.step)
  /\ UNCHANGED <<clientVars, lost>>

\* What the client will be told of it.
Answered(tx, found, value) ==
  outcome' = [step |-> tx.step, verdict |-> found, value |-> value]

\* One that expires, or whose nonce was used, is dropped.
dropped(tx) ==
  /\ pool' = pool \ {tx}
  /\ lost' = TRUE
  /\ UNCHANGED <<clientVars, accessNonce, executed, outcome>>
==============================================================================
