------------------------------ MODULE SandboxGates ------------------------------
(***************************************************************************)
(* The gates of the sandbox suite: the client, one of its scripts, the     *)
(* node, and the contract the script deploys.                              *)
(***************************************************************************)
EXTENDS CollectionGates, LedgerGate, RegistrationGate

Init == CollectionInit /\ LedgerInit /\ RegistrationInit /\ \E g \in Gates : Start(g)

Asks(step) == access_key(step) \/ broadcast_tx_commit(step) \/ answer(step) \/ NotReached(step)

\* A request that is never answered.
Loses(step) == rpc_call_raises(step) \/ answer_not_read(step)

Looks(step) ==
  \/ /\ PlainView(step) \/ CounterView(step) \/ StateView(step) \/ YieldPoll(step)
     /\ UNCHANGED <<ledgerVars, registrationVars>>
  \/ LedgerLooks(step) /\ UNCHANGED <<collectionVars, registrationVars>>
  \/ RegistrationLooks(step) /\ UNCHANGED <<collectionVars, ledgerVars>>

contractVars == <<collectionVars, ledgerVars, registrationVars>>

Client ==
  \/ \E step \in CurrentStep :
       \/ (Asks(step) \/ Loses(step)) /\ UNCHANGED contractVars
       \/ Looks(step)
  \/ Finish /\ UNCHANGED contractVars

Executes ==
  \E tx \in pool :
    \/ CollectionRuns(tx) /\ UNCHANGED <<ledgerVars, registrationVars>>
    \/ LedgerRuns(tx) /\ UNCHANGED <<collectionVars, registrationVars>>
    \/ RegistrationRuns(tx) /\ UNCHANGED <<collectionVars, ledgerVars>>

Drops == (\E tx \in pool : dropped(tx)) /\ UNCHANGED contractVars

\* The receipts a transaction left behind.
Receipts ==
  \/ (receiver_answers \/ resolver_runs) /\ UNCHANGED <<collectionVars, registrationVars>>
  \/ (\E tx \in 1..Len(Script[gate]) : yield_times_out(tx)) /\ UNCHANGED <<ledgerVars, registrationVars>>

\* What others do once the gate is over.
Visited ==
  \/ visit /\ UNCHANGED <<ledgerVars, registrationVars>>
  \/ visit_registry /\ UNCHANGED <<collectionVars, ledgerVars>>

Next == Client \/ Executes \/ Drops \/ Receipts \/ Visited

vars == <<clientVars, nodeVars, lost, contractVars>>

\* The gate's process keeps running: every request is answered or times out.
Spec == Init /\ [][Next]_vars /\ WF_vars(Client)

-----------------------------------------------------------------------------
(***************************************************************************)
(* What a gate's verdict is worth.                                         *)
(***************************************************************************)

\* Where the script, the client and the node may stand: the poll of the yield gate never asks more
\* often than it may (yield.py, the loop of main).
TypeOK ==
  /\ gate \in Gates /\ pc \in 1..(Len(Script[gate]) + 1)
  /\ phase \in {"idle", "signed", "waiting"}
  /\ verdict \in {"running", "passed", "failed"}
  /\ polls \in 0..(Polls - 1)
  /\ \A tx \in pool : tx.step <= pc /\ tx.signer = Script[gate][tx.step].signer
  /\ lost \in BOOLEAN /\ mistaken \in BOOLEAN

\* The contracts do what the gates say: a gate fails only when a request, an answer or a
\* transaction was lost (every assertion of the sixteen scripts, against the contracts).
OnlyTransportFails == verdict = "failed" => lost

\* The calls of a gate whose failure it does not catch.
CallsOf(g) == {i \in 1..Len(Script[g]) : Script[g][i].does = "call" /\ Script[g][i].caught = 0}

\* The places, in the order of execution, of those that ran.
Ran == {n \in 1..Len(executed) : Script[gate][executed[n]].caught = 0}

\* A gate that passed has run every transaction it does not catch the failure of exactly once and
\* in its own order: sign_and_send takes a fresh nonce for each and repeats none.
PassedRanEachOnce ==
  verdict = "passed" =>
    /\ {executed[n] : n \in Ran} = CallsOf(gate)
    /\ \A m, n \in Ran : m < n => executed[m] < executed[n]

Home == chain["test.near"]

HasField(field) == Field(field) \in DOMAIN Home

\* The map of NearTreeMap stays sorted, dense and consistent with its lookup, whatever putKey,
\* putValue and removeTail the gate's or other callers interleave.
TreeIsSorted ==
  gate = "treemap" /\ HasField("length") => Tree!Sorted(Home)

\* The keys of NearVector are exactly the indices below its length: a pop leaves no key behind.
VectorKeysAreDense ==
  gate = "vector" /\ HasField("length") => Vector!Dense(Home)

\* The carries and the half-word products of NearToken compute the sum, the difference, the product
\* and the order of the numbers its two words stand for, and tell when there is none.
LimbsAreNumbers ==
  gate = "arithmetic" =>
    /\ Token!ComparesNumbers /\ Token!AddsNumbers
    /\ Token!SubtractsNumbers /\ Token!MultipliesNumbers

\* A call that uses its transient buffers in any order either traps or reads what it set itself:
\* nothing the instance held before, nothing of a buffer it has finished.
BuffersAreOwn == gate = "memory" => Memory!ReadsItsOwn

\* What the registry of storage s charges for the entry of a, if it holds one.
EntryPrice(s, a) == IF Registry!entry(a) \in DOMAIN s THEN Total(a) ELSE 0

\* The price of the entries a registry holds, of all the names of AccountLength.
Retained(s) ==
  EntryPrice(s, "short") + EntryPrice(s, "long") + EntryPrice(s, "malformed") + EntryPrice(s, "nonzero")
    + EntryPrice(s, "forced") + EntryPrice(s, "add_overflow") + EntryPrice(s, "missing")

Transfer == IF effects.transfer = <<>> THEN 0 ELSE effects.transfer[2]

\* The step is a call of a registry, not of its fixtures: one of the gate's, or of a customer later.
CallsRegistry(home) ==
  \/ verdict = "passed" /\ home = "contract"
  \/ /\ executed' # executed
     /\ LET s == Script[gate][Last(executed')] IN s.account = home /\ s.method \in VisitedMethods

\* A call of NearStorageRegistration keeps exactly the price of the entries it adds and gives back
\* exactly that of the entries it removes; beside it, it keeps at most the yocto of a call that
\* changes no registration.
RegistryKeepsItsCosts ==
  [][gate = "registration" =>
       \A home \in {h \in Homes : CallsRegistry(h)} :
         LET before == Retained(registries[home])
             after == Retained(registries'[home])
             paid == effects'.deposit + before
         IN  \/ paid = Transfer' + after
             \/ paid = Transfer' + after + 1 /\ before = after]_vars

\* Every gate ends, with whatever loses its requests: sign_and_send and the polls are bounded.
ScriptEnds == <>(verdict # "running")
==============================================================================
