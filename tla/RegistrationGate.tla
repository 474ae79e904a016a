---------------------------- MODULE RegistrationGate ----------------------------
(***************************************************************************)
(* The registration gate against its contracts: each is a step of          *)
(* NearStorageRegistration on the storage of its own account.              *)
(***************************************************************************)
EXTENDS SandboxClient

VARIABLES
  registries,  \* registries[a]: the storage of the contract on account a
  effects      \* the deposit, the transfer and the logs of the last transaction

registrationVars == <<registries, effects>>

Registry == INSTANCE NearStorageRegistration

Homes == {Contracts[i] : i \in DOMAIN Contracts} \cup {"add_overflow"}

NoEffects == [deposit |-> 0, transfer |-> <<>>, logs |-> <<>>]

RegistrationInit ==
  /\ registries = [a \in Homes |-> Empty]
  /\ effects = NoEffects

InstallsRegistry(tx, s) ==
  /\ s.method \in {"create", "deploy"}
  /\ effects' = NoEffects
  /\ Answered(tx, "ok", 0)
  /\ UNCHANGED registries

InitializesRegistry(tx, s) ==
  LET result == Registry!init(registries[s.account], s.arg.amount) IN
  /\ s.method = "initialize"
  /\ registries' = [registries EXCEPT ![s.account] = result.storage]
  /\ effects' = NoEffects
  /\ Answered(tx, result.verdict, 0)

\* A receipt that fails gives its deposit back.
Applied(account, deposit, result) ==
  /\ registries' = [registries EXCEPT ![account] = result.storage]
  /\ effects' = [deposit |-> IF result.verdict = "ok" THEN deposit ELSE 0,
                 transfer |-> result.transfer, logs |-> result.logs]

RegistryCall(tx, s) ==
  LET result == Registry!Run(registries[s.account], s.signer, s.method, s.arg) IN
  /\ s.method \notin {"create", "deploy", "initialize"}
  /\ Applied(s.account, s.arg.deposit, result)
  /\ Answered(tx, result.verdict, result.value)

RegistrationRuns(tx) ==
  LET s == Script[gate][tx.step] IN
  /\ gate = "registration"
  /\ Included(tx)
  /\ InstallsRegistry(tx, s) \/ InitializesRegistry(tx, s) \/ RegistryCall(tx, s)

RegistrationView(step) ==
  LET result == Registry!View(registries[step.account], step.method, step.arg) IN
  step.does = "view" /\ ViewAnswers(step, result.verdict, result.value)

RegistrationLooks(step) ==
  /\ gate = "registration"
  /\ \/ RegistrationView(step)
     \/ StateAnswers(step, registries[step.account])
     \/ Compared(step, "logs", effects.logs)
     \/ Compared(step, "receipts", effects.transfer)
  /\ UNCHANGED registrationVars

-----------------------------------------------------------------------------
\* The calls two accounts make of the first contract when the gate has passed.
Customers == {"short", "long"}

VisitedMethods ==
  {"storage_deposit", "storage_withdraw", "storage_unregister",
   "registerCaller", "unregisterCaller", "forceUnregisterCaller",
   "probeCaller", "probeCallerBalanceW0", "probeCallerBalanceW1"}

visit_registry ==
  /\ verdict = "passed" /\ gate = "registration"
  /\ \E caller, account \in Customers, method \in VisitedMethods, flag \in 0..1,
        deposit \in {0, 1, Total("short"), generous} :
       Applied("contract", deposit,
               Registry!Run(registries["contract"], caller, method, Request(account, flag, deposit)))
  /\ UNCHANGED <<clientVars, nodeVars, lost>>
==============================================================================
