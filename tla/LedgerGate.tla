------------------------------- MODULE LedgerGate -------------------------------
(***************************************************************************)
(* The token gate against the token contract, its receivers, and the       *)
(* receipts of a transfer call: the node answers the client only when the  *)
(* last of them has run.                                                   *)
(***************************************************************************)
EXTENDS SandboxClient, TLC

CONSTANTS Pending, FreeCall

VARIABLES
  supply, balances, escrow, calls,   \* of the contract
  logs, refund,                      \* of the last transaction: its events, its detached transfer
  dual                               \* the receiver that counts its calls, redeployed on "partial"

tokenVars == <<supply, balances, escrow, calls>>

ledgerVars == <<tokenVars, logs, refund, dual>>

Receivers == {"partial", "full", "malformed", "failed"}

TokenAccounts == {Self, "caller", "unregistered", "absent", "missing", "aa", "bb", "max"} \cup Receivers

Cost == [a \in TokenAccounts |-> CASE a = Self -> 73 [] a = "max" -> 128 [] OTHER -> 66]

Contract == INSTANCE FungibleLedgerFixtures WITH
  Accounts <- TokenAccounts, U128Max <- Max128, TransferAmounts <- {}, FixtureAmounts <- {},
  Deposits <- {}, StorageCost <- Cost, Funding <- 1000, MaxEscrow <- 1000, Calls <- {"call"},
  NoCall <- FreeCall, SenderSeed <- 2, ReceiverSeed <- 7, CallerSeed <- Mixed, ShortSeed <- Two64 + 3,
  ScheduledAmount <- 10

LedgerInit ==
  /\ Contract!Init
  /\ logs = <<>> /\ refund = <<>>
  /\ dual = [installed |-> FALSE, calls |-> 0, lastMsgLength |-> 0]

-----------------------------------------------------------------------------
(***************************************************************************)
(* The calls that one receipt answers.                                     *)
(***************************************************************************)
Registers(s) == s.method = "storage_deposit" /\ s.arg.readable /\ Contract!storage_deposit(s.arg.to, s.arg.deposit)

Removes(s) ==
  /\ s.method = "storage_unregister" /\ s.arg.readable /\ s.arg.deposit = 1
  /\ Contract!storage_unregister(s.signer, s.arg.amount = 1)

Moves(s) ==
  /\ s.method = "ft_transfer" /\ s.arg.readable /\ s.arg.deposit = 1
  /\ Contract!ft_transfer(s.signer, s.arg.to, s.arg.amount)

Fixture(s) ==
  \/ s.method = "mint" /\ Contract!mint(s.arg.to, s.arg.amount)
  \/ s.method = "burn" /\ Contract!burn(s.arg.to, s.arg.amount)
  \/ s.method = "transferCallerToSelf" /\ Contract!transfer(s.signer, s.arg.to, s.arg.amount)
  \/ s.method = "fixturePutNoSupply" /\ Contract!fixturePutNoSupply(s.arg.to, s.arg.amount)
  \/ s.method = "fixtureRemoveViewAccounts" /\ Contract!fixtureRemoveViewAccounts("aa", "max")
  \/ s.method = "fixtureSetSupplyMax" /\ Contract!fixtureSetSupplyMax
  \/ s.method = "fixtureReset" /\ Contract!fixtureReset(s.signer)
  \/ s.method = "fixtureTransferCall" /\ Contract!fixtureTransferCall(s.signer)
  \/ s.method = "fixtureResolver" /\ Contract!fixtureResolver(s.arg[1], s.arg[2], s.arg[3])

\* Calls that are accepted and move nothing.
Stays(s) ==
  \/ s.method \in {"create", "deploy", "initialize"}
  \/ s.method \in {"mint", "burn"} /\ s.arg.amount = 0 /\ Contract!LoadedValid(s.arg.to)
  \/ /\ s.method = "transferCallerToSelf" /\ s.signer = s.arg.to
     /\ Contract!LoadedValid(s.signer) /\ Contract!CanSub(Contract!Loaded(s.signer), s.arg.amount)
  \/ /\ s.method = "storage_withdraw" /\ s.arg.deposit = 1 /\ s.arg.amount = 0
     /\ Contract!ReadWasValidPresent(s.signer)
  \/ /\ s.method = "storage_unregister" /\ s.arg.readable /\ s.arg.deposit = 1
     /\ Contract!ReadWasMissing(s.signer)

LogsOf(s) ==
  IF s.method = "ft_transfer" THEN <<_transfer_event(s.signer, s.arg.to, s.arg.amount)>>
  ELSE IF s.method = "storage_unregister" /\ Contract!ReadWasMissing(s.signer) THEN <<"not registered">>
  ELSE <<>>

RefundOf(s) ==
  IF s.method = "storage_deposit" /\ Contract!DepositRefund(s.arg.to, s.arg.deposit) > 0
  THEN <<s.signer, Contract!DepositRefund(s.arg.to, s.arg.deposit)>>
  ELSE IF s.method = "storage_unregister" /\ ~Contract!ReadWasMissing(s.signer)
  THEN <<s.signer, Cost[s.signer] + 1>>
  ELSE <<>>

\* The total that storage_deposit and storage_withdraw report; whether something was removed.
ValueOf(s) ==
  CASE s.method = "storage_deposit" -> Cost[s.arg.to]
    [] s.method = "storage_withdraw" -> Cost[s.signer]
    [] s.method = "storage_unregister" -> IF Contract!ReadWasMissing(s.signer) THEN 0 ELSE 1
    [] OTHER -> 0

InstallsDual(s) == s.account = "partial" /\ s.method = "initialize" /\ "partial" \in DOMAIN balances

TokenCall(tx, s) ==
  /\ \/ Registers(s) \/ Removes(s) \/ Moves(s) \/ Fixture(s)
     \/ Stays(s) /\ UNCHANGED tokenVars
  /\ logs' = LogsOf(s) /\ refund' = RefundOf(s)
  /\ dual' = IF InstallsDual(s) THEN [installed |-> TRUE, calls |-> 0, lastMsgLength |-> 0] ELSE dual
  /\ Answered(tx, "ok", ValueOf(s))

DualMax == Two64 - 1

DualSetMax(tx, s) ==
  /\ s.method = "fixtureSetCallsMax"
  /\ dual' = [dual EXCEPT !.calls = DualMax, !.lastMsgLength = 63]
  /\ logs' = <<>> /\ refund' = <<>>
  /\ Answered(tx, "ok", 0)
  /\ UNCHANGED tokenVars

-----------------------------------------------------------------------------
(***************************************************************************)
(* The calls that schedule the callback.                                   *)
(***************************************************************************)
Schedules(s) ==
  \/ /\ s.method = "ft_transfer_call" /\ s.arg.readable /\ s.arg.deposit = 1
     /\ Contract!ft_transfer_call("call", s.signer, s.arg.to, s.arg.amount)
     /\ logs' = <<_transfer_event(s.signer, s.arg.to, s.arg.amount)>>
  \/ /\ s.method = "chain" /\ Contract!chain("call", s.signer, s.arg.to)
     /\ logs' = <<>>
  \/ /\ s.method \in {"resolve", "resolveFailed"}
     /\ Contract!scheduleResolver("call", "aa", "bb", s.arg.amount)
     /\ logs' = <<>>

ScheduledCall(tx, s) == Schedules(s) /\ refund' = <<>> /\ UNCHANGED <<outcome, dual>>

\* Everything else ends in an error.  A callback without a child's result, or with a deposit,
\* panics, and so does the receiver's entry with a deposit or arguments it cannot read.
RejectedCall(tx, s) ==
  /\ ~ENABLED (Registers(s) \/ Removes(s) \/ Moves(s) \/ Fixture(s) \/ Schedules(s))
  /\ ~Stays(s) /\ s.method # "fixtureSetCallsMax"
  /\ logs' = <<>> /\ refund' = <<>>
  /\ Answered(tx, "trap", 0)
  /\ UNCHANGED <<tokenVars, dual>>

LedgerRuns(tx) ==
  LET s == Script[gate][tx.step] IN
  /\ gate = "ledger"
  /\ Included(tx)
  /\ TokenCall(tx, s) \/ DualSetMax(tx, s) \/ ScheduledCall(tx, s) \/ RejectedCall(tx, s)

\* The step of the transaction whose receipts are running.
Current == executed[Len(executed)]

Sent == Script["ledger"][Current]

IsDual == dual.installed /\ calls["call"].receiver = "partial"

\* The child the receiver returned fails, or the receiver itself.
ChildFails ==
  \/ Sent.method = "resolveFailed"
  \/ ~IsDual /\ calls["call"].receiver = "failed"
  \/ IsDual /\ (Sent.arg.message = 4 \/ dual.calls = DualMax)

FixedAnswer(receiver) == CASE receiver = "partial" -> 3 [] receiver = "full" -> 10 [] OTHER -> Invalid

DualAnswer(message, amount) ==
  CASE message = 0 -> amount [] message = 1 -> 0 [] message \in {2, 3} -> 3 [] OTHER -> Invalid

\* The receiver's receipt, and its child's.
receiver_answers ==
  /\ gate = "ledger" /\ calls["call"] # FreeCall /\ calls["call"].result = Pending
  /\ \/ /\ ~IsDual
        /\ Contract!ft_on_transfer("call", FixedAnswer(calls["call"].receiver))
        /\ UNCHANGED dual
     \/ /\ IsDual /\ dual.calls < DualMax
        /\ Contract!ft_on_transfer("call", DualAnswer(Sent.arg.message, calls["call"].amount))
        /\ dual' = [dual EXCEPT !.calls = @ + 1, !.lastMsgLength = Sent.arg.message]
     \/ /\ IsDual /\ dual.calls = DualMax
        /\ Contract!ft_on_transfer("call", Invalid)
        /\ UNCHANGED dual
  /\ UNCHANGED <<clientVars, nodeVars, lost, logs, refund>>

\* The amount used, as the callback reports it: a burned refund counts as used.
Used(call) == call.amount - IF Contract!ReadWasMissing(call.sender) THEN 0 ELSE Contract!Refund(call)

RefundLog(call) ==
  IF Contract!Refund(call) = 0 THEN <<>>
  ELSE <<_resolver_event(IF Contract!ReadWasMissing(call.sender) THEN "ft_burn" ELSE "ft_transfer",
                         call.receiver, call.sender, Contract!Refund(call))>>

resolver_runs ==
  LET call == calls["call"]
      tx == [step |-> Current]
  IN  /\ gate = "ledger"
      /\ \/ /\ Contract!ft_resolve_transfer("call")
            /\ logs' = logs \o RefundLog(call)
            /\ Answered(tx, IF ChildFails THEN "trap" ELSE "ok", Used(call))
         \/ /\ Contract!ResolverPanics("call")
            /\ Answered(tx, "trap", 0)
            /\ UNCHANGED logs
      /\ UNCHANGED <<clientVars, pool, accessNonce, executed, lost, refund, dual>>

-----------------------------------------------------------------------------
LedgerKeys == [k \in {_key(a) : a \in DOMAIN balances} |-> balances[k[2]]] @@ (<<"supply", 0>> :> supply)

LedgerView(method, arg) ==
  CASE method = "supplyW0" -> supply % Two64
    [] method = "supplyW1" -> supply \div Two64
    [] method = "ft_total_supply" -> supply
    [] method = "ft_balance_of" -> Contract!Loaded(arg)
    [] method = "balanceSelfHas" -> IF Self \in DOMAIN balances THEN 1 ELSE 0
    [] method = "storage_balance_of" -> IF arg \in DOMAIN balances THEN Cost[arg] ELSE 0
    [] method = "storage_balance_bounds" -> <<66, 128>>
    [] method = "ft_metadata" -> "metadata"
    [] method = "get" -> dual.calls
    [] method = "lastMsgLength" -> dual.lastMsgLength

\* Views that read a malformed balance panic, and views without arguments that get some.
ViewTraps(step) ==
  \/ step.method \in {"ft_balance_of", "storage_balance_of"} /\ ~Contract!LoadedValid(step.arg)
  \/ step.method = "balanceSelfHas" /\ step.arg # ""

LedgerLooks(step) ==
  /\ gate = "ledger"
  /\ \/ /\ step.does = "view"
        /\ IF ViewTraps(step) THEN ViewAnswers(step, "trap", 0)
           ELSE ViewAnswers(step, "ok", LedgerView(step.method, step.arg))
     \/ StateAnswers(step, LedgerKeys)
     \/ Compared(step, "logs", logs)
     \/ Compared(step, "receipts", refund)
  /\ UNCHANGED ledgerVars
==============================================================================
