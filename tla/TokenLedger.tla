------------------------------ MODULE TokenLedger ------------------------------
(***************************************************************************)
(* What the token contract promises, without storage costs, receipts or    *)
(* callbacks: accounts hold tokens, at most Ceiling in all; a transfer     *)
(* moves them; a transfer call moves them and opens a claim.  Once the     *)
(* receiver has answered, the claim is settled once: what the receiver did *)
(* not use, all of it if its answer cannot be read, leaves the receiver as *)
(* far as it still holds it, and goes back to the sender, or is destroyed  *)
(* if the sender has no account any more.                                  *)
(***************************************************************************)
EXTENDS AccountSums

CONSTANTS
  Ceiling,
  Calls,
  NoClaim,
  Unanswered,  \* the receiver has not answered
  Unreadable   \* it failed, or its answer is no number

VARIABLES
  holding,   \* the tokens of each account
  accounts,  \* those that have an account: nobody else holds anything
  claims     \* the transfers that may still be undone

tokenVars == <<holding, accounts, claims>>

TokenInit ==
  /\ holding = [a \in Accounts |-> 0]
  /\ accounts = {}
  /\ claims = [c \in Calls |-> NoClaim]

Give(from, to, n) ==
  holding' = [holding EXCEPT ![from] = @ - n, ![to] = @ + n]

OnlyAccountsHold == \A a \in Accounts \ accounts : holding[a] = 0

Register == UNCHANGED <<holding, claims>>

Issue(a, n) ==
  /\ SumOver(holding) + n <= Ceiling
  /\ holding' = [holding EXCEPT ![a] = @ + n]
  /\ UNCHANGED claims

Destroy(a, n) ==
  /\ n <= holding[a]
  /\ holding' = [holding EXCEPT ![a] = @ - n]
  /\ UNCHANGED claims

Move(from, to, n) ==
  /\ from # to
  /\ n <= holding[from]
  /\ Give(from, to, n)
  /\ UNCHANGED claims

MoveWithClaim(c, from, to, n) ==
  /\ claims[c] = NoClaim
  /\ from # to
  /\ n <= holding[from]
  /\ Give(from, to, n)
  /\ claims' = [claims EXCEPT ![c] =
       [sender |-> from, receiver |-> to, amount |-> n, result |-> Unanswered]]

Answer(c, result) ==
  /\ claims[c] # NoClaim
  /\ claims[c].result = Unanswered
  /\ claims' = [claims EXCEPT ![c].result = result]
  /\ UNCHANGED <<holding, accounts>>

Least(x, y) == IF x <= y THEN x ELSE y

\* What the receiver did not use.
Unspent(claim) ==
  IF claim.result = Unreadable THEN claim.amount ELSE Least(claim.result, claim.amount)

SettleClaim(c) ==
  LET claim == claims[c]
      m == Least(Unspent(claim), holding[claim.receiver])
  IN /\ claim # NoClaim
     /\ claim.result # Unanswered
     /\ IF claim.sender \in accounts
        THEN Give(claim.receiver, claim.sender, m)
        ELSE holding' = [holding EXCEPT ![claim.receiver] = @ - m]
     /\ claims' = [claims EXCEPT ![c] = NoClaim]
     /\ UNCHANGED accounts

\* Accounts come and go with the tokens, but none goes that still holds some.
Transact ==
  /\ \/ Register
     \/ \E a \in Accounts, n \in 1..Ceiling : Issue(a, n) \/ Destroy(a, n)
     \/ \E from, to \in Accounts, n \in 1..Ceiling :
          \/ Move(from, to, n)
          \/ \E c \in Calls : MoveWithClaim(c, from, to, n)
  /\ OnlyAccountsHold'

TokenNext ==
  \/ Transact
  \/ \E c \in Calls :
       \/ \E result \in 0..Ceiling \cup {Unreadable} : Answer(c, result)
       \/ SettleClaim(c)

TokenSpec == TokenInit /\ [][TokenNext]_tokenVars
==============================================================================
