------------------------------ MODULE ScriptSteps ------------------------------
(***************************************************************************)
(* The steps a gate's script is made of: a call, a view, a poll, and what  *)
(* the gate looks at afterwards.                                           *)
(***************************************************************************)
EXTENDS Naturals, Sequences, SequencesExt

CONSTANT Anything  \* for a step that does not look at the value it gets

Step(does, method, arg, expects, returns) ==
  [does |-> does, account |-> "test.near", signer |-> "test.near",
   method |-> method, arg |-> arg, expects |-> expects, returns |-> returns, caught |-> 0, claims |-> FALSE]

Sends(method, arg, returns) == Step("call", method, arg, "ok", returns)

\* expect_success=False, and the panic if the gate looks at it.
Rejects(method, arg) == Step("call", method, arg, "failure", Anything)

Panics(method, arg, message) == Step("call", method, arg, message, Anything)

Views(method, arg, returns) == Step("view", method, arg, "ok", returns)

PollsUntil(method, arg, returns) == Step("poll", method, arg, "ok", returns)

\* view_state_values: the keys that must be there with their values, and the keys that must not.
Stores(entries) == Step("stores", "view_state", entries, "ok", Anything)

Lacks(keys) == Step("lacks", "view_state", keys, "ok", Anything)

\* The gate reads all the keys, and later asks whether they are still the same.
Remembers == Step("remembers", "view_state", 0, "ok", Anything)

Unchanged == Step("unchanged", "view_state", 0, "ok", Anything)

SameKeys == Step("same keys", "view_state", 0, "ok", Anything)

\* A call that must be rejected and leave every key as it was.
RejectsUnchanged(method, arg) == << Remembers, Rejects(method, arg), Unchanged >>

On(account, s) == [s EXCEPT !.account = account]

SignedBy(signer, s) == [s EXCEPT !.signer = signer]

\* A line that must not be reached.
Unreachable == Step("unreachable", "", Anything, "ok", Anything)

Tolerates(s) == [s EXCEPT !.caught = 1]

\* try: the steps, except NearRpcError: what was expected, else: an assertion fails.
Try(steps) ==
  [i \in 1..Len(steps) |-> [steps[i] EXCEPT !.caught = Len(steps) + 2 - i, !.claims = TRUE]]
    \o <<Unreachable>>
==============================================================================
