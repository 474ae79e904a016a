----------------------------- MODULE ScatterGather -----------------------------
(***************************************************************************)
(* What the promise operations promise: a call asks some children at once, *)
(* each answers in its own time, and, if the call has a callback, their    *)
(* answers are gathered in the order in which they were asked.  What ends  *)
(* well, a call or its gathering, leaves its mark; what fails leaves none. *)
(***************************************************************************)
EXTENDS Naturals, Sequences

CONSTANTS Calls, FanIns, Values, Lengths, Fallback, Nothing

VARIABLES
  answers,   \* answers[c][i]: the answer of child i
  gathers,   \* gathers[c]: whether c has a callback
  outcome,   \* outcome[c]: what the call answers
  words,     \* the first two words of the latest join
  last       \* the call that left its mark last

gathering == <<answers, gathers, outcome, words, last>>

Waiting == [status |-> 0, length |-> 0, value |-> Nothing]

Reply(status, length, value) == [status |-> status, length |-> length, value |-> value]

Failure == Reply(2, 0, Nothing)

\* A u64 is a successful answer of eight bytes.
Read(answer) == IF answer.status = 1 /\ answer.length = 8 THEN answer.value ELSE Fallback

GatherInit ==
  /\ answers = [c \in Calls |-> <<>>]
  /\ gathers = [c \in Calls |-> FALSE]
  /\ outcome = [c \in Calls |-> Waiting]
  /\ words = <<Nothing, Nothing>>
  /\ last = Nothing

Ask(c, n, gather, own) ==
  /\ outcome[c] = Waiting /\ answers[c] = <<>>
  /\ answers' = [answers EXCEPT ![c] = [i \in 1..n |-> Waiting]]
  /\ gathers' = [gathers EXCEPT ![c] = gather]
  /\ outcome' = [outcome EXCEPT ![c] = own]
  /\ last' = c
  /\ UNCHANGED words

Refuse(c) ==
  /\ outcome[c] = Waiting /\ answers[c] = <<>>
  /\ outcome' = [outcome EXCEPT ![c] = Failure]
  /\ UNCHANGED <<answers, gathers, words, last>>

AnyAnswer ==
  {Failure, Reply(1, 0, Nothing)} \cup {Reply(1, l, v) : l \in Lengths, v \in Values}

Answer(c, i, answer) ==
  /\ answers[c][i] = Waiting
  /\ answers' = [answers EXCEPT ![c][i] = answer]
  /\ outcome' = IF gathers[c] \/ outcome[c] # Waiting THEN outcome
                ELSE [outcome EXCEPT ![c] = answer]
  /\ UNCHANGED <<gathers, words, last>>

Gather(c) ==
  LET n == Len(answers[c]) IN
  /\ gathers[c] /\ outcome[c] = Waiting
  /\ \A i \in 1..n : answers[c][i] # Waiting
  /\ \/ /\ outcome' = [outcome EXCEPT ![c] = Reply(1, 8, Read(answers[c][n]))]
        /\ words' = IF n = 1 THEN words ELSE <<Read(answers[c][1]), Read(answers[c][2])>>
        /\ last' = c
     \/ /\ outcome' = [outcome EXCEPT ![c] = Failure]
        /\ UNCHANGED <<words, last>>
  /\ UNCHANGED <<answers, gathers>>

GatherNext ==
  \E c \in Calls :
    \/ \E n \in FanIns : Ask(c, n, TRUE, Waiting)
    \/ \E own \in {Waiting, Reply(1, 8, Nothing)} : Ask(c, 1, FALSE, own)
    \/ Refuse(c)
    \/ \E i \in DOMAIN answers[c], answer \in AnyAnswer : Answer(c, i, answer)
    \/ Gather(c)

GatherSpec == GatherInit /\ [][GatherNext]_gathering
==============================================================================
