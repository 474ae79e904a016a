------------------------------- MODULE NearMemory -------------------------------
(***************************************************************************)
(* The arena of a call, its Buffer64 and the contract NearMemory.  The     *)
(* memory is a row of 8-byte cells; what an entry finds in it is whatever  *)
(* the instance held.  One buffer is active at a time, a handle is its     *)
(* capacity, and nothing allocated is given back before the call ends.     *)
(***************************************************************************)
EXTENDS Naturals

CONSTANTS
  PageCells,      \* the cells of a page
  MaxPages,       \* the pages the host grants a call
  ArenaBase,      \* the cells of the static data
  MaxCapacity,    \* maxBuffer64Capacity: half a page
  ProgramLength,  \* the operations of a call that are tried
  Stale           \* what a cell held before the call

Cells == 0..(PageCells * MaxPages - 1)

\* pf_arena_reset, at the entry of every call.
reset ==
  [cursor |-> ArenaBase, ptr |-> 0, capacity |-> 0, active |-> FALSE,
   memory |-> [c \in Cells |-> Stale], got |-> 0, trapped |-> FALSE]

\* The next of the call, unless it trapped before or the guard fails.
Unless(a, guard, next) == IF ~a.trapped /\ guard THEN next ELSE [a EXCEPT !.trapped = TRUE]

\* memory.grow answers -1 for more pages than the host grants.
Pages(cells) == (cells + PageCells - 1) \div PageCells

CanBegin(a, capacity) ==
  capacity \in 1..MaxCapacity /\ ~a.active /\ Pages(a.cursor + capacity) <= MaxPages

Claimed(a, capacity) ==
  [a EXCEPT !.cursor = @ + capacity, !.ptr = a.cursor, !.capacity = capacity, !.active = TRUE]

beginUnzeroed(a, capacity) == Unless(a, CanBegin(a, capacity), Claimed(a, capacity))

begin(a, capacity) ==
  Unless(a, CanBegin(a, capacity),
    [Claimed(a, capacity) EXCEPT
       !.memory = [c \in Cells |-> IF c \in a.cursor..(a.cursor + capacity - 1) THEN 0 ELSE @[c]]])

Live(a, capacity) == a.active /\ a.capacity = capacity

set(a, capacity, index, value) ==
  Unless(a, Live(a, capacity) /\ index < capacity, [a EXCEPT !.memory[a.ptr + index] = value])

get(a, capacity, index) ==
  Unless(a, Live(a, capacity) /\ index < capacity, [a EXCEPT !.got = a.memory[a.ptr + index]])

finish(a, capacity) ==
  Unless(a, Live(a, capacity), [a EXCEPT !.ptr = 0, !.capacity = 0, !.active = FALSE])

-----------------------------------------------------------------------------
Full == MaxCapacity

Ends(method, arg) ==
  CASE method = "roundTrip" -> get(set(begin(reset, 4), 4, 2, arg), 4, 2)
    [] method = "startsZero" -> get(begin(reset, 4), 4, 3)
    [] method = "growAndReuse" ->
         get(set(begin(finish(begin(reset, Full), Full), Full), Full, Full - 1, arg), Full, Full - 1)
    [] method = "outOfBounds" -> get(begin(reset, 2), 2, 2)
    [] method = "staleHandle" -> get(finish(begin(reset, 2), 2), 2, 0)
    [] method = "wrongCapacity" -> get(begin(reset, 2), 1, 0)
    [] method = "doubleBegin" -> begin(begin(reset, 2), 1)

Verdict(method, arg) == IF Ends(method, arg).trapped THEN "trap" ELSE "ok"

View(method, arg) == Ends(method, arg).got

-----------------------------------------------------------------------------
(***************************************************************************)
(* The buffer a call means to have: its own cells, zero until they are     *)
(* set.                                                                    *)
(***************************************************************************)
NoBuffer == [i \in {} |-> 0]

Ops == {"begin", "finish"} \X (1..MaxCapacity) \cup {"set"} \X (0..(MaxCapacity - 1))

\* A set stores the number of the operation, in the buffer that is active.
Does(a, op, number) ==
  CASE op[1] = "begin" -> begin(a, op[2])
    [] op[1] = "finish" -> finish(a, op[2])
    [] op[1] = "set" -> set(a, a.capacity, op[2], number)

Means(buffer, op, number) ==
  CASE op[1] = "begin" -> [i \in 0..(op[2] - 1) |-> 0]
    [] op[1] = "finish" -> NoBuffer
    [] op[1] = "set" -> [buffer EXCEPT ![op[2]] = number]

Contents(a) == [i \in (IF a.active THEN 0..(a.capacity - 1) ELSE {}) |-> a.memory[a.ptr + i]]

Performs(run, op, number) ==
  [arena |-> Does(run.arena, op, number), means |-> Means(run.means, op, number)]

Runs(program) ==
  LET after[n \in 0..ProgramLength] ==
        IF n = 0 THEN [arena |-> reset, means |-> NoBuffer] ELSE Performs(after[n - 1], program[n], n)
  IN  after[ProgramLength]

\* A call that does not trap finds in its buffer what it set there since it began, zero elsewhere.
ReadsItsOwn ==
  \A program \in [1..ProgramLength -> Ops] :
    LET run == Runs(program) IN
    run.arena.trapped \/ Contents(run.arena) = run.means
==============================================================================
