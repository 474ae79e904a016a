----------------------------- MODULE CollectionGates -----------------------------
(***************************************************************************)
(* The gates of the storage collections against the contracts they deploy. *)
(* A transaction that runs is one call of the contract: a step of its      *)
(* module, or a trap that leaves everything as it was.                     *)
(***************************************************************************)
EXTENDS SandboxClient, TLC

CONSTANTS
  VectorCapacity, TreeCapacity, RingCapacity,
  PageCells, MaxPages, ArenaBase, MaxCapacity, ProgramLength,  \* of the arena
  Visitors   \* the gates after which others may call the contract too

ASSUME VisitorsAssumption == Visitors \subseteq {"vector", "treemap"}

ASSUME CapacityAssumption == VectorCapacity \in 1..64 /\ TreeCapacity \in 1..64 /\ RingCapacity \in 1..64

\* The static data leave room in the first page.
ASSUME ArenaAssumption ==
  /\ {PageCells, MaxPages, ArenaBase, MaxCapacity, ProgramLength} \subseteq Nat
  /\ ArenaBase < PageCells

VARIABLES
  chain,     \* chain[a]: the storage of account a, where the contract's storage is a flat map
  head, length, slots,                 \* NearQueue
  mapLength, mapVector, mapLookup,     \* NearIterable
  setLength, setVector, setLookup,
  code, envelope, fields, last         \* Counter and NearMigration

Vector == INSTANCE NearVector WITH Capacity <- VectorCapacity
Tree == INSTANCE NearTreeMap WITH Capacity <- TreeCapacity
Lazy == INSTANCE NearLazy
Lookup == INSTANCE NearLookup
Storage == INSTANCE NearStorage
Token == INSTANCE NearTokenArithmetic
Memory == INSTANCE NearMemory WITH Stale <- Anything
Single == INSTANCE NearValues

Queue == INSTANCE RingQueue WITH
  Capacity <- RingCapacity, Values <- {0, 11, 22, 33, 44}, Broken <- Anything

IMap == INSTANCE IterableMap WITH
  Capacity <- RingCapacity, Keys <- {7, 9, 11, 13}, Values <- {70, 90, 99, 110, 130, 700},
  CorruptKey <- 7, CorruptValue <- 700,
  length <- mapLength, vector <- mapVector, lookup <- mapLookup

\* A member's record is only its place.
ISet == INSTANCE IterableMap WITH
  Capacity <- RingCapacity, Keys <- {5, 6, 7, 8}, Values <- {0}, CorruptKey <- 5, CorruptValue <- 0,
  length <- setLength, vector <- setVector, lookup <- setLookup

Counter == INSTANCE EntryLifecycle WITH
  Versions <- {"counter", "migration"},
  Schema <- [v \in {"counter", "migration"} |-> IF v = "counter" THEN "Counter" ELSE "Migrated"],
  SlotsOf <- [d \in {"Counter", "Migrated"} |-> IF d = "Counter" THEN {"value"} ELSE {"total", "revision"}],
  MainSlot <- [d \in {"Counter", "Migrated"} |-> IF d = "Counter" THEN "value" ELSE "total"],
  MigratesFrom <- [v \in {"counter", "migration"} |-> IF v = "counter" THEN "none" ELSE "Counter"],
  NoMigration <- "none", NoCode <- "no code", Absent <- "absent", Foreign <- "foreign",
  Malformed <- Anything, U64Max <- 7, Revision <- 2, Leftovers <- {<<"absent", Empty>>},
  slots <- fields

queueVars == <<head, length, slots>>
iterableVars == <<mapLength, mapVector, mapLookup, setLength, setVector, setLookup>>
counterVars == <<code, envelope, fields, last>>

collectionVars == <<chain, queueVars, iterableVars, counterVars>>

CollectionInit ==
  /\ chain = [a \in {"test.near", "fresh", "caller"} |-> Empty]
  /\ Queue!Init /\ IMap!Init /\ ISet!Init /\ Counter!Init

-----------------------------------------------------------------------------
(***************************************************************************)
(* The contracts over a flat storage.                                      *)
(***************************************************************************)

\* scheduleYield commits its state; resumeYield is given an id no yield has.
YieldRun(s, method, arg) ==
  CASE method = "initialize" -> initialize(s, [k \in {Field("marker")} |-> arg])
    [] method = "scheduleYield" -> Marked(s, arg)
    [] method = "resumeYield" -> Trap(s)

\* The contracts whose entries beside `initialize` are views.
PureRun(s, method, arg) ==
  CASE method = "initialize" -> initialize(s, [k \in {Field("marker")} |-> arg])

Run(s, method, arg) ==
  IF method \in {"deploy", "create"} THEN Returns(s, 0)
  ELSE IF method # "initialize" /\ Field("STATE") \notin DOMAIN s THEN Trap(s)
  ELSE CASE gate = "vector" -> Vector!Run(s, method, arg)
         [] gate = "treemap" -> Tree!Run(s, method, arg)
         [] gate = "lazy" -> Lazy!Run(s, method, arg)
         [] gate = "lookup" -> Lookup!Run(s, method, arg)
         [] gate = "storage" -> Storage!Run(s, method, arg)
         [] gate = "yield" -> YieldRun(s, method, arg)
         [] gate = "tokens" -> Single!TokensRun(s, method, arg)
         [] gate = "economics" -> Single!EconomicsRun(s, method, arg)
         [] gate = "boolean" -> Single!BooleanRun(s, method, arg)
         [] gate \in {"arithmetic", "memory"} -> PureRun(s, method, arg)

View(s, method, arg) ==
  CASE gate = "vector" -> Vector!View(s, method, arg)
    [] gate = "treemap" -> Tree!View(s, method, arg)
    [] gate = "lazy" -> Lazy!View(s, method, arg)
    [] gate = "lookup" -> Lookup!View(s, method, arg)
    [] gate = "storage" -> Storage!View(s, method, arg)
    [] gate = "yield" -> s[Field("marker")]
    [] gate = "tokens" -> Single!TokensView(s, method, arg)
    [] gate = "economics" -> Single!EconomicsView(s, method, arg)
    [] gate = "boolean" -> Single!BooleanView(s, method, arg)
    [] gate = "arithmetic" -> Token!View(method, arg)
    [] gate = "memory" -> Memory!View(method, arg)

\* Only a view that uses the arena wrongly traps.
ViewVerdict(method, arg) == IF gate = "memory" THEN Memory!Verdict(method, arg) ELSE "ok"

Flat == gate \notin {"queue", "iterable", "counter", "ledger", "registration"}

FlatCall(tx, s) ==
  LET result == Run(chain[s.account], s.method, s.arg) IN
  /\ Flat
  /\ chain' = [chain EXCEPT ![s.account] = result.storage]
  /\ IF s.method = "scheduleYield" /\ result.verdict = "ok" THEN UNCHANGED outcome
     ELSE Answered(tx, result.verdict, result.value)
  /\ UNCHANGED <<queueVars, iterableVars, counterVars>>

\* The yielded receipt times out and its callback runs: only now is the call answered.
yield_times_out(tx) ==
  /\ gate = "yield" /\ Script["yield"][tx].method = "scheduleYield"
  /\ Len(executed) > 0 /\ executed[Len(executed)] = tx
  /\ outcome.step # tx
  /\ outcome' = [step |-> tx, verdict |-> "ok", value |-> chain["test.near"][Field("marker")]]
  /\ UNCHANGED <<clientVars, pool, accessNonce, executed, lost, collectionVars>>

-----------------------------------------------------------------------------
(***************************************************************************)
(* The contracts with a module of their own.                               *)
(***************************************************************************)
Installs(tx, s) == s.method \in {"deploy", "initialize", "create"} /\ Answered(tx, "ok", 0)

QueueCall(tx, s) ==
  /\ gate = "queue"
  /\ \/ Installs(tx, s) /\ UNCHANGED queueVars
     \/ s.method = "push" /\ Queue!push(s.arg) /\ Answered(tx, "ok", length')
     \/ s.method = "pop" /\ Queue!pop /\ Answered(tx, "ok", length')
     \/ s.method = "malform" /\ Queue!malform /\ Answered(tx, "ok", 99)
     \/ /\ \/ s.method = "push" /\ ~ENABLED Queue!push(s.arg)
           \/ s.method = "pop" /\ ~ENABLED Queue!pop
        /\ Answered(tx, "trap", 0) /\ UNCHANGED queueVars
  /\ UNCHANGED <<chain, iterableVars, counterVars>>

MapCall(tx, s) ==
  /\ \/ s.method = "mapPut" /\ IMap!mapPut(s.arg[1], s.arg[2]) /\ Answered(tx, "ok", mapLength')
     \/ s.method = "mapRemove" /\ IMap!mapRemove(s.arg) /\ Answered(tx, "ok", mapLength')
     \/ s.method = "corruptMap7" /\ IMap!corruptMap /\ Answered(tx, "ok", 77)
  /\ UNCHANGED <<setLength, setVector, setLookup>>

SetCall(tx, s) ==
  /\ \/ s.method = "setInsert" /\ ISet!mapPut(s.arg, 0) /\ Answered(tx, "ok", setLength')
     \/ s.method = "setRemove" /\ ISet!mapRemove(s.arg) /\ Answered(tx, "ok", setLength')
     \/ s.method = "corruptSet5" /\ ISet!corruptMap /\ Answered(tx, "ok", 55)
  /\ UNCHANGED <<mapLength, mapVector, mapLookup>>

IterableCall(tx, s) ==
  /\ gate = "iterable"
  /\ \/ Installs(tx, s) /\ UNCHANGED iterableVars
     \/ MapCall(tx, s)
     \/ SetCall(tx, s)
     \/ /\ \/ s.method = "mapPut" /\ ~ENABLED IMap!mapPut(s.arg[1], s.arg[2])
           \/ s.method = "mapRemove" /\ ~ENABLED IMap!mapRemove(s.arg)
           \/ s.method = "setInsert" /\ ~ENABLED ISet!mapPut(s.arg, 0)
           \/ s.method = "setRemove" /\ ~ENABLED ISet!mapRemove(s.arg)
        /\ Answered(tx, "trap", 0) /\ UNCHANGED iterableVars
  /\ UNCHANGED <<chain, queueVars, counterVars>>

CounterCall(tx, s) ==
  /\ gate = "counter"
  /\ \/ s.method = "create" /\ Answered(tx, "ok", 0) /\ UNCHANGED counterVars
     \/ /\ \/ s.method = "deploy" /\ Counter!deploy(s.arg)
           \/ s.method = "initialize" /\ Counter!init(s.arg[1], s.arg[2])
           \/ s.method = "increment" /\ Counter!increment(s.arg[1], s.arg[2])
           \/ s.method = "migrate" /\ Counter!migrate(IF s.signer = s.account THEN "self" ELSE "other", 0)
        /\ Answered(tx, last'.outcome, last'.answer)
  /\ UNCHANGED <<chain, queueVars, iterableVars>>

CollectionRuns(tx) ==
  LET s == Script[gate][tx.step] IN
  /\ Included(tx)
  /\ FlatCall(tx, s) \/ QueueCall(tx, s) \/ IterableCall(tx, s) \/ CounterCall(tx, s)

-----------------------------------------------------------------------------
(***************************************************************************)
(* Views, and the keys of the account.                                     *)
(***************************************************************************)
QueueView(method, arg) ==
  LET item(offset) ==
        IF Queue!offsetInRange(offset) /\ Queue!physicalIndex(offset) \in DOMAIN slots
        THEN slots[Queue!physicalIndex(offset)] ELSE 0
  IN  CASE method = "get" -> length
        [] method = "getHead" -> head
        [] method = "peek" -> item(0)
        [] method = "getAt" -> item(arg)
        [] method = "hasAt" ->
             IF Queue!offsetInRange(arg) /\ Queue!physicalIndex(arg) \in DOMAIN slots THEN 1 ELSE 0

\* The index of a key: the capacity if it is not there, one more if its record is malformed.
Place(lookup, key) ==
  IF key \notin DOMAIN lookup THEN RingCapacity
  ELSE IF lookup[key].index < RingCapacity THEN lookup[key].index ELSE RingCapacity + 1

KeyAt(vector, index) == IF index \in DOMAIN vector THEN vector[index] ELSE 0

IterableView(method, arg) ==
  CASE method = "mapLen" -> mapLength
    [] method = "setLen" -> setLength
    [] method = "mapIndex" -> Place(mapLookup, arg)
    [] method = "setIndex" -> Place(setLookup, arg)
    [] method = "mapGet" -> IF arg \in DOMAIN mapLookup THEN mapLookup[arg].value ELSE 0
    [] method = "mapKeyAt" -> KeyAt(mapVector, arg)
    [] method = "setKeyAt" -> KeyAt(setVector, arg)
    [] method = "mapHasKeyAt" -> IF arg \in DOMAIN mapVector THEN 1 ELSE 0

\* A view that panics leaves the verdict of the panic.
CounterView(step) ==
  /\ gate = "counter" /\ step.does = "view"
  /\ IF step.method = "get" THEN Counter!get
     ELSE Counter!View("get", IF "revision" \in DOMAIN fields THEN fields["revision"] ELSE 0)
  /\ ViewAnswers(step, last'.outcome, last'.answer)
  /\ UNCHANGED <<chain, queueVars, iterableVars>>

Prefixed(prefix, map) == [k \in {<<prefix, i>> : i \in DOMAIN map} |-> map[k[2]]]

QueueKeys == Prefixed("QUE1", slots) @@ (Field("head") :> head) @@ (Field("length") :> length)

IterableKeys ==
  Prefixed("IMPv", mapVector) @@ Prefixed("IMPm", mapLookup) @@ Prefixed("ITSv", setVector)
    @@ Prefixed("ITSm", [v \in DOMAIN setLookup |-> setLookup[v].index])
    @@ (Field("mapLength") :> mapLength) @@ (Field("setLength") :> setLength)

CounterKeys ==
  [k \in {Field(f) : f \in DOMAIN fields} |-> fields[k[1]]]
    @@ IF envelope = "absent" THEN Empty ELSE Field("STATE") :> envelope

Keys ==
  CASE Flat -> chain["test.near"]
    [] gate = "queue" -> QueueKeys
    [] gate = "iterable" -> IterableKeys
    [] gate = "counter" -> CounterKeys

StateView(step) ==
  /\ Flat \/ gate \in {"queue", "iterable", "counter"}
  /\ StateAnswers(step, Keys)
  /\ UNCHANGED collectionVars

PlainView(step) ==
  /\ step.does = "view"
  /\ \/ /\ Flat /\ Field("STATE") \in DOMAIN chain[step.account]
        /\ ViewAnswers(step, ViewVerdict(step.method, step.arg), View(chain[step.account], step.method, step.arg))
     \/ /\ Flat /\ Field("STATE") \notin DOMAIN chain[step.account]
        /\ ViewAnswers(step, "not initialized", 0)
     \/ gate = "queue" /\ ViewAnswers(step, "ok", QueueView(step.method, step.arg))
     \/ gate = "iterable" /\ ViewAnswers(step, "ok", IterableView(step.method, step.arg))
  /\ UNCHANGED collectionVars

YieldPoll(step) == PollAnswers(step, chain["test.near"][Field("marker")]) /\ UNCHANGED collectionVars

\* The calls others make of the contract when the gate has passed.
Visits ==
  CASE gate = "vector" -> {<<"push", 1>>, <<"pop", 0>>, <<"setFirst", 2>>}
    [] gate = "treemap" -> {"putKey", "removeTail"} \X {0, 5, 7, 20, 100} \cup {<<"putValue", 1>>}

visit ==
  /\ verdict = "passed" /\ gate \in Visitors
  /\ \E call \in Visits :
       chain' = [chain EXCEPT !["test.near"] = Run(@, call[1], call[2]).storage]
  /\ UNCHANGED <<clientVars, nodeVars, lost, queueVars, iterableVars, counterVars>>
==============================================================================
