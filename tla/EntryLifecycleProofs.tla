------------------------- MODULE EntryLifecycleProofs -------------------------
(***************************************************************************)
(* The entry wrapper keeps the number, for any set of codes and schemas.   *)
(* The inductive invariant is TypeOK with EnvelopeVouchesForSlots: what a  *)
(* migration or an increment reads is only known because the envelope      *)
(* vouches for it.                                                         *)
(***************************************************************************)
EXTENDS EntryLifecycle, TLAPS

IInv == TypeOK /\ EnvelopeVouchesForSlots

\* Every guard answers with a message.
LEMMA GuardsAnswer ==
  /\ \A v, d : DepositGuard(d) \in Verdicts /\ InitializedGuard(v) \in Verdicts
  /\ \A c, d : PrivateGuard(c) \in Verdicts /\ EnvelopeGuard(d) \in Verdicts
  /\ \A v : LoadGuard(v) \in Verdicts
  /\ \A a, b : a \in Verdicts /\ b \in Verdicts => First(a, b) \in Verdicts
  BY DEF DepositGuard, InitializedGuard, PrivateGuard, EnvelopeGuard, LoadGuard, First, Verdicts

\* First passes only if both pass.
LEMMA FirstOk == \A a, b : First(a, b) = "ok" <=> a = "ok" /\ b = "ok"
  BY DEF First

\* A panic changes neither storage nor code.
LEMMA PanicKeeps ==
  ASSUME NEW e \in Entries, NEW m \in Verdicts, Panic(e, m)
  PROVE  /\ UNCHANGED <<code, envelope, slots>>
         /\ last' \in Calls
         /\ last'.entry = e /\ last'.outcome # "ok"
  BY DEF Panic, Calls

\* Storing every field of a version under its envelope restores what the envelope vouches for.
LEMMA WritesAllFields ==
  ASSUME IInv, NEW n \in U64, code \in Versions,
         slots' = Put(slots, Fields(code, n)), envelope' = Schema[code], UNCHANGED code
  PROVE  /\ envelope' \in Digests
         /\ DOMAIN slots' \subseteq AllSlots
         /\ \A s \in DOMAIN slots' : slots'[s] \in U64 \cup {Malformed}
         /\ EnvelopeVouchesForSlots'
         /\ Number(Absent)' = n
<1> DEFINE d == Schema[code]
<1>1. d \in Digests
  BY DEF Digests
<1>2. MainSlot[d] \in SlotsOf[d]
  BY <1>1, VersionsAssumption
<1>3. DOMAIN slots' = DOMAIN slots \cup SlotsOf[d]
  BY DEF Put, Fields
<1>4. \A s \in DOMAIN slots' : slots'[s] = IF s \in SlotsOf[d] THEN (IF s = MainSlot[d] THEN n ELSE Revision)
                                           ELSE slots[s]
  BY DEF Put, Fields
<1>5. Revision \in U64
  BY VersionsAssumption
<1>6. SlotsOf[d] \subseteq AllSlots
  BY <1>1 DEF AllSlots
<1>7. DOMAIN slots' \subseteq AllSlots
  BY <1>3, <1>6 DEF IInv, TypeOK
<1>8. \A s \in DOMAIN slots' : slots'[s] \in U64 \cup {Malformed}
  BY <1>3, <1>4, <1>5 DEF IInv, TypeOK
<1>9. EnvelopeVouchesForSlots'
  BY <1>3, <1>4, <1>5 DEF EnvelopeVouchesForSlots
<1>10. Number(Absent)' = n
  BY <1>1, <1>2, <1>3, <1>4 DEF Number, Digests
<1> QED
  BY <1>1, <1>7, <1>8, <1>9, <1>10

\* A version that passes the envelope guard for digest d finds the slots of d.
LEMMA GuardVouches ==
  ASSUME IInv, NEW d \in Digests, EnvelopeGuard(d) = "ok"
  PROVE  /\ envelope = d
         /\ MainSlot[d] \in DOMAIN slots
         /\ slots[MainSlot[d]] \in U64
         /\ Number(Absent) = slots[MainSlot[d]]
<1>1. envelope = d
  BY DEF EnvelopeGuard
<1> QED
  BY <1>1, VersionsAssumption DEF IInv, EnvelopeVouchesForSlots, Number

\* What a step does to the number, and that it keeps the invariant.
Good ==
  /\ IInv'
  /\ \/ Number(Absent)' = Number(Absent)
     \/ \E n \in U64 : Counter!SetOnce(n) \/ Counter!Add(n)
  /\ last'.entry = "get" /\ last'.outcome = "ok" => last'.answer = Number(Absent)'

LEMMA UnchangedGood ==
  ASSUME IInv, UNCHANGED <<code, envelope, slots>>,
         last' \in Calls,
         last'.entry = "get" /\ last'.outcome = "ok" => last'.answer = Number(Absent)
  PROVE  Good
  BY DEF Good, IInv, TypeOK, EnvelopeVouchesForSlots, Number

LEMMA PanicGood ==
  ASSUME IInv, NEW e \in Entries, NEW m \in Verdicts, Panic(e, m)
  PROVE  Good
  BY PanicKeeps, UnchangedGood

LEMMA DeployGood ==
  ASSUME IInv, NEW v \in Versions, deploy(v)
  PROVE  Good
<1>1. last' \in Calls /\ last'.entry = "none"
  BY DEF deploy, NoCall, Calls, Entries, Verdicts
<1>2. IInv'
  BY <1>1 DEF deploy, IInv, TypeOK, EnvelopeVouchesForSlots
<1>3. Number(Absent)' = Number(Absent)
  BY DEF deploy, Number
<1> QED
  BY <1>1, <1>2, <1>3 DEF Good

LEMMA InitGood ==
  ASSUME IInv, NEW deposit \in {0, 1}, NEW n \in U64, init(deposit, n)
  PROVE  Good
<1> DEFINE verdict == First(DepositGuard(deposit), InitializedGuard(code))
<1>1. CASE Panic("init", verdict)
  BY <1>1, GuardsAnswer, PanicGood DEF Entries
<1>2. CASE /\ verdict = "ok"
           /\ slots' = Put(slots, Fields(code, n))
           /\ envelope' = Schema[code]
           /\ Return("init", 0)
           /\ UNCHANGED code
  <2>1. InitializedGuard(code) = "ok"
    BY <1>2, FirstOk
  <2>2. envelope = Absent
    BY <2>1 DEF InitializedGuard
  <2>3. Number(Absent) = Absent
    BY <2>2, VersionsAssumption DEF Number
  <2>4. code \in Versions
    BY DEF init, IInv, TypeOK
  <2>5. last' \in Calls /\ last'.entry = "init"
    BY <1>2 DEF Return, Calls, Entries, Verdicts
  <2>6. /\ envelope' \in Digests
        /\ DOMAIN slots' \subseteq AllSlots
        /\ \A s \in DOMAIN slots' : slots'[s] \in U64 \cup {Malformed}
        /\ EnvelopeVouchesForSlots'
        /\ Number(Absent)' = n
    BY <1>2, <2>4, WritesAllFields
  <2>7. IInv'
    BY <1>2, <2>4, <2>5, <2>6 DEF IInv, TypeOK
  <2>8. Counter!SetOnce(n)
    BY <2>3, <2>6 DEF Counter!SetOnce
  <2> QED
    BY <2>5, <2>7, <2>8 DEF Good
<1> QED
  BY <1>1, <1>2 DEF init

LEMMA IncrementGood ==
  ASSUME IInv, NEW deposit \in {0, 1}, NEW delta \in U64, increment(deposit, delta)
  PROVE  Good
<1> DEFINE verdict == First(DepositGuard(deposit),
                            First(EnvelopeGuard(Schema[code]), LoadGuard(code)))
<1>1. CASE Panic("increment", verdict)
  BY <1>1, GuardsAnswer, PanicGood DEF Entries
<1>2. CASE Panic("increment", "overflow")
  BY <1>2, PanicGood DEF Entries, Verdicts
<1>3. CASE /\ verdict = "ok"
           /\ Fits(delta)
           /\ slots' = Put(slots, [s \in {Main} |-> Loaded(Main) + delta])
           /\ Return("increment", Loaded(Main) + delta)
           /\ UNCHANGED <<code, envelope>>
  <2>1. code \in Versions /\ Schema[code] \in Digests
    BY DEF increment, IInv, TypeOK, Digests
  <2>2. EnvelopeGuard(Schema[code]) = "ok"
    BY <1>3, FirstOk
  <2>3. /\ envelope = Schema[code]
        /\ Main \in DOMAIN slots
        /\ slots[Main] \in U64
        /\ Number(Absent) = slots[Main]
    BY <2>1, <2>2, GuardVouches DEF Main
  <2>4. Loaded(Main) = slots[Main]
    BY <2>3 DEF Loaded
  <2>5. slots[Main] + delta \in U64
    BY <1>3, <2>3, <2>4, VersionsAssumption DEF Fits, U64
  <2>6. DOMAIN slots' = DOMAIN slots
    BY <1>3, <2>3 DEF Put
  <2>7. \A s \in DOMAIN slots : slots'[s] = IF s = Main THEN slots[Main] + delta ELSE slots[s]
    BY <1>3, <2>3, <2>4 DEF Put
  <2>8. last' \in Calls
        /\ last'.entry = "increment"
    BY <1>3, <2>4, <2>5 DEF Return, Calls, Entries, Verdicts
  <2>9. TypeOK'
    BY <1>3, <2>5, <2>6, <2>7, <2>8 DEF IInv, TypeOK
  <2>10. EnvelopeVouchesForSlots'
    BY <1>3, <2>5, <2>6, <2>7 DEF IInv, EnvelopeVouchesForSlots
  <2>11. Number(Absent)' = slots[Main] + delta
    BY <1>3, <2>1, <2>3, <2>7 DEF Number, Main, Digests
  <2>12. Counter!Add(delta)
    <3>1. Number(Absent) # Absent
      BY <2>3, VersionsAssumption
    <3>2. Number(Absent) + delta <= U64Max
      BY <2>3, <2>5, VersionsAssumption DEF U64
    <3> QED
      BY <2>3, <2>11, <3>1, <3>2 DEF Counter!Add
  <2> QED
    BY <2>8, <2>9, <2>10, <2>12 DEF Good, IInv
<1> QED
  BY <1>1, <1>2, <1>3 DEF increment

LEMMA GetGood ==
  ASSUME IInv, get
  PROVE  Good
<1> DEFINE verdict == First(EnvelopeGuard(Schema[code]), LoadGuard(code))
<1>1. CASE Panic("get", verdict)
  BY <1>1, GuardsAnswer, PanicGood DEF Entries
<1>2. CASE /\ verdict = "ok"
           /\ Return("get", Loaded(Main))
           /\ UNCHANGED <<code, envelope, slots>>
  <2>1. code \in Versions /\ Schema[code] \in Digests
    BY DEF get, View, IInv, TypeOK, Digests
  <2>2. EnvelopeGuard(Schema[code]) = "ok"
    BY <1>2, FirstOk
  <2>3. Main \in DOMAIN slots /\ slots[Main] \in U64 /\ Number(Absent) = slots[Main]
    BY <2>1, <2>2, GuardVouches DEF Main
  <2>4. Loaded(Main) = Number(Absent) /\ Loaded(Main) \in U64
    BY <2>3 DEF Loaded
  <2>5. last' \in Calls
        /\ last'.answer = Number(Absent)
    BY <1>2, <2>4 DEF Return, Calls, Entries, Verdicts
  <2> QED
    BY <1>2, <2>5, UnchangedGood
<1> QED
  BY <1>1, <1>2 DEF get, View

LEMMA InitializedGood ==
  ASSUME IInv, initialized
  PROVE  Good
<1> DEFINE verdict == First(EnvelopeGuard(Schema[code]), LoadGuard(code))
           answer == IF envelope = Absent THEN 0 ELSE 1
<1>1. CASE Panic("initialized", verdict)
  BY <1>1, GuardsAnswer, PanicGood DEF Entries
<1>2. CASE /\ Return("initialized", answer)
           /\ UNCHANGED <<code, envelope, slots>>
  <2>1. last' \in Calls
        /\ last'.entry = "initialized"
    BY <1>2 DEF Return, Calls, Entries, Verdicts
  <2> QED
    BY <1>2, <2>1, UnchangedGood
<1> QED
  BY <1>1, <1>2 DEF initialized, View

LEMMA MigrateGood ==
  ASSUME IInv, NEW caller \in {"self", "other"}, NEW deposit \in {0, 1}, migrate(caller, deposit)
  PROVE  Good
<1> DEFINE verdict == First(PrivateGuard(caller),
                            First(DepositGuard(deposit), EnvelopeGuard(MigratesFrom[code])))
<1>1. CASE Panic("migrate", verdict)
  BY <1>1, GuardsAnswer, PanicGood DEF Entries
<1>2. ASSUME NEW n \in Legacy(LegacyKey(code)),
             /\ verdict = "ok"
             /\ slots' = Put(slots, Fields(code, n))
             /\ envelope' = Schema[code]
             /\ Return("migrate", n)
             /\ UNCHANGED code
      PROVE  Good
  <2>1. code \in Versions /\ MigratesFrom[code] \in Digests
    BY VersionsAssumption DEF migrate, IInv, TypeOK
  <2>2. EnvelopeGuard(MigratesFrom[code]) = "ok"
    BY <1>2, FirstOk
  <2>3. /\ LegacyKey(code) \in DOMAIN slots
        /\ slots[LegacyKey(code)] \in U64
        /\ Number(Absent) = slots[LegacyKey(code)]
    BY <2>1, <2>2, GuardVouches DEF LegacyKey
  <2>4. n = Number(Absent) /\ n \in U64
    BY <1>2, <2>3, VersionsAssumption DEF Legacy
  <2>5. last' \in Calls
        /\ last'.entry = "migrate"
    BY <1>2, <2>4 DEF Return, Calls, Entries, Verdicts
  <2>6. /\ envelope' \in Digests
        /\ DOMAIN slots' \subseteq AllSlots
        /\ \A s \in DOMAIN slots' : slots'[s] \in U64 \cup {Malformed}
        /\ EnvelopeVouchesForSlots'
        /\ Number(Absent)' = n
    BY <1>2, <2>1, <2>4, WritesAllFields
  <2>7. IInv'
    BY <1>2, <2>1, <2>5, <2>6 DEF IInv, TypeOK
  <2> QED
    BY <2>4, <2>5, <2>6, <2>7 DEF Good
<1> QED
  BY <1>1, <1>2 DEF migrate

-----------------------------------------------------------------------------
LEMMA InitialInvariant == Init => IInv
<1> SUFFICES ASSUME Init PROVE IInv
  OBVIOUS
<1>1. PICK pair \in Leftovers : envelope = pair[1] /\ slots = pair[2]
  BY DEF Init
<1>2. TypeOK
  BY <1>1, LeftoversAssumption DEF Init, TypeOK, NoCall, Calls, Entries, Verdicts
<1>3. EnvelopeVouchesForSlots
  BY <1>1, LeftoversAssumption, VersionsAssumption DEF EnvelopeVouchesForSlots
<1> QED
  BY <1>2, <1>3 DEF IInv

LEMMA StepGood == IInv /\ Next => Good
<1> SUFFICES ASSUME IInv, Next PROVE Good
  OBVIOUS
<1>1. CASE \E v \in Versions : deploy(v)
  BY <1>1, DeployGood
<1>2. CASE \E deposit \in {0, 1}, n \in U64 : init(deposit, n) \/ increment(deposit, n)
  BY <1>2, InitGood, IncrementGood
<1>3. CASE get
  BY <1>3, GetGood
<1>4. CASE initialized
  BY <1>4, InitializedGood
<1>5. CASE \E caller \in {"self", "other"}, deposit \in {0, 1} : migrate(caller, deposit)
  BY <1>5, MigrateGood
<1> QED
  BY <1>1, <1>2, <1>3, <1>4, <1>5 DEF Next

LEMMA StutterInvariant == IInv /\ UNCHANGED vars => IInv'
  BY DEF IInv, TypeOK, EnvelopeVouchesForSlots, vars

\* Inductive invariance of both state invariants.
LEMMA InductiveInvariant == Spec => []IInv
<1>1. IInv /\ [Next]_vars => IInv'
  BY StepGood, StutterInvariant DEF Good
<1> QED
  BY <1>1, InitialInvariant, PTL DEF Spec

\* The types hold for every set of codes, schemas and leftovers (renderFn's state).
THEOREM TypeCorrect == Spec => []TypeOK
<1>1. IInv => TypeOK
  BY DEF IInv
<1> QED
  BY <1>1, InductiveInvariant, PTL

\* Whatever codes are deployed in whatever order, a stored envelope means that every slot of
\* its schema is stored with 8 bytes (initializedGuard, stateEnvelopeGuard, markInitialized).
THEOREM EnvelopeVouchesHolds == Spec => []EnvelopeVouchesForSlots
<1>1. IInv => EnvelopeVouchesForSlots
  BY DEF IInv
<1> QED
  BY <1>1, InductiveInvariant, PTL

\* The account's number is a register that is set once and then only added to.
THEOREM KeepsTheNumberHolds == Spec => KeepsTheNumber
<1>1. Init => Counter!RegisterInit
  <2> SUFFICES ASSUME Init PROVE Number(Absent) = Absent
    BY DEF Counter!RegisterInit
  <2>1. envelope \in {Absent, Foreign}
    BY LeftoversAssumption DEF Init
  <2> QED
    BY <2>1, VersionsAssumption DEF Number
<1>2. IInv /\ [Next]_vars => [Counter!RegisterNext]_(Number(Absent))
  <2> SUFFICES ASSUME IInv, [Next]_vars PROVE [Counter!RegisterNext]_(Number(Absent))
    OBVIOUS
  <2>1. CASE UNCHANGED vars
    BY <2>1 DEF vars, Number
  <2>2. CASE Next
    BY <2>2, StepGood DEF Good, Counter!RegisterNext, U64
  <2> QED
    BY <2>1, <2>2
<1> QED
  BY <1>1, <1>2, InductiveInvariant, PTL DEF Spec, KeepsTheNumber, Counter!RegisterSpec

\* A `get` that answers returns that number.
THEOREM ViewsReportHolds == Spec => ViewsReportTheNumber
<1>1. IInv /\ [Next]_vars =>
        [last'.entry = "get" /\ last'.outcome = "ok" => last'.answer = Number(Absent)']_vars
  BY StepGood DEF Good
<1> QED
  BY <1>1, InductiveInvariant, PTL DEF Spec, ViewsReportTheNumber
==============================================================================
