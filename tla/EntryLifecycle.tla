---------------------------- MODULE EntryLifecycle ----------------------------
(***************************************************************************)
(* The wrapper the compiler emits around every entry, over the life of an  *)
(* account on which one code after another is deployed.  The contract is   *)
(* the Counter, or the NearMigration that replaces it: its state is a      *)
(* number in a main slot and constants in the others, one storage key per  *)
(* slot, and the STATE envelope with the digest of the slot schema.        *)
(*                                                                         *)
(* A step is one call.  The guards run in the order private, deposit,      *)
(* lifecycle; the first that fails panics and the receipt has no effect.   *)
(***************************************************************************)
EXTENDS Naturals

CONSTANTS
  Versions,      \* the codes that may be deployed
  Schema,        \* Schema[v]: the schema digest of version v
  SlotsOf,       \* SlotsOf[d]: the slot names of the schema with digest d
  MainSlot,      \* MainSlot[d]: the slot that holds the number
  MigratesFrom,  \* MigratesFrom[v]: the digest v's migrate entry accepts, or NoMigration
  NoMigration,
  NoCode,        \* no contract is deployed
  Absent,        \* no STATE key
  Foreign,       \* a STATE value that is not a 16-byte envelope with our magic
  Malformed,     \* a slot value that is not 8 bytes
  U64Max,        \* 2^64 - 1
  Revision,      \* the constant the contract keeps in its other slots
  Leftovers      \* what an earlier contract of the account may have stored: <<STATE, slots>>

U64 == 0..U64Max

Digests == {Schema[v] : v \in Versions}

AllSlots == UNION {SlotsOf[d] : d \in Digests}

ASSUME VersionsAssumption ==
  /\ U64Max \in Nat
  /\ Revision \in U64
  /\ \A v \in Versions : MigratesFrom[v] \in (Digests \ {Schema[v]}) \cup {NoMigration}
  /\ \A d \in Digests : MainSlot[d] \in SlotsOf[d]
  /\ NoMigration \notin Digests /\ Absent \notin Digests /\ Foreign \notin Digests
  /\ NoMigration \notin {Absent, Foreign}
  /\ Absent # Foreign
  /\ NoCode \notin Versions
  /\ Malformed \notin U64 /\ Absent \notin U64

ASSUME LeftoversAssumption ==
  \A pair \in Leftovers :
    /\ pair[1] \in {Absent, Foreign}
    /\ DOMAIN pair[2] \subseteq AllSlots
    /\ \A s \in DOMAIN pair[2] : pair[2][s] \in U64 \cup {Malformed}

VARIABLES
  code,      \* the deployed version
  envelope,  \* the value of the STATE key
  slots,     \* the slot keys, a partial function
  last       \* the last call: entry, outcome, answer

vars == <<code, envelope, slots, last>>

Verdicts == {"ok", "private", "no deposit", "already initialized", "not initialized",
             "incompatible", "trap", "overflow"}

Entries == {"none", "init", "increment", "get", "initialized", "migrate"}

Calls == [entry : Entries, outcome : Verdicts, answer : U64 \cup {0, 1}]

NoCall == [entry |-> "none", outcome |-> "ok", answer |-> 0]

Put(map, more) ==
  [s \in DOMAIN map \cup DOMAIN more |-> IF s \in DOMAIN more THEN more[s] ELSE map[s]]

-----------------------------------------------------------------------------
(***************************************************************************)
(* The guards: "ok", or the panic of the first that fails.                 *)
(***************************************************************************)
PrivateGuard(caller) == IF caller = "self" THEN "ok" ELSE "private"

DepositGuard(deposit) == IF deposit = 0 THEN "ok" ELSE "no deposit"

InitializedGuardSlotsOnly(v) ==
  IF \E s \in SlotsOf[Schema[v]] : s \in DOMAIN slots THEN "already initialized" ELSE "ok"

\* An initializer refuses if the STATE key or any of its own slots exists.
InitializedGuard(v) ==
  IF envelope # Absent \/ \E s \in SlotsOf[Schema[v]] : s \in DOMAIN slots
  THEN "already initialized" ELSE "ok"

EnvelopeGuardAnySchema(digest) ==
  IF envelope = Absent THEN "not initialized" ELSE IF envelope = Foreign \/ digest = NoMigration THEN "incompatible" ELSE "ok"

\* The stored schema must be the expected one.
EnvelopeGuard(digest) ==
  IF envelope = Absent THEN "not initialized" ELSE IF envelope # digest THEN "incompatible" ELSE "ok"

\* loadSlots: an absent slot reads as zero, one that is not 8 bytes traps.
Loaded(s) == IF s \in DOMAIN slots THEN slots[s] ELSE 0

LoadGuard(v) ==
  IF \E s \in SlotsOf[Schema[v]] : Loaded(s) = Malformed THEN "trap" ELSE "ok"

First(one, other) == IF one # "ok" THEN one ELSE other

-----------------------------------------------------------------------------
Panic(entry, message) ==
  /\ message # "ok"
  /\ last' = [entry |-> entry, outcome |-> message, answer |-> 0]
  /\ UNCHANGED <<code, envelope, slots>>

Return(entry, answer) == last' = [entry |-> entry, outcome |-> "ok", answer |-> answer]

FieldsMissingOnly(v, n) ==
  [s \in SlotsOf[Schema[v]] \ DOMAIN slots |-> IF s = MainSlot[Schema[v]] THEN n ELSE Revision]

\* Every slot of version v, with the number n.
Fields(v, n) ==
  [s \in SlotsOf[Schema[v]] |-> IF s = MainSlot[Schema[v]] THEN n ELSE Revision]

\* A new code replaces the old one; storage stays.
deploy(v) ==
  /\ code' = v
  /\ last' = NoCall
  /\ UNCHANGED <<envelope, slots>>

init(deposit, initial) ==
  LET verdict == First(DepositGuard(deposit), InitializedGuard(code)) IN
  /\ code # NoCode
  /\ \/ Panic("init", verdict)
     \/ /\ verdict = "ok"
        /\ slots' = Put(slots, Fields(code, initial))
        /\ envelope' = Schema[code]
        /\ Return("init", 0)
        /\ UNCHANGED code

Main == MainSlot[Schema[code]]

FitsAnyDelta(delta) == Loaded(Main) <= U64Max

Fits(delta) == Loaded(Main) <= U64Max - delta

increment(deposit, delta) ==
  LET verdict == First(DepositGuard(deposit),
                       First(EnvelopeGuard(Schema[code]), LoadGuard(code))) IN
  /\ code # NoCode
  /\ \/ Panic("increment", verdict)
     \/ /\ verdict = "ok"
        /\ ~Fits(delta)
        /\ Panic("increment", "overflow")
     \/ /\ verdict = "ok"
        /\ Fits(delta)
        /\ slots' = Put(slots, [s \in {Main} |-> Loaded(Main) + delta])
        /\ Return("increment", Loaded(Main) + delta)
        /\ UNCHANGED <<code, envelope>>

\* Views take no deposit guard.
View(entry, answer) ==
  LET verdict == First(EnvelopeGuard(Schema[code]), LoadGuard(code)) IN
  /\ code # NoCode
  /\ \/ Panic(entry, verdict)
     \/ /\ verdict = "ok"
        /\ Return(entry, answer)
        /\ UNCHANGED <<code, envelope, slots>>

get == View("get", Loaded(Main))

\* NearMigration has this view, the Counter does not.
initialized ==
  /\ code # NoCode
  /\ MigratesFrom[code] # NoMigration
  /\ View("initialized", IF envelope = Absent THEN 0 ELSE 1)

\* What the body of a migration may read at its key, which it does not test: a missing value reads
\* as zero, and one that is not 8 bytes as any number (its bytes and zeroes for those it lacks, or
\* all zeroes when it is longer than the buffer).
Legacy(s) ==
  IF s \notin DOMAIN slots THEN {0}
  ELSE IF slots[s] = Malformed THEN U64 ELSE {slots[s]}

LegacyKey(v) == MainSlot[MigratesFrom[v]]

migrate(caller, deposit) ==
  LET verdict == First(PrivateGuard(caller),
                       First(DepositGuard(deposit), EnvelopeGuard(MigratesFrom[code]))) IN
  /\ code # NoCode
  /\ MigratesFrom[code] # NoMigration
  /\ \/ Panic("migrate", verdict)
     \/ /\ verdict = "ok"
        /\ \E n \in Legacy(LegacyKey(code)) :
             slots' = Put(slots, Fields(code, n)) /\ Return("migrate", n)
        /\ envelope' = Schema[code]
        /\ UNCHANGED code

-----------------------------------------------------------------------------
Init ==
  /\ code = NoCode
  /\ \E pair \in Leftovers : envelope = pair[1] /\ slots = pair[2]
  /\ last = NoCall

Next ==
  \/ \E v \in Versions : deploy(v)
  \/ \E deposit \in {0, 1}, n \in U64 : init(deposit, n) \/ increment(deposit, n)
  \/ get
  \/ initialized
  \/ \E caller \in {"self", "other"}, deposit \in {0, 1} : migrate(caller, deposit)

Spec == Init /\ [][Next]_vars

-----------------------------------------------------------------------------
(***************************************************************************)
(* Properties.                                                             *)
(***************************************************************************)

TypeOK ==
  /\ code \in Versions \cup {NoCode}
  /\ envelope \in Digests \cup {Absent, Foreign}
  /\ DOMAIN slots \subseteq AllSlots
  /\ \A s \in DOMAIN slots : slots[s] \in U64 \cup {Malformed}
  /\ last \in Calls

\* An envelope vouches for its slots: whatever codes were deployed and whatever was stored
\* before, every slot of the stored schema exists with 8 bytes.  So no entry that passes the
\* envelope guard reads the zero of a missing slot, traps, or converts a missing key.
EnvelopeVouchesForSlots ==
  \A d \in Digests : envelope = d =>
    \A s \in SlotsOf[d] : s \in DOMAIN slots /\ slots[s] \in U64

\* The number the account holds, under the schema its envelope names.
Number(unset) == IF envelope \in Digests THEN slots[MainSlot[envelope]] ELSE unset

Counter == INSTANCE Register WITH Ceiling <- U64Max, Unset <- Absent, number <- Number(Absent)

\* Across deployments, upgrades and migrations the number is set once and only changes by
\* increments: no code reinitialises it, loses it, or reads it under another schema.
KeepsTheNumber == Counter!RegisterSpec

\* A view that answers reports the current number.
ViewsReportTheNumber ==
  [][last'.entry = "get" /\ last'.outcome = "ok" => last'.answer = Number(Absent)']_vars

\* The view `initialized` tells whether the STATE envelope exists.
InitializedTells ==
  last.entry = "initialized" /\ envelope = Absent => last.outcome = "ok" /\ last.answer = 0
==============================================================================
