--------------------------- MODULE CollectionScripts ---------------------------
(***************************************************************************)
(* The gates of the storage collections and of single values, one script   *)
(* each: what every gate calls, views and reads from the account's keys,   *)
(* in the order it does, and what it expects.  The numbers stand for the   *)
(* gates' longer literals.                                                 *)
(***************************************************************************)
EXTENDS ScriptSteps, FlatStorage

CONSTANT Half  \* 2^32

ASSUME HalfAssumption == Half \in Nat \ 0..3 /\ Half % 2 = 0

Deployed(initial) == << Sends("deploy", 0, Anything), Sends("initialize", initial, Anything) >>

One(key, value) == Stores([k \in {key} |-> value])

\* The offsets 0, 1, .. of a sequence of values seen through a view.
ViewsAt(method, values) == [i \in 1..Len(values) |-> Views(method, i - 1, values[i])]

VectorScript ==
  Deployed(0)
    \o << Remembers, Views("get", 0, 0), Views("getAt", 0, 0), Rejects("setFirst", 9), Rejects("pop", 0),
          Unchanged,
          Sends("push", 1, 1), Sends("push", 2, 2), Views("get", 0, 2) >>
    \o ViewsAt("getAt", <<1, 2>>)
    \o << Stores([k \in {<<"VEC1", 0>>, <<"VEC1", 1>>} |-> k[2] + 1]),
          Sends("setFirst", 8, 8), Views("getAt", 0, 8), One(<<"VEC1", 0>>, 8), One(<<"VEC1", 1>>, 2),
          Sends("pop", 0, 1), Lacks({<<"VEC1", 1>>}), One(<<"VEC1", 0>>, 8), Views("getAt", 1, 0),
          Sends("push", 30, Anything), Sends("push", 40, Anything), Sends("push", 50, Anything),
          Views("get", 0, 4) >> \o RejectsUnchanged("push", 60) \o << Views("getAt", 99, 0) >>

LazyScript ==
  Deployed(7)
    \o << Views("get", 0, 7), Views("lazyGet", 0, 0),
          Sends("lazySet", 41, Anything), Views("lazyGet", 0, 41),
          Sends("lazyGetOrSet", 99, Anything), Views("lazyGet", 0, 41),
          On("fresh", Sends("create", 0, Anything)),
          SignedBy("fresh", On("fresh", Sends("deploy", 0, Anything))),
          On("fresh", Sends("initialize", 0, Anything)), On("fresh", Sends("lazyGetOrSet", 33, 33)),
          On("fresh", Views("lazyGet", 0, 33)),
          Views("optIsSome", 0, 0), Views("optGet", 0, 0), Sends("optSet", 12, Anything),
          Views("optIsSome", 0, 1), Views("optGet", 0, 12), Sends("optTake", 5, 12),
          Views("optIsSome", 0, 0) >>

Puts(key, value) == << Sends("putKey", key, Anything), Sends("putValue", value, Anything) >>

\* The two puts that must fail are caught whatever they fail for.
TreeMapScript ==
  Deployed(0) \o << Views("get", 0, 0) >>
    \o Puts(5, 500) \o Puts(20, 2000) \o Puts(100, 10000)
    \o << Views("get", 0, 3), Views("has", 5, 1), Views("has", 20, 1), Views("has", 100, 1),
          Views("has", 7, 0), Views("getValue", 20, 2000) >>
    \o ViewsAt("keyAt", <<5, 20, 100, 0>>)
    \o Try(Puts(20, 9999))
    \o << Views("get", 0, 3),
          Sends("removeTail", 100, Anything), Views("get", 0, 2), Views("has", 100, 0) >>
    \o Try(Puts(7, 777))
    \o << Views("get", 0, 2) >>

-----------------------------------------------------------------------------
LookupMapScript ==
  << Views("mapHas", 7, 0), Views("mapGet", 7, 0), Views("setHas", 7, 0),
     Sends("mapPut", 3, 0), Views("mapHas", 7, 1), Views("mapGet", 7, 3), One(<<"MAP1", 7>>, 3),
     Sends("mapPut", 4, 1), Views("mapGet", 7, 4), One(<<"MAP1", 7>>, 4),
     Sends("setInsert", 6, 0), Sends("setInsert", 6, 1), Views("setHas", 6, 1), One(<<"SET1", 6>>, 0),
     Sends("setRemove", 6, 1), Sends("setRemove", 6, 0), Lacks({<<"SET1", 6>>}),
     Sends("mapRemove", 0, 1), Sends("mapRemove", 0, 0), Lacks({<<"MAP1", 7>>}), Views("mapGet", 7, 0),
     Sends("mapPut", 0, 0), Views("mapHas", 7, 1), Views("mapGet", 7, 0), Sends("mapRemove", 0, 1),
     Views("mapHas", 7, 0), Views("mapHas", 9, 0), Views("setHas", 9, 0) >>

OwnBalance == <<"BAL1", 0>>

Stored(size, w0, w1) == [length |-> size, w0 |-> w0, w1 |-> w1]

\* A value of the wrong length reads as the fallback, and leaves nothing in the register.
MalformedToken(bytes) ==
  << Sends("tokenSeedSelfMalformed", bytes, 1), Views("tokenHasSelf", 0, 1),
     Views("tokenReadSelfW0", 0, 1), Views("tokenReadSelfW1", 0, 2), One(OwnBalance, Stored(bytes, 0, 0)),
     Sends("tokenPutSelfMixed", 0, 1) >>

LookupTokenScript ==
  << Views("tokenHasSelf", 0, 0), Views("tokenReadSelfW0", 0, 1), Sends("tokenPutSelfMixed", 0, 0),
     One(OwnBalance, Stored(16, 3, 4)), Views("tokenReadSelfW0", 0, 3), Views("tokenReadSelfW1", 0, 4),
     Views("tokenHasSelfIsolated", 0, 0), Lacks({<<"ALT1", 0>>}) >>
    \o MalformedToken(8) \o << Views("tokenReadSelfW0", 0, 3) >>
    \o MalformedToken(20) \o << Views("tokenReadSelfW1", 0, 4) >>
    \o << Sends("tokenPutSelfZero", 0, 1), Views("tokenHasSelf", 0, 1), One(OwnBalance, Stored(16, 0, 0)),
          Sends("tokenPutShortFixture", 0, 0), Views("tokenHasShortFixture", 0, 1),
          Views("tokenReadShortW0", 0, 1), Sends("tokenRemoveShortFixture", 0, 1), Lacks({<<"BAL1", 1>>}),
          On("caller", Sends("create", 0, Anything)),
          SignedBy("caller", Sends("tokenPutCallerMax", 0, 0)),
          SignedBy("caller", Sends("tokenHasCaller", 0, 1)),
          SignedBy("caller", Sends("tokenReadCallerW0", 0, 9)),
          SignedBy("caller", Sends("tokenReadCallerW1", 0, 9)),
          One(<<"BAL1", 2>>, Stored(16, 9, 9)),
          Sends("tokenRemoveSelf", 0, 1), Lacks({OwnBalance}), Sends("tokenRemoveSelf", 0, 0) >>

LookupScript == Deployed(0) \o LookupMapScript \o LookupTokenScript

-----------------------------------------------------------------------------
\* _bytes: the lanes of the value and as many inactive ones as the gate looks at.
Lanes(bytes) == ViewsAt("readByte", bytes)

Binary == <<"binary", 0>>

StorageScript ==
  Deployed(0)
    \o << Views("has", 0, 0), Views("readStatus", 0, 0), Views("readLength", 0, 0) >> \o Lanes(<<0, 0>>)
    \o << Sends("put", <<17, 0, 255, 2>>, 0), Views("has", 0, 1), Views("readStatus", 0, 1),
          Views("readLength", 0, 4) >> \o Lanes(<<17, 0, 255, 2, 0, 0, 0, 0>>)
    \o << Views("staleByteAfterMiss", 0, 0), One(Binary, <<17, 0, 255, 2>>),
          Sends("putOldFirst", <<34>>, 17), Views("readLength", 0, 1) >> \o Lanes(<<34, 0>>)
    \o << Sends("put", <<>>, 1), Views("has", 0, 1), Views("readStatus", 0, 1),
          Views("readLength", 0, 0) >> \o Lanes(<<0>>)
    \o << Sends("put", <<1, 2, 3, 4, 5, 6, 7, 8>>, 1), Views("readSmallStatus", 0, 1),
          Views("readSmallLength", 0, 8), Views("readSmallFits", 0, 0), Views("readSmallByte", 0, 0),
          One(Binary, <<1, 2, 3, 4, 5, 6, 7, 8>>),
          Sends("removeOldFirst", 0, 1), Views("has", 0, 0), Lacks({Binary}), Sends("remove", 0, 0),
          Sends("putEmptyKey", <<101>>, 0), Views("hasEmptyKey", 0, 1), One(<<"", 0>>, <<101>>),
          Sends("putMaximumKey", <<107, 72>>, 0), Views("hasMaximumKey", 0, 1) >>
    \o ViewsAt("readMaximumKeyByte", <<107, 72>>)
    \o << One(<<"PFID", 64>>, <<107, 72>>), Sends("removeMaximumKey", 0, 1),
          Views("hasMaximumKey", 0, 0), Lacks({<<"PFID", 64>>}) >>

-----------------------------------------------------------------------------
Slot(index) == <<"QUE1", index>>

FilledScript ==
  << Views("get", 0, 0), Views("getHead", 0, 0), Views("peek", 0, 0), Views("hasAt", 0, 0) >>
    \o RejectsUnchanged("pop", 0)
    \o << Sends("push", 0, 1), Sends("push", 11, 2), Sends("push", 22, 3),
          Views("get", 0, 3), Views("getHead", 0, 0) >>
    \o [i \in 1..3 |-> Views("hasAt", i - 1, 1)] \o ViewsAt("getAt", <<0, 11, 22>>)
    \o << Stores([k \in {Slot(i) : i \in 0..2} |-> 11 * k[2]]), Views("peek", 0, 0), Views("hasAt", 0, 1) >>
    \o RejectsUnchanged("push", 33)
    \o << Views("getAt", 99, 0), Views("hasAt", 99, 0) >>

Pops(front, left, next, slot) ==
  << Views("peek", 0, front), Sends("pop", 0, left), Lacks({Slot(slot)}), Views("getHead", 0, next) >>

QueueScript ==
  Deployed(0) \o FilledScript
    \o << Sends("pop", 0, 2), Lacks({Slot(0)}), Views("getHead", 0, 1), Views("peek", 0, 11),
          Sends("push", 33, 3), One(Slot(0), 33), One(Slot(1), 11), One(Slot(2), 22) >>
    \o ViewsAt("getAt", <<11, 22, 33>>)
    \o Pops(11, 2, 2, 1) \o Pops(22, 1, 0, 2) \o Pops(33, 0, 0, 0)
    \o << Views("get", 0, 0), Lacks({Slot(0), Slot(1), Slot(2)}),
          Sends("malform", 0, 99), Remembers, Views("get", 0, 1), Views("getHead", 0, 3),
          Views("peek", 0, 0), Views("hasAt", 0, 0),
          Rejects("push", 44), Rejects("pop", 0), Unchanged, Lacks({Slot(0), Slot(1), Slot(2)}) >>

-----------------------------------------------------------------------------
Listed(prefix, keys) == Stores([k \in {<<prefix, i>> : i \in 0..(Len(keys) - 1)} |-> keys[k[2] + 1]])

Record(value, index) == [value |-> value, index |-> index]

\* A key is where the vector and its own record say.
MapPlace(key, value, index) ==
  << One(<<"IMPm", key>>, Record(value, index)), Views("mapKeyAt", index, key),
     Views("mapIndex", key, index), Views("mapGet", key, value), Views("mapHasKeyAt", index, 1) >>

IterableMapScript ==
  << Sends("mapPut", <<7, 70>>, 1), Sends("mapPut", <<9, 90>>, 2), Sends("mapPut", <<11, 110>>, 3),
     Views("mapLen", 0, 3), Listed("IMPv", <<7, 9, 11>>) >>
    \o MapPlace(7, 70, 0) \o MapPlace(9, 90, 1) \o MapPlace(11, 110, 2)
    \o << Remembers, Sends("mapPut", <<9, 99>>, 3), One(<<"IMPm", 9>>, Record(99, 1)),
          Listed("IMPv", <<7, 9, 11>>), SameKeys >>
    \o RejectsUnchanged("mapPut", <<13, 130>>)
    \o << Sends("mapRemove", 9, 2), Listed("IMPv", <<7, 11>>), One(<<"IMPm", 11>>, Record(110, 1)),
          Lacks({<<"IMPm", 9>>, <<"IMPv", 2>>}), Views("mapIndex", 11, 1), Views("mapGet", 11, 110),
          Sends("mapRemove", 11, 1), Lacks({<<"IMPm", 11>>, <<"IMPv", 1>>}) >>

SetPlace(value, index) ==
  << One(<<"ITSm", value>>, index), Views("setKeyAt", index, value), Views("setIndex", value, index) >>

IterableSetScript ==
  << Sends("setInsert", 5, 1), Sends("setInsert", 6, 2), Sends("setInsert", 7, 3),
     Remembers, Sends("setInsert", 6, 3), Unchanged, Listed("ITSv", <<5, 6, 7>>) >>
    \o SetPlace(5, 0) \o SetPlace(6, 1) \o SetPlace(7, 2)
    \o RejectsUnchanged("setInsert", 8)
    \o << Sends("setRemove", 6, 2), One(<<"ITSv", 1>>, 7), One(<<"ITSm", 7>>, 1),
          Lacks({<<"ITSm", 6>>, <<"ITSv", 2>>}), Sends("setRemove", 7, 1) >>

CorruptScript ==
  << Sends("corruptMap7", 0, 77), Remembers, Views("mapIndex", 7, 4),
     Rejects("mapPut", <<7, 700>>), Rejects("mapRemove", 7), Unchanged,
     Sends("corruptSet5", 0, 55), Remembers, Views("setIndex", 5, 4),
     Rejects("setInsert", 5), Rejects("setRemove", 5), Unchanged >>

IterableScript ==
  Deployed(0)
    \o << Remembers, Views("mapLen", 0, 0), Views("setLen", 0, 0), Views("mapIndex", 7, 3),
          Views("setIndex", 5, 3), Rejects("mapRemove", 7), Rejects("setRemove", 5), Unchanged >>
    \o IterableMapScript \o IterableSetScript \o CorruptScript

-----------------------------------------------------------------------------
\* A call with a deposit carries <<1, argument>>.
Fresh == << Sends("deploy", "counter", Anything),
            Panics("increment", <<1, 1>>, "no deposit"), Panics("increment", <<0, 1>>, "not initialized"),
            [Views("get", 0, Anything) EXCEPT !.expects = "not initialized"],
            Lacks({Field("STATE"), Field("value")}), Panics("initialize", <<1, 5>>, "no deposit") >>

Counting ==
  << Sends("initialize", <<0, 0>>, Anything), One(Field("STATE"), "Counter"), Views("get", 0, 0),
     Panics("initialize", <<0, 6>>, "already initialized"), Views("get", 0, 0),
     Sends("increment", <<0, 1>>, 1), Views("get", 0, 1),
     Panics("increment", <<1, 4>>, "no deposit"), Views("get", 0, 1),
     Rejects("increment", <<0, 7>>), Views("get", 0, 1), Sends("increment", <<0, 1>>, 2),
     Views("get", 0, 2) >>

Migrating ==
  << Sends("deploy", "migration", Anything), [Views("get", 0, Anything) EXCEPT !.expects = "incompatible"],
     On("caller", Sends("create", 0, Anything)),
     SignedBy("caller", Panics("migrate", 0, "private")), Sends("migrate", 0, 2),
     Views("get", 0, 2), Views("revisionOf", 0, 2), One(Field("STATE"), "Migrated"),
     Stores([k \in {Field("total"), Field("revision"), Field("value")} |-> 2]),
     Panics("migrate", 0, "incompatible"), Sends("increment", <<0, 1>>, Anything),
     Views("get", 0, 3), Views("revisionOf", 0, 2) >>

CounterScript == Fresh \o Counting \o Migrating

\* The client may give up the call before the yielded receipt runs; then the gate asks for its
\* effect.  It expects the malformed token to be rejected, whatever the client is told.
YieldScript ==
  Deployed(0)
    \o << Views("get", 0, 0), Tolerates(Sends("scheduleYield", 41, Anything)), PollsUntil("get", 0, 41) >>
    \o Try(<< Sends("resumeYield", 0, Anything) >>)
    \o << Views("get", 0, 41) >>

-----------------------------------------------------------------------------
(***************************************************************************)
(* The gates of the contracts that compute or keep single values.          *)
(***************************************************************************)
WordOf == Half * Half

\* The largest word, and the word with the top bit only.
Ones == WordOf - 1

Top == WordOf \div 2

\* The entries of one computation, with what they answer.
Answers(method, parts) == [i \in 1..Len(parts) |-> Views(method, parts[i][1], parts[i][2])]

Whole(method, ok, w0, w1) == Answers(method, << <<"Ok", ok>>, <<"W0", w0>>, <<"W1", w1>> >>)

High(method, w1) == Answers(method, << <<"Ok", 1>>, <<"W1", w1>> >>)

NotRepresentable(method) == Answers(method, << <<"Ok", 0>> >>)

TokenArithmeticScript ==
  Deployed(0) \o << Remembers >>
    \o Whole("addCarry", 1, 0, 1) \o Whole("addOverflow", 0, 0, 0) \o High("addHigh", Ones - 1)
    \o Whole("subBorrow", 1, Ones, 0) \o Whole("subUnderflow", 0, Ones, Ones) \o High("subHigh", 1)
    \o Whole("mulFactorZero", 1, 0, 0) \o Whole("mulTokenZero", 1, 0, 0) \o Whole("mulMixed", 1, 2, 2)
    \o Whole("mulU64Square", 1, 1, Ones - 1) \o High("mulMaxOne", Ones) \o NotRepresentable("mulMaxTwo")
    \o High("mulHighFit", Ones) \o Whole("mulExactMax", 1, Ones, Ones) \o NotRepresentable("mulCarryOverflow")
    \o Whole("mulCarryBoundary", 1, (Half - 1) * Half, Ones)
    \o << Unchanged >>

\* A view that must fail, whatever it fails for.
ViewFails(method) == Try(<< Views(method, 0, Anything) >>)

MemoryScript ==
  Deployed(0)
    \o << Views("roundTrip", 1, 1), Views("roundTrip", 12, 12), Views("startsZero", 0, 0),
          Views("startsZero", 0, 0), Views("growAndReuse", 7, 7), Views("growAndReuse", 99, 99) >>
    \o ViewFails("outOfBounds") \o ViewFails("staleHandle") \o ViewFails("wrongCapacity")
    \o ViewFails("doubleBegin")

-----------------------------------------------------------------------------
TokenKey == <<"TOK1", 0>>

Decoded(w0, w1) == << Views("readW0", 0, w0), Views("readW1", 0, w1) >>

Fallback == Decoded(90, 90)

Described(length, fitting) ==
  << Views("readStatus", 0, 1), Views("readLength", 0, length), Views("readFits", 0, fitting) >>

TokenStorageScript ==
  Deployed(0)
    \o << Views("has", 0, 0), Views("readStatus", 0, 0), Views("readLength", 0, 0), Views("readFits", 0, 1) >>
    \o Fallback \o << Sends("putMixed", 0, 0) >> \o Decoded(3, 4)
    \o << One(TokenKey, Stored(16, 3, 4)), Views("staleAfterMissW0", 0, 90),
          Sends("putMax", 0, 1), Views("get", 0, 1) >>
    \o Decoded(9, 9) \o << One(TokenKey, Stored(16, 9, 9)), Sends("putShort", 0, 1) >>
    \o Described(8, 1) \o Fallback \o << Sends("putOversized", 20, 1) >>
    \o Described(20, 0) \o Fallback \o << One(TokenKey, Stored(20, 0, 0)), Sends("putZero", 0, 1) >>
    \o Decoded(0, 0) \o << Views("has", 0, 1), One(TokenKey, Stored(16, 0, 0)),
          Sends("remove", 0, 1), Lacks({TokenKey}), Sends("remove", 0, 0) >> \o Fallback

\* The usage the gate starts from, and what its first insert is found to add.
Baseline == 200

Short4 == 47

StorageEconomicsScript ==
  Deployed(0)
    \o << Views("usage", 0, Baseline), Views("usage", 0, Baseline), Sends("insertShort4", 0, Short4),
          Sends("replaceShort4", 0, 0), Sends("growShort8", 0, 4), Sends("removeShort", 0, Short4 + 4),
          Sends("removeMissing", 0, 0), Sends("insertLong4", 0, Short4 + 4),
          Sends("removeLong", 0, Short4 + 4), Views("usage", 0, Baseline) >>

BothFields == << Views("left", 0, 11), Views("right", 0, 22) >>

JsonBooleanScript ==
  Deployed(0)
    \o << Sends("setChecked", 0, 0) >> \o BothFields \o << Sends("setChecked", 1, 1) >>
    \o BothFields \o BothFields \o Try(<< Sends("setChecked", 2, Anything) >>) \o BothFields
    \o << Sends("setChecked", 0, 0), Sends("setChecked", 1, 1) >>
==============================================================================
