------------------------------- MODULE NearValues -------------------------------
(***************************************************************************)
(* Three contracts of a few entries each: NearTokenStorage,                *)
(* NearStorageEconomics and NearJsonBooleanMutation.                       *)
(***************************************************************************)
EXTENDS FlatStorage, FiniteSetsExt

-----------------------------------------------------------------------------
(***************************************************************************)
(* A token kept as 16 bytes under one key, or a value of another length    *)
(* that reads as the fallback.                                             *)
(***************************************************************************)
Codec == INSTANCE NearLookup

tokenKey == <<"TOK1", 0>>

absentKey == <<"MISS", 0>>

TokenLength(s) == IF tokenKey \in DOMAIN s THEN s[tokenKey].length ELSE 0

TokenWord(s, key, w) == Codec!word(s, key, w, 90)

PutToken(s, value) == Marked(write(s, tokenKey, value), status(s, tokenKey))

TokensRun(s, method, arg) ==
  CASE method = "initialize" -> initialize(s, [k \in {Field("marker")} |-> arg])
    [] method = "putMixed" -> PutToken(s, Codec!Token(3, 4))
    [] method = "putMax" -> PutToken(s, Codec!Token(9, 9))
    [] method = "putZero" -> PutToken(s, Codec!Token(0, 0))
    [] method = "putShort" -> PutToken(s, Codec!MalformedToken(8))
    [] method = "putOversized" -> PutToken(s, Codec!MalformedToken(arg))
    [] method = "remove" -> Marked(remove(s, tokenKey), status(s, tokenKey))

\* A buffer of 16 bytes.
TokensView(s, method, arg) ==
  CASE method = "get" -> s[Field("marker")]
    [] method \in {"has", "readStatus"} -> status(s, tokenKey)
    [] method = "readLength" -> TokenLength(s)
    [] method = "readFits" -> IF TokenLength(s) <= 16 THEN 1 ELSE 0
    [] method = "readW0" -> TokenWord(s, tokenKey, "w0")
    [] method = "readW1" -> TokenWord(s, tokenKey, "w1")
    [] method = "staleAfterMissW0" -> TokenWord(s, absentKey, "w0")

-----------------------------------------------------------------------------
(***************************************************************************)
(* What a write or a removal adds to the storage usage the host reports,   *)
(* or takes from it.  A key <<"key", n>> is n bytes long, and its value is *)
(* its length.                                                             *)
(***************************************************************************)
PerRecord == 40    \* the host's bytes for a record, beside its key and its value
PerAccount == 200  \* the usage of the account, its code and the contract's own fields
Wrap == 1000       \* stands for 2^64

shortKey == <<"key", 3>>
longKey == <<"key", 7>>
missingKey == <<"key", 2>>

storageUsage(s) ==
  PerAccount + MapThenSumSet(LAMBDA k : k[2] + s[k] + PerRecord, {k \in DOMAIN s : k[1] = "key"})

\* The difference of two readings, and the usage as it is before the answer is kept.
Grown(s, after) == Marked(after, (storageUsage(after) + Wrap - storageUsage(s)) % Wrap)

Reclaimed(s, after) == Marked(after, (storageUsage(s) + Wrap - storageUsage(after)) % Wrap)

EconomicsRun(s, method, arg) ==
  CASE method = "initialize" -> initialize(s, [k \in {Field("marker")} |-> arg])
    [] method \in {"insertShort4", "replaceShort4"} -> Grown(s, write(s, shortKey, 4))
    [] method = "growShort8" -> Grown(s, write(s, shortKey, 8))
    [] method = "insertLong4" -> Grown(s, write(s, longKey, 4))
    [] method = "removeShort" -> Reclaimed(s, remove(s, shortKey))
    [] method = "removeLong" -> Reclaimed(s, remove(s, longKey))
    [] method = "removeMissing" -> Reclaimed(s, remove(s, missingKey))

EconomicsView(s, method, arg) ==
  CASE method = "get" -> s[Field("marker")]
    [] method = "usage" -> storageUsage(s)

-----------------------------------------------------------------------------
(***************************************************************************)
(* Two fields that are written before the answer is encoded: a             *)
(* discriminant that is neither 0 nor 1 traps there.                       *)
(***************************************************************************)
left == Field("left")

right == Field("right")

setChecked(s, result) ==
  When(result \in {0, 1}, s, Returns(write(write(s, left, 11), right, 22), result))

BooleanRun(s, method, arg) ==
  CASE method = "initialize" -> initialize(s, [k \in {left, right} |-> IF k = left THEN 1 ELSE 2])
    [] method = "setChecked" -> setChecked(s, arg)

BooleanView(s, method, arg) ==
  CASE method \in {"get", "left"} -> s[left]
    [] method = "right" -> s[right]
==============================================================================
