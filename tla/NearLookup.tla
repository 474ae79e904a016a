------------------------------- MODULE NearLookup -------------------------------
(***************************************************************************)
(* DirectLookupMap64, DirectLookupSet64, the map from accounts to tokens   *)
(* and the contract NearLookup: one key per entry under a prefix of its    *)
(* own, and no length.  A token is kept as 16 bytes, two words; a value of *)
(* any other length reads as the fallback of either word.                  *)
(***************************************************************************)
EXTENDS FlatStorage

mapKey(key) == <<"MAP1", key>>

setKey(value) == <<"SET1", value>>

balance(account) == <<"BAL1", account>>

isolatedBalance(account) == <<"ALT1", account>>

Token(w0, w1) == [length |-> 16, w0 |-> w0, w1 |-> w1]

MalformedToken(bytes) == [length |-> bytes, w0 |-> 0, w1 |-> 0]

wordOfAnyLength(s, key, w, fallback) == IF key \in DOMAIN s THEN s[key][w] ELSE fallback

word(s, key, w, fallback) ==
  IF key \in DOMAIN s /\ s[key].length = 16 THEN s[key][w] ELSE fallback

\* An immediate write answers 0 for an insertion and 1 for a replacement.
put(s, key, value) == Marked(write(s, key, value), status(s, key))

Removal(s, key) == Marked(remove(s, key), status(s, key))

\* The accounts of the fixture: the contract's own, the two-byte "aa", and the caller's.
Self == 0
Short == 1
Caller == 2

Run(s, method, arg) ==
  CASE method = "initialize" -> initialize(s, [key \in {Field("marker")} |-> arg])
    [] method = "mapPut" -> put(s, mapKey(7), arg)
    [] method = "mapRemove" -> Removal(s, mapKey(7))
    [] method = "setInsert" -> put(s, setKey(arg), 0)
    [] method = "setRemove" -> Removal(s, setKey(arg))
    [] method = "tokenPutSelfMixed" -> put(s, balance(Self), Token(3, 4))
    [] method = "tokenPutSelfZero" -> put(s, balance(Self), Token(0, 0))
    [] method = "tokenSeedSelfMalformed" -> put(s, balance(Self), MalformedToken(arg))
    [] method = "tokenPutCallerMax" -> put(s, balance(Caller), Token(9, 9))
    [] method = "tokenPutShortFixture" -> put(s, balance(Short), Token(1, 2))
    [] method = "tokenRemoveShortFixture" -> Removal(s, balance(Short))
    [] method = "tokenRemoveSelf" -> Removal(s, balance(Self))
    [] method = "tokenHasCaller" -> Marked(s, status(s, balance(Caller)))
    [] method = "tokenReadCallerW0" -> Marked(s, word(s, balance(Caller), "w0", 0))
    [] method = "tokenReadCallerW1" -> Marked(s, word(s, balance(Caller), "w1", 0))

View(s, method, arg) ==
  CASE method = "mapHas" -> status(s, mapKey(arg))
    [] method = "mapGet" -> read(s, mapKey(arg), 0)
    [] method = "setHas" -> status(s, setKey(arg))
    [] method = "tokenHasSelf" -> status(s, balance(Self))
    [] method = "tokenHasSelfIsolated" -> status(s, isolatedBalance(Self))
    [] method = "tokenHasShortFixture" -> status(s, balance(Short))
    [] method = "tokenReadShortW0" -> word(s, balance(Short), "w0", 0)
    [] method = "tokenReadSelfW0" -> word(s, balance(Self), "w0", 1)
    [] method = "tokenReadSelfW1" -> word(s, balance(Self), "w1", 2)
==============================================================================
