--------------------------- MODULE NearTokenArithmetic ---------------------------
(***************************************************************************)
(* NearToken, an unsigned number of two words, the arithmetic that is      *)
(* emitted for it, and the contract NearTokenArithmetic.  A word wraps; a  *)
(* product of two words is put together from the products of their halves. *)
(***************************************************************************)
EXTENDS Naturals

CONSTANT Half  \* the values of half a word: 2^32

Word == Half * Half

MaxWord == Word - 1

ofLimbs(w0, w1) == [w0 |-> w0, w1 |-> w1]

NearToken == [w0 : 0..MaxWord, w1 : 0..MaxWord]

add64(x, y) == (x + y) % Word

sub64(x, y) == (x + Word - y) % Word

Bit(b) == IF b THEN 1 ELSE 0

le(left, right) == left.w1 < right.w1 \/ (left.w1 = right.w1 /\ left.w0 <= right.w0)

lt(left, right) == le(left, right) /\ left # right

-----------------------------------------------------------------------------
carry(left, right) == Bit(add64(left.w0, right.w0) < left.w0)

borrow(left, right) == Bit(left.w0 < right.w0)

\* The overflow of either addition of the high words.
canAdd(left, right) ==
  LET base == add64(left.w1, right.w1) IN
  base >= left.w1 /\ add64(base, carry(left, right)) >= base

add(left, right) ==
  ofLimbs(add64(left.w0, right.w0), add64(add64(left.w1, right.w1), carry(left, right)))

canSub(left, right) == left.w1 > right.w1 \/ (left.w1 = right.w1 /\ left.w0 >= right.w0)

sub(left, right) ==
  ofLimbs(sub64(left.w0, right.w0), sub64(sub64(left.w1, right.w1), borrow(left, right)))

lo(x) == x % Half

hi(x) == x \div Half

\* The cross products, the second added to the lower half of the first only.
cross(a, b) == add64(hi(a) * lo(b), hi(lo(a) * lo(b)))

mul64_lo(a, b) ==
  add64(lo(add64(lo(cross(a, b)), lo(a) * hi(b))) * Half, lo(lo(a) * lo(b)))

mul64_hiWithoutCarry(a, b) == add64(hi(a) * hi(b), hi(cross(a, b)))

mul64_hi(a, b) ==
  add64(add64(hi(a) * hi(b), hi(cross(a, b))), hi(add64(lo(cross(a, b)), lo(a) * hi(b))))

mulUInt64(value, factor) ==
  ofLimbs(mul64_lo(value.w0, factor), add64(mul64_hi(value.w0, factor), mul64_lo(value.w1, factor)))

canMulUInt64(value, factor) ==
  mul64_hi(value.w1, factor) = 0 /\ mulUInt64(value, factor).w1 >= mul64_hi(value.w0, factor)

-----------------------------------------------------------------------------
(***************************************************************************)
(* What the numbers are.                                                   *)
(***************************************************************************)
Number(token) == token.w0 + Word * token.w1

ComparesNumbers ==
  \A l, r \in NearToken :
    /\ le(l, r) <=> Number(l) <= Number(r)
    /\ lt(l, r) <=> Number(l) < Number(r)

AddsNumbers ==
  \A l, r \in NearToken :
    /\ canAdd(l, r) <=> Number(l) + Number(r) < Word * Word
    /\ Number(add(l, r)) = (Number(l) + Number(r)) % (Word * Word)

SubtractsNumbers ==
  \A l, r \in NearToken :
    /\ canSub(l, r) <=> Number(l) >= Number(r)
    /\ Number(sub(l, r)) = (Number(l) + Word * Word - Number(r)) % (Word * Word)

\* The product's words are meant only when it can be represented.
MultipliesNumbers ==
  \A value \in NearToken, factor \in 0..MaxWord :
    /\ canMulUInt64(value, factor) <=> Number(value) * factor < Word * Word
    /\ canMulUInt64(value, factor) => Number(mulUInt64(value, factor)) = Number(value) * factor

-----------------------------------------------------------------------------
(***************************************************************************)
(* The contract: sums, differences and products of fixed operands.  Its    *)
(* entries addCarryOk, addCarryW0 and addCarryW1 are the method addCarry   *)
(* and the part they answer with, and so are the others.                   *)
(***************************************************************************)
Parts(ok, token) == [Ok |-> Bit(ok), W0 |-> token.w0, W1 |-> token.w1]

Sum(l, r) == Parts(canAdd(l, r), add(l, r))

Difference(l, r) == Parts(canSub(l, r), sub(l, r))

Product(value, factor) == Parts(canMulUInt64(value, factor), mulUInt64(value, factor))

TopBit == Word \div 2

Result(method) ==
  CASE method = "addCarry" -> Sum(ofLimbs(MaxWord, 0), ofLimbs(1, 0))
    [] method = "addOverflow" -> Sum(ofLimbs(MaxWord, MaxWord), ofLimbs(1, 0))
    [] method = "addHigh" -> Sum(ofLimbs(0, TopBit), ofLimbs(1, TopBit - 2))
    [] method = "subBorrow" -> Difference(ofLimbs(0, 1), ofLimbs(1, 0))
    [] method = "subUnderflow" -> Difference(ofLimbs(0, 0), ofLimbs(1, 0))
    [] method = "subHigh" -> Difference(ofLimbs(0, TopBit), ofLimbs(0, TopBit - 1))
    [] method = "mulFactorZero" -> Product(ofLimbs(7, 9), 0)
    [] method = "mulTokenZero" -> Product(ofLimbs(0, 0), MaxWord)
    [] method = "mulMixed" -> Product(ofLimbs(1, 1), 2)
    [] method = "mulU64Square" -> Product(ofLimbs(MaxWord, 0), MaxWord)
    [] method = "mulMaxOne" -> Product(ofLimbs(MaxWord, MaxWord), 1)
    [] method = "mulMaxTwo" -> Product(ofLimbs(MaxWord, MaxWord), 2)
    [] method = "mulHighFit" -> Product(ofLimbs(0, 1), MaxWord)
    [] method = "mulExactMax" -> Product(ofLimbs(1, 1), MaxWord)
    [] method = "mulCarryOverflow" -> Product(ofLimbs(MaxWord, 1), MaxWord)
    [] method = "mulCarryBoundary" -> Product(ofLimbs(MaxWord, Half - 1), Half)

View(method, part) == Result(method)[part]
==============================================================================
