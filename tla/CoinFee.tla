------------------------------ MODULE CoinFee -------------------------------
(***************************************************************************)
(* Coin, Milli and LinearFee of chain-core.  An operation that may return  *)
(* an error returns a set: of the result, or empty.                        *)
(***************************************************************************)
EXTENDS Integers, Sequences, SequencesExt

CONSTANTS
  MAX_COIN,      \* total supply
  Word           \* 2^64: what an unchecked sum or product wraps at

ASSUME WordAssumption == MAX_COIN \in Nat /\ Word \in Nat /\ MAX_COIN < Word

new_coin(v) == IF v <= MAX_COIN THEN {v} ELSE {}

\* checked_add, then Coin::new.
add(a, b) == IF a + b >= Word THEN {} ELSE new_coin(a + b)

sub(a, b) == IF b > a THEN {} ELSE new_coin(a - b)

sum_coins(coins) ==
  FoldLeft(LAMBDA acc, c : UNION {add(v, c) : v \in acc}, new_coin(0), coins)

\* A Milli is a number of thousandths.  These operations wrap in a release build.
milli_new(i, f) == ((i * 1000) + (f % 1000)) % Word
integral(i) == (i * 1000) % Word
milli_add(a, b) == (a + b) % Word
milli_mul(a, b) == ((a * b) \div 1000) % Word

\* Mutant: the fraction is cut off.
Truncated(x) == x \div 1000

to_integral(x) == IF x % 1000 = 0 THEN x \div 1000 ELSE (x \div 1000) + 1

estimate(policy, size) ==
  new_coin(to_integral(milli_add(policy.constant, milli_mul(policy.coefficient, integral(size)))))

\* The affine formula of LinearFee, rounded up, over unbounded integers.
ReferenceFee(policy, size) ==
  CHOOSE f \in 0..MAX_COIN : /\ 1000 * f >= policy.constant + policy.coefficient * size
                             /\ 1000 * (f - 1) < policy.constant + policy.coefficient * size
=============================================================================
