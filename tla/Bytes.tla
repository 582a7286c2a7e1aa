-------------------------------- MODULE Bytes --------------------------------
(* Numbers as bytes, util/chk_order.h.                                      *)
EXTENDS Integers, Sequences, SequencesExt

CONSTANT Base      \* how many values a byte has (256)
ASSUME BaseAssumption == Base \in Nat \ {0, 1}

(* A loop that has come to its end within n rounds.                        *)
Repeated(Round(_), n, start) ==
  LET after[k \in 0..n] == IF k = 0 THEN start ELSE Round(after[k - 1]) IN after[n]
Raised(x) == x * Base
Power(k) == Repeated(Raised, k, 1)   \* Base to the k

(* The cells of a number of k bytes, the first one the highest, as hton    *)
(* and memrevifle leave it, and back; negative numbers wrap.               *)
Cells(n, k) == [i \in 1..k |-> (n \div Power(k - i)) % Base]
Joined(r) == IF r.rest = <<>> THEN r ELSE [n |-> r.n * Base + Head(r.rest), rest |-> Tail(r.rest)]
Unsigned(cells) == Repeated(Joined, Len(cells), [n |-> 0, rest |-> cells]).n
Signed(cells) ==
  LET n == Unsigned(cells) IN IF 2 * n < Power(Len(cells)) THEN n ELSE n - Power(Len(cells))
=============================================================================
