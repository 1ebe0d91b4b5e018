-------------------------------- MODULE Bits --------------------------------
(* Shifts of unsigned numbers, as far as they do not overflow. *)
EXTENDS Naturals

Shift[n \in Nat] == IF n = 0 THEN 1 ELSE 2 * Shift[n - 1]  \* 1 << n

\* The i-th group of d bits of v: v >> (d * i) & (1 << d - 1).
Group(v, d, i) == (v \div Shift[d * i]) % Shift[d]
=============================================================================
