-------------------------------- MODULE Clz --------------------------------
(***************************************************************************)
(* mg_port_clz of the ARMv6-M port, which has no instruction that counts   *)
(* leading zeros: it isolates the most significant bit of v, multiplies a  *)
(* deBruijn sequence by it and looks the five highest bits of the product  *)
(* up in a table.  A 32-bit word is the set of the positions of its ones.  *)
(***************************************************************************)
EXTENDS Integers, Sequences

Bit == 0..31

ShiftRight(v, n) == {b - n : b \in {c \in v : c >= n}}
ShiftLeft(v, n) == {b + n : b \in {c \in v : c + n \in Bit}}

\* v |= v >> 1 ... v |= v >> 16: every bit below a one becomes a one.
Smear(v) ==
  LET Or(w, n) == w \cup ShiftRight(w, n)
  IN Or(Or(Or(Or(Or(v, 1), 2), 4), 8), 16)

\* v -= v >> 1, which borrows nothing: v >> 1 has no bit that v has not.
MsbOnly(v) == Smear(v) \ ShiftRight(Smear(v), 1)

\* 0x077CB531
DeBruijn == {0, 4, 5, 8, 10, 12, 13, 15, 18, 19, 20, 21, 22, 24, 25, 26}

\* Mutant: two entries are exchanged.
MutantHash ==
  <<31, 30, 3, 29, 2, 17, 7, 28, 1, 9, 16, 11, 6, 14, 27, 23,
    0, 4, 18, 8, 10, 12, 15, 24, 5, 19, 13, 25, 20, 26, 21, 22>>

hash ==
  <<31, 30, 3, 29, 2, 17, 7, 28, 1, 9, 11, 16, 6, 14, 27, 23,
    0, 4, 18, 8, 10, 12, 15, 24, 5, 19, 13, 25, 20, 26, 21, 22>>

\* hash[_mul(v, 0x077CB531U) >> 27], v having one bit left.
mg_port_clz(v) ==
  LET product == UNION {ShiftLeft(DeBruijn, b) : b \in MsbOnly(v)}
      One(b) == IF b \in product THEN 1 ELSE 0
      index == One(27) + 2 * One(28) + 4 * One(29) + 8 * One(30) + 16 * One(31)
  IN hash[index + 1]

=============================================================================
