-------------------------------- MODULE Words --------------------------------
(* The arithmetic of a word (crates/core/src/word.rs).  A word is the set of *)
(* its bits that are one.                                                    *)
EXTENDS ShiftAlgebra, FiniteSetsExt, SequencesExt

Word    == SUBSET Bits
ALL_ONE == Bits
MSB     == Width - 1
MSB_ONE == {MSB}

Xor(x, y)     == (x \ y) \cup (y \ x)
XorAll(words) == FoldLeft(Xor, {}, words)
Shifted(s, x) == {i \in Bits : Map(s)[i] \in x}

ValueOf     == [x \in Word |-> SumSet({2^i : i \in x})]
\* Mutant: a sum or a product does not wrap.
WordOfUnwrapped(n) == {i \in 0..2 * Width : (n \div 2^i) % 2 = 1}
WordOf(n) == {i \in Bits : (n \div 2^i) % 2 = 1}
IsMsbTrue(x) == MSB \in x

(* A sum and the carry out of each of its bits. *)
WithCarries(x, y, sum) == <<sum, (x \cap y) \cup (Xor(x, y) \ sum)>>
iadd_cin_cout(x, y, cin) == WithCarries(x, y, WordOf(ValueOf[x] + ValueOf[y] + cin))

(* Mutant: the upper half takes the carry of the lower half. *)
iadd32_carried(x, y, cin) == iadd_cin_cout(x, y, IF Half - 1 \in cin THEN 1 ELSE 0)

iadd32_cin_cout(x, y, cin) ==
  LET low(w)  == w \cap 0..Half - 1
      high(w) == {i - Half : i \in w \ low(w)}
      carry(top) == IF top \in cin THEN 1 ELSE 0
      add(a, b, c) == low(WordOf(ValueOf[a] + ValueOf[b] + c))
  IN  WithCarries(x, y, add(low(x), low(y), carry(Half - 1))
                        \cup {i + Half : i \in add(high(x), high(y), carry(MSB))})

isub_bin_bout(x, y, bin) ==
  LET diff == WordOf((ValueOf[x] - ValueOf[y] - bin) % 2^Width)
  IN  <<diff, (y \ x) \cup (diff \ Xor(x, y))>>

imul(x, y) ==
  LET product == ValueOf[x] * ValueOf[y] IN <<WordOf(product \div 2^Width), WordOf(product)>>

(* The product of two elements of the binary field, each given as two words, *)
(* low bits first, with the field's degree that of two words: reduced by     *)
(* X^degree + X^7 + X^2 + X + 1.                                             *)
degree == 2 * Width
Element(lo, hi) == lo \cup {i + Width : i \in hi}
Reduce(p, k) == IF k \in p THEN Xor(p, {k} \cup {k - degree + e : e \in {0, 1, 2, 7}}) ELSE p
ghash_mul(a, b) ==
  LET product == {k \in 0..2 * degree - 2 : Cardinality({i \in a : k - i \in b}) % 2 = 1}
      reduced == FoldLeft(Reduce, product, [n \in 1..degree - 1 |-> 2 * degree - 1 - n])
  IN  <<reduced \cap Bits, {i - Width : i \in reduced \ Bits}>>
==============================================================================
