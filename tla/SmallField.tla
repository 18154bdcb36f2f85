----------------------------- MODULE SmallField -----------------------------
(* The binary field of sixteen elements, GF(2)[x] / (x^4 + x + 1), an        *)
(* element being the number its coefficients spell; and the multilinear      *)
(* polynomials over it.  The code is generic in the field: it asks for a     *)
(* binary field whose degree is a power of two.  Buffers are functions on    *)
(* 0..2^n-1, lists are sequences; the low bit of a buffer's index is the     *)
(* first variable.                                                           *)
EXTENDS Naturals, Sequences, FiniteSets, TLC, Bitwise

Field == 0..15

Powers == <<1, 2, 4, 8, 3, 6, 12, 11, 5, 10, 7, 14, 15, 13, 9>>
Log == [a \in Field \ {0} |-> CHOOSE e \in 1..15 : Powers[e] = a]
AddTable == [a \in Field |-> [b \in Field |-> a ^^ b]]
MulTable == [a \in Field |-> [b \in Field |->
  IF 0 \in {a, b} THEN 0 ELSE Powers[((Log[a] + Log[b] - 2) % 15) + 1]]]

a ++ b == AddTable[a][b]
a ** b == MulTable[a][b]
invert_or_zero(a) == IF a = 0 THEN 0 ELSE CHOOSE b \in Field : a ** b = 1
TRACE_ONE_ELEMENT == 8

Power(a, n) == LET p[i \in 0..n] == IF i = 0 THEN 1 ELSE p[i - 1] ** a IN p[n]

(* The sum of f over 0..n-1. *)
SumTo(n, f) == LET s[i \in 0..n] == IF i = 0 THEN 0 ELSE s[i - 1] ++ f[i - 1] IN s[n]

Log2(n)    == CHOOSE k \in 0..n : 2^k = n
log_len(b) == Log2(Cardinality(DOMAIN b))
Bit(x, j)  == (x \div 2^j) % 2

extrapolate_line(x0, x1, z) == x0 ++ (x1 ++ x0) ** z
evaluate_univariate(coeffs, x) ==
  SumTo(Len(coeffs), [i \in 0..Len(coeffs) - 1 |-> coeffs[i + 1] ** Power(x, i)])

(* The indicator of corner x of the cube, at the point. *)
eq_ind(x, point) ==
  LET e[j \in 0..Len(point)] ==
        IF j = 0 THEN 1
        ELSE e[j - 1] ** (IF Bit(x, j - 1) = 1 THEN point[j] ELSE 1 ++ point[j])
  IN  e[Len(point)]
eq_ind_zero(point)         == eq_ind(0, point)
eq_ind_partial_eval(point) == [x \in 0..2^Len(point) - 1 |-> eq_ind(x, point)]

inner_product(a, b) == SumTo(Cardinality(DOMAIN a), [x \in DOMAIN a |-> a[x] ** b[x]])
evaluate(b, point)  == inner_product(b, eq_ind_partial_eval(point))

Low(b)  == [x \in 0..Cardinality(DOMAIN b) \div 2 - 1 |-> b[x]]
High(b) == [x \in DOMAIN Low(b) |-> b[x + Cardinality(DOMAIN b) \div 2]]
fold_highest_var(b, r) == [x \in DOMAIN Low(b) |-> extrapolate_line(b[x], High(b)[x], r)]

(* Consecutive elements of a buffer, 2^log_size at a time. *)
Chunk(b, log_size, i) == [x \in 0..2^log_size - 1 |-> b[i * 2^log_size + x]]
=============================================================================
