---------------------------- MODULE FusionProofs ----------------------------
(* Proofs about gate fusion, for words of every even width from four on,     *)
(* circuits of any size and any limits on depth and growth: first about      *)
(* shifts (what two of them compose to does what they do, and two are kept   *)
(* only where one would not do), then about what fusion makes of a circuit.  *)
EXTENDS Fusion, DataFacts

(* Half words and whole words, and the amounts there are of either. *)
LEMMA Widths ==
  /\ Half \in Nat /\ Half >= 2 /\ Width = 2 * Half /\ Bits = 0..Width - 1
  /\ \A v \in ShiftVariant : max_amount(v) \in {Half, Width}
BY WidthAssumption DEF Half, Bits, max_amount

(* Four operations, on whole words and on halves. *)
LEMMA VariantsOK ==
  /\ \A op \in {"sll", "slr", "sar", "rotr"} : Whole(op) \in ShiftVariant /\ Halves(op) \in ShiftVariant
  /\ \A v \in ShiftVariant : v.op \in {"sll", "slr", "sar", "rotr"} /\ v.half \in BOOLEAN
BY DEF ShiftVariant, Whole, Halves

(* A shift is its variant and an amount below that variant's bound. *)
LEMMA ShiftOK ==
  /\ \A s \in Shift : /\ s.variant \in ShiftVariant /\ s.amount \in Nat
                      /\ s.amount < max_amount(s.variant) /\ s = Sh(s.variant, s.amount)
  /\ \A v \in ShiftVariant, n \in Nat : n < max_amount(v) => Sh(v, n) \in Shift
<1>1. ASSUME NEW s \in Shift
      PROVE  /\ s.variant \in ShiftVariant /\ s.amount \in Nat
             /\ s.amount < max_amount(s.variant) /\ s = Sh(s.variant, s.amount)
  BY Widths DEF Shift, Sh
<1>2. ASSUME NEW v \in ShiftVariant, NEW n \in Nat, n < max_amount(v)
      PROVE  Sh(v, n) \in Shift
  <2>1. n \in Bits
    BY <1>2, Widths
  <2> QED BY <1>2, <2>1 DEF Shift, Sh
<1> QED BY <1>1, <1>2

(* A shift does nothing if and only if its amount is zero. *)
LEMMA IdentityOK ==
  /\ IDENTITY \in Shift /\ is_identity(IDENTITY) /\ IDENTITY.variant = Whole("sll")
  /\ \A s \in Shift : is_identity(s) <=> s.amount = 0
<1>1. Whole("sll") \in ShiftVariant /\ 0 < max_amount(Whole("sll"))
  BY VariantsOK, Widths
<1> QED BY <1>1, ShiftOK DEF IDENTITY, is_identity, Sh

(* What two shifts compose to: a single shift, zero, or the two they are. *)
Composed == {Zero, Pair} \cup {Single(s) : s \in Shift}

(* The three kinds of result are told apart. *)
LEMMA KindsApart ==
  /\ \A s : Single(s).kind = "Single" /\ Single(s).shift = s /\ Single(s) # Pair /\ Single(s) # Zero
  /\ Zero.kind = "Zero" /\ Pair.kind = "Pair" /\ Zero # Pair
  /\ \A c \in Composed : /\ c.kind \in {"Zero", "Pair", "Single"}
                         /\ c.kind = "Single" => c.shift \in Shift /\ c = Single(c.shift)
                         /\ c.kind = "Pair" => c = Pair
                         /\ c.kind = "Zero" => c = Zero
BY DEF Composed, Single, Pair, Zero

(* A composition looked up in the table is the one the rules give. *)
LEMMA ComposeIs ==
  ASSUME NEW inner \in Shift, NEW outer \in Shift
  PROVE  Compose(inner, outer) =
           Composition(inner, outer, Degenerate(inner, outer), Chained(inner, outer))
BY DEF Compose, Compositions

(* Amounts that add up make one shift of that variant, or leave nothing. *)
LEMMA ChainedCompositionOK ==
  ASSUME NEW v \in ShiftVariant, NEW n \in Nat
  PROVE  \/ ChainedComposition(v, n) = Zero
         \/ \E s \in Shift : /\ ChainedComposition(v, n) = Single(s)
                             /\ s.variant = v \/ s = IDENTITY
<1> DEFINE w == max_amount(v)
<1>1. w \in Nat /\ w > 0
  BY Widths
<1>2. v.op \in {"sll", "slr", "sar", "rotr"}
  BY VariantsOK
<1>3. \A k \in Nat : Sh(v, k).variant = v
  BY DEF Sh
<1>4. CASE v.op \in {"sll", "slr"}
  BY <1>1, <1>3, <1>4, ShiftOK DEF ChainedComposition
<1>5. CASE v.op = "sar"
  <2>1. ChainedComposition(v, n) = Single(Sh(v, IF n < w THEN n ELSE w - 1))
    BY <1>5 DEF ChainedComposition
  <2> QED BY <1>1, <1>3, <2>1, ShiftOK
<1>6. CASE v.op = "rotr"
  <2>1. ChainedComposition(v, n) = Single(IF n % w = 0 THEN IDENTITY ELSE Sh(v, n % w))
    BY <1>6 DEF ChainedComposition
  <2>2. n % w \in Nat /\ n % w < w
    BY <1>1
  <2> QED BY <1>3, <2>1, <2>2, ShiftOK, IdentityOK
<1> QED BY <1>2, <1>4, <1>5, <1>6

(* Two shifts compose to one of the three kinds. *)
LEMMA ComposeType ==
  ASSUME NEW inner \in Shift, NEW outer \in Shift
  PROVE  Compose(inner, outer) \in Composed
<1> DEFINE degenerate == Degenerate(inner, outer)
           chained == Chained(inner, outer)
           c == Composition(inner, outer, degenerate, chained)
<1>1. Compose(inner, outer) = c
  BY ComposeIs
<1>2. degenerate \subseteq {inner, outer} /\ chained \subseteq ShiftVariant
  BY DEF Degenerate, Chained
<1> HIDE DEF degenerate, chained
<1>3. CASE is_identity(inner) \/ is_identity(outer)
  BY <1>1, <1>3 DEF Composition, Composed
<1>4. CASE ~is_identity(inner) /\ ~is_identity(outer) /\ degenerate # {}
  <2>1. c = Single(CHOOSE s \in degenerate : TRUE)
    BY <1>4 DEF Composition
  <2>2. (CHOOSE s \in degenerate : TRUE) \in Shift
    BY <1>2, <1>4
  <2> QED BY <1>1, <2>1, <2>2 DEF Composed
<1>5. CASE ~is_identity(inner) /\ ~is_identity(outer) /\ degenerate = {} /\ chained = {}
  BY <1>1, <1>5 DEF Composition, Composed
<1>6. CASE ~is_identity(inner) /\ ~is_identity(outer) /\ degenerate = {} /\ chained # {}
  <2> DEFINE v == CHOOSE x \in chained : TRUE
             n == inner.amount + outer.amount
  <2>1. c = ChainedComposition(v, n)
    BY <1>6 DEF Composition
  <2>2. v \in ShiftVariant /\ n \in Nat
    BY <1>2, <1>6, ShiftOK
  <2> HIDE DEF v, n
  <2> QED BY <1>1, <2>1, <2>2, ChainedCompositionOK DEF Composed
<1> QED BY <1>3, <1>4, <1>5, <1>6

(* A shift that does nothing leaves the other, and is never one of two. *)
LEMMA ComposeIdentity ==
  ASSUME NEW inner \in Shift, NEW outer \in Shift
  PROVE  /\ is_identity(inner) => Compose(inner, outer) = Single(outer)
         /\ ~is_identity(inner) /\ is_identity(outer) => Compose(inner, outer) = Single(inner)
         /\ Compose(inner, outer) = Pair => ~is_identity(inner) /\ ~is_identity(outer)
<1>1. is_identity(inner) => Compose(inner, outer) = Single(outer)
  BY ComposeIs DEF Composition
<1>2. ~is_identity(inner) /\ is_identity(outer) => Compose(inner, outer) = Single(inner)
  BY ComposeIs DEF Composition
<1> QED BY <1>1, <1>2, KindsApart

(* Shifts of one variant become one shift of that variant, or nothing. *)
LEMMA ComposeSame ==
  ASSUME NEW inner \in Shift, NEW outer \in Shift, inner.variant = outer.variant
  PROVE  \/ Compose(inner, outer) = Zero
         \/ \E s \in Shift : /\ Compose(inner, outer) = Single(s)
                             /\ s.variant = inner.variant \/ s = IDENTITY
<1> DEFINE v == inner.variant
           degenerate == Degenerate(inner, outer)
           chained == Chained(inner, outer)
           n == inner.amount + outer.amount
           c == Composition(inner, outer, degenerate, chained)
<1>1. v \in ShiftVariant /\ v.op \in {"sll", "slr", "sar", "rotr"} /\ n \in Nat
  BY ShiftOK, VariantsOK
<1>2. degenerate = {}
  BY DEF Degenerate, Whole, Halves
<1>3. chained = {v}
  BY <1>1 DEF Chained, Whole, Halves
<1>4. Compose(inner, outer) = c
  BY ComposeIs
<1> HIDE DEF degenerate, chained, n
<1>5. CASE is_identity(inner) \/ is_identity(outer)
  BY <1>5, ComposeIdentity
<1>6. CASE ~is_identity(inner) /\ ~is_identity(outer)
  <2>1. c = ChainedComposition(CHOOSE x \in {v} : TRUE, n)
    BY <1>2, <1>3, <1>6 DEF Composition, n
  <2>2. (CHOOSE x \in {v} : TRUE) = v
    OBVIOUS
  <2>3. c = ChainedComposition(v, n)
    BY <2>1, <2>2
  <2> HIDE DEF v, c
  <2> QED BY <1>1, <1>4, <2>3, ChainedCompositionOK DEF v
<1> QED BY <1>5, <1>6
------------------------------------------------------------------------------
(* Where a bit comes from, without remainders: base is the first bit of its  *)
(* word or half.                                                             *)
From(op, base, w, k, i) ==
  CASE op = "sll"  -> IF i - base >= k THEN i - k ELSE Gone
    [] op = "slr"  -> IF i - base + k < w THEN i + k ELSE Gone
    [] op = "sar"  -> IF i - base + k < w THEN i + k ELSE base + w - 1
    [] op = "rotr" -> IF i - base + k < w THEN i + k ELSE i + k - w
BaseOf(half, i) == IF half /\ i >= Half THEN Half ELSE 0

(* Below twice the divisor a remainder is a difference. *)
LEMMA Remainder ==
  \A w \in {Half, Width}, n \in Nat : n < 2 * w => n % w = IF n < w THEN n ELSE n - w
<1>1. ASSUME NEW n \in Nat, n < 2 * Half PROVE n % Half = IF n < Half THEN n ELSE n - Half
  BY <1>1, Widths
<1>2. ASSUME NEW n \in Nat, n < 2 * Width PROVE n % Width = IF n < Width THEN n ELSE n - Width
  BY <1>2, Widths
<1> QED BY <1>1, <1>2

(* Where a bit comes from, without remainders. *)
LEMMA SourceIs ==
  ASSUME NEW s \in Shift, NEW i \in Bits
  PROVE  SourceBit(s, i) = From(s.variant.op, BaseOf(s.variant.half, i), max_amount(s.variant), s.amount, i)
<1> DEFINE w == max_amount(s.variant)
           base == BaseOf(s.variant.half, i)
           k == s.amount
<1>1. /\ k \in Nat /\ k < w /\ w \in {Half, Width} /\ i \in 0..Width - 1
      /\ Half \in Nat /\ Half >= 2 /\ Width = 2 * Half
      /\ w = IF s.variant.half THEN Half ELSE Width
  BY Widths, ShiftOK DEF max_amount
<1>2. \A x \in 0..Half - 1 : x % Half = x /\ (x + Half) % Half = x
  BY Widths
<1>3. \A x \in 0..Width - 1 : x % Width = x /\ (x + Width) % Width = x
  BY Widths
<1>4. \A x \in 0..w - 1 : x % w = x /\ (x + w) % w = x
  BY <1>1, <1>2, <1>3
<1>5. i % w = i - base /\ i - base \in 0..w - 1 /\ base \in Nat
  <2>1. CASE base = 0
    BY <1>1, <1>4, <2>1 DEF BaseOf
  <2>2. CASE base # 0
    <3>1. base = Half /\ w = Half /\ i >= Half /\ i - Half \in 0..w - 1
      BY <1>1, <2>2 DEF BaseOf
    <3>2. (i - Half + w) % w = i - Half
      BY <1>4, <3>1
    <3>3. i - Half + w = i
      BY <1>1, <3>1
    <3> QED BY <1>1, <3>1, <3>2, <3>3
  <2> QED BY <2>1, <2>2
<1> HIDE DEF w, base, k
<1>6. \A n : n = i - base + k => n % w = IF n < w THEN n ELSE n - w
  <2>1. SUFFICES ASSUME NEW n, n = i - base + k PROVE n % w = IF n < w THEN n ELSE n - w
    OBVIOUS
  <2>2. n \in Nat /\ n < 2 * w /\ w \in {Half, Width}
    BY <1>1, <1>5, <2>1
  <2>3. n % w = IF n < w THEN n ELSE n - w
    BY <2>2, Remainder
  <2> QED BY <2>3
<1>7. s.variant.op \in {"sll", "slr", "sar", "rotr"}
  BY ShiftOK, VariantsOK
<1>8. i - (i % w) = base
  BY <1>1, <1>5
<1>9. SourceBit(s, i) = CASE s.variant.op = "sll"  -> IF i - base >= k THEN i - k ELSE Gone
        [] s.variant.op = "slr"  -> IF i - base + k < w THEN i + k ELSE Gone
        [] s.variant.op = "sar"  -> IF i - base + k < w THEN i + k ELSE base + w - 1
        [] s.variant.op = "rotr" -> base + ((i - base + k) % w)
  BY <1>5, <1>8 DEF SourceBit, w, k
<1>10. base + ((i - base + k) % w) = IF i - base + k < w THEN i + k ELSE i + k - w
  BY <1>1, <1>5, <1>6
<1>11. SourceBit(s, i) = From(s.variant.op, base, w, k, i)
  BY <1>7, <1>9, <1>10 DEF From
<1> QED BY <1>11 DEF w, base, k

(* A bit comes from a bit of the word, or from nowhere. *)
LEMMA SourceType ==
  ASSUME NEW s \in Shift, NEW i \in Bits
  PROVE  SourceBit(s, i) \in Bits \cup {Gone}
<1>1. /\ s.amount \in Nat /\ s.amount < max_amount(s.variant) /\ i \in 0..Width - 1
      /\ Half \in Nat /\ Half >= 2 /\ Width = 2 * Half /\ Bits = 0..Width - 1
      /\ max_amount(s.variant) = IF s.variant.half THEN Half ELSE Width
      /\ s.variant.op \in {"sll", "slr", "sar", "rotr"}
  BY Widths, ShiftOK, VariantsOK DEF max_amount
<1>2. SourceBit(s, i) = From(s.variant.op, BaseOf(s.variant.half, i), max_amount(s.variant), s.amount, i)
  BY SourceIs
<1> QED BY <1>1, <1>2, SMTT(30) DEF From, BaseOf, Gone

(* The same, of a shift given as its parts, and of two shifts. *)
Amounts(half) == IF half THEN Half ELSE Width
Src(op, half, k, i) == From(op, BaseOf(half, i), Amounts(half), k, i)
Twice(op1, half1, k1, op2, half2, k2, i) ==
  IF Src(op2, half2, k2, i) = Gone THEN Gone ELSE Src(op1, half1, k1, Src(op2, half2, k2, i))

(* Twice the same operation at the same width. *)
LEMMA TwiceSame ==
  ASSUME NEW half \in BOOLEAN, NEW i \in Bits,
         NEW k1 \in Nat, NEW k2 \in Nat, k1 < Amounts(half), k2 < Amounts(half)
  PROVE  /\ \A op \in {"sll", "slr"} : Twice(op, half, k1, op, half, k2, i) =
              IF k1 + k2 < Amounts(half) THEN Src(op, half, k1 + k2, i) ELSE Gone
         /\ Twice("sar", half, k1, "sar", half, k2, i) =
              Src("sar", half, IF k1 + k2 < Amounts(half) THEN k1 + k2 ELSE Amounts(half) - 1, i)
         /\ Twice("rotr", half, k1, "rotr", half, k2, i) =
              Src("rotr", half, IF k1 + k2 < Amounts(half) THEN k1 + k2 ELSE k1 + k2 - Amounts(half), i)
<1>1. Half \in Nat /\ Half >= 2 /\ Width = 2 * Half /\ i \in 0..Width - 1
  BY Widths
<1>2. Twice("sll", half, k1, "sll", half, k2, i) =
        IF k1 + k2 < Amounts(half) THEN Src("sll", half, k1 + k2, i) ELSE Gone
  BY <1>1 DEF Twice, Src, From, BaseOf, Amounts, Gone
<1>3. Twice("slr", half, k1, "slr", half, k2, i) =
        IF k1 + k2 < Amounts(half) THEN Src("slr", half, k1 + k2, i) ELSE Gone
  BY <1>1 DEF Twice, Src, From, BaseOf, Amounts, Gone
<1>4. Twice("sar", half, k1, "sar", half, k2, i) =
        Src("sar", half, IF k1 + k2 < Amounts(half) THEN k1 + k2 ELSE Amounts(half) - 1, i)
  BY <1>1 DEF Twice, Src, From, BaseOf, Amounts, Gone
<1>5. Twice("rotr", half, k1, "rotr", half, k2, i) =
        Src("rotr", half, IF k1 + k2 < Amounts(half) THEN k1 + k2 ELSE k1 + k2 - Amounts(half), i)
  BY <1>1 DEF Twice, Src, From, BaseOf, Amounts, Gone
<1> QED BY <1>2, <1>3, <1>4, <1>5

(* Operations or widths that differ, and still make one shift. *)
LEMMA TwiceChained ==
  ASSUME NEW i \in Bits, NEW k1 \in Nat \ {0}, NEW k2 \in Nat \ {0}
  PROVE  /\ \A half \in BOOLEAN : k1 < Amounts(half) /\ k2 < Amounts(half) =>
              Twice("slr", half, k1, "sar", half, k2, i) =
                IF k1 + k2 < Amounts(half) THEN Src("slr", half, k1 + k2, i) ELSE Gone
         /\ k1 < Width /\ k2 < Half /\ k1 >= Half =>
              /\ Twice("sll", FALSE, k1, "sll", TRUE, k2, i) =
                   IF k1 + k2 < Width THEN Src("sll", FALSE, k1 + k2, i) ELSE Gone
              /\ Twice("slr", FALSE, k1, "slr", TRUE, k2, i) =
                   IF k1 + k2 < Width THEN Src("slr", FALSE, k1 + k2, i) ELSE Gone
              /\ Twice("sar", FALSE, k1, "sar", TRUE, k2, i) =
                   Src("sar", FALSE, IF k1 + k2 < Width THEN k1 + k2 ELSE Width - 1, i)
         /\ k1 < Half /\ k2 < Width /\ k2 >= Half =>
              /\ Twice("sll", TRUE, k1, "sll", FALSE, k2, i) =
                   IF k1 + k2 < Width THEN Src("sll", FALSE, k1 + k2, i) ELSE Gone
              /\ Twice("slr", TRUE, k1, "slr", FALSE, k2, i) =
                   IF k1 + k2 < Width THEN Src("slr", FALSE, k1 + k2, i) ELSE Gone
              /\ Twice("sar", TRUE, k1, "sar", FALSE, k2, i) =
                   Src("sar", FALSE, IF k1 + k2 < Width THEN k1 + k2 ELSE Width - 1, i)
         /\ k1 < Width /\ k2 < Half /\ k1 >= Half + 1 =>
              Twice("slr", FALSE, k1, "sar", TRUE, k2, i) =
                IF k1 + k2 < Width THEN Src("slr", FALSE, k1 + k2, i) ELSE Gone
         /\ k1 < Half /\ k2 < Width /\ k2 >= Half =>
              Twice("slr", TRUE, k1, "sar", FALSE, k2, i) =
                IF k1 + k2 < Width THEN Src("slr", FALSE, k1 + k2, i) ELSE Gone
<1> USE Widths DEF Twice, Src, From, BaseOf, Amounts, Gone
<1>1. ASSUME NEW half \in BOOLEAN, k1 < Amounts(half), k2 < Amounts(half)
      PROVE  Twice("slr", half, k1, "sar", half, k2, i) =
                IF k1 + k2 < Amounts(half) THEN Src("slr", half, k1 + k2, i) ELSE Gone
  BY <1>1, SMTT(60)
<1>2. ASSUME k1 < Width /\ k2 < Half /\ k1 >= Half
      PROVE  Twice("sll", FALSE, k1, "sll", TRUE, k2, i) =
               IF k1 + k2 < Width THEN Src("sll", FALSE, k1 + k2, i) ELSE Gone
  BY <1>2, SMTT(60)
<1>3. ASSUME k1 < Width /\ k2 < Half /\ k1 >= Half
      PROVE  Twice("slr", FALSE, k1, "slr", TRUE, k2, i) =
               IF k1 + k2 < Width THEN Src("slr", FALSE, k1 + k2, i) ELSE Gone
  BY <1>3, SMTT(60)
<1>4. ASSUME k1 < Width /\ k2 < Half /\ k1 >= Half
      PROVE  Twice("sar", FALSE, k1, "sar", TRUE, k2, i) =
               Src("sar", FALSE, IF k1 + k2 < Width THEN k1 + k2 ELSE Width - 1, i)
  BY <1>4, SMTT(60)
<1>5. ASSUME k1 < Half /\ k2 < Width /\ k2 >= Half
      PROVE  Twice("sll", TRUE, k1, "sll", FALSE, k2, i) =
               IF k1 + k2 < Width THEN Src("sll", FALSE, k1 + k2, i) ELSE Gone
  BY <1>5, SMTT(60)
<1>6. ASSUME k1 < Half /\ k2 < Width /\ k2 >= Half
      PROVE  Twice("slr", TRUE, k1, "slr", FALSE, k2, i) =
               IF k1 + k2 < Width THEN Src("slr", FALSE, k1 + k2, i) ELSE Gone
  BY <1>6, SMTT(60)
<1>7. ASSUME k1 < Half /\ k2 < Width /\ k2 >= Half
      PROVE  Twice("sar", TRUE, k1, "sar", FALSE, k2, i) =
               Src("sar", FALSE, IF k1 + k2 < Width THEN k1 + k2 ELSE Width - 1, i)
  BY <1>7, SMTT(60)
<1>8. ASSUME k1 < Width /\ k2 < Half /\ k1 >= Half + 1
      PROVE  Twice("slr", FALSE, k1, "sar", TRUE, k2, i) =
               IF k1 + k2 < Width THEN Src("slr", FALSE, k1 + k2, i) ELSE Gone
  BY <1>8, SMTT(60)
<1>9. ASSUME k1 < Half /\ k2 < Width /\ k2 >= Half
      PROVE  Twice("slr", TRUE, k1, "sar", FALSE, k2, i) =
               IF k1 + k2 < Width THEN Src("slr", FALSE, k1 + k2, i) ELSE Gone
  BY <1>9, SMTT(60)
<1> HIDE DEF Twice, Src, From, BaseOf, Amounts, Gone
<1> QED BY ONLY <1>1, <1>2, <1>3, <1>4, <1>5, <1>6, <1>7, <1>8, <1>9

(* After one of the two every bit is the sign, or all but one are gone. *)
LEMMA TwiceDegenerate ==
  ASSUME NEW i \in Bits, NEW k1 \in Nat, NEW k2 \in Nat
  PROVE  /\ \A half \in BOOLEAN : k1 = Width - 1 /\ k2 < Amounts(half) =>
              Twice("sar", FALSE, k1, "rotr", half, k2, i) = Src("sar", FALSE, k1, i)
         /\ k1 = Half - 1 /\ k2 < Half =>
              Twice("sar", TRUE, k1, "rotr", TRUE, k2, i) = Src("sar", TRUE, k1, i)
         /\ \A half \in BOOLEAN : k1 < Amounts(half) /\ k2 = Width - 1 =>
              Twice("sar", half, k1, "slr", FALSE, k2, i) = Src("slr", FALSE, k2, i)
         /\ k1 < Half /\ k2 = Half - 1 =>
              Twice("sar", TRUE, k1, "slr", TRUE, k2, i) = Src("slr", TRUE, k2, i)
<1> USE Widths DEF Twice, Src, From, BaseOf, Amounts, Gone
<1>1. \A half \in BOOLEAN : k1 = Width - 1 /\ k2 < Amounts(half) =>
        Twice("sar", FALSE, k1, "rotr", half, k2, i) = Src("sar", FALSE, k1, i)
  BY SMTT(60)
<1>2. k1 = Half - 1 /\ k2 < Half =>
        Twice("sar", TRUE, k1, "rotr", TRUE, k2, i) = Src("sar", TRUE, k1, i)
  BY SMTT(60)
<1>3. \A half \in BOOLEAN : k1 < Amounts(half) /\ k2 = Width - 1 =>
        Twice("sar", half, k1, "slr", FALSE, k2, i) = Src("slr", FALSE, k2, i)
  BY SMTT(60)
<1>4. k1 < Half /\ k2 = Half - 1 =>
        Twice("sar", TRUE, k1, "slr", TRUE, k2, i) = Src("slr", TRUE, k2, i)
  BY SMTT(60)
<1> QED BY <1>1, <1>2, <1>3, <1>4

MapSet == [Bits -> Bits \cup {Gone}]

(* A shift as a map of bits. *)
LEMMA BitIs ==
  ASSUME NEW s \in Shift
  PROVE  /\ Map(s) \in MapSet
         /\ \A i \in Bits : Map(s)[i] = Src(s.variant.op, s.variant.half, s.amount, i)
         /\ is_identity(s) => Map(s) = Unshifted
<1>1. Map(s) = [i \in Bits |-> SourceBit(s, i)]
  BY DEF Map, Maps
<1>2. \A i \in Bits : SourceBit(s, i) = Src(s.variant.op, s.variant.half, s.amount, i)
  BY SourceIs DEF Src, Amounts, max_amount
<1>3. Map(s) \in MapSet
  BY <1>1, SourceType DEF MapSet
<1>4. ASSUME is_identity(s), NEW i \in Bits PROVE Src(s.variant.op, s.variant.half, s.amount, i) = i
  <2>1. s.amount = 0 /\ s.variant.op \in {"sll", "slr", "sar", "rotr"} /\ s.variant.half \in BOOLEAN
    BY <1>4, ShiftOK, VariantsOK DEF is_identity
  <2> QED BY <2>1, Widths DEF Src, From, BaseOf, Amounts
<1>5. is_identity(s) => Map(s) = Unshifted
  BY <1>1, <1>2, <1>4 DEF Unshifted
<1> QED BY <1>1, <1>2, <1>3, <1>5

(* A bit after two shifts, and of what they compose to *)
BitAfter(inner, outer, i) ==
  Twice(inner.variant.op, inner.variant.half, inner.amount,
        outer.variant.op, outer.variant.half, outer.amount, i)
BitOf(c, i) == IF c.kind = "Zero" THEN Gone
               ELSE Src(c.shift.variant.op, c.shift.variant.half, c.shift.amount, i)

(* Two shifts as one map, bit by bit. *)
LEMMA AfterIs ==
  ASSUME NEW inner \in Shift, NEW outer \in Shift
  PROVE  After(Map(outer), Map(inner)) = [i \in Bits |-> BitAfter(inner, outer, i)]
<1>1. \A i \in Bits : Map(outer)[i] \in Bits \cup {Gone}
  BY BitIs DEF MapSet
<1>2. ASSUME NEW i \in Bits
      PROVE  (IF Map(outer)[i] = Gone THEN Gone ELSE Map(inner)[Map(outer)[i]]) = BitAfter(inner, outer, i)
  BY <1>1, BitIs DEF BitAfter, Twice
<1> QED BY <1>2 DEF After

(* The bits of a shift whose amount is a sum. *)
LEMMA ChainedMeans ==
  ASSUME NEW v \in ShiftVariant, NEW n \in Nat, n < 2 * Amounts(v.half), NEW i \in Bits
  PROVE  BitOf(ChainedComposition(v, n), i) =
           CASE v.op \in {"sll", "slr"} -> IF n < Amounts(v.half) THEN Src(v.op, v.half, n, i) ELSE Gone
             [] v.op = "sar"  -> Src("sar", v.half, IF n < Amounts(v.half) THEN n ELSE Amounts(v.half) - 1, i)
             [] v.op = "rotr" -> Src("rotr", v.half, IF n < Amounts(v.half) THEN n ELSE n - Amounts(v.half), i)
<1> DEFINE w == max_amount(v)
<1>1. w = Amounts(v.half) /\ w \in {Half, Width} /\ v.op \in {"sll", "slr", "sar", "rotr"}
  BY VariantsOK, Widths DEF max_amount, Amounts
<1>2. /\ \A x : Single(x).kind = "Single" /\ Single(x).shift = x
      /\ Zero.kind = "Zero"
      /\ \A k : Sh(v, k).variant = v /\ Sh(v, k).amount = k
  BY DEF Single, Zero, Sh
<1>3. CASE v.op \in {"sll", "slr"}
  BY <1>1, <1>2, <1>3 DEF ChainedComposition, BitOf
<1>4. CASE v.op = "sar"
  BY <1>1, <1>2, <1>4 DEF ChainedComposition, BitOf
<1>5. CASE v.op = "rotr"
  <2> DEFINE m == IF n < w THEN n ELSE n - w
  <2>1. n % w = m
    BY <1>1, Remainder
  <2>2. ChainedComposition(v, n) = Single(IF m = 0 THEN IDENTITY ELSE Sh(v, m))
    BY <1>5, <2>1 DEF ChainedComposition
  <2> HIDE DEF m
  <2>3. CASE m = 0
    <3>1. BitOf(ChainedComposition(v, n), i) = Src("sll", FALSE, 0, i)
      <4>1. IDENTITY.variant.op = "sll" /\ IDENTITY.variant.half = FALSE /\ IDENTITY.amount = 0
        BY DEF IDENTITY, Whole, Sh
      <4> QED BY <1>2, <2>2, <2>3, <4>1 DEF BitOf
    <3>2. Src("sll", FALSE, 0, i) = i /\ Src("rotr", v.half, 0, i) = i
      BY VariantsOK, Widths DEF Src, From, BaseOf, Amounts
    <3> QED BY <1>1, <1>5, <2>3, <3>1, <3>2 DEF m
  <2>4. CASE m # 0
    <3>1. BitOf(ChainedComposition(v, n), i) = Src("rotr", v.half, m, i)
      BY <1>2, <1>5, <2>2, <2>4 DEF BitOf
    <3> QED BY <1>1, <1>5, <3>1 DEF m
  <2> QED BY <2>3, <2>4
<1> QED BY <1>1, <1>3, <1>4, <1>5

(* A shift by the sum does what the two do. *)
LEMMA ChainedBits ==
  ASSUME NEW inner \in Shift, NEW outer \in Shift, ~is_identity(inner), ~is_identity(outer),
         NEW v \in Chained(inner, outer), NEW i \in Bits
  PROVE  BitOf(ChainedComposition(v, inner.amount + outer.amount), i) = BitAfter(inner, outer, i)
<1> DEFINE k1 == inner.amount
           k2 == outer.amount
           n  == k1 + k2
           w  == Amounts(v.half)
<1>1. /\ v \in ShiftVariant /\ v.op \in {"sll", "slr", "sar", "rotr"} /\ v.half \in BOOLEAN
      /\ k1 \in Nat \ {0} /\ k1 < Amounts(inner.variant.half)
      /\ k2 \in Nat \ {0} /\ k2 < Amounts(outer.variant.half)
      /\ Half \in Nat /\ Width = 2 * Half
      /\ Amounts(TRUE) = Half /\ Amounts(FALSE) = Width
  BY ShiftOK, VariantsOK, Widths DEF Chained, is_identity, max_amount, Amounts
<1> HIDE DEF k1, k2
<1>2. n < 2 * w => BitOf(ChainedComposition(v, n), i) =
        CASE v.op \in {"sll", "slr"} -> IF n < w THEN Src(v.op, v.half, n, i) ELSE Gone
          [] v.op = "sar"  -> Src("sar", v.half, IF n < w THEN n ELSE w - 1, i)
          [] v.op = "rotr" -> Src("rotr", v.half, IF n < w THEN n ELSE n - w, i)
  BY <1>1, ChainedMeans
<1>3. BitAfter(inner, outer, i) = Twice(inner.variant.op, inner.variant.half, k1,
                                        outer.variant.op, outer.variant.half, k2, i)
  BY DEF BitAfter, k1, k2
<1> SUFFICES BitOf(ChainedComposition(v, n), i) = BitAfter(inner, outer, i)
  BY DEF k1, k2
<1>4. ASSUME v = inner.variant, v = outer.variant
      PROVE  BitOf(ChainedComposition(v, n), i) = BitAfter(inner, outer, i)
  <2>1. k1 < w /\ k2 < w /\ w \in Nat
    BY <1>1, <1>4 DEF Amounts
  <2>2. BitAfter(inner, outer, i) = Twice(v.op, v.half, k1, v.op, v.half, k2, i)
    BY <1>3, <1>4
  <2> HIDE DEF w
  <2>3. n < 2 * w
    BY <1>1, <2>1
  <2>4. CASE v.op = "sll"
    <3>1. BitOf(ChainedComposition(v, n), i) = IF n < w THEN Src("sll", v.half, n, i) ELSE Gone
      BY <1>2, <2>3, <2>4 DEF w
    <3>2. Twice("sll", v.half, k1, "sll", v.half, k2, i) = IF n < w THEN Src("sll", v.half, n, i) ELSE Gone
      BY <1>1, <2>1, TwiceSame DEF w
    <3> QED BY <2>2, <2>4, <3>1, <3>2
  <2>5. CASE v.op = "slr"
    <3>1. BitOf(ChainedComposition(v, n), i) = IF n < w THEN Src("slr", v.half, n, i) ELSE Gone
      BY <1>2, <2>3, <2>5 DEF w
    <3>2. Twice("slr", v.half, k1, "slr", v.half, k2, i) = IF n < w THEN Src("slr", v.half, n, i) ELSE Gone
      BY <1>1, <2>1, TwiceSame DEF w
    <3> QED BY <2>2, <2>5, <3>1, <3>2
  <2>6. CASE v.op = "sar"
    <3>1. BitOf(ChainedComposition(v, n), i) = Src("sar", v.half, IF n < w THEN n ELSE w - 1, i)
      BY <1>2, <2>3, <2>6 DEF w
    <3>2. Twice("sar", v.half, k1, "sar", v.half, k2, i) = Src("sar", v.half, IF n < w THEN n ELSE w - 1, i)
      BY <1>1, <2>1, TwiceSame DEF w
    <3> QED BY <2>2, <2>6, <3>1, <3>2
  <2>7. CASE v.op = "rotr"
    <3>1. BitOf(ChainedComposition(v, n), i) = Src("rotr", v.half, IF n < w THEN n ELSE n - w, i)
      BY <1>2, <2>3, <2>7 DEF w
    <3>2. Twice("rotr", v.half, k1, "rotr", v.half, k2, i) = Src("rotr", v.half, IF n < w THEN n ELSE n - w, i)
      BY <1>1, <2>1, TwiceSame DEF w
    <3> QED BY <2>2, <2>7, <3>1, <3>2
  <2> QED BY <1>1, <2>4, <2>5, <2>6, <2>7
<1>5. ASSUME v.op = "slr",
             inner.variant.op = "slr", inner.variant.half = v.half,
             outer.variant.op = "sar", outer.variant.half = v.half
      PROVE  BitOf(ChainedComposition(v, n), i) = BitAfter(inner, outer, i)
  <2>1. w = Amounts(v.half) /\ w \in Nat /\ n < 2 * w
    BY <1>1, <1>5 DEF Amounts
  <2>2. BitAfter(inner, outer, i) = Twice("slr", v.half, k1, "sar", v.half, k2, i)
    BY <1>3, <1>5
  <2> HIDE DEF w
  <2>3. k1 < Amounts(v.half) /\ k2 < Amounts(v.half)
    BY <1>1, <1>5 DEF Amounts
  <2>4. BitOf(ChainedComposition(v, n), i) = IF n < w THEN Src("slr", v.half, n, i) ELSE Gone
    BY <1>2, <1>5, <2>1 DEF w
  <2>5. Twice("slr", v.half, k1, "sar", v.half, k2, i) = IF n < w THEN Src("slr", v.half, n, i) ELSE Gone
    BY <1>1, <1>5, <2>1, <2>3, TwiceChained
  <2> QED BY <2>2, <2>4, <2>5
<1>6. ASSUME v.op # "rotr" /\ v.half = FALSE,
             inner.variant.op = v.op, inner.variant.half = FALSE,
             outer.variant.op = v.op, outer.variant.half = TRUE, k1 >= Half
      PROVE  BitOf(ChainedComposition(v, n), i) = BitAfter(inner, outer, i)
  <2>1. w = Width /\ w \in Nat /\ n < 2 * w
    BY <1>1, <1>6 DEF Amounts
  <2>2. BitAfter(inner, outer, i) = Twice(v.op, FALSE, k1, v.op, TRUE, k2, i)
    BY <1>3, <1>6
  <2> HIDE DEF w
  <2>3. k1 < Width /\ k2 < Half
    BY <1>1, <1>6 DEF Amounts
  <2>4. CASE v.op = "sll"
    <3>1. BitOf(ChainedComposition(v, n), i) = IF n < w THEN Src("sll", FALSE, n, i) ELSE Gone
      BY <1>2, <1>6, <2>1, <2>4 DEF w
    <3>2. Twice("sll", FALSE, k1, "sll", TRUE, k2, i) = IF n < w THEN Src("sll", FALSE, n, i) ELSE Gone
      BY <1>1, <1>6, <2>1, <2>3, TwiceChained
    <3> QED BY <2>2, <2>4, <3>1, <3>2
  <2>5. CASE v.op = "slr"
    <3>1. BitOf(ChainedComposition(v, n), i) = IF n < w THEN Src("slr", FALSE, n, i) ELSE Gone
      BY <1>2, <1>6, <2>1, <2>5 DEF w
    <3>2. Twice("slr", FALSE, k1, "slr", TRUE, k2, i) = IF n < w THEN Src("slr", FALSE, n, i) ELSE Gone
      BY <1>1, <1>6, <2>1, <2>3, TwiceChained
    <3> QED BY <2>2, <2>5, <3>1, <3>2
  <2>6. CASE v.op = "sar"
    <3>1. BitOf(ChainedComposition(v, n), i) = Src("sar", FALSE, IF n < w THEN n ELSE w - 1, i)
      BY <1>2, <1>6, <2>1, <2>6 DEF w
    <3>2. Twice("sar", FALSE, k1, "sar", TRUE, k2, i) = Src("sar", FALSE, IF n < w THEN n ELSE w - 1, i)
      BY <1>1, <1>6, <2>1, <2>3, TwiceChained
    <3> QED BY <2>2, <2>6, <3>1, <3>2
  <2> QED BY <1>1, <1>6, <2>4, <2>5, <2>6
<1>7. ASSUME v.op # "rotr" /\ v.half = FALSE,
             inner.variant.op = v.op, inner.variant.half = TRUE,
             outer.variant.op = v.op, outer.variant.half = FALSE, k2 >= Half
      PROVE  BitOf(ChainedComposition(v, n), i) = BitAfter(inner, outer, i)
  <2>1. w = Width /\ w \in Nat /\ n < 2 * w
    BY <1>1, <1>7 DEF Amounts
  <2>2. BitAfter(inner, outer, i) = Twice(v.op, TRUE, k1, v.op, FALSE, k2, i)
    BY <1>3, <1>7
  <2> HIDE DEF w
  <2>3. k1 < Half /\ k2 < Width
    BY <1>1, <1>7 DEF Amounts
  <2>4. CASE v.op = "sll"
    <3>1. BitOf(ChainedComposition(v, n), i) = IF n < w THEN Src("sll", FALSE, n, i) ELSE Gone
      BY <1>2, <1>7, <2>1, <2>4 DEF w
    <3>2. Twice("sll", TRUE, k1, "sll", FALSE, k2, i) = IF n < w THEN Src("sll", FALSE, n, i) ELSE Gone
      BY <1>1, <1>7, <2>1, <2>3, TwiceChained
    <3> QED BY <2>2, <2>4, <3>1, <3>2
  <2>5. CASE v.op = "slr"
    <3>1. BitOf(ChainedComposition(v, n), i) = IF n < w THEN Src("slr", FALSE, n, i) ELSE Gone
      BY <1>2, <1>7, <2>1, <2>5 DEF w
    <3>2. Twice("slr", TRUE, k1, "slr", FALSE, k2, i) = IF n < w THEN Src("slr", FALSE, n, i) ELSE Gone
      BY <1>1, <1>7, <2>1, <2>3, TwiceChained
    <3> QED BY <2>2, <2>5, <3>1, <3>2
  <2>6. CASE v.op = "sar"
    <3>1. BitOf(ChainedComposition(v, n), i) = Src("sar", FALSE, IF n < w THEN n ELSE w - 1, i)
      BY <1>2, <1>7, <2>1, <2>6 DEF w
    <3>2. Twice("sar", TRUE, k1, "sar", FALSE, k2, i) = Src("sar", FALSE, IF n < w THEN n ELSE w - 1, i)
      BY <1>1, <1>7, <2>1, <2>3, TwiceChained
    <3> QED BY <2>2, <2>6, <3>1, <3>2
  <2> QED BY <1>1, <1>7, <2>4, <2>5, <2>6
<1>8. ASSUME v.op = "slr" /\ v.half = FALSE,
             inner.variant.op = "slr", inner.variant.half = FALSE,
             outer.variant.op = "sar", outer.variant.half = TRUE, k1 >= Half + 1
      PROVE  BitOf(ChainedComposition(v, n), i) = BitAfter(inner, outer, i)
  <2>1. w = Width /\ w \in Nat /\ n < 2 * w
    BY <1>1, <1>8 DEF Amounts
  <2>2. BitAfter(inner, outer, i) = Twice("slr", FALSE, k1, "sar", TRUE, k2, i)
    BY <1>3, <1>8
  <2> HIDE DEF w
  <2>3. k1 < Width /\ k2 < Half
    BY <1>1, <1>8 DEF Amounts
  <2>4. BitOf(ChainedComposition(v, n), i) = IF n < w THEN Src("slr", FALSE, n, i) ELSE Gone
    BY <1>2, <1>8, <2>1 DEF w
  <2>5. Twice("slr", FALSE, k1, "sar", TRUE, k2, i) = IF n < w THEN Src("slr", FALSE, n, i) ELSE Gone
    BY <1>1, <1>8, <2>1, <2>3, TwiceChained
  <2> QED BY <2>2, <2>4, <2>5
<1>9. ASSUME v.op = "slr" /\ v.half = FALSE,
             inner.variant.op = "slr", inner.variant.half = TRUE,
             outer.variant.op = "sar", outer.variant.half = FALSE, k2 >= Half
      PROVE  BitOf(ChainedComposition(v, n), i) = BitAfter(inner, outer, i)
  <2>1. w = Width /\ w \in Nat /\ n < 2 * w
    BY <1>1, <1>9 DEF Amounts
  <2>2. BitAfter(inner, outer, i) = Twice("slr", TRUE, k1, "sar", FALSE, k2, i)
    BY <1>3, <1>9
  <2> HIDE DEF w
  <2>3. k1 < Half /\ k2 < Width
    BY <1>1, <1>9 DEF Amounts
  <2>4. BitOf(ChainedComposition(v, n), i) = IF n < w THEN Src("slr", FALSE, n, i) ELSE Gone
    BY <1>2, <1>9, <2>1 DEF w
  <2>5. Twice("slr", TRUE, k1, "sar", FALSE, k2, i) = IF n < w THEN Src("slr", FALSE, n, i) ELSE Gone
    BY <1>1, <1>9, <2>1, <2>3, TwiceChained
  <2> QED BY <2>2, <2>4, <2>5
<1> HIDE DEF n, w
<1>10. \/ v = inner.variant /\ v = outer.variant
       \/ v.op = "slr" /\ inner.variant.op = "slr" /\ inner.variant.half = v.half
          /\ outer.variant.op = "sar" /\ outer.variant.half = v.half
       \/ v.op # "rotr" /\ v.half = FALSE /\ inner.variant.op = v.op /\ inner.variant.half = FALSE
          /\ outer.variant.op = v.op /\ outer.variant.half = TRUE /\ k1 >= Half
       \/ v.op # "rotr" /\ v.half = FALSE /\ inner.variant.op = v.op /\ inner.variant.half = TRUE
          /\ outer.variant.op = v.op /\ outer.variant.half = FALSE /\ k2 >= Half
       \/ v.op = "slr" /\ v.half = FALSE /\ inner.variant.op = "slr" /\ inner.variant.half = FALSE
          /\ outer.variant.op = "sar" /\ outer.variant.half = TRUE /\ k1 >= Half + 1
       \/ v.op = "slr" /\ v.half = FALSE /\ inner.variant.op = "slr" /\ inner.variant.half = TRUE
          /\ outer.variant.op = "sar" /\ outer.variant.half = FALSE /\ k2 >= Half
  <2> DEFINE i0 == inner.variant
             o0 == outer.variant
  <2>1. \/ v = i0 /\ v = o0
        \/ v = Whole("slr") /\ i0 = Whole("slr") /\ o0 = Whole("sar")
        \/ v = Halves("slr") /\ i0 = Halves("slr") /\ o0 = Halves("sar")
        \/ ~v.half /\ v.op # "rotr" /\ i0 = v /\ o0 = Halves(v.op) /\ k1 >= Half
        \/ ~v.half /\ v.op # "rotr" /\ i0 = Halves(v.op) /\ o0 = v /\ k2 >= Half
        \/ v = Whole("slr") /\ i0 = v /\ o0 = Halves("sar") /\ k1 >= Half + 1
        \/ v = Whole("slr") /\ i0 = Halves("slr") /\ o0 = Whole("sar") /\ k2 >= Half
    BY DEF Chained, k1, k2
  <2>2. \A op : /\ Whole(op).op = op /\ Whole(op).half = FALSE
                /\ Halves(op).op = op /\ Halves(op).half = TRUE
    BY DEF Whole, Halves
  <2>3. ~v.half => v.half = FALSE
    BY <1>1
  <2> HIDE DEF i0, o0
  <2>4. "slr" # "rotr"
    OBVIOUS
  <2> QED BY <2>1, <2>2, <2>3, <2>4 DEF i0, o0
<1> QED BY <1>4, <1>5, <1>6, <1>7, <1>8, <1>9, <1>10

(* The one that is kept does what the two do. *)
LEMMA DegenerateBits ==
  ASSUME NEW inner \in Shift, NEW outer \in Shift, NEW s \in Degenerate(inner, outer), NEW i \in Bits
  PROVE  Src(s.variant.op, s.variant.half, s.amount, i) = BitAfter(inner, outer, i)
<1> DEFINE k1 == inner.amount
           k2 == outer.amount
           i0 == inner.variant
           o0 == outer.variant
<1>1. /\ i0.half \in BOOLEAN /\ k1 \in Nat /\ k1 < Amounts(i0.half)
      /\ o0.half \in BOOLEAN /\ k2 \in Nat /\ k2 < Amounts(o0.half)
  BY ShiftOK, VariantsOK DEF max_amount, Amounts
<1>2. \A op : /\ Whole(op).op = op /\ Whole(op).half = FALSE
              /\ Halves(op).op = op /\ Halves(op).half = TRUE
  BY DEF Whole, Halves
<1>3. \/ s = inner /\ i0 = Whole("sar") /\ o0.op = "rotr" /\ k1 = Width - 1
      \/ s = inner /\ i0 = Halves("sar") /\ o0 = Halves("rotr") /\ k1 = Half - 1
      \/ s = outer /\ i0.op = "sar" /\ o0 = Whole("slr") /\ k2 = Width - 1
      \/ s = outer /\ i0 = Halves("sar") /\ o0 = Halves("slr") /\ k2 = Half - 1
  BY DEF Degenerate
<1>4. BitAfter(inner, outer, i) = Twice(i0.op, i0.half, k1, o0.op, o0.half, k2, i)
  BY DEF BitAfter
<1>5. s = inner => Src(s.variant.op, s.variant.half, s.amount, i) = Src(i0.op, i0.half, k1, i)
  OBVIOUS
<1>6. s = outer => Src(s.variant.op, s.variant.half, s.amount, i) = Src(o0.op, o0.half, k2, i)
  OBVIOUS
<1> HIDE DEF k1, k2, i0, o0
<1>7. Amounts(TRUE) = Half
  BY DEF Amounts
<1>8. CASE s = inner /\ i0 = Whole("sar") /\ o0.op = "rotr" /\ k1 = Width - 1
  <2>1. i0.op = "sar" /\ i0.half = FALSE
    BY <1>2, <1>8
  <2>2. Twice("sar", FALSE, k1, "rotr", o0.half, k2, i) = Src("sar", FALSE, k1, i)
    BY <1>1, <1>8, TwiceDegenerate
  <2> QED BY <1>4, <1>5, <1>8, <2>1, <2>2
<1>9. CASE s = inner /\ i0 = Halves("sar") /\ o0 = Halves("rotr") /\ k1 = Half - 1
  <2>1. i0.op = "sar" /\ i0.half = TRUE /\ o0.op = "rotr" /\ o0.half = TRUE
    BY <1>2, <1>9
  <2>2. Twice("sar", TRUE, k1, "rotr", TRUE, k2, i) = Src("sar", TRUE, k1, i)
    BY <1>1, <1>7, <1>9, <2>1, TwiceDegenerate
  <2> QED BY <1>4, <1>5, <1>9, <2>1, <2>2
<1>10. CASE s = outer /\ i0.op = "sar" /\ o0 = Whole("slr") /\ k2 = Width - 1
  <2>1. o0.op = "slr" /\ o0.half = FALSE
    BY <1>2, <1>10
  <2>2. Twice("sar", i0.half, k1, "slr", FALSE, k2, i) = Src("slr", FALSE, k2, i)
    BY <1>1, <1>10, TwiceDegenerate
  <2> QED BY <1>4, <1>6, <1>10, <2>1, <2>2
<1>11. CASE s = outer /\ i0 = Halves("sar") /\ o0 = Halves("slr") /\ k2 = Half - 1
  <2>1. i0.op = "sar" /\ i0.half = TRUE /\ o0.op = "slr" /\ o0.half = TRUE
    BY <1>2, <1>11
  <2>2. Twice("sar", TRUE, k1, "slr", TRUE, k2, i) = Src("slr", TRUE, k2, i)
    BY <1>1, <1>7, <1>11, <2>1, TwiceDegenerate
  <2> QED BY <1>4, <1>6, <1>11, <2>1, <2>2
<1> QED BY <1>3, <1>8, <1>9, <1>10, <1>11

(* What two shifts compose to does to a word what they do, one after the     *)
(* other (Shift::compose, shift.rs).                                         *)
THEOREM ComposeMeans ==
  ASSUME NEW inner \in Shift, NEW outer \in Shift
  PROVE  /\ \A x \in Shift : Compose(inner, outer) = Single(x) => Map(x) = After(Map(outer), Map(inner))
         /\ Compose(inner, outer) = Zero => After(Map(outer), Map(inner)) = AllGone
<1> DEFINE degenerate == Degenerate(inner, outer)
           chained == Chained(inner, outer)
           c == Compose(inner, outer)
           After2 == After(Map(outer), Map(inner))
<1>1. After2 = [i \in Bits |-> BitAfter(inner, outer, i)]
  BY AfterIs
<1>2. c = Composition(inner, outer, degenerate, chained)
  BY ComposeIs
<1>3. \A x \in Shift : Map(x) = [i \in Bits |-> Src(x.variant.op, x.variant.half, x.amount, i)]
  <2>1. \A x \in Shift : Map(x) = [i \in Bits |-> Map(x)[i]]
    BY BitIs DEF MapSet
  <2> QED BY <2>1, BitIs
<1>4. \A m \in MapSet : After(Unshifted, m) = m /\ After(m, Unshifted) = m
  BY Widths DEF MapSet, Unshifted, After, Gone
<1> HIDE DEF c, degenerate, chained, After2
<1>5. CASE is_identity(inner)
  <2>1. c = Single(outer)
    BY <1>5, ComposeIdentity DEF c
  <2>2. After2 = Map(outer)
    BY <1>4, <1>5, BitIs DEF After2
  <2> QED BY <2>1, <2>2, KindsApart DEF After2, c
<1>6. CASE ~is_identity(inner) /\ is_identity(outer)
  <2>1. c = Single(inner)
    BY <1>6, ComposeIdentity DEF c
  <2>2. After2 = Map(inner)
    BY <1>4, <1>6, BitIs DEF After2
  <2> QED BY <2>1, <2>2, KindsApart DEF After2, c
<1>7. CASE ~is_identity(inner) /\ ~is_identity(outer)
  <2>1. CASE degenerate # {}
    <3>1. PICK s \in degenerate : c = Single(s)
      <4>1. c = Single(CHOOSE s \in degenerate : TRUE)
        BY <1>2, <1>7, <2>1 DEF Composition
      <4> QED BY <2>1, <4>1
    <3>2. s \in Shift
      BY DEF degenerate, Degenerate
    <3>3. Map(s) = After2
      BY <1>1, <1>3, <3>2, DegenerateBits DEF degenerate
    <3> QED BY <3>1, <3>3, KindsApart DEF After2, c
  <2>2. CASE degenerate = {} /\ chained = {}
    BY <1>2, <1>7, <2>2, KindsApart DEF Composition, c
  <2>3. CASE degenerate = {} /\ chained # {}
    <3>1. PICK v \in chained : c = ChainedComposition(v, inner.amount + outer.amount)
      <4>1. c = ChainedComposition(CHOOSE v \in chained : TRUE, inner.amount + outer.amount)
        BY <1>2, <1>7, <2>3 DEF Composition
      <4> QED BY <2>3, <4>1
    <3>2. \A i \in Bits : BitOf(c, i) = BitAfter(inner, outer, i)
      BY <1>7, <3>1, ChainedBits DEF chained
    <3>3. ASSUME NEW x \in Shift, c = Single(x) PROVE Map(x) = After2
      <4>1. \A i \in Bits : BitOf(c, i) = Src(x.variant.op, x.variant.half, x.amount, i)
        BY <3>3, KindsApart DEF BitOf
      <4> QED BY <1>1, <1>3, <3>2, <4>1
    <3>4. ASSUME c = Zero PROVE After2 = AllGone
      <4>1. \A i \in Bits : BitOf(c, i) = Gone
        BY <3>4, KindsApart DEF BitOf
      <4> QED BY <1>1, <3>2, <4>1 DEF AllGone
    <3> QED BY <3>3, <3>4 DEF After2, c
  <2> QED BY <2>1, <2>2, <2>3
<1> QED BY <1>5, <1>6, <1>7

(* Maps of bits compose, with a neutral one and one that absorbs. *)
LEMMA MapsOK ==
  /\ Unshifted \in MapSet /\ AllGone \in MapSet
  /\ \A m \in MapSet : After(Unshifted, m) = m /\ After(m, Unshifted) = m
  /\ \A m \in MapSet : After(AllGone, m) = AllGone /\ After(m, AllGone) = AllGone
  /\ \A m1, m2 \in MapSet : After(m1, m2) \in MapSet
  /\ \A m1, m2, m3 \in MapSet : After(m1, After(m2, m3)) = After(After(m1, m2), m3)
<1> USE Widths DEF MapSet, Unshifted, AllGone, After, Gone
<1>1. Unshifted \in MapSet /\ AllGone \in MapSet
  OBVIOUS
<1>2. \A m \in MapSet : After(Unshifted, m) = m /\ After(m, Unshifted) = m
  OBVIOUS
<1>3. \A m \in MapSet : After(AllGone, m) = AllGone /\ After(m, AllGone) = AllGone
  OBVIOUS
<1>4. \A m1, m2 \in MapSet : After(m1, m2) \in MapSet
  OBVIOUS
<1>5. \A m1, m2, m3 \in MapSet : After(m1, After(m2, m3)) = After(After(m1, m2), m3)
  OBVIOUS
<1> QED BY <1>1, <1>2, <1>3, <1>4, <1>5
------------------------------------------------------------------------------
Ops == {"sll", "slr", "sar", "rotr"}

(* The same again, of a shift of words of w bits. *)
Bit(op, w, k, i) == From(op, IF w = Half /\ i >= Half THEN Half ELSE 0, w, k, i)
Then(op1, w1, k1, op2, w2, k2, i) ==
  IF Bit(op2, w2, k2, i) = Gone THEN Gone ELSE Bit(op1, w1, k1, Bit(op2, w2, k2, i))

(* When two shifts come to one, or to none: the cases of Compose. *)
Combines(op1, w1, k1, op2, w2, k2) ==
  \/ w1 = w2 /\ (op1 = op2 \/ (op1 = "slr" /\ op2 = "sar"))
  \/ op1 = op2 /\ op1 # "rotr" /\ w1 = Width /\ k1 >= Half
  \/ op1 = op2 /\ op1 # "rotr" /\ w2 = Width /\ k2 >= Half
  \/ op1 = "slr" /\ op2 = "sar" /\ w1 = Width /\ k1 >= Half + 1
  \/ op1 = "slr" /\ op2 = "sar" /\ w2 = Width /\ k2 >= Half
  \/ op1 = "sar" /\ op2 = "rotr" /\ k1 = w1 - 1 /\ (w1 = Width \/ w2 = Half)
  \/ op1 = "sar" /\ op2 = "slr" /\ k2 = w2 - 1 /\ (w2 = Width \/ w1 = Half)

(* Two shifts do to every bit what one does, or nothing is left. *)
Alike(op1, w1, k1, op2, w2, k2, op, w, k, gone) ==
  \A i \in Bits : Then(op1, w1, k1, op2, w2, k2, i) = IF gone = 1 THEN Gone ELSE Bit(op, w, k, i)

(* Two shifts that do not combine are told from any one shift, and from the  *)
(* zero, by what they do to a few bits.                                      *)
LEMMA TwiceApart ==
  ASSUME NEW op1 \in Ops, NEW w1 \in {Half, Width}, NEW k1 \in Nat \ {0}, k1 < w1,
         NEW op2 \in Ops, NEW w2 \in {Half, Width}, NEW k2 \in Nat \ {0}, k2 < w2,
         ~Combines(op1, w1, k1, op2, w2, k2),
         NEW op \in Ops, NEW w \in {Half, Width}, NEW k \in Nat, k < w, NEW gone \in 0..1,
         Alike(op1, w1, k1, op2, w2, k2, op, w, k, gone)
  PROVE  FALSE
<1> DEFINE Now(i) == IF gone = 1 THEN Gone ELSE Bit(op, w, k, i)
           Same(i) == i \in 0..Width - 1 => Then(op1, w1, k1, op2, w2, k2, i) = Now(i)
<1>1. \A i \in Int : Same(i)
  BY Widths DEF Alike
<1>2. /\ Half \in Nat /\ Half >= 2 /\ Width = 2 * Half
      /\ k1 \in Nat /\ k1 >= 1 /\ k2 \in Nat /\ k2 >= 1
  BY Widths
<1> HIDE DEF Same, Now
<1>3. CASE op1 = "sll" /\ op2 = "sll"
  <2>1. CASE w1 = Width /\ w2 = Width
    BY <1>3, <2>1 DEF Combines
  <2>2. CASE w1 = Width /\ w2 = Half
    <3>0. k1 < Half
      BY <1>2, <1>3, <2>2 DEF Combines
    <3>1. /\ Now(Half + k2 - 1) = Then(op1, w1, k1, op2, w2, k2, Half + k2 - 1)
          /\ Now(Half + k2) = Then(op1, w1, k1, op2, w2, k2, Half + k2)
      <4>1. /\ Half + k2 - 1 \in 0..Width - 1
            /\ Half + k2 \in 0..Width - 1
        BY <1>2, <1>3, <2>2 DEF Combines
      <4> QED BY <1>1, <4>1 DEF Same
    <3>2. /\ Then(op1, w1, k1, op2, w2, k2, Half + k2 - 1) = Gone
          /\ Then(op1, w1, k1, op2, w2, k2, Half + k2) = Half - k1
      BY <1>2, <1>3, <2>2 DEF Then, Bit, From, Gone, Combines
    <3>3. /\ Now(Half + k2 - 1) = Gone
          /\ Now(Half + k2) = Half - k1
      BY <3>1, <3>2
    <3>4. /\ Bit(op, w, k, Half + k2 - 1) = Gone
          /\ Bit(op, w, k, Half + k2) = Half - k1
      BY <1>2, <2>2, <3>0, <3>3 DEF Now, Gone
    <3>5. CASE op \in {"sll", "sar"}
      BY <1>2, <2>2, <3>0, <3>4, <3>5, SMTT(20) DEF Bit, From, Gone
    <3>6. CASE op = "slr"
      BY <1>2, <2>2, <3>0, <3>4, <3>6 DEF Bit, From, Gone
    <3>7. CASE op = "rotr"
      BY <1>2, <2>2, <3>0, <3>4, <3>7 DEF Bit, From, Gone
    <3> QED BY <3>5, <3>6, <3>7 DEF Ops
  <2>3. CASE w1 = Half /\ w2 = Width
    <3>1. Same(Half + k2 - 1) /\ Same(Half + k2)
      BY <1>1, <1>2
    <3> QED BY <1>2, <1>3, <2>3, <3>1, SMTT(20) DEF Same, Now, Then, Bit, From, Gone, Combines, Ops
  <2>4. CASE w1 = Half /\ w2 = Half
    BY <1>3, <2>4 DEF Combines
  <2> QED BY <2>1, <2>2, <2>3, <2>4
<1>4. CASE op1 = "sll" /\ op2 = "slr"
  <2>1. CASE w1 = Width /\ w2 = Width
    <3>1. /\ Now(Width - 1 - k2) = Then(op1, w1, k1, op2, w2, k2, Width - 1 - k2)
          /\ Now(Width - k2) = Then(op1, w1, k1, op2, w2, k2, Width - k2)
          /\ Now(k1) = Then(op1, w1, k1, op2, w2, k2, k1)
      <4>1. /\ Width - 1 - k2 \in 0..Width - 1
            /\ Width - k2 \in 0..Width - 1
            /\ k1 \in 0..Width - 1
        BY <1>2, <1>4, <2>1 DEF Combines
      <4> QED BY <1>1, <4>1 DEF Same
    <3>2. /\ Then(op1, w1, k1, op2, w2, k2, Width - 1 - k2) = Width - 1 - k1
          /\ Then(op1, w1, k1, op2, w2, k2, Width - k2) = Gone
          /\ Then(op1, w1, k1, op2, w2, k2, k1) = IF k1 + k2 < Width THEN k2 ELSE Gone
      BY <1>2, <1>4, <2>1 DEF Then, Bit, From, Gone, Combines
    <3>3. /\ Now(Width - 1 - k2) = Width - 1 - k1
          /\ Now(Width - k2) = Gone
          /\ Now(k1) = IF k1 + k2 < Width THEN k2 ELSE Gone
      BY <3>1, <3>2
    <3>4. /\ Bit(op, w, k, Width - 1 - k2) = Width - 1 - k1
          /\ Bit(op, w, k, Width - k2) = Gone
          /\ Bit(op, w, k, k1) = IF k1 + k2 < Width THEN k2 ELSE Gone
      BY <1>2, <2>1, <3>3 DEF Now, Gone
    <3>5. CASE op \in {"sll", "sar"}
      BY <1>2, <2>1, <3>4, <3>5, SMTT(20) DEF Bit, From, Gone
    <3>6. CASE op = "slr"
      BY <1>2, <2>1, <3>4, <3>6 DEF Bit, From, Gone
    <3>7. CASE op = "rotr"
      BY <1>2, <2>1, <3>4, <3>7 DEF Bit, From, Gone
    <3> QED BY <3>5, <3>6, <3>7 DEF Ops
  <2>2. CASE w1 = Width /\ w2 = Half
    <3>1. /\ Now(Width - 1 - k2) = Then(op1, w1, k1, op2, w2, k2, Width - 1 - k2)
          /\ Now(Width - k2) = Then(op1, w1, k1, op2, w2, k2, Width - k2)
      <4>1. /\ Width - 1 - k2 \in 0..Width - 1
            /\ Width - k2 \in 0..Width - 1
        BY <1>2, <1>4, <2>2 DEF Combines
      <4> QED BY <1>1, <4>1 DEF Same
    <3>2. /\ Then(op1, w1, k1, op2, w2, k2, Width - 1 - k2) = Width - 1 - k1
          /\ Then(op1, w1, k1, op2, w2, k2, Width - k2) = Gone
      BY <1>2, <1>4, <2>2 DEF Then, Bit, From, Gone, Combines
    <3>3. /\ Now(Width - 1 - k2) = Width - 1 - k1
          /\ Now(Width - k2) = Gone
      BY <3>1, <3>2
    <3>4. /\ Bit(op, w, k, Width - 1 - k2) = Width - 1 - k1
          /\ Bit(op, w, k, Width - k2) = Gone
      BY <1>2, <2>2, <3>3 DEF Now, Gone
    <3>5. CASE op \in {"sll", "sar"}
      BY <1>2, <2>2, <3>4, <3>5, SMTT(20) DEF Bit, From, Gone
    <3>6. CASE op = "slr"
      BY <1>2, <2>2, <3>4, <3>6 DEF Bit, From, Gone
    <3>7. CASE op = "rotr"
      BY <1>2, <2>2, <3>4, <3>7 DEF Bit, From, Gone
    <3> QED BY <3>5, <3>6, <3>7 DEF Ops
  <2>3. CASE w1 = Half /\ w2 = Width
    <3>1. Same(Width - 1 - k2) /\ Same(Width - k2)
      BY <1>1, <1>2
    <3> QED BY <1>2, <1>4, <2>3, <3>1, SMTT(20) DEF Same, Now, Then, Bit, From, Gone, Combines, Ops
  <2>4. CASE w1 = Half /\ w2 = Half
    <3>1. Same(Width - 1 - k2) /\ Same(Half - k2)
      BY <1>1, <1>2
    <3> QED BY <1>2, <1>4, <2>4, <3>1, SMTT(20) DEF Same, Now, Then, Bit, From, Gone, Combines, Ops
  <2> QED BY <2>1, <2>2, <2>3, <2>4
<1>5. CASE op1 = "sll" /\ op2 = "sar"
  <2>1. CASE w1 = Width /\ w2 = Width
    <3>1. Same(Width - 1) /\ Same(Width - 2)
      BY <1>1, <1>2
    <3> QED BY <1>2, <1>5, <2>1, <3>1, SMTT(20) DEF Same, Now, Then, Bit, From, Gone, Combines, Ops
  <2>2. CASE w1 = Width /\ w2 = Half
    <3>1. Same(Width - 1) /\ Same(Width - 2)
      BY <1>1, <1>2
    <3> QED BY <1>2, <1>5, <2>2, <3>1, SMTT(20) DEF Same, Now, Then, Bit, From, Gone, Combines, Ops
  <2>3. CASE w1 = Half /\ w2 = Width
    <3>1. Same(Width - 1) /\ Same(k1)
      BY <1>1, <1>2
    <3> QED BY <1>2, <1>5, <2>3, <3>1, SMTT(20) DEF Same, Now, Then, Bit, From, Gone, Combines, Ops
  <2>4. CASE w1 = Half /\ w2 = Half
    <3>1. Same(Width - 1 - k2) /\ Same(Half - 1)
      BY <1>1, <1>2
    <3> QED BY <1>2, <1>5, <2>4, <3>1, SMTT(20) DEF Same, Now, Then, Bit, From, Gone, Combines, Ops
  <2> QED BY <2>1, <2>2, <2>3, <2>4
<1>6. CASE op1 = "sll" /\ op2 = "rotr"
  <2>1. CASE w1 = Width /\ w2 = Width
    <3>1. Same(Width - 1 - k2) /\ Same(Width - k2) /\ Same(Width - 1)
      BY <1>1, <1>2
    <3> QED BY <1>2, <1>6, <2>1, <3>1, SMTT(20) DEF Same, Now, Then, Bit, From, Gone, Combines, Ops
  <2>2. CASE w1 = Width /\ w2 = Half
    <3>1. Same(Width - 1 - k2) /\ Same(Width - k2)
      BY <1>1, <1>2
    <3> QED BY <1>2, <1>6, <2>2, <3>1, SMTT(20) DEF Same, Now, Then, Bit, From, Gone, Combines, Ops
  <2>3. CASE w1 = Half /\ w2 = Width
    <3>1. Same(Width - 1 - k2) /\ Same(Width - k2)
      BY <1>1, <1>2
    <3> QED BY <1>2, <1>6, <2>3, <3>1, SMTT(20) DEF Same, Now, Then, Bit, From, Gone, Combines, Ops
  <2>4. CASE w1 = Half /\ w2 = Half
    <3>1. Same(Width - 1 - k2) /\ Same(Half - k2)
      BY <1>1, <1>2
    <3> QED BY <1>2, <1>6, <2>4, <3>1, SMTT(20) DEF Same, Now, Then, Bit, From, Gone, Combines, Ops
  <2> QED BY <2>1, <2>2, <2>3, <2>4
<1>7. CASE op1 = "slr" /\ op2 = "sll"
  <2>1. CASE w1 = Width /\ w2 = Width
    <3>1. /\ Now(k2 - 1) = Then(op1, w1, k1, op2, w2, k2, k2 - 1)
          /\ Now(k2) = Then(op1, w1, k1, op2, w2, k2, k2)
          /\ Now(Width - 1 - k1) = Then(op1, w1, k1, op2, w2, k2, Width - 1 - k1)
      <4>1. /\ k2 - 1 \in 0..Width - 1
            /\ k2 \in 0..Width - 1
            /\ Width - 1 - k1 \in 0..Width - 1
        BY <1>2, <1>7, <2>1 DEF Combines
      <4> QED BY <1>1, <4>1 DEF Same
    <3>2. /\ Then(op1, w1, k1, op2, w2, k2, k2 - 1) = Gone
          /\ Then(op1, w1, k1, op2, w2, k2, k2) = k1
          /\ Then(op1, w1, k1, op2, w2, k2, Width - 1 - k1) = IF k1 + k2 < Width THEN Width - 1 - k2 ELSE Gone
      BY <1>2, <1>7, <2>1 DEF Then, Bit, From, Gone, Combines
    <3>3. /\ Now(k2 - 1) = Gone
          /\ Now(k2) = k1
          /\ Now(Width - 1 - k1) = IF k1 + k2 < Width THEN Width - 1 - k2 ELSE Gone
      BY <3>1, <3>2
    <3>4. /\ Bit(op, w, k, k2 - 1) = Gone
          /\ Bit(op, w, k, k2) = k1
          /\ Bit(op, w, k, Width - 1 - k1) = IF k1 + k2 < Width THEN Width - 1 - k2 ELSE Gone
      BY <1>2, <2>1, <3>3 DEF Now, Gone
    <3>5. CASE op \in {"sll", "sar"}
      BY <1>2, <2>1, <3>4, <3>5, SMTT(20) DEF Bit, From, Gone
    <3>6. CASE op = "slr"
      BY <1>2, <2>1, <3>4, <3>6 DEF Bit, From, Gone
    <3>7. CASE op = "rotr"
      BY <1>2, <2>1, <3>4, <3>7 DEF Bit, From, Gone
    <3> QED BY <3>5, <3>6, <3>7 DEF Ops
  <2>2. CASE w1 = Width /\ w2 = Half
    <3>1. Same(k2) /\ Same(k2 - 1)
      BY <1>1, <1>2
    <3> QED BY <1>2, <1>7, <2>2, <3>1, SMTT(20) DEF Same, Now, Then, Bit, From, Gone, Combines, Ops
  <2>3. CASE w1 = Half /\ w2 = Width
    <3>1. Same(k2) /\ Same(k2 - 1)
      BY <1>1, <1>2
    <3> QED BY <1>2, <1>7, <2>3, <3>1, SMTT(20) DEF Same, Now, Then, Bit, From, Gone, Combines, Ops
  <2>4. CASE w1 = Half /\ w2 = Half
    <3>1. Same(k2) /\ Same(Half + k2 - 1)
      BY <1>1, <1>2
    <3> QED BY <1>2, <1>7, <2>4, <3>1, SMTT(20) DEF Same, Now, Then, Bit, From, Gone, Combines, Ops
  <2> QED BY <2>1, <2>2, <2>3, <2>4
<1>8. CASE op1 = "slr" /\ op2 = "slr"
  <2>1. CASE w1 = Width /\ w2 = Width
    BY <1>8, <2>1 DEF Combines
  <2>2. CASE w1 = Width /\ w2 = Half
    <3>1. Same(Half - 1 - k2) /\ Same(Half - k2)
      BY <1>1, <1>2
    <3> QED BY <1>2, <1>8, <2>2, <3>1, SMTT(20) DEF Same, Now, Then, Bit, From, Gone, Combines, Ops
  <2>3. CASE w1 = Half /\ w2 = Width
    <3>1. Same(Half - k2) /\ Same(Half - 1 - k2)
      BY <1>1, <1>2
    <3> QED BY <1>2, <1>8, <2>3, <3>1, SMTT(20) DEF Same, Now, Then, Bit, From, Gone, Combines, Ops
  <2>4. CASE w1 = Half /\ w2 = Half
    BY <1>8, <2>4 DEF Combines
  <2> QED BY <2>1, <2>2, <2>3, <2>4
<1>9. CASE op1 = "slr" /\ op2 = "sar"
  <2>1. CASE w1 = Width /\ w2 = Width
    BY <1>9, <2>1 DEF Combines
  <2>2. CASE w1 = Width /\ w2 = Half
    <3>1. Same(Half - 1 - k2) /\ Same(Half - 1) /\ Same(k1)
      BY <1>1, <1>2
    <3> QED BY <1>2, <1>9, <2>2, <3>1, SMTT(20) DEF Same, Now, Then, Bit, From, Gone, Combines, Ops
  <2>3. CASE w1 = Half /\ w2 = Width
    <3>1. Same(Half - k2) /\ Same(Half - 1 - k2)
      BY <1>1, <1>2
    <3> QED BY <1>2, <1>9, <2>3, <3>1, SMTT(20) DEF Same, Now, Then, Bit, From, Gone, Combines, Ops
  <2>4. CASE w1 = Half /\ w2 = Half
    BY <1>9, <2>4 DEF Combines
  <2> QED BY <2>1, <2>2, <2>3, <2>4
<1>10. CASE op1 = "slr" /\ op2 = "rotr"
  <2>1. CASE w1 = Width /\ w2 = Width
    <3>1. /\ Now(Width - 1 - k2) = Then(op1, w1, k1, op2, w2, k2, Width - 1 - k2)
          /\ Now(Width - k2) = Then(op1, w1, k1, op2, w2, k2, Width - k2)
          /\ Now(Width - 1 - k1) = Then(op1, w1, k1, op2, w2, k2, Width - 1 - k1)
      <4>1. /\ Width - 1 - k2 \in 0..Width - 1
            /\ Width - k2 \in 0..Width - 1
            /\ Width - 1 - k1 \in 0..Width - 1
        BY <1>2, <1>10, <2>1 DEF Combines
      <4> QED BY <1>1, <4>1 DEF Same
    <3>2. /\ Then(op1, w1, k1, op2, w2, k2, Width - 1 - k2) = Gone
          /\ Then(op1, w1, k1, op2, w2, k2, Width - k2) = k1
          /\ Then(op1, w1, k1, op2, w2, k2, Width - 1 - k1) = IF k2 <= k1 THEN Gone ELSE k2 - 1
      BY <1>2, <1>10, <2>1 DEF Then, Bit, From, Gone, Combines
    <3>3. /\ Now(Width - 1 - k2) = Gone
          /\ Now(Width - k2) = k1
          /\ Now(Width - 1 - k1) = IF k2 <= k1 THEN Gone ELSE k2 - 1
      BY <3>1, <3>2
    <3>4. /\ Bit(op, w, k, Width - 1 - k2) = Gone
          /\ Bit(op, w, k, Width - k2) = k1
          /\ Bit(op, w, k, Width - 1 - k1) = IF k2 <= k1 THEN Gone ELSE k2 - 1
      BY <1>2, <2>1, <3>3 DEF Now, Gone
    <3>5. CASE op \in {"sll", "sar"}
      BY <1>2, <2>1, <3>4, <3>5, SMTT(20) DEF Bit, From, Gone
    <3>6. CASE op = "slr"
      BY <1>2, <2>1, <3>4, <3>6 DEF Bit, From, Gone
    <3>7. CASE op = "rotr"
      BY <1>2, <2>1, <3>4, <3>7 DEF Bit, From, Gone
    <3> QED BY <3>5, <3>6, <3>7 DEF Ops
  <2>2. CASE w1 = Width /\ w2 = Half
    <3>1. Same(Half - k2) /\ Same(Half - 1 - k2)
      BY <1>1, <1>2
    <3> QED BY <1>2, <1>10, <2>2, <3>1, SMTT(20) DEF Same, Now, Then, Bit, From, Gone, Combines, Ops
  <2>3. CASE w1 = Half /\ w2 = Width
    <3>1. Same(Width - k2) /\ Same(Width - 1 - k2)
      BY <1>1, <1>2
    <3> QED BY <1>2, <1>10, <2>3, <3>1, SMTT(20) DEF Same, Now, Then, Bit, From, Gone, Combines, Ops
  <2>4. CASE w1 = Half /\ w2 = Half
    <3>1. Same(Half - k2) /\ Same(Width - 1 - k2)
      BY <1>1, <1>2
    <3> QED BY <1>2, <1>10, <2>4, <3>1, SMTT(20) DEF Same, Now, Then, Bit, From, Gone, Combines, Ops
  <2> QED BY <2>1, <2>2, <2>3, <2>4
<1>11. CASE op1 = "sar" /\ op2 = "sll"
  <2>1. CASE w1 = Width /\ w2 = Width
    <3>1. Same(k2) /\ Same(k2 - 1) /\ Same(Width - 1 - k1)
      BY <1>1, <1>2
    <3> QED BY <1>2, <1>11, <2>1, <3>1, SMTT(20) DEF Same, Now, Then, Bit, From, Gone, Combines, Ops
  <2>2. CASE w1 = Width /\ w2 = Half
    <3>1. Same(k2) /\ Same(k2 - 1)
      BY <1>1, <1>2
    <3> QED BY <1>2, <1>11, <2>2, <3>1, SMTT(20) DEF Same, Now, Then, Bit, From, Gone, Combines, Ops
  <2>3. CASE w1 = Half /\ w2 = Width
    <3>1. Same(k2) /\ Same(k2 - 1)
      BY <1>1, <1>2
    <3> QED BY <1>2, <1>11, <2>3, <3>1, SMTT(20) DEF Same, Now, Then, Bit, From, Gone, Combines, Ops
  <2>4. CASE w1 = Half /\ w2 = Half
    <3>1. Same(k2) /\ Same(Half + k2 - 1)
      BY <1>1, <1>2
    <3> QED BY <1>2, <1>11, <2>4, <3>1, SMTT(20) DEF Same, Now, Then, Bit, From, Gone, Combines, Ops
  <2> QED BY <2>1, <2>2, <2>3, <2>4
<1>12. CASE op1 = "sar" /\ op2 = "slr"
  <2>1. CASE w1 = Width /\ w2 = Width
    <3>1. Same(0) /\ Same(Width - 1 - k2) /\ Same(Width - 1)
      BY <1>1, <1>2
    <3> QED BY <1>2, <1>12, <2>1, <3>1, SMTT(20) DEF Same, Now, Then, Bit, From, Gone, Combines, Ops
  <2>2. CASE w1 = Width /\ w2 = Half
    <3>1. Same(0) /\ Same(Half - k2) /\ Same(Width - 1 - k2)
      BY <1>1, <1>2
    <3> QED BY <1>2, <1>12, <2>2, <3>1, SMTT(20) DEF Same, Now, Then, Bit, From, Gone, Combines, Ops
  <2>3. CASE w1 = Half /\ w2 = Width
    <3>0. k2 < Width - 1
      BY <1>2, <1>12, <2>3 DEF Combines
    <3>1. /\ Now(Width - 2 - k2) = Then(op1, w1, k1, op2, w2, k2, Width - 2 - k2)
          /\ Now(Width - 1 - k2) = Then(op1, w1, k1, op2, w2, k2, Width - 1 - k2)
          /\ Now(Width - k2) = Then(op1, w1, k1, op2, w2, k2, Width - k2)
      <4>1. /\ Width - 2 - k2 \in 0..Width - 1
            /\ Width - 1 - k2 \in 0..Width - 1
            /\ Width - k2 \in 0..Width - 1
        BY <1>2, <1>12, <2>3 DEF Combines
      <4> QED BY <1>1, <4>1 DEF Same
    <3>2. /\ Then(op1, w1, k1, op2, w2, k2, Width - 2 - k2) = Width - 1
          /\ Then(op1, w1, k1, op2, w2, k2, Width - 1 - k2) = Width - 1
          /\ Then(op1, w1, k1, op2, w2, k2, Width - k2) = Gone
      BY <1>2, <1>12, <2>3 DEF Then, Bit, From, Gone, Combines
    <3>3. /\ Now(Width - 2 - k2) = Width - 1
          /\ Now(Width - 1 - k2) = Width - 1
          /\ Now(Width - k2) = Gone
      BY <3>1, <3>2
    <3>4. /\ Bit(op, w, k, Width - 2 - k2) = Width - 1
          /\ Bit(op, w, k, Width - 1 - k2) = Width - 1
          /\ Bit(op, w, k, Width - k2) = Gone
      BY <1>2, <2>3, <3>0, <3>3 DEF Now, Gone
    <3>5. CASE op \in {"sll", "sar"}
      BY <1>2, <2>3, <3>0, <3>4, <3>5, SMTT(20) DEF Bit, From, Gone
    <3>6. CASE op = "slr"
      BY <1>2, <2>3, <3>0, <3>4, <3>6 DEF Bit, From, Gone
    <3>7. CASE op = "rotr"
      BY <1>2, <2>3, <3>0, <3>4, <3>7 DEF Bit, From, Gone
    <3> QED BY <3>5, <3>6, <3>7 DEF Ops
  <2>4. CASE w1 = Half /\ w2 = Half
    <3>1. Same(0) /\ Same(Half - 1 - k2) /\ Same(Width - 1)
      BY <1>1, <1>2
    <3> QED BY <1>2, <1>12, <2>4, <3>1, SMTT(20) DEF Same, Now, Then, Bit, From, Gone, Combines, Ops
  <2> QED BY <2>1, <2>2, <2>3, <2>4
<1>13. CASE op1 = "sar" /\ op2 = "sar"
  <2>1. CASE w1 = Width /\ w2 = Width
    BY <1>13, <2>1 DEF Combines
  <2>2. CASE w1 = Width /\ w2 = Half
    <3>1. Same(Half - 1 - k2) /\ Same(Half - 1)
      BY <1>1, <1>2
    <3> QED BY <1>2, <1>13, <2>2, <3>1, SMTT(20) DEF Same, Now, Then, Bit, From, Gone, Combines, Ops
  <2>3. CASE w1 = Half /\ w2 = Width
    <3>1. Same(Half - k2) /\ Same(Half - 1 - k2)
      BY <1>1, <1>2
    <3> QED BY <1>2, <1>13, <2>3, <3>1, SMTT(20) DEF Same, Now, Then, Bit, From, Gone, Combines, Ops
  <2>4. CASE w1 = Half /\ w2 = Half
    BY <1>13, <2>4 DEF Combines
  <2> QED BY <2>1, <2>2, <2>3, <2>4
<1>14. CASE op1 = "sar" /\ op2 = "rotr"
  <2>1. CASE w1 = Width /\ w2 = Width
    <3>0. k1 < Width - 1
      BY <1>2, <1>14, <2>1 DEF Combines
    <3>1. /\ Now(Width - 1 - k2) = Then(op1, w1, k1, op2, w2, k2, Width - 1 - k2)
          /\ Now(Width - k2) = Then(op1, w1, k1, op2, w2, k2, Width - k2)
          /\ Now(0) = Then(op1, w1, k1, op2, w2, k2, 0)
      <4>1. /\ Width - 1 - k2 \in 0..Width - 1
            /\ Width - k2 \in 0..Width - 1
            /\ 0 \in 0..Width - 1
        BY <1>2, <1>14, <2>1 DEF Combines
      <4> QED BY <1>1, <4>1 DEF Same
    <3>2. /\ Then(op1, w1, k1, op2, w2, k2, Width - 1 - k2) = Width - 1
          /\ Then(op1, w1, k1, op2, w2, k2, Width - k2) = k1
          /\ Then(op1, w1, k1, op2, w2, k2, 0) = IF k1 + k2 < Width THEN k1 + k2 ELSE Width - 1
      BY <1>2, <1>14, <2>1 DEF Then, Bit, From, Gone, Combines
    <3>3. /\ Now(Width - 1 - k2) = Width - 1
          /\ Now(Width - k2) = k1
          /\ Now(0) = IF k1 + k2 < Width THEN k1 + k2 ELSE Width - 1
      BY <3>1, <3>2
    <3>4. /\ Bit(op, w, k, Width - 1 - k2) = Width - 1
          /\ Bit(op, w, k, Width - k2) = k1
          /\ Bit(op, w, k, 0) = IF k1 + k2 < Width THEN k1 + k2 ELSE Width - 1
      BY <1>2, <2>1, <3>0, <3>3 DEF Now, Gone
    <3>5. CASE op \in {"sll", "sar"}
      BY <1>2, <2>1, <3>0, <3>4, <3>5, SMTT(20) DEF Bit, From, Gone
    <3>6. CASE op = "slr"
      BY <1>2, <2>1, <3>0, <3>4, <3>6 DEF Bit, From, Gone
    <3>7. CASE op = "rotr"
      <4>1. CASE w = Half
        BY <1>2, <2>1, <3>0, <3>4, <3>7, <4>1, SMTT(20) DEF Bit, From, Gone
      <4>2. CASE w = Width
        BY <1>2, <2>1, <3>0, <3>4, <3>7, <4>2, SMTT(20) DEF Bit, From, Gone
      <4> QED BY <4>1, <4>2
    <3> QED BY <3>5, <3>6, <3>7 DEF Ops
  <2>2. CASE w1 = Width /\ w2 = Half
    <3>0. k1 < Width - 1
      BY <1>2, <1>14, <2>2 DEF Combines
    <3>1. /\ Now(Half - 1 - k2) = Then(op1, w1, k1, op2, w2, k2, Half - 1 - k2)
          /\ Now(Half - k2) = Then(op1, w1, k1, op2, w2, k2, Half - k2)
      <4>1. /\ Half - 1 - k2 \in 0..Width - 1
            /\ Half - k2 \in 0..Width - 1
        BY <1>2, <1>14, <2>2 DEF Combines
      <4> QED BY <1>1, <4>1 DEF Same
    <3>2. /\ Then(op1, w1, k1, op2, w2, k2, Half - 1 - k2) = IF k1 <= Half THEN Half - 1 + k1 ELSE Width - 1
          /\ Then(op1, w1, k1, op2, w2, k2, Half - k2) = k1
      BY <1>2, <1>14, <2>2 DEF Then, Bit, From, Gone, Combines
    <3>3. /\ Now(Half - 1 - k2) = IF k1 <= Half THEN Half - 1 + k1 ELSE Width - 1
          /\ Now(Half - k2) = k1
      BY <3>1, <3>2
    <3>4. /\ Bit(op, w, k, Half - 1 - k2) = IF k1 <= Half THEN Half - 1 + k1 ELSE Width - 1
          /\ Bit(op, w, k, Half - k2) = k1
      BY <1>2, <2>2, <3>0, <3>3 DEF Now, Gone
    <3>5. CASE op \in {"sll", "sar"}
      BY <1>2, <2>2, <3>0, <3>4, <3>5, SMTT(20) DEF Bit, From, Gone
    <3>6. CASE op = "slr"
      BY <1>2, <2>2, <3>0, <3>4, <3>6 DEF Bit, From, Gone
    <3>7. CASE op = "rotr"
      BY <1>2, <2>2, <3>0, <3>4, <3>7 DEF Bit, From, Gone
    <3> QED BY <3>5, <3>6, <3>7 DEF Ops
  <2>3. CASE w1 = Half /\ w2 = Width
    <3>1. Same(Width - k2) /\ Same(Width - 1 - k2)
      BY <1>1, <1>2
    <3> QED BY <1>2, <1>14, <2>3, <3>1, SMTT(20) DEF Same, Now, Then, Bit, From, Gone, Combines, Ops
  <2>4. CASE w1 = Half /\ w2 = Half
    <3>1. Same(Half - k2) /\ Same(Width - 1 - k2)
      BY <1>1, <1>2
    <3> QED BY <1>2, <1>14, <2>4, <3>1, SMTT(20) DEF Same, Now, Then, Bit, From, Gone, Combines, Ops
  <2> QED BY <2>1, <2>2, <2>3, <2>4
<1>15. CASE op1 = "rotr" /\ op2 = "sll"
  <2>1. CASE w1 = Width /\ w2 = Width
    <3>1. Same(k2) /\ Same(k2 - 1) /\ Same(Width - 1 - k1)
      BY <1>1, <1>2
    <3> QED BY <1>2, <1>15, <2>1, <3>1, SMTT(20) DEF Same, Now, Then, Bit, From, Gone, Combines, Ops
  <2>2. CASE w1 = Width /\ w2 = Half
    <3>1. /\ Now(Half + k2 - 1) = Then(op1, w1, k1, op2, w2, k2, Half + k2 - 1)
          /\ Now(Half + k2) = Then(op1, w1, k1, op2, w2, k2, Half + k2)
          /\ Now(k2) = Then(op1, w1, k1, op2, w2, k2, k2)
      <4>1. /\ Half + k2 - 1 \in 0..Width - 1
            /\ Half + k2 \in 0..Width - 1
            /\ k2 \in 0..Width - 1
        BY <1>2, <1>15, <2>2 DEF Combines
      <4> QED BY <1>1, <4>1 DEF Same
    <3>2. /\ Then(op1, w1, k1, op2, w2, k2, Half + k2 - 1) = Gone
          /\ Then(op1, w1, k1, op2, w2, k2, Half + k2) = IF k1 < Half THEN Half + k1 ELSE k1 - Half
          /\ Then(op1, w1, k1, op2, w2, k2, k2) = k1
      BY <1>2, <1>15, <2>2 DEF Then, Bit, From, Gone, Combines
    <3>3. /\ Now(Half + k2 - 1) = Gone
          /\ Now(Half + k2) = IF k1 < Half THEN Half + k1 ELSE k1 - Half
          /\ Now(k2) = k1
      BY <3>1, <3>2
    <3>4. /\ Bit(op, w, k, Half + k2 - 1) = Gone
          /\ Bit(op, w, k, Half + k2) = IF k1 < Half THEN Half + k1 ELSE k1 - Half
          /\ Bit(op, w, k, k2) = k1
      BY <1>2, <2>2, <3>3 DEF Now, Gone
    <3>5. CASE op \in {"sll", "sar"}
      BY <1>2, <2>2, <3>4, <3>5, SMTT(20) DEF Bit, From, Gone
    <3>6. CASE op = "slr"
      BY <1>2, <2>2, <3>4, <3>6 DEF Bit, From, Gone
    <3>7. CASE op = "rotr"
      BY <1>2, <2>2, <3>4, <3>7 DEF Bit, From, Gone
    <3> QED BY <3>5, <3>6, <3>7 DEF Ops
  <2>3. CASE w1 = Half /\ w2 = Width
    <3>1. Same(k2) /\ Same(k2 - 1)
      BY <1>1, <1>2
    <3> QED BY <1>2, <1>15, <2>3, <3>1, SMTT(20) DEF Same, Now, Then, Bit, From, Gone, Combines, Ops
  <2>4. CASE w1 = Half /\ w2 = Half
    <3>1. Same(k2) /\ Same(Half + k2 - 1)
      BY <1>1, <1>2
    <3> QED BY <1>2, <1>15, <2>4, <3>1, SMTT(20) DEF Same, Now, Then, Bit, From, Gone, Combines, Ops
  <2> QED BY <2>1, <2>2, <2>3, <2>4
<1>16. CASE op1 = "rotr" /\ op2 = "slr"
  <2>1. CASE w1 = Width /\ w2 = Width
    <3>1. /\ Now(Width - 1 - k2) = Then(op1, w1, k1, op2, w2, k2, Width - 1 - k2)
          /\ Now(Width - k2) = Then(op1, w1, k1, op2, w2, k2, Width - k2)
          /\ Now(0) = Then(op1, w1, k1, op2, w2, k2, 0)
          /\ Now(Half) = Then(op1, w1, k1, op2, w2, k2, Half)
      <4>1. /\ Width - 1 - k2 \in 0..Width - 1
            /\ Width - k2 \in 0..Width - 1
            /\ 0 \in 0..Width - 1
            /\ Half \in 0..Width - 1
        BY <1>2, <1>16, <2>1 DEF Combines
      <4> QED BY <1>1, <4>1 DEF Same
    <3>2. /\ Then(op1, w1, k1, op2, w2, k2, Width - 1 - k2) = k1 - 1
          /\ Then(op1, w1, k1, op2, w2, k2, Width - k2) = Gone
          /\ Then(op1, w1, k1, op2, w2, k2, 0) = IF k1 + k2 < Width THEN k1 + k2 ELSE k1 + k2 - Width
          /\ Then(op1, w1, k1, op2, w2, k2, Half) = IF k2 >= Half THEN Gone ELSE IF Half + k1 + k2 < Width THEN Half + k1 + k2 ELSE k1 + k2 - Half
      BY <1>2, <1>16, <2>1 DEF Then, Bit, From, Gone, Combines
    <3>3. /\ Now(Width - 1 - k2) = k1 - 1
          /\ Now(Width - k2) = Gone
          /\ Now(0) = IF k1 + k2 < Width THEN k1 + k2 ELSE k1 + k2 - Width
          /\ Now(Half) = IF k2 >= Half THEN Gone ELSE IF Half + k1 + k2 < Width THEN Half + k1 + k2 ELSE k1 + k2 - Half
      BY <3>1, <3>2
    <3>4. /\ Bit(op, w, k, Width - 1 - k2) = k1 - 1
          /\ Bit(op, w, k, Width - k2) = Gone
          /\ Bit(op, w, k, 0) = IF k1 + k2 < Width THEN k1 + k2 ELSE k1 + k2 - Width
          /\ Bit(op, w, k, Half) = IF k2 >= Half THEN Gone ELSE IF Half + k1 + k2 < Width THEN Half + k1 + k2 ELSE k1 + k2 - Half
      BY <1>2, <2>1, <3>3 DEF Now, Gone
    <3>5. CASE op \in {"sll", "sar"}
      BY <1>2, <2>1, <3>4, <3>5, SMTT(20) DEF Bit, From, Gone
    <3>6. CASE op = "slr"
      BY <1>2, <2>1, <3>4, <3>6 DEF Bit, From, Gone
    <3>7. CASE op = "rotr"
      BY <1>2, <2>1, <3>4, <3>7 DEF Bit, From, Gone
    <3> QED BY <3>5, <3>6, <3>7 DEF Ops
  <2>2. CASE w1 = Width /\ w2 = Half
    <3>1. Same(Width - 1 - k2) /\ Same(Width - k2)
      BY <1>1, <1>2
    <3> QED BY <1>2, <1>16, <2>2, <3>1, SMTT(20) DEF Same, Now, Then, Bit, From, Gone, Combines, Ops
  <2>3. CASE w1 = Half /\ w2 = Width
    <3>1. Same(Width - 1 - k2) /\ Same(Width - k2)
      BY <1>1, <1>2
    <3> QED BY <1>2, <1>16, <2>3, <3>1, SMTT(20) DEF Same, Now, Then, Bit, From, Gone, Combines, Ops
  <2>4. CASE w1 = Half /\ w2 = Half
    <3>1. Same(Width - 1 - k2) /\ Same(Width - k2)
      BY <1>1, <1>2
    <3> QED BY <1>2, <1>16, <2>4, <3>1, SMTT(20) DEF Same, Now, Then, Bit, From, Gone, Combines, Ops
  <2> QED BY <2>1, <2>2, <2>3, <2>4
<1>17. CASE op1 = "rotr" /\ op2 = "sar"
  <2>1. CASE w1 = Width /\ w2 = Width
    <3>1. Same(Width - 1) /\ Same(Width - 2)
      BY <1>1, <1>2
    <3> QED BY <1>2, <1>17, <2>1, <3>1, SMTT(20) DEF Same, Now, Then, Bit, From, Gone, Combines, Ops
  <2>2. CASE w1 = Width /\ w2 = Half
    <3>1. /\ Now(Width - 1) = Then(op1, w1, k1, op2, w2, k2, Width - 1)
          /\ Now(Width - 2) = Then(op1, w1, k1, op2, w2, k2, Width - 2)
      <4>1. /\ Width - 1 \in 0..Width - 1
            /\ Width - 2 \in 0..Width - 1
        BY <1>2, <1>17, <2>2 DEF Combines
      <4> QED BY <1>1, <4>1 DEF Same
    <3>2. /\ Then(op1, w1, k1, op2, w2, k2, Width - 1) = k1 - 1
          /\ Then(op1, w1, k1, op2, w2, k2, Width - 2) = k1 - 1
      BY <1>2, <1>17, <2>2 DEF Then, Bit, From, Gone, Combines
    <3>3. /\ Now(Width - 1) = k1 - 1
          /\ Now(Width - 2) = k1 - 1
      BY <3>1, <3>2
    <3>4. /\ Bit(op, w, k, Width - 1) = k1 - 1
          /\ Bit(op, w, k, Width - 2) = k1 - 1
      BY <1>2, <2>2, <3>3 DEF Now, Gone
    <3>5. CASE op \in {"sll", "sar"}
      BY <1>2, <2>2, <3>4, <3>5, SMTT(20) DEF Bit, From, Gone
    <3>6. CASE op = "slr"
      BY <1>2, <2>2, <3>4, <3>6 DEF Bit, From, Gone
    <3>7. CASE op = "rotr"
      BY <1>2, <2>2, <3>4, <3>7 DEF Bit, From, Gone
    <3> QED BY <3>5, <3>6, <3>7 DEF Ops
  <2>3. CASE w1 = Half /\ w2 = Width
    <3>1. Same(Width - 1) /\ Same(Width - 1 - k1)
      BY <1>1, <1>2
    <3> QED BY <1>2, <1>17, <2>3, <3>1, SMTT(20) DEF Same, Now, Then, Bit, From, Gone, Combines, Ops
  <2>4. CASE w1 = Half /\ w2 = Half
    <3>1. Same(Half - 1) /\ Same(Width - 1 - k1)
      BY <1>1, <1>2
    <3> QED BY <1>2, <1>17, <2>4, <3>1, SMTT(20) DEF Same, Now, Then, Bit, From, Gone, Combines, Ops
  <2> QED BY <2>1, <2>2, <2>3, <2>4
<1>18. CASE op1 = "rotr" /\ op2 = "rotr"
  <2>1. CASE w1 = Width /\ w2 = Width
    BY <1>18, <2>1 DEF Combines
  <2>2. CASE w1 = Width /\ w2 = Half
    <3>1. Same(Width - 1 - k1) /\ Same(Width - 1) /\ Same(Width - 1 - k2) /\ Same(3 * Half - 1 - k1 - k2)
      BY <1>1, <1>2
    <3> QED BY <1>2, <1>18, <2>2, <3>1, SMTT(20) DEF Same, Now, Then, Bit, From, Gone, Combines, Ops
  <2>3. CASE w1 = Half /\ w2 = Width
    <3>1. Same(Width - k2) /\ Same(Width - 1 - k2)
      BY <1>1, <1>2
    <3> QED BY <1>2, <1>18, <2>3, <3>1, SMTT(20) DEF Same, Now, Then, Bit, From, Gone, Combines, Ops
  <2>4. CASE w1 = Half /\ w2 = Half
    BY <1>18, <2>4 DEF Combines
  <2> QED BY <2>1, <2>2, <2>3, <2>4
<1> QED BY <1>3, <1>4, <1>5, <1>6, <1>7, <1>8, <1>9, <1>10, <1>11, <1>12, <1>13, <1>14, <1>15, <1>16, <1>17, <1>18 DEF Ops

(* Two shifts that are kept apart do not combine. *)
LEMMA KeptApart ==
  ASSUME NEW inner \in Shift, NEW outer \in Shift, Compose(inner, outer) = Pair
  PROVE  ~Combines(inner.variant.op, max_amount(inner.variant), inner.amount,
                   outer.variant.op, max_amount(outer.variant), outer.amount)
<1> DEFINE i0 == inner.variant
           o0 == outer.variant
           k1 == inner.amount
           k2 == outer.amount
           w1 == max_amount(i0)
           w2 == max_amount(o0)
<1>1. ~is_identity(inner) /\ ~is_identity(outer)
  BY ComposeIdentity
<1>2. Degenerate(inner, outer) = {} /\ Chained(inner, outer) = {}
  <2> DEFINE degenerate == Degenerate(inner, outer)
             chained == Chained(inner, outer)
  <2>1. Pair = IF degenerate # {} THEN Single(CHOOSE s \in degenerate : TRUE)
               ELSE IF chained = {} THEN Pair
               ELSE ChainedComposition(CHOOSE v \in chained : TRUE, k1 + k2)
    BY <1>1, ComposeIs DEF Composition
  <2>2. degenerate = {}
    BY <2>1, KindsApart
  <2>3. ASSUME chained # {} PROVE FALSE
    <3>1. PICK v \in chained : Pair = ChainedComposition(v, k1 + k2)
      <4>1. Pair = ChainedComposition(CHOOSE v \in chained : TRUE, k1 + k2)
        BY <2>1, <2>2, <2>3
      <4> QED BY <2>3, <4>1
    <3>2. v \in ShiftVariant /\ k1 + k2 \in Nat
      BY ShiftOK DEF Chained
    <3> QED BY <3>1, <3>2, ChainedCompositionOK, KindsApart
  <2> QED BY <2>2, <2>3
<1>3. /\ i0 \in ShiftVariant /\ o0 \in ShiftVariant
      /\ \A v \in ShiftVariant : /\ v.half => v = Halves(v.op) /\ max_amount(v) = Half
                                 /\ ~v.half => v = Whole(v.op) /\ max_amount(v) = Width
      /\ Half # Width
      /\ \A op : Whole(op).op = op /\ ~Whole(op).half /\ Halves(op).op = op /\ Halves(op).half
  BY ShiftOK, Widths DEF ShiftVariant, Whole, Halves, max_amount
<1>4. /\ ~(i0 = Whole("sar") /\ o0.op = "rotr" /\ k1 = Width - 1)
      /\ ~(i0 = Halves("sar") /\ o0 = Halves("rotr") /\ k1 = Half - 1)
      /\ ~(i0.op = "sar" /\ o0 = Whole("slr") /\ k2 = Width - 1)
      /\ ~(i0 = Halves("sar") /\ o0 = Halves("slr") /\ k2 = Half - 1)
  BY <1>2 DEF Degenerate
<1>5. \A v \in ShiftVariant :
        /\ ~(v = i0 /\ v = o0)
        /\ ~(v = Whole("slr")  /\ i0 = Whole("slr") /\ o0 = Whole("sar"))
        /\ ~(v = Halves("slr") /\ i0 = Halves("slr") /\ o0 = Halves("sar"))
        /\ ~(~v.half /\ v.op # "rotr" /\ i0 = v /\ o0 = Halves(v.op) /\ k1 >= Half)
        /\ ~(~v.half /\ v.op # "rotr" /\ i0 = Halves(v.op) /\ o0 = v /\ k2 >= Half)
        /\ ~(v = Whole("slr") /\ i0 = v /\ o0 = Halves("sar") /\ k1 >= Half + 1)
        /\ ~(v = Whole("slr") /\ i0 = Halves("slr") /\ o0 = Whole("sar") /\ k2 >= Half)
  BY <1>2 DEF Chained
<1> HIDE DEF i0, o0, k1, k2
<1>6. ~(w1 = w2 /\ (i0.op = o0.op \/ (i0.op = "slr" /\ o0.op = "sar")))
  BY <1>3, <1>5
<1>7. ~(i0.op = o0.op /\ i0.op # "rotr" /\ w1 = Width /\ k1 >= Half)
  BY <1>3, <1>5
<1>8. ~(i0.op = o0.op /\ i0.op # "rotr" /\ w2 = Width /\ k2 >= Half)
  BY <1>3, <1>5
<1>9. ~(i0.op = "slr" /\ o0.op = "sar" /\ w1 = Width /\ k1 >= Half + 1)
  BY <1>3, <1>5
<1>10. ~(i0.op = "slr" /\ o0.op = "sar" /\ w2 = Width /\ k2 >= Half)
  <2>1. Whole("slr") \in ShiftVariant
    BY VariantsOK
  <2>2. ~(i0 = Halves("slr") /\ o0 = Whole("sar") /\ k2 >= Half)
    BY <1>5, <2>1
  <2> QED BY <1>3, <1>6, <2>2
<1>11. ~(i0.op = "sar" /\ o0.op = "rotr" /\ k1 = w1 - 1 /\ (w1 = Width \/ w2 = Half))
  BY <1>3, <1>4
<1>12. ~(i0.op = "sar" /\ o0.op = "slr" /\ k2 = w2 - 1 /\ (w2 = Width \/ w1 = Half))
  BY <1>3, <1>4
<1>13. ~Combines(i0.op, w1, k1, o0.op, w2, k2)
  BY <1>6, <1>7, <1>8, <1>9, <1>10, <1>11, <1>12 DEF Combines
<1> QED BY <1>13 DEF i0, o0, k1, k2

(* Two shifts are kept as two only where no single one does what they do,    *)
(* and where they leave something (Shift::compose, shift.rs).                *)
THEOREM PairIsNoSingle ==
  ASSUME NEW inner \in Shift, NEW outer \in Shift, Compose(inner, outer) = Pair
  PROVE  After(Map(outer), Map(inner)) \notin SingleMaps
<1> DEFINE op1 == inner.variant.op
           op2 == outer.variant.op
           w1 == max_amount(inner.variant)
           w2 == max_amount(outer.variant)
           k1 == inner.amount
           k2 == outer.amount
<1>1. \A s \in Shift, i \in Bits : Src(s.variant.op, s.variant.half, s.amount, i) =
                                  Bit(s.variant.op, max_amount(s.variant), s.amount, i)
  <2>1. ASSUME NEW s \in Shift, NEW i \in Bits
        PROVE  Src(s.variant.op, s.variant.half, s.amount, i) =
               Bit(s.variant.op, max_amount(s.variant), s.amount, i)
    <3>1. s.variant.half \in BOOLEAN /\ Half # Width
      BY ShiftOK, VariantsOK, Widths
    <3>2. max_amount(s.variant) = Amounts(s.variant.half)
      BY DEF max_amount, Amounts
    <3>3. (Amounts(s.variant.half) = Half) <=> s.variant.half
      BY <3>1 DEF Amounts
    <3> QED BY <3>2, <3>3 DEF Src, Bit, BaseOf
  <2> QED BY <2>1
<1>2. /\ op1 \in Ops /\ w1 \in {Half, Width} /\ k1 \in Nat \ {0} /\ k1 < w1
      /\ op2 \in Ops /\ w2 \in {Half, Width} /\ k2 \in Nat \ {0} /\ k2 < w2
  BY ComposeIdentity, ShiftOK, VariantsOK, Widths DEF is_identity, Ops
<1>3. ~Combines(op1, w1, k1, op2, w2, k2)
  BY KeptApart
<1>4. \A i \in Bits : After(Map(outer), Map(inner))[i] = Then(op1, w1, k1, op2, w2, k2, i)
  <2>1. ASSUME NEW i \in Bits
        PROVE  BitAfter(inner, outer, i) = Then(op1, w1, k1, op2, w2, k2, i)
    <3>1. Map(outer)[i] \in Bits \cup {Gone}
      BY BitIs DEF MapSet
    <3>2. Src(outer.variant.op, outer.variant.half, outer.amount, i) \in Bits \cup {Gone}
      BY <3>1, BitIs
    <3> QED BY <1>1, <3>2 DEF BitAfter, Twice, Then
  <2> QED BY <2>1, AfterIs
<1> HIDE DEF op1, op2, w1, w2, k1, k2
<1>5. ASSUME NEW s \in Shift, After(Map(outer), Map(inner)) = Map(s) PROVE FALSE
  <2>1. s.variant.op \in Ops /\ max_amount(s.variant) \in {Half, Width}
        /\ s.amount \in Nat /\ s.amount < max_amount(s.variant)
    BY ShiftOK, VariantsOK, Widths DEF Ops
  <2>2. Alike(op1, w1, k1, op2, w2, k2, s.variant.op, max_amount(s.variant), s.amount, 0)
    BY <1>1, <1>4, <1>5, BitIs DEF Alike
  <2> QED BY <1>2, <1>3, <2>1, <2>2, TwiceApart
<1>6. ASSUME After(Map(outer), Map(inner)) = AllGone PROVE FALSE
  <2>1. Alike(op1, w1, k1, op2, w2, k2, "sll", Width, 0, 1)
    BY <1>4, <1>6 DEF Alike, AllGone
  <2>2. "sll" \in Ops /\ Width \in {Half, Width} /\ 0 < Width
    BY Widths DEF Ops
  <2> QED BY <1>2, <1>3, <2>1, <2>2, TwiceApart
<1> QED BY <1>5, <1>6 DEF SingleMaps, Map
------------------------------------------------------------------------------
(* The four ways a shift is pushed in. *)
Outcome(q, s, p) ==
  \/ p = ZeroTerm
  \/ /\ Compose(s, q.inner) = Pair /\ is_identity(q.outer)
     /\ p = Seq2(s, q.inner)
  \/ /\ Compose(s, q.inner) = Pair /\ ~is_identity(q.outer)
     /\ p = OverBudget
  \/ \E x \in Shift :
       /\ Compose(s, q.inner) = Single(x)
       /\ \/ \E y \in Shift : Compose(x, q.outer) = Single(y) /\ p = Lone(y)
          \/ Compose(x, q.outer) = Pair /\ p = Seq2(x, q.outer)

(* One more shift inside the shifts there are, case by case. *)
LEMMA PushIs ==
  ASSUME NEW q \in Seqs, NEW s \in Shift
  PROVE  Outcome(q, s, PushInner(q, s, LOWERED_SHIFT_SLOTS))
<1> DEFINE p == PushInner(q, s, LOWERED_SHIFT_SLOTS)
           m == Compose(s, q.inner)
           a == Compose(m.shift, q.outer)
<1>1. q.inner \in Shift /\ q.outer \in Shift
  BY DEF Seqs
<1>2. m \in Composed
  BY <1>1, ComposeType
<1>3. p = Merged(q, s, 2, m, a)
  BY DEF PushInner, LOWERED_SHIFT_SLOTS
<1>4. m.kind = "Single" => m.shift \in Shift /\ a \in Composed
  BY <1>1, <1>2, KindsApart, ComposeType
<1> SUFFICES Outcome(q, s, p)
  OBVIOUS
<1> HIDE DEF p
<1>5. CASE m.kind = "Zero"
  BY <1>3, <1>5 DEF Merged, Outcome
<1>6. CASE m.kind = "Pair"
  <2>1. m = Pair
    BY <1>2, <1>6, KindsApart
  <2>2. p = IF is_identity(q.outer) THEN Seq2(s, q.inner) ELSE OverBudget
    BY <1>3, <1>6 DEF Merged
  <2> QED BY <2>1, <2>2 DEF Outcome
<1>7. CASE m.kind = "Single"
  <2>1. m = Single(m.shift) /\ m.shift \in Shift /\ a \in Composed
    BY <1>2, <1>4, <1>7, KindsApart
  <2>2. p = CASE a.kind = "Single" -> Lone(a.shift)
              [] a.kind = "Zero"   -> ZeroTerm
              [] a.kind = "Pair"   -> Seq2(m.shift, q.outer)
    BY <1>3, <1>7 DEF Merged
  <2>3. PICK x : x = m.shift
    OBVIOUS
  <2>4. a = Compose(x, q.outer) /\ Compose(s, q.inner) = Single(x) /\ x \in Shift
    BY <2>1, <2>3
  <2>5. CASE a.kind = "Single"
    <3>1. p = Lone(a.shift) /\ a = Single(a.shift) /\ a.shift \in Shift
      BY <2>1, <2>2, <2>5, KindsApart
    <3> QED BY <2>4, <3>1 DEF Outcome
  <2>6. CASE a.kind = "Zero"
    BY <2>2, <2>6 DEF Outcome
  <2>7. CASE a.kind = "Pair"
    <3>1. p = Seq2(x, q.outer) /\ a = Pair
      BY <2>1, <2>2, <2>3, <2>7, KindsApart
    <3> QED BY <2>4, <3>1 DEF Outcome
  <2> QED BY <2>1, <2>5, <2>6, <2>7, KindsApart
<1> QED BY <1>2, <1>5, <1>6, <1>7, KindsApart

(* The shifts of a term, as a pair in canonical form. *)
LEMMA SeqsOK ==
  /\ ZeroTerm.kind = "Zero" /\ OverBudget.kind = "OverBudget"
  /\ \A x, y \in Shift : /\ Seq2(x, y) \in Seqs /\ Seq2(x, y).kind = "Seq"
                         /\ Seq2(x, y).inner = x /\ Seq2(x, y).outer = y
  /\ \A q \in Seqs : q = Seq2(q.inner, q.outer) /\ q.inner \in Shift /\ q.outer \in Shift
  /\ \A x \in Shift : /\ Lone(x) \in Seqs /\ Lone(x).outer = IDENTITY
                      /\ is_identity(x) => Lone(x).inner = IDENTITY
                      /\ ~is_identity(x) => Lone(x).inner = x
<1>1. /\ ZeroTerm.kind = "Zero" /\ OverBudget.kind = "OverBudget"
      /\ \A x, y \in Shift : /\ Seq2(x, y) \in Seqs /\ Seq2(x, y).kind = "Seq"
                             /\ Seq2(x, y).inner = x /\ Seq2(x, y).outer = y
      /\ \A q \in Seqs : q = Seq2(q.inner, q.outer) /\ q.inner \in Shift /\ q.outer \in Shift
  BY DEF Seqs, Seq2, ZeroTerm, OverBudget
<1>2. \A x \in Shift : Lone(x) = IF is_identity(x) THEN Seq2(IDENTITY, IDENTITY)
                                                   ELSE Seq2(x, IDENTITY)
  BY DEF Lone, Plain
<1> QED BY <1>1, <1>2, IdentityOK

(* A term that is fit to be seen stays so. *)
LEMMA LoneFaultless == ASSUME NEW s \in Shift PROVE Faultless(Lone(s))
BY SeqsOK, IdentityOK DEF Faultless, is_canonical

(* What is pushed into canonical shifts leaves them canonical. *)
LEMMA PushFaultless ==
  ASSUME NEW q \in Seqs, NEW s \in Shift, Faultless(q)
  PROVE  \/ PushInner(q, s, LOWERED_SHIFT_SLOTS) \in {ZeroTerm, OverBudget}
         \/ /\ PushInner(q, s, LOWERED_SHIFT_SLOTS) \in Seqs
            /\ Faultless(PushInner(q, s, LOWERED_SHIFT_SLOTS))
<1> DEFINE p == PushInner(q, s, LOWERED_SHIFT_SLOTS)
<1>1. q.inner \in Shift /\ q.outer \in Shift
  BY SeqsOK
<1>2. ASSUME NEW x \in Shift, NEW y \in Shift, Compose(x, y) = Pair
      PROVE  Seq2(x, y) \in Seqs /\ Faultless(Seq2(x, y))
  BY <1>2, ComposeIdentity, SeqsOK DEF Faultless, is_canonical
<1>3. Outcome(q, s, p)
  BY PushIs
<1> HIDE DEF p
<1>4. p \in {ZeroTerm, OverBudget} \/ (p \in Seqs /\ Faultless(p))
  BY <1>1, <1>2, <1>3, LoneFaultless, SeqsOK DEF Outcome
<1> QED BY <1>4 DEF p
------------------------------------------------------------------------------
(* A summary's shape: the slots beyond its length are empty. *)
RunOK(r) == r \in [variants : SUBSET ShiftVariant, total_amount : 0..4 * Width - 1]
SummaryOK(sum) ==
  /\ sum = [slots |-> sum.slots, len |-> sum.len]
  /\ sum.len \in 0..OVER_BUDGET
  /\ sum.slots = [i \in Slots |-> sum.slots[i]]
  /\ \A i \in Slots : RunOK(sum.slots[i]) /\ (i > sum.len => sum.slots[i] = NoRun)

(* What a path's shifts came to is within what the summary promises: as many *)
(* slots, and the innermost of them of a variant that the summary names.     *)
Held(sum, q) ==
  /\ sum.len = 0 => is_identity(q.inner)
  /\ sum.len <= 1 => is_identity(q.outer)
  /\ sum.len = 1 => is_identity(q.inner) \/ q.inner.variant \in sum.slots[1].variants
  /\ sum.len = 2 => is_identity(q.outer) \/ q.inner.variant \in sum.slots[2].variants

(* Two slots, in the summary and in a lowered term. *)
LEMMA BudgetIs == MAX_SHIFT_SLOTS = 2 /\ OVER_BUDGET = 3 /\ Slots = {1, 2} /\ LOWERED_SHIFT_SLOTS = 2
BY DEF MAX_SHIFT_SLOTS, OVER_BUDGET, Slots, LOWERED_SHIFT_SLOTS

(* A shift costs nothing, or joins the last run, or begins one. *)
LEMMA WithIs ==
  ASSUME NEW sum, NEW s \in Shift, SummaryOK(sum)
  PROVE  \/ is_identity(s) /\ With(sum, s) = sum
         \/ /\ ~is_identity(s) /\ sum.len \in Slots /\ Absorbs(sum.slots[sum.len], s)
            /\ With(sum, s).len = sum.len
            /\ \A i \in Slots : /\ With(sum, s).slots[i].variants = sum.slots[i].variants
                                /\ i # sum.len => With(sum, s).slots[i] = sum.slots[i]
         \/ /\ ~is_identity(s) /\ ~(sum.len \in Slots /\ Absorbs(sum.slots[sum.len], s))
            /\ With(sum, s).len = IF sum.len < 2 THEN sum.len + 1 ELSE OVER_BUDGET
            /\ \A i \in Slots : With(sum, s).slots[i] = IF i = sum.len + 1 THEN RunOf(s)
                                                        ELSE sum.slots[i]
<1>1. CASE is_identity(s)
  BY <1>1 DEF With
<1>2. CASE ~is_identity(s) /\ sum.len \in Slots /\ Absorbs(sum.slots[sum.len], s)
  <2>1. With(sum, s) = [sum EXCEPT !.slots[sum.len] = Absorb(@, s)]
    BY <1>2 DEF With
  <2>2. RunOK(sum.slots[sum.len])
    BY <1>2 DEF SummaryOK
  <2>3. Absorb(sum.slots[sum.len], s).variants = sum.slots[sum.len].variants
    BY <2>2 DEF Absorb, RunOK
  <2> QED BY <1>2, <2>1, <2>3 DEF SummaryOK
<1>3. CASE ~is_identity(s) /\ ~(sum.len \in Slots /\ Absorbs(sum.slots[sum.len], s))
  BY <1>3, BudgetIs DEF With, SummaryOK
<1> QED BY <1>1, <1>2, <1>3

(* A path without shifts. *)
LEMMA EmptyOK == SummaryOK(EmptySummary) /\ EmptySummary.len = 0
BY Widths, BudgetIs DEF SummaryOK, EmptySummary, RunOK, NoRun

(* A run begun, and a run that takes up one more shift. *)
LEMMA RunsOK ==
  /\ \A s \in Shift : RunOK(RunOf(s)) /\ RunOf(s).variants = {s.variant}
  /\ \A r, s : RunOK(r) /\ s \in Shift => RunOK(Absorb(r, s))
<1>1. ASSUME NEW s \in Shift
      PROVE  RunOK(RunOf(s)) /\ RunOf(s).variants = {s.variant}
  <2>1. s.variant \in ShiftVariant /\ s.amount \in 0..4 * Width - 1
    BY ShiftOK, Widths
  <2> QED BY <2>1 DEF RunOK, RunOf
<1>2. ASSUME NEW r, NEW s \in Shift, RunOK(r)
      PROVE  RunOK(Absorb(r, s))
  <2> DEFINE n == IF r.total_amount + s.amount < 4 * Width THEN r.total_amount + s.amount
                  ELSE 4 * Width - 1
  <2>1. s.amount \in Nat /\ Width \in Nat /\ 4 * Width - 1 \in Nat /\ r.total_amount \in Nat
    BY <1>2, ShiftOK, Widths DEF RunOK
  <2>2. n \in 0..4 * Width - 1
    BY <2>1
  <2>3. Absorb(r, s) = [r EXCEPT !.total_amount = n]
    BY <1>2 DEF Absorb, RunOK
  <2> HIDE DEF n
  <2> QED BY <1>2, <2>2, <2>3 DEF RunOK
<1> QED BY <1>1, <1>2

(* A shift more never makes a summary shorter. *)
LEMMA WithOK ==
  ASSUME NEW sum, NEW s \in Shift, SummaryOK(sum)
  PROVE  SummaryOK(With(sum, s)) /\ sum.len <= With(sum, s).len
<1> DEFINE k == sum.len
<1>1. CASE is_identity(s)
  BY <1>1 DEF With, SummaryOK
<1>2. CASE ~is_identity(s) /\ k \in Slots /\ Absorbs(sum.slots[k], s)
  <2>1. With(sum, s) = [sum EXCEPT !.slots[k] = Absorb(sum.slots[k], s)]
    BY <1>2 DEF With
  <2>2. RunOK(Absorb(sum.slots[k], s))
    BY <1>2, RunsOK DEF SummaryOK
  <2> DEFINE f == [i \in Slots |-> IF i = k THEN Absorb(sum.slots[k], s) ELSE sum.slots[i]]
  <2>3. With(sum, s) = [slots |-> f, len |-> k]
    BY <1>2, <2>1 DEF SummaryOK
  <2>4. ASSUME NEW i \in Slots
        PROVE  RunOK(f[i]) /\ (i > k => f[i] = NoRun)
    BY <2>2, BudgetIs DEF SummaryOK
  <2>5. f = [i \in Slots |-> f[i]]
    OBVIOUS
  <2>6. k \in 0..OVER_BUDGET /\ k <= k
    BY BudgetIs DEF SummaryOK
  <2> HIDE DEF f
  <2> QED BY <2>3, <2>4, <2>5, <2>6 DEF SummaryOK
<1>3. CASE ~is_identity(s) /\ ~(k \in Slots /\ Absorbs(sum.slots[k], s))
  <2> DEFINE n == IF k + 1 < OVER_BUDGET THEN k + 1 ELSE OVER_BUDGET
             f == [i \in Slots |-> IF i = k + 1 THEN RunOf(s) ELSE sum.slots[i]]
  <2>1. With(sum, s) = [slots |-> f, len |-> n]
    BY <1>3 DEF With
  <2>2. k \in 0..3 /\ n \in 0..3 /\ k <= n /\ (k < 3 => n = k + 1) /\ OVER_BUDGET = 3
    BY BudgetIs DEF SummaryOK
  <2>3. ASSUME NEW i \in Slots
        PROVE  RunOK(f[i]) /\ (i > n => f[i] = NoRun)
    <3>1. i \in {1, 2}
      BY BudgetIs
    <3> QED BY <2>2, <3>1, RunsOK DEF SummaryOK
  <2>4. f = [i \in Slots |-> f[i]]
    OBVIOUS
  <2> HIDE DEF f, n
  <2> QED BY <2>1, <2>2, <2>3, <2>4 DEF SummaryOK
<1> QED BY <1>1, <1>2, <1>3

(* A single shift is held by the summary of that shift. *)
LEMMA LoneHeld ==
  ASSUME NEW sum, NEW s \in Shift, SummaryOK(sum), With(sum, s).len <= 2
  PROVE  Held(With(sum, s), Lone(s))
<1>1. is_identity(Lone(s).outer)
  BY SeqsOK, IdentityOK
<1>2. CASE is_identity(s)
  BY <1>1, <1>2, SeqsOK, IdentityOK DEF Held
<1>3. CASE ~is_identity(s)
  <2>1. Lone(s).inner = s
    BY <1>3, SeqsOK
  <2>2. With(sum, s).len # 0
    BY <1>3, WithIs, BudgetIs DEF SummaryOK
  <2>3. With(sum, s).len = 1 => s.variant \in With(sum, s).slots[1].variants
    <3>1. sum.len \in 0..3
      BY BudgetIs DEF SummaryOK
    <3>2. RunOf(s).variants = {s.variant}
      BY RunsOK
    <3> QED BY <1>3, <3>1, <3>2, WithIs, BudgetIs DEF Absorbs
  <2> QED BY <1>1, <2>1, <2>2, <2>3 DEF Held
<1> QED BY <1>2, <1>3

(* A shift that fits the summary fits the shifts that the summary holds. *)
LEMMA PushHeld ==
  ASSUME NEW sum, NEW s \in Shift, NEW q \in Seqs, SummaryOK(sum), Held(sum, q),
         With(sum, s).len <= 2
  PROVE  \/ PushInner(q, s, LOWERED_SHIFT_SLOTS) = ZeroTerm
         \/ /\ PushInner(q, s, LOWERED_SHIFT_SLOTS) \in Seqs
            /\ Held(With(sum, s), PushInner(q, s, LOWERED_SHIFT_SLOTS))
<1> DEFINE p == PushInner(q, s, LOWERED_SHIFT_SLOTS)
           new == With(sum, s)
           Fine == p = ZeroTerm \/ (p \in Seqs /\ Held(new, p))
<1>1. Outcome(q, s, p)
  BY PushIs
<1>2. q.inner \in Shift /\ q.outer \in Shift /\ q = Seq2(q.inner, q.outer)
  BY SeqsOK
<1>3. sum.len \in 0..3
  BY BudgetIs DEF SummaryOK
<1> SUFFICES Fine
  OBVIOUS
<1> HIDE DEF p
(* What is left of one shift fits two slots, and one if it is of its run.    *)
<1>4. ASSUME NEW y \in Shift, p = Lone(y), new.len # 0,
             new.len = 1 => is_identity(y) \/ y.variant \in new.slots[1].variants
      PROVE  Fine
  <2>1. p \in Seqs /\ is_identity(p.outer) /\ (is_identity(p.inner) \/ p.inner = y)
    BY <1>4, SeqsOK, IdentityOK
  <2>2. is_identity(y) => is_identity(p.inner)
    BY <1>4, SeqsOK, IdentityOK
  <2> QED BY <1>4, <2>1, <2>2 DEF Held
<1>5. CASE is_identity(s)
  <2>1. new = sum
    BY <1>5, WithIs
  <2>2. Compose(s, q.inner) = Single(q.inner)
    BY <1>2, <1>5, ComposeIdentity
  <2>3. CASE Compose(q.inner, q.outer) = Pair /\ p = Seq2(q.inner, q.outer)
    BY <1>2, <2>1, <2>3
  <2>4. ASSUME NEW y \in Shift, Compose(q.inner, q.outer) = Single(y), p = Lone(y)
        PROVE  Fine
    <3>1. CASE sum.len = 0
      <4>1. is_identity(q.inner) /\ is_identity(q.outer)
        BY <3>1 DEF Held
      <4>2. y = q.outer
        BY <1>2, <2>4, <4>1, ComposeIdentity, KindsApart
      <4> QED BY <2>1, <2>4, <3>1, <4>1, <4>2, SeqsOK, IdentityOK DEF Held
    <3>2. CASE sum.len # 0
      <4>1. sum.len = 1 => is_identity(q.outer)
        BY <3>2 DEF Held
      <4>2. sum.len = 1 => y \in {q.inner, q.outer} /\ (~is_identity(q.inner) => y = q.inner)
        BY <1>2, <2>4, <4>1, ComposeIdentity, KindsApart
      <4>3. sum.len = 1 => is_identity(y) \/ y.variant \in sum.slots[1].variants
        BY <4>1, <4>2 DEF Held
      <4> QED BY <1>4, <2>1, <2>4, <3>2, <4>3
    <3> QED BY <3>1, <3>2
  <2> QED BY <1>1, <2>2, <2>3, <2>4, KindsApart DEF Outcome
<1>6. CASE ~is_identity(s) /\ sum.len \in Slots /\ Absorbs(sum.slots[sum.len], s)
  <2>1. new.len = sum.len /\ (\A i \in Slots : new.slots[i].variants = sum.slots[i].variants)
    BY <1>6, WithIs
  <2>2. sum.slots[sum.len].variants = {s.variant} /\ sum.len \in {1, 2}
    BY <1>6, BudgetIs DEF Absorbs
  <2>3. sum.len = 1 => is_identity(q.outer)
    BY DEF Held
  <2>4. is_identity(q.outer) \/ (sum.len = 2 /\ q.inner.variant = s.variant)
    BY <2>2, <2>3 DEF Held
  <2>5. CASE Compose(s, q.inner) = Pair /\ is_identity(q.outer) /\ p = Seq2(s, q.inner)
    <3>1. sum.len # 1
      <4>1. SUFFICES ASSUME sum.len = 1 PROVE FALSE
        OBVIOUS
      <4>2. is_identity(q.inner) \/ q.inner.variant = s.variant
        BY <2>2, <4>1 DEF Held
      <4> QED BY <1>2, <2>5, <4>2, ComposeIdentity, ComposeSame, KindsApart
    <3>2. p \in Seqs /\ p.inner = s
      BY <1>2, <2>5, SeqsOK
    <3> QED BY <2>1, <2>2, <3>1, <3>2, BudgetIs DEF Held
  <2>6. CASE Compose(s, q.inner) = Pair /\ ~is_identity(q.outer)
    BY <1>2, <2>4, <2>6, ComposeSame, KindsApart
  <2>7. ASSUME NEW x \in Shift, Compose(s, q.inner) = Single(x),
               sum.len = 1 \/ ~is_identity(q.outer)
        PROVE  is_identity(x) \/ x.variant = s.variant
    <3>1. CASE q.inner.variant = s.variant
      BY <1>2, <2>7, <3>1, ComposeSame, KindsApart, IdentityOK
    <3>2. CASE q.inner.variant # s.variant
      <4>1. is_identity(q.inner)
        BY <2>2, <2>4, <2>7, <3>2 DEF Held
      <4> QED BY <1>2, <1>6, <2>7, <4>1, ComposeIdentity, KindsApart
    <3> QED BY <3>1, <3>2
  <2>8. ASSUME NEW x \in Shift, Compose(s, q.inner) = Single(x),
               NEW y \in Shift, Compose(x, q.outer) = Single(y), p = Lone(y)
        PROVE  Fine
    <3>1. sum.len = 1 => is_identity(y) \/ y.variant = s.variant
      BY <1>2, <2>3, <2>7, <2>8, ComposeIdentity, KindsApart
    <3> QED BY <1>4, <2>1, <2>2, <2>8, <3>1, BudgetIs
  <2>9. ASSUME NEW x \in Shift, Compose(s, q.inner) = Single(x),
               Compose(x, q.outer) = Pair, p = Seq2(x, q.outer)
        PROVE  Fine
    <3>1. ~is_identity(x) /\ ~is_identity(q.outer)
      BY <1>2, <2>9, ComposeIdentity
    <3>2. x.variant = s.variant /\ sum.len = 2
      BY <2>4, <2>7, <2>9, <3>1
    <3>3. p \in Seqs /\ p.inner = x
      BY <1>2, <2>9, SeqsOK
    <3> QED BY <2>1, <2>2, <3>2, <3>3, BudgetIs DEF Held
  <2> QED BY <1>1, <2>5, <2>6, <2>8, <2>9 DEF Outcome
<1>7. CASE ~is_identity(s) /\ ~(sum.len \in Slots /\ Absorbs(sum.slots[sum.len], s))
  <2>1. sum.len \in {0, 1} /\ new.len = sum.len + 1 /\ new.slots[new.len].variants = {s.variant}
    BY <1>3, <1>7, WithIs, RunsOK, BudgetIs
  <2>2. is_identity(q.outer) /\ (sum.len = 0 => is_identity(q.inner))
    BY <2>1 DEF Held
  <2>3. CASE Compose(s, q.inner) = Pair /\ p = Seq2(s, q.inner)
    <3>1. sum.len = 1
      BY <1>2, <2>1, <2>2, <2>3, ComposeIdentity
    <3>2. p \in Seqs /\ p.inner = s
      BY <1>2, <2>3, SeqsOK
    <3> QED BY <2>1, <3>1, <3>2 DEF Held
  <2>4. ASSUME NEW x \in Shift, Compose(s, q.inner) = Single(x),
               NEW y \in Shift, Compose(x, q.outer) = Single(y), p = Lone(y)
        PROVE  Fine
    <3>1. sum.len = 0 => x = s
      BY <1>2, <1>7, <2>2, <2>4, ComposeIdentity, KindsApart
    <3>2. sum.len = 0 => y = s
      BY <1>2, <1>7, <2>2, <2>4, <3>1, ComposeIdentity, KindsApart
    <3> QED BY <1>4, <2>1, <2>4, <3>2
  <2>5. ASSUME NEW x \in Shift, Compose(x, q.outer) = Pair
        PROVE  FALSE
    BY <1>2, <2>2, <2>5, ComposeIdentity
  <2> QED BY <1>1, <2>2, <2>3, <2>4, <2>5 DEF Outcome
<1> QED BY <1>5, <1>6, <1>7
------------------------------------------------------------------------------
(* The union of the summaries of a definition's consumers *)
LEMMA MostIs ==
  ASSUME NEW b \in Nat, NEW S, S \subseteq 0..b
  PROVE  /\ Most(S) \in {0} \cup S
         /\ Most(S) \in 0..b
         /\ \A n \in S : n <= Most(S)
<1> DEFINE T == {0} \cup S
           R == {b - n : n \in T}
<1>1. R \subseteq Nat /\ R # {}
  OBVIOUS
<1>2. PICK r \in R : \A m \in R : r <= m
  BY <1>1, LeastElement
<1>3. PICK x \in T : r = b - x
  BY <1>2
<1>4. \A y \in T : x >= y
  <2>1. ASSUME NEW y \in T PROVE x >= y
    <3>1. b - y \in R /\ b - x <= b - y
      BY <1>2, <1>3
    <3> QED BY <3>1
  <2> QED BY <2>1
<1> HIDE DEF R
<1>5. Most(S) \in T /\ \A y \in T : Most(S) >= y
  BY <1>4 DEF Most, Max
<1>6. Most(S) \in 0..b
  <2>1. T \subseteq 0..b
    OBVIOUS
  <2> HIDE DEF T
  <2> QED BY <1>5, <2>1
<1> QED BY <1>5, <1>6

Summaries(sums) == \A x \in sums : SummaryOK(x)

(* A union is as long as the longest, and allows what each of them has. *)
LEMMA UnionIs ==
  ASSUME NEW sums, Summaries(sums)
  PROVE  LET u == SummaryUnion(sums) IN
         /\ SummaryOK(u)
         /\ u.len = 0 \/ \E x \in sums : u.len = x.len
         /\ \A x \in sums : x.len <= u.len
         /\ \A i \in Slots :
              /\ u.slots[i].variants = UNION {x.slots[i].variants : x \in sums}
              /\ \/ u.slots[i].total_amount = 0
                 \/ \E x \in sums : u.slots[i].total_amount = x.slots[i].total_amount
<1> DEFINE L == {x.len : x \in sums}
           f == [i \in Slots |-> RunUnion({x.slots[i] : x \in sums})]
           len == Most(L)
           u == [slots |-> f, len |-> len]
<1>1. SummaryUnion(sums) = u
  BY DEF SummaryUnion
<1>2. L \subseteq 0..3
  BY BudgetIs DEF Summaries, SummaryOK
<1>3. len \in {0} \cup L /\ len \in 0..3 /\ \A n \in L : n <= len
  <2>1. 3 \in Nat
    OBVIOUS
  <2> QED BY <1>2, <2>1, MostIs
<1> HIDE DEF len
<1>4. ASSUME NEW i \in Slots
      PROVE  /\ f[i].variants = UNION {x.slots[i].variants : x \in sums}
             /\ f[i].total_amount = 0 \/ \E x \in sums : f[i].total_amount = x.slots[i].total_amount
             /\ RunOK(f[i])
             /\ i > len => f[i] = NoRun
  <2> DEFINE A == {x.slots[i].total_amount : x \in sums}
             V == UNION {x.slots[i].variants : x \in sums}
  <2>1. A \subseteq 0..4 * Width - 1
    BY DEF Summaries, SummaryOK, RunOK
  <2>2. 4 * Width - 1 \in Nat
    BY Widths
  <2>3. Most(A) \in {0} \cup A /\ Most(A) \in 0..4 * Width - 1
    BY <2>1, <2>2, MostIs
  <2>4. V \subseteq ShiftVariant
    <3>1. \A x \in sums : x.slots[i].variants \subseteq ShiftVariant
      BY DEF Summaries, SummaryOK, RunOK
    <3> QED BY <3>1
  <2>5. f[i] = [variants |-> V, total_amount |-> Most(A)]
    <3>1. {r.variants : r \in {x.slots[i] : x \in sums}} = {x.slots[i].variants : x \in sums}
      OBVIOUS
    <3>2. {r.total_amount : r \in {x.slots[i] : x \in sums}} = A
      OBVIOUS
    <3> QED BY <3>1, <3>2 DEF RunUnion
  <2>6. ASSUME i > len PROVE V = {} /\ A \subseteq {0}
    <3>1. \A x \in sums : x.slots[i] = NoRun
      <4>1. ASSUME NEW x \in sums PROVE x.slots[i] = NoRun
        <5>1. x.len \in L /\ x.len <= len /\ x.len \in 0..3 /\ i \in {1, 2}
          BY <1>2, <1>3, BudgetIs
        <5>2. i > x.len
          BY <1>3, <2>6, <5>1
        <5> QED BY <5>2 DEF Summaries, SummaryOK
      <4> QED BY <4>1
    <3> QED BY <3>1 DEF NoRun
  <2> HIDE DEF A, V, f
  <2>7. RunOK(f[i])
    BY <2>3, <2>4, <2>5 DEF RunOK
  <2>8. i > len => f[i] = NoRun
    BY <2>3, <2>5, <2>6 DEF NoRun
  <2>9. f[i].variants = V
    BY <2>5
  <2>10. f[i].total_amount = 0 \/ \E x \in sums : f[i].total_amount = x.slots[i].total_amount
    <3>1. f[i].total_amount \in {0} \cup A
      BY <2>3, <2>5
    <3> QED BY <3>1 DEF A
  <2> QED BY <2>7, <2>8, <2>9, <2>10 DEF V
<1>5. f = [i \in Slots |-> f[i]] /\ u.slots = f /\ u.len = len
  OBVIOUS
<1>6. SummaryOK(u)
  <2> HIDE DEF f
  <2> QED BY <1>3, <1>4, <1>5, BudgetIs DEF SummaryOK
<1>7. u.len = 0 \/ \E x \in sums : u.len = x.len
  BY <1>3
<1>8. \A x \in sums : x.len <= u.len
  BY <1>3
<1> HIDE DEF u, f
<1> QED BY <1>1, <1>4, <1>5, <1>6, <1>7, <1>8

(* What every consumer has room for, their union has room for. *)
LEMMA UnionFits ==
  ASSUME NEW sums, Summaries(sums), NEW s \in Shift, \A x \in sums : With(x, s).len <= 2
  PROVE  With(SummaryUnion(sums), s).len <= 2
<1> DEFINE u == SummaryUnion(sums)
<1>1. /\ SummaryOK(u)
      /\ u.len = 0 \/ \E x \in sums : u.len = x.len
      /\ \A i \in Slots :
              /\ u.slots[i].variants = UNION {x.slots[i].variants : x \in sums}
              /\ \/ u.slots[i].total_amount = 0
                 \/ \E x \in sums : u.slots[i].total_amount = x.slots[i].total_amount
  BY UnionIs
<1> SUFFICES With(u, s).len <= 2
  OBVIOUS
<1> HIDE DEF u
<1>2. ASSUME NEW x \in sums
      PROVE  /\ SummaryOK(x) /\ x.len \in 0..2
             /\ x.len = 2 /\ ~is_identity(s) => Absorbs(x.slots[2], s)
             /\ x.len < 2 => x.slots[2] = NoRun
  <2>1. SummaryOK(x) /\ With(x, s).len <= 2
    BY DEF Summaries
  <2>2. x.len <= With(x, s).len /\ x.len \in 0..3 /\ With(x, s).len \in 0..3
    BY <2>1, WithOK, BudgetIs DEF SummaryOK
  <2>3. x.len = 2 /\ ~is_identity(s) => Absorbs(x.slots[2], s)
    BY <2>1, WithIs, BudgetIs
  <2>4. x.len < 2 => x.slots[2] = NoRun
    BY <2>1, BudgetIs DEF SummaryOK
  <2> QED BY <2>1, <2>2, <2>3, <2>4
<1>3. u.len \in 0..2
  BY <1>1, <1>2
<1>4. CASE is_identity(s) \/ u.len < 2
  BY <1>1, <1>3, <1>4, WithIs, BudgetIs
<1>5. CASE ~is_identity(s) /\ u.len = 2
  <2>1. PICK y \in sums : y.len = 2
    BY <1>1, <1>5
  <2>2. \A x \in sums : x.slots[2].variants = IF x.len = 2 THEN {s.variant} ELSE {}
    <3>1. ASSUME NEW x \in sums
          PROVE  x.slots[2].variants = IF x.len = 2 THEN {s.variant} ELSE {}
      <4>1. x.len = 2 => x.slots[2].variants = {s.variant}
        BY <1>2, <1>5 DEF Absorbs
      <4>2. x.len # 2 => x.slots[2].variants = {}
        BY <1>2 DEF NoRun
      <4> QED BY <4>1, <4>2
    <3> QED BY <3>1
  <2>3. UNION {x.slots[2].variants : x \in sums} = {s.variant}
    BY <2>1, <2>2
  <2>4. u.slots[2].variants = {s.variant}
    BY <1>1, <2>3, BudgetIs
  <2>5. is_cyclic(s.variant) \/ u.slots[2].total_amount + s.amount < max_amount(s.variant)
    <3>1. s.amount \in Nat /\ s.amount < max_amount(s.variant) /\ 2 \in Slots
      BY ShiftOK, BudgetIs
    <3>2. CASE u.slots[2].total_amount = 0
      BY <3>1, <3>2
    <3>3. ASSUME NEW x \in sums, u.slots[2].total_amount = x.slots[2].total_amount
          PROVE  is_cyclic(s.variant) \/ u.slots[2].total_amount + s.amount < max_amount(s.variant)
      <4>1. CASE x.len = 2
        BY <1>2, <1>5, <3>3, <4>1 DEF Absorbs
      <4>2. CASE x.len # 2
        <5>1. x.slots[2].total_amount = 0
          BY <1>2, <4>2 DEF NoRun
        <5> QED BY <3>1, <3>3, <5>1
      <4> QED BY <4>1, <4>2
    <3> QED BY <1>1, <3>1, <3>2, <3>3
  <2>6. Absorbs(u.slots[2], s)
    BY <2>4, <2>5 DEF Absorbs
  <2> QED BY <1>1, <1>5, <2>6, WithIs, BudgetIs
<1> QED BY <1>3, <1>4, <1>5

(* What one of the consumers holds, their union holds. *)
LEMMA UnionHeld ==
  ASSUME NEW sums, Summaries(sums), NEW x \in sums, NEW q \in Seqs, Held(x, q)
  PROVE  Held(SummaryUnion(sums), q)
<1> DEFINE u == SummaryUnion(sums)
<1>1. x.len <= u.len /\ SummaryOK(u) /\ SummaryOK(x)
  BY UnionIs DEF Summaries
<1>2. \A i \in Slots : x.slots[i].variants \subseteq u.slots[i].variants
  <2>1. \A i \in Slots : u.slots[i].variants = UNION {y.slots[i].variants : y \in sums}
    BY UnionIs
  <2> QED BY <2>1
<1>3. x.len \in 0..3 /\ u.len \in 0..3
  BY <1>1, BudgetIs DEF SummaryOK
<1> HIDE DEF u
<1> QED BY <1>1, <1>2, <1>3, BudgetIs DEF Held, u
------------------------------------------------------------------------------
(* The circuit: terms carry one shift, and reach only wires made before. *)
AllTerms == {Term(w, s) : w \in Nat, s \in Shift}

DefsOK == /\ defs \in Seq(Seq(AllTerms))
          /\ \A d \in 1..Len(defs) : \A i \in 1..Len(defs[d]) : defs[d][i].wire < d
RootsOK == /\ roots \in Seq(Seq(Seq(AllTerms)))
           /\ \A c \in 1..Len(roots) : \A o \in 1..Len(roots[c]) : \A i \in 1..Len(roots[c][o]) :
                roots[c][o][i].wire <= Len(defs)

Edges == RootEdges \cup UNION {LinEdges(d) : d \in LinDefs}

(* A term of the builder is a wire under one shift. *)
LEMMA TermsOK ==
  ASSUME NEW t \in AllTerms
  PROVE  /\ t.wire \in Nat /\ t.seq \in Seqs /\ t = [wire |-> t.wire, seq |-> t.seq]
         /\ sole_shift(t) \in Shift /\ t.seq = Lone(sole_shift(t))
<1>1. PICK w \in Nat, s \in Shift : t = [wire |-> w, seq |-> Lone(s)]
  BY DEF AllTerms, Term
<1>2. Lone(s) \in Seqs /\ Lone(s).inner \in Shift /\ Lone(Lone(s).inner) = Lone(s)
  BY SeqsOK, IdentityOK DEF Lone
<1> QED BY <1>1, <1>2 DEF sole_shift

(* Edges are the places of terms, in constraints and in definitions. *)
LEMMA EdgesOK ==
  ASSUME DefsOK, RootsOK
  PROVE  /\ LinDefs = 1..Len(defs) /\ Len(defs) \in Nat
         /\ \A d \in LinDefs : defs[d] \in Seq(AllTerms) /\ DOMAIN defs[d] = 1..Len(defs[d])
         /\ \A d \in LinDefs : \A e \in LinEdges(d) :
              /\ e[1] = "lin" /\ e[2] = d /\ e[4] \in 1..Len(defs[d]) /\ e = <<"lin", d, 1, e[4]>>
              /\ TermAt(e) = defs[d][e[4]] /\ TermAt(e) \in AllTerms /\ TermAt(e).wire < d
         /\ \A e \in RootEdges :
              /\ e[1] = "root" /\ e[2] \in DOMAIN roots /\ e[3] \in DOMAIN roots[e[2]]
              /\ e[4] \in DOMAIN roots[e[2]][e[3]]
              /\ TermAt(e) = roots[e[2]][e[3]][e[4]] /\ TermAt(e) \in AllTerms
              /\ TermAt(e).wire <= Len(defs)
         /\ \A e \in Edges : TermAt(e) \in AllTerms /\ EdgeShift(e) \in Shift
<1>1. /\ LinDefs = 1..Len(defs) /\ Len(defs) \in Nat
      /\ \A d \in LinDefs : defs[d] \in Seq(AllTerms) /\ DOMAIN defs[d] = 1..Len(defs[d])
  BY DEF DefsOK, LinDefs
<1>2. ASSUME NEW d \in LinDefs, NEW e \in LinEdges(d)
      PROVE  /\ e[1] = "lin" /\ e[2] = d /\ e[4] \in 1..Len(defs[d]) /\ e = <<"lin", d, 1, e[4]>>
             /\ TermAt(e) = defs[d][e[4]] /\ TermAt(e) \in AllTerms /\ TermAt(e).wire < d
  <2>1. PICK i \in DOMAIN defs[d] : e = <<"lin", d, 1, i>>
    BY DEF LinEdges
  <2>2. e[1] = "lin" /\ e[2] = d /\ e[4] = i
    BY <2>1
  <2>3. TermAt(e) = defs[d][i]
    BY <2>2 DEF TermAt
  <2> QED BY <1>1, <2>1, <2>2, <2>3 DEF DefsOK
<1>3. ASSUME NEW e \in RootEdges
      PROVE  /\ e[1] = "root" /\ e[2] \in DOMAIN roots /\ e[3] \in DOMAIN roots[e[2]]
             /\ e[4] \in DOMAIN roots[e[2]][e[3]]
             /\ TermAt(e) = roots[e[2]][e[3]][e[4]] /\ TermAt(e) \in AllTerms
             /\ TermAt(e).wire <= Len(defs)
  <2>1. PICK c \in DOMAIN roots : e \in UNION {{<<"root", c, o, i>> : i \in DOMAIN roots[c][o]} :
                                                 o \in DOMAIN roots[c]}
    BY DEF RootEdges
  <2>2. PICK o \in DOMAIN roots[c] : e \in {<<"root", c, o, i>> : i \in DOMAIN roots[c][o]}
    BY <2>1
  <2>3. PICK i \in DOMAIN roots[c][o] : e = <<"root", c, o, i>>
    BY <2>2
  <2>4. e[1] = "root" /\ e[2] = c /\ e[3] = o /\ e[4] = i
    BY <2>3
  <2>5. TermAt(e) = roots[c][o][i]
    BY <2>4 DEF TermAt
  <2>6. c \in 1..Len(roots) /\ roots[c] \in Seq(Seq(AllTerms))
    BY <2>1 DEF RootsOK
  <2>7. o \in 1..Len(roots[c]) /\ roots[c][o] \in Seq(AllTerms)
    BY <2>6
  <2>8. i \in 1..Len(roots[c][o]) /\ roots[c][o][i] \in AllTerms
    BY <2>7
  <2> QED BY <2>1, <2>2, <2>3, <2>4, <2>5, <2>6, <2>7, <2>8 DEF RootsOK
<1>4. ASSUME NEW e \in Edges
      PROVE  TermAt(e) \in AllTerms /\ EdgeShift(e) \in Shift
  <2>1. TermAt(e) \in AllTerms
    BY <1>2, <1>3 DEF Edges
  <2> QED BY <2>1, TermsOK DEF EdgeShift
<1> QED BY <1>1, <1>2, <1>3, <1>4

(* Every root's terms are root edges, and the terms of a definition its own. *)
LEMMA RootEdge ==
  ASSUME NEW c \in DOMAIN roots, NEW o \in DOMAIN roots[c], NEW i \in DOMAIN roots[c][o]
  PROVE  <<"root", c, o, i>> \in RootEdges /\ TermAt(<<"root", c, o, i>>) = roots[c][o][i]
<1>1. <<"root", c, o, i>> \in RootEdges
  BY DEF RootEdges
<1> QED BY <1>1 DEF TermAt

(* Out of a definition go the edges whose terms read it. *)
LEMMA OutgoingOK ==
  ASSUME DefsOK, RootsOK, NEW d \in LinDefs
  PROVE  /\ Outgoing(d) \subseteq Edges
         /\ \A e \in Edges : e \in Outgoing(d) <=> TermAt(e).wire = d
         /\ \A e \in Outgoing(d) : \/ e \in RootEdges
                                   \/ \E c \in LinDefs : e \in LinEdges(c) /\ d < c
<1>1. /\ Outgoing(d) \subseteq Edges
      /\ \A e \in Edges : e \in Outgoing(d) <=> TermAt(e).wire = d
  BY DEF Outgoing, Edges
<1>2. ASSUME NEW e \in Outgoing(d), e \notin RootEdges
      PROVE  \E c \in LinDefs : e \in LinEdges(c) /\ d < c
  <2>1. PICK c \in LinDefs : e \in LinEdges(c)
    BY <1>1, <1>2 DEF Edges
  <2>2. TermAt(e).wire = d /\ TermAt(e).wire < c
    BY <1>1, <2>1, EdgesOK
  <2> QED BY <2>1, <2>2
<1> QED BY <1>1, <1>2
------------------------------------------------------------------------------
(* The calls of the builder *)
Reading == {t \in AllTerms : t.wire <= Len(defs)}

(* What is listed with a first element is a list. *)
LEMMA HeadedOK ==
  ASSUME NEW S, NEW firsts, firsts \subseteq S, NEW others, others \subseteq S, NEW n \in Nat
  PROVE  Headed(firsts, others, n) \subseteq Seq(S)
<1> DEFINE from(x) == {<<x>> \o rest : rest \in BoundedSeq(others, n - 1)}
<1>1. ASSUME NEW x \in firsts, NEW rest \in BoundedSeq(others, n - 1)
      PROVE  <<x>> \o rest \in Seq(S)
  <2>1. PICK k \in 0..n - 1 : rest \in [1..k -> others]
    BY DEF BoundedSeq, SeqOf
  <2>2. rest \in Seq(others)
    BY <2>1
  <2>3. rest \in Seq(S) /\ <<x>> \in Seq(S)
    BY <2>2, SeqMonotonic
  <2> QED BY <2>3, ConcatProperties
<1>2. \A x \in firsts : from(x) \subseteq Seq(S)
  BY <1>1
<1>3. Headed(firsts, others, n) = UNION {from(x) : x \in firsts}
  BY DEF Headed
<1> HIDE DEF from
<1> QED BY <1>2, <1>3

(* What a caller can spell over some wires. *)
LEMMA ListsOK ==
  ASSUME DefsOK, family \in Families, NEW ws, ws \subseteq 0..Len(defs),
         NEW shifts, shifts \subseteq Shift, NEW n \in Nat
  PROVE  Lists(ws, shifts, n) \subseteq Seq(Reading)
<1>1. Len(defs) \in Nat
  BY DEF DefsOK
<1>2. Reach \subseteq 0..Len(defs)
  BY <1>1 DEF Reach
<1>3. family.beside \subseteq Shift
  BY FusionAssumption
<1>4. ASSUME NEW w \in 0..Len(defs), NEW s \in Shift PROVE Term(w, s) \in Reading
  <2>1. w \in Nat /\ w <= Len(defs) /\ Term(w, s).wire = w
    BY <1>1 DEF Term
  <2> QED BY <2>1 DEF AllTerms, Reading
<1>5. TermsOver(ws, shifts) \subseteq Reading /\ TermsOver(Reach, family.beside) \subseteq Reading
  BY <1>2, <1>3, <1>4 DEF TermsOver
<1> QED BY <1>5, HeadedOK DEF Lists

(* A constraint has operands over the wires there are. *)
LEMMA ConstraintsOK ==
  ASSUME DefsOK, family \in Families
  PROVE  Constraints \subseteq Seq(Seq(Reading))
<1> DEFINE heads  == Lists(Heads, family.shifts, family.reads)
           others == {<<>>} \cup Lists(Reach, family.beside, family.reads)
<1>1. Reach \subseteq 0..Len(defs) /\ Heads \subseteq 0..Len(defs)
  BY DEF Reach, Heads, DefsOK
<1>2. /\ family.shifts \subseteq Shift /\ family.beside \subseteq Shift
      /\ family.reads \in Nat /\ family.operands \in Nat
  BY FusionAssumption
<1>3. <<>> \in Seq(Reading)
  OBVIOUS
<1>4. heads \subseteq Seq(Reading) /\ others \subseteq Seq(Reading)
  BY <1>1, <1>2, <1>3, ListsOK
<1>5. Constraints = Headed(heads, others, family.operands)
  BY DEF Constraints
<1> HIDE DEF heads, others
<1> QED BY <1>2, <1>4, <1>5, HeadedOK
------------------------------------------------------------------------------
(* What a visit comes to: the definition is kept, or its consumers have room *)
(* for each of its terms.                                                    *)
VisitCommits(d) ==
  /\ committed' = committed \cup {d}
  /\ cx' = [e \in DOMAIN cx \cup Incoming(d) |-> IF e \notin Incoming(d) THEN cx[e]
                                                 ELSE NewCx(EdgeShift(e))]
VisitInlines(d) ==
  /\ committed' = committed
  /\ \A o \in Outgoing(d), e \in Incoming(d) :
       Composable(cx[o].shifts, EdgeShift(e), LOWERED_SHIFT_SLOTS)
  /\ cx' = [e \in DOMAIN cx \cup Incoming(d) |->
              IF e \notin Incoming(d) THEN cx[e]
              ELSE AddCx(Join({cx[o] : o \in Outgoing(d)}), EdgeShift(e))]

(* A visit keeps the definition or passes its consumers' shifts on. *)
LEMMA VisitIs ==
  ASSUME NEW d, Visit(d)
  PROVE  /\ stage = "decide" /\ Incoming(d) \cap DOMAIN cx = {} /\ Outgoing(d) \subseteq DOMAIN cx
         /\ VisitCommits(d) \/ VisitInlines(d)
         /\ UNCHANGED <<circuit, stage, patches, linear, nonlinear>>
<1> DEFINE out == {cx[o] : o \in Outgoing(d)}
           in  == Incoming(d)
           Fits(slots) == \A c \in out, e \in in : Composable(c.shifts, EdgeShift(e), slots)
           commit == \/ Deepest(out) > MAX_DEPTH /\ Cardinality(in) # 1
                     \/ ~Fits(LOWERED_SHIFT_SLOTS)
                     \/ ~Fits(1) /\ (Cardinality(in) - 1) * Max({Cardinality(Outgoing(d)) - 1, 0}) > MAX_TERM_GROWTH
<1>1. /\ stage = "decide" /\ in \cap DOMAIN cx = {} /\ Outgoing(d) \subseteq DOMAIN cx
      /\ committed' = IF commit THEN committed \cup {d} ELSE committed
      /\ cx' = [e \in DOMAIN cx \cup in |-> IF e \notin in THEN cx[e]
                                            ELSE IF commit THEN NewCx(EdgeShift(e))
                                            ELSE AddCx(Join(out), EdgeShift(e))]
      /\ UNCHANGED <<circuit, stage, patches, linear, nonlinear>>
  BY DEF Visit
<1>2. commit \/ Fits(LOWERED_SHIFT_SLOTS)
  OBVIOUS
<1>3. Fits(LOWERED_SHIFT_SLOTS) =>
        \A o \in Outgoing(d), e \in in : Composable(cx[o].shifts, EdgeShift(e), LOWERED_SHIFT_SLOTS)
  OBVIOUS
<1> HIDE DEF commit, Fits, in, out
<1>4. CASE commit
  <2>1. VisitCommits(d)
    BY <1>1, <1>4 DEF VisitCommits, in
  <2> QED BY <1>1, <2>1 DEF in
<1>5. CASE ~commit
  <2>1. VisitInlines(d)
    BY <1>1, <1>2, <1>3, <1>5 DEF VisitInlines, in, out
  <2> QED BY <1>1, <2>1 DEF in
<1> QED BY <1>4, <1>5

(* What is passed along an edge: what the shifts of its term come to fits. *)
Passed(e) ==
  /\ SummaryOK(cx[e].shifts) /\ cx[e].shifts.len <= LOWERED_SHIFT_SLOTS
  /\ Held(cx[e].shifts, Lone(EdgeShift(e)))
  /\ cx[e].depth \in Nat
  /\ e \in RootEdges => cx[e].depth = 0
  /\ \A d \in LinDefs : e \in LinEdges(d) => cx[e].depth <= Len(defs) - d + 1

(* What a definition that is not kept passes on joins what it was passed. *)
Inlinable(d) ==
  \A e \in Incoming(d) \cap DOMAIN cx :
    /\ Outgoing(d) \subseteq DOMAIN cx
    /\ cx[e].shifts = With(SummaryUnion({cx[o].shifts : o \in Outgoing(d)}), EdgeShift(e))

Patched      == {e[2] : e \in {f \in RootEdges : TermAt(f).wire \in LinDefs}}
BuiltPatches == {RootPatch(c) : c \in Patched} \cup {CommittedPatch(d) : d \in committed}
NewLinear    == {<<d, defs[d]>> : d \in LinDefs \ Subsumed} \cup Added("lin")
NewNonlinear == {<<c, roots[c]>> : c \in DOMAIN roots \ {p.at : p \in {q \in patches : q.kind = "root"}}}
                \cup Added("root")

(* The inductive invariant *)
FusionInv ==
  /\ stage \in {"build", "decide", "patch", "apply", "done"} /\ family \in Families
  /\ DefsOK /\ RootsOK
  /\ committed \subseteq LinDefs /\ DOMAIN cx \subseteq Edges
  /\ \A e \in DOMAIN cx : Passed(e)
  /\ \A d \in LinDefs \ committed : Inlinable(d)
  /\ stage = "build" => cx = <<>> /\ committed = {}
  /\ stage # "build" => \A e \in RootEdges : TermAt(e).wire \in LinDefs => e \in DOMAIN cx
  /\ stage \in {"patch", "apply", "done"} =>
       /\ \A d \in LinDefs : Incoming(d) \subseteq DOMAIN cx
       /\ pinned \cap LinDefs \subseteq committed
  /\ patches = IF stage \in {"apply", "done"} THEN BuiltPatches ELSE {}
  /\ linear = IF stage = "done" THEN NewLinear ELSE {}
  /\ nonlinear = IF stage = "done" THEN NewNonlinear ELSE {}

(* The invariant holds at first. *)
LEMMA InitInv == ASSUME Init PROVE FusionInv
<1>1. DefsOK /\ RootsOK
  BY DEF Init, DefsOK, RootsOK
<1>2. LinDefs = {} /\ DOMAIN cx = {}
  BY DEF Init, LinDefs
<1> QED BY <1>1, <1>2 DEF Init, FusionInv

(* While the circuit is what it is, so are its edges. *)
LEMMA SameEdges ==
  ASSUME defs' = defs, roots' = roots
  PROVE  /\ LinDefs' = LinDefs /\ RootEdges' = RootEdges /\ Edges' = Edges
         /\ DefsOK' = DefsOK /\ RootsOK' = RootsOK
         /\ \A d : LinEdges(d)' = LinEdges(d) /\ Incoming(d)' = Incoming(d)
         /\ \A d : Outgoing(d)' = Outgoing(d)
         /\ \A e : TermAt(e)' = TermAt(e) /\ EdgeShift(e)' = EdgeShift(e)
<1>1. /\ LinDefs' = LinDefs /\ RootEdges' = RootEdges
      /\ DefsOK' = DefsOK /\ RootsOK' = RootsOK
  BY DEF LinDefs, RootEdges, DefsOK, RootsOK
<1>2. \A d : LinEdges(d)' = LinEdges(d) /\ Incoming(d)' = Incoming(d)
  BY DEF LinEdges, Incoming
<1>3. \A e : TermAt(e)' = TermAt(e) /\ EdgeShift(e)' = EdgeShift(e)
  BY DEF TermAt, EdgeShift, sole_shift
<1>4. Edges' = Edges
  BY <1>1, <1>2 DEF Edges
<1>5. \A d : Outgoing(d)' = Outgoing(d)
  BY <1>1, <1>2, <1>3 DEF Outgoing
<1> QED BY <1>1, <1>2, <1>3, <1>4, <1>5

(* The patches depend on the circuit and the commit set alone. *)
LEMMA SamePatches ==
  ASSUME defs' = defs, roots' = roots, committed' = committed
  PROVE  BuiltPatches' = BuiltPatches
<1>1. Inlined' = Inlined
  BY DEF Inlined, InlineStep, InlineDef, InlineTerm, LinDefs
<1>2. \A o : ProcessOperand(o)' = ProcessOperand(o)
  BY <1>1 DEF ProcessOperand
<1>3. \A c : RootPatch(c)' = RootPatch(c)
  BY <1>2 DEF RootPatch
<1>4. \A d : CommittedPatch(d)' = CommittedPatch(d)
  BY <1>2 DEF CommittedPatch
<1>5. Patched' = Patched
  BY DEF Patched, LinDefs, RootEdges, TermAt
<1> QED BY <1>3, <1>4, <1>5 DEF BuiltPatches

(* An edge into what is kept begins afresh, with its own shift. *)
LEMMA NewCxOK ==
  ASSUME NEW s \in Shift
  PROVE  /\ SummaryOK(NewCx(s).shifts) /\ NewCx(s).shifts.len <= LOWERED_SHIFT_SLOTS
         /\ Held(NewCx(s).shifts, Lone(s)) /\ NewCx(s).depth = 0
<1>1. NewCx(s).shifts = With(EmptySummary, s) /\ NewCx(s).depth = 0
  BY DEF NewCx
<1>2. With(EmptySummary, s).len <= 2
  BY EmptyOK, WithIs, BudgetIs
<1> QED BY <1>1, <1>2, EmptyOK, WithOK, LoneHeld, BudgetIs

(* An edge into what is inlined has the consumers' shifts and its own. *)
LEMMA JoinOK ==
  ASSUME NEW cxs, \A c \in cxs : SummaryOK(c.shifts), NEW s \in Shift,
         \A c \in cxs : Composable(c.shifts, s, LOWERED_SHIFT_SLOTS),
         NEW b \in Nat, \A c \in cxs : c.depth \in 0..b
  PROVE  LET new == AddCx(Join(cxs), s) IN
         /\ SummaryOK(new.shifts) /\ new.shifts.len <= LOWERED_SHIFT_SLOTS
         /\ Held(new.shifts, Lone(s))
         /\ new.depth \in Nat /\ new.depth <= b + 1
         /\ new.shifts = With(SummaryUnion({c.shifts : c \in cxs}), s)
<1> DEFINE sums == {c.shifts : c \in cxs}
           new == AddCx(Join(cxs), s)
<1>1. new.shifts = With(SummaryUnion(sums), s) /\ new.depth = Deepest(cxs) + 1
  BY DEF AddCx, Join
<1>2. Deepest(cxs) \in 0..b
  <2>1. {c.depth : c \in cxs} \subseteq 0..b
    OBVIOUS
  <2> QED BY <2>1, MostIs DEF Deepest
<1>3. Summaries(sums) /\ \A x \in sums : With(x, s).len <= 2
  BY BudgetIs DEF Summaries, Composable
<1>4. SummaryOK(SummaryUnion(sums)) /\ With(SummaryUnion(sums), s).len <= 2
  BY <1>3, UnionIs, UnionFits
<1>5. Held(With(SummaryUnion(sums), s), Lone(s)) /\ SummaryOK(With(SummaryUnion(sums), s))
  BY <1>4, LoneHeld, WithOK
<1> HIDE DEF new, sums
<1>6. new.depth \in Nat /\ new.depth <= b + 1
  BY <1>1, <1>2
<1> QED BY <1>1, <1>4, <1>5, <1>6, BudgetIs DEF new, sums

(* An edge belongs to one definition. *)
LEMMA LinEdgeApart ==
  ASSUME DefsOK, RootsOK, NEW d \in LinDefs, NEW e \in LinEdges(d)
  PROVE  /\ e \in Edges /\ e \notin RootEdges /\ EdgeShift(e) \in Shift
         /\ \A c \in LinDefs : e \in LinEdges(c) => c = d
<1>1. e \in Edges
  BY DEF Edges
<1>2. e[1] = "lin" /\ e[2] = d
  BY EdgesOK
<1>3. \A x \in RootEdges : x[1] = "root"
  BY EdgesOK
<1>4. \A c \in LinDefs : e \in LinEdges(c) => e[2] = c
  BY EdgesOK
<1> QED BY <1>1, <1>2, <1>3, <1>4, EdgesOK

(* Visiting a definition preserves the invariant. *)
LEMMA VisitInv ==
  ASSUME FusionInv, NEW d \in LinDefs, Visit(d)
  PROVE  FusionInv'
<1> USE DEF FusionInv
<1>1. /\ stage = "decide" /\ Incoming(d) \cap DOMAIN cx = {} /\ Outgoing(d) \subseteq DOMAIN cx
      /\ VisitCommits(d) \/ VisitInlines(d)
      /\ UNCHANGED <<circuit, stage, patches, linear, nonlinear>>
  BY VisitIs
<1>2. /\ LinDefs' = LinDefs /\ RootEdges' = RootEdges /\ Edges' = Edges
      /\ DefsOK' = DefsOK /\ RootsOK' = RootsOK
      /\ \A c : LinEdges(c)' = LinEdges(c) /\ Incoming(c)' = Incoming(c)
      /\ \A c : Outgoing(c)' = Outgoing(c)
      /\ \A e : TermAt(e)' = TermAt(e) /\ EdgeShift(e)' = EdgeShift(e)
  BY <1>1, SameEdges DEF circuit
<1>3. DOMAIN cx' = DOMAIN cx \cup Incoming(d) /\ \A e \in DOMAIN cx : cx'[e] = cx[e]
  BY <1>1 DEF VisitCommits, VisitInlines
<1>4. LinDefs = 1..Len(defs) /\ Len(defs) \in Nat
  BY EdgesOK
<1>5. committed \subseteq committed' /\ committed' \subseteq committed \cup {d}
  BY <1>1 DEF VisitCommits, VisitInlines
<1>6. ASSUME NEW e \in Incoming(d)
      PROVE  /\ Passed(e)'
             /\ d \notin committed' => cx'[e].shifts =
                  With(SummaryUnion({cx[o].shifts : o \in Outgoing(d)}), EdgeShift(e))
  <2>1. /\ e \in Edges /\ e \notin RootEdges /\ EdgeShift(e) \in Shift
        /\ \A c \in LinDefs : e \in LinEdges(c) => c = d
    BY LinEdgeApart DEF Incoming
  <2>2. ASSUME SummaryOK(cx'[e].shifts), cx'[e].shifts.len <= LOWERED_SHIFT_SLOTS,
               Held(cx'[e].shifts, Lone(EdgeShift(e))),
               cx'[e].depth \in Nat, cx'[e].depth <= Len(defs) - d + 1
        PROVE  Passed(e)'
    BY <1>1, <1>2, <2>1, <2>2 DEF Passed, circuit
  <2>3. CASE VisitCommits(d)
    <3>1. cx'[e] = NewCx(EdgeShift(e)) /\ d \in committed'
      BY <2>3 DEF VisitCommits
    <3>2. 0 <= Len(defs) - d + 1
      BY <1>4
    <3> QED BY <2>1, <2>2, <3>1, <3>2, NewCxOK
  <2>4. CASE VisitInlines(d)
    <3> DEFINE cxs == {cx[o] : o \in Outgoing(d)}
    <3>1. cx'[e] = AddCx(Join(cxs), EdgeShift(e))
      BY <2>4 DEF VisitInlines
    <3>2. \A c \in cxs : SummaryOK(c.shifts) /\ Composable(c.shifts, EdgeShift(e), LOWERED_SHIFT_SLOTS)
      BY <1>1, <2>4 DEF VisitInlines, Passed
    <3>3. Len(defs) - d \in Nat /\ (Len(defs) - d) + 1 = Len(defs) - d + 1
      BY <1>4
    <3>4. \A o \in Outgoing(d) : cx[o].depth \in 0..Len(defs) - d
      <4>1. ASSUME NEW o \in Outgoing(d) PROVE cx[o].depth \in 0..Len(defs) - d
        <5>1. Passed(o)
          BY <1>1
        <5>2. CASE o \in RootEdges
          BY <3>3, <5>1, <5>2 DEF Passed
        <5>3. ASSUME NEW c \in LinDefs, o \in LinEdges(c), d < c
              PROVE  cx[o].depth \in 0..Len(defs) - d
          <6>1. cx[o].depth \in Nat /\ cx[o].depth <= Len(defs) - c + 1
            BY <5>1, <5>3 DEF Passed
          <6> QED BY <1>4, <5>3, <6>1
        <5> QED BY <5>2, <5>3, OutgoingOK
      <4> QED BY <4>1
    <3>5. \A c \in cxs : c.depth \in 0..Len(defs) - d
      BY <3>4
    <3>6. {c.shifts : c \in cxs} = {cx[o].shifts : o \in Outgoing(d)}
      OBVIOUS
    <3> HIDE DEF cxs
    <3> QED BY <2>1, <2>2, <3>1, <3>2, <3>3, <3>5, <3>6, JoinOK
  <2> QED BY <1>1, <2>3, <2>4
<1>7. \A e \in DOMAIN cx' : Passed(e)'
  <2>1. ASSUME NEW e \in DOMAIN cx PROVE Passed(e)'
    <3>1. Passed(e) /\ cx'[e] = cx[e]
      BY <1>3
    <3> QED BY <1>1, <1>2, <3>1 DEF Passed, circuit
  <2> QED BY <1>3, <1>6, <2>1
<1>8. \A c \in (LinDefs \ committed)' : Inlinable(c)'
  <2>1. ASSUME NEW c \in LinDefs, c \notin committed', NEW e \in Incoming(c), e \in DOMAIN cx'
        PROVE  /\ Outgoing(c) \subseteq DOMAIN cx'
               /\ cx'[e].shifts = With(SummaryUnion({cx'[o].shifts : o \in Outgoing(c)}), EdgeShift(e))
    <3>1. Outgoing(c) \subseteq DOMAIN cx
          /\ cx'[e].shifts = With(SummaryUnion({cx[o].shifts : o \in Outgoing(c)}), EdgeShift(e))
      <4>1. CASE e \in Incoming(d)
        <5>1. c = d
          BY <4>1, LinEdgeApart DEF Incoming
        <5> QED BY <1>1, <1>6, <2>1, <4>1, <5>1
      <4>2. CASE e \notin Incoming(d)
        <5>1. e \in DOMAIN cx /\ cx'[e] = cx[e] /\ c \notin committed
          BY <1>3, <1>5, <2>1, <4>2
        <5> QED BY <2>1, <5>1 DEF Inlinable
      <4> QED BY <4>1, <4>2
    <3>2. {cx'[o].shifts : o \in Outgoing(c)} = {cx[o].shifts : o \in Outgoing(c)}
      BY <1>3, <3>1
    <3> QED BY <1>3, <3>1, <3>2
  <2> QED BY <1>2, <2>1 DEF Inlinable
<1>9. committed' \subseteq LinDefs' /\ DOMAIN cx' \subseteq Edges'
  <2>1. Incoming(d) \subseteq Edges
    BY LinEdgeApart DEF Incoming
  <2> QED BY <1>2, <1>3, <1>5, <2>1
<1> QED BY <1>1, <1>2, <1>3, <1>7, <1>8, <1>9 DEF circuit

(* So does adding a definition, which nothing reads yet. *)
LEMMA LinearInv ==
  ASSUME FusionInv, NEW ts \in Lists(Reach, family.shifts, family.terms), Linear(ts)
  PROVE  FusionInv'
<1> USE DEF FusionInv
<1>1. /\ stage = "build" /\ roots = <<>> /\ defs' = Append(defs, ts)
      /\ UNCHANGED <<family, roots, pinned, stage, cx, committed, patches, linear, nonlinear>>
  BY DEF Linear
<1>2. cx = <<>> /\ committed = {} /\ patches = {} /\ linear = {} /\ nonlinear = {}
  BY <1>1
<1>3. ts \in Seq(Reading)
  <2>1. Reach \subseteq 0..Len(defs)
    BY DEF Reach, DefsOK
  <2>2. family.shifts \subseteq Shift /\ family.terms \in Nat
    BY FusionAssumption
  <2> QED BY <2>1, <2>2, ListsOK
<1>4. DefsOK'
  <2>1. defs \in Seq(Seq(AllTerms)) /\ Len(defs) \in Nat
    BY DEF DefsOK
  <2>2. ts \in Seq(AllTerms)
    BY <1>3, SeqMonotonic DEF Reading
  <2>3. /\ defs' \in Seq(Seq(AllTerms)) /\ Len(defs') = Len(defs) + 1
        /\ \A d \in 1..Len(defs) : defs'[d] = defs[d]
        /\ defs'[Len(defs) + 1] = ts
    BY <1>1, <2>1, <2>2, AppendProperties
  <2>4. ASSUME NEW d \in 1..Len(defs'), NEW i \in 1..Len(defs'[d])
        PROVE  defs'[d][i].wire < d
    <3>1. CASE d \in 1..Len(defs)
      BY <2>3, <3>1 DEF DefsOK
    <3>2. CASE d = Len(defs) + 1
      <4>1. defs'[d][i] \in Reading
        BY <1>3, <2>3, <3>2
      <4>2. defs'[d][i].wire \in Nat /\ defs'[d][i].wire <= Len(defs)
        BY <4>1, TermsOK DEF Reading
      <4> QED BY <2>1, <3>2, <4>2
    <3> QED BY <2>1, <2>3, <3>1, <3>2
  <2> QED BY <2>3, <2>4 DEF DefsOK
<1>5. RootsOK'
  BY <1>1 DEF RootsOK
<1>6. DOMAIN cx' = {}
  BY <1>1, <1>2
<1> QED BY <1>1, <1>2, <1>4, <1>5, <1>6 DEF Inlinable

(* So does adding a constraint, while nothing is passed along any edge. *)
LEMMA ConstrainInv ==
  ASSUME FusionInv, NEW operands \in Constraints, Constrain(operands)
  PROVE  FusionInv'
<1> USE DEF FusionInv
<1>1. /\ stage = "build" /\ roots' = Append(roots, operands)
      /\ UNCHANGED <<family, defs, pinned, stage, cx, committed, patches, linear, nonlinear>>
  BY DEF Constrain
<1>2. cx = <<>> /\ committed = {} /\ patches = {} /\ linear = {} /\ nonlinear = {}
  BY <1>1
<1>3. operands \in Seq(Seq(Reading))
  BY ConstraintsOK
<1>4. RootsOK'
  <2>1. operands \in Seq(Seq(AllTerms))
    BY <1>3, SeqMonotonic DEF Reading
  <2>2. roots \in Seq(Seq(Seq(AllTerms))) /\ Len(roots) \in Nat
    BY DEF RootsOK
  <2>3. /\ roots' \in Seq(Seq(Seq(AllTerms))) /\ Len(roots') = Len(roots) + 1
        /\ \A c \in 1..Len(roots) : roots'[c] = roots[c]
        /\ roots'[Len(roots) + 1] = operands
    BY <1>1, <2>1, <2>2, AppendProperties
  <2>4. ASSUME NEW c \in 1..Len(roots'), NEW o \in 1..Len(roots'[c]), NEW i \in 1..Len(roots'[c][o])
        PROVE  roots'[c][o][i].wire <= Len(defs)
    <3>1. CASE c \in 1..Len(roots)
      BY <2>3, <3>1 DEF RootsOK
    <3>2. CASE c = Len(roots) + 1
      <4>1. o \in 1..Len(operands) /\ i \in 1..Len(operands[o]) /\ roots'[c][o][i] = operands[o][i]
        BY <2>3, <3>2
      <4>2. operands[o] \in Seq(Reading)
        BY <1>3, <4>1
      <4>3. operands[o][i] \in Reading
        BY <4>1, <4>2
      <4> QED BY <4>1, <4>3 DEF Reading
    <3> QED BY <2>2, <2>3, <3>1, <3>2
  <2> QED BY <1>1, <2>3, <2>4 DEF RootsOK
<1>5. DefsOK' /\ LinDefs' = LinDefs /\ DOMAIN cx' = {}
  BY <1>1, <1>2 DEF DefsOK, LinDefs
<1> QED BY <1>1, <1>2, <1>4, <1>5 DEF Inlinable

(* So does the start of the pass, which seeds the roots' edges. *)
LEMMA FuseInv ==
  ASSUME FusionInv, NEW pins, Fuse(pins)
  PROVE  FusionInv'
<1> USE DEF FusionInv
<1>1. /\ stage = "build" /\ stage' = "decide"
      /\ cx' = [e \in {f \in RootEdges : TermAt(f).wire \in LinDefs} |-> NewCx(EdgeShift(e))]
      /\ UNCHANGED <<family, defs, roots, committed, patches, linear, nonlinear>>
  BY DEF Fuse
<1>2. committed = {} /\ patches = {} /\ linear = {} /\ nonlinear = {}
  BY <1>1
<1>3. /\ LinDefs' = LinDefs /\ RootEdges' = RootEdges /\ Edges' = Edges
      /\ DefsOK' = DefsOK /\ RootsOK' = RootsOK
      /\ \A d : LinEdges(d)' = LinEdges(d) /\ Incoming(d)' = Incoming(d)
      /\ \A d : Outgoing(d)' = Outgoing(d)
      /\ \A e : TermAt(e)' = TermAt(e) /\ EdgeShift(e)' = EdgeShift(e)
  BY <1>1, SameEdges
<1>4. ASSUME NEW e \in DOMAIN cx'
      PROVE  e \in RootEdges /\ Passed(e)' /\ \A d \in LinDefs : e \notin LinEdges(d)
  <2>1. e \in RootEdges /\ cx'[e] = NewCx(EdgeShift(e))
    BY <1>1
  <2>2. EdgeShift(e) \in Shift /\ e[1] = "root"
    BY <2>1, EdgesOK DEF Edges
  <2>3. \A d \in LinDefs : e \notin LinEdges(d)
    BY <2>2, EdgesOK
  <2>4. Passed(e)'
    BY <1>3, <2>1, <2>2, <2>3, NewCxOK DEF Passed
  <2> QED BY <2>1, <2>3, <2>4
<1>5. \A e \in RootEdges' : TermAt(e)'.wire \in LinDefs' => e \in DOMAIN cx'
  BY <1>1, <1>3
<1>6. \A d \in LinDefs' : Inlinable(d)'
  BY <1>3, <1>4 DEF Inlinable, Incoming
<1>7. DOMAIN cx' \subseteq Edges'
  BY <1>3, <1>4 DEF Edges
<1> QED BY <1>1, <1>2, <1>3, <1>4, <1>5, <1>6, <1>7

(* So does pinning, which only commits more. *)
LEMMA PinInv ==
  ASSUME FusionInv, Pin
  PROVE  FusionInv'
<1> USE DEF FusionInv, Pin
<1>1. /\ LinDefs' = LinDefs /\ RootEdges' = RootEdges /\ Edges' = Edges
      /\ DefsOK' = DefsOK /\ RootsOK' = RootsOK
      /\ \A c : LinEdges(c)' = LinEdges(c) /\ Incoming(c)' = Incoming(c)
      /\ \A c : Outgoing(c)' = Outgoing(c)
      /\ \A e : TermAt(e)' = TermAt(e) /\ EdgeShift(e)' = EdgeShift(e)
  BY SameEdges DEF circuit
<1>2. \A e \in DOMAIN cx : Passed(e)'
  BY <1>1 DEF Passed, circuit
<1>3. \A d \in LinDefs \ committed : Inlinable(d)'
  BY <1>1 DEF Inlinable
<1> QED BY <1>1, <1>2, <1>3 DEF circuit

(* What the patches and the lists are stays what it was made to be. *)
LEMMA PatchInv ==
  ASSUME FusionInv, Build \/ ApplyPatches \/ UNCHANGED vars
  PROVE  FusionInv'
<1> USE DEF FusionInv
<1>1. /\ UNCHANGED <<circuit, cx, committed>>
      /\ stage' \in {"build", "decide", "patch", "apply", "done"}
      /\ stage' = stage \/ (stage = "patch" /\ stage' = "apply") \/ (stage = "apply" /\ stage' = "done")
      /\ stage # stage' => Build \/ ApplyPatches
  BY DEF Build, ApplyPatches, vars
<1>2. /\ LinDefs' = LinDefs /\ RootEdges' = RootEdges /\ Edges' = Edges
      /\ DefsOK' = DefsOK /\ RootsOK' = RootsOK
      /\ \A c : LinEdges(c)' = LinEdges(c) /\ Incoming(c)' = Incoming(c)
      /\ \A c : Outgoing(c)' = Outgoing(c)
      /\ \A e : TermAt(e)' = TermAt(e) /\ EdgeShift(e)' = EdgeShift(e)
  BY <1>1, SameEdges DEF circuit
<1>3. \A e \in DOMAIN cx : Passed(e)'
  BY <1>1, <1>2 DEF Passed, circuit
<1>4. \A d \in LinDefs \ committed : Inlinable(d)'
  BY <1>1, <1>2 DEF Inlinable
<1>5. BuiltPatches' = BuiltPatches
  BY <1>1, SamePatches DEF circuit
<1>6. patches' = IF stage' \in {"apply", "done"} THEN BuiltPatches' ELSE {}
  BY <1>5 DEF Build, ApplyPatches, vars, BuiltPatches, Patched
<1>7. /\ linear' = IF stage' = "done" THEN NewLinear' ELSE {}
      /\ nonlinear' = IF stage' = "done" THEN NewNonlinear' ELSE {}
  <2>1. CASE Build
    BY <2>1 DEF Build
  <2>2. CASE ApplyPatches
    BY <2>2, <1>2 DEF ApplyPatches, NewLinear, NewNonlinear, Subsumed, Added, circuit
  <2>3. CASE UNCHANGED vars
    BY <2>3, <1>2 DEF vars, circuit, NewLinear, NewNonlinear, Subsumed, Added
  <2> QED BY <2>1, <2>2, <2>3
<1> QED BY <1>1, <1>2, <1>3, <1>4, <1>6, <1>7 DEF circuit

(* The invariant of fusion holds always. *)
LEMMA InductiveInv == Spec => []FusionInv
<1>1. Init => FusionInv
  BY InitInv
<1>2. FusionInv /\ [Next]_vars => FusionInv'
  BY LinearInv, ConstrainInv, FuseInv, VisitInv, PinInv, PatchInv DEF Next
<1> QED BY <1>1, <1>2, PTL DEF Spec
------------------------------------------------------------------------------
(* What a wire comes to depends on what the wires before it come to. *)
LEMMA InlineStepLocal ==
  ASSUME DefsOK, NEW w \in 0..Len(defs), NEW f, NEW g, \A v \in 0..w - 1 : f[v] = g[v]
  PROVE  InlineStep(f, w) = InlineStep(g, w)
<1>1. ASSUME w \in LinDefs, NEW q \in Seqs
      PROVE  InlineDef(f, w, q) = InlineDef(g, w, q)
  <2>1. w \in 1..Len(defs) /\ defs[w] \in Seq(AllTerms) /\ DOMAIN defs[w] = 1..Len(defs[w])
    BY <1>1 DEF DefsOK, LinDefs
  <2>2. ASSUME NEW i \in DOMAIN defs[w]
        PROVE  InlineTerm(f, defs[w][i], q) = InlineTerm(g, defs[w][i], q)
    <3>1. defs[w][i] \in AllTerms /\ defs[w][i].wire < w
      BY <2>1 DEF DefsOK
    <3>2. defs[w][i].wire \in 0..w - 1
      BY <2>1, <3>1, TermsOK
    <3> QED BY <3>2 DEF InlineTerm
  <2> QED BY <2>2 DEF InlineDef
<1> QED BY <1>1 DEF InlineStep

(* What wires are inlined as is well defined, wire by wire. *)
LEMMA InlinedIs ==
  ASSUME DefsOK
  PROVE  Inlined = [w \in 0..Len(defs) |-> InlineStep(Inlined, w)]
<1> DEFINE n == Len(defs)
           Is(f, k) == f = [w \in 0..k |-> InlineStep(f, w)]
           Has(k) == \E f : Is(f, k)
           S == {k \in Nat : Has(k)}
<1>1. n \in Nat
  BY DEF DefsOK
<1>2. 0 \in S
  <2> DEFINE f == [w \in 0..0 |-> InlineStep(<<>>, w)]
  <2>1. \A w \in 0..0 : InlineStep(f, w) = InlineStep(<<>>, w)
    <3>1. ASSUME NEW w \in 0..0 PROVE InlineStep(f, w) = InlineStep(<<>>, w)
      <4>1. w \in 0..Len(defs) /\ \A v \in 0..w - 1 : f[v] = (<<>>)[v]
        BY <1>1
      <4> HIDE DEF f
      <4> QED BY <4>1, InlineStepLocal
    <3> QED BY <3>1
  <2>2. Is(f, 0)
    BY <2>1
  <2>3. Has(0)
    BY <2>2
  <2> HIDE DEF Has
  <2> QED BY <2>3
<1>3. ASSUME NEW k \in Nat, k < n, k \in S PROVE k + 1 \in S
  <2>1. PICK f : Is(f, k)
    BY <1>3
  <2> DEFINE g == [w \in 0..k + 1 |-> InlineStep(f, w)]
  <2>2. \A w \in 0..k : g[w] = f[w]
    BY <2>1
  <2>3. \A w \in 0..k + 1 : InlineStep(g, w) = InlineStep(f, w)
    <3>1. ASSUME NEW w \in 0..k + 1 PROVE InlineStep(g, w) = InlineStep(f, w)
      <4>1. w \in 0..Len(defs) /\ \A v \in 0..w - 1 : v \in 0..k
        BY <1>1, <1>3
      <4>2. \A v \in 0..w - 1 : g[v] = f[v]
        BY <2>2, <4>1
      <4> HIDE DEF g
      <4> QED BY <4>1, <4>2, InlineStepLocal
    <3> QED BY <3>1
  <2>4. Is(g, k + 1)
    BY <2>3
  <2>5. Has(k + 1)
    BY <2>4
  <2> HIDE DEF Has
  <2> QED BY <2>5
<1> HIDE DEF S
<1>4. n \in S
  <2>1. \A k \in 0..n : k \in S
    BY <1>1, <1>2, <1>3, UpwardClosed
  <2> QED BY <1>1, <2>1
<1>5. Has(n)
  BY <1>4 DEF S
<1>6. Inlined = CHOOSE f : Is(f, n)
  BY DEF Inlined
<1> QED BY <1>5, <1>6

------------------------------------------------------------------------------
InlinedDefs == LinDefs \ committed

(* The terms a patch may spell: of wires that are still defined, or that     *)
(* never were, under shifts that pass.                                       *)
FineTerms == {t \in [wire : (0..Len(defs)) \ InlinedDefs, seq : Seqs] : Faultless(t.seq)}

(* The shifts a wire is read under are what its consumers promised. *)
Promised(w, q) ==
  /\ Faultless(q)
  /\ w \in InlinedDefs => \E o \in Outgoing(w) : Held(cx[o].shifts, q)

(* A term of a definition that is read under shifts its consumers promised:  *)
(* it vanishes, or its wire is read under shifts the definition promised.    *)
LEMMA InlineTermIs ==
  ASSUME FusionInv, stage \in {"patch", "apply", "done"},
         NEW w \in InlinedDefs, NEW q \in Seqs, Promised(w, q), NEW i \in DOMAIN defs[w]
  PROVE  LET t == defs[w][i]
             p == PushInner(q, sole_shift(t), LOWERED_SHIFT_SLOTS)
         IN  /\ t \in AllTerms /\ t.wire \in 0..Len(defs) /\ t.wire < w
             /\ \/ p = ZeroTerm /\ InlineTerm(Inlined, t, q) = [terms |-> <<>>, subsumes |-> {}]
                \/ p \in Seqs /\ Promised(t.wire, p) /\ InlineTerm(Inlined, t, q) = Inlined[t.wire][p]
<1> USE DEF FusionInv
<1> DEFINE U == SummaryUnion({cx[o].shifts : o \in Outgoing(w)})
           t == defs[w][i]
           e == <<"lin", w, 1, i>>
           p == PushInner(q, sole_shift(t), LOWERED_SHIFT_SLOTS)
<1>1. /\ w \in LinDefs /\ w \notin committed /\ Faultless(q)
      /\ defs[w] \in Seq(AllTerms) /\ DOMAIN defs[w] = 1..Len(defs[w])
      /\ Len(defs) \in Nat /\ LinDefs = 1..Len(defs)
  BY EdgesOK DEF InlinedDefs, Promised
<1>2. e \in LinEdges(w) /\ TermAt(e) = t /\ t \in AllTerms /\ t.wire < w /\ EdgeShift(e) = sole_shift(t)
  <2>1. e \in LinEdges(w)
    BY DEF LinEdges
  <2>2. TermAt(e) = t
    BY DEF TermAt
  <2> QED BY <1>1, <2>1, <2>2, EdgesOK DEF EdgeShift
<1>3. t.wire \in 0..Len(defs) /\ sole_shift(t) \in Shift
  BY <1>1, <1>2, TermsOK
<1>4. InlineTerm(Inlined, t, q) =
        CASE p.kind = "Seq"  -> Inlined[t.wire][p]
          [] p.kind = "Zero" -> [terms |-> <<>>, subsumes |-> {}]
          [] p.kind = "OverBudget" -> Panic
  BY DEF InlineTerm
<1> HIDE DEF t, e
<1>5. e \in DOMAIN cx /\ e \in Incoming(w)
  BY <1>1, <1>2 DEF Incoming
<1>6. /\ Outgoing(w) \subseteq DOMAIN cx
      /\ cx[e].shifts = With(U, sole_shift(t)) /\ cx[e].shifts.len <= 2
  BY <1>1, <1>2, <1>5, BudgetIs DEF Inlinable, Passed
<1>7. SummaryOK(U) /\ Held(U, q)
  <2> DEFINE sums == {cx[o].shifts : o \in Outgoing(w)}
  <2>1. Summaries(sums)
    BY <1>6 DEF Summaries, Passed
  <2>2. PICK o \in Outgoing(w) : Held(cx[o].shifts, q)
    BY DEF Promised
  <2>3. cx[o].shifts \in sums
    BY <2>2
  <2> HIDE DEF sums
  <2>4. SummaryOK(SummaryUnion(sums)) /\ Held(SummaryUnion(sums), q)
    BY <2>1, <2>2, <2>3, UnionIs, UnionHeld
  <2> QED BY <2>4 DEF sums
<1> HIDE DEF U, p
<1>8. p = ZeroTerm \/ (p \in Seqs /\ Held(cx[e].shifts, p))
  BY <1>3, <1>6, <1>7, PushHeld DEF p
<1>9. p = ZeroTerm \/ (p \in Seqs /\ Faultless(p) /\ Held(cx[e].shifts, p))
  BY <1>1, <1>3, <1>8, PushFaultless, SeqsOK DEF p, Seqs
<1>10. CASE p = ZeroTerm
  <2>1. InlineTerm(Inlined, t, q) = [terms |-> <<>>, subsumes |-> {}]
    BY <1>4, <1>10 DEF ZeroTerm
  <2> QED BY <1>2, <1>3, <1>10, <2>1 DEF p, t
<1>11. CASE p \in Seqs /\ Faultless(p) /\ Held(cx[e].shifts, p)
  <2>1. InlineTerm(Inlined, t, q) = Inlined[t.wire][p]
    BY <1>4, <1>11 DEF Seqs
  <2>2. t.wire \in InlinedDefs => e \in Outgoing(t.wire)
    BY <1>1, <1>2, LinEdgeApart, OutgoingOK DEF InlinedDefs
  <2>3. Promised(t.wire, p)
    BY <1>11, <2>2 DEF Promised
  <2> QED BY <1>2, <1>3, <1>11, <2>1, <2>3 DEF p, t
<1> QED BY <1>9, <1>10, <1>11

(* What a wire is inlined as is fine wherever its consumers promised it. *)
LEMMA InlinedOK ==
  ASSUME FusionInv, stage \in {"patch", "apply", "done"}
  PROVE  \A w \in 0..Len(defs), q \in Seqs : Promised(w, q) =>
           /\ Inlined[w][q].terms \in Seq(FineTerms)
           /\ Inlined[w][q].subsumes \subseteq InlinedDefs
<1> USE DEF FusionInv
<1> DEFINE Fine(r) == r.terms \in Seq(FineTerms) /\ r.subsumes \subseteq InlinedDefs
           S == {n \in Nat : \A w \in 0..n, q \in Seqs : w < n /\ Promised(w, q) => Fine(Inlined[w][q])}
<1>1. Len(defs) \in Nat /\ LinDefs = 1..Len(defs)
  BY EdgesOK
<1>2. \A w \in 0..Len(defs) : Inlined[w] = InlineStep(Inlined, w)
  BY InlinedIs
<1>3. ASSUME NEW w \in 0..Len(defs), NEW q \in Seqs, Promised(w, q),
             \A v \in 0..Len(defs), p \in Seqs : v < w /\ Promised(v, p) => Fine(Inlined[v][p])
      PROVE  Fine(Inlined[w][q])
  <2>1. CASE w \notin InlinedDefs
    <3> DEFINE t == [wire |-> w, seq |-> q]
    <3>1. Inlined[w][q] = [terms |-> <<t>>, subsumes |-> {}]
      BY <1>2, <2>1 DEF InlineStep, InlinedDefs
    <3>2. t \in FineTerms
      BY <1>3, <2>1 DEF FineTerms, Promised
    <3> QED BY <3>1, <3>2
  <2>2. CASE w \in InlinedDefs
    <3> DEFINE part(i) == InlineTerm(Inlined, defs[w][i], q)
    <3>1. defs[w] \in Seq(AllTerms) /\ DOMAIN defs[w] = 1..Len(defs[w])
      BY <2>2, EdgesOK DEF InlinedDefs
    <3>2. Inlined[w][q] = InlineDef(Inlined, w, q)
      BY <1>2, <2>2 DEF InlineStep, InlinedDefs
    <3>3. ASSUME NEW i \in DOMAIN defs[w]
          PROVE  Fine(part(i))
      <4> DEFINE t == defs[w][i]
                 p == PushInner(q, sole_shift(t), LOWERED_SHIFT_SLOTS)
      <4>1. /\ t.wire \in 0..Len(defs) /\ t.wire < w
            /\ \/ p = ZeroTerm /\ part(i) = [terms |-> <<>>, subsumes |-> {}]
               \/ p \in Seqs /\ Promised(t.wire, p) /\ part(i) = Inlined[t.wire][p]
        BY <1>3, <2>2, InlineTermIs
      <4> HIDE DEF t, p, part
      <4>2. CASE part(i) = [terms |-> <<>>, subsumes |-> {}]
        BY <4>2
      <4>3. CASE p \in Seqs /\ Promised(t.wire, p) /\ part(i) = Inlined[t.wire][p]
        <5> HIDE DEF Fine
        <5> QED BY <1>3, <4>1, <4>3
      <4> QED BY <4>1, <4>2, <4>3
    <3>4. [i \in DOMAIN defs[w] |-> part(i).terms] \in Seq(Seq(FineTerms))
      <4>1. [i \in DOMAIN defs[w] |-> part(i).terms] \in [1..Len(defs[w]) -> Seq(FineTerms)]
        BY <3>1, <3>3
      <4> HIDE DEF part
      <4> QED BY <3>1, <4>1
    <3>5. Inlined[w][q].terms \in Seq(FineTerms)
      BY <3>2, <3>4, FlattenSeqOK DEF InlineDef
    <3>6. Inlined[w][q].subsumes \subseteq InlinedDefs
      <4>1. Inlined[w][q].subsumes = {w} \cup UNION {part(i).subsumes : i \in DOMAIN defs[w]}
        BY <3>2 DEF InlineDef
      <4> HIDE DEF part
      <4> QED BY <2>2, <3>3, <4>1
    <3> QED BY <3>5, <3>6
  <2> QED BY <2>1, <2>2
<1> HIDE DEF Fine
<1>4. 0 \in S
  OBVIOUS
<1>5. ASSUME NEW n \in Nat, n < Len(defs) + 1, n \in S PROVE n + 1 \in S
  <2>1. ASSUME NEW w \in 0..n + 1, NEW q \in Seqs, w < n + 1, Promised(w, q)
        PROVE  Fine(Inlined[w][q])
    <3>1. w \in 0..n /\ w \in 0..Len(defs)
      BY <1>1, <1>5, <2>1
    <3>2. \A v \in 0..Len(defs), p \in Seqs : v < w /\ Promised(v, p) => Fine(Inlined[v][p])
      BY <1>5, <3>1
    <3> QED BY <1>3, <2>1, <3>1, <3>2
  <2> QED BY <2>1
<1> HIDE DEF S
<1>6. Len(defs) + 1 \in S
  <2>1. Len(defs) + 1 \in Nat
    BY <1>1
  <2>2. \A n \in 0..Len(defs) + 1 : n \in S
    BY <1>4, <1>5, <2>1, UpwardClosed
  <2> QED BY <2>1, <2>2
<1>7. \A w \in 0..Len(defs), q \in Seqs : Promised(w, q) => Fine(Inlined[w][q])
  BY <1>1, <1>6 DEF S
<1> QED BY <1>7 DEF Fine

(* The operands that are patched read their wires as was promised. *)
Readable(op) == /\ op \in Seq(AllTerms)
                /\ \A i \in DOMAIN op : op[i].wire \in 0..Len(defs) /\ Promised(op[i].wire, op[i].seq)

(* Constraints read their wires as was promised: by edges of their own. *)
LEMMA RootReadable ==
  ASSUME FusionInv, stage \in {"patch", "apply", "done"},
         NEW c \in DOMAIN roots, NEW o \in DOMAIN roots[c]
  PROVE  Readable(roots[c][o])
<1> USE DEF FusionInv
<1>1. roots[c] \in Seq(Seq(AllTerms))
  BY DEF RootsOK
<1>2. roots[c][o] \in Seq(AllTerms)
  BY <1>1
<1>3. ASSUME NEW i \in DOMAIN roots[c][o]
      PROVE  roots[c][o][i].wire \in 0..Len(defs) /\ Promised(roots[c][o][i].wire, roots[c][o][i].seq)
  <2> DEFINE t == roots[c][o][i]
             e == <<"root", c, o, i>>
  <2>1. e \in RootEdges /\ TermAt(e) = t
    BY RootEdge
  <2>2. t \in AllTerms /\ t.wire <= Len(defs) /\ e \in Edges
    BY <2>1, EdgesOK DEF Edges
  <2> HIDE DEF t, e
  <2>3. t.wire \in 0..Len(defs) /\ t.seq = Lone(sole_shift(t)) /\ sole_shift(t) \in Shift
    <3>1. Len(defs) \in Nat
      BY EdgesOK
    <3> QED BY <2>2, <3>1, TermsOK
  <2>4. t.wire \in LinDefs => e \in Outgoing(t.wire) /\ Held(cx[e].shifts, t.seq)
    BY <2>1, <2>2, <2>3, OutgoingOK DEF Passed, EdgeShift
  <2>5. Faultless(t.seq)
    BY <2>3, LoneFaultless
  <2>6. Promised(t.wire, t.seq)
    BY <2>4, <2>5 DEF Promised, InlinedDefs
  <2> QED BY <2>3, <2>6 DEF t
<1> QED BY <1>2, <1>3 DEF Readable

(* So do committed definitions, whose edges begin afresh. *)
LEMMA DefReadable ==
  ASSUME FusionInv, stage \in {"patch", "apply", "done"}, NEW d \in committed
  PROVE  Readable(defs[d])
<1> USE DEF FusionInv
<1>1. d \in LinDefs /\ defs[d] \in Seq(AllTerms) /\ DOMAIN defs[d] = 1..Len(defs[d])
      /\ d \in 1..Len(defs) /\ Len(defs) \in Nat
  BY EdgesOK
<1>2. ASSUME NEW i \in DOMAIN defs[d]
      PROVE  defs[d][i].wire \in 0..Len(defs) /\ Promised(defs[d][i].wire, defs[d][i].seq)
  <2> DEFINE t == defs[d][i]
             e == <<"lin", d, 1, i>>
  <2>1. e \in LinEdges(d) /\ TermAt(e) = t
    BY DEF LinEdges, TermAt
  <2>2. t \in AllTerms /\ t.wire < d /\ e \in Edges /\ e \in DOMAIN cx
    BY <1>1, <2>1, EdgesOK, LinEdgeApart DEF Incoming
  <2> HIDE DEF t, e
  <2>3. t.wire \in 0..Len(defs) /\ t.seq = Lone(sole_shift(t)) /\ sole_shift(t) \in Shift
    BY <1>1, <2>2, TermsOK
  <2>4. t.wire \in LinDefs => e \in Outgoing(t.wire) /\ Held(cx[e].shifts, t.seq)
    BY <2>1, <2>2, <2>3, OutgoingOK DEF Passed, EdgeShift
  <2>5. Faultless(t.seq)
    BY <2>3, LoneFaultless
  <2>6. Promised(t.wire, t.seq)
    BY <2>4, <2>5 DEF Promised, InlinedDefs
  <2> QED BY <2>3, <2>6 DEF t
<1> QED BY <1>1, <1>2 DEF Readable

(* Terms inlined one by one are fine together. *)
LEMMA ProcessOperandOK ==
  ASSUME FusionInv, stage \in {"patch", "apply", "done"}, NEW op, Readable(op)
  PROVE  /\ ProcessOperand(op).terms \in Seq(FineTerms)
         /\ ProcessOperand(op).subsumes \subseteq InlinedDefs
<1> DEFINE part(i) == Inlined[op[i].wire][op[i].seq]
<1>1. /\ ProcessOperand(op).terms = FlattenSeq([i \in DOMAIN op |-> part(i).terms])
      /\ ProcessOperand(op).subsumes = UNION {part(i).subsumes : i \in DOMAIN op}
  BY DEF ProcessOperand
<1>2. \A i \in DOMAIN op : part(i).terms \in Seq(FineTerms) /\ part(i).subsumes \subseteq InlinedDefs
  <2>1. \A i \in DOMAIN op : op[i].seq \in Seqs
    BY TermsOK DEF Readable
  <2> QED BY <2>1, InlinedOK DEF Readable
<1> HIDE DEF part
<1>3. [i \in DOMAIN op |-> part(i).terms] \in Seq(Seq(FineTerms))
  <2>1. [i \in DOMAIN op |-> part(i).terms] \in [1..Len(op) -> Seq(FineTerms)] /\ Len(op) \in Nat
    BY <1>2 DEF Readable
  <2> QED BY <2>1
<1> QED BY <1>1, <1>2, <1>3, FlattenSeqOK

(* What the patches of either kind hold. *)
LEMMA RootPatchOK ==
  ASSUME FusionInv, stage \in {"patch", "apply", "done"}, NEW c \in DOMAIN roots
  PROVE  /\ RootPatch(c).kind = "root" /\ RootPatch(c).at = c
         /\ DOMAIN RootPatch(c).added = DOMAIN roots[c]
         /\ \A o \in DOMAIN roots[c] : RootPatch(c).added[o] \in Seq(FineTerms)
         /\ RootPatch(c).subsumes \subseteq InlinedDefs
<1> DEFINE new == [o \in DOMAIN roots[c] |-> ProcessOperand(roots[c][o])]
<1>1. ASSUME NEW o \in DOMAIN roots[c]
      PROVE  new[o].terms \in Seq(FineTerms) /\ new[o].subsumes \subseteq InlinedDefs
  BY RootReadable, ProcessOperandOK
<1> HIDE DEF new
<1>2. RootPatch(c) = [kind |-> "root", at |-> c, added |-> [o \in DOMAIN new |-> new[o].terms],
                      subsumes |-> UNION {new[o].subsumes : o \in DOMAIN new}]
  BY DEF RootPatch, new
<1>3. DOMAIN new = DOMAIN roots[c]
  BY DEF new
<1> QED BY <1>1, <1>2, <1>3

(* The patch of a definition that is kept. *)
LEMMA CommittedPatchOK ==
  ASSUME FusionInv, stage \in {"patch", "apply", "done"}, NEW d \in committed
  PROVE  /\ CommittedPatch(d).kind = "lin" /\ CommittedPatch(d).at = d
         /\ CommittedPatch(d).added \in Seq(FineTerms)
         /\ d \in CommittedPatch(d).subsumes
         /\ CommittedPatch(d).subsumes \subseteq {d} \cup InlinedDefs
<1> DEFINE new == ProcessOperand(defs[d])
<1>1. new.terms \in Seq(FineTerms) /\ new.subsumes \subseteq InlinedDefs
  BY DefReadable, ProcessOperandOK
<1>2. CommittedPatch(d) = [kind |-> "lin", at |-> d, added |-> new.terms,
                           subsumes |-> {d} \cup new.subsumes]
  BY DEF CommittedPatch
<1> HIDE DEF new
<1> QED BY <1>1, <1>2

(* The patches are those of the constraints and definitions concerned. *)
LEMMA PatchesAre ==
  ASSUME FusionInv
  PROVE  /\ stage \notin {"apply", "done"} => patches = {}
         /\ stage \in {"apply", "done"} =>
              /\ \A c \in Patched : c \in DOMAIN roots /\ RootPatch(c) \in patches
              /\ \A d \in committed : CommittedPatch(d) \in patches
         /\ \A p \in patches : \/ p.kind = "root" /\ p.at \in Patched /\ p = RootPatch(p.at)
                               \/ p.kind = "lin" /\ p.at \in committed /\ p = CommittedPatch(p.at)
<1> USE DEF FusionInv
<1>1. \A c \in Patched : c \in DOMAIN roots
  BY EdgesOK DEF Patched
<1>2. CASE stage \notin {"apply", "done"}
  BY <1>2
<1>3. CASE stage \in {"apply", "done"}
  <2>1. patches = BuiltPatches
    BY <1>3
  <2>2. \A c \in Patched : RootPatch(c).kind = "root" /\ RootPatch(c).at = c
    BY <1>1, <1>3, RootPatchOK
  <2>3. \A d \in committed : CommittedPatch(d).kind = "lin" /\ CommittedPatch(d).at = d
    BY <1>3, CommittedPatchOK
  <2> QED BY <1>1, <1>3, <2>1, <2>2, <2>3 DEF BuiltPatches
<1> QED BY <1>2, <1>3

(* Every term that any patch spells is fine. *)
LEMMA PatchTermsFine ==
  ASSUME FusionInv
  PROVE  PatchTerms \subseteq FineTerms
<1>1. ASSUME NEW p \in patches, NEW op \in IF p.kind = "root" THEN Range(p.added) ELSE {p.added}
      PROVE  op \in Seq(FineTerms)
  <2>1. stage \in {"apply", "done"}
    BY PatchesAre
  <2>2. CASE p.kind = "root" /\ p.at \in Patched /\ p = RootPatch(p.at)
    <3>1. PICK o \in DOMAIN p.added : op = p.added[o]
      BY <1>1, <2>2 DEF Range
    <3>2. p.at \in DOMAIN roots
      BY <2>1, <2>2, PatchesAre
    <3> QED BY <2>1, <2>2, <3>1, <3>2, RootPatchOK
  <2>3. CASE p.kind = "lin" /\ p.at \in committed /\ p = CommittedPatch(p.at)
    BY <1>1, <2>1, <2>3, CommittedPatchOK
  <2> QED BY <2>2, <2>3, PatchesAre
<1>2. \A op \in Seq(FineTerms) : Range(op) \subseteq FineTerms
  BY DEF Range
<1> QED BY <1>1, <1>2 DEF PatchTerms
------------------------------------------------------------------------------
(* The lists after the patches: a definition is left if it is kept, as its   *)
(* patch has it, or if nothing was read through it, as it was; a constraint  *)
(* of another kind is left in any case.                                      *)
LEMMA LinearIs ==
  ASSUME FusionInv, stage = "done"
  PROVE  \A x : x \in linear <=>
           \/ \E d \in committed : x = <<d, CommittedPatch(d).added>>
           \/ \E d \in LinDefs : d \notin committed /\ d \notin Subsumed /\ x = <<d, defs[d]>>
<1> USE DEF FusionInv
<1>1. Added("lin") = {<<d, CommittedPatch(d).added>> : d \in committed}
  <2>1. {q \in patches : q.kind = "lin"} = {CommittedPatch(d) : d \in committed}
    BY PatchesAre, CommittedPatchOK
  <2> QED BY <2>1, CommittedPatchOK DEF Added
<1>2. committed \subseteq Subsumed
  BY PatchesAre, CommittedPatchOK DEF Subsumed
<1>3. linear = {<<d, defs[d]>> : d \in LinDefs \ Subsumed} \cup Added("lin")
  BY DEF NewLinear
<1> QED BY <1>1, <1>2, <1>3

(* A constraint is patched if it reads a definition, and else as it was. *)
LEMMA NonlinearIs ==
  ASSUME FusionInv, stage = "done"
  PROVE  nonlinear = {<<c, IF c \in Patched THEN RootPatch(c).added ELSE roots[c]>> : c \in DOMAIN roots}
<1> USE DEF FusionInv
<1>1. {q \in patches : q.kind = "root"} = {RootPatch(c) : c \in Patched}
  BY PatchesAre, RootPatchOK
<1>2. Patched \subseteq DOMAIN roots
  BY PatchesAre
<1>3. Added("root") = {<<c, RootPatch(c).added>> : c \in Patched}
  BY <1>1, <1>2, RootPatchOK DEF Added
<1>4. {p.at : p \in {q \in patches : q.kind = "root"}} = Patched
  BY <1>1, <1>2, RootPatchOK
<1>5. nonlinear = {<<c, roots[c]>> : c \in DOMAIN roots \ Patched} \cup {<<c, RootPatch(c).added>> : c \in Patched}
  BY <1>3, <1>4 DEF NewNonlinear
<1> QED BY <1>2, <1>5

(* What a wire is defined by is not mentioned twice, nor the other way. *)
LEMMA MentionsOK ==
  ASSUME FusionInv, stage = "done"
  PROVE  /\ \A op \in NewOperands : LinDefs \cap Mentioned(op) \subseteq committed
         /\ \A d \in committed : LinDefs \cap Mentioned(CommittedPatch(d).added) \subseteq committed
<1> USE DEF FusionInv
<1>1. ASSUME NEW op \in Seq(FineTerms) PROVE LinDefs \cap Mentioned(op) \subseteq committed
  <2>1. \A t \in FineTerms : t.wire \notin LinDefs \ committed
    BY DEF FineTerms, InlinedDefs
  <2>2. \A i \in DOMAIN op : op[i] \in FineTerms
    OBVIOUS
  <2> QED BY <2>1, <2>2 DEF Mentioned
<1>2. ASSUME NEW op \in NewOperands PROVE LinDefs \cap Mentioned(op) \subseteq committed
  <2>1. PICK x \in nonlinear : op \in {x[2][o] : o \in DOMAIN x[2]}
    BY <1>2 DEF NewOperands
  <2>2. PICK c \in DOMAIN roots : x = <<c, IF c \in Patched THEN RootPatch(c).added ELSE roots[c]>>
    BY <2>1, NonlinearIs
  <2>3. CASE c \in Patched
    <3>1. x[2] = RootPatch(c).added
      BY <2>2, <2>3
    <3>2. PICK o \in DOMAIN roots[c] : op = RootPatch(c).added[o]
      BY <2>1, <3>1, RootPatchOK
    <3> QED BY <1>1, <3>2, RootPatchOK
  <2>4. CASE c \notin Patched
    <3>1. x[2] = roots[c]
      BY <2>2, <2>4
    <3>2. PICK o \in DOMAIN roots[c] : op = roots[c][o]
      BY <2>1, <3>1
    <3>3. \A i \in DOMAIN op : op[i].wire \notin LinDefs
      <4>1. ASSUME NEW i \in DOMAIN op, op[i].wire \in LinDefs PROVE FALSE
        <5>1. <<"root", c, o, i>> \in RootEdges /\ TermAt(<<"root", c, o, i>>) = op[i]
          BY <3>2, RootEdge
        <5>2. <<"root", c, o, i>>[2] = c
          OBVIOUS
        <5> QED BY <2>4, <4>1, <5>1, <5>2 DEF Patched
      <4> QED BY <4>1
    <3> QED BY <3>3 DEF Mentioned
  <2> QED BY <2>3, <2>4
<1>3. \A d \in committed : LinDefs \cap Mentioned(CommittedPatch(d).added) \subseteq committed
  BY <1>1, CommittedPatchOK
<1> QED BY <1>2, <1>3

(* What the commit set passes along an edge never exceeds the slots, nor the *)
(* depth the number of definitions, and only definitions are committed and   *)
(* left (commit_set.rs:217-264, 320-444).                                    *)
THEOREM FusionTypeCorrect == Spec => []TypeOK
<1>1. FusionInv => TypeOK
  <2> SUFFICES ASSUME FusionInv PROVE TypeOK
    OBVIOUS
  <2> USE DEF FusionInv
  <2>1. Len(defs) \in Nat /\ LinDefs = 1..Len(defs)
    BY EdgesOK
  <2>2. ASSUME NEW e \in DOMAIN cx
        PROVE  cx[e].depth <= Len(defs) /\ cx[e].shifts.len \in 0..LOWERED_SHIFT_SLOTS
    <3>1. Passed(e) /\ e \in Edges
      OBVIOUS
    <3>2. cx[e].shifts.len \in 0..LOWERED_SHIFT_SLOTS
      BY <3>1, BudgetIs DEF Passed, SummaryOK
    <3>3. CASE e \in RootEdges
      BY <2>1, <3>1, <3>2, <3>3 DEF Passed
    <3>4. ASSUME NEW d \in LinDefs, e \in LinEdges(d) PROVE cx[e].depth <= Len(defs)
      <4>1. cx[e].depth \in Nat /\ cx[e].depth <= Len(defs) - d + 1
        BY <3>1, <3>4 DEF Passed
      <4> QED BY <2>1, <4>1
    <3> QED BY <3>1, <3>2, <3>3, <3>4 DEF Edges
  <2>3. \A x \in linear : x[1] \in LinDefs
    <3>1. CASE stage = "done"
      BY <3>1, LinearIs
    <3>2. CASE stage # "done"
      BY <3>2
    <3> QED BY <3>1, <3>2
  <2> QED BY <2>2, <2>3 DEF TypeOK
<1> QED BY <1>1, InductiveInv, PTL

(* The commit set and the patches agree: whatever definitions are inlined,   *)
(* no term they come to needs a third shift, and process_term never panics   *)
(* (commit_set.rs:139-141, 206-208, 358-444; patch.rs:306-313).              *)
THEOREM InliningFitsTheSlots == Spec => []NeverOverBudget
<1>1. FusionInv => NeverOverBudget
  BY PatchTermsFine DEF NeverOverBudget, FineTerms, Seqs
<1> QED BY <1>1, InductiveInv, PTL

(* Every term a patch spells carries shifts that ConstraintSystem::validate  *)
(* accepts (core shift.rs:714-729, system.rs:370-412).                       *)
THEOREM PatchesAreCanonical == Spec => []TermsCanonical
<1>1. FusionInv => TermsCanonical
  BY PatchTermsFine DEF TermsCanonical, FineTerms
<1> QED BY <1>1, InductiveInv, PTL

(* No wire that is still read where it matters, or was pinned, loses its     *)
(* definition to the inlining (fusion/mod.rs:52-70, patch.rs:56-133).        *)
THEOREM DefinitionsSurvive == Spec => []StillDefined
<1>1. FusionInv => StillDefined
  <2> SUFFICES ASSUME FusionInv, stage = "done"
               PROVE  LET kept == UNION {Mentioned(x[2]) : x \in {y \in linear : y[1] \in committed}}
                      IN  LinDefs \cap (pinned \cup kept \cup UNION {Mentioned(op) : op \in NewOperands})
                            \subseteq Defined
    BY DEF StillDefined
  <2> USE DEF FusionInv
  <2>1. committed \subseteq Defined
    <3>1. \A d \in committed : <<d, CommittedPatch(d).added>> \in linear
      BY LinearIs
    <3>2. \A d \in committed : <<d, CommittedPatch(d).added>>[1] = d
      OBVIOUS
    <3> QED BY <3>1, <3>2 DEF Defined
  <2>2. pinned \cap LinDefs \subseteq committed
    OBVIOUS
  <2>3. ASSUME NEW x \in linear, x[1] \in committed
        PROVE  LinDefs \cap Mentioned(x[2]) \subseteq committed
    <3>1. \E d \in committed : x = <<d, CommittedPatch(d).added>>
      BY <2>3, LinearIs
    <3> QED BY <3>1, MentionsOK
  <2> QED BY <2>1, <2>2, <2>3, MentionsOK
<1> QED BY <1>1, InductiveInv, PTL

(* A definition that was inlined is gone, one that was committed is there    *)
(* once, patched, and every other definition and constraint is neither lost  *)
(* nor doubled (commit_set.rs:281-283, patch.rs:56-108).                     *)
THEOREM InliningIsAllOrNothing == Spec => []AllOrNothing
<1>1. FusionInv => AllOrNothing
  <2> SUFFICES ASSUME FusionInv, stage = "done"
               PROVE  /\ Subsumed \cap Defined \subseteq committed
                      /\ \A d \in LinDefs : Cardinality({x \in linear : x[1] = d}) =
                                            IF d \in committed \/ d \notin Subsumed THEN 1 ELSE 0
                      /\ {x[1] : x \in nonlinear} = DOMAIN roots
                      /\ Cardinality(nonlinear) = Len(roots)
    BY DEF AllOrNothing
  <2> USE DEF FusionInv
  <2>1. Subsumed \cap Defined \subseteq committed
    BY LinearIs DEF Defined
  <2>2. ASSUME NEW d \in LinDefs
        PROVE  Cardinality({x \in linear : x[1] = d}) =
                 IF d \in committed \/ d \notin Subsumed THEN 1 ELSE 0
    <3>1. CASE d \in committed
      <4>1. {x \in linear : x[1] = d} = {<<d, CommittedPatch(d).added>>}
        BY <3>1, LinearIs
      <4> QED BY <3>1, <4>1, FS_Singleton
    <3>2. CASE d \notin committed /\ d \notin Subsumed
      <4>1. {x \in linear : x[1] = d} = {<<d, defs[d]>>}
        BY <3>2, LinearIs
      <4> QED BY <3>2, <4>1, FS_Singleton
    <3>3. CASE d \notin committed /\ d \in Subsumed
      <4>1. {x \in linear : x[1] = d} = {}
        BY <3>3, LinearIs
      <4> QED BY <3>3, <4>1, FS_EmptySet
    <3> QED BY <3>1, <3>2, <3>3
  <2> DEFINE left(c) == IF c \in Patched THEN RootPatch(c).added ELSE roots[c]
             f == [c \in DOMAIN roots |-> <<c, left(c)>>]
  <2>3. nonlinear = {<<c, left(c)>> : c \in DOMAIN roots}
    BY NonlinearIs
  <2> HIDE DEF left
  <2>4. {x[1] : x \in nonlinear} = DOMAIN roots
    <3>1. \A c \in DOMAIN roots : <<c, left(c)>>[1] = c
      OBVIOUS
    <3>2. {x[1] : x \in {<<c, left(c)>> : c \in DOMAIN roots}} = {<<c, left(c)>>[1] : c \in DOMAIN roots}
      OBVIOUS
    <3> QED BY <2>3, <3>1, <3>2, SMTT(30)
  <2>5. Cardinality(nonlinear) = Len(roots)
    <3>1. DOMAIN roots = 1..Len(roots) /\ Len(roots) \in Nat
      BY DEF RootsOK
    <3>2. f \in Bijection(1..Len(roots), nonlinear)
      BY <2>3, <3>1 DEF Bijection, Injection, Surjection, IsInjective
    <3>3. ExistsBijection(1..Len(roots), nonlinear)
      BY <3>2 DEF ExistsBijection
    <3> HIDE DEF f
    <3> QED BY <3>1, <3>3, FS_CountingElements
  <2> QED BY <2>1, <2>2, <2>4, <2>5
<1> QED BY <1>1, InductiveInv, PTL
------------------------------------------------------------------------------
(* The map of a term's shifts is that of the one, then the other. *)
LEMMA SeqMaps ==
  /\ \A q \in Seqs : SeqMap(q) \in MapSet
  /\ \A x, y \in Shift : SeqMap(Seq2(x, y)) = After(Map(y), Map(x))
  /\ \A x \in Shift : SeqMap(Lone(x)) = Map(x)
<1>1. \A q \in Seqs : SeqMap(q) \in MapSet
  BY SeqsOK, BitIs, MapsOK DEF SeqMap
<1>2. \A x, y \in Shift : SeqMap(Seq2(x, y)) = After(Map(y), Map(x))
  BY SeqsOK DEF SeqMap
<1>3. ASSUME NEW x \in Shift PROVE SeqMap(Lone(x)) = Map(x)
  <2>1. Map(IDENTITY) = Unshifted /\ IDENTITY \in Shift
    BY IdentityOK, BitIs
  <2>2. Lone(x) = Seq2(IF is_identity(x) THEN IDENTITY ELSE x, IDENTITY)
    BY DEF Lone, Plain
  <2>3. SeqMap(Lone(x)) = IF is_identity(x) THEN Map(IDENTITY) ELSE Map(x)
    BY <1>2, <2>1, <2>2, BitIs, MapsOK
  <2> QED BY <2>1, <2>3, BitIs
<1> QED BY <1>1, <1>2, <1>3

(* Pushing a shift in does to a word what the shift does, and then the       *)
(* others.                                                                   *)
LEMMA PushMeans ==
  ASSUME NEW q \in Seqs, NEW s \in Shift
  PROVE  LET p == PushInner(q, s, LOWERED_SHIFT_SLOTS) IN
         /\ p \in Seqs => SeqMap(p) = After(SeqMap(q), Map(s))
         /\ p = ZeroTerm => After(SeqMap(q), Map(s)) = AllGone
<1> DEFINE p == PushInner(q, s, LOWERED_SHIFT_SLOTS)
           m == Compose(s, q.inner)
           a == Compose(m.shift, q.outer)
           all == After(Map(q.outer), After(Map(q.inner), Map(s)))
<1>1. q.inner \in Shift /\ q.outer \in Shift /\ m \in Composed
  BY SeqsOK, ComposeType
<1>2. After(SeqMap(q), Map(s)) = all
  <2>1. SeqMap(q) = After(Map(q.outer), Map(q.inner))
    BY DEF SeqMap
  <2>2. Map(q.outer) \in MapSet /\ Map(q.inner) \in MapSet /\ Map(s) \in MapSet
    BY <1>1, BitIs
  <2> QED BY <2>1, <2>2, MapsOK
<1>3. p = Merged(q, s, 2, m, a)
  BY DEF PushInner, LOWERED_SHIFT_SLOTS
<1>4. m.kind = "Single" => m.shift \in Shift /\ a \in Composed
  BY <1>1, KindsApart, ComposeType
<1>5. ZeroTerm \notin Seqs /\ OverBudget \notin Seqs /\ OverBudget # ZeroTerm
      /\ \A q2 \in Seqs : q2 # ZeroTerm
  <2>1. \A q2 \in Seqs : q2.kind = "Seq"
    BY DEF Seqs
  <2> QED BY <2>1, SeqsOK
<1>6. Map(q.outer) \in MapSet /\ Map(q.inner) \in MapSet /\ Map(s) \in MapSet
  BY <1>1, BitIs
<1> SUFFICES /\ p \in Seqs => SeqMap(p) = all
             /\ p = ZeroTerm => all = AllGone
  BY <1>2
<1> HIDE DEF p
<1>7. CASE m.kind = "Zero"
  <2>1. p = ZeroTerm /\ m = Zero
    BY <1>1, <1>3, <1>7, KindsApart DEF Merged
  <2>2. After(Map(q.inner), Map(s)) = AllGone
    BY <1>1, <2>1, ComposeMeans
  <2>3. all = AllGone
    BY <1>6, <2>2, MapsOK
  <2> QED BY <1>5, <2>1, <2>3
<1>8. CASE m.kind = "Pair"
  <2>1. p = IF is_identity(q.outer) THEN Seq2(s, q.inner) ELSE OverBudget
    BY <1>3, <1>8 DEF Merged
  <2>2. is_identity(q.outer) => all = After(Map(q.inner), Map(s))
    BY <1>1, <1>6, BitIs, MapsOK
  <2> QED BY <1>1, <1>5, <2>1, <2>2, SeqMaps, SeqsOK
<1>9. CASE m.kind = "Single"
  <2>1. m = Single(m.shift) /\ m.shift \in Shift /\ a \in Composed
    BY <1>1, <1>4, <1>9, KindsApart
  <2>2. p = CASE a.kind = "Single" -> Lone(a.shift)
              [] a.kind = "Zero"   -> ZeroTerm
              [] a.kind = "Pair"   -> Seq2(m.shift, q.outer)
    BY <1>3, <1>9 DEF Merged
  <2>3. PICK x \in Shift : x = m.shift
    BY <2>1
  <2>4. Map(x) = After(Map(q.inner), Map(s))
    BY <1>1, <2>1, <2>3, ComposeMeans
  <2>5. all = After(Map(q.outer), Map(x)) /\ a = Compose(x, q.outer)
    BY <2>3, <2>4
  <2> HIDE DEF all, m, a
  <2>6. CASE a.kind = "Single"
    <3>1. p = Lone(a.shift) /\ a = Single(a.shift) /\ a.shift \in Shift
      BY <2>1, <2>2, <2>6, KindsApart
    <3>2. Map(a.shift) = all
      BY <1>1, <2>5, <3>1, ComposeMeans
    <3> QED BY <1>5, <3>1, <3>2, SeqMaps, SeqsOK
  <2>7. CASE a.kind = "Zero"
    <3>1. p = ZeroTerm /\ a = Zero
      BY <2>1, <2>2, <2>7, KindsApart
    <3>2. all = AllGone
      BY <1>1, <2>5, <3>1, ComposeMeans
    <3> QED BY <1>5, <3>1, <3>2
  <2>8. CASE a.kind = "Pair"
    <3>1. p = Seq2(x, q.outer)
      BY <2>1, <2>2, <2>3, <2>8, KindsApart
    <3> QED BY <1>1, <1>5, <2>5, <3>1, SeqMaps, SeqsOK
  <2> QED BY <2>1, <2>6, <2>7, <2>8, KindsApart
<1> QED BY <1>1, <1>7, <1>8, <1>9, KindsApart
------------------------------------------------------------------------------
FormSet == [Bits -> SUBSET Bits]
Null    == [i \in Bits |-> {}]

(* The partial sums of an operand. *)
Partial(P, o, F) ==
  /\ P \in [0..Len(o) -> FormSet] /\ P[0] = Null
  /\ \A k \in 0..Len(o) - 1 : P[k + 1] = Add(P[k], TermForm(o[k + 1], F))
Summable(o, F) == \A i \in 1..Len(o) : TermForm(o[i], F) \in FormSet

(* Forms add up to forms. *)
LEMMA AddType ==
  /\ Null \in FormSet
  /\ \A A, B \in FormSet : Add(A, B) \in FormSet
BY DEF Null, FormSet, Add

(* An operand's form is the last of its partial sums. *)
LEMMA SumExists ==
  ASSUME NEW T, NEW o \in Seq(T), NEW F, Summable(o, F)
  PROVE  \E P : Partial(P, o, F) /\ OperandForm(o, F) = P[Len(o)]
<1> DEFINE n == Len(o)
           G == [p \in FormSet \X (1..n) |-> Add(p[1], TermForm(o[p[2]], F))]
           Is(it) == it = [s \in SUBSET (1..n) |->
                             IF s = {} THEN Null
                             ELSE Add(it[s \ {Max(s)}], TermForm(o[Max(s)], F))]
           it == CHOOSE x : Is(x)
<1>1. n \in Nat /\ DOMAIN o = 1..n
  OBVIOUS
<1>2. OperandForm(o, F) = it[1..n]
  BY <1>1 DEF OperandForm, FoldLeft, MapThenFoldSet, Null
<1>3. \E x : Is(x) /\ x \in [SUBSET (1..n) -> FormSet]
  <2>1. G \in [FormSet \X (1..n) -> FormSet]
    BY AddType DEF Summable
  <2> HIDE DEF G
  <2>2. PICK x \in [SUBSET (1..n) -> FormSet] : FoldsBy(x, n, Null, G)
    <3>1. n \in Nat /\ Null \in FormSet
      BY <1>1, AddType
    <3> HIDE DEF n
    <3> QED BY <2>1, <3>1, FoldExists
  <2> USE DEF G
  <2>3. \A s \in SUBSET (1..n) : s # {} =>
          G[<<x[s \ {Max(s)}], Max(s)>>] = Add(x[s \ {Max(s)}], TermForm(o[Max(s)], F))
    <3>1. ASSUME NEW s \in SUBSET (1..n), s # {}
          PROVE  x[s \ {Max(s)}] \in FormSet /\ Max(s) \in 1..n
      <4>1. s \subseteq 0..n
        BY <1>1
      <4>2. Max(s) \in s
        BY <1>1, <3>1, <4>1, MaxIs
      <4> QED BY <4>2
    <3> QED BY <3>1
  <2> HIDE DEF G
  <2>4. x = [s \in SUBSET (1..n) |-> x[s]]
    BY <2>2
  <2>5. Is(x)
    BY <2>2, <2>3, <2>4 DEF FoldsBy
  <2> HIDE DEF Is
  <2> QED BY <2>5
<1>4. Is(it)
  BY <1>3
<1> HIDE DEF it
<1> DEFINE P == [k \in 0..n |-> it[1..k]]
<1>5. P[0] = Null /\ P[n] = it[1..n]
  <2>1. it[{}] = Null
    BY <1>4
  <2>2. 1..0 = {} /\ 0 \in 0..n /\ n \in 0..n
    BY <1>1
  <2> QED BY <2>1, <2>2
<1>6. \A k \in 0..n - 1 : P[k + 1] = Add(P[k], TermForm(o[k + 1], F))
  <2>1. ASSUME NEW k \in 0..n - 1
        PROVE  P[k + 1] = Add(P[k], TermForm(o[k + 1], F))
    <3> DEFINE s == 1..k + 1
    <3> HIDE DEF G, P
    <3>1. k \in 0..n /\ k + 1 \in 0..n /\ k + 1 \in s /\ s # {} /\ s \in SUBSET (1..n)
      <4>1. k \in 0..n /\ k + 1 \in 0..n /\ k + 1 \in 1..k + 1
        BY <1>1
      <4>2. \A m \in 1..k + 1 : m \in 1..n
        BY <1>1
      <4> QED BY <4>1, <4>2
    <3> USE DEF P
    <3>2. Max(s) \in s /\ \A m \in s : m <= Max(s)
      <4>1. s \subseteq 0..n
        BY <1>1
      <4> HIDE DEF s
      <4> QED BY <1>1, <3>1, <4>1, MaxIs
    <3>3. Max(s) = k + 1
      <4>1. k + 1 <= Max(s) /\ Max(s) <= k + 1
        BY <3>1, <3>2
      <4>2. Max(s) \in Nat
        BY <3>2
      <4> HIDE DEF s
      <4> QED BY <4>1, <4>2
    <3>4. s \ {k + 1} = 1..k
      BY <1>1
    <3>5. it[s] = Add(it[s \ {Max(s)}], TermForm(o[Max(s)], F))
      <4> HIDE DEF s
      <4> QED BY <1>4, <3>1
    <3> QED BY <3>1, <3>3, <3>4, <3>5
  <2> QED BY <2>1
<1>7. P \in [0..n -> FormSet]
  <2> DEFINE S == {k \in Nat : k <= n => P[k] \in FormSet}
  <2>1. 0 \in S
    BY <1>5, AddType
  <2>2. ASSUME NEW k \in Nat, k < n, k \in S PROVE k + 1 \in S
    <3>1. k \in 0..n - 1 /\ k + 1 \in 1..n /\ P[k] \in FormSet
      BY <1>1, <2>2
    <3>2. P[k + 1] = Add(P[k], TermForm(o[k + 1], F))
      BY <1>6, <3>1
    <3> HIDE DEF P
    <3> QED BY <3>1, <3>2, AddType DEF Summable
  <2> HIDE DEF S
  <2>3. \A k \in 0..n : k \in S
    BY <1>1, <2>1, <2>2, UpwardClosed
  <2>4. \A k \in 0..n : P[k] \in FormSet
    BY <2>3 DEF S
  <2>5. P = [k \in 0..n |-> P[k]]
    OBVIOUS
  <2> HIDE DEF P
  <2> QED BY <2>4, <2>5
<1>8. Partial(P, o, F) /\ OperandForm(o, F) = P[Len(o)]
  <2> HIDE DEF P
  <2> QED BY <1>2, <1>5, <1>6, <1>7 DEF Partial
<1> QED BY <1>8
------------------------------------------------------------------------------
Pull(m, A) == [i \in Bits |-> IF m[i] = Gone THEN {} ELSE A[m[i]]]

(* Adding is associative, and nothing is neutral. *)
LEMMA AddOK ==
  /\ \A A \in FormSet : Add(A, Null) = A /\ Add(Null, A) = A
  /\ \A A, B, C \in FormSet : Add(Add(A, B), C) = Add(A, Add(B, C))
<1>1. ASSUME NEW A \in FormSet PROVE Add(A, Null) = A /\ Add(Null, A) = A
  BY DEF FormSet, Null, Add
<1>2. ASSUME NEW A \in FormSet, NEW B \in FormSet, NEW C \in FormSet
      PROVE  Add(Add(A, B), C) = Add(A, Add(B, C))
  <2>1. Add(Add(A, B), C) = [i \in Bits |-> (Add(A, B)[i] \ C[i]) \cup (C[i] \ Add(A, B)[i])]
    BY DEF Add
  <2>2. Add(A, Add(B, C)) = [i \in Bits |-> (A[i] \ Add(B, C)[i]) \cup (Add(B, C)[i] \ A[i])]
    BY DEF Add
  <2>3. ASSUME NEW i \in Bits
        PROVE  (Add(A, B)[i] \ C[i]) \cup (C[i] \ Add(A, B)[i]) =
               (A[i] \ Add(B, C)[i]) \cup (Add(B, C)[i] \ A[i])
    <3>1. /\ Add(A, B)[i] = (A[i] \ B[i]) \cup (B[i] \ A[i])
          /\ Add(B, C)[i] = (B[i] \ C[i]) \cup (C[i] \ B[i])
      BY DEF Add
    <3> QED BY <3>1
  <2> QED BY <2>1, <2>2, <2>3
<1> QED BY <1>1, <1>2

(* Forms under a map of bits: as sums go, and as maps compose. *)
LEMMA PullOK ==
  /\ \A m \in MapSet, A \in FormSet : Pull(m, A) \in FormSet
  /\ \A m \in MapSet, A, B \in FormSet : Pull(m, Add(A, B)) = Add(Pull(m, A), Pull(m, B))
  /\ \A m \in MapSet : Pull(m, Null) = Null
  /\ \A m1, m2 \in MapSet, A \in FormSet : Pull(m1, Pull(m2, A)) = Pull(After(m1, m2), A)
  /\ \A A \in FormSet : Pull(AllGone, A) = Null /\ Pull(Unshifted, A) = A
<1> USE Widths DEF MapSet, FormSet, Null, Pull, Gone
<1>1. \A m \in MapSet, A \in FormSet : Pull(m, A) \in FormSet
  OBVIOUS
<1>2. \A m \in MapSet, A, B \in FormSet : Pull(m, Add(A, B)) = Add(Pull(m, A), Pull(m, B))
  BY DEF Add
<1>3. \A m \in MapSet : Pull(m, Null) = Null
  OBVIOUS
<1>4. \A m1, m2 \in MapSet, A \in FormSet : Pull(m1, Pull(m2, A)) = Pull(After(m1, m2), A)
  BY DEF After
<1>5. \A A \in FormSet : Pull(AllGone, A) = Null /\ Pull(Unshifted, A) = A
  BY DEF AllGone, Unshifted
<1> QED BY <1>1, <1>2, <1>3, <1>4, <1>5

(* A term's form is its wire's under the map of its shifts. *)
LEMMA TermFormIs == \A t, F : TermForm(t, F) = Pull(SeqMap(t.seq), F[t.wire])
BY DEF TermForm, Pull
------------------------------------------------------------------------------
Sums(P, o, F, n) == \A k \in 0..n - 1 : P[k + 1] = Add(P[k], TermForm(o[k + 1], F))

(* Partial sums are determined by the terms. *)
LEMMA SumsUnique ==
  ASSUME NEW o, NEW F, NEW P, NEW R, NEW n \in Nat,
         P[0] = R[0], Sums(P, o, F, n), Sums(R, o, F, n)
  PROVE  P[n] = R[n]
<1> DEFINE S == {k \in Nat : P[k] = R[k]}
<1>1. 0 \in S
  OBVIOUS
<1>2. ASSUME NEW k \in Nat, k < n, k \in S PROVE k + 1 \in S
  <2>1. k \in 0..n - 1
    BY <1>1, <1>2
  <2> QED BY <1>2, <2>1 DEF Sums
<1> HIDE DEF S
<1>3. \A k \in 0..n : k \in S
  BY <1>1, <1>2, UpwardClosed
<1>4. n \in S
  BY <1>1, <1>3
<1> QED BY <1>4 DEF S

(* An operand's form is the last of its partial sums, of any. *)
LEMMA OperandIs ==
  ASSUME NEW T, NEW o \in Seq(T), NEW F, Summable(o, F), NEW P, P[0] = Null,
         \A k \in 0..Len(o) - 1 : P[k + 1] = Add(P[k], TermForm(o[k + 1], F))
  PROVE  OperandForm(o, F) = P[Len(o)] /\ OperandForm(o, F) \in FormSet
<1>1. PICK R : Partial(R, o, F) /\ OperandForm(o, F) = R[Len(o)]
  BY SumExists
<1>2. Len(o) \in Nat /\ Len(o) \in 0..Len(o)
  OBVIOUS
<1>3. P[Len(o)] = R[Len(o)]
  <2>1. P[0] = R[0]
    BY <1>1 DEF Partial
  <2>2. Sums(P, o, F, Len(o)) /\ Sums(R, o, F, Len(o))
    BY <1>1 DEF Partial, Sums
  <2> QED BY <1>2, <2>1, <2>2, SumsUnique
<1> QED BY <1>1, <1>2, <1>3 DEF Partial

(* One operand after another means their sum. *)
LEMMA OperandConcat ==
  ASSUME NEW T, NEW a \in Seq(T), NEW b \in Seq(T), NEW F, Summable(a, F), Summable(b, F)
  PROVE  /\ OperandForm(a \o b, F) = Add(OperandForm(a, F), OperandForm(b, F))
         /\ OperandForm(a, F) \in FormSet /\ Summable(a \o b, F)
<1> DEFINE o == a \o b
           m == Len(a)
           n == Len(b)
<1>1. /\ o \in Seq(T) /\ Len(o) = m + n /\ m \in Nat /\ n \in Nat
      /\ \A i \in 1..m + n : o[i] = IF i <= m THEN a[i] ELSE b[i - m]
  BY ConcatProperties
<1> HIDE DEF o, m, n
<1>2. Summable(o, F)
  <2>1. ASSUME NEW i \in 1..m + n PROVE TermForm(o[i], F) \in FormSet
    <3>1. CASE i <= m
      BY <1>1, <2>1, <3>1 DEF Summable, m
    <3>2. CASE ~(i <= m)
      <4>1. i - m \in 1..n
        BY <1>1, <2>1, <3>2
      <4> QED BY <1>1, <3>2, <4>1 DEF Summable, n
    <3> QED BY <3>1, <3>2
  <2> QED BY <1>1, <2>1 DEF Summable
<1>3. PICK P : Partial(P, o, F) /\ OperandForm(o, F) = P[m + n]
  BY <1>1, <1>2, SumExists
<1>4. PICK Q : Partial(Q, a, F) /\ OperandForm(a, F) = Q[m]
  BY SumExists DEF m
<1>5. PICK R : Partial(R, b, F) /\ OperandForm(b, F) = R[n]
  BY SumExists DEF n
<1>6. P[m] = Q[m] /\ Q[m] \in FormSet
  <2>1. Sums(P, a, F, m) /\ Sums(Q, a, F, m)
    <3>1. ASSUME NEW k \in 0..m - 1
          PROVE  /\ Q[k + 1] = Add(Q[k], TermForm(a[k + 1], F))
                 /\ P[k + 1] = Add(P[k], TermForm(a[k + 1], F))
      <4>1. k \in 0..m + n - 1 /\ k + 1 \in 1..m + n /\ k + 1 <= m
        BY <1>1
      <4> QED BY <1>1, <1>3, <1>4, <4>1 DEF Partial, m
    <3> QED BY <3>1 DEF Sums
  <2>2. P[0] = Q[0] /\ m \in Nat
    BY <1>1, <1>3, <1>4 DEF Partial, m
  <2>3. P[m] = Q[m]
    BY <2>1, <2>2, SumsUnique
  <2>4. Q[m] \in FormSet
    BY <1>1, <1>4 DEF Partial, m
  <2> QED BY <2>3, <2>4
<1> DEFINE S == {k \in Nat : k <= n => P[m + k] = Add(Q[m], R[k])}
<1>7. 0 \in S
  BY <1>1, <1>5, <1>6, AddOK DEF Partial
<1>8. ASSUME NEW k \in Nat, k < n, k \in S PROVE k + 1 \in S
  <2>1. /\ m + k \in 0..m + n - 1 /\ (m + k) + 1 = m + (k + 1) /\ (m + k) + 1 \in 1..m + n
        /\ ~((m + k) + 1 <= m) /\ ((m + k) + 1) - m = k + 1
        /\ k \in 0..n - 1 /\ k + 1 \in 1..n /\ k \in 0..n
    BY <1>1, <1>8
  <2>2. P[m + (k + 1)] = Add(P[m + k], TermForm(b[k + 1], F))
    <3>1. o[(m + k) + 1] = b[k + 1]
      BY <1>1, <2>1
    <3>2. P[(m + k) + 1] = Add(P[m + k], TermForm(o[(m + k) + 1], F))
      BY <1>1, <1>3, <2>1 DEF Partial
    <3> QED BY <2>1, <3>1, <3>2
  <2>3. R[k + 1] = Add(R[k], TermForm(b[k + 1], F)) /\ R[k] \in FormSet
    BY <1>5, <2>1 DEF Partial, n
  <2>4. TermForm(b[k + 1], F) \in FormSet
    BY <2>1 DEF Summable, n
  <2>5. P[m + k] = Add(Q[m], R[k])
    BY <1>8, <2>1
  <2>6. P[m + (k + 1)] = Add(Q[m], R[k + 1])
    BY <1>6, <2>2, <2>3, <2>4, <2>5, AddOK
  <2> QED BY <2>6
<1> HIDE DEF S
<1>9. n \in S
  <2>1. \A k \in 0..n : k \in S
    BY <1>1, <1>7, <1>8, UpwardClosed
  <2> QED BY <1>1, <2>1
<1>10. P[m + n] = Add(Q[m], R[n])
  BY <1>1, <1>9 DEF S
<1> QED BY <1>2, <1>3, <1>4, <1>5, <1>6, <1>10 DEF o

(* What each term of an operand is replaced by means what the term meant,    *)
(* under some shifts: then so does all that the operand is replaced by.      *)
LEMMA FlattenSum ==
  ASSUME NEW T, NEW ss \in Seq(Seq(T)), NEW U, NEW o \in Seq(U), Len(o) = Len(ss), NEW F,
         NEW m \in MapSet, Summable(o, F),
         \A i \in 1..Len(o) : /\ Summable(ss[i], F)
                              /\ OperandForm(ss[i], F) = Pull(m, TermForm(o[i], F))
  PROVE  /\ OperandForm(FlattenSeq(ss), F) = Pull(m, OperandForm(o, F))
         /\ Summable(FlattenSeq(ss), F)
<1> DEFINE n == Len(ss)
<1>1. PICK Q : /\ Q[0] = <<>> /\ FlattenSeq(ss) = Q[n]
               /\ \A k \in 0..n : Q[k] \in Seq(T)
               /\ \A k \in 0..n - 1 : Q[k + 1] = Q[k] \o ss[k + 1]
  BY FlattenParts
<1>2. PICK P : Partial(P, o, F) /\ OperandForm(o, F) = P[n]
  BY SumExists
<1>3. n \in Nat /\ \A i \in 1..n : ss[i] \in Seq(T)
  OBVIOUS
<1> DEFINE S == {k \in Nat : k <= n => /\ OperandForm(Q[k], F) = Pull(m, P[k])
                                       /\ Summable(Q[k], F)}
<1> HIDE DEF n
<1>4. 0 \in S
  <2>1. Summable(<<>>, F) /\ <<>> \in Seq(T) /\ Len(<<>>) = 0
    BY EmptySeq DEF Summable
  <2>2. PICK R : Partial(R, <<>>, F) /\ OperandForm(<<>>, F) = R[0]
    BY <2>1, SumExists
  <2>3. OperandForm(<<>>, F) = Null
    BY <2>2 DEF Partial
  <2>4. P[0] = Null /\ Pull(m, Null) = Null
    BY <1>2, PullOK DEF Partial
  <2> QED BY <1>1, <2>1, <2>3, <2>4
<1>5. ASSUME NEW k \in Nat, k < n, k \in S PROVE k + 1 \in S
  <2>1. k \in 0..n - 1 /\ k <= n /\ k + 1 \in 1..n /\ k \in 0..n
    BY <1>3, <1>5
  <2>2. OperandForm(Q[k], F) = Pull(m, P[k]) /\ Summable(Q[k], F) /\ Q[k] \in Seq(T)
    BY <1>1, <1>5, <2>1
  <2>3. /\ Summable(ss[k + 1], F) /\ ss[k + 1] \in Seq(T)
        /\ OperandForm(ss[k + 1], F) = Pull(m, TermForm(o[k + 1], F))
        /\ TermForm(o[k + 1], F) \in FormSet
    BY <1>3, <2>1 DEF n, Summable
  <2>4. /\ OperandForm(Q[k] \o ss[k + 1], F) = Add(OperandForm(Q[k], F), OperandForm(ss[k + 1], F))
        /\ Summable(Q[k] \o ss[k + 1], F)
    BY <2>2, <2>3, OperandConcat
  <2>5. P[k + 1] = Add(P[k], TermForm(o[k + 1], F)) /\ P[k] \in FormSet
    BY <1>2, <2>1 DEF Partial, n
  <2>6. Pull(m, P[k + 1]) = Add(Pull(m, P[k]), Pull(m, TermForm(o[k + 1], F)))
    BY <2>3, <2>5, PullOK
  <2>7. Q[k + 1] = Q[k] \o ss[k + 1]
    BY <1>1, <2>1
  <2>8. OperandForm(Q[k + 1], F) = Pull(m, P[k + 1]) /\ Summable(Q[k + 1], F)
    BY <2>2, <2>3, <2>4, <2>6, <2>7
  <2> QED BY <2>8
<1> HIDE DEF S
<1>6. n \in S
  <2>1. \A k \in 0..n : k \in S
    BY <1>3, <1>4, <1>5, UpwardClosed
  <2> QED BY <1>3, <2>1
<1>7. OperandForm(Q[n], F) = Pull(m, P[n]) /\ Summable(Q[n], F)
  BY <1>3, <1>6 DEF S
<1> QED BY <1>1, <1>2, <1>7
------------------------------------------------------------------------------
(* The forms of the wires, each by those before it. *)
Opaque0 == [i \in Bits |-> {i}]
FormStep(f, w) == IF w = 0 THEN Opaque0 ELSE OperandForm(defs[w], f)

(* A definition can be summed once the wires before it have forms. *)
LEMMA DefSummable ==
  ASSUME DefsOK, NEW w \in 1..Len(defs), NEW f, \A v \in 0..w - 1 : f[v] \in FormSet
  PROVE  Summable(defs[w], f)
<1>1. defs[w] \in Seq(AllTerms)
  BY DEF DefsOK
<1>2. ASSUME NEW i \in 1..Len(defs[w])
      PROVE  TermForm(defs[w][i], f) \in FormSet
  <2>1. defs[w][i] \in AllTerms /\ defs[w][i].wire < w
    BY <1>1, <1>2 DEF DefsOK
  <2>2. defs[w][i].wire \in 0..w - 1 /\ defs[w][i].seq \in Seqs
    BY <2>1, TermsOK
  <2> QED BY <2>2, TermFormIs, SeqMaps, PullOK
<1> QED BY <1>2 DEF Summable

(* A wire's form depends on those of the wires before it. *)
LEMMA FormStepLocal ==
  ASSUME DefsOK, NEW w \in 0..Len(defs), NEW f, NEW g,
         \A v \in 0..w - 1 : f[v] \in FormSet /\ f[v] = g[v]
  PROVE  FormStep(f, w) = FormStep(g, w) /\ FormStep(f, w) \in FormSet
<1>1. CASE w = 0
  BY <1>1 DEF FormStep, Opaque0, FormSet
<1>2. CASE w # 0
  <2>1. w \in 1..Len(defs) /\ defs[w] \in Seq(AllTerms)
    BY <1>2 DEF DefsOK
  <2>2. Summable(defs[w], f) /\ Summable(defs[w], g)
    BY <2>1, DefSummable
  <2>3. PICK P : Partial(P, defs[w], f) /\ OperandForm(defs[w], f) = P[Len(defs[w])]
    BY <2>1, <2>2, SumExists
  <2>4. \A i \in 1..Len(defs[w]) : TermForm(defs[w][i], f) = TermForm(defs[w][i], g)
    <3>1. ASSUME NEW i \in 1..Len(defs[w])
          PROVE  TermForm(defs[w][i], f) = TermForm(defs[w][i], g)
      <4>1. defs[w][i] \in AllTerms /\ defs[w][i].wire < w
        BY <2>1, <3>1 DEF DefsOK
      <4>2. defs[w][i].wire \in 0..w - 1
        BY <2>1, <4>1, TermsOK
      <4> QED BY <4>2, TermFormIs
    <3> QED BY <3>1
  <2>5. Partial(P, defs[w], g)
    <3>1. \A k \in 0..Len(defs[w]) - 1 : k + 1 \in 1..Len(defs[w])
      BY <2>1
    <3> QED BY <2>3, <2>4, <3>1 DEF Partial
  <2>6. OperandForm(defs[w], g) = P[Len(defs[w])] /\ OperandForm(defs[w], g) \in FormSet
    BY <2>1, <2>2, <2>5, OperandIs DEF Partial
  <2> QED BY <1>2, <2>3, <2>6 DEF FormStep
<1> QED BY <1>1, <1>2

(* Every wire has a form, and it is its definition's. *)
LEMMA FormsAre ==
  ASSUME DefsOK
  PROVE  /\ Forms[0] = Opaque0
         /\ \A w \in 0..Len(defs) : Forms[w] \in FormSet
         /\ \A w \in 1..Len(defs) : Forms[w] = OperandForm(defs[w], Forms)
<1> DEFINE n == Len(defs)
           Is(f, k) == f = [w \in 0..k |-> FormStep(f, w)]
           Has(k) == \E f : Is(f, k) /\ \A w \in 0..k : f[w] \in FormSet
           S == {k \in Nat : Has(k)}
<1>1. n \in Nat
  BY DEF DefsOK
<1>2. 0 \in S
  <2> DEFINE f == [w \in 0..0 |-> FormStep(<<>>, w)]
  <2>1. \A w \in 0..0 : FormStep(f, w) = FormStep(<<>>, w) /\ f[w] \in FormSet
    <3>1. ASSUME NEW w \in 0..0 PROVE FormStep(f, w) = FormStep(<<>>, w) /\ FormStep(f, w) \in FormSet
      BY DEF FormStep, Opaque0, FormSet
    <3> QED BY <3>1
  <2>2. Is(f, 0)
    BY <2>1
  <2>3. Has(0)
    BY <2>1, <2>2
  <2> HIDE DEF Has
  <2> QED BY <2>3
<1>3. ASSUME NEW k \in Nat, k < n, k \in S PROVE k + 1 \in S
  <2>1. PICK f : Is(f, k) /\ \A w \in 0..k : f[w] \in FormSet
    BY <1>3
  <2> DEFINE g == [w \in 0..k + 1 |-> FormStep(f, w)]
  <2>2. \A w \in 0..k : g[w] = f[w]
    BY <2>1
  <2>3. \A w \in 0..k + 1 : FormStep(g, w) = FormStep(f, w) /\ FormStep(f, w) \in FormSet
    <3>1. ASSUME NEW w \in 0..k + 1 PROVE FormStep(g, w) = FormStep(f, w) /\ FormStep(f, w) \in FormSet
      <4>1. w \in 0..Len(defs) /\ \A v \in 0..w - 1 : v \in 0..k
        BY <1>1, <1>3
      <4>2. \A v \in 0..w - 1 : f[v] \in FormSet /\ f[v] = g[v]
        BY <2>1, <2>2, <4>1
      <4> HIDE DEF g
      <4> QED BY <4>1, <4>2, FormStepLocal
    <3> QED BY <3>1
  <2>4. Is(g, k + 1)
    BY <2>3
  <2>5. \A w \in 0..k + 1 : g[w] \in FormSet
    BY <2>3
  <2>6. Has(k + 1)
    BY <2>4, <2>5
  <2> HIDE DEF Has
  <2> QED BY <2>6
<1> HIDE DEF S
<1>4. n \in S
  <2>1. \A k \in 0..n : k \in S
    BY <1>1, <1>2, <1>3, UpwardClosed
  <2> QED BY <1>1, <2>1
<1>5. PICK g : Is(g, n) /\ \A w \in 0..n : g[w] \in FormSet
  BY <1>4 DEF S
<1> DEFINE F == CHOOSE f : Is(f, n)
<1>6. Is(F, n)
  BY <1>5
<1>7. Forms = [w \in 0..n |-> F[w]]
  BY DEF Forms, FormStep, Opaque0
<1> HIDE DEF F
<1>8. Forms = F
  BY <1>6, <1>7
<1>9. \A w \in 0..n : F[w] \in FormSet
  <2> DEFINE R == {k \in Nat : \A w \in 0..n : w <= k => F[w] \in FormSet}
  <2>1. ASSUME NEW w \in 0..n, \A v \in 0..w - 1 : F[v] \in FormSet PROVE F[w] \in FormSet
    <3>1. FormStep(F, w) \in FormSet
      BY <2>1, FormStepLocal
    <3> QED BY <1>6, <3>1
  <2>2. 0 \in R
    <3>1. ASSUME NEW w \in 0..n, w <= 0 PROVE F[w] \in FormSet
      <4>1. \A v \in 0..w - 1 : F[v] \in FormSet
        BY <3>1
      <4> QED BY <2>1, <4>1
    <3> QED BY <3>1
  <2>3. ASSUME NEW k \in Nat, k < n, k \in R PROVE k + 1 \in R
    <3>1. ASSUME NEW w \in 0..n, w <= k + 1 PROVE F[w] \in FormSet
      <4>1. \A v \in 0..w - 1 : v \in 0..n /\ v <= k
        BY <1>1, <3>1
      <4>2. \A v \in 0..w - 1 : F[v] \in FormSet
        BY <2>3, <4>1
      <4> QED BY <2>1, <4>2
    <3> QED BY <3>1
  <2> HIDE DEF R
  <2>4. n \in R
    <3>1. \A k \in 0..n : k \in R
      BY <1>1, <2>2, <2>3, UpwardClosed
    <3> QED BY <1>1, <3>1
  <2> QED BY <1>1, <2>4 DEF R
<1>10. \A w \in 0..n : F[w] = FormStep(F, w)
  BY <1>6
<1> QED BY <1>1, <1>8, <1>9, <1>10 DEF FormStep
------------------------------------------------------------------------------
(* What a wire comes to, read under shifts its consumers promised, is the    *)
(* wire's form, shifted.                                                     *)
LEMMA InlinedMeans ==
  ASSUME FusionInv, stage \in {"patch", "apply", "done"}
  PROVE  \A w \in 0..Len(defs), q \in Seqs : Promised(w, q) =>
           /\ Summable(Inlined[w][q].terms, Forms)
           /\ OperandForm(Inlined[w][q].terms, Forms) = Pull(SeqMap(q), Forms[w])
<1> USE DEF FusionInv
<1> DEFINE Same(w, q) == /\ Summable(Inlined[w][q].terms, Forms)
                         /\ OperandForm(Inlined[w][q].terms, Forms) = Pull(SeqMap(q), Forms[w])
           S == {n \in Nat : \A w \in 0..n, q \in Seqs : w < n /\ Promised(w, q) => Same(w, q)}
<1>1. Len(defs) \in Nat /\ LinDefs = 1..Len(defs)
  BY EdgesOK
<1>2. \A w \in 0..Len(defs) : Inlined[w] = InlineStep(Inlined, w)
  BY InlinedIs
<1>3. \A w \in 0..Len(defs) : Forms[w] \in FormSet
  BY FormsAre
<1>4. ASSUME NEW w \in 0..Len(defs), NEW q \in Seqs, Promised(w, q),
             \A v \in 0..Len(defs), p \in Seqs : v < w /\ Promised(v, p) => Same(v, p)
      PROVE  Same(w, q)
  <2>1. SeqMap(q) \in MapSet
    BY SeqMaps
  <2>2. CASE w \notin InlinedDefs
    <3> DEFINE t == [wire |-> w, seq |-> q]
               o == <<t>>
    <3>1. Inlined[w][q].terms = o
      <4>1. Inlined[w][q] = [terms |-> o, subsumes |-> {}]
        BY <1>2, <2>2 DEF InlineStep, InlinedDefs
      <4> QED BY <4>1
    <3>2. TermForm(t, Forms) = Pull(SeqMap(q), Forms[w]) /\ TermForm(t, Forms) \in FormSet
      BY <1>3, <2>1, TermFormIs, PullOK
    <3>3. o \in Seq({t}) /\ Len(o) = 1 /\ o[1] = t
      OBVIOUS
    <3> HIDE DEF o, t
    <3>4. Summable(o, Forms)
      BY <3>2, <3>3 DEF Summable
    <3>5. PICK P : Partial(P, o, Forms) /\ OperandForm(o, Forms) = P[1]
      BY <3>3, <3>4, SumExists
    <3>6. P[0 + 1] = Add(P[0], TermForm(o[0 + 1], Forms)) /\ P[0] = Null
      BY <3>3, <3>5 DEF Partial
    <3>7. OperandForm(o, Forms) = TermForm(t, Forms)
      BY <3>2, <3>3, <3>5, <3>6, AddOK
    <3> QED BY <3>1, <3>2, <3>4, <3>7
  <2>3. CASE w \in InlinedDefs
    <3> DEFINE part(i) == InlineTerm(Inlined, defs[w][i], q)
               ss == [i \in DOMAIN defs[w] |-> part(i).terms]
    <3>1. /\ w \in 1..Len(defs) /\ defs[w] \in Seq(AllTerms) /\ DOMAIN defs[w] = 1..Len(defs[w])
          /\ Len(defs[w]) \in Nat
      BY <1>1, <2>3, EdgesOK DEF InlinedDefs
    <3>2. Inlined[w][q].terms = FlattenSeq(ss)
      <4>1. Inlined[w][q] = InlineDef(Inlined, w, q)
        BY <1>2, <2>3 DEF InlineStep, InlinedDefs
      <4> QED BY <4>1 DEF InlineDef
    <3>3. Forms[w] = OperandForm(defs[w], Forms) /\ Summable(defs[w], Forms)
      <4>1. \A v \in 0..w - 1 : v \in 0..Len(defs)
        BY <1>1
      <4>2. \A v \in 0..w - 1 : Forms[v] \in FormSet
        BY <1>3, <4>1
      <4> QED BY <3>1, <4>2, FormsAre, DefSummable
    <3>4. ASSUME NEW i \in 1..Len(defs[w])
          PROVE  /\ part(i).terms \in Seq(FineTerms)
                 /\ Summable(part(i).terms, Forms)
                 /\ OperandForm(part(i).terms, Forms) = Pull(SeqMap(q), TermForm(defs[w][i], Forms))
      <4> DEFINE t == defs[w][i]
                 p == PushInner(q, sole_shift(t), LOWERED_SHIFT_SLOTS)
                 s == sole_shift(t)
      <4>1. /\ t \in AllTerms /\ t.wire \in 0..Len(defs) /\ t.wire < w
            /\ \/ p = ZeroTerm /\ part(i) = [terms |-> <<>>, subsumes |-> {}]
               \/ p \in Seqs /\ Promised(t.wire, p) /\ part(i) = Inlined[t.wire][p]
        BY <1>4, <2>3, <3>1, InlineTermIs
      <4>2. s \in Shift /\ t.seq = Lone(s)
        BY <4>1, TermsOK
      <4>3. /\ p \in Seqs => SeqMap(p) = After(SeqMap(q), Map(s))
            /\ p = ZeroTerm => After(SeqMap(q), Map(s)) = AllGone
        BY <4>2, PushMeans
      <4>4. TermForm(t, Forms) = Pull(Map(s), Forms[t.wire]) /\ Forms[t.wire] \in FormSet
        BY <1>3, <4>1, <4>2, TermFormIs, SeqMaps
      <4> HIDE DEF p, s, t, part
      <4>5. Pull(SeqMap(q), TermForm(t, Forms)) = Pull(After(SeqMap(q), Map(s)), Forms[t.wire])
        BY <2>1, <4>2, <4>4, BitIs, PullOK
      <4>6. CASE p = ZeroTerm /\ part(i) = [terms |-> <<>>, subsumes |-> {}]
        <5>1. part(i).terms = <<>> /\ <<>> \in Seq(FineTerms) /\ Len(<<>>) = 0
          BY <4>6
        <5>2. Summable(<<>>, Forms)
          BY <5>1 DEF Summable
        <5>3. PICK P : Partial(P, <<>>, Forms) /\ OperandForm(<<>>, Forms) = P[0]
          BY <5>1, <5>2, SumExists
        <5>4. OperandForm(<<>>, Forms) = Null
          BY <5>3 DEF Partial
        <5>5. Pull(SeqMap(q), TermForm(t, Forms)) = Null
          BY <4>3, <4>4, <4>5, <4>6, PullOK
        <5> QED BY <5>1, <5>2, <5>4, <5>5 DEF t
      <4>7. CASE p \in Seqs /\ Promised(t.wire, p) /\ part(i) = Inlined[t.wire][p]
        <5>1. part(i).terms \in Seq(FineTerms)
          BY <4>1, <4>7, InlinedOK
        <5>2. Same(t.wire, p)
          BY <1>4, <4>1, <4>7
        <5> QED BY <4>3, <4>5, <4>7, <5>1, <5>2 DEF t
      <4> QED BY <4>1, <4>6, <4>7
    <3>5. ss \in Seq(Seq(FineTerms)) /\ Len(ss) = Len(defs[w]) /\ \A i \in 1..Len(defs[w]) : ss[i] = part(i).terms
      <4>1. ss \in [1..Len(defs[w]) -> Seq(FineTerms)] /\ \A i \in 1..Len(defs[w]) : ss[i] = part(i).terms
        BY <3>1, <3>4
      <4> HIDE DEF ss
      <4> QED BY <3>1, <4>1
    <3> HIDE DEF ss, part
    <3>6. /\ OperandForm(FlattenSeq(ss), Forms) = Pull(SeqMap(q), OperandForm(defs[w], Forms))
          /\ Summable(FlattenSeq(ss), Forms)
      BY <2>1, <3>1, <3>3, <3>4, <3>5, FlattenSum, SMTT(30)
    <3> QED BY <3>2, <3>3, <3>6
  <2> QED BY <2>2, <2>3
<1> HIDE DEF Same
<1>5. 0 \in S
  OBVIOUS
<1>6. ASSUME NEW n \in Nat, n < Len(defs) + 1, n \in S PROVE n + 1 \in S
  <2>1. ASSUME NEW w \in 0..n + 1, NEW q \in Seqs, w < n + 1, Promised(w, q)
        PROVE  Same(w, q)
    <3>1. w \in 0..n /\ w \in 0..Len(defs)
      BY <1>1, <1>6, <2>1
    <3>2. \A v \in 0..Len(defs), p \in Seqs : v < w /\ Promised(v, p) => Same(v, p)
      BY <1>6, <3>1
    <3> QED BY <1>4, <2>1, <3>1, <3>2
  <2> QED BY <2>1
<1> HIDE DEF S
<1>7. Len(defs) + 1 \in S
  <2>1. Len(defs) + 1 \in Nat
    BY <1>1
  <2>2. \A n \in 0..Len(defs) + 1 : n \in S
    BY <1>5, <1>6, <2>1, UpwardClosed
  <2> QED BY <2>1, <2>2
<1>8. \A w \in 0..Len(defs), q \in Seqs : Promised(w, q) => Same(w, q)
  BY <1>1, <1>7 DEF S
<1> QED BY <1>8 DEF Same
------------------------------------------------------------------------------
(* An operand that is patched means what it meant. *)
LEMMA ProcessOperandMeans ==
  ASSUME FusionInv, stage \in {"patch", "apply", "done"}, NEW op, Readable(op)
  PROVE  OperandForm(ProcessOperand(op).terms, Forms) = OperandForm(op, Forms)
<1> DEFINE part(i) == Inlined[op[i].wire][op[i].seq]
           ss == [i \in DOMAIN op |-> part(i).terms]
<1>1. ProcessOperand(op).terms = FlattenSeq(ss)
  BY DEF ProcessOperand
<1>2. op \in Seq(AllTerms) /\ DOMAIN op = 1..Len(op) /\ Len(op) \in Nat
  BY DEF Readable
<1>3. \A w \in 0..Len(defs) : Forms[w] \in FormSet
  BY FormsAre DEF FusionInv
<1>4. ASSUME NEW i \in 1..Len(op)
      PROVE  /\ part(i).terms \in Seq(FineTerms) /\ Summable(part(i).terms, Forms)
             /\ TermForm(op[i], Forms) \in FormSet
             /\ OperandForm(part(i).terms, Forms) = Pull(Unshifted, TermForm(op[i], Forms))
  <2>1. op[i].wire \in 0..Len(defs) /\ Promised(op[i].wire, op[i].seq) /\ op[i].seq \in Seqs
    BY <1>2, TermsOK DEF Readable
  <2>2. /\ part(i).terms \in Seq(FineTerms) /\ Summable(part(i).terms, Forms)
        /\ OperandForm(part(i).terms, Forms) = Pull(SeqMap(op[i].seq), Forms[op[i].wire])
    BY <2>1, InlinedOK, InlinedMeans
  <2>3. TermForm(op[i], Forms) = Pull(SeqMap(op[i].seq), Forms[op[i].wire])
    BY TermFormIs
  <2>4. TermForm(op[i], Forms) \in FormSet
    BY <1>3, <2>1, <2>3, SeqMaps, PullOK
  <2> HIDE DEF part
  <2> QED BY <2>2, <2>3, <2>4, PullOK
<1>5. ss \in Seq(Seq(FineTerms)) /\ Len(ss) = Len(op) /\ \A i \in 1..Len(op) : ss[i] = part(i).terms
  <2>1. ss \in [1..Len(op) -> Seq(FineTerms)] /\ \A i \in 1..Len(op) : ss[i] = part(i).terms
    BY <1>2, <1>4
  <2> HIDE DEF ss
  <2> QED BY <1>2, <2>1
<1> HIDE DEF ss, part
<1>6. Summable(op, Forms)
  BY <1>4 DEF Summable
<1>7. OperandForm(FlattenSeq(ss), Forms) = Pull(Unshifted, OperandForm(op, Forms))
  BY <1>2, <1>4, <1>5, <1>6, MapsOK, FlattenSum
<1>8. OperandForm(op, Forms) \in FormSet
  <2>1. PICK P : Partial(P, op, Forms) /\ OperandForm(op, Forms) = P[Len(op)]
    BY <1>2, <1>6, SumExists
  <2> QED BY <1>2, <2>1 DEF Partial
<1> QED BY <1>1, <1>7, <1>8, PullOK

(* Every constraint left, patched or not, says of the wires it mentions what *)
(* was said before (patch.rs:20-26, 283-318).                                *)
THEOREM FusionKeepsMeaning == Spec => []SameMeaning
<1>1. FusionInv => SameMeaning
  <2> SUFFICES ASSUME FusionInv, stage = "done"
               PROVE  /\ \A x \in linear : OperandForm(x[2], Forms) = Forms[x[1]]
                      /\ \A x \in nonlinear : \A o \in DOMAIN x[2] :
                           OperandForm(x[2][o], Forms) = OperandForm(roots[x[1]][o], Forms)
    BY DEF SameMeaning
  <2>1. committed \subseteq LinDefs /\ LinDefs = 1..Len(defs)
        /\ \A d \in LinDefs : Forms[d] = OperandForm(defs[d], Forms)
    BY EdgesOK, FormsAre DEF FusionInv
  <2>2. ASSUME NEW d \in committed
        PROVE  OperandForm(CommittedPatch(d).added, Forms) = Forms[d]
    <3>1. CommittedPatch(d).added = ProcessOperand(defs[d]).terms
      BY DEF CommittedPatch
    <3> QED BY <2>1, <3>1, DefReadable, ProcessOperandMeans
  <2>3. ASSUME NEW x \in linear PROVE OperandForm(x[2], Forms) = Forms[x[1]]
    <3>1. CASE \E d \in committed : x = <<d, CommittedPatch(d).added>>
      BY <2>2, <3>1
    <3>2. CASE \E d \in LinDefs : x = <<d, defs[d]>>
      BY <2>1, <3>2
    <3> QED BY <3>1, <3>2, LinearIs
  <2>4. ASSUME NEW x \in nonlinear, NEW o \in DOMAIN x[2]
        PROVE  OperandForm(x[2][o], Forms) = OperandForm(roots[x[1]][o], Forms)
    <3>1. PICK c \in DOMAIN roots : x = <<c, IF c \in Patched THEN RootPatch(c).added ELSE roots[c]>>
      BY NonlinearIs
    <3>2. CASE c \notin Patched
      BY <3>1, <3>2
    <3>3. CASE c \in Patched
      <4> DEFINE new == [a \in DOMAIN roots[c] |-> ProcessOperand(roots[c][a])]
      <4>1. RootPatch(c).added = [a \in DOMAIN new |-> new[a].terms]
        BY DEF RootPatch
      <4>2. x[2] = RootPatch(c).added /\ x[1] = c
        BY <3>1, <3>3
      <4>3. o \in DOMAIN roots[c] /\ x[2][o] = ProcessOperand(roots[c][o]).terms
        BY <4>1, <4>2
      <4> QED BY <4>2, <4>3, RootReadable, ProcessOperandMeans
    <3> QED BY <3>2, <3>3
  <2> QED BY <2>3, <2>4
<1> QED BY <1>1, InductiveInv, PTL

(* Where a patch spells two shifts no single one would do, nor do they drop  *)
(* the word: shift.rs's Pair is never one too many (core shift.rs:536-538).  *)
THEOREM SlotsAreNotWasted == Spec => []NoSlotWasted
<1>1. FusionInv => NoSlotWasted
  <2> SUFFICES ASSUME FusionInv, NEW t \in PatchTerms, ~is_identity(t.seq.outer)
               PROVE  SeqMap(t.seq) \notin SingleMaps
    BY DEF NoSlotWasted
  <2>1. t.seq \in Seqs /\ Faultless(t.seq)
    BY PatchTermsFine DEF FineTerms
  <2>2. t.seq.inner \in Shift /\ t.seq.outer \in Shift /\ Compose(t.seq.inner, t.seq.outer) = Pair
    BY <2>1, SeqsOK DEF Faultless
  <2> QED BY <2>2, PairIsNoSingle DEF SeqMap
<1> QED BY <1>1, InductiveInv, PTL
=============================================================================
