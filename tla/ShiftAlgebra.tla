---------------------------- MODULE ShiftAlgebra ----------------------------
(* Shifts of a word and their composition: ShiftVariant and Shift of         *)
(* crates/core, and the sequence of two shifts a term of an operand carries  *)
(* (push_inner of crates/frontend).  The word has Width bits where the code  *)
(* has 64; the code's 32, 33, 31 and 63 are Half, Half + 1, Half - 1 and     *)
(* Width - 1.                                                                *)
EXTENDS Integers

CONSTANT Width
ASSUME WidthAssumption == Width \in Nat /\ Width >= 4 /\ Width % 2 = 0

Half == Width \div 2
Bits == 0..Width - 1

(* A variant is an operation on the whole word or on each of its halves. *)
ShiftVariant == [op : {"sll", "slr", "sar", "rotr"}, half : BOOLEAN]
Whole(op)    == [op |-> op, half |-> FALSE]
Halves(op)   == [op |-> op, half |-> TRUE]

max_amount(v) == IF v.half THEN Half ELSE Width
is_cyclic(v)  == v.op = "rotr"
Sh(v, amount) == [variant |-> v, amount |-> amount]
Shift         == {s \in [variant : ShiftVariant, amount : Bits] :
                    s.amount < max_amount(s.variant)}
IDENTITY        == Sh(Whole("sll"), 0)
is_identity(s)  == s.amount = 0
is_canonical(s) == is_identity(s) => s.variant = Whole("sll")

(* What a shift does to a word: which bit of the word each bit of the result *)
(* is, or Gone for a zero that was moved in.                                 *)
Gone == -1
SourceBit(s, i) ==
  LET w    == max_amount(s.variant)
      base == i - (i % w)
      j    == i % w
      k    == s.amount
  IN  CASE s.variant.op = "sll"  -> IF j >= k THEN i - k ELSE Gone
        [] s.variant.op = "slr"  -> IF j + k < w THEN i + k ELSE Gone
        [] s.variant.op = "sar"  -> IF j + k < w THEN i + k ELSE base + w - 1
        [] s.variant.op = "rotr" -> base + ((j + k) % w)

Maps         == [s \in Shift |-> [i \in Bits |-> SourceBit(s, i)]]
Map(s)       == Maps[s]
Unshifted    == [i \in Bits |-> i]
AllGone      == [i \in Bits |-> Gone]
SingleMaps   == {Maps[s] : s \in Shift} \cup {AllGone}
After(outer, inner) ==
  [i \in Bits |-> IF outer[i] = Gone THEN Gone ELSE inner[outer[i]]]
------------------------------------------------------------------------------
Single(s) == [kind |-> "Single", shift |-> s]
Zero      == [kind |-> "Zero"]
Pair      == [kind |-> "Pair"]

(* Mutant: only shifts of one variant chain. *)
ChainedSameVariant(inner, outer) ==
  {v \in ShiftVariant : v = inner.variant /\ v = outer.variant}

(* The variant two shifts chain into, as a set of at most one element. *)
Chained(inner, outer) ==
  LET of(i, o) == inner.variant = i /\ outer.variant = o IN
  {v \in ShiftVariant :
     \/ v = inner.variant /\ v = outer.variant
     \/ v = Whole("slr")  /\ of(Whole("slr"), Whole("sar"))
     \/ v = Halves("slr") /\ of(Halves("slr"), Halves("sar"))
     \/ /\ ~v.half /\ v.op # "rotr"
        /\ \/ of(v, Halves(v.op)) /\ inner.amount >= Half
           \/ of(Halves(v.op), v) /\ outer.amount >= Half
     \/ /\ v = Whole("slr")
        /\ \/ of(v, Halves("sar")) /\ inner.amount >= Half + 1
           \/ of(Halves("slr"), Whole("sar")) /\ outer.amount >= Half}

(* Mutant: a rotation of a flattened half-word is dropped by any rotation. *)
DegenerateAnyRotation(inner, outer) ==
  {s \in {inner} : s.variant.op = "sar" /\ outer.variant.op = "rotr"
                   /\ s.amount = max_amount(s.variant) - 1}
  \cup
  {s \in {outer} :
     inner.variant.op = "sar" /\ s.variant.op = "slr"
       /\ s.amount = max_amount(s.variant) - 1
       /\ (inner.variant.half \/ ~s.variant.half)}

(* The single shift two shifts come to because one has flattened the word,   *)
(* as a set of at most one element.                                          *)
Degenerate(inner, outer) ==
  LET i == inner.variant  o == outer.variant IN
  {s \in {inner} :
     \/ i = Whole("sar") /\ o.op = "rotr" /\ inner.amount = Width - 1
     \/ i = Halves("sar") /\ o = Halves("rotr") /\ inner.amount = Half - 1}
  \cup
  {s \in {outer} :
     \/ i.op = "sar" /\ o = Whole("slr") /\ outer.amount = Width - 1
     \/ i = Halves("sar") /\ o = Halves("slr") /\ outer.amount = Half - 1}

ChainedComposition(v, distance) ==
  LET w == max_amount(v) IN
  CASE v.op \in {"sll", "slr"} -> IF distance < w THEN Single(Sh(v, distance)) ELSE Zero
    [] v.op = "sar"  -> Single(Sh(v, IF distance < w THEN distance ELSE w - 1))
    [] v.op = "rotr" -> Single(IF distance % w = 0 THEN IDENTITY ELSE Sh(v, distance % w))

Composition(inner, outer, degenerate, chained) ==
  CASE is_identity(inner) -> Single(outer)
    [] ~is_identity(inner) /\ is_identity(outer) -> Single(inner)
    [] OTHER -> IF degenerate # {} THEN Single(CHOOSE s \in degenerate : TRUE)
                ELSE IF chained = {} THEN Pair
                ELSE ChainedComposition(CHOOSE v \in chained : TRUE,
                                        inner.amount + outer.amount)

Compositions == [s \in Shift \X Shift |->
                   Composition(s[1], s[2], Degenerate(s[1], s[2]), Chained(s[1], s[2]))]
Compose(inner, outer) == Compositions[inner, outer]
------------------------------------------------------------------------------
(* The shifts of a term, innermost first, or what became of the term. *)
Seq2(inner, outer) == [kind |-> "Seq", inner |-> inner, outer |-> outer]
Plain       == Seq2(IDENTITY, IDENTITY)
ZeroTerm    == [kind |-> "Zero"]
OverBudget  == [kind |-> "OverBudget"]
Lone(s)     == IF is_identity(s) THEN Plain ELSE Seq2(s, IDENTITY)

Merged(seq, shift, slots, merged, again) ==
  CASE merged.kind = "Zero" -> ZeroTerm
    [] merged.kind = "Pair" ->
         IF slots >= 2 /\ is_identity(seq.outer)
         THEN Seq2(shift, seq.inner) ELSE OverBudget
    [] merged.kind = "Single" ->
         CASE again.kind = "Single" -> Lone(again.shift)
           [] again.kind = "Zero"   -> ZeroTerm
           [] again.kind = "Pair"   -> Seq2(merged.shift, seq.outer)

(* Mutant: what was merged inwards is not tried against the outer slot. *)
PushInnerOnce(seq, shift, slots) == Merged(seq, shift, slots, Compose(shift, seq.inner), Pair)

PushInner(seq, shift, slots) ==
  Merged(seq, shift, slots, Compose(shift, seq.inner),
         Compose(Compose(shift, seq.inner).shift, seq.outer))

(* operand_fault: what a term of a finished constraint may carry. *)
Faultless(seq) ==
  /\ is_canonical(seq.inner) /\ is_canonical(seq.outer)
  /\ is_identity(seq.inner) => is_identity(seq.outer)
  /\ ~is_identity(seq.outer) => Compose(seq.inner, seq.outer) = Pair

SeqMap(seq) == After(Map(seq.outer), Map(seq.inner))
==============================================================================
