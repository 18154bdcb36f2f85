-------------------------- MODULE ConstraintSystem --------------------------
(* A constraint system and its values (crates/core/src/constraint_system):   *)
(* value indices, the layout of a value vector, what validate accepts of an  *)
(* operand, and what verify accepts of the values.                           *)
EXTENDS Words

CONSTANT MAX_VALUES_PER_SEGMENT  \* system.rs: 1 << 26

ASSUME SegmentAssumption == MAX_VALUES_PER_SEGMENT \in Nat

ValueIndex(segment, index) == [segment |-> segment, index |-> index]
(* Where a segment starts in the flat value vector. *)
SegmentStart(layout, segment) ==
  CASE segment = "Constant" -> 0
    [] segment = "InOut"    -> layout.n_const
    [] segment = "Private"  -> layout.n_const + layout.n_inout
    [] segment = "Scratch"  -> layout.n_const + layout.n_inout + layout.n_witness + layout.n_internal
combined_len(layout) == SegmentStart(layout, "Scratch")
full_len(layout)     == combined_len(layout) + layout.n_scratch

(* The flat position of a value, from one. *)
word_offset(layout, v) == SegmentStart(layout, v.segment) + v.index + 1

segment_len(cs, segment) ==
  CASE segment = "Constant" -> Len(cs.constants)
    [] segment = "InOut"    -> cs.n_inout
    [] segment = "Private"  -> cs.n_private
    [] segment = "Scratch"  -> 0

operand_fault(cs, operand) ==
  \E k \in DOMAIN operand :
    LET term == operand[k]
    IN  \/ ~Faultless(term.seq)
        \/ term.value.segment = "Scratch"
        \/ term.value.index >= segment_len(cs, term.value.segment)

cs_validate(cs) ==
  /\ \A segment \in {"InOut", "Private"} : segment_len(cs, segment) <= MAX_VALUES_PER_SEGMENT
  /\ \A c \in Range(cs.constraints) : \A o \in DOMAIN c.operands : ~operand_fault(cs, c.operands[o])
------------------------------------------------------------------------------
eval_operand(layout, values, operand) ==
  XorAll([k \in DOMAIN operand |->
            LET term == operand[k]
            IN  Shifted(term.seq.outer,
                        Shifted(term.seq.inner, values[word_offset(layout, term.value)]))])

Satisfied(kind, x) ==
  CASE kind = "zero" -> x[1] = {}
    [] kind = "and"  -> x[1] \cap x[2] = x[3]
    [] kind = "imul" -> imul(x[1], x[2]) = <<x[4], x[3]>>
    [] kind = "bmul" -> ghash_mul(Element(x[1], x[2]), Element(x[3], x[4])) = <<x[5], x[6]>>

cs_verify(cs, layout, values) ==
  /\ \A k \in DOMAIN cs.constants : values[word_offset(layout, ValueIndex("Constant", k - 1))] = cs.constants[k]
  /\ \A c \in Range(cs.constraints) :
       Satisfied(c.kind, [o \in DOMAIN c.operands |-> eval_operand(layout, values, c.operands[o])])
==============================================================================
