------------------------------ MODULE MCFusion ------------------------------
(* Instance of Fusion.  The shifts are two that neither chain nor undo each  *)
(* other, the one of which clears the word when it is met twice; a term      *)
(* beside another is unshifted.  Nets are circuits of up to three            *)
(* definitions, closed by an operand of one or two terms.  Small circuits    *)
(* have two definitions, which may copy a wire, the first of them pinned or  *)
(* not, and are closed by one or two operands.  Broad circuits have two      *)
(* definitions of up to three terms and two constraints, which need not read *)
(* what was defined.  Chains are two definitions of a single term and every  *)
(* shift there is, one behind the other.                                     *)
EXTENDS Fusion

Nets   == [shifts |-> {Sh(Whole("sll"), Half), Sh(Whole("slr"), 1)}, beside |-> {IDENTITY},
           back |-> TRUE, tight |-> TRUE, pins |-> {{}},
           defs |-> 3, terms |-> 2, roots |-> 1, operands |-> 1, reads |-> 2]
Small  == [Nets EXCEPT !.shifts = @ \cup {IDENTITY}, !.pins = {{}, {1}},
                       !.defs = 2, !.operands = 2, !.reads = 1]
Broad  == [Nets EXCEPT !.tight = FALSE, !.defs = 2, !.terms = 3, !.roots = 2, !.reads = 1]
Chains == [Nets EXCEPT !.shifts = {s \in Shift : is_canonical(s)}, !.back = FALSE,
                       !.defs = 2, !.terms = 1, !.reads = 1]

MCFamilies == {Nets, Small, Broad, Chains}
=============================================================================
