------------------------------- MODULE Fusion -------------------------------
(* Gate fusion (crates/frontend/src/pass/fusion): definitions that are       *)
(* exclusive-ors of shifted wires are inlined into the constraints that read *)
(* them, except those the commit set keeps, and the constraint builder's     *)
(* lists are patched accordingly.                                            *)
(*                                                                           *)
(* Wire 0 stands for the opaque wires; wire d in 1..n is defined by linear   *)
(* constraint d.  An operand is a sequence of terms.  Words are abstracted   *)
(* to linear forms: which bits of the opaque wire each bit of a wire is the  *)
(* sum of.  An edge of the linear expression graph is a term's place: in     *)
(* linear constraint d, or in operand o of root constraint d.                *)
EXTENDS ShiftSummary, SequencesExt

CONSTANTS Families,         \* bound: the families of circuits, see Lists
          MAX_DEPTH,        \* commit_set.rs: 6
          MAX_TERM_GROWTH   \* commit_set.rs: 4

ASSUME FusionAssumption ==
  /\ \A f \in Families : /\ f.shifts \subseteq Shift /\ f.beside \subseteq Shift
                         /\ {f.defs, f.terms, f.roots, f.operands, f.reads} \subseteq Nat
                         /\ f.back \in BOOLEAN /\ f.tight \in BOOLEAN
                         /\ f.pins \subseteq SUBSET Nat
  /\ MAX_DEPTH \in Nat /\ MAX_TERM_GROWTH \in Nat

LOWERED_SHIFT_SLOTS == 2

VARIABLES family,     \* the family of the circuit
          defs,       \* d -> the operand that defines wire d, as built
          roots,      \* the constraints that define no wire, as built: operands
          pinned,     \* the wires committed by force
          stage,
          cx,         \* edge -> what the commit set passes along it, once set
          committed,  \* lin_committed
          patches,    \* of patch::build
          linear,     \* after the patches: the linear constraints,
          nonlinear   \* and the others

circuit == <<family, defs, roots, pinned>>
vars    == <<circuit, stage, cx, committed, patches, linear, nonlinear>>

Term(w, s)  == [wire |-> w, seq |-> Lone(s)]
LinDefs     == DOMAIN defs
sole_shift(t) == t.seq.inner

LinEdges(d)  == {<<"lin", d, 1, i>> : i \in DOMAIN defs[d]}
RootEdges    == UNION {UNION {{<<"root", c, o, i>> : i \in DOMAIN roots[c][o]} :
                         o \in DOMAIN roots[c]} : c \in DOMAIN roots}
TermAt(e)    == IF e[1] = "lin" THEN defs[e[2]][e[4]] ELSE roots[e[2]][e[3]][e[4]]
EdgeShift(e) == sole_shift(TermAt(e))
Incoming(d)  == LinEdges(d)
Outgoing(d)  == {e \in RootEdges \cup UNION {LinEdges(c) : c \in LinDefs} : TermAt(e).wire = d}

NewCx(s)  == [shifts |-> With(EmptySummary, s), depth |-> 0]
Deepest(cxs) == Most({c.depth : c \in cxs})
(* Mutant: the contexts of the consumers are not joined, one of them stands  *)
(* for all.                                                                  *)
JoinOne(cxs) == IF cxs = {} THEN [shifts |-> EmptySummary, depth |-> 0]
                ELSE CHOOSE c \in cxs : TRUE
Join(cxs) == [shifts |-> SummaryUnion({c.shifts : c \in cxs}), depth |-> Deepest(cxs)]
AddCx(c, s) == [shifts |-> With(c.shifts, s), depth |-> c.depth + 1]

(* A linear definition is visited when its consumers have been: any order of *)
(* the postorder traversal, which starts at the roots.                       *)
Visit(d) ==
  LET out    == {cx[e] : e \in Outgoing(d)}
      in     == Incoming(d)
      Fits(slots) == \A c \in out, e \in in : Composable(c.shifts, EdgeShift(e), slots)
      k      == Cardinality(in)
      c      == Cardinality(Outgoing(d))
      growth == (k - 1) * Max({c - 1, 0})
      too_deep       == Deepest(out) > MAX_DEPTH /\ k # 1
      multiplies_out == ~Fits(1) /\ growth > MAX_TERM_GROWTH
      commit == too_deep \/ ~Fits(LOWERED_SHIFT_SLOTS) \/ multiplies_out
  IN  /\ stage = "decide"
      /\ in \cap DOMAIN cx = {} /\ Outgoing(d) \subseteq DOMAIN cx
      /\ committed' = IF commit THEN committed \cup {d} ELSE committed
      /\ cx' = [e \in DOMAIN cx \cup in |-> IF e \notin in THEN cx[e]
                                            ELSE IF commit THEN NewCx(EdgeShift(e))
                                            ELSE AddCx(Join(out), EdgeShift(e))]
      /\ UNCHANGED <<circuit, stage, patches, linear, nonlinear>>

(* The pinned wires that are linear definitions join the commit set. *)
Pin == /\ stage = "decide" /\ \A d \in LinDefs : Incoming(d) \subseteq DOMAIN cx
       /\ stage' = "patch"
       /\ committed' = committed \cup (pinned \cap LinDefs)
       /\ UNCHANGED <<circuit, cx, patches, linear, nonlinear>>
------------------------------------------------------------------------------
(* process_term: the terms a term comes to, and the definitions inlined. *)
Panic == [terms |-> <<[wire |-> 0, seq |-> OverBudget]>>, subsumes |-> {}]

Seqs  == [kind : {"Seq"}, inner : Shift, outer : Shift]

(* A term of a definition that is read under the shifts seq: pushed in, it   *)
(* goes on to its own wire.                                                  *)
InlineTerm(f, t, seq) ==
  LET p == PushInner(seq, sole_shift(t), LOWERED_SHIFT_SLOTS)
  IN  CASE p.kind = "Seq"  -> f[t.wire][p]
        [] p.kind = "Zero" -> [terms |-> <<>>, subsumes |-> {}]
        [] p.kind = "OverBudget" -> Panic

InlineDef(f, w, seq) ==
  [terms    |-> FlattenSeq([i \in DOMAIN defs[w] |-> InlineTerm(f, defs[w][i], seq).terms]),
   subsumes |-> {w} \cup UNION {InlineTerm(f, defs[w][i], seq).subsumes : i \in DOMAIN defs[w]}]

InlineStep(f, w) ==
  [seq \in Seqs |-> IF w \in LinDefs \ committed THEN InlineDef(f, w, seq)
                    ELSE [terms |-> <<[wire |-> w, seq |-> seq]>>, subsumes |-> {}]]

Inlined == LET f[w \in 0..Len(defs)] == InlineStep(f, w) IN f

ProcessOperand(operand) ==
  LET inlined(i) == Inlined[operand[i].wire][operand[i].seq] IN
  [terms    |-> FlattenSeq([i \in DOMAIN operand |-> inlined(i).terms]),
   subsumes |-> UNION {inlined(i).subsumes : i \in DOMAIN operand}]

(* A patch of root constraint c, or of committed definition d. *)
RootPatch(c) ==
  LET new == [o \in DOMAIN roots[c] |-> ProcessOperand(roots[c][o])] IN
  [kind |-> "root", at |-> c, added |-> [o \in DOMAIN new |-> new[o].terms],
   subsumes |-> UNION {new[o].subsumes : o \in DOMAIN new}]

(* Mutant: a committed definition keeps the right-hand side it was built with. *)
CommittedPatchAsBuilt(d) ==
  [kind |-> "lin", at |-> d, added |-> defs[d], subsumes |-> {d}]
(* Mutant: the definition as built stays beside its patch. *)
CommittedPatchBeside(d) ==
  LET new == ProcessOperand(defs[d]) IN
  [kind |-> "lin", at |-> d, added |-> new.terms, subsumes |-> new.subsumes]

CommittedPatch(d) ==
  LET new == ProcessOperand(defs[d]) IN
  [kind |-> "lin", at |-> d, added |-> new.terms, subsumes |-> {d} \cup new.subsumes]

Build ==
  /\ stage = "patch"
  /\ stage' = "apply"
  /\ patches' = {RootPatch(c) : c \in {e[2] : e \in {f \in RootEdges : TermAt(f).wire \in LinDefs}}}
                \cup {CommittedPatch(d) : d \in committed}
  /\ UNCHANGED <<circuit, cx, committed, linear, nonlinear>>

Subsumed == UNION {p.subsumes : p \in patches}
Added(kind) == {<<p.at, p.added>> : p \in {q \in patches : q.kind = kind}}

(* apply_patches: what is subsumed goes, what the patches add comes. *)
ApplyPatches ==
  /\ stage = "apply"
  /\ stage' = "done"
  /\ linear' = {<<d, defs[d]>> : d \in LinDefs \ Subsumed} \cup Added("lin")
  /\ nonlinear' = {<<c, roots[c]>> : c \in DOMAIN roots \ {p.at : p \in {q \in patches : q.kind = "root"}}}
                  \cup Added("root")
  /\ UNCHANGED <<circuit, cx, committed, patches>>
------------------------------------------------------------------------------
(* The builder's calls.  A linear constraint defines the next wire over wires *)
(* that exist; constraints of other kinds define none.  The builder lists    *)
(* the two apart, so the definitions are taken to come first; an operand     *)
(* that reads something comes first in its constraint.  A family bounds      *)
(* them: how many definitions and constraints, terms of a definition,        *)
(* operands and terms of an operand; the shifts of a first term and of those *)
(* beside it; whether terms reach back beyond the last wire (back), whether  *)
(* constraints must read the last wire, or it would not matter (tight); and  *)
(* the wires that are pinned.                                                *)
TermsOver(ws, shifts) == {Term(w, s) : w \in ws, s \in shifts}
Reach == IF family.back THEN 0..Len(defs) ELSE {Len(defs)}
Heads == IF family.tight THEN {Len(defs)} ELSE Reach

(* Up to n in a row, the first of which is one of firsts. *)
Headed(firsts, others, n) ==
  UNION {{<<x>> \o rest : rest \in BoundedSeq(others, n - 1)} : x \in firsts}

Lists(ws, shifts, n) ==
  Headed(TermsOver(ws, shifts), TermsOver(Reach, family.beside), n)
Constraints ==
  Headed(Lists(Heads, family.shifts, family.reads),
         {<<>>} \cup Lists(Reach, family.beside, family.reads), family.operands)

Linear(terms) ==
  /\ stage = "build" /\ roots = <<>> /\ Len(defs) < family.defs
  /\ defs' = Append(defs, terms)
  /\ UNCHANGED <<family, roots, pinned, stage, cx, committed, patches, linear, nonlinear>>

Constrain(operands) ==
  /\ stage = "build" /\ Len(roots) < family.roots
  /\ roots' = Append(roots, operands)
  /\ UNCHANGED <<family, defs, pinned, stage, cx, committed, patches, linear, nonlinear>>

(* The pass starts: the roots, which the traversal leaves first, seed the    *)
(* edges of the definitions they read.                                       *)
Fuse(pins) ==
  /\ stage = "build"
  /\ stage' = "decide"
  /\ pinned' = pins
  /\ cx' = [e \in {f \in RootEdges : TermAt(f).wire \in LinDefs} |-> NewCx(EdgeShift(e))]
  /\ UNCHANGED <<family, defs, roots, committed, patches, linear, nonlinear>>

Init ==
  /\ family \in Families
  /\ defs = <<>> /\ roots = <<>> /\ pinned = {} /\ stage = "build" /\ cx = <<>>
  /\ committed = {} /\ patches = {} /\ linear = {} /\ nonlinear = {}

Next ==
  \/ \E terms \in Lists(Reach, family.shifts, family.terms) : Linear(terms)
  \/ \E operands \in Constraints : Constrain(operands)
  \/ \E pins \in family.pins : Fuse(pins)
  \/ \E d \in LinDefs : Visit(d)
  \/ Pin \/ Build \/ ApplyPatches

Spec == Init /\ [][Next]_vars
------------------------------------------------------------------------------
(* Linear forms: which bits of the opaque wire each bit of a word sums.      *)
Add(A, B) == [i \in Bits |-> (A[i] \ B[i]) \cup (B[i] \ A[i])]
TermForm(t, F) ==
  LET m == SeqMap(t.seq) IN [i \in Bits |-> IF m[i] = Gone THEN {} ELSE F[t.wire][m[i]]]
OperandForm(o, F) == FoldLeft(LAMBDA sum, t : Add(sum, TermForm(t, F)), [i \in Bits |-> {}], o)

(* What every wire is by the definitions the circuit was built with. *)
Forms ==
  LET f[w \in 0..Len(defs)] == IF w = 0 THEN [i \in Bits |-> {i}]
                             ELSE OperandForm(defs[w], f)
  IN  [w \in 0..Len(defs) |-> f[w]]

NewOperands == UNION {{x[2][o] : o \in DOMAIN x[2]} : x \in nonlinear}
Mentioned(o) == {o[i].wire : i \in DOMAIN o}
Defined == {x[1] : x \in linear}

TypeOK ==
  /\ stage \in {"build", "decide", "patch", "apply", "done"}
  /\ committed \subseteq LinDefs
  /\ \A e \in DOMAIN cx : /\ cx[e].depth <= Len(defs)
                          /\ cx[e].shifts.len \in 0..LOWERED_SHIFT_SLOTS
  /\ \A x \in linear : x[1] \in LinDefs

PatchTerms == UNION {UNION {Range(o) : o \in IF p.kind = "root" THEN Range(p.added) ELSE {p.added}} :
                       p \in patches}

(* The commit set keeps every definition the patches could not inline: no    *)
(* term ever needs a third shift, whatever paths a definition is read over   *)
(* (commit_set.rs:139-141, 206-208, 358-444; patch.rs:300-318).              *)
NeverOverBudget == \A t \in PatchTerms : t.seq.kind = "Seq"

(* What the patches spell passes ConstraintSystem::validate: the identity    *)
(* one way, a lone shift in the inner slot, and two shifts only where no     *)
(* single shift would do (core shift.rs:714-729, system.rs:370-412).         *)
TermsCanonical == \A t \in PatchTerms : t.seq.kind = "Seq" => Faultless(t.seq)

(* No slot is wasted and no zero is kept: two shifts the composition keeps   *)
(* apart are no single shift, nor zero, whatever the word (core              *)
(* shift.rs:536-538).                                                        *)
NoSlotWasted ==
  \A t \in PatchTerms : t.seq.kind = "Seq" /\ ~is_identity(t.seq.outer) =>
    SeqMap(t.seq) \notin SingleMaps

(* Every constraint left, patched or not, says of the wires it mentions what *)
(* was said before, so the honest values satisfy it and an operand means the *)
(* same word (patch.rs:20-26, 283-318).                                      *)
SameMeaning ==
  stage = "done" =>
    LET F == Forms
    IN  /\ \A x \in linear : OperandForm(x[2], F) = F[x[1]]
        /\ \A x \in nonlinear : \A o \in DOMAIN x[2] :
             OperandForm(x[2][o], F) = OperandForm(roots[x[1]][o], F)

(* A wire that is still read where it matters, by a constraint that is not a *)
(* definition, by a committed definition or because it was pinned, is still  *)
(* defined: no prover may choose it freely (fusion/mod.rs:52-70,             *)
(* patch.rs:56-133).                                                         *)
StillDefined ==
  stage = "done" =>
    LET kept == UNION {Mentioned(x[2]) : x \in {y \in linear : y[1] \in committed}}
    IN  LinDefs \cap (pinned \cup kept \cup UNION {Mentioned(o) : o \in NewOperands})
          \subseteq Defined

(* Inlining is all or nothing: a definition that was inlined where something *)
(* reads it is gone, and nothing else of the circuit was lost or doubled     *)
(* (commit_set.rs:281-283, patch.rs:56-108).                                 *)
AllOrNothing ==
  stage = "done" =>
    /\ Subsumed \cap Defined \subseteq committed
    /\ \A d \in LinDefs : Cardinality({x \in linear : x[1] = d}) =
                          IF d \in committed \/ d \notin Subsumed THEN 1 ELSE 0
    /\ {x[1] : x \in nonlinear} = DOMAIN roots /\ Cardinality(nonlinear) = Len(roots)
==============================================================================
