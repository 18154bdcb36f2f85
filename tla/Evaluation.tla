----------------------------- MODULE Evaluation -----------------------------
(* Evaluating a circuit's instructions (crates/frontend/src/eval_form): over *)
(* one value vector, or over the columns of a tile, and what is kept of the  *)
(* assertions that fail.  The registers of a column are a sequence of words. *)
EXTENDS GateKinds

CONSTANTS HintValue(_),           \* what a hint says its two outputs are
          MAX_ASSERTION_FAILURES  \* assertion.rs: 100

ASSUME EvaluationAssumption == MAX_ASSERTION_FAILURES \in Nat \ {0}

(* What an instruction stores, in the order of its destinations. *)
Results(insn, x) ==
  LET bit(cin) == IF IsMsbTrue(cin) THEN 1 ELSE 0
  IN  CASE insn.op = "Band"      -> <<x[1] \cap x[2]>>
        [] insn.op = "Bor"       -> <<x[1] \cup x[2]>>
        [] insn.op \in {"Bxor", "BxorMulti"} -> <<XorAll(x)>>
        [] insn.op = "Select"    -> <<IF IsMsbTrue(x[1]) THEN x[2] ELSE x[3]>>
        [] insn.op = "Fax"       -> <<Xor(x[1] \cap x[2], x[3])>>
        [] insn.op = "Shift"     -> <<Shifted(insn.shift, x[1])>>
        [] insn.op = "IaddCinCout" -> iadd_cin_cout(x[1], x[2], bit(x[3]))
        [] insn.op = "IaddCarry" -> <<iadd_cin_cout(x[1], x[2], 0)[2]>>
        [] insn.op = "IsubBinBout" -> isub_bin_bout(x[1], x[2], bit(x[3]))
        [] insn.op = "Imul"      -> imul(x[1], x[2])
        [] insn.op = "Bmul"      -> ghash_mul(Element(x[1], x[2]), Element(x[3], x[4]))
        [] insn.op = "Iadd32CinCout" -> iadd32_cin_cout(x[1], x[2], x[3])
        [] insn.op = "Iadd32Cout" -> iadd32_cin_cout(x[1], x[2], {})
        [] insn.op = "Hint"      -> HintValue(x[1])
        [] OTHER                 -> <<>>

Fails(insn, x) ==
  CASE insn.op = "AssertEq"      -> x[1] # x[2]
    [] insn.op = "AssertEqCond"  -> IsMsbTrue(x[1]) /\ x[2] # x[3]
    [] insn.op = "AssertZero"    -> x[1] # {}
    [] insn.op = "AssertNonZero" -> x[1] = {}
    [] insn.op = "AssertFalse"   -> IsMsbTrue(x[1])
    [] insn.op = "AssertTrue"    -> ~IsMsbTrue(x[1])
    [] OTHER                     -> FALSE

Loaded(insn, regs) == [k \in DOMAIN insn.src |-> regs[insn.src[k]]]
(* The stores come one after the other: a later destination wins. *)
Store(insn, regs, results) ==
  FoldLeft(LAMBDA r, k : [r EXCEPT ![insn.dst[k]] = results[k]], regs, [k \in DOMAIN insn.dst |-> k])
Executed(insn, regs) == Store(insn, regs, Results(insn, Loaded(insn, regs)))
------------------------------------------------------------------------------
(* One value vector: what is left in it, and the failures, all of them and   *)
(* the first few.                                                            *)
Capped(failures) == SubSeq(failures, 1, IF Len(failures) < MAX_ASSERTION_FAILURES
                                        THEN Len(failures) ELSE MAX_ASSERTION_FAILURES)
evaluate(code, regs) ==
  LET run == FoldLeft(LAMBDA s, insn :
               [regs |-> Executed(insn, s.regs),
                failures |-> IF Fails(insn, Loaded(insn, s.regs))
                             THEN Append(s.failures, insn.path) ELSE s.failures],
               [regs |-> regs, failures |-> <<>>], code)
  IN  [regs |-> run.regs, total |-> Len(run.failures), failures |-> Capped(run.failures)]

(* A tile: what is noted of the failures of its columns. *)
NoFailure == [instance |-> {}, total |-> 0, failures |-> <<>>]

(* Mutant: a lower failing instance inherits what a higher one left. *)
NoteKeepingCounts(noted, instance, path) ==
  IF noted.instance # {} /\ \E min \in noted.instance : instance > min THEN noted
  ELSE [instance |-> {instance}, total |-> noted.total + 1,
        failures |-> Capped(Append(noted.failures, path))]

NoteFailure(noted, instance, path) ==
  LET lower == noted.instance = {} \/ \E min \in noted.instance : instance < min
      kept  == IF lower THEN NoFailure ELSE noted
  IN  IF ~lower /\ instance \notin noted.instance THEN noted
      ELSE [instance |-> {instance}, total |-> kept.total + 1,
            failures |-> Capped(Append(kept.failures, path))]

(* One instruction over every column of a tile, in order. *)
ExecuteTile(insn, columns, noted) ==
  [columns |-> [i \in DOMAIN columns |-> Executed(insn, columns[i])],
   noted   |-> FoldLeft(LAMBDA n, i : IF Fails(insn, Loaded(insn, columns[i]))
                                      THEN NoteFailure(n, i, insn.path) ELSE n,
                        noted, [i \in DOMAIN columns |-> i])]
==============================================================================
