------------------------------ MODULE GateKinds ------------------------------
(* What each opcode is (crates/frontend/src/gates): the constraints it comes *)
(* to, over the wires of the gate, and the instructions that evaluate it.    *)
(* A gate g has its opcode op, its wires consts, ins, outs, aux and scratch, *)
(* and the shift its immediates name.                                        *)
EXTENDS Words

T(w)        == [wire |-> w, shift |-> IDENTITY]
By(w, v, n) == [wire |-> w, shift |-> Sh(v, n)]
sll(w)      == By(w, Whole("sll"), 1)
sll32(w)    == By(w, Halves("sll"), 1)
srl_msb(w)  == By(w, Whole("slr"), Width - 1)
srl32_msb(w) == By(w, Halves("slr"), Half - 1)
sar_msb(w)  == By(w, Whole("sar"), Width - 1)

(* ConstraintBuilder: a linear constraint defines its last wire. *)
C(kind, operands)  == [kind |-> kind, operands |-> operands]
zero(val)          == C("zero", <<val>>)
linear(rhs, dst)   == C("zero", <<Append(rhs, T(dst))>>)
and(a, b, c)       == C("and", <<a, b, c>>)
I(op, dst, src)    == [op |-> op, dst |-> dst, src |-> src]

OpcodeShape(consts, n_in, n_out, n_aux, n_scratch) ==
  [consts |-> consts, n_in |-> n_in, n_out |-> n_out, n_aux |-> n_aux, n_scratch |-> n_scratch]
Plainly(n_in, n_out) == OpcodeShape(<<>>, n_in, n_out, 0, 0)
Shapes ==
  [Band |-> Plainly(2, 1), Bor |-> Plainly(2, 1), Bxor |-> Plainly(2, 1), Fax |-> Plainly(3, 1),
   BxorMulti |-> Plainly(3, 1),  \* its dimension is how many inputs it has
   Select |-> Plainly(3, 1), Shift |-> Plainly(1, 1), Iadd32 |-> Plainly(2, 2),
   Iadd32CinCout |-> Plainly(3, 2), IaddCinCout |-> Plainly(3, 2),
   IsubBinBout |-> OpcodeShape(<<ALL_ONE>>, 3, 2, 0, 0),
   Imul |-> Plainly(2, 2), Bmul |-> Plainly(4, 2),
   IcmpEq |-> OpcodeShape(<<ALL_ONE, MSB_ONE>>, 2, 1, 1, 1),
   IcmpUlt |-> OpcodeShape(<<ALL_ONE>>, 2, 1, 0, 1),
   AssertEq |-> Plainly(2, 0), AssertEqCond |-> Plainly(3, 0), AssertZero |-> Plainly(1, 0),
   AssertFalse |-> Plainly(1, 0), AssertTrue |-> OpcodeShape(<<ALL_ONE>>, 1, 0, 0, 0),
   AssertNonZero |-> OpcodeShape(<<ALL_ONE>>, 1, 0, 1, 0),
   Hint |-> Plainly(1, 2)]  \* the shape of the gadget the hint stands in for
Kind(constrain, emit) == [constrain |-> constrain, emit |-> emit]
------------------------------------------------------------------------------
Band(g) == Kind(
  <<and(<<T(g.ins[1])>>, <<T(g.ins[2])>>, <<T(g.outs[1])>>)>>,
  <<I("Band", g.outs, g.ins)>>)

Bor(g) == Kind(
  <<and(<<T(g.ins[1])>>, <<T(g.ins[2])>>, <<T(g.ins[1]), T(g.ins[2]), T(g.outs[1])>>)>>,
  <<I("Bor", g.outs, g.ins)>>)

Bxor(g) == Kind(
  <<linear(<<T(g.ins[1]), T(g.ins[2])>>, g.outs[1])>>,
  <<I("Bxor", g.outs, g.ins)>>)

BxorMulti(g) == Kind(
  <<linear([k \in DOMAIN g.ins |-> T(g.ins[k])], g.outs[1])>>,
  <<I("BxorMulti", g.outs, g.ins)>>)

Fax(g) == Kind(
  <<and(<<T(g.ins[1])>>, <<T(g.ins[2])>>, <<T(g.outs[1]), T(g.ins[3])>>)>>,
  <<I("Fax", g.outs, g.ins)>>)

Select(g) == Kind(
  <<C("bmul", <<<<srl_msb(g.ins[1])>>, <<>>, <<T(g.ins[2]), T(g.ins[3])>>, <<>>,
                <<T(g.outs[1]), T(g.ins[3])>>, <<>>>>)>>,
  <<I("Select", g.outs, g.ins)>>)

ShiftGate(g) == Kind(
  <<linear(<<IF is_identity(g.shift) THEN T(g.ins[1])
             ELSE [wire |-> g.ins[1], shift |-> g.shift]>>, g.outs[1])>>,
  <<I("Shift", g.outs, g.ins)>>)

IcmpEq(g) ==
  LET all_one == g.consts[1]  msb_one == g.consts[2]  cin == sll(g.outs[1])
  IN  Kind(
    <<and(<<T(g.ins[1]), T(g.ins[2]), cin>>, <<T(all_one), cin>>,
          <<cin, T(g.outs[1]), T(msb_one)>>)>>,
    <<I("Bxor", g.scratch, g.ins),
      I("IaddCarry", g.aux, <<all_one>> \o g.scratch),
      I("Bxor", g.outs, g.aux \o <<msb_one>>)>>)

IcmpUlt(g) ==
  LET all_one == g.consts[1]  borrow == sll(g.outs[1])
  IN  Kind(
    <<and(<<T(g.ins[1]), T(all_one), borrow>>, <<T(g.ins[2]), borrow>>, <<T(g.outs[1]), borrow>>)>>,
    <<I("Bxor", g.scratch, <<g.ins[1], all_one>>),
      I("IaddCarry", g.outs, g.scratch \o <<g.ins[2]>>)>>)

Iadd32(g) ==
  LET carried == sll32(g.outs[2])
  IN  Kind(
    <<and(<<T(g.ins[1]), carried>>, <<T(g.ins[2]), carried>>, <<T(g.outs[2]), carried>>),
      linear(<<T(g.ins[1]), T(g.ins[2]), carried>>, g.outs[1])>>,
    <<I("Iadd32Cout", g.outs, g.ins)>>)

(* The full adders and the full subtractor share a form: x is the operand as *)
(* the carry chain takes it.                                                 *)
Chain(g, x, carried, bit, op) == Kind(
  <<and(x \o <<carried, bit>>, <<T(g.ins[2]), carried, bit>>, <<T(g.outs[2]), carried, bit>>),
    linear(<<T(g.ins[1]), T(g.ins[2]), carried, bit>>, g.outs[1])>>,
  <<I(op, g.outs, g.ins)>>)

Iadd32CinCout(g) ==
  Chain(g, <<T(g.ins[1])>>, sll32(g.outs[2]), srl32_msb(g.ins[3]), "Iadd32CinCout")

(* Mutant: the carry in is not moved to the lowest bit. *)
IaddCinUnmoved(g) == Chain(g, <<T(g.ins[1])>>, sll(g.outs[2]), T(g.ins[3]), "IaddCinCout")

IaddCinCout(g) == Chain(g, <<T(g.ins[1])>>, sll(g.outs[2]), srl_msb(g.ins[3]), "IaddCinCout")

IsubBinBout(g) ==
  Chain(g, <<T(g.consts[1]), T(g.ins[1])>>, sll(g.outs[2]), srl_msb(g.ins[3]), "IsubBinBout")

(* The outputs are the high word and the low word; the constraint names the  *)
(* low one first.                                                            *)
Imul(g) == Kind(
  <<C("imul", <<<<T(g.ins[1])>>, <<T(g.ins[2])>>, <<T(g.outs[2])>>, <<T(g.outs[1])>>>>)>>,
  <<I("Imul", g.outs, g.ins)>>)

Bmul(g) == Kind(
  <<C("bmul", [k \in 1..6 |-> <<T((g.ins \o g.outs)[k])>>])>>,
  <<I("Bmul", g.outs, g.ins)>>)
------------------------------------------------------------------------------
AssertEq(g) == Kind(
  <<zero(<<T(g.ins[1]), T(g.ins[2])>>)>>, <<I("AssertEq", <<>>, g.ins)>>)

AssertEqCond(g) == Kind(
  <<and(<<T(g.ins[1]), T(g.ins[2])>>, <<sar_msb(g.ins[3])>>, <<>>)>>,
  <<I("AssertEqCond", <<>>, <<g.ins[3], g.ins[1], g.ins[2]>>)>>)

AssertZero(g) == Kind(
  <<zero(<<T(g.ins[1])>>)>>, <<I("AssertZero", <<>>, g.ins)>>)

AssertFalse(g) == Kind(
  <<zero(<<sar_msb(g.ins[1])>>)>>, <<I("AssertFalse", <<>>, g.ins)>>)

AssertTrue(g) == Kind(
  <<zero(<<sar_msb(g.ins[1]), T(g.consts[1])>>)>>, <<I("AssertTrue", <<>>, g.ins)>>)

AssertNonZero(g) ==
  LET all_one == g.consts[1]  cout == g.aux[1]  cin == sll(cout)
  IN  Kind(
    <<and(<<T(g.ins[1]), cin>>, <<T(all_one), cin>>, <<cin, T(cout)>>),
      zero(<<sar_msb(cout), T(all_one)>>)>>,
    <<I("IaddCarry", g.aux, <<all_one, g.ins[1]>>),
      I("AssertNonZero", <<>>, g.aux)>>)

(* A hint constrains nothing. *)
Hint(g) == Kind(<<>>, <<I("Hint", g.outs, g.ins)>>)

GateKind(g) ==
  CASE g.op = "Band" -> Band(g)          [] g.op = "Bxor" -> Bxor(g)
    [] g.op = "BxorMulti" -> BxorMulti(g) [] g.op = "Bor" -> Bor(g)
    [] g.op = "Fax" -> Fax(g)            [] g.op = "Select" -> Select(g)
    [] g.op = "IaddCinCout" -> IaddCinCout(g)     [] g.op = "Iadd32" -> Iadd32(g)
    [] g.op = "Iadd32CinCout" -> Iadd32CinCout(g) [] g.op = "IsubBinBout" -> IsubBinBout(g)
    [] g.op = "Imul" -> Imul(g)          [] g.op = "Bmul" -> Bmul(g)
    [] g.op = "Shift" -> ShiftGate(g)    [] g.op = "IcmpUlt" -> IcmpUlt(g)
    [] g.op = "IcmpEq" -> IcmpEq(g)      [] g.op = "AssertEq" -> AssertEq(g)
    [] g.op = "AssertZero" -> AssertZero(g)     [] g.op = "AssertNonZero" -> AssertNonZero(g)
    [] g.op = "AssertFalse" -> AssertFalse(g)   [] g.op = "AssertTrue" -> AssertTrue(g)
    [] g.op = "AssertEqCond" -> AssertEqCond(g) [] g.op = "Hint" -> Hint(g)
==============================================================================
