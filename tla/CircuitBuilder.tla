--------------------------- MODULE CircuitBuilder ---------------------------
(* What a circuit builder holds and what it makes of it                      *)
(* (crates/frontend/src/builder, ir, pass/layout): the gate graph and the    *)
(* chips and calls beside it; the compiled circuit, its values laid out by   *)
(* segment and its instructions over their positions; and the system of      *)
(* chips.  The options leave every optimising pass and scratch pooling off.  *)
EXTENDS Evaluation, ConstraintSystem

(* Wires are numbered from one, in the order they are made. *)
Wire(kind)     == [kind |-> kind, word |-> {}]
ConstantOf(w)  == [kind |-> "Constant", word |-> w]
NewBuilder     == [wires |-> <<ConstantOf(ALL_ONE)>>, gates |-> <<>>, chips |-> <<>>,
                   calls |-> <<>>, gadget |-> <<>>]
OfKinds(b, kinds) == SelectSeq([w \in DOMAIN b.wires |-> w], LAMBDA w : b.wires[w].kind \in kinds)
AddWires(b, kind, n) == [b EXCEPT !.wires = @ \o [k \in 1..n |-> Wire(kind)]]

InternConstant(b, word) ==
  IF ConstantOf(word) \in Range(b.wires) THEN b
  ELSE [b EXCEPT !.wires = Append(@, ConstantOf(word))]
ConstantWire(b, word) == CHOOSE w \in DOMAIN b.wires : b.wires[w] = ConstantOf(word)

(* The outputs exist when the gate is emitted; what its shape adds follows. *)
Grown(interned, shape, gate) ==
  LET n == Len(interned.wires)
  IN  [AddWires(AddWires(interned, "Internal", shape.n_aux), "Scratch", shape.n_scratch)
         EXCEPT !.gates = Append(@, gate @@
           [consts  |-> [k \in DOMAIN shape.consts |-> ConstantWire(interned, shape.consts[k])],
            aux     |-> [k \in 1..shape.n_aux |-> n + k],
            scratch |-> [k \in 1..shape.n_scratch |-> n + shape.n_aux + k]])]
EmitGate(b, op, ins, outs, shift) ==
  Grown(FoldLeft(InternConstant, b, Shapes[op].consts), Shapes[op],
        [op |-> op, ins |-> ins, outs |-> outs, shift |-> shift])

(* A builder method: fresh outputs and the gate that computes them. *)
Op(b, op, ins, shift) ==
  LET n == Shapes[op].n_out
  IN  EmitGate(AddWires(b, "Internal", n), op, ins, [k \in 1..n |-> Len(b.wires) + k], shift)
------------------------------------------------------------------------------
(* compile *)
Kinds(b)       == [k \in DOMAIN b.gates |-> GateKind(b.gates[k])]
Constraints(kinds) == FlattenSeq([k \in DOMAIN kinds |-> kinds[k].constrain])
Terms(constraints) == FlattenSeq(FlattenSeq([k \in DOMAIN constraints |-> constraints[k].operands]))
CalledWires(b) == UNION {Range(b.calls[k].inout) : k \in DOMAIN b.calls}

(* The segment of a wire that a gate made: only what a constraint or a call  *)
(* mentions is committed.                                                    *)
Internals(b, used) == SelectSeq(OfKinds(b, {"Internal", "Scratch"}), LAMBDA w : w \in used)
Scratches(b, used) == SelectSeq(OfKinds(b, {"Internal", "Scratch"}), LAMBDA w : w \notin used)

Numbered(segment, wires) == [w \in Range(wires) |->
  ValueIndex(segment, (CHOOSE k \in DOMAIN wires : wires[k] = w) - 1)]
Mapping(b, used) ==
  Numbered("Constant", OfKinds(b, {"Constant"})) @@ Numbered("InOut", OfKinds(b, {"Inout"}))
  @@ Numbered("Private", OfKinds(b, {"Witness"}) \o Internals(b, used))
  @@ Numbered("Scratch", Scratches(b, used))

Layout(b, used) ==
  [n_const |-> Len(OfKinds(b, {"Constant"})), n_inout |-> Len(OfKinds(b, {"Inout"})),
   n_witness |-> Len(OfKinds(b, {"Witness"})), n_internal |-> Len(Internals(b, used)),
   n_scratch |-> Len(Scratches(b, used))]

(* Terms over the constant zero are dropped. *)
LowerOperand(b, mapping, operand) ==
  LET kept == SelectSeq(operand, LAMBDA t : b.wires[t.wire] # ConstantOf({}))
  IN  [k \in DOMAIN kept |-> [value |-> mapping[kept[k].wire], seq |-> Lone(kept[k].shift)]]

Emitted(b, kinds, row) ==
  FlattenSeq([k \in DOMAIN kinds |->
    [j \in DOMAIN kinds[k].emit |->
       LET insn == kinds[k].emit[j]
       IN  [op |-> insn.op, shift |-> b.gates[k].shift, path |-> k,
            dst |-> [i \in DOMAIN insn.dst |-> row[insn.dst[i]]],
            src |-> [i \in DOMAIN insn.src |-> row[insn.src[i]]]]]])

Assembled(b, kinds, constraints, mapping, layout) ==
  [layout |-> layout, mapping |-> mapping, inout |-> OfKinds(b, {"Inout"}), n_gates |-> Len(kinds),
   code |-> Emitted(b, kinds, [w \in DOMAIN mapping |-> word_offset(layout, mapping[w])]),
   cs |-> [constants |-> [k \in DOMAIN OfKinds(b, {"Constant"}) |-> b.wires[OfKinds(b, {"Constant"})[k]].word],
           n_inout |-> layout.n_inout, n_private |-> layout.n_witness + layout.n_internal,
           constraints |-> [k \in DOMAIN constraints |->
              [kind |-> constraints[k].kind,
               operands |-> [o \in DOMAIN constraints[k].operands |->
                               LowerOperand(b, mapping, constraints[k].operands[o])]]]]]

Committing(b, kinds, constraints, used) ==
  Assembled(b, kinds, constraints, Mapping(b, used), Layout(b, used))
Constrained(b, kinds, constraints) ==
  Committing(b, kinds, constraints, {t.wire : t \in Range(Terms(constraints))} \cup CalledWires(b))
CompileGates(b, kinds) == Constrained(b, kinds, Constraints(kinds))
Compile(b) == CompileGates(b, Kinds(b))
------------------------------------------------------------------------------
(* A system of chips: a circuit and its calls, main first, and how many      *)
(* active instances each chip has.  Chips are numbered from one.             *)
CONSTANT USIZE_MAX

ASSUME UsizeAssumption == USIZE_MAX \in Nat

SaturatingAdd(a, b) == IF a + b > USIZE_MAX THEN USIZE_MAX ELSE a + b

(* Calls in order: each claims as many instances as its caller has. *)
ClaimCalls(claimed, calls, n_active) ==
  FoldLeft(LAMBDA s, call :
    [claimed |-> [s.claimed EXCEPT ![call.chip_id] = SaturatingAdd(@, n_active)],
     calls |-> Append(s.calls, [call EXCEPT !.first_instance = s.claimed[call.chip_id]])],
    [claimed |-> claimed, calls |-> <<>>], calls)

recompute_instances(system) ==
  LET n == Len(system.chips)
      main == ClaimCalls([c \in 1..n |-> 0], system.main.calls, 1)
  IN  FoldLeft(LAMBDA s, c :
        LET next == ClaimCalls(s.claimed, s.system.chips[c].calls, s.claimed[c])
        IN  [claimed |-> next.claimed,
             system  |-> [s.system EXCEPT !.chips[c].calls = next.calls,
                                          !.chips[c].n_active = s.claimed[c]]],
        [claimed |-> main.claimed, system |-> [system EXCEPT !.main.calls = main.calls]],
        [c \in 1..n |-> c]).system

SystemOf(b, circuit) ==
  LET plain(w) == <<[value |-> circuit.mapping[w], seq |-> Plain]>>
      calls == [k \in DOMAIN b.calls |->
                  [chip_id |-> b.calls[k].chip, first_instance |-> 0,
                   inout |-> [i \in DOMAIN b.calls[k].inout |-> plain(b.calls[k].inout[i])]]]
  IN  recompute_instances(
        [main |-> [circuit |-> circuit, calls |-> calls],
         chips |-> [c \in DOMAIN b.chips |->
                      [circuit |-> b.chips[c].circuit, calls |-> b.chips[c].calls, n_active |-> 0]]])
try_build_m4(b) == SystemOf(b, Compile(b))

(* Mutant: a nested chip keeps the numbers it had in its own system. *)
AddChipUnmoved(b, system) ==
  [b EXCEPT !.chips = @ \o <<system.main>> \o [c \in DOMAIN system.chips |->
     [circuit |-> system.chips[c].circuit, calls |-> system.chips[c].calls]]]

(* A system joins the chips: its main takes the next number, and its chips   *)
(* the numbers after that.                                                   *)
AddChip(b, system) ==
  LET moved(calls) == [k \in DOMAIN calls |->
                         [calls[k] EXCEPT !.chip_id = @ + Len(b.chips) + 1]]
  IN  [b EXCEPT !.chips = @ \o <<[circuit |-> system.main.circuit, calls |-> moved(system.main.calls)]>>
         \o [c \in DOMAIN system.chips |->
               [circuit |-> system.chips[c].circuit, calls |-> moved(system.chips[c].calls)]]]

call_chip(b, chip, inout) == [b EXCEPT !.calls = Append(@, [chip |-> chip, inout |-> inout])]
------------------------------------------------------------------------------
(* A gadget of one input and two outputs, which it returns in the reverse of *)
(* the order it makes them: the input doubled, and its sum with that.  Each  *)
(* gate makes one wire.                                                      *)
GadgetBody(b, x) ==
  LET doubled == Len(b.wires) + 1
  IN  Op(Op(b, "Shift", <<x>>, Sh(Whole("sll"), 1)), "Bxor", <<x, doubled>>, IDENTITY)
GadgetOutputs(b) == <<Len(b.wires) + 2, Len(b.wires) + 1>>

(* Mutant: the chip's inout is taken to be in the order of its interface. *)
RegisteredUnordered(b, built, interface) ==
  [AddChip(b, built) EXCEPT
     !.gadget = <<[chip |-> Len(b.chips) + 1, inout_order |-> [k \in DOMAIN interface |-> k]]>>]

(* As a chip of its own, its inputs and outputs are inout; the order of its  *)
(* inout is that of the wires, not of the interface.                         *)
Registered(b, built, interface) ==
  LET inout == built.main.circuit.inout
      order == [k \in DOMAIN inout |-> CHOOSE i \in DOMAIN interface : interface[i] = inout[k]]
  IN  [AddChip(b, built) EXCEPT !.gadget = <<[chip |-> Len(b.chips) + 1, inout_order |-> order]>>]

register_chip(b) ==
  LET input     == AddWires(NewBuilder, "Inout", 1)
      interface == <<Len(input.wires)>> \o GadgetOutputs(input)
      marked    == [GadgetBody(input, Len(input.wires)) EXCEPT !.wires =
                      [w \in DOMAIN @ |-> IF w \in Range(interface) THEN Wire("Inout") ELSE @[w]]]
  IN  Registered(b, try_build_m4(marked), interface)

(* Built in place, or a hint and a call of its chip. *)
build_gadget(b, x) ==
  IF b.gadget = <<>> THEN GadgetBody(b, x)
  ELSE LET interface == <<x, Len(b.wires) + 1, Len(b.wires) + 2>>
           order == b.gadget[1].inout_order
       IN  call_chip(Op(b, "Hint", <<x>>, IDENTITY), b.gadget[1].chip,
                     [k \in DOMAIN order |-> interface[order[k]]])
==============================================================================
