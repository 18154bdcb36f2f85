------------------------------ MODULE GateGraph ------------------------------
(* The gate graph a circuit is built into: wires, gates, and the operations  *)
(* of crates/frontend/src/ir/mod.rs that the compiler's passes rewrite it    *)
(* with.  A graph is a record of "wires", the kind of each wire, and "gates" *)
(* in the order of emission; wires and gates are numbered from one.  Of the  *)
(* opcodes there is one of each shape the passes tell apart, on words of     *)
(* Width bits that are one 32-bit half wide.                                 *)
EXTENDS Naturals, Sequences, FiniteSets, SequencesExt

CONSTANTS Width,         \* bits of a word
          HintValue(_)   \* what the prover's hint computes

ASSUME WidthAssumption == Width \in Nat \ {0}

Bits   == 0..Width - 1
Words  == [Bits -> BOOLEAN]
Zero   == [i \in Bits |-> FALSE]
AllOne == [i \in Bits |-> TRUE]

ASSUME HintAssumption == \A x \in Words : HintValue(x) \in Words

Constant(word) == [kind |-> "Constant", word |-> word]
Wire(kind)     == [kind |-> kind]
IsConst(g, w)  == g.wires[w].kind = "Constant"

(* The graph of a new builder: the all-one constant is the first wire. *)
NewGraph == [wires |-> <<Constant(AllOne)>>, gates |-> <<>>]

(* Mutant: a constant gets a wire each time it is asked for. *)
AddConstantAnew(g, word) == [g EXCEPT !.wires = Append(@, Constant(word))]

(* add_constant: constants are interned. *)
AddConstant(g, word) ==
  IF Constant(word) \in Range(g.wires) THEN g
  ELSE [g EXCEPT !.wires = Append(@, Constant(word))]
ConstantWire(g, word) == CHOOSE w \in DOMAIN g.wires : g.wires[w] = Constant(word)

(* A gate with fresh internal wires for its outputs. *)
EmitGate(g, op, ins, n_out) ==
  [wires |-> g.wires \o [i \in 1..n_out |-> Wire("Internal")],
   gates |-> Append(g.gates, [op |-> op, ins |-> ins,
                              outs |-> [i \in 1..n_out |-> Len(g.wires) + i]])]

(* What a sequence has of a set, in its order. *)
Select(seq, set) ==
  FoldLeft(LAMBDA kept, x : IF x \in set THEN Append(kept, x) ELSE kept, <<>>, seq)

(* rebuild_wire_uses: each wire's readers in gate order, as of now.  A wire  *)
(* made later has no entry, and get_wire_uses finds no reader for it.        *)
WireUses(g) == [w \in DOMAIN g.wires |->
  Select([i \in DOMAIN g.gates |-> i], {i \in DOMAIN g.gates : w \in Range(g.gates[i].ins)})]
UsesOf(uses, w) == IF w \in DOMAIN uses THEN uses[w] ELSE <<>>

(* replace_wire_with_wire: every slot of every reader the index lists. *)
ReplaceWire(g, uses, old, new) ==
  LET rewired(slots) == [i \in DOMAIN slots |-> IF slots[i] = old THEN new ELSE slots[i]]
      turned(gate) == [gate EXCEPT !.ins = rewired(@), !.outs = rewired(@)]
  IN  IF new = old THEN g
      ELSE [g EXCEPT !.gates = [i \in DOMAIN @ |->
              IF i \in Range(UsesOf(uses, old)) THEN turned(@[i]) ELSE @[i]]]
------------------------------------------------------------------------------
(* What a gate computes, and when an assertion holds.                        *)
Xor(a, b) == [i \in Bits |-> a[i] # b[i]]
Sll(a)    == [i \in Bits |-> i > 0 /\ a[i - 1]]
Carry(a, b) ==
  LET c[i \in Bits] == (a[i] /\ b[i]) \/ (i > 0 /\ c[i - 1] /\ (a[i] \/ b[i])) IN c

Result(op, x) ==
  CASE op = "Bxor"       -> <<Xor(x[1], x[2])>>
    [] op = "Shift"      -> <<Sll(x[1])>>
    [] op = "Iadd32"     -> <<Xor(Xor(x[1], x[2]), Sll(Carry(x[1], x[2]))), Carry(x[1], x[2])>>
    [] op = "Hint"       -> <<HintValue(x[1])>>
    [] op = "AssertZero" -> <<>>

Holds(op, x) == op = "AssertZero" => x[1] = Zero

(* The values of the wires when the gates numbered in "on" compute theirs,   *)
(* in gate order, and "free" gives the others'.                              *)
Values(g, on, free) ==
  LET start == [w \in DOMAIN g.wires |-> IF IsConst(g, w) THEN g.wires[w].word
                                         ELSE IF w \in DOMAIN free THEN free[w] ELSE Zero]
      compute(v, i) ==
        LET gate == g.gates[i]
            out == Result(gate.op, [k \in DOMAIN gate.ins |-> v[gate.ins[k]]])
            made == IF i \in on THEN Range(gate.outs) ELSE {}
        IN  [w \in DOMAIN v |-> IF w \in made
                                THEN out[CHOOSE k \in DOMAIN gate.outs : gate.outs[k] = w] ELSE v[w]]
  IN  FoldLeft(compute, start, [i \in DOMAIN g.gates |-> i])

Satisfied(g, on, v) ==
  \A i \in on : Holds(g.gates[i].op, [k \in DOMAIN g.gates[i].ins |-> v[g.gates[i].ins[k]]])
=============================================================================
