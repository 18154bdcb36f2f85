--------------------------- MODULE CircuitCompiler ---------------------------
(* Building a circuit and compiling it (crates/frontend/src): the builder's  *)
(* calls, then constant propagation, zero propagation, common-subexpression  *)
(* and dead-code elimination, gate fusion's choice of what stays committed,  *)
(* and the allocation of scratch slots to what does not.                     *)
EXTENDS GateGraph, Functions

CONSTANTS Inputs,     \* the kinds of a circuit's declared inputs, a sequence
          Families,   \* bound: the families of circuits.  Each has the opcodes
                      \* ops, the words it names as constants literals, the
                      \* option sets options, and the most gates
          MaxPins     \* bound: wires pinned by hand or by a chip call

ASSUME InputsAssumption == Inputs \in Seq({"Inout", "Witness"})

ASSUME BoundsAssumption ==
  MaxPins \in Nat /\ \A f \in Families : f.gates \in Nat /\ f.literals \subseteq Words

VARIABLES stage,     \* "build", the pass that is next, "done" or "failed"
          family,    \* the family of the circuit
          graph,     \* the gate graph
          forced,    \* force_committed
          calls,     \* the wires of chip calls
          opts,      \* the options chosen
          source,    \* the graph as the builder left it
          uses,      \* the reader index, as last built
          work,      \* the worklist of constant propagation
          emitted,   \* the gates that emit constraints
          scratch,   \* the wires no constraint mentions
          slots      \* their slots

vars == <<stage, family, graph, forced, calls, opts, source, uses, work, emitted, scratch, slots>>

Gates    == DOMAIN graph.gates
pinned   == forced \cup calls
Inout(w) == graph.wires[w].kind = "Inout"
Internal == {w \in DOMAIN graph.wires : graph.wires[w].kind = "Internal"}

Init == /\ stage = "build" /\ family \in Families
        /\ graph = [NewGraph EXCEPT !.wires = @ \o [i \in DOMAIN Inputs |-> Wire(Inputs[i])]]
        /\ forced = {} /\ calls = {} /\ opts = {}
        /\ source = NewGraph /\ uses = <<>> /\ work = <<>>
        /\ emitted = {} /\ scratch = {} /\ slots = <<>>
------------------------------------------------------------------------------
(* The builder *)
Building == stage = "build" /\ UNCHANGED <<stage, family, opts, source, uses, work, emitted, scratch, slots>>

Emit(op, ins, n_out) ==
  /\ op \in family.ops /\ Len(graph.gates) < family.gates
  /\ graph' = EmitGate(graph, op, ins, n_out)

(* The wires a caller has in hand: the carries of iadd_32 are not returned. *)
Handed == {w \in DOMAIN graph.wires :
             \A i \in Gates : graph.gates[i].op = "Iadd32" => w # graph.gates[i].outs[2]}

NameConstant(word) ==
  /\ Building /\ UNCHANGED <<forced, calls>>
  /\ graph' = AddConstant(graph, word)

(* bxor folds what needs no gate. *)
Bxor(a, b) ==
  LET word(w) == graph.wires[w].word
  IN  /\ Building /\ UNCHANGED <<forced, calls>>
      /\ \/ a = b /\ graph' = AddConstant(graph, Zero)
         \/ /\ a # b /\ IsConst(graph, a) /\ IsConst(graph, b)
            /\ graph' = AddConstant(graph, Xor(word(a), word(b)))
         \/ /\ a # b /\ ~(IsConst(graph, a) /\ IsConst(graph, b))
            /\ \A w \in {a, b} : IsConst(graph, w) => word(w) # Zero
            /\ Emit("Bxor", <<a, b>>, 1)

Shl(a)        == Building /\ Emit("Shift", <<a>>, 1) /\ UNCHANGED <<forced, calls>>
Iadd32(a, b)  == Building /\ Emit("Iadd32", <<a, b>>, 2) /\ UNCHANGED <<forced, calls>>
CallHint(a)   == Building /\ Emit("Hint", <<a>>, 1) /\ UNCHANGED <<forced, calls>>
AssertZero(a) == Building /\ Emit("AssertZero", <<a>>, 0) /\ UNCHANGED <<forced, calls>>

(* Pinning matters for the wires that gates make. *)
Pinning(w) == Building /\ Cardinality(pinned) < MaxPins /\ w \in (Internal \cap Handed) \ pinned

ForceCommit(w) ==
  /\ Pinning(w)
  /\ forced' = forced \cup {w} /\ UNCHANGED <<graph, calls>>

(* mark_inout moves the wire to the public interface, and pins it. *)
MarkInout(w) ==
  /\ Pinning(w)
  /\ graph' = [graph EXCEPT !.wires[w] = Wire("Inout")]
  /\ forced' = forced \cup {w} /\ UNCHANGED calls

CallChip(w) ==
  /\ Pinning(w)
  /\ calls' = calls \cup {w} /\ UNCHANGED <<graph, forced>>
------------------------------------------------------------------------------
(* constant_propagation *)
Unseen(queue, more) == queue \o Select(more, Range(more) \ Range(queue))

ConstReaders(g) ==
  FoldLeft(LAMBDA queue, w : Unseen(queue, UsesOf(WireUses(g), w)), <<>>,
           Select([w \in DOMAIN g.wires |-> w], {w \in DOMAIN g.wires : IsConst(g, w)}))

Compile(o) ==
  /\ stage = "build"
  /\ opts' = o /\ source' = graph
  /\ stage' = IF o.constant_propagation THEN "constants" ELSE "zeros"
  /\ uses' = IF o.constant_propagation THEN WireUses(graph) ELSE <<>>
  /\ work' = IF o.constant_propagation THEN ConstReaders(graph) ELSE <<>>
  /\ UNCHANGED <<family, graph, forced, calls, emitted, scratch, slots>>

(* Mutant: the readers that moved are not looked at again. *)
FoldOutputOnce(s, out, word) ==
  LET interned == AddConstant(s.graph, word)
  IN  [graph |-> ReplaceWire(interned, uses, out, ConstantWire(interned, word)), work |-> s.work]

(* Readers of an output move to the constant, and are looked at again; the   *)
(* gate itself keeps its output.  The index is not rebuilt: a constant gains *)
(* readers it does not list, and those are the gates that are queued.        *)
FoldOutput(s, out, word) ==
  LET interned == AddConstant(s.graph, word)
      moved == ReplaceWire(interned, uses, out, ConstantWire(interned, word))
  IN  [graph |-> moved,
       work |-> IF moved = interned THEN s.work ELSE Unseen(s.work, UsesOf(uses, out))]

FoldGate ==
  LET gate == graph.gates[Head(work)]
      words == [k \in DOMAIN gate.ins |-> graph.wires[gate.ins[k]].word]
      start == [graph |-> graph, work |-> Tail(work)]
      folded == FoldLeft(LAMBDA s, k : FoldOutput(s, gate.outs[k], Result(gate.op, words)[k]),
                         start, [k \in DOMAIN gate.outs |-> k])
  IN  /\ stage = "constants" /\ work # <<>>
      /\ IF \E w \in Range(gate.ins) : ~IsConst(graph, w)
         THEN work' = Tail(work) /\ UNCHANGED <<stage, graph>>
         ELSE IF ~Holds(gate.op, words)
         THEN stage' = "failed" /\ UNCHANGED <<graph, work>>
         ELSE graph' = folded.graph /\ work' = folded.work /\ UNCHANGED stage
      /\ UNCHANGED <<family, forced, calls, opts, source, uses, emitted, scratch, slots>>

FoldDone ==
  /\ stage = "constants" /\ work = <<>>
  /\ stage' = "zeros"
  /\ UNCHANGED <<family, graph, forced, calls, opts, source, uses, work, emitted, scratch, slots>>
------------------------------------------------------------------------------
(* zero_propagation *)
(* Mutant: the operand that is kept is the first, whichever is zero. *)
ZeroIdentityFirst(g, gate) ==
  LET isZero(w) == g.wires[w] = Constant(Zero)
      zero == ConstantWire(g, Zero)
      other == gate.ins[1]
  IN  IF Range(gate.outs) \cap pinned # {} \/ ~\E w \in Range(gate.ins) : isZero(w) THEN <<>>
      ELSE CASE gate.op = "Shift"  -> <<<<gate.outs[1], zero>>>>
             [] gate.op = "Bxor"   -> <<<<gate.outs[1], other>>>>
             [] gate.op = "Iadd32" -> <<<<gate.outs[1], other>>, <<gate.outs[2], zero>>>>
             [] OTHER              -> <<>>

(* Where a gate's outputs move to when a zero operand makes it the identity. *)
ZeroIdentity(g, gate) ==
  LET isZero(w) == g.wires[w] = Constant(Zero)
      zero == ConstantWire(g, Zero)
      other == gate.ins[IF isZero(gate.ins[Len(gate.ins)]) THEN 1 ELSE 2]
  IN  IF Range(gate.outs) \cap pinned # {} \/ ~\E w \in Range(gate.ins) : isZero(w) THEN <<>>
      ELSE CASE gate.op = "Shift"  -> <<<<gate.outs[1], zero>>>>
             [] gate.op = "Bxor"   -> <<<<gate.outs[1], other>>>>
             [] gate.op = "Iadd32" -> <<<<gate.outs[1], other>>, <<gate.outs[2], zero>>>>
             [] OTHER              -> <<>>

HasZero(g) == Constant(Zero) \in Range(g.wires)

(* One sweep: the index is built, the forwardings are gathered, and then     *)
(* they are made, in gate order.                                             *)
Sweep(g) ==
  FoldLeft(LAMBDA h, pair : ReplaceWire(h, WireUses(g), pair[1], pair[2]), g,
           FlattenSeq([i \in DOMAIN g.gates |-> ZeroIdentity(g, g.gates[i])]))

(* Mutant: one sweep is thought enough. *)
ZeroSweepOnce ==
  /\ stage = "zeros" /\ opts.zero_propagation /\ HasZero(graph)
  /\ graph' = Sweep(graph)
  /\ uses' = WireUses(graph)
  /\ stage' = "eliminate"
  /\ UNCHANGED <<family, forced, calls, opts, source, work, emitted, scratch, slots>>

ZeroSweep ==
  /\ stage = "zeros" /\ opts.zero_propagation /\ HasZero(graph)
  /\ graph' = Sweep(graph)
  /\ uses' = WireUses(graph)
  /\ stage' = IF graph' = graph THEN "eliminate" ELSE "zeros"
  /\ UNCHANGED <<family, forced, calls, opts, source, work, emitted, scratch, slots>>

ZeroSkip ==
  /\ stage = "zeros" /\ (~opts.zero_propagation \/ ~HasZero(graph))
  /\ stage' = "eliminate"
  /\ UNCHANGED <<family, graph, forced, calls, opts, source, uses, work, emitted, scratch, slots>>
------------------------------------------------------------------------------
(* dedup_gates and live_gates *)
Structure(gate) == <<gate.op, gate.ins>>
Observable(g, gate) == \E w \in Range(gate.outs) : w \in pinned \/ g.wires[w].kind = "Inout"

(* Mutant: a gate of an observable wire is collapsed like any other. *)
DedupGateAnyWire(s, i) ==
  LET canonical(w) == IF w \in DOMAIN s.remap THEN s.remap[w] ELSE w
      gate == [s.graph.gates[i] EXCEPT !.ins = [k \in DOMAIN @ |-> canonical(@[k])]]
      earlier == {j \in DOMAIN s.graph.gates :
                    j < i /\ j \notin s.dead /\ Structure(s.graph.gates[j]) = Structure(gate)}
      canon == s.graph.gates[CHOOSE j \in earlier : \A k \in earlier : j <= k]
      renamed == [s EXCEPT !.graph.gates[i] = gate]
  IN  IF earlier = {} THEN renamed
      ELSE [renamed EXCEPT !.dead = @ \cup {i},
              !.remap = [w \in DOMAIN @ \cup Range(gate.outs) |->
                 IF w \in DOMAIN @ THEN @[w]
                 ELSE canon.outs[CHOOSE k \in DOMAIN gate.outs : gate.outs[k] = w]]]

(* A gate reads canonical wires, and collapses onto the first live gate of   *)
(* its structure unless it produces a wire that must stay where it is.       *)
DedupGate(s, i) ==
  LET canonical(w) == IF w \in DOMAIN s.remap THEN s.remap[w] ELSE w
      gate == [s.graph.gates[i] EXCEPT !.ins = [k \in DOMAIN @ |-> canonical(@[k])]]
      earlier == {j \in DOMAIN s.graph.gates :
                    j < i /\ j \notin s.dead /\ Structure(s.graph.gates[j]) = Structure(gate)}
      canon == s.graph.gates[CHOOSE j \in earlier : \A k \in earlier : j <= k]
      renamed == [s EXCEPT !.graph.gates[i] = gate]
  IN  IF earlier = {} \/ Observable(s.graph, gate) THEN renamed
      ELSE [renamed EXCEPT !.dead = @ \cup {i},
              !.remap = [w \in DOMAIN @ \cup Range(gate.outs) |->
                 IF w \in DOMAIN @ THEN @[w]
                 ELSE canon.outs[CHOOSE k \in DOMAIN gate.outs : gate.outs[k] = w]]]

Dedup(g) == FoldLeft(DedupGate, [graph |-> g, remap |-> <<>>, dead |-> {}],
                     [i \in DOMAIN g.gates |-> i])

(* The least set that holds the assertions, the gates of observable wires,   *)
(* and the gates that define what a member reads.                            *)
Live(g) ==
  LET rooted(L) == \A i \in DOMAIN g.gates :
        g.gates[i].outs = <<>> \/ Observable(g, g.gates[i]) => i \in L
      closed(L) == \A i \in L, j \in DOMAIN g.gates :
        Range(g.gates[j].outs) \cap Range(g.gates[i].ins) # {} => j \in L
  IN  {i \in DOMAIN g.gates : \A L \in SUBSET DOMAIN g.gates : rooted(L) /\ closed(L) => i \in L}

Eliminate ==
  LET merged == Dedup(graph)
      cse == opts.common_subexpression_elimination
  IN  /\ stage = "eliminate"
      /\ graph' = IF cse THEN merged.graph ELSE graph
      /\ emitted' = {i \in Gates : /\ cse => i \notin merged.dead
                                   /\ opts.dead_code_elimination => i \in Live(graph')}
      /\ stage' = "lay out"
      /\ UNCHANGED <<family, forced, calls, opts, source, uses, work, scratch, slots>>
------------------------------------------------------------------------------
(* What fusion may inline: a linear definition of a wire that is not pinned. *)
Linear == {graph.gates[i].outs[1] :
             i \in {j \in emitted : graph.gates[j].op \in {"Bxor", "Shift", "Iadd32"}}} \ pinned

(* A hint emits no constraint, and every other gate one that mentions its    *)
(* inputs and its outputs; a wire that fusion inlines is mentioned no more.  *)
Constrained(inlined) ==
  (calls \cup UNION {Range(graph.gates[i].ins \o graph.gates[i].outs) :
                       i \in {j \in emitted : graph.gates[j].op # "Hint"}}) \ inlined

(* ScratchAlloc: the scratch wires that a gate mentions, in its order, and    *)
(* those it is the last to mention, in theirs.                               *)
Mentions(g, wires, i) == Select(g.gates[i].ins \o g.gates[i].outs, wires)

(* Mutant: a wire dies at the gate that mentions it first. *)
DeathsAtFirst(g, wires, i) ==
  Select([w \in DOMAIN g.wires |-> w],
         {w \in Range(Mentions(g, wires, i)) :
            \A j \in DOMAIN g.gates : j < i => w \notin Range(Mentions(g, wires, j))})

Deaths(g, wires, i) ==
  Select([w \in DOMAIN g.wires |-> w],
         {w \in Range(Mentions(g, wires, i)) :
            \A j \in DOMAIN g.gates : j > i => w \notin Range(Mentions(g, wires, j))})

(* A wire without a slot takes the one given back last, or a new one.        *)
TakeSlot(s, w) ==
  LET holding(x) == [y \in DOMAIN s.slot \cup {w} |-> IF y = w THEN x ELSE s.slot[y]]
  IN  IF w \in DOMAIN s.slot THEN s
      ELSE IF s.free = <<>> THEN [s EXCEPT !.slot = holding(s.n), !.n = @ + 1]
      ELSE [s EXCEPT !.slot = holding(Last(s.free)), !.free = Front(@)]

GiveSlot(s, w) == [s EXCEPT !.free = Append(@, s.slot[w])]

(* A gate's wires have all taken slots before those that die give theirs back. *)
VisitGate(g, wires, s, i) ==
  FoldLeft(GiveSlot, FoldLeft(TakeSlot, s, Mentions(g, wires, i)), Deaths(g, wires, i))

Slots(g, wires) ==
  LET visit(s, i) == VisitGate(g, wires, s, i)
  IN  FoldLeft(visit, [slot |-> <<>>, free |-> <<>>, n |-> 0], [i \in DOMAIN g.gates |-> i]).slot

LayOut ==
  /\ stage = "lay out"
  /\ \E inlined \in SUBSET IF opts.gate_fusion THEN Linear ELSE {} :
       scratch' = Internal \ Constrained(inlined)
  /\ slots' = Slots(graph, scratch')
  /\ stage' = "done"
  /\ UNCHANGED <<family, graph, forced, calls, opts, source, uses, work, emitted>>

Next ==
  \/ \E word \in family.literals : NameConstant(word)
  \/ \E a \in Handed :
       \/ \E b \in Handed : Bxor(a, b) \/ Iadd32(a, b)
       \/ Shl(a) \/ CallHint(a) \/ AssertZero(a)
       \/ ForceCommit(a) \/ MarkInout(a) \/ CallChip(a)
  \/ \E o \in family.options : Compile(o)
  \/ FoldGate \/ FoldDone
  \/ ZeroSweep \/ ZeroSkip
  \/ Eliminate
  \/ LayOut

Spec == Init /\ [][Next]_vars
------------------------------------------------------------------------------
OpGates(g) == {i \in DOMAIN g.gates : g.gates[i].op # "Hint"}
Declared   == {w \in DOMAIN graph.wires :
                 Inout(w) /\ \A i \in Gates : w \notin Range(graph.gates[i].outs)}
                 \cup {w \in DOMAIN graph.wires : graph.wires[w].kind = "Witness"}
Assignments(wires) == [wires -> Words]

(* A graph keeps its shape through every rewrite: constants are interned,    *)
(* every wire has one gate that makes it at most, and a gate reads only      *)
(* inputs, constants and what gates before it make, which the evaluation     *)
(* form and the forward sweep of dedup_gates rely on (ir/mod.rs, cse.rs).    *)
TypeOK ==
  /\ stage \in {"build", "constants", "zeros", "eliminate", "lay out", "done", "failed"}
  /\ emitted \subseteq Gates /\ scratch \subseteq Internal
  /\ Range(work) \subseteq Gates /\ Cardinality(Range(work)) = Len(work)
  /\ \A v, w \in DOMAIN graph.wires :
       IsConst(graph, v) /\ graph.wires[v] = graph.wires[w] => v = w
  /\ \A i \in Gates : \A w \in Range(graph.gates[i].outs) :
       /\ ~IsConst(graph, w) /\ w \notin Declared
       /\ \A j \in Gates : w \in Range(graph.gates[j].outs) => j = i
       /\ \A j \in 1..i : w \notin Range(graph.gates[j].ins)

(* No pass changes the value of any wire in an honest witness, and none      *)
(* changes whether the assertions hold: not while it is half done, and not   *)
(* by what it keeps from the constraint system.  Constant propagation gives  *)
(* up only on a circuit no honest witness satisfies.                         *)
HonestKept ==
  stage # "build" => \A f \in Assignments(Declared) :
    LET before == Values(source, DOMAIN source.gates, f)
        after == Values(graph, Gates, f)
        held == Satisfied(source, DOMAIN source.gates, before)
    IN  /\ \A w \in DOMAIN source.wires : before[w] = after[w]
        /\ held <=> Satisfied(graph, Gates, after)
        /\ stage \in {"lay out", "done"} => (held <=> Satisfied(graph, emitted, after))
        /\ stage = "failed" => ~held

(* The statements a circuit of the gates "on" proves: the values of public   *)
(* wires and of chip calls' words that some witness, with hints answered     *)
(* anyhow, extends to one that satisfies every constraint.                   *)
Public == {w \in DOMAIN source.wires : Inout(w)} \cup calls
Statements(g, on) ==
  LET reads == UNION {Range(g.gates[i].ins) : i \in on}
      loose == {w \in reads \cup Public : ~IsConst(g, w)
                  /\ \A i \in on : w \notin Range(g.gates[i].outs)}
      provable == {f \in Assignments(loose) : Satisfied(g, on, Values(g, on, f))}
  IN  {[w \in Public |-> Values(g, on, f)[w]] : f \in provable}

(* What is dropped, collapsed or rewritten leaves the statement as it was    *)
(* ("a bit-exact rewrite", dce.rs:13-15; builder/mod.rs:590-594): nothing    *)
(* becomes provable that was not.  Nothing ceases to be, either, unless two  *)
(* hints became one: two answers the prover could give are one then.         *)
StatementKept ==
  stage = "done" =>
    LET before == Statements(source, OpGates(source))
        after == Statements(graph, emitted \cap OpGates(graph))
    IN  after \subseteq before /\ (OpGates(source) = DOMAIN source.gates => after = before)

(* The evaluation form runs over a register file in which scratch wires      *)
(* share slots: it leaves every committed wire the value it has when each    *)
(* has a register of its own, and finds the same assertions to fail          *)
(* (scratch_alloc.rs; eval_form/mod.rs).                                     *)
Register(w) == IF w \in scratch THEN <<"slot", slots[w]>> ELSE <<"value", w>>
Evaluate(f) ==
  LET words(m, gate) == [k \in DOMAIN gate.ins |-> m[Register(gate.ins[k])]]
      start == [r \in {Register(w) : w \in DOMAIN graph.wires} |->
                  LET w == r[2]
                  IN  IF r[1] = "slot" THEN Zero
                      ELSE IF IsConst(graph, w) THEN graph.wires[w].word
                      ELSE IF w \in Declared THEN f[w] ELSE Zero]
      run(s, i) ==
        LET gate == graph.gates[i]
            out == Result(gate.op, words(s.mem, gate))
            target(r) == {k \in DOMAIN gate.outs : Register(gate.outs[k]) = r}
        IN  [mem |-> [r \in DOMAIN s.mem |->
                        IF target(r) = {} THEN s.mem[r] ELSE out[CHOOSE k \in target(r) : TRUE]],
             failing |-> IF Holds(gate.op, words(s.mem, gate)) THEN s.failing ELSE s.failing \cup {i}]
  IN  FoldLeft(run, [mem |-> start, failing |-> {}], [i \in Gates |-> i])

SlotsHold ==
  stage = "done" => \A f \in Assignments(Declared) :
    LET v == Values(graph, Gates, f)
        s == Evaluate(f)
    IN  /\ \A w \in DOMAIN graph.wires \ scratch : s.mem[Register(w)] = v[w]
        /\ \A i \in Gates : i \in s.failing <=> ~Satisfied(graph, {i}, v)

(* What the passes promise to remove is gone: of two gates of one structure  *)
(* the later is there for an observable wire, and no gate is left that a     *)
(* zero makes the identity, although zeros appear as zeros are moved.        *)
NothingLeft ==
  stage = "done" =>
    /\ opts.common_subexpression_elimination => \A i, j \in emitted :
         i < j /\ Structure(graph.gates[i]) = Structure(graph.gates[j])
         => Observable(graph, graph.gates[j])
    /\ opts.zero_propagation /\ opts.dead_code_elimination /\ HasZero(graph) =>
         \A i \in emitted : ZeroIdentity(graph, graph.gates[i]) = <<>>

(* Propagation reaches its fixpoint, although the index it follows is from   *)
(* before it began: no live gate reads what could have been folded, and no   *)
(* assertion is left that always fails (const_prop.rs).                      *)
ConstantsFolded ==
  stage \in {"eliminate", "lay out", "done"} /\ opts.constant_propagation =>
    \A i \in {j \in Gates : \A w \in Range(graph.gates[j].ins) : IsConst(graph, w)} :
      /\ \A j \in Live(graph) : Range(graph.gates[i].outs) \cap Range(graph.gates[j].ins) = {}
      /\ Holds(graph.gates[i].op, [k \in DOMAIN graph.gates[i].ins |->
                                     graph.wires[graph.gates[i].ins[k]].word])

(* "Force commit the given wire ... forcibly materialize wire" (builder/     *)
(* mod.rs:811-814): a wire so marked has a committed word of its own.        *)
ForcedAreCommitted == stage = "done" => forced \cap scratch = {}

(* "The build treats a call as a constraint on the words it names" (builder/ *)
(* mod.rs:304): what a call constrains is what the circuit reads, so a       *)
(* compiled circuit proves no statement its source does not.                 *)
CallsConstrain ==
  stage = "done" =>
    Statements(graph, emitted \cap OpGates(graph)) \subseteq Statements(source, OpGates(source))
==============================================================================
