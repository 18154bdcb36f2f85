---------------------------- MODULE ChipCircuits ----------------------------
(* A system of chips from its builders to its witness (crates/frontend/src/  *)
(* artifact and crates/core m4.rs): circuits are built and composed, the     *)
(* counts of instances go stale and are recomputed, the system is validated, *)
(* the main circuit is populated and every chip after it, its instances in   *)
(* tiles that worker threads take in any order, and the witness is verified. *)
EXTENDS CircuitBuilder

CONSTANTS Families,   \* bound: the families of systems, see the builder's calls
          TileSize,   \* circuit.rs: DEFAULT_PARALLEL_TILE_SIZE
          Threads     \* the workers of the thread pool

ASSUME MachineAssumption == TileSize \in Nat \ {0} /\ Threads \in Nat \ {0}

VARIABLES family,   \* the family of the system
          stage,    \* "compose", "edit", "validated", "tiles", "verify" or "done"
          builder,  \* the builder at work
          shelf,    \* the systems built before
          system,   \* the system, once it is built
          edited,   \* whether the counts may be stale
          edits,    \* how often the system was edited
          verdict,  \* what both validations said
          values,   \* the value vector of the main circuit
          pending,  \* chip -> instance -> the words passed to it
          data,     \* chip -> the words of its table
          tiles,    \* the tiles of the chip being populated
          saved,    \* the first error a tile reported
          outcome   \* how it ended

built == <<family, builder, shelf>>
vars  == <<built, stage, system, edited, edits, verdict, values, pending, data, tiles, saved, outcome>>

Chips     == DOMAIN system.chips
Callers   == {0} \cup Chips
Caller(d) == IF d = 0 THEN system.main ELSE system.chips[d]
log2_ceil(n) == CHOOSE k \in 0..n : 2^k >= n /\ \A j \in 0..k - 1 : 2^j < n
------------------------------------------------------------------------------
(* The builder's calls.  Each builder of a family is bounded by how many     *)
(* inouts and witnesses, gates, calls and chips it takes, its opcodes and    *)
(* their shifts; a gate reads the declared inputs in order, or any wires.    *)
Bound  == family.builders[Len(shelf) + 1]
Inputs == OfKinds(builder, {"Inout", "Witness"})
Building(b) ==
  /\ stage = "compose" /\ builder' = b
  /\ UNCHANGED <<family, shelf, stage, system, edited, edits, verdict, values, pending, data,
                 tiles, saved, outcome>>

Declare(kind) ==
  /\ builder.gates = <<>> /\ builder.calls = <<>>
  /\ Len(OfKinds(builder, {kind})) < IF kind = "Inout" THEN Bound.inouts ELSE Bound.witnesses
  /\ kind = "Inout" => OfKinds(builder, {"Witness"}) = <<>>
  /\ Building(AddWires(builder, kind, 1))

Operands(op) ==
  LET n == Shapes[op].n_in
  IN  IF Bound.straight THEN {ws \in {Inputs} : Len(ws) = n}
      ELSE [1..n -> Range(OfKinds(builder, {"Inout", "Witness", "Internal"}))]

Gate(op, shift) ==
  /\ op \in Bound.ops /\ Len(builder.gates) < Bound.gates
  /\ shift \in IF op = "Shift" THEN Bound.shifts ELSE {IDENTITY}
  /\ \E ins \in Operands(op) : Building(Op(builder, op, ins, shift))

Nest(s) ==
  /\ Len(builder.chips) = s.at /\ s.at < Bound.chips
  /\ Building(AddChip(builder, shelf[s.of]))

Call(c) ==
  /\ Len(builder.calls) < Bound.calls
  /\ \E ws \in [DOMAIN builder.chips[c].circuit.inout -> Range(OfKinds(builder, {"Inout", "Witness", "Internal"}))] :
       Building(call_chip(builder, c, ws))

Register == Bound.gadget /\ builder.gates = <<>> /\ builder.chips = <<>> /\ Building(register_chip(builder))

Gadget ==
  /\ Bound.gadget /\ Len(builder.gates) + Len(builder.calls) < Bound.gates /\ Inputs # <<>>
  /\ Building(build_gadget(builder, Inputs[1]))

Build ==
  LET last == Len(shelf) + 1 = Len(family.builders)
  IN  /\ stage = "compose"
      /\ builder' = NewBuilder
      /\ \E made \in {try_build_m4(builder)} :
           IF last THEN shelf' = <<>> /\ system' = made /\ stage' = "edit"
           ELSE shelf' = Append(shelf, made) /\ UNCHANGED <<system, stage>>
      /\ UNCHANGED <<family, edited, edits, verdict, values, pending, data, tiles, saved, outcome>>
------------------------------------------------------------------------------
(* The chips, their counts and the calls are public fields. *)
Edit(s) ==
  /\ stage = "edit" /\ edits < family.edits
  /\ s # system
  /\ system' = s /\ edited' = TRUE /\ edits' = edits + 1
  /\ UNCHANGED <<built, stage, verdict, values, pending, data, tiles, saved, outcome>>

WithCalls(d, calls) == IF d = 0 THEN [system EXCEPT !.main.calls = calls]
                       ELSE [system EXCEPT !.chips[d].calls = calls]
AddCall(d, c)   == LET calls == Caller(d).calls
                   IN  Edit(WithCalls(d, Append(calls, [chip_id |-> c, first_instance |-> 0, inout |-> <<>>])))
DropCall(d, k)  == Edit(WithCalls(d, RemoveAt(Caller(d).calls, k)))
MoveCall(d, k, row) == Edit(WithCalls(d, [Caller(d).calls EXCEPT ![k].first_instance = row]))
SetActive(c, n) == Edit([system EXCEPT !.chips[c].n_active = n])

Recompute ==
  /\ stage = "edit" /\ edited
  /\ \A d \in Callers : \A k \in DOMAIN Caller(d).calls : Caller(d).calls[k].chip_id \in Chips
  /\ system' = recompute_instances(system) /\ edited' = FALSE
  /\ UNCHANGED <<built, stage, edits, verdict, values, pending, data, tiles, saved, outcome>>
------------------------------------------------------------------------------
(* validate, as the frontend has it and as the core has it. *)
CallsFit(d) ==
  \A k \in DOMAIN Caller(d).calls :
    LET call == Caller(d).calls[k]
    IN  /\ call.chip_id \in Chips
        /\ Len(call.inout) <= system.chips[call.chip_id].circuit.cs.n_inout
        /\ \A i \in DOMAIN call.inout : ~operand_fault(Caller(d).circuit.cs, call.inout[i])
Forward(d) == \A k \in DOMAIN Caller(d).calls : Caller(d).calls[k].chip_id > d
Claim(s, call, n) ==
  IF s.error # "" THEN s
  ELSE IF call.first_instance # s.claimed[call.chip_id] THEN [s EXCEPT !.error = "WrongCallInstance"]
  ELSE IF s.claimed[call.chip_id] + n > USIZE_MAX THEN [s EXCEPT !.error = "TooManyInstances"]
  ELSE [s EXCEPT !.claimed[call.chip_id] = @ + n]
Unclaimed == [claimed |-> [c \in Chips |-> 0], error |-> ""]
ClaimAll(s, d, n) == FoldLeft(LAMBDA t, call : Claim(t, call, n), s, Caller(d).calls)

(* A chip's count is compared as its turn comes, and must not be zero. *)
frontend_validate ==
  LET Visit(s, c) ==
        LET n == system.chips[c].n_active
        IN  IF s.error # "" THEN s
            ELSE IF s.claimed[c] # n THEN [s EXCEPT !.error = "WrongActiveInstanceCount"]
            ELSE IF n = 0 THEN [s EXCEPT !.error = "NeverCalled"]
            ELSE ClaimAll(s, c, n)
  IN  IF \E d \in Callers : ~CallsFit(d) \/ ~Forward(d) THEN "Malformed"
      ELSE FoldLeft(Visit, ClaimAll(Unclaimed, 0, 1), [c \in Chips |-> c]).error

(* Mutant: the counts declared are not compared with the calls. *)
core_validate_claims_only ==
  IF \/ \E d \in Callers : ~cs_validate(Caller(d).circuit.cs) \/ ~CallsFit(d) \/ ~Forward(d)
  THEN "Malformed"
  ELSE FoldLeft(LAMBDA s, c : ClaimAll(s, c, system.chips[c].n_active),
                ClaimAll(Unclaimed, 0, 1), [c \in Chips |-> c]).error

core_validate ==
  LET claims == FoldLeft(LAMBDA s, c : ClaimAll(s, c, system.chips[c].n_active),
                         ClaimAll(Unclaimed, 0, 1), [c \in Chips |-> c])
  IN  IF \/ \E d \in Callers : ~cs_validate(Caller(d).circuit.cs) \/ ~CallsFit(d) \/ ~Forward(d)
      THEN "Malformed"
      ELSE IF claims.error # "" THEN claims.error
      ELSE IF \E c \in Chips : claims.claimed[c] # system.chips[c].n_active
           THEN "WrongActiveInstanceCount" ELSE ""

Validate ==
  /\ stage = "edit"
  /\ verdict' = [frontend |-> frontend_validate, core |-> core_validate]
  /\ stage' = IF frontend_validate = "" THEN "validated" ELSE "done"
  /\ outcome' = IF frontend_validate = "" THEN outcome ELSE [kind |-> "refused"]
  /\ UNCHANGED <<built, system, edited, edits, values, pending, data, tiles, saved>>
------------------------------------------------------------------------------
(* populate_wire_witness, and the chips' rows its calls are served by. *)
Filled(circuit, at, words) ==
  [p \in 1..full_len(circuit.layout) |->
     IF p <= circuit.layout.n_const THEN circuit.cs.constants[p]
     ELSE IF p - at \in DOMAIN words THEN words[p - at] ELSE {}]
FilledInout(circuit, words) ==
  Filled(circuit, circuit.layout.n_const,
         [k \in 1..circuit.layout.n_inout |-> IF k <= Len(words) THEN words[k] ELSE {}])
eval_call(d, vals, call) ==
  [i \in DOMAIN call.inout |-> eval_operand(Caller(d).circuit.layout, vals, call.inout[i])]

(* Rows of pending that caller d claims, its instances being the columns. *)
Passed(p, d, columns) ==
  FoldLeft(LAMBDA q, call :
    [q EXCEPT ![call.chip_id] = [r \in DOMAIN @ |->
       LET i == r - call.first_instance
       IN  IF i \in DOMAIN columns THEN eval_call(d, columns[i], call) ELSE @[r]]],
    p, Caller(d).calls)

n_instances(c) == 2^log2_ceil(system.chips[c].n_active)
n_hidden(c) == LET l == system.chips[c].circuit.layout IN combined_len(l) - l.n_const
(* The tiles of chip c, and its table's words, none of them written. *)
TilesOf(c) ==
  [t \in 1..(n_instances(c) + TileSize - 1) \div TileSize |->
     [state |-> "waiting", columns |-> <<>>, pc |-> 1, noted |-> NoFailure]]
(* What is next after chip c. *)
NextChip(c) ==
  IF c \in Chips
  THEN /\ tiles' = TilesOf(c) /\ stage' = "tiles"
       /\ data' = Append(data, [k \in 1..n_hidden(c) * n_instances(c) |-> {}])
  ELSE tiles' = <<>> /\ stage' = "verify" /\ data' = data

MainInputs(circuit) == circuit.layout.n_inout + circuit.layout.n_witness

FillMain(words) ==
  LET circuit == system.main.circuit
      run == evaluate(circuit.code, Filled(circuit, circuit.layout.n_const, words))
      none == [c \in Chips |-> [r \in 1..system.chips[c].n_active |-> <<>>]]
  IN  /\ stage = "validated"
      /\ values' = run.regs
      /\ IF run.total > 0
         THEN /\ stage' = "done"
              /\ outcome' = [kind |-> "failed", chip |-> 0, instance |-> 1,
                             total |-> run.total, failures |-> run.failures]
              /\ UNCHANGED <<pending, data, tiles>>
         ELSE /\ pending' = Passed(none, 0, <<run.regs>>)
              /\ NextChip(1) /\ UNCHANGED outcome
      /\ UNCHANGED <<built, system, edited, edits, verdict, saved>>
------------------------------------------------------------------------------
(* populate_batch_parallel: tiles run on the threads, each in a buffer of    *)
(* its own, and gather what they made into the table.                        *)
c_now    == Len(data)
circuit_now == system.chips[c_now].circuit
First(t) == (t - 1) * TileSize
TileWidth(t) == LET left == n_instances(c_now) - First(t) IN IF left < TileSize THEN left ELSE TileSize
Running  == {t \in DOMAIN tiles : tiles[t].state = "running"}
Tiling   == stage = "tiles" /\ UNCHANGED <<built, stage, system, edited, edits, verdict, values, pending, outcome>>

(* Padding instances repeat the last call. *)
CallData(i) == LET p == pending[c_now] IN p[IF i <= Len(p) THEN i ELSE Len(p)]

TileStart(t) ==
  /\ Tiling /\ tiles[t].state = "waiting" /\ Cardinality(Running) < Threads
  /\ tiles' = [tiles EXCEPT ![t].state = "running",
                 ![t].columns = [i \in 1..TileWidth(t) |-> FilledInout(circuit_now, CallData(First(t) + i))]]
  /\ UNCHANGED <<data, saved>>

TileExecute(t) ==
  LET tile == tiles[t]
      next == ExecuteTile(circuit_now.code[tile.pc], tile.columns, tile.noted)
  IN  /\ Tiling /\ tile.state = "running" /\ tile.pc <= Len(circuit_now.code)
      /\ tiles' = [tiles EXCEPT ![t] = [@ EXCEPT !.columns = next.columns, !.noted = next.noted, !.pc = @ + 1]]
      /\ UNCHANGED <<data, saved>>

(* Gather the hidden rows: the table holds one row per value, one column per *)
(* instance.                                                                 *)
Gathered(t, columns) ==
  [k \in DOMAIN data[c_now] |->
     LET n   == n_instances(c_now)
         row == (k - 1) \div n
         i   == ((k - 1) % n) + 1 - First(t)
     IN  IF i \in DOMAIN columns THEN columns[i][circuit_now.layout.n_const + row + 1]
         ELSE data[c_now][k]]

TileFinish(t) ==
  LET tile == tiles[t]
      failed == tile.noted.instance # {}
  IN  /\ Tiling /\ tile.state = "running" /\ tile.pc > Len(circuit_now.code)
      /\ tiles' = [tiles EXCEPT ![t].state = IF failed THEN "failed" ELSE "gathered",
                                ![t].columns = <<>>]
      /\ data' = IF failed THEN data ELSE [data EXCEPT ![c_now] = Gathered(t, tile.columns)]
      /\ saved' = IF failed /\ saved = <<>>
                  THEN <<[kind |-> "failed", chip |-> c_now,
                          instance |-> (CHOOSE i \in tile.noted.instance : TRUE) + First(t),
                          total |-> tile.noted.total, failures |-> tile.noted.failures]>>
                  ELSE saved

(* Once an error is saved, a tile may not be taken up. *)
TileSkip(t) ==
  /\ Tiling /\ tiles[t].state = "waiting" /\ saved # <<>>
  /\ tiles' = [tiles EXCEPT ![t].state = "skipped"]
  /\ UNCHANGED <<data, saved>>

(* What instance i of chip c came to: its constants and its column. *)
InstanceWords(c, i) ==
  LET circuit == system.chips[c].circuit  n == n_instances(c)
  IN  [p \in 1..full_len(circuit.layout) |->
         IF p <= circuit.layout.n_const THEN circuit.cs.constants[p]
         ELSE IF p <= combined_len(circuit.layout)
              THEN data[c][(p - circuit.layout.n_const - 1) * n + i] ELSE {}]

(* Mutant: a tile that was not taken up is awaited. *)
CollectAll ==
  /\ stage = "tiles" /\ \A t \in DOMAIN tiles : tiles[t].state \in {"gathered", "failed"}
  /\ IF saved # <<>>
     THEN stage' = "done" /\ outcome' = saved[1] /\ UNCHANGED <<pending, data, tiles>>
     ELSE /\ pending' = Passed(pending, c_now,
                          [i \in 1..system.chips[c_now].n_active |-> InstanceWords(c_now, i)])
          /\ NextChip(c_now + 1) /\ UNCHANGED outcome
  /\ UNCHANGED <<built, system, edited, edits, verdict, values, saved>>

Collect ==
  /\ stage = "tiles" /\ \A t \in DOMAIN tiles : tiles[t].state \in {"gathered", "failed", "skipped"}
  /\ IF saved # <<>>
     THEN stage' = "done" /\ outcome' = saved[1] /\ UNCHANGED <<pending, data, tiles>>
     ELSE /\ pending' = Passed(pending, c_now,
                          [i \in 1..system.chips[c_now].n_active |-> InstanceWords(c_now, i)])
          /\ NextChip(c_now + 1) /\ UNCHANGED outcome
  /\ UNCHANGED <<built, system, edited, edits, verdict, values, saved>>
------------------------------------------------------------------------------
(* verify: every instance satisfies its system, padding included, and every  *)
(* call is answered by the row it claims.                                    *)
InoutOf(c, i) == LET l == system.chips[c].circuit.layout
                 IN  SubSeq(InstanceWords(c, i), l.n_const + 1, l.n_const + l.n_inout)
Padded(words, n) == [k \in 1..n |-> IF k <= Len(words) THEN words[k] ELSE {}]
Answered(d, i, vals) ==
  \A k \in DOMAIN Caller(d).calls :
    LET call == Caller(d).calls[k]
        served == InoutOf(call.chip_id, call.first_instance + i)
    IN  served = Padded(eval_call(d, vals, call), Len(served))

verify ==
  /\ cs_verify(system.main.circuit.cs, system.main.circuit.layout, values)
  /\ \A c \in Chips : \A i \in 1..n_instances(c) :
       cs_verify(system.chips[c].circuit.cs, system.chips[c].circuit.layout, InstanceWords(c, i))
  /\ Answered(0, 1, values)
  /\ \A c \in Chips : \A i \in 1..system.chips[c].n_active : Answered(c, i, InstanceWords(c, i))

Verify ==
  /\ stage = "verify"
  /\ stage' = "done"
  /\ outcome' = [kind |-> IF verify THEN "verified" ELSE "mismatch"]
  /\ UNCHANGED <<built, system, edited, edits, verdict, values, pending, data, tiles, saved>>

Init ==
  /\ family \in Families
  /\ stage = "compose" /\ builder = NewBuilder /\ shelf = <<>>
  /\ system = [chips |-> <<>>] /\ edited = FALSE /\ edits = 0
  /\ verdict = [frontend |-> "", core |-> ""]
  /\ values = <<>> /\ pending = <<>> /\ data = <<>> /\ tiles = <<>> /\ saved = <<>>
  /\ outcome = [kind |-> ""]

Assemble ==
  \/ \E kind \in {"Inout", "Witness"} : Declare(kind)
  \/ \E op \in Bound.ops, shift \in Bound.shifts \cup {IDENTITY} : Gate(op, shift)
  \/ \E at \in 0..Bound.chips, of \in DOMAIN shelf : Nest([at |-> at, of |-> of])
  \/ \E c \in DOMAIN builder.chips : Call(c)
  \/ Register \/ Gadget \/ Build

Revise ==
  \/ \E d \in Callers, c \in 1..Len(system.chips) + 1 : AddCall(d, c)
  \/ \E d \in Callers : \E k \in DOMAIN Caller(d).calls : DropCall(d, k) \/ \E row \in 0..2 : MoveCall(d, k, row)
  \/ \E c \in Chips, n \in 0..2 : SetActive(c, n)
  \/ Recompute

Work == \E t \in DOMAIN tiles : TileStart(t) \/ TileExecute(t) \/ TileFinish(t) \/ TileSkip(t)

Next ==
  \/ stage = "compose" /\ Assemble
  \/ stage = "edit" /\ Revise
  \/ Validate
  \/ \E words \in IF stage = "validated" THEN [1..MainInputs(system.main.circuit) -> family.words] ELSE {} : FillMain(words)
  \/ Work \/ Collect \/ Verify

(* A thread that took a tile runs it to its end, and threads take what is    *)
(* waiting while there is any; the caller goes on once all tiles are in.     *)
Fairness == WF_vars(Work) /\ WF_vars(Collect)
Spec == Init /\ [][Next]_vars /\ Fairness
------------------------------------------------------------------------------
(* Properties *)
TypeOK ==
  /\ stage \in {"compose", "edit", "validated", "tiles", "verify", "done"}
  /\ \A p \in DOMAIN values : values[p] \subseteq Bits
  /\ stage \in {"tiles", "verify"} =>
       /\ Len(pending) = Len(system.chips) /\ c_now \in Callers
       /\ \A c \in Chips : Len(pending[c]) = system.chips[c].n_active
       /\ \A c \in 1..c_now : Len(data[c]) = n_hidden(c) * n_instances(c)
  /\ stage = "tiles" =>
       /\ Cardinality(Running) <= Threads
       /\ \A t \in Running : \A i \in DOMAIN tiles[t].columns :
            Len(tiles[t].columns[i]) = full_len(circuit_now.layout)

(* What the calls of a caller claim of chip c, call by call and row by row. *)
Claims(c) ==
  {cl \in UNION {{<<d, k, i>> : k \in DOMAIN Caller(d).calls,
                               i \in 1..IF d = 0 THEN 1 ELSE system.chips[d].n_active} : d \in Callers} :
     Caller(cl[1]).calls[cl[2]].chip_id = c}
RowOf(cl) == Caller(cl[1]).calls[cl[2]].first_instance + cl[3]
ClaimedOnce ==
  \A c \in Chips : /\ {RowOf(cl) : cl \in Claims(c)} = 1..system.chips[c].n_active
                   /\ Cardinality(Claims(c)) = system.chips[c].n_active
(* How often a chip is reached, however large that is. *)
Reached ==
  LET calls(d, c) == Cardinality({k \in DOMAIN Caller(d).calls : Caller(d).calls[k].chip_id = c})
      f[c \in Chips] == calls(0, c) + FoldLeft(LAMBDA n, d : n + calls(d, c) * f[d], 0, [d \in 1..c - 1 |-> d])
  IN  f

(* A system that passes validation claims every active instance exactly      *)
(* once, and no other; the frontend and the core agree, but for a chip that  *)
(* is never called; and counts that were just recomputed pass, unless a chip *)
(* is reached more often than can be counted (chip.rs:97-152, 242-261;       *)
(* m4.rs:142-248).                                                           *)
ClaimsExact ==
  stage # "compose" /\ stage # "edit" =>
    /\ verdict.frontend = "" => ClaimedOnce
    /\ verdict.core = "" => ClaimedOnce
    /\ verdict.frontend = "" <=>
         verdict.core = "" /\ \A c \in Chips : system.chips[c].n_active > 0
    /\ ~edited /\ verdict.core # "Malformed" =>
         verdict.core = IF \E c \in Chips : Reached[c] > USIZE_MAX THEN "TooManyInstances" ELSE ""
    /\ edits = 0 => verdict.core # "Malformed"

(* The words the one claimant of instance i of chip c passes; a padding      *)
(* instance repeats the last.                                                *)
Requested(c, i) ==
  LET row == IF i <= system.chips[c].n_active THEN i ELSE system.chips[c].n_active
      cl  == CHOOSE cl \in Claims(c) : RowOf(cl) = row
      vals == IF cl[1] = 0 THEN values ELSE InstanceWords(cl[1], cl[3])
  IN  eval_call(cl[1], vals, Caller(cl[1]).calls[cl[2]])
Alone(c, i) == LET circuit == system.chips[c].circuit
               IN  evaluate(circuit.code, FilledInout(circuit, Requested(c, i)))

(* Every hint that stands in for the gadget said what the gadget computes. *)
HintsTrue ==
  \A insn \in Range(system.main.circuit.code) : insn.op = "Hint" =>
    LET x == values[insn.src[1]]
        doubled == Shifted(Sh(Whole("sll"), 1), x)
    IN  values[insn.dst[1]] = Xor(x, doubled) /\ values[insn.dst[2]] = doubled

(* Every instance of a table is what its circuit comes to by itself on the   *)
(* words its one caller passes, whatever order the tiles ran in and          *)
(* whichever chips came before; a table has the least power of two of        *)
(* instances; and the witness verifies exactly when no hint said what the    *)
(* gadget it stands in for does not compute (chip.rs:294-356;                *)
(* circuit.rs:321-397; builder/mod.rs:353-446).                              *)
Served ==
  stage = "done" /\ outcome.kind \in {"verified", "mismatch"} =>
    /\ \A c \in Chips : \A i \in 1..n_instances(c) :
         /\ Alone(c, i).total = 0
         /\ \A p \in 1..combined_len(system.chips[c].circuit.layout) :
              InstanceWords(c, i)[p] = Alone(c, i).regs[p]
    /\ \A c \in Chips : n_instances(c) \div 2 < system.chips[c].n_active
    /\ outcome.kind = "verified" <=> HintsTrue

(* The constraints a gate comes to say exactly what its evaluation does: of  *)
(* all words its outputs and the wires of its own may take, they accept      *)
(* those it stores, and none when its assertion fails (gates/*.rs,           *)
(* eval_form/exec.rs:129-463).                                               *)
Determined ==
  stage = "done" /\ values # <<>> /\ Len(system.chips) = 0 /\ system.main.circuit.n_gates = 1
    /\ "Hint" \notin {insn.op : insn \in Range(system.main.circuit.code)} =>
    LET circuit == system.main.circuit
        layout  == circuit.layout
        made    == combined_len(layout) - layout.n_internal + 1..combined_len(layout)
    IN  \A ws \in [made -> Word] :
          cs_verify(circuit.cs, layout, [p \in DOMAIN values |-> IF p \in made THEN ws[p] ELSE values[p]])
            <=> outcome.kind # "failed" /\ \A p \in made : ws[p] = values[p]

(* A failure that is reported is one: the chip and the instance it names do  *)
(* not pass on the words passed to them, with that many assertions and those *)
(* first, and no instance before it in its tile fails; and a chip one of     *)
(* whose instances fails is never taken for good (batch.rs:142-161,          *)
(* circuit.rs:369-393).                                                      *)
FailureTruthful ==
  stage = "done" /\ outcome.kind = "failed" /\ outcome.chip > 0 =>
    LET alone == Alone(outcome.chip, outcome.instance)
        tile  == (outcome.instance - 1) \div TileSize
    IN  /\ alone.total > 0
        /\ outcome.total = alone.total /\ outcome.failures = alone.failures
        /\ \A i \in tile * TileSize + 1..outcome.instance - 1 : Alone(outcome.chip, i).total = 0
        /\ \A c \in 1..outcome.chip - 1 : \A i \in 1..n_instances(c) : Alone(c, i).total = 0

(* Populating ends, with a witness or an error, though tiles are skipped     *)
(* once one has failed (circuit.rs:351-393).                                 *)
Completes == stage = "tiles" ~> stage \in {"verify", "done"}
==============================================================================
