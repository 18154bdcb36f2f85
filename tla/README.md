# A verification project for Binius64

Binius64 is a zero-knowledge proof system over binary fields. This directory
holds TLA+ specifications of the parts of it whose correctness is a matter of
*control*: which call may follow which, what is absorbed before what, who owns a
buffer, what a compiler pass may rewrite. TLC checks them on small instances and
TLAPS proves theorems about them for every value of their constants. Paths are
relative to the repository; `crates/` is left out where the crate is named.

    tlc -workers 2 -config MCChallenger.cfg MCChallenger      (any run below)
    tlapm BufferPoolProofs.tla                                (any proof module)

## 1. The system

Two proof systems share the libraries. **Binius64** proves circuits of AND, MUL
and ZERO constraints on 64-bit words; **Iron Spartan** proves `A*B = C` over
GF(2^128) in zero knowledge and carries the former's masks. A circuit is built
and compiled by the frontend, which depends on no backend; verifier crates stand
alone, and prover crates depend on them.

| part (crate) | state | operations | what is hard |
|---|---|---|---|
| challenger (`transcript`) | block buffer, index, hasher | observe bytes, sample bytes | block boundaries, mode switches, feedback of the digest |
| transcripts (`transcript`) | tape, position, challenger | message, decommitment, observe, sample, grind, finalize | two parties in step; retries on clones; reading past the end |
| buffer pool (`compute`) | free list under a mutex; handles | allocate, grow, drop, reclaim | threads; `unsafe` ownership transfer; told apart by size and alignment only |
| round merging (`iop`, `iop-prover`) | queue of oracles, committed groups | send/recv oracle, sample, open, finalize, into_inner | three independent implementations that must agree; errors that cannot be returned |
| gate graph and passes (`frontend`) | gates, wires, reader index, pins | builder calls, const_prop, zero_fold, cse, dce, fusion, layout | stale indexes; order of passes; what counts as observable |
| gate fusion (`frontend`) | linear-expression graph, commit set, patches | decide, pin, patch | decisions taken on a summary of the shifts; two shift slots per term |
| gates (`frontend`) | per opcode: constraints and instructions | constrain, emit | written twice, must agree |
| evaluation form (`frontend`) | bytecode, registers | evaluate, evaluate_batched | columns of many instances; tiles in parallel |
| chips and gadgets (`frontend`, `core`) | nested systems, calls, counts of instances | add, call, register, recompute, validate, populate | cached counts and first rows; renumbering; saturation |
| constraint system (`core`) | constraints, shifts, value vector, tables | validate, verify, serialize | boundary amounts of shifts; segments |
| Merkle trees (`iop`, `hash-prover`) | layers, caps | commit, open, verify | index arithmetic |
| BaseFold and FRI (`iop`, `iop-prover`) | committed oracles, queries, fold schedule | commit, fold, query | schedule and query arithmetic; long protocol |
| sumcheck and product checks (`ip`, `ip-prover`) | round polynomials | round, fold | algebra |
| Binius64 and M4 (`verifier`, `prover`, `m4-*`) | none beyond the channel | prove, verify | straight line |
| Iron Spartan (`spartan-*`) | wires, constraints | build, eliminate wires, prove | wire elimination |
| recursion (`recursion`) | recorded transcript | replay a verifier as a circuit | fill order of recorded values |
| zkVM slice (`zkvm-slice`) | trace, memory log | trace, sort, prove | memory argument |
| fields, math, hash, utils, circuits, examples, arith-bench | values | arithmetic, gadgets, drivers | data |

They interact by calls on one *channel* trait: a protocol sends and receives
field elements and oracles over a channel and samples challenges from it. A
channel that is not a decorator ends in a transcript, and a transcript in a
challenger. The merging channels decorate one channel with another; the dry run
of a protocol (`OracleSetupChannel`) runs it over a channel that only records.
Provers take their large buffers from the pool, on whatever thread they run.

What each part owes, and where it is checked:

* **challenger** - no challenge byte twice; how writes are cut never shows.
* **transcripts** - a challenge is the prover's exactly if all that was observed
  before was; sufficient work is accepted; a tape is read to the end, once.
* **pool** - every block has one owner; a buffer's capacity is its storage's; the
  pool stops growing when use does.
* **merging** - the dry run predicts both sides; no challenge precedes what it
  must bind; openings still mean what they meant; the sides stay in step.
* **compiler** - honest witnesses keep their values; what can be proved does not
  change; shared slots are never overwritten early; a pass finishes its work.
* **fusion** - a term's shifts fit their two slots whenever they can, and what is
  inlined means what it meant; a definition is inlined everywhere or kept.
* **gates** - the constraints of a gate accept what its instructions store, and
  nothing else.
* **chips** - a system that validates claims every row once; every row of a table
  is what its one caller asked for, whatever order tiles ran in; a failure that is
  reported is one; populating ends.
* **BaseFold, FRI and Merkle trees** - a proof by the code is accepted and read to
  its end; what is false is accepted only by the luck of the challenges; the size
  a shape is chosen by is the size of the proof.
* not yet checked: wire elimination preserving statements, memory sorting being a
  permutation, recorded values replayed in fill order.

## 2. Modules

| module | models | lines of code it stands for |
|---|---|---|
| `HasherChallenger` | the challenger, as operators on a record | `transcript/src/fiat_shamir/hasher_challenger.rs`, `buffer.rs` |
| `DuplexSponge` | abstract: the unbuffered sponge | - |
| `ChallengerMachine` | one challenger driven in every order | same |
| `HasherChallengerProofs` | lemmas about the challenger's operators | - |
| `ChallengerProofs` | theorems about `ChallengerMachine` | - |
| `Transcript` | prover, tape and verifier over two challengers | `transcript/src/transcript.rs`, `sampling.rs` |
| `TranscriptProofs` | theorems about shapes and tapes, and about challenges | - |
| `BufferPool`, `BufferPoolProofs` | the pool and its threads; theorems | `compute/src/buffer_pool.rs` |
| `RoundLayout` | the order, blocks and weights of a merged round | `iop-prover/src/channel/merge.rs`, `iop/src/channel/merge.rs` |
| `OracleMerge` | dry run, prover's and verifier's decorators | same, `iop/src/channel/{mod,oracle_setup}.rs` |
| `OracleMergeProofs` | theorems about each decorator, about the dry run, layouts and openings | - |
| `Shapes`, `DataFacts` | records in which only some fields are typed; least elements, places counted, sequences extended, folds and flattenings | - |
| `GateGraph` | wires, gates and the rewriting primitives | `frontend/src/ir/mod.rs` |
| `CircuitCompiler` | the builder and every pass in its order | `frontend/src/builder/mod.rs`, `pass/` |
| `CircuitCompilerProofs` | lemmas about graphs, values and each pass; theorems about `CircuitCompiler` | - |
| `ShiftAlgebra` | shifts of words, their composition, canonical terms | `core/src/constraint_system/shift.rs`, `frontend/src/lower/operand.rs` |
| `ShiftSummary` | the commit set's summary of the shifts on a path | `frontend/src/pass/fusion/commit_set.rs` |
| `Fusion` | the linear-expression graph, commit set, pins and patches | `frontend/src/pass/fusion/` |
| `FusionProofs` | theorems about compositions of shifts, about summaries and `Fusion` | - |
| `Words` | a word as the set of its one bits; its arithmetic | `core/src/word.rs`, `frontend/src/eval_form/exec.rs` |
| `GateKinds` | constraints and instructions of every opcode | `frontend/src/gates/` |
| `Evaluation` | instructions over columns; failures noted | `frontend/src/eval_form/` |
| `ConstraintSystem` | segments, validation and verification | `core/src/constraint_system/` |
| `CircuitBuilder` | gates to a compiled circuit; chips added and registered | `frontend/src/builder/mod.rs`, `pass/layout/` |
| `ChipCircuits` | a system built, edited, validated, populated, verified | `frontend/src/artifact/`, `core/src/constraint_system/m4.rs` |
| `SmallField` | a field of sixteen elements; multilinears | `math/src/multilinear/`, `field/src/binary_field.rs` |
| `ReedSolomon` | the transform's domain, encoding, folds of words and cosets | `math/src/{ntt,reed_solomon}`, `iop/src/fri/fold.rs`, `iop-prover/src/fri/fold.rs` |
| `MerkleTree` | the tree as laid out, openings on the tape | `hash-prover/src/binary_merkle_tree.rs`, `iop/src/merkle_tree/scheme.rs`, `*/merkle_channel.rs` |
| `FRIParams` | the choice of batch size and arities, the size of a proof | `iop/src/fri/common.rs` |
| `BaseFoldProver` | masking, commitments, sumcheck, folds, openings | `iop-prover/src/{basefold,fri}`, `ip-prover/src/sumcheck/` |
| `BaseFold` | the verifier of the same, over the prover's tape | `iop/src/{basefold,fri}`, `ip/src/sumcheck/`, `ip/src/mlecheck.rs` |
| `MC*` | constants and instances for TLC | - |

`Transcript` uses `HasherChallenger` twice (prover and verifier);
`ChallengerMachine` refines `DuplexSponge`; `OracleMerge` uses `RoundLayout` and
`CircuitCompiler` uses `GateGraph`. `Fusion` is `ShiftSummary` over `ShiftAlgebra`.
`ChipCircuits` extends `CircuitBuilder`, which extends `ConstraintSystem` and
`Evaluation`; both rest on `GateKinds`, `Words` and `ShiftAlgebra`. `BaseFold`
extends `BaseFoldProver`, which extends in turn `FRIParams`, `MerkleTree` and
(with `ReedSolomon`) `SmallField`.

**Challenger.** The hash is a free constructor, so digests are equal exactly if
what was absorbed is. The index of the Rust enum's two variants is `index` with
`mode`; `PutSlice` is a whole `put_slice` (every `advance_mut` it makes), `Draw`
one byte of `copy_to_slice` with the refill before it. The code's index of eight
bytes and its digest are single words of the stream; this keeps them apart from
observed bytes, which the fixed width of both does in the code.

**Transcript.** The prover takes any operation at any time and writes its
`script`; the verifier is *the same protocol* and replays the script, but cuts
its reads at will, may be given an altered, cut or lengthened tape, another
statement, another difficulty, and may stop early. `grind` is one step: trials
run on clones, and its loop order (lowest nonce first) is kept; how many zero
bits a trial's bytes show (`sample_bits_reader`) is the constant operator
`ZeroBits`. A short proof of work does not end the run, since a caller may go on.

**BufferPool.** `AllocVec`/`FinishAlloc` and `Drop`/`Reclaim` split each call at
the mutex. A block is a model value with size, alignment and the layout it was
allocated with. `Grow` is what `Vec` does by itself: new storage, aligned or not,
or the block extended in place.

**OracleMerge.** A script of operations is fixed by the dry run, action by
action; then the prover runs it, then the verifier over a proof that may lack
commitments. Inner channels are logs of what they were asked. Scalars and
transparent entries are names `<<k, i>>`, so a layout is checked entry by entry.
A `finalize_oracle` may come in any order once no relation is left. A group's
buffer is an `Option`, here a sequence of one or none. What the properties say of a log or
a script they say by counting: `On` is the set of places of an operation, `Upto` how
many of them lie before a place, `Nth` and `Times` pick and count.

**GateGraph and CircuitCompiler.** Words are bit functions of `Width` bits. Of
the opcodes one of each shape the passes tell apart is kept: `Bxor` (linear,
folded by the builder and by zero propagation), `Shift` by one (linear, unary),
`Iadd32` (two outputs, one linear; the carry is not handed to the caller), a hint
(no constraint) and `AssertZero` (no output). Passes rewrite the graph with the
code's own primitives, over the reader index as last built. Constant propagation
is one action per gate taken from the worklist; a zero-propagation sweep is one
action; deduplication, liveness and emission are one, being local to `compile`.
Fusion is *any* choice of linear definitions that are not pinned: that includes
what the commit set of `Fusion` picks, whose patches are checked there. Each gate's
evaluation instruction reads all its operands before it writes (`eval_form/scalar.rs`); gates of several instructions
are not among those kept. Algebraic folding and scratch pooling are on, as by
default.

**Fusion.** A shift is a variant and an amount, and what it does to a word is the
function from each bit to the bit it comes from; `SameMeaning` compares those
functions, never the shifts. `Linear` and `Constrain` are calls of the builder:
operands are lists of terms, which may repeat, and of a constraint's operands some
may be empty. The builder lists linear constraints apart from the others, so the
model takes them to come first. `LinEdges` and `RootEdges` are the graph; `Fuse`
starts the pass and seeds the roots' edges; `Visit` is one node of the
bottom-up pass that decides what is committed, over `ShiftSummary`, which keeps
what the code keeps - runs of one variant, not the shifts; `Build` and
`ApplyPatches` spell out the terms with `PushInner`. Half-word variants are half
of `Width`.

**ChipCircuits and what it extends.** `builder` is the circuit under construction,
`shelf` the systems built before it, `system` the `CircuitM4`; then come what the
validations said (`verdict`), the tables and tiles, and the `outcome`. A gate is
entered by opcode and wires, and `GateKind` gives both what `constrain` adds and what `emit_bytecode` appends.
After `Build` a caller may edit calls and active counts (`AddCall` and so on) and
forget `Recompute`: in the repository only tests edit so (`artifact/chip.rs:887`,
`constraint_system/m4.rs:521`), but the fields are public, so any caller may, and `map`
names their declarations (`artifact/chip.rs:58-92`).
`Validate` is both validations in their order; the errors it can meet before the
claims of the tables are one, `"Malformed"`. Populating
fills the main circuit, then one chip after another: `TileStart`, one
`TileExecute` per instruction *over all columns*, `TileFinish`; tiles run on
`Threads` threads in any interleaving, and once one fails the rest may be taken or
skipped (`TileSkip`, rayon's collect), the error being any failed tile's.
`Verify` is the core's check of every table and every call.

**BaseFold and what it extends.** The code is generic in its field, and the model
runs it over the least one in which the whole protocol has room: an action is one
round of the prover (`send_oracle`, `prove_oracle_relation`, `MaskStep`, a
`SumcheckRound`, `CombineStep`, a `FoldRound` with the commitment that is due in it,
`finish_proof` with all openings) or the verifier's reading of it, where each word's
openings are a step of their own. The verifier starts when the tape is complete, for the
proof is not interactive. It keeps its own count of what it observed
and drew. A step whose code would panic on an assertion is disabled, or a rejection
where the verifier would take it; no family of the run comes to one. The challenger is
a function of the seed and these counts (`Sampled`), so that two parties draw alike exactly if they asked alike, and the query indices are
*any* admissible choice, the verifier's being the prover's exactly if they asked
alike. Hashing is a free constructor. A setup is a family of oracles (message
variables, masked or not, claims), a rate and the number of queries; the shape is
`optimal_for_batch` of these, or one with given arities. A prover that cheats does
so once: it adds one to a symbol of a word before committing it (`word`), claims another
product (`claim`), or alters one scalar or digest of the openings (`advice`); all else is
as the code does it.

## 3. Runs

One run states liveness: `m4`, with weak fairness of `Work` (a thread that has a
tile runs its next instruction; rayon's threads are not stopped, and either take
waiting tiles or, once one has failed, pass over them) and of `Collect` (the
caller goes on when all tiles are in). Nothing is assumed of the caller, who may
stop building at any time. The other parts are driven by their callers alone, and
their runs assume no fairness. `CHECK_DEADLOCK FALSE` is for the same reason (a
finished protocol, a compiled circuit).

| run | bounds | shows |
|---|---|---|
| `challenger` | blocks and digests of 2, bytes 0/1, writes of up to 3, 6 calls | type, `FreshChallenges`, refinement of the sponge |
| `transcript` | 4 events, writes of up to 2, nonces up to 2, difficulties 1 and 2 | `ChallengesBind`, `WorkAccepted`, `TapeAccounted` |
| `buffer_pool` | 3 handles, 3 blocks, element sizes 1 and 2, 4 chunks | `OneOwner`, `BlocksFit`, `NoMoreThanPeak` |
| `buffer_pool_foreign` | 2 handles, 2 blocks | violation of `OnlyOurBlocks` |
| `oracle_merge` | 3 oracles of 1, 2 or 4 scalars, words of 2, scripts of 5 | the schedule, the order of challenges, layout, claims, lockstep, buffers |
| `oracle_merge_mixed` | the same | violation of `RoundsAreUniform` |
| `compile` | 1 public input, 1 pin, 2-bit words; 3 gates without constants, 2 over a constant with constant propagation, 2 with hints | `HonestKept`, `StatementKept`, `SlotsHold`, `NothingLeft`, `ConstantsFolded` |
| `compile_forced` | 2 gates with hints | violation of `ForcedAreCommitted` |
| `compile_calls` | 2 gates with hints, constant propagation on | violation of `CallsConstrain` |
| `fusion` | 6-bit words, depth 1, no growth; 3 definitions of up to 2 terms; 2, copies, a pin and up to 2 operands; 2 of up to 3 terms and up to 2 constraints; or 2 of one term and *every* shift | budgets, canonical terms, slots, meaning, definitions |
| `m4` | 4-bit words, tiles of 2 on 2 threads, 1 failure kept; every opcode alone, three levels of chips, an edit, a gadget | `ClaimsExact`, `Served`, `Determined`, `FailureTruthful`, `Completes` |
| `basefold` | 16 field elements; codewords of up to 16 places, each a symbol or an interleaved pair or more; 1 to 3 oracles; 1 or 2 queries; 4 seeds | `HonestOpens`, `CaughtWhereQueried`, `SizeAsEstimated` |

Why the bounds are enough to be worth something:

* challenger - a write of 3 with blocks of 2 ends inside, on and past a
  boundary, and 6 calls refill and turn round twice;
* transcript - the fourth event can be a challenge after a message, an
  observation and a proof of work; two nonces let one trial fail;
* pool - three threads let one hold, one wait and one race at the lock, and
  two element sizes reuse each other's blocks; handles are a symmetry set, for
  no property or action names one, and blocks are interchangeable likewise;
* merging - three oracles give a round of two sizes with a tie, or two rounds;
  words of two scalars make one oracle narrower than a word;
* compiler - three gates are the shortest chain in which a zero made by one sweep
  is met by the next, and in which a slot is reused while its first value is
  still to be read; two suffice for a fold to queue another gate. Two-bit
  words are the narrowest with a shift and a carry that are not constant;
* fusion - three definitions are the fewest with one committed, one inlined into
  it and one inlined through two consumers, and three terms fan out into two
  constraints, one of which may read nothing that was defined; a depth of one and
  no growth make the limits bite on them. Six bits are the narrowest word whose halves have shifts
  below, at and above their middle, so that each case of the composition occurs;
* chips - a leaf called through a middle chip by a main circuit that also calls it
  has one to four instances: tables of one, two and four rows, with and without
  padding; two tiles are enough for one to fail while the other runs; `USIZE_MAX` of 5 makes
  the saturating product reachable. In four bits every shift, carry and 32-bit
  gate differs from its 64-bit namesake;
* BaseFold - the families have masked, plain, lifted, unopened and constant
  oracles, none to three folds before the last word, and rates of one
  half and one quarter; a single query is looked at in every place, so that for
  every altered symbol some runs see it and some do not. Both verdicts occur for
  altered words and false claims.

Every property of a passing run has been seen to fail on a mutant, kept beside
the definition it changes and marked `Mutant`: for instance a block buffer that
drops what does not fit, a decommitment that is observed, a drop that ignores the
address, an empty round that is closed, a swap of low and high coordinates, one
sweep instead of a fixpoint, a slot freed at the first mention, a merged rotation
taken for the identity, a carry that is not shifted, counts kept from an instance
that is no longer the first to fail.

### Properties of the compiler

`HonestKept` compares, at *every* stage, the value of every wire of the source
graph under every input with its value in the graph as rewritten so far, and
whether the assertions hold. `StatementKept` is about the adversarial side: the
set of public words and chip-call words that some witness, hints answered
anyhow, makes satisfy the constraints. After the passes it is the same, except
that two hints of one shape and input become one by deduplication, after which
fewer statements are provable; so with hints only inclusion is stated (every
honest statement remains, by `HonestKept`). `SlotsHold` compares a run over
shared registers with one over separate registers.

### Properties of fusion

The commit set decides on a *summary* of the shifts along a path, the patches
spell the terms from the shifts themselves. `NeverOverBudget` says the two agree:
no term is ever asked for a third slot. The limits on depth and growth are brakes in
`Visit` and no invariant: chains of single terms are exempt from the one, and the
other weighs terms as they were before inlining.
`NoSlotWasted` and `TermsCanonical` say each term has the fewest shifts that do
what it does, and the form validation accepts. `SameMeaning` evaluates every
constraint before and after; `StillDefined` and `AllOrNothing` are about the
definitions that go: nobody reads one that went, and what stays has its own
constraint exactly once.

### Properties of chips

`Determined` quantifies over every word the outputs and the internal wires of a
gate could take: the constraints accept what the instructions store, and nothing
when the assertion fails - completeness and soundness of each gate at once.
`ClaimsExact` relates both validations to the rows that are claimed, one by one.
`Served` compares every row of every table, padding included, with its circuit run
alone on the words of its one claimant, and verification with whether the hints
were true. `FailureTruthful` does so for failures: what is reported is what that
instance alone reports, and none before it in its tile fails. `Completes` is
liveness.

### Properties of BaseFold

The two sides compute the same things differently: the prover folds whole words and
masks whole buffers, the verifier folds the cosets it opened with twiddles it
derives from an index, and both derive the rounds, windows of challenges and
indices from one schedule. `HonestOpens` says they agree on all of it. It has one
precondition, `Divides`: no coordinate of the evaluation point is one, because the
prover divides by one less the coordinate with an inverse that takes zero to zero
(`ip-prover/src/sumcheck/round_evals.rs:128`). In GF(2^128) a challenge of one has
the probability of any other guess; among sixteen elements it occurs, and the
verifier then rejects an honest proof. `CaughtWhereQueried` is exact: an altered
word is accepted if and only if, by the *whole* words, each place queried is
consistent and the last word is constant; a false claim if and only if its weight
vanishes; altered advice never. `SizeAsEstimated` compares the closed formula the
shape is chosen by with the tape written, and the choice with every other choice.

## 4. What the runs found

* `buffer_pool_foreign` - `PoolVec::drop` recognises the pool's blocks by
  alignment and length; storage that a `Vec` grew into can have both, and is then
  owned and freed with a layout it was not allocated with
  (`compute/src/buffer_pool.rs:220-236`).
* `oracle_merge_mixed` - `flush` is documented to panic on a round that mixes
  witness-dependent and structural oracles; it masks the whole round and a test
  expects that (`iop/src/channel/merge.rs:174-176`).
* `compile_forced` - a hint's output that is force-committed but that no
  constraint mentions is laid out as scratch (`frontend/src/builder/mod.rs:811-814`).
* `compile_calls` - constant propagation, which is off by default, is not given
  the pinned wires: a hint of constants is folded, its readers move to the
  constant, and a chip call is left constraining a word that nothing else
  reads (`frontend/src/builder/mod.rs:301-305`, `pass/const_prop.rs:84`).

## 5. Proofs

Each theorem holds for every value of the constants that meets the named
assumptions; TLC evaluates these on every run. Where a property is not inductive,
the invariant that is stands beside it.

| module | theorems | property of the runs | assumptions |
|---|---|---|---|
| `ChallengerProofs` | `ShapeInvariant`, `ImplementsSponge`, `ChallengesStayFresh` | `TypeOK`, `Unbuffered`, `FreshChallenges` | `LengthsAssumption` |
| `TranscriptProofs` | `TranscriptTypeCorrect`, `TapesAreAccountedFor`, `ChallengesAreBound`, `WorkIsAccepted` | `TypeOK`, `TapeAccounted`, `ChallengesBind`, `WorkAccepted` | and `BoundsAssumption` |
| `BufferPoolProofs` | `TypeInvariant`, `Ownership`, `StorageFits`, `PoolRecycles` | `TypeOK`, `OneOwner`, `BlocksFit`, `NoMoreThanPeak` | `PoolAssumption`; the last, `FiniteAssumption` |
| `OracleMergeProofs` | `OracleMergeTypeCorrect`, `RoundsComeFirst`, `BuffersForwardedOnce`, `ScheduleIsExact`; `RoundsAreLaidOut`, `OpeningsCarryOver`, `SidesStayInSync` | `TypeOK`, `ChallengesFollowRounds`, `ForwardedOnce`, `ScheduleExact`; `RoundsLaidOut`, `ClaimsCarryOver`, `InSync` | `MergeAssumption` |
| `CircuitCompilerProofs` | `CompilerTypeCorrect`, `HonestWitnessesKept`, `NothingIsLeft`, `ConstantsAreFolded`, `SlotsNeverCollide` | `TypeOK`, `HonestKept`, `NothingLeft`, `ConstantsFolded`, `SlotsHold` | `WidthAssumption`, `HintAssumption`, `InputsAssumption`, `BoundsAssumption` |
| `FusionProofs` | `ComposeMeans`, `PairIsNoSingle`; `FusionTypeCorrect`, `InliningFitsTheSlots`, `PatchesAreCanonical`, `DefinitionsSurvive`, `InliningIsAllOrNothing`, `FusionKeepsMeaning`, `SlotsAreNotWasted` | `TypeOK`, `NeverOverBudget`, `TermsCanonical`, `StillDefined`, `AllOrNothing`, `SameMeaning`, `NoSlotWasted` | `WidthAssumption`, `FusionAssumption` |

**Challenger.** Block and digest lengths are positive, whatever bytes and bounds
are. A write leaves `hasher \o buffer` extended by what was written (a lemma about
cutting a sequence at a multiple of the block length), a flush and a refill leave
it as it is or replace it by the digest, as the sponge does; the shape is what
makes each of these lemmas apply, and refinement follows. `FreshChallenges` says no byte of challenge is handed out
twice. It needs to know where all the digests of the past came from:

    FreshInv == TypeOK /\ FreshChallenges /\ \E ds, k : Handed(ds, k)

There is a chain of digests that begins with the digest of nothing and in which each
is of a non-empty input whose first element is the one before; every byte handed out is of
one of them, and of the last only bytes before the sampler's index. The hash being a
free constructor, two equal digests would be of one input, hence their predecessors equal, and
so down to the first, which no non-empty input gives: the chain has no
repetition. As the chain is not bounded, TLC cannot evaluate `Handed` and checks only what it implies.

**Transcript.** Every operation writes and reads by entries; a step extends the
script, the tape and the list of what was seen in the same way (`Plays`, one lemma for
all operations of both sides). `TapeAccounted` then counts: each recorded operation's entry
stands at the place on the tape that the recorded entries before it take up (`Taped`), so what
the verifier has read is what its position says, and the tape runs out only where
the script or the tape was cut. Strengthened with `Fresh`: a verifier has seen nothing
before it starts.

`ChallengesBind` is about two challengers whose calls were cut differently. The argument
leaves the block buffer behind: `SpongeOf` is the challenger's unbuffered view, and
`BindInv` says that each side's challenger is where a *replay* of that side's own
events leads (`Follows`), that a sampler with bytes left has fed its digest forward (`Fed`),
and that the prover's proofs of work are as `grind` judged them (`Judged`,
`Landed`). Two replays over events that agree are alike, and once an observation
differs the streams differ for good, because an absorbed digest holds everything
before it (`StepTwins`, `ReplaysAlike`); both directions of the equivalence come
out of this one lemma. `WorkAccepted` is the same lemma applied to the bytes a
trial draws: the verifier draws those, and asks for no more zero bits of them.

**BufferPool.** `PoolAssumption`: positive alignment and element sizes, and that a
request rounded up to chunks is a whole number of elements and within the bound -
which holds as the alignment and the sizes of the pooled types are powers of two,
and the code asserts as much at compile time. `TypeInvariant`, `Ownership` and
`StorageFits` follow from one inductive invariant

    Inv == TypeOK /\ OneOwner /\ BlocksFit /\ CallsOK

Ownership is not inductive by itself: a drop computes the block's size from the
capacity and shelves it under that size, so capacities must fit (`BlocksFit`), and
a call in flight must hold what its second half relies on (`CallsOK`: a popped
block is of the requested size, a returning one is whole and aligned). There is
a lemma for each action, and under the actions that move one handle a common
lemma, `HandleStep`. It holds for any number of threads, blocks and classes.

`PoolRecycles` counts blocks, so blocks and handles are finite (`FiniteAssumption`:
memory is). What it bounds by the peak is the blocks of a size *and*
the allocations on their way (`Demand`), and the invariant adds to `Inv` that
blocks of the pool's layout are aligned. A new block is asked for only when the free list of
its size is empty; then by `OneOwner` and `BlocksFit` each block of that size is busy with
a handle, so that demand is what is in use, and the peak has just been raised to it.

**OracleMerge.** Scripts have any length, rounds any number of oracles.
`MergeInv` has a part for each actor. For both decorators (`Kept`): what was
committed is the rounds closed so far, in order, and each of its oracles is due after as
many challenges as the script draws before it; and whatever is still pending is due
now (`Due`), which is what makes a flush before a sample come at the right time,
and a flush that failed harmless. For the prover also (`GroupsKept`): a group has
counted the members that were handed back, has its buffer as long as that is fewer
than all, and was forwarded exactly when it is all; the handing back of one
(`HandBackKept`) is the step in which the counter may become full, and
the case of two members finalized in any order is inside it.

`ScheduleExact` compares three implementations, of which two run after the third
is done. `ScheduleInv` describes the dry run by itself - the ends of its rounds
increase, and each is where an operation that is not an oracle follows
(`SpecsKept`, `EndsKept`) - and then says of each decorator that it closed its
rounds at these ends, one after the other, with the lengths and the masks
the dry run wrote down (`Follows`, `Masked`), up to where its rounds must have
been closed (`Behind`). A round is *one* commitment however it came to be
flushed: by the next operation, by a sample or by the end. For a verifier there is the further case that a flush
failed, after which it commits nothing any more.

The layout of a round is a lemma about each operator of `RoundLayout`, for any
number of oracles of any lengths and any packed width. `Order` sorts: the oracles that
precede one are fewer than those that precede a later one, so that their number
is a bijection (`OrderIs`). A sum over a set of powers of two that are all at least
`pow2[n]` is a multiple of it (`TotalMultiple`), so the offset of a block divides by its
length and the blocks lie end to end (`BlocksAre`, `BlocksApart`). `CombinedIs` puts
together the two ways a block is written: the appended words are the flattening
of a prefix of the order, and each narrow oracle placed afterwards touches no block but
its own. What the two sides share is then stated as an invariant of what each has
recorded:

    LayoutInv == OraclesFirst(script) /\ ProverLaid(...) /\ VerifierLaid(...)

Either side's records of a round, its log of openings and the prover's buffers are the
functions of the *dry run's* rounds that `RoundLayout` gives (`Laid`, `OpensKept`,
`BuffersKept`), up to where the script has come. `ClaimsCarryOver` compares a
prover's weights with its buffer: `BlockWeights` is not zero exactly on the block where
`Combined` put the oracle. `InSync` compares two logs that were written by two actors
at different times: as each entry is determined by its place in the script
and the dry run, the i-th request of either is the same; the buffers handed back, which only the
prover has, are left out by counting (`NAsked`).

**Compiler.** Words have any positive width, hints compute any words from words, and
circuits have any number of inputs and gates, under every choice of options.
The passes differ in what they look at, so one invariant says what each leaves for the next:

    CompilerInv ==
      /\ GraphOK(graph) /\ PublicPinned(graph) /\ Step(source, graph)
      /\ WorkOK /\ Propagating /\ ConstantsGone /\ ZerosGone /\ Eliminated
      /\ stage = "done" => slots = Slots(graph, scratch) /\ ...

`GraphOK` is the shape (constants interned, a wire made by one gate, every
internal wire made by some gate, no gate reading what a later one makes), and `Step(g, h)` that two graphs have the same
declared wires, give each wire the same value under every assignment, and have the same
assertions hold. A graph's values are a fold over its gates; `ValuesSound` shows that they
are `Sound` - each wire holds its assigned or constant word, or what its gate
computes of the values that gate reads - and `SoundUnique` that nothing else is: at the
first gate where two sound valuations differ, they read the same. All value preservation is
then local. A pass may redirect a read to a wire of equal value if it is `Ready` there, and the
old values are still sound (`RereadStep`, of which replacing a wire is the general
case).

Constant propagation follows an index of readers that no rewriting refreshes. What
saves it is `Covers`: the index may name gates that no longer read a wire, but a gate
whose read is not yet a constant is still listed. With it, a gate all of
whose inputs are constants is in the worklist or has nothing left that reads its outputs
(`FoldedOrQueued`), which is the fixpoint `ConstantsFolded` asks for when the list is
empty; and it survives the later passes because none makes a gate read a new
constant. Zero propagation computes its replacements on the graph before a sweep and
applies them one by one, where one may redirect what the next names: each
redirection goes to what is made `Lower`, so a chain of them stays in order and keeps
values (`SweepIs`), and a graph in which constants are `Settled` gets no new reads of them (`NoNewReads`). Deduplication is an invariant of its
fold (`DedupState`): a remapped wire is equal to its canonical one, dead gates are
those whose twin stays, and among the others no structure occurs twice; `Collapsed`
says that of the result. `LiveIs` gives elimination's least set as closed under reading, so
what is dropped is read by nothing that stays and is no assertion (`Kept`, `KeptHold`).

`SlotsHold` compares two evaluators, one of which overwrites. The sweep that hands out
slots keeps `SlotState`: a free slot belongs only to wires that are `Over`, mentioned by
no gate to come, and two wires of one slot are `Apart`, all mentions of one before all of
the other. A wire takes a slot before any gate so far has mentioned it (`TakeStep`), and
it returns one that nobody else still needs, because two wires that die at one gate are
both mentioned there and so hold different slots (`NeverApart`, `GiveStep`). Running the gates
then keeps `RunState`: a register holds its wire's value from the gate that makes it
until no gate to come mentions it, which is for ever when it is committed. A gate finds
its inputs (`Ready`: they are made, and it mentions them), and overwrites no wire that is
still wanted: such a wire was made, so mentioned, before the gate and is mentioned after
it, while `Apart` puts all its mentions on one side. That it was made rests on every
internal wire having a gate that makes it, which is why `GraphOK` says so.

**Fusion.** Words have any even width from four on; circuits have any number of
definitions, of one or more terms each, and any number of constraints, each of any number
of operands of any number of terms, the first of which has one: a family's bounds may be
any numbers, and so may the limits on depth and growth. Two
passes must agree that never saw the same thing: the commit set decides on a *summary*
of the shifts, runs of one variant joined over all consumers, and the patches compose the
shifts themselves. What ties them is `Held(sum, q)`: the shifts `q` a path has come to need
no more slots than the summary has runs, and their innermost is of a variant the
last run names. It holds of a single shift (`LoneHeld`); it survives the union over the consumers, which can
only add variants (`UnionHeld`); and it survives one more shift that the summary has room
for (`PushHeld`), where the case that matters is a second slot in use: the summary then
absorbs the shift only into a run of that very variant, and shifts of one variant
never stay two (`ComposeSame`). A union has room exactly as all of its
parts have (`UnionFits`).

    FusionInv == ... /\ \A e \in DOMAIN cx : Passed(e)
                     /\ \A d \in LinDefs \ committed : Inlinable(d) /\ ...

`Passed` says that what is passed along an edge holds what the term's own shift comes
to, within two slots, and `Inlinable` that what a definition passes on, unless it is
committed, is the union of *all* it was passed, with its shift; pins may only
commit more. `InlinedOK` follows the inlining from wire to wire downwards: as terms read only
wires made before, `Inlined` is well defined (`InlinedIs`), and under shifts some
consumer promised every term comes out canonical, within its slots and over a wire that is
not inlined, so that `process_term` does not panic. The other theorems
count what the lists keep: a definition is left patched if committed, as it was if
nothing was read through it, and else not at all (`LinearIs`, `NonlinearIs`).

`SameMeaning` rests on what a composed shift does. `ComposeMeans` says it of every pair and every
width: where a bit comes from is, without remainders, linear in its place and
the amounts, so each rule of `Shift::compose` is a case the solver decides. An
operand means the sum of its terms; the model sums with `FoldLeft`, and `SumExists` shows
by `FoldExists` that this fold is well defined and is the last of the partial sums that
start with nothing, so that concatenation adds (`OperandConcat`). `InlinedMeans`
then goes up the wires with `InlinedOK`: what a wire is inlined as under shifts
`q` means the wire's own form, shifted by `q`; a term that vanishes meant nothing.
`NoSlotWasted` needs the converse, `PairIsNoSingle`. By `Combines` the code's rules are
a condition on operations and amounts; where it fails, `TwiceApart` looks at a few
bits - the first and last of either half, and those beside the amounts - and at one of
them any single shift differs from the two. It is a case for each two operations and each width.

**Shared lemmas.** `HasherChallengerProofs` says of each of the challenger's
operators what it does to the stream; `DataFacts` has the facts about counting
and sequences. Induction over places is done there once, by `LeastElement`: a
nonempty set of natural numbers has a least element, or, the other way about,
`UpwardClosed`. A property of all prefixes is then proved by looking at the first
place where it fails. This needs no induction theorem with an operator as its parameter.

**Only model-checked.**

* `StatementKept` of `CircuitCompiler`. It is not true of every circuit: with
  hints and constant propagation a call may be left constraining a word nothing reads
  (`compile_calls`), and it is checked where no call is made of a hint's output.
* `ChipCircuits`: what a sequence of instructions evaluates to is a recursive function
  over data with failures on the way, and so are the meanings its properties compare.
* `BaseFold`: its field's multiplication is built on `Bitwise`, of which nothing
  can be proved here. Its properties are algebra of one given field in any case.
* `Completes`: liveness under fairness.


## 6. What is not modelled

Arithmetic of the real fields, hash functions and the gadget library are algebra on
large data: TLC cannot reach it, and the repository tests it against reference
definitions. The Binius64, M4 and Spartan provers and verifiers are straight lines
over a channel. Spartan's wire elimination, recursion and the zkVM's memory argument
are control that is not modelled *yet*. Beside BaseFold: the WHIR opening, the naive
and the size-tracking channels, the parallel building of trees and the vectorized
transforms, and the reductions of `ip` other than the two the opening uses. In the
parts that are modelled: error texts, tracing, statistics, serialization, the encoding
of the bytecode and the serial batch are left out. The bound on a segment's values
(`system.rs:122`, `1 << 26`) is a constant of `ConstraintSystem`; no run reaches it, and no
property depends on it.

## 7. Plan

Done: the challenger and sponge, transcripts, pool, merging, compiler passes, gate
fusion, gates, evaluation, constraint systems and chips, Merkle trees, and the
BaseFold opening. Left:

1. `WireElimination` - Spartan's frontend, with the statement property above;
2. the opening of `BaseFold` as the inner channel of `OracleMerge`;
3. `FillQueue` - recursion's recorded values in fill order; `RamSort` - the
   zkVM's memory argument.

Theorem to add: `TypeOK` of `ChipCircuits`, with an interleaving invariant for tiles.
