------------------------- MODULE MCCircuitCompiler -------------------------
(* Instance of CircuitCompiler: two-bit words, a hint that adds one to the   *)
(* word it is given, and one public input.  Linears are circuits of three    *)
(* gates through the passes of the default options; Folds are circuits of    *)
(* two, over a constant and 32-bit addition, with constant propagation on;   *)
(* Hints are circuits of two gates, one of them a hint.                      *)
EXTENDS CircuitCompiler

MCHint(x) == [i \in Bits |-> x[i] # \A j \in Bits : j < i => x[j]]

Default == [constant_propagation |-> FALSE, zero_propagation |-> TRUE,
            common_subexpression_elimination |-> TRUE,
            dead_code_elimination |-> TRUE, gate_fusion |-> TRUE]
Folding == [Default EXCEPT !.constant_propagation = TRUE]

PublicInput == <<"Inout">>

Linears == [ops |-> {"Bxor", "Shift", "AssertZero"}, literals |-> {},
            options |-> {Default}, gates |-> 3]
Folds   == [ops |-> {"Iadd32", "AssertZero"}, literals |-> {[i \in Bits |-> i = 0]},
            options |-> {Folding}, gates |-> 2]
Hints(o) == [ops |-> {"Bxor", "Hint", "AssertZero"}, literals |-> {},
             options |-> {o}, gates |-> 2]

AllFamilies    == {Linears, Folds, Hints(Default)}
DefaultHints   == {Hints(Default)}
FoldingHints   == {Hints(Folding)}
=============================================================================
