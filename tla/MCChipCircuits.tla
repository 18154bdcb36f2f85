--------------------------- MODULE MCChipCircuits ---------------------------
EXTENDS ChipCircuits

(* The honest outputs of the gadget are the sum and the double; the hint is  *)
(* wrong where the word is one.                                              *)
MCHint(x) == LET doubled == Shifted(Sh(Whole("sll"), 1), x)
             IN  IF x = {0} THEN <<doubled, doubled>> ELSE <<Xor(x, doubled), doubled>>

NoBuilder == [inouts |-> 0, witnesses |-> 0, gates |-> 0, calls |-> 0, chips |-> 0, ops |-> {},
              shifts |-> {}, straight |-> TRUE, gadget |-> FALSE]
Few == {{}, {0}, {MSB}, {0, Half - 1}, Bits}

Gates2 == [builders |-> <<[NoBuilder EXCEPT !.witnesses = 2, !.gates = 1,
             !.ops = {"Band", "Bor", "Bxor", "Iadd32", "Imul", "IcmpUlt", "IcmpEq", "Shift",
                      "AssertEq", "AssertZero", "AssertNonZero", "AssertFalse", "AssertTrue"},
             !.shifts = Shift]>>, words |-> Word, edits |-> 0]
Gates4 == [builders |-> <<[NoBuilder EXCEPT !.witnesses = 4, !.gates = 1,
             !.ops = {"Fax", "BxorMulti", "Select", "IaddCinCout", "Iadd32CinCout", "IsubBinBout",
                      "Bmul", "AssertEqCond"}]>>, words |-> Few, edits |-> 0]

Leaf   == [NoBuilder EXCEPT !.inouts = 1, !.gates = 2, !.ops = {"AssertFalse", "AssertNonZero"}]
Middle == [NoBuilder EXCEPT !.inouts = 1, !.gates = 1, !.ops = {"Shift"}, !.chips = 1, !.calls = 2,
             !.shifts = {Sh(Whole("sll"), 1)}]
Main   == [NoBuilder EXCEPT !.witnesses = 2, !.chips = 2, !.calls = 2]
Systems == [builders |-> <<Leaf, Middle, Main>>, words |-> {{0}, {MSB - 1}, {MSB}}, edits |-> 0]

Stale == [builders |-> <<NoBuilder, [NoBuilder EXCEPT !.chips = 1, !.calls = 2],
                         [NoBuilder EXCEPT !.chips = 1, !.calls = 2]>>,
          words |-> {{}}, edits |-> 1]
Gadgets == [builders |-> <<[NoBuilder EXCEPT !.inouts = 1, !.gates = 3, !.gadget = TRUE]>>,
            words |-> Word, edits |-> 0]
AllFamilies == {Gates2, Gates4, Systems, Stale, Gadgets}
==============================================================================
