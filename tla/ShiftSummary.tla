---------------------------- MODULE ShiftSummary ----------------------------
(* The summary of the shifts on a path that gate fusion's commit set decides *)
(* by (Run and ShiftSummary of pass/fusion/commit_set.rs).                   *)
EXTENDS ShiftAlgebra, FiniteSetsExt

MAX_SHIFT_SLOTS == 2
OVER_BUDGET     == MAX_SHIFT_SLOTS + 1
Slots           == 1..MAX_SHIFT_SLOTS

NoRun   == [variants |-> {}, total_amount |-> 0]
RunOf(s) == [variants |-> {s.variant}, total_amount |-> s.amount]

(* Whether a shift joins a run without a slot of its own. *)
Absorbs(run, s) ==
  /\ run.variants = {s.variant}
  /\ is_cyclic(s.variant) \/ run.total_amount + s.amount < max_amount(s.variant)

(* total_amount is a saturating byte: no comparison tells it from a counter. *)
Absorb(run, s) ==
  [run EXCEPT !.total_amount = IF @ + s.amount < 4 * Width THEN @ + s.amount ELSE 4 * Width - 1]

(* The most of some counters, none being zero. *)
Most(counters) == Max({0} \cup counters)

RunUnion(runs) == [variants     |-> UNION {r.variants : r \in runs},
                   total_amount |-> Most({r.total_amount : r \in runs})]

EmptySummary == [slots |-> [i \in Slots |-> NoRun], len |-> 0]

With(sum, s) ==
  IF is_identity(s) THEN sum
  ELSE IF sum.len \in Slots /\ Absorbs(sum.slots[sum.len], s)
       THEN [sum EXCEPT !.slots[sum.len] = Absorb(@, s)]
       ELSE [slots |-> [i \in Slots |-> IF i = sum.len + 1 THEN RunOf(s) ELSE sum.slots[i]],
             len   |-> IF sum.len + 1 < OVER_BUDGET THEN sum.len + 1 ELSE OVER_BUDGET]

(* The union of any number of summaries, that of none being the empty one. *)
SummaryUnion(sums) ==
  [slots |-> [i \in Slots |-> RunUnion({s.slots[i] : s \in sums})],
   len   |-> Most({s.len : s \in sums})]

(* Mutant: a path is refused only when it is past the budget already. *)
ComposableLate(sum, s, slots) == sum.len <= slots

Composable(sum, s, slots) == With(sum, s).len <= slots
==============================================================================
