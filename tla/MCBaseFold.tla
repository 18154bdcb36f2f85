----------------------------- MODULE MCBaseFold -----------------------------
(* Instance of BaseFold.  Codewords of at most sixteen places; a single      *)
(* query is looked at everywhere, two at places that meet and that do not.   *)
EXTENDS BaseFold

Masked(log_msg_len) == [log_msg_len |-> log_msg_len, is_zk |-> TRUE]
Plain(log_msg_len)  == [log_msg_len |-> log_msg_len, is_zk |-> FALSE]
Once(n)  == [1..1 -> 0..n - 1]
Twice(n) == {<<a, (5 * a + b) % n>> : a \in 0..n - 1, b \in {0, 1}}
Case(specs, rate) ==
  [specs |-> specs, relations |-> [i \in DOMAIN specs |-> 1], rate |-> rate, queries |-> 1,
   optimal |-> TRUE, fold_arities |-> <<>>, cheats |-> {}, places |-> Once(16)]
Folding(f, arities) == [f EXCEPT !.optimal = FALSE, !.fold_arities = arities]
Asking2(f) == [f EXCEPT !.queries = 2, !.places = Twice(16)]

Honest == {
  Asking2(Case(<<Masked(2), Plain(3)>>, 2)),
  Case(<<Masked(1), Plain(3), Plain(2)>>, 1),
  Case(<<Plain(3), Plain(1), Plain(0)>>, 2),
  Case(<<Plain(4)>>, 1),
  Asking2(Case(<<Plain(0)>>, 1)),
  Folding(Case(<<Masked(3)>>, 1), <<1, 1, 1>>),
  [Case(<<Masked(1), Plain(1)>>, 1) EXCEPT !.relations = <<0, 0>>] }
Flips == {
  [Folding(Case(<<Masked(3)>>, 1), <<1, 1>>) EXCEPT !.cheats = {"word"}],
  [Case(<<Masked(1), Masked(2)>>, 2) EXCEPT !.cheats = {"word"}] }
Advices == {
  [Asking2(Case(<<Masked(1), Plain(2)>>, 1)) EXCEPT !.cheats = {"advice"}],
  [Case(<<Masked(3)>>, 1) EXCEPT !.cheats = {"advice"}] }
Claims == {
  [Case(<<Masked(2), Plain(1), Masked(2)>>, 1) EXCEPT !.relations = <<1, 3, 2>>, !.cheats = {"claim"}] }
MCFamilies == Honest \union Flips \union Advices \union Claims
=============================================================================
