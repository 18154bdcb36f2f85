------------------------ MODULE CircuitCompilerProofs ------------------------
(* The compiler's passes keep the shape of a graph and the value of every    *)
(* wire, for words of any width, hints that compute anything, circuits of    *)
(* any size and any options.                                                 *)
EXTENDS CircuitCompiler, DataFacts

(* Shapes *)
Ops   == {"Bxor", "Shift", "Iadd32", "Hint", "AssertZero"}
NIn(op)  == IF op \in {"Bxor", "Iadd32"} THEN 2 ELSE 1
NOut(op) == IF op = "AssertZero" THEN 0 ELSE IF op = "Iadd32" THEN 2 ELSE 1

WireSet  == {Constant(word) : word \in Words} \cup {Wire(kind) : kind \in {"Inout", "Witness", "Internal"}}
GateSet  == [op : Ops, ins : Seq(Nat), outs : Seq(Nat)]
GraphSet == [wires : Seq(WireSet), gates : Seq(GateSet)]

(* Gate i may read wire x: nothing makes it, or a gate before. *)
Ready(g, x, i) ==
  x \in DOMAIN g.wires /\ \A j \in DOMAIN g.gates : x \in Range(g.gates[j].outs) => j < i

Interned(g) == \A v, w \in DOMAIN g.wires : IsConst(g, v) /\ g.wires[v] = g.wires[w] => v = w

MadeOnce(g) ==
  \A i, j \in DOMAIN g.gates : \A k \in DOMAIN g.gates[i].outs, m \in DOMAIN g.gates[j].outs :
    g.gates[i].outs[k] = g.gates[j].outs[m] => i = j /\ k = m

GateOK(g, i) ==
  /\ Len(g.gates[i].ins) = NIn(g.gates[i].op) /\ Len(g.gates[i].outs) = NOut(g.gates[i].op)
  /\ \A k \in DOMAIN g.gates[i].ins : Ready(g, g.gates[i].ins[k], i)
  /\ \A k \in DOMAIN g.gates[i].outs :
       /\ g.gates[i].outs[k] \in DOMAIN g.wires
       /\ g.wires[g.gates[i].outs[k]] \in {Wire("Inout"), Wire("Internal")}

(* What is neither a constant nor an input, some gate makes. *)
InternalMade(g) == \A w \in DOMAIN g.wires : g.wires[w].kind = "Internal" =>
  \E i \in DOMAIN g.gates : \E k \in DOMAIN g.gates[i].outs : w = g.gates[i].outs[k]

GraphOK(g) ==
  /\ g \in GraphSet /\ Interned(g) /\ MadeOnce(g) /\ InternalMade(g)
  /\ \A i \in DOMAIN g.gates : GateOK(g, i)

(* h is g but for what the gates read. *)
Alike(g, h) ==
  /\ h \in GraphSet /\ h.wires = g.wires /\ Len(h.gates) = Len(g.gates)
  /\ \A i \in DOMAIN g.gates : /\ h.gates[i].op = g.gates[i].op /\ h.gates[i].outs = g.gates[i].outs
                               /\ Len(h.gates[i].ins) = Len(g.gates[i].ins)
------------------------------------------------------------------------------
LEMMA WireIs ==
  /\ \A word : Constant(word).kind = "Constant" /\ Constant(word).word = word
  /\ \A kind : Wire(kind).kind = kind
  /\ \A kind, word : kind # "Constant" => Wire(kind) # Constant(word)
  /\ \A x \in WireSet : x.kind = "Constant" => x.word \in Words /\ x = Constant(x.word)
  /\ \A x \in WireSet : x.kind # "Constant" => x.kind \in {"Inout", "Witness", "Internal"} /\ x = Wire(x.kind)
  /\ \A word \in Words : Constant(word) \in WireSet
  /\ \A kind \in {"Inout", "Witness", "Internal"} : Wire(kind) \in WireSet
<1>1. \A word : Constant(word).kind = "Constant" /\ Constant(word).word = word
  BY DEF Constant
<1>2. \A kind : Wire(kind).kind = kind
  BY DEF Wire
<1>3. \A x \in WireSet : x.kind = "Constant" => x.word \in Words /\ x = Constant(x.word)
  BY <1>1, <1>2 DEF WireSet
<1>4. \A x \in WireSet : x.kind # "Constant" => x.kind \in {"Inout", "Witness", "Internal"} /\ x = Wire(x.kind)
  BY <1>1, <1>2 DEF WireSet
<1> QED BY <1>1, <1>2, <1>3, <1>4 DEF WireSet

LEMMA GraphParts ==
  ASSUME NEW g \in GraphSet
  PROVE  /\ g.wires \in Seq(WireSet) /\ Len(g.wires) \in Nat /\ DOMAIN g.wires = 1..Len(g.wires)
         /\ g.gates \in Seq(GateSet) /\ Len(g.gates) \in Nat /\ DOMAIN g.gates = 1..Len(g.gates)
         /\ \A w \in DOMAIN g.wires : g.wires[w] \in WireSet
         /\ \A i \in DOMAIN g.gates :
              /\ g.gates[i] \in GateSet /\ g.gates[i].op \in Ops
              /\ g.gates[i].ins \in Seq(Nat) /\ g.gates[i].outs \in Seq(Nat)
              /\ DOMAIN g.gates[i].ins = 1..Len(g.gates[i].ins) /\ Len(g.gates[i].ins) \in Nat
              /\ DOMAIN g.gates[i].outs = 1..Len(g.gates[i].outs) /\ Len(g.gates[i].outs) \in Nat
         /\ g = [wires |-> g.wires, gates |-> g.gates]
<1>1. g.wires \in Seq(WireSet) /\ g.gates \in Seq(GateSet) /\ g = [wires |-> g.wires, gates |-> g.gates]
  BY DEF GraphSet
<1>2. /\ Len(g.wires) \in Nat /\ DOMAIN g.wires = 1..Len(g.wires)
      /\ Len(g.gates) \in Nat /\ DOMAIN g.gates = 1..Len(g.gates)
  BY <1>1
<1>3. \A w \in DOMAIN g.wires : g.wires[w] \in WireSet
  BY <1>1, <1>2
<1>4. ASSUME NEW i \in DOMAIN g.gates
      PROVE  /\ g.gates[i] \in GateSet /\ g.gates[i].op \in Ops
             /\ g.gates[i].ins \in Seq(Nat) /\ g.gates[i].outs \in Seq(Nat)
             /\ DOMAIN g.gates[i].ins = 1..Len(g.gates[i].ins) /\ Len(g.gates[i].ins) \in Nat
             /\ DOMAIN g.gates[i].outs = 1..Len(g.gates[i].outs) /\ Len(g.gates[i].outs) \in Nat
  <2>1. g.gates[i] \in GateSet
    BY <1>1, <1>2
  <2>2. g.gates[i].op \in Ops /\ g.gates[i].ins \in Seq(Nat) /\ g.gates[i].outs \in Seq(Nat)
    BY <2>1 DEF GateSet
  <2> QED BY <2>1, <2>2
<1> QED BY <1>1, <1>2, <1>3, <1>4
------------------------------------------------------------------------------
(* Selecting from a sequence *)
LEMMA PrefixMax ==
  ASSUME NEW n \in Nat, NEW k \in 0..n - 1
  PROVE  /\ Max(1..k + 1) = k + 1 /\ (1..k + 1) \ {k + 1} = 1..k /\ (1..k + 1) # {}
         /\ (1..k + 1) \in SUBSET (1..n) /\ (1..k) \in SUBSET (1..n)
<1>1. k + 1 \in 1..k + 1 /\ (1..k + 1) \subseteq 0..n
  OBVIOUS
<1>2. Max(1..k + 1) \in 1..k + 1 /\ \A m \in 1..k + 1 : m <= Max(1..k + 1)
  BY <1>1, MaxIs
<1>3. Max(1..k + 1) = k + 1
  BY <1>1, <1>2
<1>4. (1..k + 1) \ {k + 1} = 1..k
  OBVIOUS
<1> QED BY <1>1, <1>3, <1>4

Selected(P, s, set) ==
  /\ P[0] = <<>> /\ Select(s, set) = P[Len(s)]
  /\ \A k \in 0..Len(s) - 1 : P[k + 1] = IF s[k + 1] \in set THEN Append(P[k], s[k + 1]) ELSE P[k]

LEMMA SelectParts ==
  ASSUME NEW T, NEW s \in Seq(T), NEW set
  PROVE  \E P \in [0..Len(s) -> Seq(T)] : Selected(P, s, set)
<1> DEFINE n == Len(s)
           Keep(kept, x) == IF x \in set THEN Append(kept, x) ELSE kept
           G == [p \in Seq(T) \X (1..n) |-> Keep(p[1], s[p[2]])]
           Is(it) == it = [d \in SUBSET (1..n) |->
                             IF d = {} THEN <<>> ELSE Keep(it[d \ {Max(d)}], s[Max(d)])]
           it == CHOOSE x : Is(x)
<1>1. n \in Nat /\ DOMAIN s = 1..n /\ <<>> \in Seq(T) /\ \A i \in 1..n : s[i] \in T
  OBVIOUS
<1>2. Select(s, set) = it[1..n]
  BY <1>1 DEF Select, FoldLeft, MapThenFoldSet
<1>3. ASSUME NEW kept \in Seq(T), NEW i \in 1..n PROVE Keep(kept, s[i]) \in Seq(T)
  BY <1>1
<1>4. G \in [Seq(T) \X (1..n) -> Seq(T)]
  BY <1>3
<1> HIDE DEF Keep, n
<1>5. PICK x \in [SUBSET (1..n) -> Seq(T)] : FoldsBy(x, n, <<>>, G)
  <2> HIDE DEF G
  <2> QED BY <1>1, <1>4, FoldExists
<1>6. Is(x)
  <2>1. ASSUME NEW d \in SUBSET (1..n)
        PROVE  x[d] = IF d = {} THEN <<>> ELSE Keep(x[d \ {Max(d)}], s[Max(d)])
    <3>1. CASE d = {}
      BY <1>5, <3>1 DEF FoldsBy
    <3>2. CASE d # {}
      <4>1. Max(d) \in d
        <5>1. d \subseteq 0..n
          BY <1>1
        <5> QED BY <1>1, <3>2, <5>1, MaxIs
      <4>2. PICK top : top = Max(d)
        OBVIOUS
      <4>3. top \in 1..n /\ x[d \ {top}] \in Seq(T)
        BY <1>5, <4>1, <4>2
      <4>4. G[<<x[d \ {top}], top>>] = Keep(x[d \ {top}], s[top])
        BY <4>3
      <4> HIDE DEF G
      <4> QED BY <1>5, <3>2, <4>2, <4>4 DEF FoldsBy
    <3> QED BY <3>1, <3>2
  <2> QED BY <1>5, <2>1
<1>7. Is(it)
  <2> HIDE DEF Is
  <2> QED BY <1>6
<1> HIDE DEF it
<1> DEFINE P == [k \in 0..n |-> it[1..k]]
<1>8. it[1..0] = <<>> /\ \A k \in 0..n - 1 : it[1..k + 1] = Keep(it[1..k], s[k + 1])
  <2>1. \A d \in SUBSET (1..n) : it[d] = IF d = {} THEN <<>> ELSE Keep(it[d \ {Max(d)}], s[Max(d)])
    BY <1>7
  <2>2. ASSUME NEW k \in 0..n - 1 PROVE it[1..k + 1] = Keep(it[1..k], s[k + 1])
    BY <1>1, <2>1, PrefixMax
  <2>3. 1..0 = {}
    BY <1>1
  <2> QED BY <2>1, <2>2, <2>3
<1>9. \A k \in 0..n : it[1..k] \in Seq(T)
  <2> DEFINE S == {k \in 0..n : it[1..k] \in Seq(T)}
  <2>1. 0 \in S
    <3>1. 0 \in 0..n /\ it[1..0] \in Seq(T)
      BY <1>1, <1>8
    <3> QED BY <3>1
  <2>2. ASSUME NEW k \in Nat, k < n, k \in S PROVE k + 1 \in S
    <3>1. k \in 0..n - 1 /\ k + 1 \in 1..n /\ k + 1 \in 0..n /\ it[1..k] \in Seq(T)
      BY <1>1, <2>2
    <3>2. it[1..k + 1] \in Seq(T)
      BY <1>3, <1>8, <3>1
    <3> QED BY <3>1, <3>2
  <2> HIDE DEF S
  <2>3. \A k \in 0..n : k \in S
    BY <1>1, <2>1, <2>2, UpwardClosed
  <2> QED BY <2>3 DEF S
<1>10. P \in [0..n -> Seq(T)]
  BY <1>9
<1>11. P[0] = <<>> /\ P[n] = it[1..n] /\ \A k \in 0..n - 1 : P[k + 1] = Keep(P[k], s[k + 1])
  BY <1>1, <1>8
<1> HIDE DEF P
<1> QED BY <1>2, <1>10, <1>11 DEF Selected, Keep, n

Distinct(s) == \A i, j \in DOMAIN s : s[i] = s[j] => i = j

(* One more element. *)
LEMMA AppendOne ==
  ASSUME NEW T, NEW s \in Seq(T), NEW x \in T
  PROVE  /\ Append(s, x) \in Seq(T) /\ Range(Append(s, x)) = Range(s) \cup {x}
         /\ Distinct(s) /\ x \notin Range(s) => Distinct(Append(s, x))
<1> DEFINE t == Append(s, x)
           n == Len(s)
<1>1. /\ t \in Seq(T) /\ n \in Nat /\ DOMAIN s = 1..n /\ DOMAIN t = 1..n + 1
      /\ \A i \in 1..n : t[i] = s[i] /\ i \in 1..n + 1
      /\ t[n + 1] = x /\ n + 1 \in 1..n + 1 /\ \A i \in 1..n + 1 : i \in 1..n \/ i = n + 1
  OBVIOUS
<1> HIDE DEF t, n
<1>2. \A y : y \in Range(s) <=> \E i \in 1..n : s[i] = y
  BY <1>1 DEF Range
<1>3. \A y : y \in Range(t) <=> \E i \in 1..n + 1 : t[i] = y
  BY <1>1 DEF Range
<1>4. Range(t) = Range(s) \cup {x}
  <2>1. ASSUME NEW y, y \in Range(t) PROVE y \in Range(s) \cup {x}
    BY <1>1, <1>2, <1>3, <2>1
  <2>2. ASSUME NEW y, y \in Range(s) \cup {x} PROVE y \in Range(t)
    BY <1>1, <1>2, <1>3, <2>2
  <2> QED BY <2>1, <2>2
<1>5. ASSUME Distinct(s), x \notin Range(s) PROVE Distinct(t)
  <2>1. ASSUME NEW i \in 1..n + 1, NEW j \in 1..n + 1, t[i] = t[j] PROVE i = j
    <3>1. CASE i \in 1..n /\ j \in 1..n
      BY <1>1, <1>5, <2>1, <3>1 DEF Distinct
    <3>2. CASE i = n + 1 /\ j = n + 1
      BY <3>2
    <3>3. CASE i \in 1..n /\ j = n + 1
      BY <1>1, <1>2, <1>5, <2>1, <3>3
    <3>4. CASE i = n + 1 /\ j \in 1..n
      BY <1>1, <1>2, <1>5, <2>1, <3>4
    <3> QED BY <1>1, <3>1, <3>2, <3>3, <3>4
  <2> QED BY <1>1, <2>1 DEF Distinct
<1> QED BY <1>1, <1>4, <1>5 DEF t

(* What is selected: the members that are in the set, each as often. *)
LEMMA SelectIs ==
  ASSUME NEW T, NEW s \in Seq(T), NEW set
  PROVE  /\ Select(s, set) \in Seq(T) /\ Range(Select(s, set)) = Range(s) \cap set
         /\ Distinct(s) => Distinct(Select(s, set))
<1> DEFINE n == Len(s)
<1>1. PICK P \in [0..n -> Seq(T)] : Selected(P, s, set)
  BY SelectParts
<1>2. n \in Nat /\ DOMAIN s = 1..n /\ \A i \in 1..n : s[i] \in T
  OBVIOUS
<1>3. /\ P[0] = <<>> /\ Select(s, set) = P[n]
      /\ \A k \in 0..n - 1 : P[k + 1] = IF s[k + 1] \in set THEN Append(P[k], s[k + 1]) ELSE P[k]
  BY <1>1 DEF Selected
<1> HIDE DEF n
<1> DEFINE From(k) == {s[i] : i \in 1..k}
           Good(k) == Range(P[k]) = From(k) \cap set /\ (Distinct(s) => Distinct(P[k]))
           S == {k \in 0..n : Good(k)}
<1>4. 0 \in S
  <2>1. Range(P[0]) = {} /\ Distinct(P[0])
    BY <1>3 DEF Range, Distinct
  <2>2. From(0) = {} /\ 0 \in 0..n
    BY <1>2
  <2> QED BY <2>1, <2>2
<1>5. ASSUME NEW k \in Nat, k < n, k \in S PROVE k + 1 \in S
  <2>0. k \in 0..n - 1 /\ k \in 0..n /\ k + 1 \in 0..n /\ k + 1 \in 1..n
    BY <1>2, <1>5
  <2>1. k \in 0..n - 1 /\ k \in 0..n /\ k + 1 \in 0..n /\ k + 1 \in 1..n /\ Good(k)
    <3> HIDE DEF Good
    <3> QED BY <1>5, <2>0
  <2>2. P[k] \in Seq(T) /\ s[k + 1] \in T
    BY <1>2, <2>1
  <2>3. From(k + 1) = From(k) \cup {s[k + 1]}
    <3>1. 1..k + 1 = (1..k) \cup {k + 1}
      OBVIOUS
    <3> QED BY <3>1
  <2>4. ASSUME s[k + 1] \in From(k) PROVE ~Distinct(s)
    <3>1. PICK i \in 1..k : s[i] = s[k + 1]
      BY <2>4
    <3>2. i \in DOMAIN s /\ k + 1 \in DOMAIN s /\ i # k + 1
      BY <1>2, <2>0, <3>1
    <3> QED BY <3>1, <3>2 DEF Distinct
  <2> HIDE DEF From
  <2>5. CASE s[k + 1] \in set
    <3>1. P[k + 1] = Append(P[k], s[k + 1])
      BY <1>3, <2>1, <2>5
    <3>2. /\ Range(P[k + 1]) = Range(P[k]) \cup {s[k + 1]}
          /\ Distinct(P[k]) /\ s[k + 1] \notin Range(P[k]) => Distinct(P[k + 1])
      BY <2>2, <3>1, AppendOne
    <3> QED BY <2>1, <2>3, <2>4, <2>5, <3>2
  <2>6. CASE s[k + 1] \notin set
    <3>1. P[k + 1] = P[k]
      BY <1>3, <2>1, <2>6
    <3> QED BY <2>1, <2>3, <2>6, <3>1
  <2> QED BY <2>5, <2>6
<1>6. Good(n)
  <2> HIDE DEF S
  <2>1. \A k \in 0..n : k \in S
    BY <1>2, <1>4, <1>5, UpwardClosed
  <2> QED BY <1>2, <2>1 DEF S
<1>7. From(n) = Range(s)
  BY <1>2 DEF Range
<1> QED BY <1>2, <1>3, <1>6, <1>7

(* The numbers up to n, in order *)
LEMMA CountIs ==
  ASSUME NEW n \in Nat
  PROVE  LET s == [i \in 1..n |-> i]
         IN  s \in Seq(Nat) /\ Len(s) = n /\ DOMAIN s = 1..n /\ Range(s) = 1..n /\ Distinct(s)
BY DEF Range, Distinct

(* What has readers is named with them, all of them and once each. *)
LEMMA UsesAre ==
  ASSUME NEW g \in GraphSet
  PROVE  /\ DOMAIN WireUses(g) = DOMAIN g.wires
         /\ \A w \in DOMAIN g.wires :
              /\ WireUses(g)[w] \in Seq(Nat) /\ Distinct(WireUses(g)[w])
              /\ Range(WireUses(g)[w]) = {i \in DOMAIN g.gates : w \in Range(g.gates[i].ins)}
<1> DEFINE readers(w) == {i \in DOMAIN g.gates : w \in Range(g.gates[i].ins)}
           all == [i \in DOMAIN g.gates |-> i]
<1>1. DOMAIN g.gates = 1..Len(g.gates) /\ Len(g.gates) \in Nat
  BY GraphParts
<1>2. all \in Seq(Nat) /\ Distinct(all) /\ Range(all) = DOMAIN g.gates
  BY <1>1, CountIs
<1>3. WireUses(g) = [w \in DOMAIN g.wires |-> Select(all, readers(w))]
  BY DEF WireUses
<1>4. ASSUME NEW w PROVE /\ Select(all, readers(w)) \in Seq(Nat) /\ Distinct(Select(all, readers(w)))
                         /\ Range(Select(all, readers(w))) = Range(all) \cap readers(w)
  <2> HIDE DEF all, readers
  <2> QED BY <1>2, SelectIs
<1>5. \A w : Range(all) \cap readers(w) = readers(w)
  BY <1>2
<1> HIDE DEF all
<1> QED BY <1>3, <1>4, <1>5

(* Behind those that wait already, the others. *)
LEMMA UnseenIs ==
  ASSUME NEW T, NEW queue \in Seq(T), NEW more \in Seq(T)
  PROVE  /\ Unseen(queue, more) \in Seq(T)
         /\ Range(Unseen(queue, more)) = Range(queue) \cup Range(more)
         /\ Distinct(queue) /\ Distinct(more) => Distinct(Unseen(queue, more))
<1> DEFINE tail == Select(more, Range(more) \ Range(queue))
           n == Len(queue)
           m == Len(tail)
           s == queue \o tail
<1>1. tail \in Seq(T) /\ Range(tail) = Range(more) \ Range(queue) /\ (Distinct(more) => Distinct(tail))
  <2>1. Range(more) \cap (Range(more) \ Range(queue)) = Range(more) \ Range(queue)
    OBVIOUS
  <2> QED BY <2>1, SelectIs
<1> HIDE DEF tail
<1>2. /\ s \in Seq(T) /\ n \in Nat /\ m \in Nat /\ DOMAIN s = 1..n + m
      /\ DOMAIN queue = 1..n /\ DOMAIN tail = 1..m
      /\ \A i \in 1..n : s[i] = queue[i] /\ i \in 1..n + m
      /\ \A i \in 1..m : s[n + i] = tail[i] /\ n + i \in 1..n + m
  BY <1>1
<1>3. \A i \in 1..n + m : i \in 1..n \/ \E j \in 1..m : i = n + j
  <2>1. ASSUME NEW i \in 1..n + m, i \notin 1..n PROVE i - n \in 1..m /\ i = n + (i - n)
    BY <1>2, <2>1
  <2> QED BY <2>1
<1>4. Unseen(queue, more) = s
  BY DEF Unseen, tail
<1> HIDE DEF n, m, s
<1>5. Range(s) = Range(queue) \cup Range(tail)
  <2>1. ASSUME NEW y, y \in Range(s) PROVE y \in Range(queue) \cup Range(tail)
    <3>1. PICK i \in 1..n + m : y = s[i]
      BY <1>2, <2>1 DEF Range
    <3> QED BY <1>2, <1>3, <3>1 DEF Range
  <2>2. ASSUME NEW y, y \in Range(queue) \cup Range(tail) PROVE y \in Range(s)
    BY <1>2, <2>2 DEF Range
  <2> QED BY <2>1, <2>2
<1>6. ASSUME Distinct(queue), Distinct(more) PROVE Distinct(s)
  <2>1. Distinct(tail) /\ Range(queue) \cap Range(tail) = {}
    BY <1>1, <1>6
  <2>2. \A i \in 1..n, j \in 1..m : s[i] # s[n + j]
    BY <1>2, <2>1 DEF Range
  <2>3. ASSUME NEW i \in 1..n + m, NEW j \in 1..n + m, s[i] = s[j] PROVE i = j
    <3>1. CASE i \in 1..n /\ j \in 1..n
      BY <1>2, <1>6, <2>3, <3>1 DEF Distinct
    <3>2. CASE i \in 1..n /\ j \notin 1..n
      BY <1>3, <2>2, <2>3, <3>2
    <3>3. CASE i \notin 1..n /\ j \in 1..n
      BY <1>3, <2>2, <2>3, <3>3
    <3>4. CASE i \notin 1..n /\ j \notin 1..n
      <4>1. PICK a \in 1..m : i = n + a
        BY <1>3, <3>4
      <4>2. PICK b \in 1..m : j = n + b
        BY <1>3, <3>4
      <4>3. tail[a] = tail[b]
        BY <1>2, <2>3, <4>1, <4>2
      <4>4. a = b
        BY <1>2, <2>1, <4>3 DEF Distinct
      <4> QED BY <4>1, <4>2, <4>4
    <3> QED BY <3>1, <3>2, <3>3, <3>4
  <2> QED BY <1>2, <2>3 DEF Distinct
<1> QED BY <1>1, <1>2, <1>4, <1>5, <1>6
------------------------------------------------------------------------------
(* Rewriting *)
UsesOK(g, uses_) == \A w \in DOMAIN uses_ :
  /\ uses_[w] \in Seq(Nat) /\ Distinct(uses_[w]) /\ Range(uses_[w]) \subseteq DOMAIN g.gates
  /\ \A i \in Range(uses_[w]) : w \notin Range(g.gates[i].outs)

LEMMA UsesOfIs ==
  ASSUME NEW g, NEW index, UsesOK(g, index), NEW w
  PROVE  /\ UsesOf(index, w) \in Seq(Nat) /\ Distinct(UsesOf(index, w))
         /\ Range(UsesOf(index, w)) \subseteq DOMAIN g.gates
         /\ \A i \in Range(UsesOf(index, w)) : w \notin Range(g.gates[i].outs)
<1>1. CASE w \in DOMAIN index
  BY <1>1 DEF UsesOK, UsesOf
<1>2. CASE w \notin DOMAIN index
  <2>1. UsesOf(index, w) = <<>>
    BY <1>2 DEF UsesOf
  <2>2. <<>> \in Seq(Nat) /\ Range(<<>>) = {} /\ Distinct(<<>>)
    BY DEF Range, Distinct
  <2> QED BY <2>1, <2>2
<1> QED BY <1>1, <1>2

(* The readers that an index names read the new wire for the old. *)
Replaced(g, h, readers, old, new) ==
  \A i \in DOMAIN g.gates : \A k \in DOMAIN g.gates[i].ins :
    h.gates[i].ins[k] = IF i \in readers /\ g.gates[i].ins[k] = old THEN new ELSE g.gates[i].ins[k]

LEMMA ReplaceIs ==
  ASSUME NEW g \in GraphSet, NEW index, UsesOK(g, index), NEW old, NEW new \in Nat
  PROVE  /\ Alike(g, ReplaceWire(g, index, old, new))
         /\ Replaced(g, ReplaceWire(g, index, old, new), Range(UsesOf(index, old)), old, new)
<1> DEFINE readers == Range(UsesOf(index, old))
           h == ReplaceWire(g, index, old, new)
           Rewired(s) == [k \in DOMAIN s |-> IF s[k] = old THEN new ELSE s[k]]
           Turned(i) == IF i \in readers
                        THEN [g.gates[i] EXCEPT !.ins = Rewired(@), !.outs = Rewired(@)] ELSE g.gates[i]
           gates == [i \in DOMAIN g.gates |-> Turned(i)]
<1>1. CASE new = old
  <2>1. h = g
    BY <1>1 DEF ReplaceWire
  <2>2. Alike(g, g) /\ Replaced(g, g, readers, old, new)
    BY <1>1 DEF Alike, Replaced
  <2> QED BY <2>1, <2>2
<1>2. CASE new # old
  <2>1. h = [g EXCEPT !.gates = gates]
    BY <1>2 DEF ReplaceWire
  <2>2. /\ g = [wires |-> g.wires, gates |-> g.gates] /\ g.wires \in Seq(WireSet)
        /\ DOMAIN g.gates = 1..Len(g.gates) /\ Len(g.gates) \in Nat
    BY GraphParts
  <2>3. h = [wires |-> g.wires, gates |-> gates]
    <3> HIDE DEF h, gates
    <3> QED BY <2>1, <2>2
  <2>4. ASSUME NEW i \in DOMAIN g.gates
        PROVE  /\ Turned(i) \in GateSet /\ Turned(i).op = g.gates[i].op
               /\ Turned(i).outs = g.gates[i].outs /\ Len(Turned(i).ins) = Len(g.gates[i].ins)
               /\ \A k \in DOMAIN g.gates[i].ins :
                    Turned(i).ins[k] = IF i \in readers /\ g.gates[i].ins[k] = old THEN new
                                       ELSE g.gates[i].ins[k]
    <3>1. /\ g.gates[i] \in GateSet /\ g.gates[i].ins \in Seq(Nat) /\ g.gates[i].outs \in Seq(Nat)
          /\ g.gates[i].op \in Ops
          /\ DOMAIN g.gates[i].ins = 1..Len(g.gates[i].ins) /\ Len(g.gates[i].ins) \in Nat
      BY GraphParts
    <3>2. CASE i \notin readers
      BY <3>1, <3>2
    <3>3. CASE i \in readers
      <4>1. old \notin Range(g.gates[i].outs)
        BY <3>3, UsesOfIs
      <4>2. Rewired(g.gates[i].outs) = g.gates[i].outs
        BY <3>1, <4>1 DEF Range
      <4>3. /\ Rewired(g.gates[i].ins) \in Seq(Nat) /\ Len(Rewired(g.gates[i].ins)) = Len(g.gates[i].ins)
            /\ \A k \in DOMAIN g.gates[i].ins :
                 Rewired(g.gates[i].ins)[k] = IF g.gates[i].ins[k] = old THEN new ELSE g.gates[i].ins[k]
        BY <3>1
      <4>4. g.gates[i] = [op |-> g.gates[i].op, ins |-> g.gates[i].ins, outs |-> g.gates[i].outs]
        BY <3>1 DEF GateSet
      <4> HIDE DEF Rewired
      <4>5. Turned(i) = [op |-> g.gates[i].op, ins |-> Rewired(g.gates[i].ins), outs |-> g.gates[i].outs]
        BY <3>3, <4>2, <4>4
      <4> HIDE DEF Turned, readers
      <4> QED BY <3>1, <3>3, <4>3, <4>5 DEF GateSet
    <3> QED BY <3>2, <3>3
  <2> HIDE DEF Turned, h
  <2>5. gates \in Seq(GateSet) /\ Len(gates) = Len(g.gates)
    BY <2>2, <2>4
  <2>6. h \in GraphSet /\ h.wires = g.wires /\ h.gates = gates
    BY <2>2, <2>3, <2>5 DEF GraphSet
  <2>7. \A i \in DOMAIN g.gates : h.gates[i] = Turned(i)
    BY <2>6
  <2>8. Alike(g, h)
    BY <2>4, <2>5, <2>6, <2>7 DEF Alike
  <2>9. Replaced(g, h, readers, old, new)
    BY <2>4, <2>7 DEF Replaced
  <2> QED BY <2>8, <2>9 DEF h
<1> QED BY <1>1, <1>2

LEMMA AlikeParts ==
  ASSUME NEW g \in GraphSet, NEW h, Alike(g, h)
  PROVE  /\ h \in GraphSet /\ h.wires = g.wires /\ DOMAIN h.gates = DOMAIN g.gates
         /\ \A i \in DOMAIN g.gates : /\ h.gates[i].op = g.gates[i].op /\ h.gates[i].outs = g.gates[i].outs
                                      /\ DOMAIN h.gates[i].ins = DOMAIN g.gates[i].ins
         /\ \A x, i : Ready(h, x, i) <=> Ready(g, x, i)
<1>1. h \in GraphSet /\ h.wires = g.wires /\ DOMAIN h.gates = DOMAIN g.gates
  BY GraphParts DEF Alike
<1>2. \A i \in DOMAIN g.gates : /\ h.gates[i].op = g.gates[i].op /\ h.gates[i].outs = g.gates[i].outs
                                /\ DOMAIN h.gates[i].ins = DOMAIN g.gates[i].ins
  BY <1>1, GraphParts DEF Alike
<1>3. \A x, i : Ready(h, x, i) <=> Ready(g, x, i)
  BY <1>1, <1>2 DEF Ready
<1> QED BY <1>1, <1>2, <1>3

(* A gate may read any wire that is ready before it. *)
LEMMA AlikeOK ==
  ASSUME NEW g, GraphOK(g), NEW h, Alike(g, h),
         \A i \in DOMAIN g.gates : \A k \in DOMAIN g.gates[i].ins : Ready(g, h.gates[i].ins[k], i)
  PROVE  GraphOK(h)
<1>1. g \in GraphSet /\ Interned(g) /\ MadeOnce(g) /\ \A i \in DOMAIN g.gates : GateOK(g, i)
  BY DEF GraphOK
<1>2. /\ h \in GraphSet /\ h.wires = g.wires /\ DOMAIN h.gates = DOMAIN g.gates
      /\ \A i \in DOMAIN g.gates : /\ h.gates[i].op = g.gates[i].op /\ h.gates[i].outs = g.gates[i].outs
                                   /\ DOMAIN h.gates[i].ins = DOMAIN g.gates[i].ins
                                   /\ Len(h.gates[i].ins) = Len(g.gates[i].ins)
      /\ \A x, i : Ready(h, x, i) <=> Ready(g, x, i)
  BY <1>1, AlikeParts DEF Alike
<1>3. Interned(h)
  BY <1>1, <1>2 DEF Interned, IsConst
<1>4. MadeOnce(h)
  BY <1>1, <1>2 DEF MadeOnce
<1>5. ASSUME NEW i \in DOMAIN h.gates PROVE GateOK(h, i)
  BY <1>1, <1>2 DEF GateOK
<1>6. InternalMade(h)
  BY <1>2 DEF GraphOK, InternalMade
<1> QED BY <1>2, <1>3, <1>4, <1>5, <1>6 DEF GraphOK
------------------------------------------------------------------------------
(* Words *)
LEMMA CarryIs ==
  ASSUME NEW a \in Words, NEW b \in Words
  PROVE  /\ Carry(a, b) \in Words
         /\ \A i \in Bits : Carry(a, b)[i] = ((a[i] /\ b[i]) \/ (i > 0 /\ Carry(a, b)[i - 1] /\ (a[i] \/ b[i])))
<1> DEFINE T == Nat \X BOOLEAN
           Bit(i, c) == IF i \in Bits THEN (a[i] /\ b[i]) \/ (i > 0 /\ c /\ (a[i] \/ b[i])) ELSE FALSE
           G == [p \in T |-> <<p[1] + 1, Bit(p[1] + 1, p[2])>>]
           base == <<0, Bit(0, FALSE)>>
           Is(c) == c = [i \in Bits |-> (a[i] /\ b[i]) \/ (i > 0 /\ c[i - 1] /\ (a[i] \/ b[i]))]
           carry == CHOOSE c : Is(c)
<1>1. Width \in Nat /\ Bits = 0..Width - 1
  BY WidthAssumption DEF Bits
<1>2. Bit(0, FALSE) \in BOOLEAN /\ \A p \in T : Bit(p[1] + 1, p[2]) \in BOOLEAN
  OBVIOUS
<1> HIDE DEF Bit
<1>3. base \in T /\ G \in [T -> T]
  <2>1. \A p \in T : p[1] + 1 \in Nat
    OBVIOUS
  <2>2. base \in T
    BY <1>2
  <2>3. \A p \in T : <<p[1] + 1, Bit(p[1] + 1, p[2])>> \in T
    BY <1>2, <2>1
  <2> HIDE DEF T
  <2> QED BY <2>2, <2>3
<1>4. PICK f \in [Nat -> T] : StartsAndSteps(f, base, G)
  <2> HIDE DEF T, base, G
  <2> QED BY <1>3, RecursionExists
<1>5. f[0] = base /\ \A n \in Nat : f[n + 1] = <<f[n][1] + 1, Bit(f[n][1] + 1, f[n][2])>>
  BY <1>4 DEF StartsAndSteps
<1>6. \A n \in Nat : f[n][1] = n
  <2> DEFINE S == {n \in Nat : f[n][1] = n}
  <2>1. 0 \in S
    BY <1>5
  <2>2. ASSUME NEW n \in Nat, n \in S PROVE n + 1 \in S
    BY <1>5, <2>2
  <2> HIDE DEF S
  <2>3. ASSUME NEW n \in Nat PROVE n \in S
    <3>1. \A k \in 0..n : k \in S
      BY <2>1, <2>2, UpwardClosed
    <3> QED BY <3>1
  <2> QED BY <2>3 DEF S
<1> DEFINE c == [i \in Bits |-> f[i][2]]
<1>7. \A n \in Nat : f[n][2] \in BOOLEAN /\ f[n + 1][2] = Bit(n + 1, f[n][2])
  BY <1>4, <1>5, <1>6
<1>8. \A i \in Bits : c[i] = Bit(i, IF i > 0 THEN c[i - 1] ELSE FALSE)
  <2>1. ASSUME NEW i \in Bits, i > 0 PROVE c[i] = Bit(i, c[i - 1])
    <3>1. i - 1 \in Nat /\ i - 1 \in Bits /\ i = (i - 1) + 1
      BY <1>1, <2>1
    <3> QED BY <1>7, <3>1
  <2>2. ASSUME NEW i \in Bits, ~(i > 0) PROVE c[i] = Bit(i, FALSE)
    <3>1. i = 0
      BY <1>1, <2>2
    <3>2. f[0][2] = Bit(0, FALSE)
      BY <1>5
    <3> QED BY <3>1, <3>2
  <2> HIDE DEF c
  <2> QED BY <2>1, <2>2
<1>9. Is(c)
  <2>1. ASSUME NEW i \in Bits
        PROVE  c[i] = ((a[i] /\ b[i]) \/ (i > 0 /\ c[i - 1] /\ (a[i] \/ b[i])))
    <3>1. CASE i > 0
      <4>1. c[i] = Bit(i, c[i - 1])
        BY <1>8, <3>1
      <4> HIDE DEF c
      <4> QED BY <3>1, <4>1 DEF Bit
    <3>2. CASE ~(i > 0)
      <4>1. c[i] = Bit(i, FALSE)
        BY <1>8, <3>2
      <4> HIDE DEF c
      <4> QED BY <3>2, <4>1 DEF Bit
    <3> QED BY <3>1, <3>2
  <2>2. c = [i \in Bits |-> c[i]]
    OBVIOUS
  <2> HIDE DEF c
  <2> QED BY <2>1, <2>2
<1>10. Is(carry)
  <2> HIDE DEF Is, c
  <2> QED BY <1>9
<1>11. Carry(a, b) = carry
  BY DEF Carry
<1> HIDE DEF carry
<1>12. \A i \in Bits : carry[i] = ((a[i] /\ b[i]) \/ (i > 0 /\ carry[i - 1] /\ (a[i] \/ b[i])))
  BY <1>10
<1>13. carry \in Words
  BY <1>10 DEF Words
<1> QED BY <1>11, <1>12, <1>13

LEMMA WordsKept ==
  /\ Zero \in Words /\ AllOne \in Words
  /\ \A a \in Words, b \in Words : Xor(a, b) \in Words /\ Carry(a, b) \in Words
  /\ \A a \in Words : Sll(a) \in Words /\ HintValue(a) \in Words
<1>1. \A a \in Words, b \in Words : Xor(a, b) \in Words
  BY DEF Words, Xor
<1>2. \A a \in Words : Sll(a) \in Words
  <2>1. \A i \in Bits : i - 1 \in Bits \/ i = 0
    BY WidthAssumption DEF Bits
  <2> QED BY <2>1 DEF Words, Sll
<1> QED BY <1>1, <1>2, CarryIs, HintAssumption DEF Words, Zero, AllOne

(* Zero changes nothing and carries nothing. *)
LEMMA ZeroIs ==
  ASSUME NEW a \in Words
  PROVE  /\ Xor(a, Zero) = a /\ Xor(Zero, a) = a /\ Sll(Zero) = Zero
         /\ Carry(a, Zero) = Zero /\ Carry(Zero, a) = Zero
<1>1. /\ Zero \in Words /\ a \in [Bits -> BOOLEAN] /\ \A i \in Bits : Zero[i] = FALSE
      /\ Bits \subseteq Nat /\ \A i \in Bits : i = 0 \/ i - 1 \in Bits
  BY WordsKept, WidthAssumption DEF Words, Zero, Bits
<1>2. Xor(a, Zero) = a
  <2>1. \A i \in Bits : (a[i] # Zero[i]) = a[i]
    BY <1>1
  <2> QED BY <1>1, <2>1 DEF Xor
<1>3. Xor(Zero, a) = a
  <2>1. \A i \in Bits : (Zero[i] # a[i]) = a[i]
    BY <1>1
  <2> QED BY <1>1, <2>1 DEF Xor
<1>4. Sll(Zero) = Zero
  <2>1. \A i \in Bits : (i > 0 /\ Zero[i - 1]) = FALSE
    BY <1>1
  <2> QED BY <2>1 DEF Sll, Zero
<1>5. ASSUME NEW c \in Words, \A i \in Bits : c[i] => i > 0 /\ c[i - 1] PROVE c = Zero
  <2> DEFINE S == {i \in Bits : c[i]}
  <2>1. ASSUME S # {} PROVE FALSE
    <3>1. S \subseteq Nat
      BY <1>1
    <3> HIDE DEF S
    <3>2. PICK i \in S : \A j \in S : i <= j
      BY <2>1, <3>1, LeastElement
    <3> USE DEF S
    <3>3. i \in Nat /\ i > 0 /\ i - 1 \in S
      BY <1>1, <1>5, <3>2
    <3> QED BY <3>2, <3>3
  <2>2. \A i \in Bits : c[i] = FALSE
    <3>1. c \in [Bits -> BOOLEAN]
      BY DEF Words
    <3> QED BY <2>1, <3>1
  <2> QED BY <2>2 DEF Words, Zero
<1>6. Carry(a, Zero) = Zero
  <2>1. \A i \in Bits : Carry(a, Zero)[i] => i > 0 /\ Carry(a, Zero)[i - 1]
    BY <1>1, CarryIs
  <2> QED BY <1>1, <1>5, <2>1, WordsKept
<1>7. Carry(Zero, a) = Zero
  <2>1. \A i \in Bits : Carry(Zero, a)[i] => i > 0 /\ Carry(Zero, a)[i - 1]
    BY <1>1, CarryIs
  <2> QED BY <1>1, <1>5, <2>1, WordsKept
<1> QED BY <1>2, <1>3, <1>4, <1>6, <1>7

LEMMA ResultTyped ==
  ASSUME NEW op \in Ops, NEW x \in [1..NIn(op) -> Words]
  PROVE  /\ DOMAIN Result(op, x) = 1..NOut(op)
         /\ \A k \in 1..NOut(op) : Result(op, x)[k] \in Words
<1>1. CASE op = "Bxor"
  <2>1. x[1] \in Words /\ x[2] \in Words /\ NOut(op) = 1
    BY <1>1 DEF NIn, NOut
  <2>2. Result(op, x) = <<Xor(x[1], x[2])>>
    BY <1>1 DEF Result
  <2> QED BY <2>1, <2>2, WordsKept
<1>2. CASE op = "Shift"
  <2>1. x[1] \in Words /\ NOut(op) = 1
    BY <1>2 DEF NIn, NOut
  <2>2. Result(op, x) = <<Sll(x[1])>>
    BY <1>2 DEF Result
  <2> QED BY <2>1, <2>2, WordsKept
<1>3. CASE op = "Iadd32"
  <2>1. x[1] \in Words /\ x[2] \in Words /\ NOut(op) = 2
    BY <1>3 DEF NIn, NOut
  <2>2. Result(op, x) = <<Xor(Xor(x[1], x[2]), Sll(Carry(x[1], x[2]))), Carry(x[1], x[2])>>
    BY <1>3 DEF Result
  <2>3. Xor(Xor(x[1], x[2]), Sll(Carry(x[1], x[2]))) \in Words /\ Carry(x[1], x[2]) \in Words
    BY <2>1, WordsKept
  <2> QED BY <2>1, <2>2, <2>3
<1>4. CASE op = "Hint"
  <2>1. x[1] \in Words /\ NOut(op) = 1
    BY <1>4 DEF NIn, NOut
  <2>2. Result(op, x) = <<HintValue(x[1])>>
    BY <1>4 DEF Result
  <2> QED BY <2>1, <2>2, WordsKept
<1>5. CASE op = "AssertZero"
  <2>1. NOut(op) = 0 /\ Result(op, x) = <<>>
    BY <1>5 DEF NOut, Result
  <2> QED BY <2>1
<1> QED BY <1>1, <1>2, <1>3, <1>4, <1>5 DEF Ops
------------------------------------------------------------------------------
(* The values of the wires *)
Read(g, i, v) == [k \in DOMAIN g.gates[i].ins |-> v[g.gates[i].ins[k]]]

Typed(f) == \A w \in DOMAIN f : f[w] \in Words

StartValue(g, f, w) ==
  IF IsConst(g, w) THEN g.wires[w].word ELSE IF w \in DOMAIN f THEN f[w] ELSE Zero

MadeBy(g, on, w) == \E i \in on : w \in Range(g.gates[i].outs)

(* What the gates in "on" make is as they make it, and the rest is given. *)
Sound(g, on, f, v) ==
  /\ v \in [DOMAIN g.wires -> Words]
  /\ \A w \in DOMAIN g.wires : ~MadeBy(g, on, w) => v[w] = StartValue(g, f, w)
  /\ \A i \in on : \A k \in DOMAIN g.gates[i].outs :
       v[g.gates[i].outs[k]] = Result(g.gates[i].op, Read(g, i, v))[k]

Compute(g, on, v, i) ==
  [w \in DOMAIN v |->
    IF w \in (IF i \in on THEN Range(g.gates[i].outs) ELSE {})
    THEN Result(g.gates[i].op, Read(g, i, v))[CHOOSE k \in DOMAIN g.gates[i].outs : g.gates[i].outs[k] = w]
    ELSE v[w]]

LEMMA GateParts ==
  ASSUME NEW g, GraphOK(g), NEW i \in DOMAIN g.gates
  PROVE  /\ g \in GraphSet /\ i \in Nat /\ g.gates[i].op \in Ops
         /\ DOMAIN g.gates[i].ins = 1..NIn(g.gates[i].op)
         /\ DOMAIN g.gates[i].outs = 1..NOut(g.gates[i].op)
         /\ \A k \in DOMAIN g.gates[i].ins : g.gates[i].ins[k] \in DOMAIN g.wires
         /\ \A k \in DOMAIN g.gates[i].ins : Ready(g, g.gates[i].ins[k], i)
         /\ \A k \in DOMAIN g.gates[i].outs :
              /\ g.gates[i].outs[k] \in DOMAIN g.wires
              /\ g.wires[g.gates[i].outs[k]] \in {Wire("Inout"), Wire("Internal")}
              /\ ~IsConst(g, g.gates[i].outs[k])
<1>1. g \in GraphSet /\ GateOK(g, i)
  BY DEF GraphOK
<1>2. \A kind : kind # "Constant" => Wire(kind).kind # "Constant"
  BY WireIs
<1> QED BY <1>1, <1>2, GraphParts DEF GateOK, Ready, IsConst

LEMMA ReadTyped ==
  ASSUME NEW g, GraphOK(g), NEW i \in DOMAIN g.gates, NEW v \in [DOMAIN g.wires -> Words]
  PROVE  Read(g, i, v) \in [1..NIn(g.gates[i].op) -> Words]
BY GateParts DEF Read

(* A wire is made by one gate, at one of its places. *)
LEMMA OneMaker ==
  ASSUME NEW g, GraphOK(g), NEW i \in DOMAIN g.gates, NEW k \in DOMAIN g.gates[i].outs,
         NEW j \in DOMAIN g.gates
  PROVE  /\ g.gates[i].outs[k] \in Range(g.gates[i].outs)
         /\ g.gates[i].outs[k] \in Range(g.gates[j].outs) => i = j
         /\ (CHOOSE m \in DOMAIN g.gates[i].outs : g.gates[i].outs[m] = g.gates[i].outs[k]) = k
<1>1. \A a, b \in DOMAIN g.gates : \A m \in DOMAIN g.gates[a].outs, n \in DOMAIN g.gates[b].outs :
        g.gates[a].outs[m] = g.gates[b].outs[n] => a = b /\ m = n
  BY DEF GraphOK, MadeOnce
<1>2. \A m \in DOMAIN g.gates[i].outs : g.gates[i].outs[m] = g.gates[i].outs[k] <=> m = k
  BY <1>1
<1> QED BY <1>1, <1>2 DEF Range

LEMMA ComputeTyped ==
  ASSUME NEW g, GraphOK(g), NEW on, NEW v \in [DOMAIN g.wires -> Words], NEW i \in DOMAIN g.gates
  PROVE  Compute(g, on, v, i) \in [DOMAIN g.wires -> Words]
<1>1. ASSUME NEW w \in DOMAIN g.wires, w \in Range(g.gates[i].outs)
      PROVE  Result(g.gates[i].op, Read(g, i, v))
               [CHOOSE k \in DOMAIN g.gates[i].outs : g.gates[i].outs[k] = w] \in Words
  <2>1. PICK k \in DOMAIN g.gates[i].outs : w = g.gates[i].outs[k]
    BY <1>1 DEF Range
  <2>2. (CHOOSE m \in DOMAIN g.gates[i].outs : g.gates[i].outs[m] = w) = k
    BY <2>1, OneMaker
  <2>3. k \in 1..NOut(g.gates[i].op) /\ g.gates[i].op \in Ops
    BY GateParts
  <2> QED BY <2>2, <2>3, ReadTyped, ResultTyped
<1> QED BY <1>1 DEF Compute

Computed(P, g, on, f) ==
  /\ P[0] = [w \in DOMAIN g.wires |-> StartValue(g, f, w)]
  /\ Values(g, on, f) = P[Len(g.gates)]
  /\ \A k \in 0..Len(g.gates) - 1 : P[k + 1] = Compute(g, on, P[k], k + 1)

LEMMA StartTyped ==
  ASSUME NEW g, g \in GraphSet, NEW f, Typed(f), NEW w \in DOMAIN g.wires
  PROVE  StartValue(g, f, w) \in Words
<1>1. g.wires[w] \in WireSet
  BY GraphParts
<1> QED BY <1>1, WireIs, WordsKept DEF StartValue, IsConst, Typed

LEMMA ValuesParts ==
  ASSUME NEW g, GraphOK(g), NEW on, NEW f, Typed(f)
  PROVE  \E P \in [0..Len(g.gates) -> [DOMAIN g.wires -> Words]] : Computed(P, g, on, f)
<1> DEFINE n == Len(g.gates)
           T == [DOMAIN g.wires -> Words]
           start == [w \in DOMAIN g.wires |-> StartValue(g, f, w)]
           s == [i \in DOMAIN g.gates |-> i]
           G == [p \in T \X (1..n) |-> Compute(g, on, p[1], p[2])]
           Is(it) == it = [d \in SUBSET (1..n) |->
                             IF d = {} THEN start ELSE Compute(g, on, it[d \ {Max(d)}], s[Max(d)])]
           it == CHOOSE x : Is(x)
<1>1. g \in GraphSet /\ n \in Nat /\ DOMAIN g.gates = 1..n /\ DOMAIN s = 1..n /\ \A i \in 1..n : s[i] = i
  BY GraphParts DEF GraphOK
<1>2. Values(g, on, f) = it[1..n]
  BY <1>1 DEF Values, FoldLeft, MapThenFoldSet, StartValue, Compute, Read
<1>3. start \in T
  BY <1>1, StartTyped
<1> HIDE DEF start, n, s
<1>4. \A v \in T : \A i \in 1..n : Compute(g, on, v, i) \in T
  BY <1>1, ComputeTyped
<1> HIDE DEF T
<1>5. G \in [T \X (1..n) -> T]
  BY <1>4
<1>6. PICK x \in [SUBSET (1..n) -> T] : FoldsBy(x, n, start, G)
  <2> HIDE DEF G
  <2> QED BY <1>1, <1>3, <1>5, FoldExists
<1>7. Is(x)
  <2>1. ASSUME NEW d \in SUBSET (1..n)
        PROVE  x[d] = IF d = {} THEN start ELSE Compute(g, on, x[d \ {Max(d)}], s[Max(d)])
    <3>1. CASE d = {}
      BY <1>6, <3>1 DEF FoldsBy
    <3>2. CASE d # {}
      <4>1. Max(d) \in d
        <5>1. d \subseteq 0..n
          BY <1>1
        <5> QED BY <1>1, <3>2, <5>1, MaxIs
      <4>2. PICK top : top = Max(d)
        OBVIOUS
      <4>3. top \in 1..n /\ x[d \ {top}] \in T /\ s[top] = top
        BY <1>1, <1>6, <4>1, <4>2
      <4>4. G[<<x[d \ {top}], top>>] = Compute(g, on, x[d \ {top}], top)
        BY <4>3
      <4> HIDE DEF G
      <4> QED BY <1>6, <3>2, <4>2, <4>3, <4>4 DEF FoldsBy
    <3> QED BY <3>1, <3>2
  <2> QED BY <1>6, <2>1
<1>8. Is(it)
  <2> HIDE DEF Is
  <2> QED BY <1>7
<1> HIDE DEF it
<1> DEFINE P == [k \in 0..n |-> it[1..k]]
<1>9. it[1..0] = start /\ \A k \in 0..n - 1 : it[1..k + 1] = Compute(g, on, it[1..k], k + 1)
  <2>1. \A d \in SUBSET (1..n) : it[d] = IF d = {} THEN start ELSE Compute(g, on, it[d \ {Max(d)}], s[Max(d)])
    BY <1>8
  <2>2. ASSUME NEW k \in 0..n - 1 PROVE it[1..k + 1] = Compute(g, on, it[1..k], k + 1)
    <3>1. k + 1 \in 1..n /\ s[k + 1] = k + 1
      BY <1>1
    <3> DEFINE d == 1..k + 1
    <3>2. d \in SUBSET (1..n) /\ d # {} /\ Max(d) = k + 1 /\ d \ {k + 1} = 1..k
      BY <1>1, PrefixMax
    <3> HIDE DEF d
    <3>3. it[d] = Compute(g, on, it[d \ {Max(d)}], s[Max(d)])
      BY <2>1, <3>2
    <3> QED BY <3>1, <3>2, <3>3 DEF d
  <2>3. 1..0 = {}
    BY <1>1
  <2> QED BY <2>1, <2>2, <2>3
<1>10. \A k \in 0..n : it[1..k] \in T
  <2> DEFINE S == {k \in 0..n : it[1..k] \in T}
  <2>1. 0 \in S
    <3>1. 0 \in 0..n /\ it[1..0] \in T
      BY <1>1, <1>3, <1>9
    <3> QED BY <3>1
  <2>2. ASSUME NEW k \in Nat, k < n, k \in S PROVE k + 1 \in S
    <3>1. k \in 0..n - 1 /\ k + 1 \in 1..n /\ k + 1 \in 0..n /\ it[1..k] \in T
      BY <1>1, <2>2
    <3>2. it[1..k + 1] \in T
      BY <1>4, <1>9, <3>1
    <3> QED BY <3>1, <3>2
  <2> HIDE DEF S
  <2>3. \A k \in 0..n : k \in S
    BY <1>1, <2>1, <2>2, UpwardClosed
  <2> QED BY <2>3 DEF S
<1>11. P \in [0..n -> T]
  BY <1>10
<1>12. P[0] = start /\ P[n] = it[1..n] /\ \A k \in 0..n - 1 : P[k + 1] = Compute(g, on, P[k], k + 1)
  BY <1>1, <1>9
<1> HIDE DEF P
<1> QED BY <1>2, <1>11, <1>12 DEF Computed, start, n, T

(* What gate i reads and makes is not touched by a later gate. *)
ComputeKept(g, on, v, j, u) ==
  /\ \A w \in DOMAIN g.wires : w \notin Range(g.gates[j].outs) \/ j \notin on => u[w] = v[w]
  /\ \A i \in DOMAIN g.gates : i <= j => Read(g, i, u) = Read(g, i, v)
  /\ j \in on => \A k \in DOMAIN g.gates[j].outs :
       u[g.gates[j].outs[k]] = Result(g.gates[j].op, Read(g, j, v))[k]
  /\ \A i \in DOMAIN g.gates : \A k \in DOMAIN g.gates[i].outs :
       i # j => u[g.gates[i].outs[k]] = v[g.gates[i].outs[k]]

LEMMA ComputeKeeps ==
  ASSUME NEW g, GraphOK(g), NEW on, NEW v \in [DOMAIN g.wires -> Words], NEW j \in DOMAIN g.gates
  PROVE  ComputeKept(g, on, v, j, Compute(g, on, v, j))
<1> DEFINE u == Compute(g, on, v, j)
<1>1. \A w \in DOMAIN g.wires : w \notin Range(g.gates[j].outs) \/ j \notin on => u[w] = v[w]
  BY DEF Compute
<1>2. ASSUME NEW i \in DOMAIN g.gates, i <= j PROVE Read(g, i, u) = Read(g, i, v)
  <2>1. ASSUME NEW k \in DOMAIN g.gates[i].ins PROVE u[g.gates[i].ins[k]] = v[g.gates[i].ins[k]]
    <3>1. Ready(g, g.gates[i].ins[k], i) /\ i \in Nat /\ j \in Nat
      BY GateParts
    <3>2. g.gates[i].ins[k] \in DOMAIN g.wires /\ g.gates[i].ins[k] \notin Range(g.gates[j].outs)
      BY <1>2, <3>1 DEF Ready
    <3> HIDE DEF u
    <3> QED BY <1>1, <3>2
  <2> HIDE DEF u
  <2> QED BY <2>1 DEF Read
<1>3. ASSUME j \in on, NEW k \in DOMAIN g.gates[j].outs
      PROVE  u[g.gates[j].outs[k]] = Result(g.gates[j].op, Read(g, j, v))[k]
  <2>1. /\ g.gates[j].outs[k] \in Range(g.gates[j].outs)
        /\ (CHOOSE m \in DOMAIN g.gates[j].outs : g.gates[j].outs[m] = g.gates[j].outs[k]) = k
    BY OneMaker
  <2>2. g.gates[j].outs[k] \in DOMAIN v
    BY GateParts
  <2> QED BY <1>3, <2>1, <2>2 DEF Compute
<1>4. ASSUME NEW i \in DOMAIN g.gates, NEW k \in DOMAIN g.gates[i].outs, i # j
      PROVE  u[g.gates[i].outs[k]] = v[g.gates[i].outs[k]]
  <2>1. g.gates[i].outs[k] \notin Range(g.gates[j].outs)
    BY <1>4, OneMaker
  <2>2. g.gates[i].outs[k] \in DOMAIN g.wires
    BY GateParts
  <2> HIDE DEF u
  <2> QED BY <1>1, <2>1, <2>2
<1> HIDE DEF u
<1>5. ComputeKept(g, on, v, j, u)
  BY <1>1, <1>2, <1>3, <1>4 DEF ComputeKept
<1> QED BY <1>5 DEF u

(* The valuation a graph is given is sound *)
LEMMA ValuesSound ==
  ASSUME NEW g, GraphOK(g), NEW on \in SUBSET DOMAIN g.gates, NEW f, Typed(f)
  PROVE  Sound(g, on, f, Values(g, on, f))
<1> DEFINE n == Len(g.gates)
           Upto_(k) == {i \in on : i <= k}
           Good(k, v) ==
             /\ \A w \in DOMAIN g.wires : ~MadeBy(g, Upto_(k), w) => v[w] = StartValue(g, f, w)
             /\ \A i \in Upto_(k) : \A m \in DOMAIN g.gates[i].outs :
                  v[g.gates[i].outs[m]] = Result(g.gates[i].op, Read(g, i, v))[m]
<1>1. PICK P \in [0..n -> [DOMAIN g.wires -> Words]] : Computed(P, g, on, f)
  BY ValuesParts
<1>2. n \in Nat /\ DOMAIN g.gates = 1..n
  BY GraphParts DEF GraphOK
<1>3. /\ P[0] = [w \in DOMAIN g.wires |-> StartValue(g, f, w)] /\ Values(g, on, f) = P[n]
      /\ \A k \in 0..n - 1 : P[k + 1] = Compute(g, on, P[k], k + 1)
  BY <1>1 DEF Computed
<1>4. Good(0, P[0])
  <2>1. Upto_(0) = {}
    BY <1>2
  <2> QED BY <1>3, <2>1
<1>5. ASSUME NEW k \in 0..n - 1, Good(k, P[k]) PROVE Good(k + 1, P[k + 1])
  <2> DEFINE v == P[k]
             u == P[k + 1]
             j == k + 1
  <2>1. k \in 0..n /\ j \in DOMAIN g.gates /\ v \in [DOMAIN g.wires -> Words] /\ u = Compute(g, on, v, j)
    BY <1>2, <1>3
  <2>2. Upto_(j) = Upto_(k) \cup (on \cap {j}) /\ j \notin Upto_(k) /\ \A i \in Upto_(k) : i < j
    BY <1>2
  <2>3. Good(k, v)
    BY <1>5
  <2> HIDE DEF v, u, j, Upto_
  <2>4. /\ \A w \in DOMAIN g.wires : w \notin Range(g.gates[j].outs) \/ j \notin on => u[w] = v[w]
        /\ \A i \in DOMAIN g.gates : i <= j => Read(g, i, u) = Read(g, i, v)
        /\ j \in on => \A m \in DOMAIN g.gates[j].outs :
             u[g.gates[j].outs[m]] = Result(g.gates[j].op, Read(g, j, v))[m]
        /\ \A i \in DOMAIN g.gates : \A m \in DOMAIN g.gates[i].outs :
             i # j => u[g.gates[i].outs[m]] = v[g.gates[i].outs[m]]
    <3>1. ComputeKept(g, on, v, j, u)
      BY <2>1, ComputeKeeps
    <3> QED BY <3>1 DEF ComputeKept
  <2>5. ASSUME NEW w \in DOMAIN g.wires, ~MadeBy(g, Upto_(j), w) PROVE u[w] = StartValue(g, f, w)
    <3>1. ~MadeBy(g, Upto_(k), w) /\ (w \notin Range(g.gates[j].outs) \/ j \notin on)
      BY <2>2, <2>5 DEF MadeBy
    <3> QED BY <2>3, <2>4, <3>1
  <2>6. ASSUME NEW i \in Upto_(j), NEW m \in DOMAIN g.gates[i].outs
        PROVE  u[g.gates[i].outs[m]] = Result(g.gates[i].op, Read(g, i, u))[m]
    <3>1. i \in DOMAIN g.gates /\ i <= j
      BY <1>2, <2>1 DEF Upto_
    <3>2. Read(g, i, u) = Read(g, i, v)
      BY <2>4, <3>1
    <3>3. CASE i = j
      <4>1. j \in on
        BY <2>2, <3>3
      <4> QED BY <2>4, <3>2, <3>3, <4>1
    <3>4. CASE i # j
      <4>1. i \in Upto_(k)
        BY <2>2, <3>4
      <4> QED BY <2>3, <2>4, <3>1, <3>2, <3>4, <4>1
    <3> QED BY <3>3, <3>4
  <2>7. Good(j, u)
    BY <2>5, <2>6
  <2> HIDE DEF Good
  <2> QED BY <2>7 DEF j, u
<1> HIDE DEF Good
<1>6. Good(n, P[n])
  <2> DEFINE S == {k \in 0..n : Good(k, P[k])}
  <2>1. 0 \in S
    BY <1>2, <1>4
  <2>2. ASSUME NEW k \in Nat, k < n, k \in S PROVE k + 1 \in S
    <3>1. k \in 0..n - 1 /\ k + 1 \in 0..n
      BY <1>2, <2>2
    <3> QED BY <1>5, <2>2, <3>1
  <2> HIDE DEF S
  <2>3. \A k \in 0..n : k \in S
    BY <1>2, <2>1, <2>2, UpwardClosed
  <2> QED BY <1>2, <2>3 DEF S
<1>7. Upto_(n) = on
  BY <1>2
<1>8. P[n] \in [DOMAIN g.wires -> Words]
  BY <1>2
<1> HIDE DEF Upto_
<1> QED BY <1>3, <1>6, <1>7, <1>8 DEF Good, Sound

(* and there is no other. *)
LEMMA SoundUnique ==
  ASSUME NEW g, GraphOK(g), NEW on \in SUBSET DOMAIN g.gates, NEW f,
         NEW v, Sound(g, on, f, v), NEW u, Sound(g, on, f, u)
  PROVE  v = u
<1> DEFINE Differ(i) == \E k \in DOMAIN g.gates[i].outs : v[g.gates[i].outs[k]] # u[g.gates[i].outs[k]]
           S == {i \in on : Differ(i)}
<1>1. /\ v \in [DOMAIN g.wires -> Words] /\ u \in [DOMAIN g.wires -> Words]
      /\ \A w \in DOMAIN g.wires : ~MadeBy(g, on, w) => v[w] = u[w]
  BY DEF Sound
<1>2. on \subseteq Nat
  <2>1. DOMAIN g.gates = 1..Len(g.gates) /\ Len(g.gates) \in Nat
    BY GraphParts DEF GraphOK
  <2> QED BY <2>1
<1>3. ASSUME NEW w \in DOMAIN g.wires, v[w] # u[w] PROVE \E i \in S : w \in Range(g.gates[i].outs)
  <2>1. PICK i \in on : w \in Range(g.gates[i].outs)
    BY <1>1, <1>3 DEF MadeBy
  <2>2. Differ(i)
    BY <1>3, <2>1 DEF Range
  <2> QED BY <2>1, <2>2
<1>4. ASSUME S # {} PROVE FALSE
  <2>1. S \subseteq Nat
    BY <1>2
  <2>2. PICK i \in S : \A j \in S : i <= j
    <3> HIDE DEF S
    <3> QED BY <1>4, <2>1, LeastElement
  <2>3. i \in on /\ i \in DOMAIN g.gates
    OBVIOUS
  <2>4. ASSUME NEW k \in DOMAIN g.gates[i].ins PROVE v[g.gates[i].ins[k]] = u[g.gates[i].ins[k]]
    <3>1. Ready(g, g.gates[i].ins[k], i)
      BY <2>3, GateParts
    <3>2. ASSUME v[g.gates[i].ins[k]] # u[g.gates[i].ins[k]] PROVE FALSE
      <4>1. PICK j \in S : g.gates[i].ins[k] \in Range(g.gates[j].outs)
        BY <1>3, <3>1, <3>2 DEF Ready
      <4>2. j < i /\ i <= j /\ j \in Nat /\ i \in Nat
        BY <2>1, <2>2, <3>1, <4>1 DEF Ready
      <4> QED BY <4>2
    <3> QED BY <3>2
  <2>5. Read(g, i, v) = Read(g, i, u)
    BY <2>4 DEF Read
  <2>6. \A k \in DOMAIN g.gates[i].outs : v[g.gates[i].outs[k]] = u[g.gates[i].outs[k]]
    BY <2>3, <2>5 DEF Sound
  <2> QED BY <2>6
<1>5. \A w \in DOMAIN g.wires : v[w] = u[w]
  <2> HIDE DEF S
  <2> QED BY <1>3, <1>4
<1> QED BY <1>1, <1>5
------------------------------------------------------------------------------
(* Steps that keep every value *)
V(g, f)   == Values(g, DOMAIN g.gates, f)
Sat(g, f) == Satisfied(g, DOMAIN g.gates, V(g, f))
Fits(g, f, v) == Sound(g, DOMAIN g.gates, f, v)

DeclaredOf(g) ==
  {w \in DOMAIN g.wires : g.wires[w].kind = "Inout" /\ \A i \in DOMAIN g.gates : w \notin Range(g.gates[i].outs)}
    \cup {w \in DOMAIN g.wires : g.wires[w].kind = "Witness"}

(* Wire x has the value of wire y in every honest witness. *)
Equal(g, x, y) == \A f \in Assignments(DeclaredOf(g)) : V(g, f)[x] = V(g, f)[y]

SameValues(g, h) == \A f \in Assignments(DeclaredOf(g)) :
  (\A w \in DOMAIN g.wires : V(h, f)[w] = V(g, f)[w]) /\ (Sat(h, f) <=> Sat(g, f))

Step(g, h) ==
  /\ GraphOK(g) /\ GraphOK(h) /\ DOMAIN g.wires \subseteq DOMAIN h.wires
  /\ \A w \in DOMAIN g.wires : h.wires[w] = g.wires[w]
  /\ DeclaredOf(h) = DeclaredOf(g) /\ SameValues(g, h)

LEMMA AssignmentTyped ==
  ASSUME NEW D, NEW f \in Assignments(D)
  PROVE  Typed(f)
BY DEF Assignments, Typed

LEMMA VFits ==
  ASSUME NEW g, GraphOK(g), NEW D, NEW f \in Assignments(D)
  PROVE  Fits(g, f, V(g, f)) /\ V(g, f) \in [DOMAIN g.wires -> Words]
<1>1. Fits(g, f, V(g, f))
  BY AssignmentTyped, ValuesSound DEF Fits, V
<1> QED BY <1>1 DEF Fits, Sound

LEMMA VUnique ==
  ASSUME NEW g, GraphOK(g), NEW D, NEW f \in Assignments(D), NEW v, Fits(g, f, v)
  PROVE  V(g, f) = v
<1>1. Fits(g, f, V(g, f))
  BY VFits
<1> QED BY <1>1, SoundUnique DEF Fits

LEMMA StepSelf == ASSUME NEW g, GraphOK(g) PROVE Step(g, g)
BY DEF Step, SameValues

LEMMA StepTwice ==
  ASSUME NEW g, NEW h, Step(g, h), NEW k, Step(h, k)
  PROVE  Step(g, k)
<1>1. SameValues(g, k)
  <2>1. DeclaredOf(h) = DeclaredOf(g) /\ SameValues(g, h) /\ SameValues(h, k) /\ DOMAIN g.wires \subseteq DOMAIN h.wires
    BY DEF Step
  <2> QED BY <2>1 DEF SameValues
<1> QED BY <1>1 DEF Step

LEMMA AlikeDeclared ==
  ASSUME NEW g \in GraphSet, NEW h, Alike(g, h)
  PROVE  DeclaredOf(h) = DeclaredOf(g)
BY AlikeParts DEF DeclaredOf

(* Gates may come to read other wires of the same values. *)
LEMMA RereadStep ==
  ASSUME NEW g, GraphOK(g), NEW h, Alike(g, h),
         \A i \in DOMAIN g.gates : \A k \in DOMAIN g.gates[i].ins :
           Ready(g, h.gates[i].ins[k], i) /\ Equal(g, h.gates[i].ins[k], g.gates[i].ins[k])
  PROVE  /\ Step(g, h)
         /\ \A f \in Assignments(DeclaredOf(g)) : V(h, f) = V(g, f)
         /\ \A f \in Assignments(DeclaredOf(g)) : \A i \in DOMAIN g.gates :
              Read(h, i, V(h, f)) = Read(g, i, V(g, f))
<1>1. GraphOK(h)
  BY AlikeOK
<1>2. /\ g \in GraphSet /\ h.wires = g.wires /\ DOMAIN h.gates = DOMAIN g.gates
      /\ \A i \in DOMAIN g.gates : /\ h.gates[i].op = g.gates[i].op /\ h.gates[i].outs = g.gates[i].outs
                                   /\ DOMAIN h.gates[i].ins = DOMAIN g.gates[i].ins
  BY AlikeParts DEF GraphOK
<1>3. DeclaredOf(h) = DeclaredOf(g)
  BY <1>2, AlikeDeclared
<1>4. ASSUME NEW f \in Assignments(DeclaredOf(g))
      PROVE  /\ V(h, f) = V(g, f)
             /\ \A i \in DOMAIN g.gates : Read(h, i, V(h, f)) = Read(g, i, V(g, f))
             /\ Sat(h, f) <=> Sat(g, f)
  <2> DEFINE v == V(g, f)
  <2>1. Fits(g, f, v)
    BY VFits
  <2>2. \A i \in DOMAIN g.gates : Read(h, i, v) = Read(g, i, v)
    BY <1>2 DEF Equal, Read
  <2> HIDE DEF v
  <2>3. Fits(h, f, v)
    <3>1. v \in [DOMAIN h.wires -> Words]
      BY <1>2, <2>1 DEF Fits, Sound
    <3>2. \A w \in DOMAIN h.wires : ~MadeBy(h, DOMAIN h.gates, w) => v[w] = StartValue(h, f, w)
      <4>1. \A w \in DOMAIN h.wires : /\ MadeBy(h, DOMAIN h.gates, w) <=> MadeBy(g, DOMAIN g.gates, w)
                                      /\ StartValue(h, f, w) = StartValue(g, f, w)
        BY <1>2 DEF MadeBy, StartValue, IsConst
      <4> QED BY <1>2, <2>1, <4>1 DEF Fits, Sound
    <3>3. ASSUME NEW i \in DOMAIN h.gates, NEW k \in DOMAIN h.gates[i].outs
          PROVE  v[h.gates[i].outs[k]] = Result(h.gates[i].op, Read(h, i, v))[k]
      <4>1. v[g.gates[i].outs[k]] = Result(g.gates[i].op, Read(g, i, v))[k]
        BY <1>2, <2>1 DEF Fits, Sound
      <4> QED BY <1>2, <2>2, <4>1
    <3> QED BY <3>1, <3>2, <3>3 DEF Fits, Sound
  <2>4. V(h, f) = v
    BY <1>1, <2>3, VUnique
  <2>5. Sat(h, f) <=> Sat(g, f)
    <3>1. Sat(h, f) <=> \A i \in DOMAIN h.gates : Holds(h.gates[i].op, Read(h, i, v))
      BY <2>4 DEF Sat, Satisfied, Read
    <3>2. Sat(g, f) <=> \A i \in DOMAIN g.gates : Holds(g.gates[i].op, Read(g, i, v))
      BY DEF Sat, Satisfied, Read, v
    <3> QED BY <1>2, <2>2, <3>1, <3>2
  <2> QED BY <2>2, <2>4, <2>5 DEF v
<1>5. SameValues(g, h)
  BY <1>4 DEF SameValues
<1>6. Step(g, h)
  BY <1>1, <1>2, <1>3, <1>5 DEF Step
<1> QED BY <1>4, <1>6

(* A wire is replaced by one of its value, wherever an index says. *)
LEMMA ReplaceStep ==
  ASSUME NEW g, GraphOK(g), NEW index, UsesOK(g, index), NEW old, NEW new \in Nat,
         \A i \in DOMAIN g.gates : Ready(g, old, i) => Ready(g, new, i), Equal(g, new, old)
  PROVE  /\ Step(g, ReplaceWire(g, index, old, new)) /\ Alike(g, ReplaceWire(g, index, old, new))
         /\ UsesOK(ReplaceWire(g, index, old, new), index)
         /\ Replaced(g, ReplaceWire(g, index, old, new), Range(UsesOf(index, old)), old, new)
<1> DEFINE h == ReplaceWire(g, index, old, new)
<1>1. g \in GraphSet /\ Alike(g, h) /\ Replaced(g, h, Range(UsesOf(index, old)), old, new)
  BY ReplaceIs DEF GraphOK
<1> HIDE DEF h
<1>2. ASSUME NEW i \in DOMAIN g.gates, NEW k \in DOMAIN g.gates[i].ins
      PROVE  Ready(g, h.gates[i].ins[k], i) /\ Equal(g, h.gates[i].ins[k], g.gates[i].ins[k])
  <2>1. Ready(g, g.gates[i].ins[k], i)
    BY GateParts
  <2>2. h.gates[i].ins[k] = g.gates[i].ins[k] \/ (g.gates[i].ins[k] = old /\ h.gates[i].ins[k] = new)
    BY <1>1 DEF Replaced
  <2> QED BY <2>1, <2>2 DEF Equal
<1>3. Step(g, h)
  BY <1>1, <1>2, RereadStep
<1>4. UsesOK(h, index)
  <2>1. /\ DOMAIN h.gates = DOMAIN g.gates
        /\ \A i \in DOMAIN g.gates : h.gates[i].outs = g.gates[i].outs
    BY <1>1, AlikeParts
  <2> QED BY <2>1 DEF UsesOK
<1> QED BY <1>1, <1>3, <1>4 DEF h

(* A constant's wire is there once it was asked for, and changes nothing. *)
LEMMA ConstantStep ==
  ASSUME NEW g, GraphOK(g), NEW word \in Words
  PROVE  LET h == AddConstant(g, word)
             c == ConstantWire(h, word)
         IN  /\ Step(g, h) /\ h.gates = g.gates
             /\ c \in DOMAIN h.wires /\ h.wires[c] = Constant(word)
<1> DEFINE h == AddConstant(g, word)
           n == Len(g.wires)
<1>1. /\ g \in GraphSet /\ DOMAIN g.wires = 1..n /\ n \in Nat /\ g.wires \in Seq(WireSet) /\ Constant(word) \in WireSet
      /\ g = [wires |-> g.wires, gates |-> g.gates] /\ g.gates \in Seq(GateSet)
  BY GraphParts, WireIs DEF GraphOK
<1>2. ASSUME NEW k, \E w \in DOMAIN k.wires : k.wires[w] = Constant(word)
      PROVE  ConstantWire(k, word) \in DOMAIN k.wires /\ k.wires[ConstantWire(k, word)] = Constant(word)
  BY <1>2 DEF ConstantWire
<1>3. CASE Constant(word) \in Range(g.wires)
  <2>1. h = g
    BY <1>3 DEF AddConstant
  <2>2. \E w \in DOMAIN g.wires : g.wires[w] = Constant(word)
    BY <1>3 DEF Range
  <2> HIDE DEF h
  <2>3. Step(g, h) /\ h.gates = g.gates
    BY <2>1, StepSelf
  <2>4. ConstantWire(h, word) \in DOMAIN h.wires /\ h.wires[ConstantWire(h, word)] = Constant(word)
    BY <1>2, <2>1, <2>2
  <2> QED BY <2>3, <2>4 DEF h
<1>4. CASE Constant(word) \notin Range(g.wires)
  <2> DEFINE wires == Append(g.wires, Constant(word))
  <2>1. h = [wires |-> wires, gates |-> g.gates]
    <3>1. h = [g EXCEPT !.wires = wires]
      BY <1>4 DEF AddConstant
    <3> HIDE DEF wires, h
    <3> QED BY <1>1, <3>1
  <2>2. /\ wires \in Seq(WireSet) /\ Len(wires) = n + 1 /\ DOMAIN wires = 1..n + 1
        /\ \A w \in 1..n : wires[w] = g.wires[w] /\ w \in 1..n + 1
        /\ wires[n + 1] = Constant(word) /\ n + 1 \in 1..n + 1
        /\ \A w \in 1..n + 1 : w \in 1..n \/ w = n + 1
    BY <1>1
  <2> HIDE DEF wires, h, n
  <2>3. h \in GraphSet /\ h.wires = wires /\ h.gates = g.gates
    BY <1>1, <2>1, <2>2 DEF GraphSet
  <2>4. \A w \in 1..n : IsConst(h, w) <=> IsConst(g, w)
    BY <2>2, <2>3 DEF IsConst
  <2>5. \A w \in 1..n : g.wires[w] # Constant(word)
    BY <1>1, <1>4 DEF Range
  <2>6. GraphOK(h)
    <3>1. Interned(h)
      <4>1. ASSUME NEW a \in 1..n + 1, NEW b \in 1..n + 1, IsConst(h, a), wires[a] = wires[b] PROVE a = b
        <5>1. CASE a \in 1..n /\ b \in 1..n
          BY <1>1, <2>2, <2>4, <4>1, <5>1 DEF GraphOK, Interned
        <5>2. CASE a = n + 1 /\ b \in 1..n
          BY <2>2, <2>5, <4>1, <5>2
        <5>3. CASE a \in 1..n /\ b = n + 1
          BY <2>2, <2>5, <4>1, <5>3
        <5>4. CASE a = n + 1 /\ b = n + 1
          BY <5>4
        <5> QED BY <2>2, <5>1, <5>2, <5>3, <5>4
      <4> QED BY <2>2, <2>3, <4>1 DEF Interned
    <3>2. MadeOnce(h)
      BY <2>3 DEF GraphOK, MadeOnce
    <3>3. ASSUME NEW i \in DOMAIN h.gates PROVE GateOK(h, i)
      <4>1. GateOK(g, i)
        BY <2>3 DEF GraphOK
      <4>2. \A x : Ready(g, x, i) => Ready(h, x, i)
        BY <1>1, <2>2, <2>3 DEF Ready
      <4>3. \A x \in DOMAIN g.wires : x \in DOMAIN h.wires /\ h.wires[x] = g.wires[x]
        BY <1>1, <2>2, <2>3
      <4> QED BY <2>3, <4>1, <4>2, <4>3 DEF GateOK
    <3>4. InternalMade(h)
      <4>1. wires[n + 1].kind = "Constant"
        BY <2>2, WireIs
      <4>2. \A w \in DOMAIN h.wires : h.wires[w].kind = "Internal" =>
              w \in DOMAIN g.wires /\ g.wires[w].kind = "Internal"
        BY <1>1, <2>2, <2>3, <4>1
      <4> QED BY <2>3, <4>2 DEF GraphOK, InternalMade
    <3> QED BY <2>3, <3>1, <3>2, <3>3, <3>4 DEF GraphOK
  <2>7. DeclaredOf(h) = DeclaredOf(g)
    <3>1. wires[n + 1].kind = "Constant"
      BY <2>2, WireIs
    <3>2. \A w \in 1..n + 1 : wires[w].kind = "Inout" \/ wires[w].kind = "Witness" => w \in 1..n
      BY <2>2, <3>1
    <3>3. DOMAIN h.wires = 1..n + 1 /\ \A w \in 1..n : h.wires[w] = g.wires[w]
      BY <2>2, <2>3
    <3> QED BY <1>1, <2>2, <2>3, <3>2, <3>3 DEF DeclaredOf
  <2>8. ASSUME NEW f \in Assignments(DeclaredOf(g))
        PROVE  (\A w \in DOMAIN g.wires : V(h, f)[w] = V(g, f)[w]) /\ (Sat(h, f) <=> Sat(g, f))
    <3> DEFINE v == V(g, f)
               u == [w \in 1..n + 1 |-> IF w \in 1..n THEN v[w] ELSE word]
    <3>1. Fits(g, f, v) /\ v \in [1..n -> Words]
      BY <1>1, VFits
    <3> HIDE DEF v
    <3>2. u \in [DOMAIN h.wires -> Words] /\ \A w \in 1..n : u[w] = v[w]
      BY <2>2, <2>3, <3>1
    <3>3. u[n + 1] = word /\ n + 1 \notin 1..n
      BY <1>1, <2>2
    <3> HIDE DEF u
    <3>4. \A i \in DOMAIN g.gates : Read(h, i, u) = Read(g, i, v)
      <4>1. \A i \in DOMAIN g.gates : \A k \in DOMAIN g.gates[i].ins : g.gates[i].ins[k] \in 1..n
        BY <1>1, GateParts
      <4> QED BY <2>3, <3>2, <4>1 DEF Read
    <3>5. \A w \in DOMAIN h.wires : ~MadeBy(h, DOMAIN h.gates, w) => u[w] = StartValue(h, f, w)
      <4>1. ASSUME NEW w \in 1..n, ~MadeBy(h, DOMAIN h.gates, w) PROVE u[w] = StartValue(h, f, w)
        <5>1. ~MadeBy(g, DOMAIN g.gates, w)
          BY <2>3, <4>1 DEF MadeBy
        <5>2. v[w] = StartValue(g, f, w)
          BY <1>1, <3>1, <5>1 DEF Fits, Sound
        <5>3. StartValue(h, f, w) = StartValue(g, f, w)
          BY <2>2, <2>3 DEF StartValue, IsConst
        <5> QED BY <3>2, <5>2, <5>3
      <4>2. u[n + 1] = StartValue(h, f, n + 1)
        BY <2>2, <2>3, <3>3, WireIs DEF StartValue, IsConst
      <4> QED BY <2>2, <2>3, <4>1, <4>2
    <3>6. ASSUME NEW i \in DOMAIN h.gates, NEW k \in DOMAIN h.gates[i].outs
          PROVE  u[h.gates[i].outs[k]] = Result(h.gates[i].op, Read(h, i, u))[k]
      <4>1. v[g.gates[i].outs[k]] = Result(g.gates[i].op, Read(g, i, v))[k]
        BY <2>3, <3>1 DEF Fits, Sound
      <4>2. g.gates[i].outs[k] \in 1..n
        BY <1>1, <2>3, GateParts
      <4> QED BY <2>3, <3>2, <3>4, <4>1, <4>2
    <3>7. Fits(h, f, u)
      BY <3>2, <3>5, <3>6 DEF Fits, Sound
    <3>8. V(h, f) = u
      BY <2>6, <3>7, VUnique
    <3>9. Sat(h, f) <=> Sat(g, f)
      <4>1. Sat(h, f) <=> \A i \in DOMAIN h.gates : Holds(h.gates[i].op, Read(h, i, u))
        BY <3>8 DEF Sat, Satisfied, Read
      <4>2. Sat(g, f) <=> \A i \in DOMAIN g.gates : Holds(g.gates[i].op, Read(g, i, v))
        BY DEF Sat, Satisfied, Read, v
      <4> QED BY <2>3, <3>4, <4>1, <4>2
    <3> QED BY <1>1, <3>2, <3>8, <3>9 DEF v
  <2>9. Step(g, h)
    <3>1. DOMAIN g.wires \subseteq DOMAIN h.wires /\ \A w \in DOMAIN g.wires : h.wires[w] = g.wires[w]
      BY <1>1, <2>2, <2>3
    <3> QED BY <2>6, <2>7, <2>8, <3>1 DEF Step, SameValues
  <2>10. ConstantWire(h, word) \in DOMAIN h.wires /\ h.wires[ConstantWire(h, word)] = Constant(word)
    <3>1. \E w \in DOMAIN h.wires : h.wires[w] = Constant(word)
      BY <2>2, <2>3
    <3> QED BY <1>2, <3>1
  <2> QED BY <2>3, <2>9, <2>10 DEF h
<1> QED BY <1>3, <1>4
------------------------------------------------------------------------------
(* Folds over sequences *)
LEMMA FoldTop ==
  ASSUME NEW n \in Nat, NEW T, NEW x \in [SUBSET (1..n) -> T], NEW d \in SUBSET (1..n), d # {}
  PROVE  Max(d) \in 1..n /\ d \ {Max(d)} \in SUBSET (1..n) /\ x[d \ {Max(d)}] \in T
<1>1. d \subseteq 0..n
  OBVIOUS
<1>2. Max(d) \in d
  BY <1>1, MaxIs
<1> QED BY <1>2

(* An index just built names no gate that makes the wire. *)
LEMMA IndexOK ==
  ASSUME NEW g, GraphOK(g)
  PROVE  UsesOK(g, WireUses(g))
<1>1. g \in GraphSet
  BY DEF GraphOK
<1>2. ASSUME NEW w, NEW i \in DOMAIN g.gates, w \in Range(g.gates[i].ins) PROVE w \notin Range(g.gates[i].outs)
  <2>1. PICK k \in DOMAIN g.gates[i].ins : w = g.gates[i].ins[k]
    BY <1>2 DEF Range
  <2>2. Ready(g, w, i) /\ i \in Nat
    BY <2>1, GateParts
  <2> QED BY <2>2 DEF Ready
<1> QED BY <1>1, <1>2, UsesAre DEF UsesOK

(* The first readers to look at are those of the constants. *)
LEMMA ConstReadersAre ==
  ASSUME NEW g, GraphOK(g)
  PROVE  /\ ConstReaders(g) \in Seq(Nat) /\ Distinct(ConstReaders(g))
         /\ Range(ConstReaders(g)) \subseteq DOMAIN g.gates
         /\ \A i \in DOMAIN g.gates : \A k \in DOMAIN g.gates[i].ins :
              g.gates[i].ins[k] \in DOMAIN g.wires /\ IsConst(g, g.gates[i].ins[k])
              => i \in Range(ConstReaders(g))
<1> DEFINE all == [w \in DOMAIN g.wires |-> w]
           consts == {w \in DOMAIN g.wires : IsConst(g, w)}
           s == Select(all, consts)
           n == Len(s)
           index == WireUses(g)
           T == {q \in Seq(Nat) : Distinct(q) /\ Range(q) \subseteq DOMAIN g.gates}
           Op(q, w) == Unseen(q, UsesOf(index, w))
           G == [p \in T \X (1..n) |-> Op(p[1], s[p[2]])]
           Is(it) == it = [d \in SUBSET (1..n) |-> IF d = {} THEN <<>> ELSE Op(it[d \ {Max(d)}], s[Max(d)])]
           it == CHOOSE x : Is(x)
<1>0. g \in GraphSet
  BY DEF GraphOK
<1>1. all \in Seq(Nat) /\ Range(all) = DOMAIN g.wires
  BY <1>0, GraphParts, CountIs
<1>2. s \in Seq(Nat) /\ Range(s) = consts
  <2> HIDE DEF all, consts
  <2>1. Range(s) = Range(all) \cap consts /\ s \in Seq(Nat)
    BY <1>1, SelectIs
  <2> QED BY <1>1, <2>1 DEF consts
<1>3. ConstReaders(g) = it[1..n]
  <2>1. n \in Nat /\ DOMAIN s = 1..n
    BY <1>2
  <2>2. ConstReaders(g) = FoldLeft(Op, <<>>, s)
    BY DEF ConstReaders
  <2> HIDE DEF s
  <2> QED BY <2>1, <2>2 DEF FoldLeft, MapThenFoldSet
<1> HIDE DEF all, s
<1>4. n \in Nat /\ DOMAIN s = 1..n /\ \A k \in 1..n : s[k] \in Nat
  BY <1>2
<1> HIDE DEF n
<1>5. UsesOK(g, index)
  BY IndexOK
<1> HIDE DEF index
<1>6. \A w : /\ UsesOf(index, w) \in Seq(Nat) /\ Distinct(UsesOf(index, w))
             /\ Range(UsesOf(index, w)) \subseteq DOMAIN g.gates
  BY <1>5, UsesOfIs
<1>7. ASSUME NEW q \in T, NEW w
      PROVE  Op(q, w) \in T /\ Range(Op(q, w)) = Range(q) \cup Range(UsesOf(index, w))
  BY <1>6, UnseenIs
<1>8. <<>> \in T
  BY DEF Range, Distinct
<1> HIDE DEF T, Op
<1>9. G \in [T \X (1..n) -> T]
  BY <1>7
<1>10. PICK x \in [SUBSET (1..n) -> T] : FoldsBy(x, n, <<>>, G)
  <2> HIDE DEF G
  <2> QED BY <1>4, <1>8, <1>9, FoldExists
<1>11. Is(x)
  <2>1. ASSUME NEW d \in SUBSET (1..n), d # {} PROVE x[d] = Op(x[d \ {Max(d)}], s[Max(d)])
    <3>1. Max(d) \in 1..n /\ x[d \ {Max(d)}] \in T
      BY <1>4, <2>1, FoldTop
    <3>2. G[<<x[d \ {Max(d)}], Max(d)>>] = Op(x[d \ {Max(d)}], s[Max(d)])
      BY <3>1
    <3> HIDE DEF G
    <3> QED BY <1>10, <2>1, <3>2 DEF FoldsBy
  <2>2. x[{}] = <<>>
    BY <1>10 DEF FoldsBy
  <2> QED BY <1>10, <2>1, <2>2
<1>12. Is(it)
  <2> HIDE DEF Is
  <2> QED BY <1>11
<1> HIDE DEF it
<1>13. it[1..0] = <<>> /\ \A k \in 0..n - 1 : it[1..k + 1] = Op(it[1..k], s[k + 1])
  <2>1. \A d \in SUBSET (1..n) : it[d] = IF d = {} THEN <<>> ELSE Op(it[d \ {Max(d)}], s[Max(d)])
    BY <1>12
  <2>2. ASSUME NEW k \in 0..n - 1 PROVE it[1..k + 1] = Op(it[1..k], s[k + 1])
    BY <1>4, <2>1, PrefixMax
  <2>3. 1..0 = {}
    BY <1>4
  <2> QED BY <2>1, <2>2, <2>3
<1> DEFINE Good(k) == it[1..k] \in T /\ \A m \in 1..k : Range(UsesOf(index, s[m])) \subseteq Range(it[1..k])
           S == {k \in 0..n : Good(k)}
<1>14. 0 \in S
  BY <1>4, <1>8, <1>13
<1>15. ASSUME NEW k \in Nat, k < n, k \in S PROVE k + 1 \in S
  <2>1. k \in 0..n - 1 /\ k + 1 \in 1..n /\ k + 1 \in 0..n /\ Good(k) /\ \A m \in 1..k + 1 : m \in 1..k \/ m = k + 1
    <3> HIDE DEF Good
    <3> QED BY <1>4, <1>15
  <2>2. /\ it[1..k + 1] \in T
        /\ Range(it[1..k + 1]) = Range(it[1..k]) \cup Range(UsesOf(index, s[k + 1]))
    BY <1>7, <1>13, <2>1
  <2>3. Good(k + 1)
    BY <2>1, <2>2
  <2> HIDE DEF Good
  <2> QED BY <2>1, <2>3
<1>16. Good(n)
  <2> HIDE DEF S
  <2>1. \A k \in 0..n : k \in S
    BY <1>4, <1>14, <1>15, UpwardClosed
  <2> QED BY <1>4, <2>1 DEF S
<1>17. ASSUME NEW i \in DOMAIN g.gates, NEW k \in DOMAIN g.gates[i].ins,
              g.gates[i].ins[k] \in DOMAIN g.wires, IsConst(g, g.gates[i].ins[k])
       PROVE  i \in Range(it[1..n])
  <2> DEFINE w == g.gates[i].ins[k]
  <2>1. PICK m \in 1..n : s[m] = w
    BY <1>2, <1>4, <1>17 DEF Range
  <2>2. i \in Range(UsesOf(index, w))
    <3>1. w \in Range(g.gates[i].ins)
      BY DEF Range
    <3> QED BY <1>0, <1>17, <3>1, UsesAre DEF UsesOf, index
  <2> QED BY <1>16, <2>1, <2>2
<1>18. it[1..n] \in T
  BY <1>16
<1> QED BY <1>3, <1>17, <1>18 DEF T
------------------------------------------------------------------------------
(* Constant propagation *)
ConstWords(g, i) == [k \in DOMAIN g.gates[i].ins |-> g.wires[g.gates[i].ins[k]].word]
AllConst(g, i)   == \A k \in DOMAIN g.gates[i].ins : IsConst(g, g.gates[i].ins[k])
Unread(g, w)     == \A i \in DOMAIN g.gates : \A k \in DOMAIN g.gates[i].ins : g.gates[i].ins[k] # w

SameGates(g, h) ==
  /\ DOMAIN h.gates = DOMAIN g.gates
  /\ \A i \in DOMAIN g.gates : /\ h.gates[i].op = g.gates[i].op /\ h.gates[i].outs = g.gates[i].outs
                               /\ DOMAIN h.gates[i].ins = DOMAIN g.gates[i].ins

(* A constant has its word whatever the inputs are. *)
LEMMA ConstValue ==
  ASSUME NEW g, GraphOK(g), NEW D, NEW f \in Assignments(D), NEW w \in DOMAIN g.wires, IsConst(g, w)
  PROVE  V(g, f)[w] = g.wires[w].word /\ g.wires[w].word \in Words
<1>1. Fits(g, f, V(g, f))
  BY VFits
<1>2. ~MadeBy(g, DOMAIN g.gates, w)
  <2>1. \A i \in DOMAIN g.gates : w \notin Range(g.gates[i].outs)
    BY GateParts DEF Range
  <2> QED BY <2>1 DEF MadeBy
<1>3. V(g, f)[w] = StartValue(g, f, w)
  BY <1>1, <1>2 DEF Fits, Sound
<1>4. g.wires[w] \in WireSet
  BY GraphParts DEF GraphOK
<1> QED BY <1>3, <1>4, WireIs DEF StartValue, IsConst

LEMMA ConstRead ==
  ASSUME NEW g, GraphOK(g), NEW i \in DOMAIN g.gates, AllConst(g, i), NEW D, NEW f \in Assignments(D)
  PROVE  /\ Read(g, i, V(g, f)) = ConstWords(g, i)
         /\ \A k \in DOMAIN g.gates[i].outs :
              V(g, f)[g.gates[i].outs[k]] = Result(g.gates[i].op, ConstWords(g, i))[k]
         /\ Sat(g, f) => Holds(g.gates[i].op, ConstWords(g, i))
<1>1. Fits(g, f, V(g, f))
  BY VFits
<1>2. \A k \in DOMAIN g.gates[i].ins :
        V(g, f)[g.gates[i].ins[k]] = g.wires[g.gates[i].ins[k]].word
  BY GateParts, ConstValue DEF AllConst
<1>3. Read(g, i, V(g, f)) = ConstWords(g, i)
  BY <1>2 DEF Read, ConstWords
<1>4. \A k \in DOMAIN g.gates[i].outs :
        V(g, f)[g.gates[i].outs[k]] = Result(g.gates[i].op, Read(g, i, V(g, f)))[k]
  BY <1>1 DEF Fits, Sound
<1>5. Sat(g, f) => Holds(g.gates[i].op, Read(g, i, V(g, f)))
  BY DEF Sat, Satisfied, Read
<1> QED BY <1>3, <1>4, <1>5

LEMMA ConstTyped ==
  ASSUME NEW g, GraphOK(g), NEW i \in DOMAIN g.gates, AllConst(g, i), NEW k \in DOMAIN g.gates[i].outs
  PROVE  Result(g.gates[i].op, ConstWords(g, i))[k] \in Words
<1>1. /\ g.gates[i].op \in Ops /\ DOMAIN g.gates[i].ins = 1..NIn(g.gates[i].op)
      /\ k \in 1..NOut(g.gates[i].op)
  BY GateParts
<1>2. \A m \in DOMAIN g.gates[i].ins : g.wires[g.gates[i].ins[m]].word \in Words
  <2>1. \A m \in DOMAIN g.gates[i].ins : g.wires[g.gates[i].ins[m]] \in WireSet
    BY GateParts, GraphParts
  <2> QED BY <2>1, WireIs DEF AllConst, IsConst
<1>3. ConstWords(g, i) \in [1..NIn(g.gates[i].op) -> Words]
  BY <1>1, <1>2 DEF ConstWords
<1> QED BY <1>1, <1>3, ResultTyped

(* The index lists every reader of a wire that is no constant. *)
Covers(g, index) == \A i \in DOMAIN g.gates : \A k \in DOMAIN g.gates[i].ins :
  ~IsConst(g, g.gates[i].ins[k]) => i \in Range(UsesOf(index, g.gates[i].ins[k]))

(* While the outputs of gate i move to constants. *)
FoldState(g, i, rest, s) ==
  /\ s = [graph |-> s.graph, work |-> s.work]
  /\ Step(g, s.graph) /\ SameGates(g, s.graph)
  /\ UsesOK(s.graph, uses) /\ Covers(s.graph, uses)
  /\ s.work \in Seq(Nat) /\ Distinct(s.work)
  /\ Range(rest) \subseteq Range(s.work) /\ Range(s.work) \subseteq DOMAIN g.gates
  /\ \A j \in DOMAIN g.gates : \A k \in DOMAIN g.gates[j].ins :
       s.graph.gates[j].ins[k] # g.gates[j].ins[k] =>
         /\ j \in Range(s.work) /\ IsConst(s.graph, s.graph.gates[j].ins[k])
         /\ g.gates[j].ins[k] \in Range(g.gates[i].outs)

LEMMA FoldOutputIs ==
  ASSUME NEW g, GraphOK(g), NEW i \in DOMAIN g.gates, AllConst(g, i), NEW rest,
         NEW s, FoldState(g, i, rest, s), NEW k \in DOMAIN g.gates[i].outs
  PROVE  LET t == FoldOutput(s, g.gates[i].outs[k], Result(g.gates[i].op, ConstWords(g, i))[k])
         IN  /\ FoldState(g, i, rest, t) /\ Unread(t.graph, g.gates[i].outs[k])
             /\ \A w \in DOMAIN g.wires : ~IsConst(g, w) /\ Unread(s.graph, w) => Unread(t.graph, w)
<1> DEFINE out == g.gates[i].outs[k]
           word == Result(g.gates[i].op, ConstWords(g, i))[k]
           h == AddConstant(s.graph, word)
           c == ConstantWire(h, word)
           m == ReplaceWire(h, uses, out, c)
           t == FoldOutput(s, out, word)
           readers == Range(UsesOf(uses, out))
<1>1. /\ Step(g, s.graph) /\ SameGates(g, s.graph) /\ UsesOK(s.graph, uses) /\ Covers(s.graph, uses)
      /\ GraphOK(s.graph) /\ word \in Words
  BY ConstTyped DEF FoldState, Step
<1>2. /\ Step(s.graph, h) /\ h.gates = s.graph.gates
      /\ c \in DOMAIN h.wires /\ h.wires[c] = Constant(word)
  BY <1>1, ConstantStep
<1>3. t = [graph |-> m, work |-> IF m = h THEN s.work ELSE Unseen(s.work, UsesOf(uses, out))]
  BY DEF FoldOutput
<1>4. out \in DOMAIN g.wires /\ ~IsConst(g, out) /\ out \in Range(g.gates[i].outs)
  BY GateParts, OneMaker
<1> HIDE DEF h, c, m, t, word, out
<1>5. Step(g, h) /\ GraphOK(h) /\ DOMAIN g.wires \subseteq DOMAIN h.wires /\ DeclaredOf(h) = DeclaredOf(g)
  BY <1>1, <1>2, StepTwice DEF Step
<1>6. UsesOK(h, uses) /\ SameGates(g, h)
  BY <1>1, <1>2 DEF UsesOK, SameGates
<1>7. IsConst(h, c) /\ h.wires[c].word = word /\ c \in Nat
  <2>1. DOMAIN h.wires = 1..Len(h.wires) /\ Len(h.wires) \in Nat
    BY <1>5, GraphParts DEF GraphOK
  <2> QED BY <1>2, <2>1, WireIs DEF IsConst
<1>8. Equal(h, c, out)
  <2>1. ASSUME NEW f \in Assignments(DeclaredOf(h)) PROVE V(h, f)[c] = V(h, f)[out]
    <3>1. V(h, f)[c] = word
      BY <1>2, <1>5, <1>7, ConstValue
    <3>2. V(g, f)[out] = word
      BY <1>5, ConstRead DEF word, out
    <3>3. V(h, f)[out] = V(g, f)[out]
      BY <1>4, <1>5 DEF Step, SameValues
    <3> QED BY <3>1, <3>2, <3>3
  <2> QED BY <2>1 DEF Equal
<1>9. \A j \in DOMAIN h.gates : Ready(h, c, j)
  <2>1. \A j \in DOMAIN h.gates : c \notin Range(h.gates[j].outs)
    BY <1>5, <1>7, GateParts DEF Range
  <2> QED BY <1>2, <2>1 DEF Ready
<1>10. /\ Step(h, m) /\ Alike(h, m) /\ UsesOK(m, uses)
       /\ Replaced(h, m, readers, out, c)
  BY <1>5, <1>6, <1>7, <1>8, <1>9, ReplaceStep DEF m
<1>11. /\ m.wires = h.wires /\ SameGates(h, m)
       /\ \A j \in DOMAIN h.gates : \A n \in DOMAIN h.gates[j].ins :
            m.gates[j].ins[n] = IF j \in readers /\ h.gates[j].ins[n] = out THEN c ELSE h.gates[j].ins[n]
  BY <1>5, <1>10, AlikeParts DEF GraphOK, SameGates, Replaced
<1>12. \A w \in DOMAIN g.wires : (IsConst(h, w) <=> IsConst(g, w)) /\ (IsConst(m, w) <=> IsConst(g, w))
  BY <1>5, <1>11 DEF Step, IsConst
<1>13. out # c /\ ~IsConst(h, out)
  BY <1>4, <1>7, <1>12
<1>14. \A j \in DOMAIN h.gates : \A n \in DOMAIN h.gates[j].ins :
         ~IsConst(h, h.gates[j].ins[n]) => j \in Range(UsesOf(uses, h.gates[j].ins[n]))
  <2>1. \A j \in DOMAIN h.gates : \A n \in DOMAIN h.gates[j].ins : h.gates[j].ins[n] \in DOMAIN s.graph.wires
    BY <1>1, <1>2, GateParts
  <2>2. \A w \in DOMAIN s.graph.wires : IsConst(h, w) <=> IsConst(s.graph, w)
    BY <1>2 DEF Step, IsConst
  <2> QED BY <1>1, <1>2, <2>1, <2>2 DEF Covers
<1>15. \A j \in DOMAIN h.gates : \A n \in DOMAIN h.gates[j].ins :
         m.gates[j].ins[n] = IF h.gates[j].ins[n] = out THEN c ELSE h.gates[j].ins[n]
  BY <1>11, <1>13, <1>14
<1>16. Unread(m, out)
  BY <1>11, <1>13, <1>15 DEF Unread, SameGates
<1>17. ASSUME NEW w \in DOMAIN g.wires, ~IsConst(g, w), Unread(s.graph, w) PROVE Unread(m, w)
  <2>1. w # c
    BY <1>7, <1>12, <1>17
  <2> QED BY <1>2, <1>11, <1>15, <1>17, <2>1 DEF Unread, SameGates
<1>18. Covers(m, uses)
  BY <1>7, <1>11, <1>14, <1>15 DEF Covers, SameGates, IsConst
<1>19. Step(g, m) /\ SameGates(g, m)
  BY <1>5, <1>6, <1>10, <1>11, StepTwice DEF SameGates
<1>20. /\ t = [graph |-> t.graph, work |-> t.work] /\ t.graph = m
       /\ t.work = IF m = h THEN s.work ELSE Unseen(s.work, UsesOf(uses, out))
  BY <1>3
<1>21. /\ t.work \in Seq(Nat) /\ Distinct(t.work) /\ Range(s.work) \subseteq Range(t.work)
       /\ Range(t.work) \subseteq DOMAIN g.gates
       /\ m # h => readers \subseteq Range(t.work)
  <2>1. s.work \in Seq(Nat) /\ Distinct(s.work) /\ Range(s.work) \subseteq DOMAIN g.gates
    BY DEF FoldState
  <2>2. UsesOf(uses, out) \in Seq(Nat) /\ Distinct(UsesOf(uses, out)) /\ readers \subseteq DOMAIN h.gates
    BY <1>6, UsesOfIs
  <2>3. /\ Unseen(s.work, UsesOf(uses, out)) \in Seq(Nat) /\ Distinct(Unseen(s.work, UsesOf(uses, out)))
        /\ Range(Unseen(s.work, UsesOf(uses, out))) = Range(s.work) \cup readers
    BY <2>1, <2>2, UnseenIs
  <2>4. DOMAIN h.gates = DOMAIN g.gates
    BY <1>6 DEF SameGates
  <2> QED BY <1>20, <2>1, <2>2, <2>3, <2>4
<1>22. ASSUME NEW j \in DOMAIN g.gates, NEW n \in DOMAIN g.gates[j].ins,
              m.gates[j].ins[n] # g.gates[j].ins[n]
       PROVE  /\ j \in Range(t.work) /\ IsConst(m, m.gates[j].ins[n])
              /\ g.gates[j].ins[n] \in Range(g.gates[i].outs)
  <2>1. j \in DOMAIN h.gates /\ n \in DOMAIN h.gates[j].ins /\ h.gates[j].ins[n] = s.graph.gates[j].ins[n]
    BY <1>2, <1>6 DEF SameGates
  <2>2. CASE h.gates[j].ins[n] = out
    <3>1. m.gates[j].ins[n] = c /\ j \in readers
      BY <1>13, <1>14, <1>15, <2>1, <2>2
    <3>2. m # h
      BY <1>13, <2>2, <3>1
    <3>3. IsConst(m, c)
      BY <1>7, <1>11 DEF IsConst
    <3>4. CASE s.graph.gates[j].ins[n] = g.gates[j].ins[n]
      BY <1>4, <1>21, <2>1, <2>2, <3>1, <3>2, <3>3, <3>4
    <3>5. CASE s.graph.gates[j].ins[n] # g.gates[j].ins[n]
      <4>1. IsConst(s.graph, out)
        BY <2>1, <2>2, <3>5 DEF FoldState
      <4>2. IsConst(g, out)
        BY <1>1, <1>4, <4>1 DEF Step, IsConst
      <4> QED BY <1>4, <4>2
    <3> QED BY <3>4, <3>5
  <2>3. CASE h.gates[j].ins[n] # out
    <3>1. m.gates[j].ins[n] = s.graph.gates[j].ins[n]
      BY <1>15, <2>1, <2>3
    <3>2. /\ j \in Range(s.work) /\ IsConst(s.graph, s.graph.gates[j].ins[n])
          /\ g.gates[j].ins[n] \in Range(g.gates[i].outs)
      BY <1>22, <3>1 DEF FoldState
    <3>3. s.graph.gates[j].ins[n] \in DOMAIN s.graph.wires
      BY <1>1, <1>2, <2>1, GateParts
    <3>4. IsConst(m, s.graph.gates[j].ins[n])
      BY <1>2, <1>11, <3>2, <3>3 DEF Step, IsConst
    <3> QED BY <1>21, <3>1, <3>2, <3>4
  <2> QED BY <2>2, <2>3
<1>23. FoldState(g, i, rest, t)
  <2>1. Range(rest) \subseteq Range(t.work)
    BY <1>21 DEF FoldState
  <2> QED BY <1>10, <1>18, <1>19, <1>20, <1>21, <1>22, <2>1 DEF FoldState
<1> QED BY <1>16, <1>17, <1>20, <1>23 DEF t, out, word

Folded(g, rest, i) ==
  FoldLeft(LAMBDA s, k : FoldOutput(s, g.gates[i].outs[k], Result(g.gates[i].op, ConstWords(g, i))[k]),
           [graph |-> g, work |-> rest], [k \in DOMAIN g.gates[i].outs |-> k])

(* A gate of constants is folded: every output has its readers moved.        *)
LEMMA FoldedIs ==
  ASSUME NEW g, GraphOK(g), NEW i \in DOMAIN g.gates, AllConst(g, i),
         UsesOK(g, uses), Covers(g, uses),
         NEW rest \in Seq(Nat), Distinct(rest), Range(rest) \subseteq DOMAIN g.gates
  PROVE  /\ FoldState(g, i, rest, Folded(g, rest, i))
         /\ \A k \in DOMAIN g.gates[i].outs : Unread(Folded(g, rest, i).graph, g.gates[i].outs[k])
         /\ \A w \in DOMAIN g.wires : ~IsConst(g, w) /\ Unread(g, w) => Unread(Folded(g, rest, i).graph, w)
<1> DEFINE s == [k \in DOMAIN g.gates[i].outs |-> k]
           n == NOut(g.gates[i].op)
           base == [graph |-> g, work |-> rest]
           T == {t \in [graph : GraphSet, work : Seq(Nat)] : FoldState(g, i, rest, t)}
           Op(t, k) == FoldOutput(t, g.gates[i].outs[k], Result(g.gates[i].op, ConstWords(g, i))[k])
           G == [p \in T \X (1..n) |-> Op(p[1], s[p[2]])]
           Is(it) == it = [d \in SUBSET (1..n) |-> IF d = {} THEN base ELSE Op(it[d \ {Max(d)}], s[Max(d)])]
           it == CHOOSE x : Is(x)
<1>1. /\ n \in Nat /\ DOMAIN g.gates[i].outs = 1..n /\ DOMAIN s = 1..n
      /\ \A k \in 1..n : s[k] = k /\ g.gates[i].outs[k] \in DOMAIN g.wires /\ ~IsConst(g, g.gates[i].outs[k])
  BY GateParts DEF NOut
<1>2. Folded(g, rest, i) = it[1..n]
  <2>1. Len(s) = n
    BY <1>1
  <2>2. Folded(g, rest, i) = FoldLeft(Op, base, s)
    BY DEF Folded
  <2> HIDE DEF s
  <2> QED BY <1>1, <2>1, <2>2 DEF FoldLeft, MapThenFoldSet
<1> HIDE DEF s, n
<1>3. ASSUME NEW t, FoldState(g, i, rest, t) PROVE t \in T
  <2>1. t = [graph |-> t.graph, work |-> t.work] /\ t.work \in Seq(Nat) /\ t.graph \in GraphSet
    BY <1>3 DEF FoldState, Step, GraphOK
  <2> QED BY <1>3, <2>1
<1>4. FoldState(g, i, rest, base)
  <2>1. base.graph = g /\ base.work = rest /\ SameGates(g, g)
    BY DEF SameGates
  <2> HIDE DEF base
  <2>2. base = [graph |-> base.graph, work |-> base.work]
    BY <2>1 DEF base
  <2> QED BY <2>1, <2>2, StepSelf DEF FoldState
<1>5. ASSUME NEW t \in T, NEW k \in 1..n
      PROVE  /\ Op(t, s[k]) \in T /\ Unread(Op(t, s[k]).graph, g.gates[i].outs[k])
             /\ \A w \in DOMAIN g.wires : ~IsConst(g, w) /\ Unread(t.graph, w) => Unread(Op(t, s[k]).graph, w)
  <2>1. FoldState(g, i, rest, t) /\ k \in DOMAIN g.gates[i].outs /\ s[k] = k
    BY <1>1
  <2>2. /\ FoldState(g, i, rest, Op(t, k)) /\ Unread(Op(t, k).graph, g.gates[i].outs[k])
        /\ \A w \in DOMAIN g.wires : ~IsConst(g, w) /\ Unread(t.graph, w) => Unread(Op(t, k).graph, w)
    BY <2>1, FoldOutputIs
  <2> HIDE DEF Op, T
  <2> QED BY <1>3, <2>1, <2>2
<1>6. base \in T
  BY <1>3, <1>4
<1> HIDE DEF T, Op, base
<1>7. G \in [T \X (1..n) -> T]
  BY <1>5
<1>8. PICK x \in [SUBSET (1..n) -> T] : FoldsBy(x, n, base, G)
  <2> HIDE DEF G
  <2> QED BY <1>1, <1>6, <1>7, FoldExists
<1>9. Is(x)
  <2>1. ASSUME NEW d \in SUBSET (1..n), d # {} PROVE x[d] = Op(x[d \ {Max(d)}], s[Max(d)])
    <3>1. Max(d) \in 1..n /\ x[d \ {Max(d)}] \in T
      BY <1>1, <2>1, FoldTop
    <3>2. G[<<x[d \ {Max(d)}], Max(d)>>] = Op(x[d \ {Max(d)}], s[Max(d)])
      BY <3>1
    <3> HIDE DEF G
    <3> QED BY <1>8, <2>1, <3>2 DEF FoldsBy
  <2>2. x[{}] = base
    BY <1>8 DEF FoldsBy
  <2> QED BY <1>8, <2>1, <2>2
<1>10. Is(it)
  <2> HIDE DEF Is
  <2> QED BY <1>9
<1> HIDE DEF it
<1>11. it[1..0] = base /\ \A k \in 0..n - 1 : it[1..k + 1] = Op(it[1..k], s[k + 1])
  <2>1. \A d \in SUBSET (1..n) : it[d] = IF d = {} THEN base ELSE Op(it[d \ {Max(d)}], s[Max(d)])
    BY <1>10
  <2>2. ASSUME NEW k \in 0..n - 1 PROVE it[1..k + 1] = Op(it[1..k], s[k + 1])
    <3>1. n \in Nat
      BY <1>1
    <3> QED BY ONLY <2>1, <3>1, PrefixMax, k \in 0..n - 1
  <2>3. 1..0 = {}
    BY <1>1
  <2> QED BY <2>1, <2>2, <2>3
<1> DEFINE Good(k) == /\ it[1..k] \in T
                      /\ \A m \in 1..k : Unread(it[1..k].graph, g.gates[i].outs[m])
                      /\ \A w \in DOMAIN g.wires : ~IsConst(g, w) /\ Unread(g, w) => Unread(it[1..k].graph, w)
           S == {k \in 0..n : Good(k)}
<1>12. 0 \in S
  <2>1. base.graph = g
    BY DEF base
  <2> QED BY <1>1, <1>6, <1>11, <2>1
<1>13. ASSUME NEW k \in Nat, k < n, k \in S PROVE k + 1 \in S
  <2>1. /\ k \in 0..n - 1 /\ k + 1 \in 1..n /\ k + 1 \in 0..n /\ Good(k)
        /\ \A m \in 1..k + 1 : m \in 1..n /\ (m \in 1..k \/ m = k + 1)
    <3> HIDE DEF Good
    <3> QED BY <1>1, <1>13
  <2>2. /\ it[1..k + 1] \in T /\ Unread(it[1..k + 1].graph, g.gates[i].outs[k + 1])
        /\ \A w \in DOMAIN g.wires : ~IsConst(g, w) /\ Unread(it[1..k].graph, w) => Unread(it[1..k + 1].graph, w)
    BY <1>5, <1>11, <2>1
  <2>3. Good(k + 1)
    BY <1>1, <2>1, <2>2
  <2> HIDE DEF Good
  <2> QED BY <2>1, <2>3
<1>14. Good(n)
  <2> HIDE DEF S
  <2>1. \A k \in 0..n : k \in S
    BY <1>1, <1>12, <1>13, UpwardClosed
  <2> QED BY <1>1, <2>1 DEF S
<1> QED BY <1>1, <1>2, <1>14 DEF T
------------------------------------------------------------------------------
(* Zero propagation *)
IsZero(g, w) == g.wires[w] = Constant(Zero)
ZeroWire(g)  == ConstantWire(g, Zero)
OtherOf(g, gate) == gate.ins[IF IsZero(g, gate.ins[Len(gate.ins)]) THEN 1 ELSE 2]

(* Where output k moves to, and what that is. *)
Forwards(g, i, k, new) ==
  /\ new \in Nat /\ Ready(g, new, i) /\ Equal(g, new, g.gates[i].outs[k])
  /\ IsConst(g, new) => AllConst(g, i) \/ (g.gates[i].op = "Iadd32" /\ k = 2)
  /\ ~IsConst(g, new) => \E m \in DOMAIN g.gates[i].ins : new = g.gates[i].ins[m]

LEMMA ZeroWireIs ==
  ASSUME NEW g, GraphOK(g), HasZero(g)
  PROVE  ZeroWire(g) \in DOMAIN g.wires /\ IsZero(g, ZeroWire(g))
<1>1. \E w \in DOMAIN g.wires : g.wires[w] = Constant(Zero)
  BY DEF HasZero, Range
<1> QED BY <1>1 DEF ZeroWire, ConstantWire, IsZero

LEMMA ZeroValue ==
  ASSUME NEW g, GraphOK(g), NEW w \in DOMAIN g.wires, IsZero(g, w)
  PROVE  /\ IsConst(g, w) /\ w \in Nat /\ \A i \in DOMAIN g.gates : Ready(g, w, i)
         /\ \A f \in Assignments(DeclaredOf(g)) : V(g, f)[w] = Zero
<1>1. IsConst(g, w) /\ g.wires[w].word = Zero
  BY WireIs DEF IsZero, IsConst
<1>2. \A i \in DOMAIN g.gates : w \notin Range(g.gates[i].outs)
  BY <1>1, GateParts DEF Range
<1>3. DOMAIN g.wires = 1..Len(g.wires) /\ Len(g.wires) \in Nat
  BY GraphParts DEF GraphOK
<1> QED BY <1>1, <1>2, <1>3, ConstValue DEF Ready

LEMMA ZeroIdentityIs ==
  ASSUME NEW g, GraphOK(g), HasZero(g), NEW i \in DOMAIN g.gates, ZeroIdentity(g, g.gates[i]) # <<>>
  PROVE  /\ ZeroIdentity(g, g.gates[i]) \in Seq(Nat \X Nat)
         /\ DOMAIN ZeroIdentity(g, g.gates[i]) = DOMAIN g.gates[i].outs
         /\ \A k \in DOMAIN g.gates[i].outs :
              /\ ZeroIdentity(g, g.gates[i])[k][1] = g.gates[i].outs[k]
              /\ Forwards(g, i, k, ZeroIdentity(g, g.gates[i])[k][2])
<1> DEFINE gate == g.gates[i]
           zero == ZeroWire(g)
           other == OtherOf(g, gate)
           z == ZeroIdentity(g, gate)
           x(f) == Read(g, i, V(g, f))
<1>1. /\ \E w \in Range(gate.ins) : IsZero(g, w)
      /\ z = CASE gate.op = "Shift"  -> <<<<gate.outs[1], zero>>>>
               [] gate.op = "Bxor"   -> <<<<gate.outs[1], other>>>>
               [] gate.op = "Iadd32" -> <<<<gate.outs[1], other>>, <<gate.outs[2], zero>>>>
               [] OTHER              -> <<>>
  BY DEF ZeroIdentity, IsZero, ZeroWire, OtherOf
<1>2. /\ i \in Nat /\ gate.op \in Ops /\ gate.ins \in Seq(Nat) /\ gate.outs \in Seq(Nat)
      /\ DOMAIN gate.ins = 1..NIn(gate.op) /\ DOMAIN gate.outs = 1..NOut(gate.op) /\ Len(gate.ins) = NIn(gate.op)
      /\ \A k \in DOMAIN gate.ins : gate.ins[k] \in DOMAIN g.wires /\ Ready(g, gate.ins[k], i) /\ gate.ins[k] \in Nat
      /\ \A k \in DOMAIN gate.outs : gate.outs[k] \in Nat
  <2>1. g \in GraphSet /\ GateOK(g, i)
    BY DEF GraphOK
  <2> QED BY <2>1, GateParts, GraphParts DEF GateOK
<1>3. PICK n \in DOMAIN gate.ins : IsZero(g, gate.ins[n])
  BY <1>1 DEF Range
<1>4. /\ zero \in DOMAIN g.wires /\ IsConst(g, zero) /\ zero \in Nat /\ Ready(g, zero, i)
      /\ \A f \in Assignments(DeclaredOf(g)) : V(g, f)[zero] = Zero
  BY ZeroWireIs, ZeroValue
<1>5. ASSUME NEW f \in Assignments(DeclaredOf(g))
      PROVE  /\ x(f) \in [1..NIn(gate.op) -> Words]
             /\ \A k \in DOMAIN gate.ins : x(f)[k] = V(g, f)[gate.ins[k]]
             /\ \A k \in DOMAIN gate.ins : IsZero(g, gate.ins[k]) => x(f)[k] = Zero
             /\ \A k \in DOMAIN gate.outs : V(g, f)[gate.outs[k]] = Result(gate.op, x(f))[k]
  <2>1. Fits(g, f, V(g, f)) /\ V(g, f) \in [DOMAIN g.wires -> Words]
    BY VFits
  <2>2. x(f) \in [1..NIn(gate.op) -> Words]
    BY <2>1, ReadTyped
  <2>3. \A k \in DOMAIN gate.outs : V(g, f)[gate.outs[k]] = Result(gate.op, x(f))[k]
    BY <2>1 DEF Fits, Sound
  <2>4. \A k \in DOMAIN gate.ins : x(f)[k] = V(g, f)[gate.ins[k]]
    BY DEF Read
  <2>5. \A k \in DOMAIN gate.ins : IsZero(g, gate.ins[k]) => V(g, f)[gate.ins[k]] = Zero
    BY <1>2, ZeroValue
  <2> HIDE DEF x
  <2> QED BY <2>2, <2>3, <2>4, <2>5
<1>6. \A w \in DOMAIN g.wires : IsZero(g, w) => IsConst(g, w)
  BY ZeroValue
<1> HIDE DEF x, z, zero
<1>7. CASE gate.op = "Shift"
  <2>1. NIn(gate.op) = 1 /\ NOut(gate.op) = 1 /\ n = 1
    BY <1>2, <1>3, <1>7 DEF NIn, NOut
  <2>2. z = <<<<gate.outs[1], zero>>>>
    BY <1>1, <1>7
  <2>3. AllConst(g, i)
    BY <1>2, <1>3, <1>6, <2>1 DEF AllConst
  <2>4. \A f \in Assignments(DeclaredOf(g)) : V(g, f)[gate.outs[1]] = Zero
    <3>1. ASSUME NEW f \in Assignments(DeclaredOf(g)) PROVE V(g, f)[gate.outs[1]] = Zero
      <4>1. x(f)[1] = Zero /\ V(g, f)[gate.outs[1]] = Result(gate.op, x(f))[1]
        BY <1>2, <1>3, <1>5, <2>1
      <4>2. Result(gate.op, x(f)) = <<Sll(x(f)[1])>>
        BY <1>7 DEF Result
      <4>3. Sll(Zero) = Zero
        BY ZeroIs, WordsKept
      <4> QED BY <4>1, <4>2, <4>3
    <3> QED BY <3>1
  <2>5. Forwards(g, i, 1, zero)
    BY <1>4, <2>3, <2>4 DEF Forwards, Equal
  <2>6. z \in Seq(Nat \X Nat) /\ DOMAIN z = 1..1 /\ z[1] = <<gate.outs[1], zero>>
    BY <1>2, <1>4, <2>1, <2>2
  <2> QED BY <1>2, <2>1, <2>5, <2>6 DEF z
<1>8. ASSUME gate.op \in {"Bxor", "Iadd32"}
      PROVE  /\ \E m \in DOMAIN gate.ins : other = gate.ins[m]
             /\ other \in DOMAIN g.wires /\ other \in Nat /\ Ready(g, other, i) /\ NIn(gate.op) = 2
             /\ IsConst(g, other) => AllConst(g, i)
             /\ \A f \in Assignments(DeclaredOf(g)) :
                  \/ x(f)[1] = Zero /\ x(f)[2] = V(g, f)[other] /\ x(f)[2] \in Words
                  \/ x(f)[2] = Zero /\ x(f)[1] = V(g, f)[other] /\ x(f)[1] \in Words
  <2>1. NIn(gate.op) = 2 /\ DOMAIN gate.ins = 1..2 /\ Len(gate.ins) = 2
    BY <1>2, <1>8 DEF NIn
  <2>2. CASE IsZero(g, gate.ins[2])
    <3>1. other = gate.ins[1]
      BY <2>1, <2>2 DEF OtherOf
    <3>2. IsConst(g, other) => AllConst(g, i)
      <4>1. IsConst(g, gate.ins[2])
        BY <1>2, <1>6, <2>1, <2>2
      <4> QED BY <2>1, <3>1, <4>1 DEF AllConst
    <3> HIDE DEF other
    <3> QED BY <1>2, <1>5, <2>1, <2>2, <3>1, <3>2
  <2>3. CASE ~IsZero(g, gate.ins[2])
    <3>1. other = gate.ins[2] /\ IsZero(g, gate.ins[1])
      BY <1>3, <2>1, <2>3 DEF OtherOf
    <3>2. IsConst(g, other) => AllConst(g, i)
      <4>1. IsConst(g, gate.ins[1])
        BY <1>2, <1>6, <2>1, <3>1
      <4> QED BY <2>1, <3>1, <4>1 DEF AllConst
    <3> HIDE DEF other
    <3> QED BY <1>2, <1>5, <2>1, <3>1, <3>2
  <2> QED BY <2>2, <2>3
<1> HIDE DEF other
<1>9. CASE gate.op = "Bxor"
  <2>1. NOut(gate.op) = 1 /\ z = <<<<gate.outs[1], other>>>>
    BY <1>1, <1>9 DEF NOut
  <2>2. \A f \in Assignments(DeclaredOf(g)) : V(g, f)[gate.outs[1]] = V(g, f)[other]
    <3>1. ASSUME NEW f \in Assignments(DeclaredOf(g)) PROVE V(g, f)[gate.outs[1]] = V(g, f)[other]
      <4>1. V(g, f)[gate.outs[1]] = Result(gate.op, x(f))[1]
        BY <1>2, <1>5, <2>1
      <4>2. Result(gate.op, x(f)) = <<Xor(x(f)[1], x(f)[2])>>
        BY <1>9 DEF Result
      <4>3. Xor(x(f)[1], x(f)[2]) = V(g, f)[other]
        BY <1>8, <1>9, ZeroIs
      <4> QED BY <4>1, <4>2, <4>3
    <3> QED BY <3>1
  <2>3. Forwards(g, i, 1, other)
    BY <1>8, <1>9, <2>2 DEF Forwards, Equal
  <2>4. z \in Seq(Nat \X Nat) /\ DOMAIN z = 1..1 /\ z[1] = <<gate.outs[1], other>>
    BY <1>2, <1>8, <1>9, <2>1
  <2> QED BY <1>2, <2>1, <2>3, <2>4 DEF z
<1>10. CASE gate.op = "Iadd32"
  <2>1. NOut(gate.op) = 2 /\ z = <<<<gate.outs[1], other>>, <<gate.outs[2], zero>>>>
    BY <1>1, <1>10 DEF NOut
  <2>2. \A f \in Assignments(DeclaredOf(g)) :
          V(g, f)[gate.outs[1]] = V(g, f)[other] /\ V(g, f)[gate.outs[2]] = Zero
    <3>1. ASSUME NEW f \in Assignments(DeclaredOf(g))
          PROVE  V(g, f)[gate.outs[1]] = V(g, f)[other] /\ V(g, f)[gate.outs[2]] = Zero
      <4>1. /\ V(g, f)[gate.outs[1]] = Result(gate.op, x(f))[1]
            /\ V(g, f)[gate.outs[2]] = Result(gate.op, x(f))[2]
        BY <1>2, <1>5, <2>1
      <4>2. Result(gate.op, x(f)) =
              <<Xor(Xor(x(f)[1], x(f)[2]), Sll(Carry(x(f)[1], x(f)[2]))), Carry(x(f)[1], x(f)[2])>>
        BY <1>10 DEF Result
      <4>3. Xor(x(f)[1], x(f)[2]) = V(g, f)[other] /\ Carry(x(f)[1], x(f)[2]) = Zero /\ V(g, f)[other] \in Words
        BY <1>8, <1>10, ZeroIs
      <4>4. Sll(Zero) = Zero /\ Xor(V(g, f)[other], Zero) = V(g, f)[other]
        BY <4>3, ZeroIs
      <4> QED BY <4>1, <4>2, <4>3, <4>4
    <3> QED BY <3>1
  <2>3. Forwards(g, i, 1, other)
    BY <1>8, <1>10, <2>2 DEF Forwards, Equal
  <2>4. Forwards(g, i, 2, zero)
    BY <1>4, <1>10, <2>2 DEF Forwards, Equal
  <2>5. /\ z \in Seq(Nat \X Nat) /\ DOMAIN z = 1..2
        /\ z[1] = <<gate.outs[1], other>> /\ z[2] = <<gate.outs[2], zero>>
    <3>1. PICK p \in Nat \X Nat : p = <<gate.outs[1], other>>
      BY <1>2, <1>8, <1>10, <2>1
    <3>2. PICK q \in Nat \X Nat : q = <<gate.outs[2], zero>>
      BY <1>2, <1>4, <2>1
    <3>3. z = <<p, q>>
      BY <2>1, <3>1, <3>2
    <3>4. z \in Seq(Nat \X Nat) /\ DOMAIN z = 1..2 /\ z[1] = p /\ z[2] = q
      BY ONLY <3>3
    <3> QED BY <3>1, <3>2, <3>4
  <2> QED BY <1>2, <2>1, <2>3, <2>4, <2>5 DEF z
<1>11. gate.op \in {"Shift", "Bxor", "Iadd32"}
  BY <1>1 DEF z
<1> QED BY <1>7, <1>9, <1>10, <1>11

LEMMA FlattenMembers ==
  ASSUME NEW T, NEW ss \in Seq(Seq(T))
  PROVE  Range(FlattenSeq(ss)) = UNION {Range(ss[i]) : i \in 1..Len(ss)}
<1> DEFINE n == Len(ss)
           From(k) == UNION {Range(ss[i]) : i \in 1..k}
<1>1. PICK Q : /\ Q[0] = <<>> /\ FlattenSeq(ss) = Q[n]
               /\ \A k \in 0..n : Q[k] \in Seq(T)
               /\ \A k \in 0..n - 1 : Q[k + 1] = Q[k] \o ss[k + 1]
  BY FlattenParts
<1>2. n \in Nat /\ \A i \in 1..n : ss[i] \in Seq(T)
  OBVIOUS
<1> HIDE DEF n
<1>3. ASSUME NEW s \in Seq(T), NEW t \in Seq(T) PROVE Range(s \o t) = Range(s) \cup Range(t)
  <2> DEFINE a == Len(s)
             b == Len(t)
             u == s \o t
  <2>1. /\ a \in Nat /\ b \in Nat /\ DOMAIN s = 1..a /\ DOMAIN t = 1..b /\ DOMAIN u = 1..a + b
        /\ \A i \in 1..a : u[i] = s[i] /\ i \in 1..a + b
        /\ \A i \in 1..b : u[a + i] = t[i] /\ a + i \in 1..a + b
    OBVIOUS
  <2>2. \A i \in 1..a + b : i \in 1..a \/ \E j \in 1..b : i = a + j
    <3>1. ASSUME NEW i \in 1..a + b, i \notin 1..a PROVE i - a \in 1..b /\ i = a + (i - a)
      BY <2>1, <3>1
    <3> QED BY <3>1
  <2> HIDE DEF a, b, u
  <2>3. ASSUME NEW y, y \in Range(u) PROVE y \in Range(s) \cup Range(t)
    <3>1. PICK i \in 1..a + b : y = u[i]
      BY <2>1, <2>3 DEF Range
    <3> QED BY <2>1, <2>2, <3>1 DEF Range
  <2>4. ASSUME NEW y, y \in Range(s) \cup Range(t) PROVE y \in Range(u)
    BY <2>1, <2>4 DEF Range
  <2> QED BY <2>3, <2>4 DEF u
<1> DEFINE S == {k \in 0..n : Range(Q[k]) = From(k)}
<1>4. 0 \in S
  <2>1. Range(<<>>) = {} /\ From(0) = {} /\ 0 \in 0..n
    BY <1>2 DEF Range
  <2> QED BY <1>1, <2>1
<1>5. ASSUME NEW k \in Nat, k < n, k \in S PROVE k + 1 \in S
  <2>1. k \in 0..n - 1 /\ k \in 0..n /\ k + 1 \in 0..n /\ k + 1 \in 1..n
    BY <1>2, <1>5
  <2>2. From(k + 1) = From(k) \cup Range(ss[k + 1])
    <3>1. 1..k + 1 = (1..k) \cup {k + 1}
      OBVIOUS
    <3> QED BY <3>1
  <2>3. Range(Q[k + 1]) = Range(Q[k]) \cup Range(ss[k + 1])
    BY <1>1, <1>2, <1>3, <2>1
  <2> HIDE DEF From
  <2> QED BY <1>5, <2>1, <2>2, <2>3
<1>6. Range(Q[n]) = From(n)
  <2> HIDE DEF S
  <2>1. \A k \in 0..n : k \in S
    BY <1>2, <1>4, <1>5, UpwardClosed
  <2> QED BY <1>2, <2>1 DEF S
<1> QED BY <1>1, <1>6 DEF n

(* Wire x is there before wire y is made. *)
Lower(g, x, y) == \E i \in DOMAIN g.gates : y \in Range(g.gates[i].outs) /\ Ready(g, x, i)

LEMMA LowerIs ==
  ASSUME NEW g, GraphOK(g)
  PROVE  /\ \A x, y, z : Lower(g, x, y) /\ Lower(g, y, z) => Lower(g, x, z)
         /\ \A x, y : Lower(g, x, y) => x # y
<1>1. DOMAIN g.gates \subseteq Nat
  <2>1. DOMAIN g.gates = 1..Len(g.gates) /\ Len(g.gates) \in Nat
    BY GraphParts DEF GraphOK
  <2> QED BY <2>1
<1>2. ASSUME NEW x, NEW y, NEW z, Lower(g, x, y), Lower(g, y, z) PROVE Lower(g, x, z)
  <2>1. PICK i \in DOMAIN g.gates : y \in Range(g.gates[i].outs) /\ Ready(g, x, i)
    BY <1>2 DEF Lower
  <2>2. PICK j \in DOMAIN g.gates : z \in Range(g.gates[j].outs) /\ Ready(g, y, j)
    BY <1>2 DEF Lower
  <2>3. i < j /\ i \in Nat /\ j \in Nat
    BY <1>1, <2>1, <2>2 DEF Ready
  <2>4. \A m \in DOMAIN g.gates : m \in Nat /\ (m < i => m < j)
    BY <1>1, <2>3
  <2>5. Ready(g, x, j)
    BY <2>1, <2>4 DEF Ready
  <2> QED BY <2>2, <2>5 DEF Lower
<1>3. ASSUME NEW x, Lower(g, x, x) PROVE FALSE
  <2>1. PICK i \in DOMAIN g.gates : x \in Range(g.gates[i].outs) /\ Ready(g, x, i)
    BY <1>3 DEF Lower
  <2>2. i < i /\ i \in Nat
    BY <1>1, <2>1 DEF Ready
  <2> QED BY <2>2
<1> QED BY <1>2, <1>3

(* Nothing reads what gates of constants make, nor a carry. *)
Settled(g) == \A i \in DOMAIN g.gates :
  /\ AllConst(g, i) => \A k \in DOMAIN g.gates[i].outs : Unread(g, g.gates[i].outs[k])
  /\ g.gates[i].op = "Iadd32" => Unread(g, g.gates[i].outs[2])

(* No gate of h reads a constant that it does not in g, or what none does. *)
NoNewReads(g, h) == \A j \in DOMAIN g.gates : \A n \in DOMAIN g.gates[j].ins :
  /\ IsConst(g, h.gates[j].ins[n]) => h.gates[j].ins[n] = g.gates[j].ins[n]
  /\ ~Unread(g, h.gates[j].ins[n])

SweepState(g, h) ==
  /\ Step(g, h) /\ Alike(g, h)
  /\ \A j \in DOMAIN g.gates : \A n \in DOMAIN g.gates[j].ins :
       h.gates[j].ins[n] = g.gates[j].ins[n] \/ Lower(g, h.gates[j].ins[n], g.gates[j].ins[n])
  /\ Settled(g) => NoNewReads(g, h)

(* One forwarding is made. *)
LEMMA SweepStep ==
  ASSUME NEW g, GraphOK(g), NEW i \in DOMAIN g.gates, NEW k \in DOMAIN g.gates[i].outs,
         NEW new, Forwards(g, i, k, new), NEW h, SweepState(g, h)
  PROVE  LET t == ReplaceWire(h, WireUses(g), g.gates[i].outs[k], new)
         IN  /\ SweepState(g, t)
             /\ \A j \in DOMAIN g.gates : \A n \in DOMAIN g.gates[j].ins :
                  g.gates[j].ins[n] = g.gates[i].outs[k] \/ h.gates[j].ins[n] # g.gates[j].ins[n]
                  => t.gates[j].ins[n] # g.gates[j].ins[n]
<1> DEFINE old == g.gates[i].outs[k]
           index == WireUses(g)
           t == ReplaceWire(h, index, old, new)
           readers == Range(UsesOf(index, old))
<1>1. /\ g \in GraphSet /\ GraphOK(h) /\ Step(g, h) /\ Alike(g, h)
      /\ h.wires = g.wires /\ DOMAIN h.gates = DOMAIN g.gates
      /\ \A x, j : Ready(h, x, j) <=> Ready(g, x, j)
      /\ \A j \in DOMAIN g.gates : h.gates[j].outs = g.gates[j].outs /\ DOMAIN h.gates[j].ins = DOMAIN g.gates[j].ins
  BY AlikeParts DEF SweepState, Step, GraphOK
<1>2. UsesOK(h, index)
  BY <1>1, IndexOK DEF UsesOK
<1>3. old \in DOMAIN g.wires /\ old \in Range(g.gates[i].outs) /\ ~IsConst(g, old)
  BY GateParts, OneMaker
<1>4. readers = {j \in DOMAIN g.gates : old \in Range(g.gates[j].ins)}
  BY <1>1, <1>3, UsesAre DEF UsesOf
<1> HIDE DEF index, old, t
<1>5. new \in Nat /\ Ready(g, new, i) /\ Equal(g, new, old)
  BY DEF Forwards, old
<1>6. Lower(g, new, old)
  BY <1>3, <1>5 DEF Lower
<1>7. \A j \in DOMAIN h.gates : Ready(h, old, j) => Ready(h, new, j)
  <2>1. \A j \in DOMAIN g.gates : j \in Nat
    <3>1. DOMAIN g.gates = 1..Len(g.gates) /\ Len(g.gates) \in Nat
      BY <1>1, GraphParts
    <3> QED BY <3>1
  <2>2. ASSUME NEW j \in DOMAIN g.gates, Ready(g, old, j) PROVE Ready(g, new, j)
    <3>1. i < j
      BY <1>3, <2>2 DEF Ready
    <3>2. \A m \in DOMAIN g.gates : m < i => m < j
      BY <2>1, <3>1
    <3> QED BY <1>5, <3>2 DEF Ready
  <2> QED BY <1>1, <2>2
<1>8. Equal(h, new, old)
  <2>1. new \in DOMAIN g.wires
    BY <1>5 DEF Ready
  <2> QED BY <1>1, <1>3, <1>5, <2>1 DEF Equal, Step, SameValues
<1>9. /\ Step(h, t) /\ Alike(h, t)
      /\ Replaced(h, t, readers, old, new)
  BY <1>1, <1>2, <1>5, <1>7, <1>8, ReplaceStep DEF t
<1>10. Step(g, t) /\ Alike(g, t)
  <2>1. Step(g, t)
    BY <1>1, <1>9, StepTwice
  <2>2. Alike(g, t)
    BY <1>1, <1>9 DEF Alike
  <2> QED BY <2>1, <2>2
<1>11. \A j \in DOMAIN g.gates : \A n \in DOMAIN g.gates[j].ins :
         t.gates[j].ins[n] = IF j \in readers /\ h.gates[j].ins[n] = old THEN new ELSE h.gates[j].ins[n]
  BY <1>1, <1>9 DEF Replaced
<1>12. ASSUME NEW j \in DOMAIN g.gates, NEW n \in DOMAIN g.gates[j].ins
       PROVE  /\ t.gates[j].ins[n] = g.gates[j].ins[n] \/ Lower(g, t.gates[j].ins[n], g.gates[j].ins[n])
              /\ g.gates[j].ins[n] = old \/ h.gates[j].ins[n] # g.gates[j].ins[n]
                 => t.gates[j].ins[n] # g.gates[j].ins[n]
              /\ Settled(g) => /\ IsConst(g, t.gates[j].ins[n]) => t.gates[j].ins[n] = g.gates[j].ins[n]
                               /\ ~Unread(g, t.gates[j].ins[n])
  <2>0. /\ h.gates[j].ins[n] = g.gates[j].ins[n] \/ Lower(g, h.gates[j].ins[n], g.gates[j].ins[n])
        /\ Settled(g) => /\ IsConst(g, h.gates[j].ins[n]) => h.gates[j].ins[n] = g.gates[j].ins[n]
                         /\ ~Unread(g, h.gates[j].ins[n])
    BY DEF SweepState, NoNewReads
  <2>1. CASE j \in readers /\ h.gates[j].ins[n] = old
    <3>1. t.gates[j].ins[n] = new
      BY <1>11, <2>1
    <3>2. Lower(g, new, g.gates[j].ins[n]) /\ new # g.gates[j].ins[n]
      BY <1>6, <2>0, <2>1, LowerIs
    <3>3. ASSUME Settled(g) PROVE ~IsConst(g, new) /\ ~Unread(g, new)
      <4>1. ~Unread(g, old)
        BY <2>0, <2>1, <3>3
      <4>2. ~AllConst(g, i) /\ ~(g.gates[i].op = "Iadd32" /\ k = 2)
        BY <3>3, <4>1 DEF Settled, old
      <4>3. ~IsConst(g, new)
        BY <4>2 DEF Forwards
      <4>4. \E m \in DOMAIN g.gates[i].ins : new = g.gates[i].ins[m]
        BY <4>3 DEF Forwards
      <4> QED BY <4>3, <4>4 DEF Unread
    <3> QED BY <3>1, <3>2, <3>3
  <2>2. CASE ~(j \in readers /\ h.gates[j].ins[n] = old)
    <3>1. t.gates[j].ins[n] = h.gates[j].ins[n]
      BY <1>11, <2>2
    <3>2. ASSUME g.gates[j].ins[n] = old, h.gates[j].ins[n] = g.gates[j].ins[n] PROVE FALSE
      <4>1. j \in readers
        BY <1>4, <3>2 DEF Range
      <4> QED BY <2>2, <3>2, <4>1
    <3> QED BY <2>0, <3>1, <3>2
  <2> QED BY <2>1, <2>2
<1>13. SweepState(g, t)
  BY <1>10, <1>12 DEF SweepState, NoNewReads
<1> QED BY <1>12, <1>13 DEF t, index, old

(* A sweep is complete: one that changes nothing has nothing left to move.   *)
LEMMA SweepIs ==
  ASSUME NEW g, GraphOK(g), HasZero(g)
  PROVE  /\ SweepState(g, Sweep(g))
         /\ Sweep(g) = g => \A i \in DOMAIN g.gates : ZeroIdentity(g, g.gates[i]) # <<>> =>
              \A k \in DOMAIN g.gates[i].outs : Unread(g, g.gates[i].outs[k])
<1> DEFINE ss == [i \in DOMAIN g.gates |-> ZeroIdentity(g, g.gates[i])]
           s == FlattenSeq(ss)
           n == Len(s)
           T == {h \in GraphSet : SweepState(g, h)}
           Op(h, pair) == ReplaceWire(h, WireUses(g), pair[1], pair[2])
           G == [p \in T \X (1..n) |-> Op(p[1], s[p[2]])]
           Is(it) == it = [d \in SUBSET (1..n) |-> IF d = {} THEN g ELSE Op(it[d \ {Max(d)}], s[Max(d)])]
           it == CHOOSE x : Is(x)
<1>1. g \in GraphSet /\ DOMAIN g.gates = 1..Len(g.gates) /\ Len(g.gates) \in Nat
  BY GraphParts DEF GraphOK
<1>2. ss \in Seq(Seq(Nat \X Nat)) /\ Len(ss) = Len(g.gates)
  <2>1. \A i \in DOMAIN g.gates : ss[i] \in Seq(Nat \X Nat)
    <3>1. <<>> \in Seq(Nat \X Nat)
      OBVIOUS
    <3> QED BY <3>1, ZeroIdentityIs
  <2>2. ss = [i \in 1..Len(g.gates) |-> ss[i]]
    BY <1>1
  <2> HIDE DEF ss
  <2> QED BY <1>1, <2>1, <2>2
<1>3. s \in Seq(Nat \X Nat) /\ \A y : y \in Range(s) <=> \E i \in DOMAIN g.gates : y \in Range(ss[i])
  <2> HIDE DEF ss
  <2>1. s \in Seq(Nat \X Nat) /\ Range(s) = UNION {Range(ss[i]) : i \in DOMAIN g.gates}
    BY <1>1, <1>2, FlattenSeqOK, FlattenMembers
  <2> HIDE DEF s
  <2> QED BY <2>1
<1>4. n \in Nat /\ DOMAIN s = 1..n
  BY <1>3
<1>5. Sweep(g) = it[1..n]
  <2>1. Sweep(g) = FoldLeft(Op, g, s)
    BY DEF Sweep
  <2> HIDE DEF s
  <2> QED BY <1>4, <2>1 DEF FoldLeft, MapThenFoldSet
<1>6. \A m \in 1..n : \E i \in DOMAIN g.gates : \E k \in DOMAIN g.gates[i].outs :
        s[m][1] = g.gates[i].outs[k] /\ Forwards(g, i, k, s[m][2])
  <2> HIDE DEF s
  <2>1. ASSUME NEW m \in 1..n
        PROVE  \E i \in DOMAIN g.gates : \E k \in DOMAIN g.gates[i].outs :
                 s[m][1] = g.gates[i].outs[k] /\ Forwards(g, i, k, s[m][2])
    <3>1. s[m] \in Range(s)
      BY <1>4 DEF Range
    <3>0. \A i \in DOMAIN g.gates : ss[i] = ZeroIdentity(g, g.gates[i])
      OBVIOUS
    <3> HIDE DEF ss
    <3>2. PICK i \in DOMAIN g.gates : s[m] \in Range(ss[i])
      BY <1>3, <3>1
    <3>3. ss[i] = ZeroIdentity(g, g.gates[i])
      BY <3>0
    <3>4. PICK k \in DOMAIN ss[i] : s[m] = ss[i][k]
      BY <3>2 DEF Range
    <3>5. ss[i] # <<>>
      BY <3>4
    <3>6. k \in DOMAIN g.gates[i].outs /\ ss[i][k][1] = g.gates[i].outs[k] /\ Forwards(g, i, k, ss[i][k][2])
      BY <3>3, <3>4, <3>5, ZeroIdentityIs
    <3> QED BY <3>4, <3>6
  <2> QED BY <2>1
<1>7. \A i \in DOMAIN g.gates : ZeroIdentity(g, g.gates[i]) # <<>> =>
        \A k \in DOMAIN g.gates[i].outs : \E m \in 1..n : s[m][1] = g.gates[i].outs[k]
  <2> HIDE DEF s
  <2>1. ASSUME NEW i \in DOMAIN g.gates, ZeroIdentity(g, g.gates[i]) # <<>>, NEW k \in DOMAIN g.gates[i].outs
        PROVE  \E m \in 1..n : s[m][1] = g.gates[i].outs[k]
    <3>1. ss[i] = ZeroIdentity(g, g.gates[i])
      OBVIOUS
    <3> HIDE DEF ss
    <3>2. k \in DOMAIN ss[i] /\ ss[i][k][1] = g.gates[i].outs[k]
      BY <2>1, <3>1, ZeroIdentityIs
    <3>3. ss[i][k] \in Range(s)
      <4>1. ss[i][k] \in Range(ss[i])
        BY <3>2 DEF Range
      <4> QED BY <1>3, <4>1
    <3> QED BY <1>4, <3>2, <3>3 DEF Range
  <2> QED BY <2>1
<1> HIDE DEF s, n
<1>8. ASSUME NEW h \in T, NEW m \in 1..n
      PROVE  /\ Op(h, s[m]) \in T
             /\ \A j \in DOMAIN g.gates : \A l \in DOMAIN g.gates[j].ins :
                  g.gates[j].ins[l] = s[m][1] \/ h.gates[j].ins[l] # g.gates[j].ins[l]
                  => Op(h, s[m]).gates[j].ins[l] # g.gates[j].ins[l]
  <2>0. PICK i \in DOMAIN g.gates : \E k \in DOMAIN g.gates[i].outs :
          s[m][1] = g.gates[i].outs[k] /\ Forwards(g, i, k, s[m][2])
    BY <1>6
  <2>1. PICK k \in DOMAIN g.gates[i].outs : s[m][1] = g.gates[i].outs[k] /\ Forwards(g, i, k, s[m][2])
    BY <2>0
  <2>2. SweepState(g, h)
    OBVIOUS
  <2>3. /\ SweepState(g, Op(h, s[m]))
        /\ \A j \in DOMAIN g.gates : \A l \in DOMAIN g.gates[j].ins :
             g.gates[j].ins[l] = s[m][1] \/ h.gates[j].ins[l] # g.gates[j].ins[l]
             => Op(h, s[m]).gates[j].ins[l] # g.gates[j].ins[l]
    BY <2>1, <2>2, SweepStep
  <2>4. Op(h, s[m]) \in GraphSet
    BY <2>3 DEF SweepState, Step, GraphOK
  <2> HIDE DEF Op
  <2> QED BY <2>3, <2>4
<1>9. g \in T
  <2>1. Alike(g, g)
    BY <1>1 DEF Alike
  <2>2. Settled(g) => NoNewReads(g, g)
    BY DEF NoNewReads, Unread
  <2>3. SweepState(g, g)
    BY <2>1, <2>2, StepSelf DEF SweepState
  <2> QED BY <1>1, <2>3
<1> HIDE DEF T, Op
<1>10. G \in [T \X (1..n) -> T]
  BY <1>8
<1>11. PICK x \in [SUBSET (1..n) -> T] : FoldsBy(x, n, g, G)
  <2> HIDE DEF G
  <2> QED BY <1>4, <1>9, <1>10, FoldExists
<1>12. Is(x)
  <2>1. ASSUME NEW d \in SUBSET (1..n), d # {} PROVE x[d] = Op(x[d \ {Max(d)}], s[Max(d)])
    <3>1. Max(d) \in 1..n /\ x[d \ {Max(d)}] \in T
      BY <1>4, <2>1, FoldTop
    <3>2. G[<<x[d \ {Max(d)}], Max(d)>>] = Op(x[d \ {Max(d)}], s[Max(d)])
      BY <3>1
    <3> HIDE DEF G
    <3> QED BY <1>11, <2>1, <3>2 DEF FoldsBy
  <2>2. x[{}] = g
    BY <1>11 DEF FoldsBy
  <2> QED BY <1>11, <2>1, <2>2
<1>13. Is(it)
  <2> HIDE DEF Is
  <2> QED BY <1>12
<1> HIDE DEF it
<1>14. it[1..0] = g /\ \A k \in 0..n - 1 : it[1..k + 1] = Op(it[1..k], s[k + 1])
  <2>1. \A d \in SUBSET (1..n) : it[d] = IF d = {} THEN g ELSE Op(it[d \ {Max(d)}], s[Max(d)])
    BY <1>13
  <2>2. ASSUME NEW k \in 0..n - 1 PROVE it[1..k + 1] = Op(it[1..k], s[k + 1])
    <3>1. n \in Nat
      BY <1>4
    <3> QED BY ONLY <2>1, <3>1, PrefixMax, k \in 0..n - 1
  <2>3. 1..0 = {}
    BY <1>4
  <2> QED BY <2>1, <2>2, <2>3
<1> DEFINE Good(k) == /\ it[1..k] \in T
                      /\ \A m \in 1..k : \A j \in DOMAIN g.gates : \A l \in DOMAIN g.gates[j].ins :
                           g.gates[j].ins[l] = s[m][1] => it[1..k].gates[j].ins[l] # g.gates[j].ins[l]
           S == {k \in 0..n : Good(k)}
<1>15. 0 \in S
  BY <1>4, <1>9, <1>14
<1>16. ASSUME NEW k \in Nat, k < n, k \in S PROVE k + 1 \in S
  <2>1. /\ k \in 0..n - 1 /\ k + 1 \in 1..n /\ k + 1 \in 0..n /\ Good(k)
        /\ \A m \in 1..k + 1 : m \in 1..n /\ (m \in 1..k \/ m = k + 1)
    <3> HIDE DEF Good
    <3> QED BY <1>4, <1>16
  <2>2. /\ it[1..k + 1] \in T
        /\ \A j \in DOMAIN g.gates : \A l \in DOMAIN g.gates[j].ins :
             g.gates[j].ins[l] = s[k + 1][1] \/ it[1..k].gates[j].ins[l] # g.gates[j].ins[l]
             => it[1..k + 1].gates[j].ins[l] # g.gates[j].ins[l]
    BY <1>8, <1>14, <2>1
  <2>3. Good(k + 1)
    BY <2>1, <2>2
  <2> HIDE DEF Good
  <2> QED BY <2>1, <2>3
<1>17. Good(n)
  <2> HIDE DEF S
  <2>1. \A k \in 0..n : k \in S
    BY <1>4, <1>15, <1>16, UpwardClosed
  <2> QED BY <1>4, <2>1 DEF S
<1>18. SweepState(g, Sweep(g))
  BY <1>5, <1>17 DEF T
<1>19. ASSUME Sweep(g) = g, NEW i \in DOMAIN g.gates, ZeroIdentity(g, g.gates[i]) # <<>>,
              NEW k \in DOMAIN g.gates[i].outs
       PROVE  Unread(g, g.gates[i].outs[k])
  <2>1. PICK m \in 1..n : s[m][1] = g.gates[i].outs[k]
    BY <1>7, <1>19
  <2>2. \A j \in DOMAIN g.gates : \A l \in DOMAIN g.gates[j].ins :
          g.gates[j].ins[l] = s[m][1] => g.gates[j].ins[l] # g.gates[j].ins[l]
    BY <1>5, <1>17, <1>19
  <2> QED BY <2>1, <2>2 DEF Unread
<1> QED BY <1>18, <1>19
------------------------------------------------------------------------------
(* Common-subexpression elimination *)
Canonical(s, w) == IF w \in DOMAIN s.remap THEN s.remap[w] ELSE w

RemapSet(g) == UNION {[D -> Nat] : D \in SUBSET DOMAIN g.wires}
DedupSet(g) == {s \in [graph : GraphSet, remap : RemapSet(g), dead : SUBSET DOMAIN g.gates] : Alike(g, s.graph)}

Earlier(s, gate, i) == {j \in DOMAIN s.graph.gates :
  j < i /\ j \notin s.dead /\ Structure(s.graph.gates[j]) = Structure(gate)}

(* Gate i was visited. *)
DedupMade(g, s, i, t) ==
  /\ t \in DedupSet(g)
  /\ \A j \in DOMAIN g.gates : j # i => t.graph.gates[j] = s.graph.gates[j]
  /\ \A n \in DOMAIN g.gates[i].ins : t.graph.gates[i].ins[n] = Canonical(s, s.graph.gates[i].ins[n])
  /\ \/ /\ Earlier(s, t.graph.gates[i], i) = {} \/ Observable(g, g.gates[i])
        /\ t.remap = s.remap /\ t.dead = s.dead
     \/ /\ ~Observable(g, g.gates[i]) /\ t.dead = s.dead \cup {i}
        /\ DOMAIN t.remap = DOMAIN s.remap \cup Range(g.gates[i].outs)
        /\ \A w \in DOMAIN s.remap : t.remap[w] = s.remap[w]
        /\ \E c \in Earlier(s, t.graph.gates[i], i) : \A k \in DOMAIN g.gates[i].outs :
             g.gates[i].outs[k] \notin DOMAIN s.remap
             => t.remap[g.gates[i].outs[k]] = g.gates[c].outs[k]

LEMMA DedupGateIs ==
  ASSUME NEW g, GraphOK(g), NEW s \in DedupSet(g), NEW i \in DOMAIN g.gates
  PROVE  DedupMade(g, s, i, DedupGate(s, i))
<1> DEFINE old == s.graph.gates[i]
           Canon(w) == IF w \in DOMAIN s.remap THEN s.remap[w] ELSE w
           ins == [k \in DOMAIN old.ins |-> Canon(old.ins[k])]
           gate == [old EXCEPT !.ins = [k \in DOMAIN @ |-> Canon(@[k])]]
           earlier == {j \in DOMAIN s.graph.gates :
                         j < i /\ j \notin s.dead /\ Structure(s.graph.gates[j]) = Structure(gate)}
           first == CHOOSE j \in earlier : \A k \in earlier : j <= k
           canon == s.graph.gates[first]
           renamed == [s EXCEPT !.graph.gates[i] = gate]
           moved == [renamed EXCEPT !.dead = @ \cup {i},
                       !.remap = [w \in DOMAIN @ \cup Range(gate.outs) |->
                          IF w \in DOMAIN @ THEN @[w]
                          ELSE canon.outs[CHOOSE k \in DOMAIN gate.outs : gate.outs[k] = w]]]
           t == DedupGate(s, i)
<1>1. t = IF earlier = {} \/ Observable(s.graph, gate) THEN renamed ELSE moved
  BY DEF DedupGate
<1>2. /\ g \in GraphSet /\ s.graph \in GraphSet /\ Alike(g, s.graph) /\ s.graph.wires = g.wires
      /\ DOMAIN s.graph.gates = DOMAIN g.gates /\ s.dead \subseteq DOMAIN g.gates
      /\ \A j \in DOMAIN g.gates : /\ s.graph.gates[j].op = g.gates[j].op /\ s.graph.gates[j].outs = g.gates[j].outs
                                   /\ DOMAIN s.graph.gates[j].ins = DOMAIN g.gates[j].ins
  BY AlikeParts DEF GraphOK, DedupSet
<1>3. PICK D \in SUBSET DOMAIN g.wires : s.remap \in [D -> Nat]
  BY DEF DedupSet, RemapSet
<1>4. /\ old \in GateSet /\ old.ins \in Seq(Nat) /\ old.outs \in Seq(Nat) /\ old.op \in Ops
      /\ DOMAIN old.ins = 1..Len(old.ins) /\ Len(old.ins) \in Nat
      /\ old = [op |-> old.op, ins |-> old.ins, outs |-> old.outs]
  <2>1. /\ old \in GateSet /\ old.ins \in Seq(Nat) /\ old.outs \in Seq(Nat) /\ old.op \in Ops
        /\ DOMAIN old.ins = 1..Len(old.ins) /\ Len(old.ins) \in Nat
    BY <1>2, GraphParts
  <2>2. old = [op |-> old.op, ins |-> old.ins, outs |-> old.outs]
    BY <2>1 DEF GateSet
  <2> QED BY <2>1, <2>2
<1>5. \A w \in Nat : Canon(w) \in Nat
  BY <1>3
<1> HIDE DEF Canon, old
<1>6. ins \in Seq(Nat) /\ Len(ins) = Len(old.ins) /\ \A k \in DOMAIN old.ins : ins[k] = Canon(old.ins[k])
  BY <1>4, <1>5
<1>7. gate = [op |-> old.op, ins |-> ins, outs |-> old.outs]
  <2>1. gate = [old EXCEPT !.ins = ins]
    OBVIOUS
  <2> HIDE DEF gate, ins
  <2> QED BY <1>4, <2>1
<1> HIDE DEF gate, ins
<1>8. gate \in GateSet /\ gate.op = old.op /\ gate.outs = old.outs /\ gate.ins = ins
  BY <1>4, <1>6, <1>7 DEF GateSet
<1>9. /\ s = [graph |-> s.graph, remap |-> s.remap, dead |-> s.dead]
      /\ s.graph = [wires |-> s.graph.wires, gates |-> s.graph.gates]
      /\ s.graph.gates \in Seq(GateSet) /\ s.graph.wires \in Seq(WireSet)
      /\ DOMAIN s.graph.gates = 1..Len(s.graph.gates) /\ Len(s.graph.gates) \in Nat
      /\ Len(s.graph.gates) = Len(g.gates)
  BY <1>2, GraphParts DEF DedupSet, Alike
<1> DEFINE gates == [s.graph.gates EXCEPT ![i] = gate]
           h == [wires |-> s.graph.wires, gates |-> gates]
<1>10. renamed = [graph |-> h, remap |-> s.remap, dead |-> s.dead]
  <2>1. renamed = [s EXCEPT !.graph = [s.graph EXCEPT !.gates = gates]]
    OBVIOUS
  <2> HIDE DEF renamed, gates
  <2>2. [s.graph EXCEPT !.gates = gates] = h
    BY <1>9
  <2> QED BY <1>9, <2>1, <2>2
<1>11. /\ gates \in Seq(GateSet) /\ Len(gates) = Len(s.graph.gates) /\ gates[i] = gate
       /\ \A j \in DOMAIN g.gates : j # i => gates[j] = s.graph.gates[j]
  BY <1>2, <1>8, <1>9
<1> HIDE DEF gates, renamed
<1>12. /\ h \in GraphSet /\ h.wires = g.wires /\ h.gates = gates /\ Alike(g, h)
  <2>1. h \in GraphSet /\ h.wires = g.wires /\ h.gates = gates
    BY <1>2, <1>9, <1>11 DEF GraphSet
  <2>2. ASSUME NEW j \in DOMAIN g.gates
        PROVE  /\ h.gates[j].op = g.gates[j].op /\ h.gates[j].outs = g.gates[j].outs
               /\ Len(h.gates[j].ins) = Len(g.gates[j].ins)
    <3>1. Len(s.graph.gates[j].ins) = Len(g.gates[j].ins)
      BY <1>2 DEF Alike
    <3>2. CASE j = i
      BY <1>2, <1>6, <1>8, <1>11, <2>1, <3>1, <3>2 DEF old
    <3>3. CASE j # i
      BY <1>2, <1>11, <2>1, <3>1, <3>3
    <3> QED BY <3>2, <3>3
  <2>3. Len(h.gates) = Len(g.gates)
    BY <1>9, <1>11, <2>1
  <2> QED BY <2>1, <2>2, <2>3 DEF Alike
<1> HIDE DEF h
<1>13. Observable(s.graph, gate) <=> Observable(g, g.gates[i])
  BY <1>2, <1>8 DEF Observable, old
<1>14. \A n \in DOMAIN g.gates[i].ins : gate.ins[n] = Canonical(s, s.graph.gates[i].ins[n])
  BY <1>2, <1>6, <1>8 DEF Canonical, Canon, old
<1>15. CASE earlier = {} \/ Observable(s.graph, gate)
  <2>1. t = [graph |-> h, remap |-> s.remap, dead |-> s.dead]
    BY <1>1, <1>10, <1>15
  <2> HIDE DEF t
  <2>2. t.graph = h /\ t.remap = s.remap /\ t.dead = s.dead
    BY <2>1
  <2>3. t \in DedupSet(g)
    BY <1>12, <2>1 DEF DedupSet
  <2>4. Earlier(s, t.graph.gates[i], i) = earlier
    BY <1>11, <1>12, <2>2 DEF Earlier
  <2>5. DedupMade(g, s, i, t)
    BY <1>11, <1>12, <1>13, <1>14, <1>15, <2>2, <2>3, <2>4 DEF DedupMade
  <2> QED BY <2>5 DEF t
<1>16. CASE ~(earlier = {} \/ Observable(s.graph, gate))
  <2> DEFINE remap == [w \in DOMAIN s.remap \cup Range(gate.outs) |->
                         IF w \in DOMAIN s.remap THEN s.remap[w]
                         ELSE canon.outs[CHOOSE k \in DOMAIN gate.outs : gate.outs[k] = w]]
  <2>1. t = [graph |-> h, remap |-> remap, dead |-> s.dead \cup {i}]
    <3>1. t = moved
      BY <1>1, <1>16
    <3> HIDE DEF t, canon, earlier
    <3>2. renamed.remap = s.remap /\ renamed.dead = s.dead
      BY <1>10
    <3>3. moved = [renamed EXCEPT !.dead = s.dead \cup {i}, !.remap = remap]
      BY <3>2
    <3> HIDE DEF moved, remap
    <3> QED BY <1>10, <3>1, <3>3
  <2>2. first \in earlier
    <3>1. earlier \subseteq Nat /\ earlier # {}
      BY <1>9, <1>16
    <3> HIDE DEF earlier
    <3>2. \E j \in earlier : \A k \in earlier : j <= k
      BY <3>1, LeastElement
    <3> QED BY <3>2
  <2> HIDE DEF t, first
  <2>3. /\ first \in DOMAIN g.gates /\ canon.op = gate.op /\ canon.outs = g.gates[first].outs
        /\ canon.outs \in Seq(Nat) /\ DOMAIN canon.outs = DOMAIN gate.outs
    <3>1. first \in DOMAIN g.gates /\ canon.op = gate.op
      BY <1>2, <2>2 DEF Structure
    <3>2. canon.outs = g.gates[first].outs /\ gate.outs = g.gates[i].outs /\ g.gates[first].op = g.gates[i].op
      BY <1>2, <1>8, <3>1 DEF old
    <3>3. g.gates[first].outs \in Seq(Nat)
      BY <1>2, <3>1, GraphParts
    <3>4. DOMAIN g.gates[first].outs = DOMAIN g.gates[i].outs
      BY <3>1, <3>2, GateParts
    <3> QED BY <3>1, <3>2, <3>3, <3>4
  <2>4. gate.outs = g.gates[i].outs
    BY <1>2, <1>8 DEF old
  <2>5. ASSUME NEW k \in DOMAIN g.gates[i].outs
        PROVE  /\ (CHOOSE m \in DOMAIN gate.outs : gate.outs[m] = g.gates[i].outs[k]) = k
               /\ canon.outs[k] \in Nat /\ canon.outs[k] = g.gates[first].outs[k]
               /\ g.gates[i].outs[k] \in Range(gate.outs)
    <3>1. (CHOOSE m \in DOMAIN gate.outs : gate.outs[m] = g.gates[i].outs[k]) = k
      BY <2>4, OneMaker
    <3>2. g.gates[i].outs[k] \in Range(gate.outs)
      BY <2>4, OneMaker
    <3> HIDE DEF canon
    <3> QED BY <2>3, <2>4, <3>1, <3>2
  <2> HIDE DEF canon
  <2>6. /\ DOMAIN remap = DOMAIN s.remap \cup Range(g.gates[i].outs)
        /\ \A w \in DOMAIN s.remap : remap[w] = s.remap[w]
        /\ \A k \in DOMAIN g.gates[i].outs : g.gates[i].outs[k] \notin DOMAIN s.remap
             => remap[g.gates[i].outs[k]] = g.gates[first].outs[k]
    BY <2>4, <2>5
  <2>7. remap \in RemapSet(g)
    <3>1. \A w \in Range(gate.outs) : \E k \in DOMAIN g.gates[i].outs : w = g.gates[i].outs[k]
      BY <2>4 DEF Range
    <3>2. ASSUME NEW w \in DOMAIN s.remap \cup Range(gate.outs) PROVE remap[w] \in Nat /\ w \in DOMAIN g.wires
      <4>1. CASE w \in DOMAIN s.remap
        BY <1>3, <2>6, <4>1
      <4>2. CASE w \notin DOMAIN s.remap
        <5>1. PICK k \in DOMAIN g.gates[i].outs : w = g.gates[i].outs[k]
          BY <3>1, <3>2, <4>2
        <5>2. remap[w] = g.gates[first].outs[k]
          BY <2>6, <4>2, <5>1
        <5>3. w \in DOMAIN g.wires
          BY <5>1, GateParts
        <5> HIDE DEF remap
        <5> QED BY <2>5, <5>2, <5>3
      <4> QED BY <4>1, <4>2
    <3>3. remap \in [DOMAIN s.remap \cup Range(gate.outs) -> Nat]
      BY <3>2
    <3>4. DOMAIN s.remap \cup Range(gate.outs) \in SUBSET DOMAIN g.wires
      BY <3>2
    <3> HIDE DEF remap
    <3> QED BY <3>3, <3>4 DEF RemapSet
  <2> HIDE DEF remap
  <2>8. t.graph = h /\ t.remap = remap /\ t.dead = s.dead \cup {i}
    BY <2>1
  <2>9. t \in DedupSet(g)
    <3>1. s.dead \cup {i} \in SUBSET DOMAIN g.gates
      BY <1>2
    <3> QED BY <1>12, <2>1, <2>7, <3>1 DEF DedupSet
  <2>10. Earlier(s, t.graph.gates[i], i) = earlier
    BY <1>11, <1>12, <2>8 DEF Earlier
  <2> HIDE DEF earlier
  <2>11. DedupMade(g, s, i, t)
    BY <1>11, <1>12, <1>13, <1>14, <1>16, <2>2, <2>6, <2>8, <2>9, <2>10 DEF DedupMade
  <2> QED BY <2>11 DEF t
<1> QED BY <1>15, <1>16

Deduped(P, g) ==
  /\ P[0] = [graph |-> g, remap |-> <<>>, dead |-> {}] /\ Dedup(g) = P[Len(g.gates)]
  /\ \A k \in 0..Len(g.gates) - 1 : P[k + 1] = DedupGate(P[k], k + 1)

LEMMA DedupParts ==
  ASSUME NEW g, GraphOK(g)
  PROVE  \E P \in [0..Len(g.gates) -> DedupSet(g)] : Deduped(P, g)
<1> DEFINE n == Len(g.gates)
           base == [graph |-> g, remap |-> <<>>, dead |-> {}]
           s == [i \in DOMAIN g.gates |-> i]
           T == DedupSet(g)
           G == [p \in T \X (1..n) |-> DedupGate(p[1], s[p[2]])]
           Is(it) == it = [d \in SUBSET (1..n) |-> IF d = {} THEN base ELSE DedupGate(it[d \ {Max(d)}], s[Max(d)])]
           it == CHOOSE x : Is(x)
<1>1. g \in GraphSet /\ n \in Nat /\ DOMAIN g.gates = 1..n /\ DOMAIN s = 1..n /\ \A i \in 1..n : s[i] = i
  BY GraphParts DEF GraphOK
<1>2. Dedup(g) = it[1..n]
  BY <1>1 DEF Dedup, FoldLeft, MapThenFoldSet
<1>3. base \in T
  <2>1. Alike(g, g)
    BY <1>1 DEF Alike
  <2>2. <<>> \in RemapSet(g)
    <3>1. <<>> \in [{} -> Nat] /\ {} \in SUBSET DOMAIN g.wires
      OBVIOUS
    <3> QED BY <3>1 DEF RemapSet
  <2> QED BY <1>1, <2>1, <2>2 DEF DedupSet
<1> HIDE DEF base, s, n
<1>4. \A v \in T : \A i \in 1..n : DedupGate(v, s[i]) \in T
  BY <1>1, DedupGateIs DEF DedupMade
<1> HIDE DEF T
<1>5. G \in [T \X (1..n) -> T]
  BY <1>4
<1>6. PICK x \in [SUBSET (1..n) -> T] : FoldsBy(x, n, base, G)
  <2> HIDE DEF G
  <2> QED BY <1>1, <1>3, <1>5, FoldExists
<1>7. Is(x)
  <2>1. ASSUME NEW d \in SUBSET (1..n), d # {} PROVE x[d] = DedupGate(x[d \ {Max(d)}], s[Max(d)])
    <3>1. Max(d) \in 1..n /\ x[d \ {Max(d)}] \in T
      BY <1>1, <2>1, FoldTop
    <3>2. G[<<x[d \ {Max(d)}], Max(d)>>] = DedupGate(x[d \ {Max(d)}], s[Max(d)])
      BY <3>1
    <3> HIDE DEF G
    <3> QED BY <1>6, <2>1, <3>2 DEF FoldsBy
  <2>2. x[{}] = base
    BY <1>6 DEF FoldsBy
  <2> QED BY <1>6, <2>1, <2>2
<1>8. Is(it)
  <2> HIDE DEF Is
  <2> QED BY <1>7
<1> HIDE DEF it
<1>9. it[1..0] = base /\ \A k \in 0..n - 1 : it[1..k + 1] = DedupGate(it[1..k], k + 1)
  <2>1. \A d \in SUBSET (1..n) : it[d] = IF d = {} THEN base ELSE DedupGate(it[d \ {Max(d)}], s[Max(d)])
    BY <1>8
  <2>2. ASSUME NEW k \in 0..n - 1 PROVE it[1..k + 1] = DedupGate(it[1..k], k + 1)
    <3>1. k + 1 \in 1..n /\ s[k + 1] = k + 1 /\ n \in Nat
      BY <1>1
    <3>2. it[1..k + 1] = DedupGate(it[1..k], s[k + 1])
      BY ONLY <2>1, <3>1, PrefixMax, k \in 0..n - 1
    <3> QED BY <3>1, <3>2
  <2>3. 1..0 = {}
    BY <1>1
  <2> QED BY <2>1, <2>2, <2>3
<1> DEFINE P == [k \in 0..n |-> it[1..k]]
<1>10. \A k \in 0..n : it[1..k] \in T
  <2> DEFINE S == {k \in 0..n : it[1..k] \in T}
  <2>1. 0 \in S
    <3>1. 0 \in 0..n /\ it[1..0] \in T
      BY <1>1, <1>3, <1>9
    <3> QED BY <3>1
  <2>2. ASSUME NEW k \in Nat, k < n, k \in S PROVE k + 1 \in S
    <3>1. k \in 0..n - 1 /\ k + 1 \in 1..n /\ k + 1 \in 0..n /\ it[1..k] \in T /\ s[k + 1] = k + 1
      BY <1>1, <2>2
    <3>2. it[1..k + 1] \in T
      BY <1>4, <1>9, <3>1
    <3> QED BY <3>1, <3>2
  <2> HIDE DEF S
  <2>3. \A k \in 0..n : k \in S
    BY <1>1, <2>1, <2>2, UpwardClosed
  <2> QED BY <2>3 DEF S
<1>11. P \in [0..n -> T]
  BY <1>10
<1>12. P[0] = base /\ P[n] = it[1..n] /\ \A k \in 0..n - 1 : P[k + 1] = DedupGate(P[k], k + 1)
  BY <1>1, <1>9
<1> HIDE DEF P
<1> QED BY <1>2, <1>11, <1>12 DEF Deduped, base, n, T

(* Gate d is dead for gate c. *)
Merged(g, s, d, c) ==
  /\ c \in DOMAIN g.gates /\ c < d /\ c \notin s.dead
  /\ Structure(s.graph.gates[c]) = Structure(s.graph.gates[d])
  /\ \A k \in DOMAIN g.gates[d].outs :
       g.gates[d].outs[k] \in DOMAIN s.remap /\ s.remap[g.gates[d].outs[k]] = g.gates[c].outs[k]

DedupState(g, i, s) ==
  /\ s \in DedupSet(g) /\ Step(g, s.graph)
  /\ \A j \in DOMAIN g.gates : i < j => s.graph.gates[j] = g.gates[j]
  /\ \A j \in DOMAIN g.gates : \A n \in DOMAIN g.gates[j].ins :
       \/ s.graph.gates[j].ins[n] = g.gates[j].ins[n]
       \/ /\ g.gates[j].ins[n] \in DOMAIN s.remap
          /\ s.graph.gates[j].ins[n] = s.remap[g.gates[j].ins[n]]
  /\ \A d \in s.dead : d <= i /\ ~Observable(g, g.gates[d]) /\ \E c \in DOMAIN g.gates : Merged(g, s, d, c)
  /\ \A w \in DOMAIN s.remap : \E d \in s.dead : w \in Range(g.gates[d].outs)
  /\ \A a, b \in DOMAIN g.gates :
       a < b /\ b <= i /\ a \notin s.dead /\ b \notin s.dead
         /\ Structure(s.graph.gates[a]) = Structure(s.graph.gates[b])
       => Observable(g, g.gates[b])

(* Gates of one structure make the same values. *)
LEMMA SameStructure ==
  ASSUME NEW g, GraphOK(g), NEW c \in DOMAIN g.gates, NEW d \in DOMAIN g.gates,
         Structure(g.gates[c]) = Structure(g.gates[d])
  PROVE  /\ g.gates[c].op = g.gates[d].op /\ g.gates[c].ins = g.gates[d].ins
         /\ DOMAIN g.gates[c].outs = DOMAIN g.gates[d].outs
         /\ \A k \in DOMAIN g.gates[d].outs : Equal(g, g.gates[c].outs[k], g.gates[d].outs[k])
         /\ \A v : Read(g, c, v) = Read(g, d, v)
<1>1. g.gates[c].op = g.gates[d].op /\ g.gates[c].ins = g.gates[d].ins
  BY DEF Structure
<1>2. DOMAIN g.gates[c].outs = DOMAIN g.gates[d].outs
  BY <1>1, GateParts
<1>3. \A v : Read(g, c, v) = Read(g, d, v)
  BY <1>1 DEF Read
<1>4. ASSUME NEW k \in DOMAIN g.gates[d].outs, NEW f \in Assignments(DeclaredOf(g))
      PROVE  V(g, f)[g.gates[c].outs[k]] = V(g, f)[g.gates[d].outs[k]]
  <2>1. Fits(g, f, V(g, f))
    BY VFits
  <2>2. /\ V(g, f)[g.gates[c].outs[k]] = Result(g.gates[c].op, Read(g, c, V(g, f)))[k]
        /\ V(g, f)[g.gates[d].outs[k]] = Result(g.gates[d].op, Read(g, d, V(g, f)))[k]
    BY <1>2, <2>1 DEF Fits, Sound
  <2> QED BY <1>1, <1>3, <2>2
<1> QED BY <1>1, <1>2, <1>3, <1>4 DEF Equal

LEMMA DedupStep ==
  ASSUME NEW g, GraphOK(g), NEW i \in Nat, i + 1 \in DOMAIN g.gates, NEW s, DedupState(g, i, s)
  PROVE  DedupState(g, i + 1, DedupGate(s, i + 1))
<1> DEFINE m == i + 1
           t == DedupGate(s, m)
<1>1. /\ s \in DedupSet(g) /\ Step(g, s.graph) /\ GraphOK(s.graph)
      /\ \A d \in s.dead : d <= i /\ \E c \in DOMAIN g.gates : Merged(g, s, d, c)
      /\ \A w \in DOMAIN s.remap : \E d \in s.dead : w \in Range(g.gates[d].outs)
      /\ \A j \in DOMAIN g.gates : i < j => s.graph.gates[j] = g.gates[j]
  BY DEF DedupState, Step
<1>2. DedupMade(g, s, m, t)
  BY <1>1, DedupGateIs
<1>3. /\ g \in GraphSet /\ s.graph \in GraphSet /\ Alike(g, s.graph) /\ s.graph.wires = g.wires
      /\ DOMAIN s.graph.gates = DOMAIN g.gates /\ s.dead \subseteq DOMAIN g.gates
      /\ \A j \in DOMAIN g.gates : /\ s.graph.gates[j].op = g.gates[j].op /\ s.graph.gates[j].outs = g.gates[j].outs
                                   /\ DOMAIN s.graph.gates[j].ins = DOMAIN g.gates[j].ins
      /\ \A x, j : Ready(s.graph, x, j) <=> Ready(g, x, j)
  BY <1>1, AlikeParts DEF GraphOK, DedupSet
<1>4. DOMAIN g.gates = 1..Len(g.gates) /\ Len(g.gates) \in Nat /\ \A j \in DOMAIN g.gates : j \in Nat
  <2>1. DOMAIN g.gates = 1..Len(g.gates) /\ Len(g.gates) \in Nat
    BY <1>3, GraphParts
  <2> QED BY <2>1
<1>5. m \in Nat /\ i < m /\ s.graph.gates[m] = g.gates[m] /\ m \in DOMAIN g.gates /\ m \notin s.dead
  <2>1. i < m /\ m \in Nat /\ ~(m <= i)
    OBVIOUS
  <2> QED BY <1>1, <2>1
<1> HIDE DEF t
<1>6. /\ t \in DedupSet(g)
      /\ \A j \in DOMAIN g.gates : j # m => t.graph.gates[j] = s.graph.gates[j]
      /\ \A n \in DOMAIN g.gates[m].ins : t.graph.gates[m].ins[n] = Canonical(s, g.gates[m].ins[n])
      /\ \A w \in DOMAIN s.remap : w \in DOMAIN t.remap /\ t.remap[w] = s.remap[w]
  BY <1>2, <1>5 DEF DedupMade
<1>7. Alike(g, t.graph) /\ Alike(s.graph, t.graph)
  <2>1. Alike(g, t.graph)
    BY <1>6 DEF DedupSet
  <2> QED BY <1>3, <2>1 DEF Alike
<1>8. ASSUME NEW w, w \in DOMAIN s.remap, Ready(g, w, m)
      PROVE  Ready(g, s.remap[w], m) /\ Equal(s.graph, s.remap[w], w)
  <2>1. PICK d \in s.dead : w \in Range(g.gates[d].outs)
    BY <1>1, <1>8
  <2>2. PICK k \in DOMAIN g.gates[d].outs : w = g.gates[d].outs[k]
    BY <2>1 DEF Range
  <2>3. PICK c \in DOMAIN g.gates : Merged(g, s, d, c)
    BY <1>1
  <2>4. /\ d \in DOMAIN g.gates /\ d <= i /\ c < d /\ Structure(s.graph.gates[c]) = Structure(s.graph.gates[d])
        /\ s.remap[w] = g.gates[c].outs[k]
    BY <1>1, <1>3, <2>2, <2>3 DEF Merged
  <2>5. DOMAIN g.gates[c].outs = DOMAIN g.gates[d].outs /\ Equal(s.graph, g.gates[c].outs[k], g.gates[d].outs[k])
    BY <1>1, <1>3, <2>4, SameStructure
  <2>6. c < m /\ g.gates[c].outs[k] \in DOMAIN g.wires
    <3>1. c < m
      BY <1>4, <1>5, <2>4
    <3> QED BY <2>5, <3>1, GateParts
  <2>7. \A j \in DOMAIN g.gates : g.gates[c].outs[k] \in Range(g.gates[j].outs) => j = c
    BY <2>5, OneMaker
  <2> QED BY <2>2, <2>4, <2>5, <2>6, <2>7 DEF Ready
<1>9. Step(s.graph, t.graph)
  <2>1. ASSUME NEW j \in DOMAIN s.graph.gates, NEW n \in DOMAIN s.graph.gates[j].ins
        PROVE  /\ Ready(s.graph, t.graph.gates[j].ins[n], j)
               /\ Equal(s.graph, t.graph.gates[j].ins[n], s.graph.gates[j].ins[n])
    <3>0. j \in DOMAIN g.gates /\ n \in DOMAIN g.gates[j].ins /\ Ready(s.graph, s.graph.gates[j].ins[n], j)
      BY <1>1, <1>3, <2>1, GateParts
    <3>1. CASE j # m
      BY <1>6, <3>0, <3>1 DEF Equal
    <3>2. CASE j = m
      <4>1. t.graph.gates[j].ins[n] = Canonical(s, g.gates[m].ins[n]) /\ s.graph.gates[j].ins[n] = g.gates[m].ins[n]
        BY <1>5, <1>6, <3>0, <3>2
      <4>2. Ready(g, g.gates[m].ins[n], m)
        BY <1>3, <3>0, <3>2, <4>1
      <4>3. CASE g.gates[m].ins[n] \in DOMAIN s.remap
        BY <1>3, <1>8, <3>2, <4>1, <4>2, <4>3 DEF Canonical
      <4>4. CASE g.gates[m].ins[n] \notin DOMAIN s.remap
        BY <1>3, <3>2, <4>1, <4>2, <4>4 DEF Canonical, Equal
      <4> QED BY <4>3, <4>4
    <3> QED BY <3>1, <3>2
  <2> QED BY <1>1, <1>7, <2>1, RereadStep
<1>10. Step(g, t.graph)
  BY <1>1, <1>9, StepTwice
<1>11. \A j \in DOMAIN g.gates : m < j => t.graph.gates[j] = g.gates[j]
  <2>1. \A j \in DOMAIN g.gates : m < j => i < j /\ j # m
    BY <1>4
  <2> QED BY <1>1, <1>6, <2>1
<1>12. \A j \in DOMAIN g.gates : \A n \in DOMAIN g.gates[j].ins :
         \/ t.graph.gates[j].ins[n] = g.gates[j].ins[n]
         \/ /\ g.gates[j].ins[n] \in DOMAIN t.remap
            /\ t.graph.gates[j].ins[n] = t.remap[g.gates[j].ins[n]]
  <2>1. ASSUME NEW j \in DOMAIN g.gates, NEW n \in DOMAIN g.gates[j].ins
        PROVE  \/ t.graph.gates[j].ins[n] = g.gates[j].ins[n]
               \/ /\ g.gates[j].ins[n] \in DOMAIN t.remap
                  /\ t.graph.gates[j].ins[n] = t.remap[g.gates[j].ins[n]]
    <3>1. CASE j # m
      BY <1>6, <3>1 DEF DedupState
    <3>2. CASE j = m
      BY <1>6, <3>2 DEF Canonical
    <3> QED BY <3>1, <3>2
  <2> QED BY <2>1
<1>13. ASSUME NEW d \in s.dead
       PROVE  d <= m /\ ~Observable(g, g.gates[d]) /\ \E c \in DOMAIN g.gates : Merged(g, t, d, c)
  <2>1. PICK c \in DOMAIN g.gates : Merged(g, s, d, c)
    BY <1>1
  <2>2. d \in DOMAIN g.gates /\ d <= i /\ c < d /\ c # m /\ d # m /\ d <= m
    <3>1. d \in DOMAIN g.gates /\ d <= i /\ c < d
      BY <1>1, <1>3, <2>1 DEF Merged
    <3> QED BY <1>4, <3>1
  <2>3. c \notin t.dead
    BY <1>2, <2>1, <2>2 DEF DedupMade, Merged
  <2>4. Merged(g, t, d, c)
    BY <1>6, <2>1, <2>2, <2>3 DEF Merged
  <2>5. ~Observable(g, g.gates[d])
    BY DEF DedupState
  <2> QED BY <2>2, <2>4, <2>5
<1>14. CASE (Earlier(s, t.graph.gates[m], m) = {} \/ Observable(g, g.gates[m])) /\ t.remap = s.remap /\ t.dead = s.dead
  <2>1. ASSUME NEW a \in DOMAIN g.gates, NEW b \in DOMAIN g.gates, a < b, b <= m, a \notin t.dead, b \notin t.dead,
               Structure(t.graph.gates[a]) = Structure(t.graph.gates[b])
        PROVE  Observable(g, g.gates[b])
    <3>1. CASE b = m
      <4>1. a # m /\ t.graph.gates[a] = s.graph.gates[a]
        BY <1>4, <1>6, <2>1, <3>1
      <4>2. a \in Earlier(s, t.graph.gates[m], m)
        BY <1>3, <1>14, <2>1, <3>1, <4>1 DEF Earlier
      <4> QED BY <1>14, <3>1, <4>2
    <3>2. CASE b # m
      <4>1. b <= i /\ a # m
        BY <1>4, <2>1, <3>2
      <4> QED BY <1>6, <1>14, <2>1, <3>2, <4>1 DEF DedupState
    <3> QED BY <3>1, <3>2
  <2> HIDE DEF m
  <2>2. DedupState(g, m, t)
    BY <1>1, <1>6, <1>10, <1>11, <1>12, <1>13, <1>14, <2>1 DEF DedupState
  <2> QED BY <2>2 DEF m, t
<1>15. CASE /\ ~Observable(g, g.gates[m]) /\ t.dead = s.dead \cup {m}
            /\ DOMAIN t.remap = DOMAIN s.remap \cup Range(g.gates[m].outs)
            /\ \E c \in Earlier(s, t.graph.gates[m], m) : \A k \in DOMAIN g.gates[m].outs :
                 g.gates[m].outs[k] \notin DOMAIN s.remap
                 => t.remap[g.gates[m].outs[k]] = g.gates[c].outs[k]
  <2>1. PICK c \in Earlier(s, t.graph.gates[m], m) : \A k \in DOMAIN g.gates[m].outs :
          g.gates[m].outs[k] \notin DOMAIN s.remap
          => t.remap[g.gates[m].outs[k]] = g.gates[c].outs[k]
    BY <1>15
  <2>2. /\ c \in DOMAIN g.gates /\ c < m /\ c \notin s.dead /\ c # m
        /\ Structure(s.graph.gates[c]) = Structure(t.graph.gates[m])
    BY <1>3, <1>4, <2>1 DEF Earlier
  <2>3. \A k \in DOMAIN g.gates[m].outs : g.gates[m].outs[k] \notin DOMAIN s.remap
    <3>1. ASSUME NEW k \in DOMAIN g.gates[m].outs, g.gates[m].outs[k] \in DOMAIN s.remap PROVE FALSE
      <4>1. PICK d \in s.dead : g.gates[m].outs[k] \in Range(g.gates[d].outs)
        BY <1>1, <3>1
      <4>2. d \in DOMAIN g.gates /\ m = d
        BY <1>3, <1>5, <4>1, OneMaker
      <4> QED BY <1>5, <4>2
    <3> QED BY <3>1
  <2>4. Merged(g, t, m, c)
    <3>1. \A k \in DOMAIN g.gates[m].outs : g.gates[m].outs[k] \in Range(g.gates[m].outs)
      BY DEF Range
    <3> QED BY <1>6, <1>15, <2>1, <2>2, <2>3, <3>1 DEF Merged
  <2>5. \A d \in t.dead : d <= m /\ ~Observable(g, g.gates[d]) /\ \E a \in DOMAIN g.gates : Merged(g, t, d, a)
    <3>1. m <= m
      BY <1>5
    <3> QED BY <1>13, <1>15, <2>2, <2>4, <3>1
  <2>6. \A w \in DOMAIN t.remap : \E d \in t.dead : w \in Range(g.gates[d].outs)
    BY <1>1, <1>15
  <2>7. ASSUME NEW a \in DOMAIN g.gates, NEW b \in DOMAIN g.gates, a < b, b <= m, a \notin t.dead, b \notin t.dead,
               Structure(t.graph.gates[a]) = Structure(t.graph.gates[b])
        PROVE  Observable(g, g.gates[b])
    <3>1. a # m /\ b # m /\ a \notin s.dead /\ b \notin s.dead
      BY <1>15, <2>7
    <3>2. b <= i
      BY <1>4, <2>7, <3>1
    <3> QED BY <1>6, <2>7, <3>1, <3>2 DEF DedupState
  <2> HIDE DEF m
  <2>8. DedupState(g, m, t)
    BY <1>6, <1>10, <1>11, <1>12, <2>5, <2>6, <2>7 DEF DedupState
  <2> QED BY <2>8 DEF m, t
<1> QED BY <1>2, <1>14, <1>15 DEF DedupMade

LEMMA DedupIs ==
  ASSUME NEW g, GraphOK(g)
  PROVE  DedupState(g, Len(g.gates), Dedup(g))
<1> DEFINE n == Len(g.gates)
           S(P) == {k \in 0..n : DedupState(g, k, P[k])}
<1>1. n \in Nat /\ DOMAIN g.gates = 1..n /\ g \in GraphSet
  BY GraphParts DEF GraphOK
<1>2. PICK P \in [0..n -> DedupSet(g)] : Deduped(P, g)
  BY DedupParts
<1>3. /\ P[0] = [graph |-> g, remap |-> <<>>, dead |-> {}] /\ Dedup(g) = P[n]
      /\ \A k \in 0..n - 1 : P[k + 1] = DedupGate(P[k], k + 1)
  BY <1>2 DEF Deduped
<1> HIDE DEF n
<1>4. DedupState(g, 0, P[0])
  <2>1. P[0] \in DedupSet(g) /\ P[0].graph = g /\ DOMAIN P[0].remap = {} /\ P[0].dead = {}
    <3>1. P[0] \in DedupSet(g)
      BY <1>1
    <3>2. P[0].graph = g /\ P[0].remap = <<>> /\ P[0].dead = {}
      BY <1>3
    <3>3. DOMAIN <<>> = {}
      OBVIOUS
    <3> QED BY <3>1, <3>2, <3>3
  <2>2. \A j \in DOMAIN g.gates : ~(j <= 0)
    BY <1>1
  <2> QED BY <2>1, <2>2, StepSelf DEF DedupState
<1>5. \A k \in 0..n : k \in S(P)
  <2>1. 0 \in S(P)
    BY <1>1, <1>4
  <2>2. ASSUME NEW k \in Nat, k < n, k \in S(P) PROVE k + 1 \in S(P)
    <3>1. k \in 0..n - 1 /\ k + 1 \in 0..n /\ k + 1 \in DOMAIN g.gates /\ DedupState(g, k, P[k])
      BY <1>1, <2>2
    <3>2. DedupState(g, k + 1, P[k + 1])
      BY <1>3, <3>1, DedupStep
    <3> QED BY <3>1, <3>2
  <2> HIDE DEF S
  <2> QED BY <1>1, <2>1, <2>2, UpwardClosed
<1> QED BY <1>1, <1>3, <1>5 DEF n

(* What collapsing gates leaves of g in h. *)
Collapsed(g, h, dead) ==
  /\ Step(g, h) /\ Alike(g, h)
  /\ \A d \in dead : \E c \in DOMAIN g.gates \ dead : Structure(h.gates[c]) = Structure(h.gates[d])
  /\ \A j \in DOMAIN g.gates : \A n \in DOMAIN g.gates[j].ins :
       \/ h.gates[j].ins[n] = g.gates[j].ins[n]
       \/ \E d \in DOMAIN g.gates : \E c \in DOMAIN g.gates : \E k \in DOMAIN g.gates[d].outs :
            /\ Structure(h.gates[c]) = Structure(h.gates[d]) /\ ~Observable(g, g.gates[d])
            /\ g.gates[j].ins[n] = g.gates[d].outs[k] /\ h.gates[j].ins[n] = g.gates[c].outs[k]

LEMMA CollapsedIs ==
  ASSUME NEW g, GraphOK(g)
  PROVE  /\ Collapsed(g, Dedup(g).graph, Dedup(g).dead) /\ Collapsed(g, g, {})
         /\ \A a, b \in DOMAIN g.gates :
              a < b /\ a \notin Dedup(g).dead /\ b \notin Dedup(g).dead
                /\ Structure(Dedup(g).graph.gates[a]) = Structure(Dedup(g).graph.gates[b])
              => Observable(g, g.gates[b])
<1> DEFINE s == Dedup(g)
           h == s.graph
<1>1. DedupState(g, Len(g.gates), s) /\ g \in GraphSet
  BY DedupIs DEF GraphOK
<1>2. DOMAIN g.gates = 1..Len(g.gates) /\ Len(g.gates) \in Nat
  BY <1>1, GraphParts
<1> HIDE DEF s
<1>3. Step(g, h) /\ Alike(g, h) /\ s.dead \subseteq DOMAIN g.gates
  BY <1>1 DEF DedupState, DedupSet
<1>4. \A d \in s.dead : /\ ~Observable(g, g.gates[d])
                        /\ \E c \in DOMAIN g.gates : Merged(g, s, d, c)
  BY <1>1 DEF DedupState
<1>5. \A d \in s.dead : \E c \in DOMAIN g.gates \ s.dead : Structure(h.gates[c]) = Structure(h.gates[d])
  BY <1>4 DEF Merged
<1>6. ASSUME NEW j \in DOMAIN g.gates, NEW n \in DOMAIN g.gates[j].ins
      PROVE  \/ h.gates[j].ins[n] = g.gates[j].ins[n]
             \/ \E d \in DOMAIN g.gates : \E c \in DOMAIN g.gates : \E k \in DOMAIN g.gates[d].outs :
                  /\ Structure(h.gates[c]) = Structure(h.gates[d]) /\ ~Observable(g, g.gates[d])
                  /\ g.gates[j].ins[n] = g.gates[d].outs[k] /\ h.gates[j].ins[n] = g.gates[c].outs[k]
  <2>1. CASE h.gates[j].ins[n] = g.gates[j].ins[n]
    BY <2>1
  <2>2. CASE h.gates[j].ins[n] # g.gates[j].ins[n]
    <3> DEFINE w == g.gates[j].ins[n]
    <3>1. w \in DOMAIN s.remap /\ h.gates[j].ins[n] = s.remap[w]
      BY <1>1, <2>2 DEF DedupState
    <3>2. PICK d \in s.dead : w \in Range(g.gates[d].outs)
      BY <1>1, <3>1 DEF DedupState
    <3>3. PICK k \in DOMAIN g.gates[d].outs : w = g.gates[d].outs[k]
      BY <3>2 DEF Range
    <3>4. PICK c \in DOMAIN g.gates : Merged(g, s, d, c)
      BY <1>4
    <3>5. /\ Structure(h.gates[c]) = Structure(h.gates[d]) /\ ~Observable(g, g.gates[d])
          /\ h.gates[j].ins[n] = g.gates[c].outs[k] /\ d \in DOMAIN g.gates
      BY <1>3, <1>4, <3>1, <3>3, <3>4 DEF Merged
    <3> QED BY <3>3, <3>5
  <2> QED BY <2>1, <2>2
<1>7. Collapsed(g, h, s.dead)
  BY <1>3, <1>5, <1>6 DEF Collapsed
<1>8. Collapsed(g, g, {})
  BY <1>1, StepSelf DEF Collapsed, Alike
<1>9. ASSUME NEW a \in DOMAIN g.gates, NEW b \in DOMAIN g.gates, a < b, a \notin s.dead, b \notin s.dead,
             Structure(h.gates[a]) = Structure(h.gates[b])
      PROVE  Observable(g, g.gates[b])
  BY <1>1, <1>2, <1>9 DEF DedupState
<1> QED BY <1>7, <1>8, <1>9 DEF s

(* Gates of constants are done with: nothing reads them, and they hold. *)
ConstDone(g) == \A i \in DOMAIN g.gates : AllConst(g, i) =>
  /\ \A k \in DOMAIN g.gates[i].outs : Unread(g, g.gates[i].outs[k])
  /\ Holds(g.gates[i].op, ConstWords(g, i))

(* And those that a zero makes the identity. *)
ZerosDone(g) == \A i \in DOMAIN g.gates : ZeroIdentity(g, g.gates[i]) # <<>> =>
  \A k \in DOMAIN g.gates[i].outs : Unread(g, g.gates[i].outs[k])

PublicPinned(g) == \A i \in DOMAIN g.gates : \A k \in DOMAIN g.gates[i].outs :
  g.wires[g.gates[i].outs[k]].kind = "Inout" => g.gates[i].outs[k] \in pinned

LEMMA ZeroIdentityTaken ==
  ASSUME NEW g, NEW gate
  PROVE  ZeroIdentity(g, gate) # <<>> <=>
           /\ Range(gate.outs) \cap pinned = {} /\ gate.op \in {"Shift", "Bxor", "Iadd32"}
           /\ \E w \in Range(gate.ins) : IsZero(g, w)
<1> DEFINE isZero(w) == g.wires[w] = Constant(Zero)
           zero == ConstantWire(g, Zero)
           other == gate.ins[IF isZero(gate.ins[Len(gate.ins)]) THEN 1 ELSE 2]
           taken == CASE gate.op = "Shift"  -> <<<<gate.outs[1], zero>>>>
                      [] gate.op = "Bxor"   -> <<<<gate.outs[1], other>>>>
                      [] gate.op = "Iadd32" -> <<<<gate.outs[1], other>>, <<gate.outs[2], zero>>>>
                      [] OTHER              -> <<>>
<1>1. ZeroIdentity(g, gate) = IF Range(gate.outs) \cap pinned # {} \/ ~\E w \in Range(gate.ins) : IsZero(g, w)
                              THEN <<>> ELSE taken
  BY DEF ZeroIdentity, IsZero
<1> HIDE DEF zero, other
<1>2. \A x, y : <<x>> # <<>> /\ <<x, y>> # <<>>
  OBVIOUS
<1>3. CASE gate.op = "Shift"
  BY <1>1, <1>2, <1>3
<1>4. CASE gate.op = "Bxor"
  BY <1>1, <1>2, <1>4
<1>5. CASE gate.op = "Iadd32"
  BY <1>1, <1>2, <1>5
<1>6. CASE gate.op \notin {"Shift", "Bxor", "Iadd32"}
  BY <1>1, <1>6
<1> QED BY <1>3, <1>4, <1>5, <1>6

(* Collapsing changes which constants and zeros a gate reads of no gate, and *)
(* nothing comes to read what nothing read.                                  *)
LEMMA CollapsedKeeps ==
  ASSUME NEW g, GraphOK(g), NEW h, NEW dead, Collapsed(g, h, dead), PublicPinned(g)
  PROVE  /\ \A i \in DOMAIN g.gates : \A k \in DOMAIN g.gates[i].ins :
              (IsConst(g, g.gates[i].ins[k]) \/ IsConst(h, h.gates[i].ins[k])
               => h.gates[i].ins[k] = g.gates[i].ins[k])
         /\ ConstDone(g) => ConstDone(h)
         /\ ZerosDone(g) => ZerosDone(h)
<1>1. /\ g \in GraphSet /\ h \in GraphSet /\ GraphOK(h) /\ Alike(g, h) /\ h.wires = g.wires
      /\ DOMAIN h.gates = DOMAIN g.gates
      /\ \A i \in DOMAIN g.gates : /\ h.gates[i].op = g.gates[i].op /\ h.gates[i].outs = g.gates[i].outs
                                   /\ DOMAIN h.gates[i].ins = DOMAIN g.gates[i].ins
  BY AlikeParts DEF Collapsed, GraphOK, Step
<1>2. ASSUME NEW j \in DOMAIN g.gates, NEW n \in DOMAIN g.gates[j].ins
      PROVE  \/ h.gates[j].ins[n] = g.gates[j].ins[n]
             \/ ~IsConst(g, g.gates[j].ins[n]) /\ ~IsConst(h, h.gates[j].ins[n])
  <2>1. CASE h.gates[j].ins[n] # g.gates[j].ins[n]
    <3>1. PICK d \in DOMAIN g.gates : \E c \in DOMAIN g.gates : \E k \in DOMAIN g.gates[d].outs :
            /\ Structure(h.gates[c]) = Structure(h.gates[d]) /\ ~Observable(g, g.gates[d])
            /\ g.gates[j].ins[n] = g.gates[d].outs[k] /\ h.gates[j].ins[n] = g.gates[c].outs[k]
      BY <2>1 DEF Collapsed
    <3>2. PICK c \in DOMAIN g.gates : \E k \in DOMAIN g.gates[d].outs :
            /\ Structure(h.gates[c]) = Structure(h.gates[d])
            /\ g.gates[j].ins[n] = g.gates[d].outs[k] /\ h.gates[j].ins[n] = g.gates[c].outs[k]
      BY <3>1
    <3>3. PICK k \in DOMAIN g.gates[d].outs :
            g.gates[j].ins[n] = g.gates[d].outs[k] /\ h.gates[j].ins[n] = g.gates[c].outs[k]
      BY <3>2
    <3>4. DOMAIN g.gates[c].outs = DOMAIN g.gates[d].outs
      <4>1. DOMAIN h.gates[c].outs = DOMAIN h.gates[d].outs
        BY <1>1, <3>2, SameStructure
      <4> QED BY <1>1, <4>1
    <3>5. ~IsConst(g, g.gates[d].outs[k]) /\ ~IsConst(g, g.gates[c].outs[k])
      BY <3>4, GateParts
    <3> QED BY <1>1, <3>3, <3>5 DEF IsConst
  <2> QED BY <2>1
<1>3. \A i \in DOMAIN g.gates : \A k \in DOMAIN g.gates[i].ins :
        (IsConst(g, g.gates[i].ins[k]) \/ IsConst(h, h.gates[i].ins[k])
         => h.gates[i].ins[k] = g.gates[i].ins[k])
  BY <1>2
<1>4. \A i \in DOMAIN g.gates : AllConst(h, i) => AllConst(g, i) /\ ConstWords(h, i) = ConstWords(g, i)
  BY <1>1, <1>3 DEF AllConst, ConstWords, IsConst
<1>5. \A i \in DOMAIN g.gates : ZeroIdentity(h, h.gates[i]) # <<>> => ZeroIdentity(g, g.gates[i]) # <<>>
  <2>1. ASSUME NEW i \in DOMAIN g.gates, ZeroIdentity(h, h.gates[i]) # <<>>
        PROVE  ZeroIdentity(g, g.gates[i]) # <<>>
    <3>1. PICK k \in DOMAIN h.gates[i].ins : IsZero(h, h.gates[i].ins[k])
      BY <2>1, ZeroIdentityTaken DEF Range
    <3>2. IsConst(h, h.gates[i].ins[k])
      BY <3>1, WireIs DEF IsZero, IsConst
    <3>3. k \in DOMAIN g.gates[i].ins /\ IsZero(g, g.gates[i].ins[k])
      BY <1>1, <1>3, <3>1, <3>2 DEF IsZero
    <3>4. \E w \in Range(g.gates[i].ins) : IsZero(g, w)
      BY <3>3 DEF Range
    <3> QED BY <1>1, <2>1, <3>4, ZeroIdentityTaken
  <2> QED BY <2>1
<1>6. ASSUME NEW i \in DOMAIN g.gates, NEW k \in DOMAIN g.gates[i].outs, ~Unread(h, g.gates[i].outs[k])
      PROVE  \/ ~Unread(g, g.gates[i].outs[k])
             \/ \E d \in DOMAIN g.gates : /\ Structure(h.gates[i]) = Structure(h.gates[d])
                                          /\ ~Observable(g, g.gates[d])
                                          /\ k \in DOMAIN g.gates[d].outs /\ ~Unread(g, g.gates[d].outs[k])
  <2>1. PICK j \in DOMAIN g.gates : \E n \in DOMAIN g.gates[j].ins : h.gates[j].ins[n] = g.gates[i].outs[k]
    BY <1>1, <1>6 DEF Unread
  <2>2. PICK n \in DOMAIN g.gates[j].ins : h.gates[j].ins[n] = g.gates[i].outs[k]
    BY <2>1
  <2>3. CASE h.gates[j].ins[n] = g.gates[j].ins[n]
    BY <2>2, <2>3 DEF Unread
  <2>4. CASE h.gates[j].ins[n] # g.gates[j].ins[n]
    <3>1. PICK d \in DOMAIN g.gates : \E c \in DOMAIN g.gates : \E m \in DOMAIN g.gates[d].outs :
            /\ Structure(h.gates[c]) = Structure(h.gates[d]) /\ ~Observable(g, g.gates[d])
            /\ g.gates[j].ins[n] = g.gates[d].outs[m] /\ h.gates[j].ins[n] = g.gates[c].outs[m]
      BY <2>4 DEF Collapsed
    <3>2. PICK c \in DOMAIN g.gates : \E m \in DOMAIN g.gates[d].outs :
            /\ Structure(h.gates[c]) = Structure(h.gates[d]) /\ ~Observable(g, g.gates[d])
            /\ g.gates[j].ins[n] = g.gates[d].outs[m] /\ h.gates[j].ins[n] = g.gates[c].outs[m]
      BY <3>1
    <3>3. PICK m \in DOMAIN g.gates[d].outs :
            g.gates[j].ins[n] = g.gates[d].outs[m] /\ h.gates[j].ins[n] = g.gates[c].outs[m]
      BY <3>2
    <3>4. DOMAIN g.gates[c].outs = DOMAIN g.gates[d].outs
      <4>1. DOMAIN h.gates[c].outs = DOMAIN h.gates[d].outs
        BY <1>1, <3>2, SameStructure
      <4> QED BY <1>1, <4>1
    <3>5. c = i /\ m = k
      <4>1. g.gates[c].outs[m] = g.gates[i].outs[k] /\ m \in DOMAIN g.gates[c].outs
        BY <2>2, <3>3, <3>4
      <4>2. MadeOnce(g)
        BY DEF GraphOK
      <4> QED BY <4>1, <4>2 DEF MadeOnce
    <3>6. ~Unread(g, g.gates[d].outs[m])
      BY <3>3 DEF Unread
    <3> QED BY <3>2, <3>3, <3>5, <3>6
  <2> QED BY <2>3, <2>4
<1>7. ASSUME ConstDone(g), NEW i \in DOMAIN g.gates, AllConst(h, i)
      PROVE  /\ \A k \in DOMAIN h.gates[i].outs : Unread(h, h.gates[i].outs[k])
             /\ Holds(h.gates[i].op, ConstWords(h, i))
  <2>1. AllConst(g, i) /\ ConstWords(h, i) = ConstWords(g, i)
    BY <1>4, <1>7
  <2>2. ASSUME NEW k \in DOMAIN g.gates[i].outs, ~Unread(h, g.gates[i].outs[k]) PROVE FALSE
    <3>1. Unread(g, g.gates[i].outs[k])
      BY <1>7, <2>1 DEF ConstDone
    <3>2. PICK d \in DOMAIN g.gates : /\ Structure(h.gates[i]) = Structure(h.gates[d])
                                      /\ k \in DOMAIN g.gates[d].outs /\ ~Unread(g, g.gates[d].outs[k])
      BY <1>6, <2>2, <3>1
    <3>3. AllConst(h, d)
      BY <1>7, <3>2 DEF Structure, AllConst
    <3>4. AllConst(g, d)
      BY <1>4, <3>3
    <3> QED BY <1>7, <3>2, <3>4 DEF ConstDone
  <2>3. Holds(h.gates[i].op, ConstWords(h, i))
    BY <1>1, <1>7, <2>1 DEF ConstDone
  <2> QED BY <1>1, <2>2, <2>3
<1>8. ASSUME ZerosDone(g), NEW i \in DOMAIN g.gates, ZeroIdentity(h, h.gates[i]) # <<>>
      PROVE  \A k \in DOMAIN h.gates[i].outs : Unread(h, h.gates[i].outs[k])
  <2>2. ASSUME NEW k \in DOMAIN g.gates[i].outs, ~Unread(h, g.gates[i].outs[k]) PROVE FALSE
    <3>1. Unread(g, g.gates[i].outs[k])
      BY <1>5, <1>8 DEF ZerosDone
    <3>2. PICK d \in DOMAIN g.gates : /\ Structure(h.gates[i]) = Structure(h.gates[d])
                                      /\ ~Observable(g, g.gates[d])
                                      /\ k \in DOMAIN g.gates[d].outs /\ ~Unread(g, g.gates[d].outs[k])
      BY <1>6, <2>2, <3>1
    <3>3. h.gates[i].op = h.gates[d].op /\ h.gates[i].ins = h.gates[d].ins
      BY <3>2 DEF Structure
    <3>4. Range(h.gates[d].outs) \cap pinned = {}
      BY <1>1, <3>2 DEF Observable
    <3>5. ZeroIdentity(h, h.gates[d]) # <<>>
      BY <1>8, <3>3, <3>4, ZeroIdentityTaken
    <3>6. ZeroIdentity(g, g.gates[d]) # <<>>
      BY <1>5, <3>5
    <3> QED BY <1>8, <3>2, <3>6 DEF ZerosDone
  <2> QED BY <1>1, <2>2
<1>9. ConstDone(g) => ConstDone(h)
  BY <1>1, <1>7 DEF ConstDone
<1>10. ZerosDone(g) => ZerosDone(h)
  BY <1>1, <1>8 DEF ZerosDone
<1> QED BY <1>3, <1>9, <1>10

(* What dead-code elimination keeps. *)
LEMMA LiveIs ==
  ASSUME NEW g, GraphOK(g), PublicPinned(g)
  PROVE  /\ Live(g) \subseteq DOMAIN g.gates
         /\ \A i \in DOMAIN g.gates : g.gates[i].op = "AssertZero" => i \in Live(g)
         /\ ZerosDone(g) => \A i \in Live(g) : ZeroIdentity(g, g.gates[i]) = <<>>
<1> DEFINE rooted(L) == \A i \in DOMAIN g.gates :
             g.gates[i].outs = <<>> \/ Observable(g, g.gates[i]) => i \in L
           closed(L) == \A i \in L, j \in DOMAIN g.gates :
             Range(g.gates[j].outs) \cap Range(g.gates[i].ins) # {} => j \in L
<1>1. Live(g) = {i \in DOMAIN g.gates : \A L \in SUBSET DOMAIN g.gates : rooted(L) /\ closed(L) => i \in L}
  BY DEF Live
<1> HIDE DEF closed
<1>2. ASSUME NEW i \in DOMAIN g.gates, g.gates[i].op = "AssertZero" PROVE i \in Live(g)
  <2>1. g.gates[i].outs \in Seq(Nat) /\ Len(g.gates[i].outs) = 0
    <3>1. g \in GraphSet /\ GateOK(g, i)
      BY DEF GraphOK
    <3> QED BY <1>2, <3>1, GraphParts DEF GateOK, NOut
  <2>2. g.gates[i].outs = <<>>
    BY <2>1
  <2> QED BY <1>1, <2>2
<1>3. ASSUME ZerosDone(g), NEW i \in Live(g), ZeroIdentity(g, g.gates[i]) # <<>> PROVE FALSE
  <2> DEFINE L == DOMAIN g.gates \ {i}
  <2>1. i \in DOMAIN g.gates
    BY <1>1
  <2>2. \A k \in DOMAIN g.gates[i].outs : Unread(g, g.gates[i].outs[k])
    BY <1>3, <2>1 DEF ZerosDone
  <2>3. Range(g.gates[i].outs) \cap pinned = {} /\ g.gates[i].op \in {"Shift", "Bxor", "Iadd32"}
    BY <1>3, ZeroIdentityTaken
  <2>4. g.gates[i].outs # <<>>
    <3>1. 1 \in DOMAIN g.gates[i].outs
      BY <2>1, <2>3, GateParts DEF NOut
    <3> QED BY <3>1
  <2>5. ~Observable(g, g.gates[i])
    BY <2>1, <2>3 DEF Observable, PublicPinned, Range
  <2>6. rooted(L)
    BY <2>4, <2>5
  <2>7. closed(L)
    <3>1. \A j \in DOMAIN g.gates : Range(g.gates[i].outs) \cap Range(g.gates[j].ins) = {}
      BY <2>2 DEF Unread, Range
    <3> QED BY <3>1 DEF closed
  <2>8. i \in L
    <3> HIDE DEF rooted
    <3> QED BY <1>1, <1>3, <2>6, <2>7
  <2> QED BY <2>8
<1> QED BY <1>1, <1>2, <1>3

(* The assertions that are kept hold when all do. *)
LEMMA KeptHold ==
  ASSUME NEW g, NEW on \in SUBSET DOMAIN g.gates,
         \A i \in DOMAIN g.gates : g.gates[i].op = "AssertZero" =>
           \E c \in on : Structure(g.gates[c]) = Structure(g.gates[i]),
         NEW v
  PROVE  Satisfied(g, on, v) <=> Satisfied(g, DOMAIN g.gates, v)
<1>1. ASSUME Satisfied(g, on, v), NEW i \in DOMAIN g.gates
      PROVE  Holds(g.gates[i].op, [k \in DOMAIN g.gates[i].ins |-> v[g.gates[i].ins[k]]])
  <2>1. CASE g.gates[i].op # "AssertZero"
    BY <2>1 DEF Holds
  <2>2. CASE g.gates[i].op = "AssertZero"
    <3>1. PICK c \in on : Structure(g.gates[c]) = Structure(g.gates[i])
      BY <2>2
    <3>2. g.gates[c].op = g.gates[i].op /\ g.gates[c].ins = g.gates[i].ins
      BY <3>1 DEF Structure
    <3>3. Holds(g.gates[c].op, [k \in DOMAIN g.gates[c].ins |-> v[g.gates[c].ins[k]]])
      BY <1>1 DEF Satisfied
    <3> QED BY <3>2, <3>3
  <2> QED BY <2>1, <2>2
<1> QED BY <1>1 DEF Satisfied
------------------------------------------------------------------------------
(* The builder *)
CarryUnread(g) == \A i \in DOMAIN g.gates : g.gates[i].op = "Iadd32" => Unread(g, g.gates[i].outs[2])

BuildOK(g) == GraphOK(g) /\ CarryUnread(g) /\ PublicPinned(g)

LEMMA EmitOK ==
  ASSUME NEW g, BuildOK(g), NEW op \in Ops, NEW ins \in Seq(Nat), Len(ins) = NIn(op),
         \A k \in DOMAIN ins : ins[k] \in DOMAIN g.wires,
         \A k \in DOMAIN ins : \A i \in DOMAIN g.gates :
           g.gates[i].op = "Iadd32" => ins[k] # g.gates[i].outs[2]
  PROVE  BuildOK(EmitGate(g, op, ins, NOut(op)))
<1> DEFINE n == Len(g.wires)
           m == NOut(op)
           c == Len(g.gates)
           fresh == [i \in 1..m |-> Wire("Internal")]
           outs == [i \in 1..m |-> n + i]
           new == [op |-> op, ins |-> ins, outs |-> outs]
           wires == g.wires \o fresh
           gates == Append(g.gates, new)
           h == EmitGate(g, op, ins, m)
<1>1. /\ GraphOK(g) /\ g.wires \in Seq(WireSet) /\ n \in Nat /\ DOMAIN g.wires = 1..n
      /\ g.gates \in Seq(GateSet) /\ c \in Nat /\ DOMAIN g.gates = 1..c /\ m \in Nat
  BY GraphParts DEF BuildOK, GraphOK, NOut
<1>2. h = [wires |-> wires, gates |-> gates]
  BY DEF EmitGate
<1>3. fresh \in Seq(WireSet) /\ Len(fresh) = m /\ \A i \in 1..m : fresh[i] = Wire("Internal")
  <2>1. Wire("Internal") \in WireSet
    BY WireIs
  <2> HIDE DEF m
  <2> QED BY <1>1, <2>1
<1>4. outs \in Seq(Nat) /\ Len(outs) = m /\ DOMAIN outs = 1..m /\ \A i \in 1..m : outs[i] = n + i
  BY <1>1
<1> HIDE DEF fresh, outs, m
<1>5. new \in GateSet /\ new.op = op /\ new.ins = ins /\ new.outs = outs
  BY <1>4 DEF GateSet
<1> HIDE DEF new
<1>6. /\ wires \in Seq(WireSet) /\ DOMAIN wires = 1..n + m
      /\ \A w \in 1..n : wires[w] = g.wires[w] /\ w \in 1..n + m
      /\ \A i \in 1..m : wires[n + i] = Wire("Internal") /\ n + i \in 1..n + m /\ n + i \notin 1..n
      /\ \A w \in 1..n + m : w \in 1..n \/ \E i \in 1..m : w = n + i
  <2>1. /\ wires \in Seq(WireSet) /\ DOMAIN wires = 1..n + m
        /\ \A w \in 1..n : wires[w] = g.wires[w] /\ w \in 1..n + m
        /\ \A i \in 1..m : wires[n + i] = fresh[i] /\ n + i \in 1..n + m /\ n + i \notin 1..n
    <3>1. wires \in Seq(WireSet) /\ Len(wires) = n + m
      <4>1. g.wires \in Seq(WireSet) /\ fresh \in Seq(WireSet) /\ Len(fresh) = m
        BY <1>1, <1>3
      <4> QED BY <4>1
    <3>2. \A w \in 1..n : w \in 1..n + m
      BY <1>1
    <3>3. \A i \in 1..m : n + i \in 1..n + m /\ n + i \notin 1..n
      BY <1>1
    <3>4. IsSequence(g.wires) /\ IsSequence(fresh)
      BY <1>1, <1>3, SeqIsSequence
    <3>5. \A w \in 1..n : wires[w] = g.wires[w]
      BY <3>4, ConcatSequence
    <3>6. \A i \in 1..m : wires[n + i] = fresh[i]
      BY <1>3, <3>4, ConcatSequence
    <3> HIDE DEF wires, n
    <3>7. DOMAIN wires = 1..n + m
      BY <1>1, <3>1
    <3> QED BY <3>1, <3>2, <3>3, <3>5, <3>6, <3>7
  <2>2. ASSUME NEW w \in 1..n + m, w \notin 1..n PROVE w - n \in 1..m /\ w = n + (w - n)
    BY <1>1, <2>2
  <2> QED BY <1>3, <2>1, <2>2
<1>7. /\ gates \in Seq(GateSet) /\ DOMAIN gates = 1..c + 1 /\ gates[c + 1] = new
      /\ \A i \in 1..c : gates[i] = g.gates[i] /\ i \in 1..c + 1 /\ i # c + 1 /\ i < c + 1
      /\ c + 1 \in 1..c + 1 /\ c + 1 \notin 1..c /\ \A i \in 1..c + 1 : i \in 1..c \/ i = c + 1
  BY <1>1, <1>5
<1> HIDE DEF wires, gates, h, n, c
<1>8. h \in GraphSet /\ h.wires = wires /\ h.gates = gates
  BY <1>2, <1>6, <1>7 DEF GraphSet
<1>9. Wire("Internal").kind = "Internal"
  BY WireIs
<1>10. \A i \in 1..c : /\ \A k \in DOMAIN g.gates[i].ins : g.gates[i].ins[k] \in 1..n
                       /\ \A k \in DOMAIN g.gates[i].outs : g.gates[i].outs[k] \in 1..n
  BY <1>1, GateParts
<1>11. Interned(h)
  <2>1. ASSUME NEW v \in 1..n + m, NEW w \in 1..n + m, IsConst(h, v), wires[v] = wires[w] PROVE v = w
    <3>1. v \in 1..n
      BY <1>6, <1>8, <1>9, <2>1 DEF IsConst
    <3>2. w \in 1..n
      BY <1>6, <1>8, <1>9, <2>1 DEF IsConst
    <3>3. Interned(g) /\ IsConst(g, v) /\ g.wires[v] = g.wires[w]
      BY <1>1, <1>6, <1>8, <2>1, <3>1, <3>2 DEF GraphOK, IsConst
    <3> QED BY <1>1, <3>1, <3>2, <3>3 DEF Interned
  <2> QED BY <1>6, <1>8, <2>1 DEF Interned
<1>12. MadeOnce(h)
  <2>0. MadeOnce(g)
    BY <1>1 DEF GraphOK
  <2>1. ASSUME NEW i \in 1..c + 1, NEW j \in 1..c + 1,
               NEW k \in DOMAIN gates[i].outs, NEW l \in DOMAIN gates[j].outs,
               gates[i].outs[k] = gates[j].outs[l]
        PROVE  i = j /\ k = l
    <3>1. CASE i \in 1..c /\ j \in 1..c
      <4>1. gates[i] = g.gates[i] /\ gates[j] = g.gates[j] /\ i \in DOMAIN g.gates /\ j \in DOMAIN g.gates
        BY <1>1, <1>7, <3>1
      <4> QED BY <2>0, <2>1, <4>1 DEF MadeOnce
    <3>2. CASE i = c + 1 /\ j = c + 1
      <4>1. k \in 1..m /\ l \in 1..m /\ n + k = n + l
        BY <1>4, <1>5, <1>7, <2>1, <3>2
      <4> QED BY <1>1, <3>2, <4>1
    <3>3. CASE i \in 1..c /\ j = c + 1
      <4>1. gates[i].outs[k] \in 1..n
        BY <1>7, <1>10, <2>1, <3>3
      <4>2. l \in 1..m /\ gates[j].outs[l] = n + l
        BY <1>4, <1>5, <1>7, <3>3
      <4> QED BY <1>6, <2>1, <4>1, <4>2
    <3>4. CASE i = c + 1 /\ j \in 1..c
      <4>1. gates[j].outs[l] \in 1..n
        BY <1>7, <1>10, <2>1, <3>4
      <4>2. k \in 1..m /\ gates[i].outs[k] = n + k
        BY <1>4, <1>5, <1>7, <3>4
      <4> QED BY <1>6, <2>1, <4>1, <4>2
    <3> QED BY <1>7, <3>1, <3>2, <3>3, <3>4
  <2> QED BY <1>7, <1>8, <2>1 DEF MadeOnce
<1>13. \A x \in 1..n : x \notin Range(outs)
  BY <1>4, <1>6 DEF Range
<1>14. ASSUME NEW i \in 1..c + 1 PROVE GateOK(h, i)
  <2>1. CASE i \in 1..c
    <3>1. GateOK(g, i) /\ i \in Nat
      BY <1>1, <2>1 DEF GraphOK
    <3>2. \A x : Ready(g, x, i) => Ready(h, x, i)
      BY <1>1, <1>5, <1>6, <1>7, <1>8, <1>13 DEF Ready
    <3>3. \A x \in 1..n : x \in DOMAIN h.wires /\ h.wires[x] = g.wires[x]
      BY <1>6, <1>8
    <3>4. h.gates[i] = g.gates[i]
      BY <1>7, <1>8, <2>1
    <3> QED BY <1>1, <3>1, <3>2, <3>3, <3>4 DEF GateOK
  <2>2. CASE i = c + 1
    <3>1. h.gates[i] = new
      BY <1>7, <1>8, <2>2
    <3>2. ASSUME NEW k \in DOMAIN ins PROVE Ready(h, ins[k], i)
      <4>1. ins[k] \in 1..n /\ ins[k] \in DOMAIN h.wires
        BY <1>1, <1>6, <1>8
      <4>2. \A j \in DOMAIN h.gates : ins[k] \in Range(h.gates[j].outs) => j < i
        BY <1>5, <1>7, <1>8, <1>13, <2>2, <4>1
      <4> QED BY <4>1, <4>2 DEF Ready
    <3>3. \A k \in DOMAIN outs : outs[k] \in DOMAIN h.wires /\ h.wires[outs[k]] = Wire("Internal")
      BY <1>4, <1>6, <1>8
    <3> QED BY <1>4, <1>5, <3>1, <3>2, <3>3 DEF GateOK, m
  <2> QED BY <1>7, <2>1, <2>2
<1>15. GraphOK(h)
  <2>1. ASSUME NEW w \in 1..n + m, wires[w].kind = "Internal"
        PROVE  \E i \in 1..c + 1 : \E k \in DOMAIN gates[i].outs : w = gates[i].outs[k]
    <3>1. CASE w \in 1..n
      <4>1. PICK i \in 1..c : \E k \in DOMAIN g.gates[i].outs : w = g.gates[i].outs[k]
        <5>1. InternalMade(g) /\ DOMAIN g.gates = 1..c
          BY <1>1 DEF GraphOK
        <5>2. w \in DOMAIN g.wires /\ g.wires[w].kind = "Internal"
          BY <1>1, <1>6, <2>1, <3>1
        <5> QED BY <5>1, <5>2 DEF InternalMade
      <4> QED BY <1>7, <4>1
    <3>2. CASE w \notin 1..n
      <4>1. PICK k \in 1..m : w = n + k
        BY <1>6, <3>2
      <4>2. k \in DOMAIN gates[c + 1].outs /\ gates[c + 1].outs[k] = w
        BY <1>4, <1>5, <1>7, <4>1
      <4> QED BY <1>7, <4>2
    <3> QED BY <3>1, <3>2
  <2>2. InternalMade(h)
    <3>1. h.wires = wires /\ h.gates = gates
      BY <1>8
    <3>2. DOMAIN h.wires = 1..n + m /\ DOMAIN h.gates = 1..c + 1
      BY <1>6, <1>7, <3>1
    <3> QED BY <2>1, <3>1, <3>2 DEF InternalMade
  <2> QED BY <1>7, <1>8, <1>11, <1>12, <1>14, <2>2 DEF GraphOK
<1>16. CarryUnread(h)
  <2>1. ASSUME NEW i \in 1..c + 1, gates[i].op = "Iadd32",
               NEW j \in 1..c + 1, NEW k \in DOMAIN gates[j].ins, gates[j].ins[k] = gates[i].outs[2]
        PROVE  FALSE
    <3>1. gates[j].ins[k] \in 1..n
      BY <1>1, <1>5, <1>7, <1>10, <2>1
    <3>2. CASE i \in 1..c
      <4>0. gates[i] = g.gates[i] /\ i \in DOMAIN g.gates
        BY <1>1, <1>7, <3>2
      <4>1. CASE j \in 1..c
        <5>1. gates[j] = g.gates[j] /\ j \in DOMAIN g.gates
          BY <1>1, <1>7, <4>1
        <5> QED BY <2>1, <4>0, <5>1 DEF BuildOK, CarryUnread, Unread
      <4>2. CASE j = c + 1
        <5>1. gates[j].ins = ins
          BY <1>5, <1>7, <4>2
        <5> QED BY <2>1, <4>0, <5>1
      <4> QED BY <1>7, <4>1, <4>2
    <3>3. CASE i = c + 1
      <4>1. 2 \in 1..m
        BY <1>5, <1>7, <2>1, <3>3 DEF m, NOut
      <4>2. gates[i].outs[2] = n + 2
        BY <1>4, <1>5, <1>7, <3>3, <4>1
      <4> QED BY <1>6, <2>1, <3>1, <4>1, <4>2
    <3> QED BY <1>7, <3>2, <3>3
  <2> QED BY <1>7, <1>8, <2>1 DEF CarryUnread, Unread
<1>17. PublicPinned(h)
  <2>1. ASSUME NEW i \in 1..c + 1, NEW k \in DOMAIN gates[i].outs, wires[gates[i].outs[k]].kind = "Inout"
        PROVE  gates[i].outs[k] \in pinned
    <3>1. CASE i \in 1..c
      <4>1. gates[i] = g.gates[i] /\ i \in DOMAIN g.gates
        BY <1>1, <1>7, <3>1
      <4>2. wires[gates[i].outs[k]] = g.wires[gates[i].outs[k]]
        BY <1>6, <1>10, <2>1, <3>1, <4>1
      <4> QED BY <2>1, <4>1, <4>2 DEF BuildOK, PublicPinned
    <3>2. CASE i = c + 1
      <4>1. k \in 1..m /\ gates[i].outs[k] = n + k
        BY <1>4, <1>5, <1>7, <3>2
      <4> QED BY <1>6, <1>9, <2>1, <4>1
    <3> QED BY <1>7, <3>1, <3>2
  <2> QED BY <1>7, <1>8, <2>1 DEF PublicPinned
<1>18. BuildOK(h)
  BY <1>15, <1>16, <1>17 DEF BuildOK
<1> QED BY <1>18 DEF h, m

LEMMA ConstantOK ==
  ASSUME NEW g, BuildOK(g), NEW word \in Words
  PROVE  BuildOK(AddConstant(g, word))
<1> DEFINE h == AddConstant(g, word)
<1>1. Step(g, h) /\ h.gates = g.gates
  BY ConstantStep DEF BuildOK
<1> HIDE DEF h
<1>2. CarryUnread(h)
  BY <1>1 DEF BuildOK, CarryUnread, Unread
<1>3. PublicPinned(h)
  <2>1. \A i \in DOMAIN g.gates : \A k \in DOMAIN g.gates[i].outs : g.gates[i].outs[k] \in DOMAIN g.wires
    BY GateParts DEF BuildOK
  <2> QED BY <1>1, <2>1 DEF BuildOK, PublicPinned, Step
<1>4. BuildOK(h)
  BY <1>1, <1>2, <1>3 DEF BuildOK, Step
<1> QED BY <1>4 DEF h

(* A wire becomes public. *)
LEMMA MarkOK ==
  ASSUME NEW g, GraphOK(g), CarryUnread(g), NEW w \in DOMAIN g.wires, g.wires[w].kind = "Internal"
  PROVE  LET h == [g EXCEPT !.wires[w] = Wire("Inout")]
         IN  /\ GraphOK(h) /\ CarryUnread(h) /\ h.gates = g.gates
             /\ \A x \in DOMAIN g.wires : x # w => h.wires[x] = g.wires[x]
<1> DEFINE wires == [g.wires EXCEPT ![w] = Wire("Inout")]
           h == [g EXCEPT !.wires[w] = Wire("Inout")]
<1>1. /\ g \in GraphSet /\ g = [wires |-> g.wires, gates |-> g.gates] /\ g.wires \in Seq(WireSet)
      /\ DOMAIN g.wires = 1..Len(g.wires) /\ Len(g.wires) \in Nat /\ g.gates \in Seq(GateSet)
  BY GraphParts DEF GraphOK
<1>2. Wire("Inout") \in WireSet /\ Wire("Inout").kind = "Inout"
  BY WireIs
<1>3. h = [wires |-> wires, gates |-> g.gates]
  <2>1. h = [g EXCEPT !.wires = wires]
    OBVIOUS
  <2> HIDE DEF h, wires
  <2> QED BY <1>1, <2>1
<1>4. /\ wires \in Seq(WireSet) /\ DOMAIN wires = DOMAIN g.wires /\ wires[w] = Wire("Inout")
      /\ \A x \in DOMAIN g.wires : x # w => wires[x] = g.wires[x]
  BY <1>1, <1>2
<1> HIDE DEF h, wires
<1>5. h \in GraphSet /\ h.wires = wires /\ h.gates = g.gates
  BY <1>1, <1>3, <1>4 DEF GraphSet
<1>6. \A x \in DOMAIN g.wires : IsConst(h, x) => IsConst(g, x) /\ wires[x] = g.wires[x] /\ x # w
  BY <1>2, <1>4, <1>5 DEF IsConst
<1>7. Interned(h)
  <2>1. ASSUME NEW v \in DOMAIN g.wires, NEW x \in DOMAIN g.wires, IsConst(h, v), wires[v] = wires[x] PROVE v = x
    <3>1. IsConst(h, x)
      BY <1>5, <2>1 DEF IsConst
    <3> QED BY <1>6, <2>1, <3>1 DEF GraphOK, Interned
  <2> QED BY <1>4, <1>5, <2>1 DEF Interned
<1>8. MadeOnce(h)
  BY <1>5 DEF GraphOK, MadeOnce
<1>9. ASSUME NEW i \in DOMAIN g.gates PROVE GateOK(h, i)
  <2>1. GateOK(g, i)
    BY DEF GraphOK
  <2>2. \A x : Ready(g, x, i) => Ready(h, x, i)
    BY <1>4, <1>5 DEF Ready
  <2>3. \A x \in DOMAIN g.wires : g.wires[x] \in {Wire("Inout"), Wire("Internal")}
          => h.wires[x] \in {Wire("Inout"), Wire("Internal")}
    BY <1>4, <1>5
  <2> QED BY <1>4, <1>5, <2>1, <2>2, <2>3 DEF GateOK
<1>10. GraphOK(h)
  <2>1. \A x \in DOMAIN g.wires : h.wires[x].kind = "Internal" => g.wires[x].kind = "Internal"
    BY <1>2, <1>4, <1>5
  <2>2. InternalMade(h)
    BY <1>4, <1>5, <2>1 DEF GraphOK, InternalMade
  <2> QED BY <1>5, <1>7, <1>8, <1>9, <2>2 DEF GraphOK
<1>11. CarryUnread(h)
  BY <1>5 DEF CarryUnread, Unread
<1> QED BY <1>4, <1>5, <1>10, <1>11 DEF h

(* The graph that a builder starts with. *)
LEMMA StartOK ==
  BuildOK([NewGraph EXCEPT !.wires = @ \o [i \in DOMAIN Inputs |-> Wire(Inputs[i])]])
<1> DEFINE n == Len(Inputs)
           inputs == [i \in 1..n |-> Wire(Inputs[i])]
           wires == <<Constant(AllOne)>> \o inputs
           h == [NewGraph EXCEPT !.wires = @ \o [i \in DOMAIN Inputs |-> Wire(Inputs[i])]]
<1>1. n \in Nat /\ DOMAIN Inputs = 1..n /\ \A i \in 1..n : Inputs[i] \in {"Inout", "Witness"}
  BY InputsAssumption
<1>2. h = [wires |-> wires, gates |-> <<>>]
  <2>1. h = [NewGraph EXCEPT !.wires = @ \o inputs]
    BY <1>1
  <2> HIDE DEF h, inputs
  <2>2. h = [[wires |-> <<Constant(AllOne)>>, gates |-> <<>>] EXCEPT !.wires = @ \o inputs]
    BY <2>1 DEF NewGraph
  <2> QED BY <2>2
<1>3. Constant(AllOne) \in WireSet
  BY WordsKept, WireIs
<1>4. /\ inputs \in Seq(WireSet) /\ Len(inputs) = n
      /\ \A i \in 1..n : inputs[i].kind \notin {"Constant", "Internal"}
  <2>1. \A i \in 1..n : Wire(Inputs[i]) \in WireSet /\ Wire(Inputs[i]).kind \notin {"Constant", "Internal"}
    BY <1>1, WireIs
  <2> QED BY <1>1, <2>1
<1> HIDE DEF inputs, n
<1>5. /\ wires \in Seq(WireSet) /\ DOMAIN wires = 1..n + 1
      /\ wires[1] = Constant(AllOne)
      /\ \A w \in 1..n + 1 : w # 1 => wires[w].kind \notin {"Constant", "Internal"}
  <2>1. wires \in Seq(WireSet) /\ DOMAIN wires = 1..n + 1 /\ wires[1] = Constant(AllOne)
    BY <1>1, <1>3, <1>4
  <2>2. ASSUME NEW w \in 1..n + 1, w # 1 PROVE wires[w].kind \notin {"Constant", "Internal"}
    <3>1. w - 1 \in 1..n /\ wires[w] = inputs[w - 1]
      BY <1>1, <1>4, <2>2
    <3> QED BY <1>4, <3>1
  <2> QED BY <2>1, <2>2
<1> HIDE DEF wires, h
<1>6. <<>> \in Seq(GateSet) /\ DOMAIN <<>> = {}
  OBVIOUS
<1>7. h \in GraphSet /\ h.wires = wires /\ DOMAIN h.gates = {}
  BY <1>2, <1>5, <1>6 DEF GraphSet
<1>8. Interned(h)
  BY <1>5, <1>7 DEF Interned, IsConst
<1>9. InternalMade(h)
  <2>1. Constant(AllOne).kind = "Constant"
    BY WireIs
  <2> QED BY <1>5, <1>7, <2>1 DEF InternalMade
<1>10. BuildOK(h)
  BY <1>7, <1>8, <1>9 DEF BuildOK, GraphOK, MadeOnce, CarryUnread, PublicPinned
<1> QED BY <1>10 DEF h
------------------------------------------------------------------------------
(* The inductive invariant                                                   *)
Stages == {"build", "constants", "zeros", "eliminate", "lay out", "done", "failed"}

(* What constant propagation has folded, or has yet to look at. *)
FoldedOrQueued(g, queued) == \A i \in DOMAIN g.gates : AllConst(g, i) =>
  \/ i \in queued
  \/ /\ \A k \in DOMAIN g.gates[i].outs : Unread(g, g.gates[i].outs[k])
     /\ Holds(g.gates[i].op, ConstWords(g, i))

Refuted(g) == \E i \in DOMAIN g.gates : AllConst(g, i) /\ ~Holds(g.gates[i].op, ConstWords(g, i))

WorkOK == /\ work \in Seq(Nat) /\ Distinct(work) /\ Range(work) \subseteq Gates
          /\ stage = "build" => work = <<>>

Propagating == stage = "constants" =>
  UsesOK(graph, uses) /\ Covers(graph, uses) /\ CarryUnread(graph) /\ FoldedOrQueued(graph, Range(work))

ConstantsGone ==
  /\ stage \in {"zeros", "eliminate", "lay out", "done"} /\ opts.constant_propagation => ConstDone(graph)
  /\ stage = "zeros" /\ opts.constant_propagation => CarryUnread(graph)

ZerosGone == stage = "eliminate" /\ opts.zero_propagation /\ HasZero(graph) => ZerosDone(graph)

(* What elimination keeps of a graph, and what it takes away. *)
Kept(g, on) == \A i \in DOMAIN g.gates : g.gates[i].op = "AssertZero" =>
  \E c \in on : Structure(g.gates[c]) = Structure(g.gates[i])
NoTwins(g, on) == \A i, j \in on :
  i < j /\ Structure(g.gates[i]) = Structure(g.gates[j]) => Observable(g, g.gates[j])
NoZeros(g, on) == \A i \in on : ZeroIdentity(g, g.gates[i]) = <<>>

Eliminated == stage \in {"lay out", "done"} =>
  /\ Kept(graph, emitted)
  /\ opts.common_subexpression_elimination => NoTwins(graph, emitted)
  /\ opts.zero_propagation /\ opts.dead_code_elimination /\ HasZero(graph) => NoZeros(graph, emitted)

CompilerInv ==
  /\ stage \in Stages /\ family \in Families
  /\ GraphOK(graph) /\ PublicPinned(graph)
  /\ stage = "build" => CarryUnread(graph)
  /\ stage # "build" => Step(source, graph)
  /\ WorkOK
  /\ Propagating
  /\ stage = "failed" => Refuted(graph)
  /\ ConstantsGone
  /\ ZerosGone
  /\ emitted \subseteq Gates /\ (stage \notin {"lay out", "done"} => emitted = {})
  /\ scratch \subseteq Internal /\ (stage # "done" => scratch = {})
  /\ Eliminated
  /\ stage = "done" => slots = Slots(graph, scratch)

LEMMA PinsKept ==
  ASSUME UNCHANGED <<forced, calls>>
  PROVE  /\ PublicPinned(graph)' <=> PublicPinned(graph')
         /\ ZerosDone(graph)' <=> ZerosDone(graph')
         /\ NoTwins(graph, emitted)' <=> NoTwins(graph', emitted')
         /\ NoZeros(graph, emitted)' <=> NoZeros(graph', emitted')
<1>1. pinned' = pinned
  BY DEF pinned
<1>3. PublicPinned(graph)' <=> PublicPinned(graph')
  BY <1>1 DEF PublicPinned
<1>4. ZerosDone(graph)' <=> ZerosDone(graph')
  BY <1>1 DEF ZerosDone, ZeroIdentity
<1>5. NoTwins(graph, emitted)' <=> NoTwins(graph', emitted')
  BY <1>1 DEF NoTwins, Observable
<1>6. NoZeros(graph, emitted)' <=> NoZeros(graph', emitted')
  BY <1>1 DEF NoZeros, ZeroIdentity
<1> QED BY <1>3, <1>4, <1>5, <1>6

LEMMA EmptyWork == <<>> \in Seq(Nat) /\ Distinct(<<>>) /\ Range(<<>>) = {}
<1>1. <<>> \in Seq(Nat) /\ DOMAIN <<>> = {}
  OBVIOUS
<1> QED BY <1>1 DEF Distinct, Range

(* The circuit that nothing has been built into yet. *)
LEMMA InitInv ==
  ASSUME Init
  PROVE  CompilerInv
<1>1. BuildOK(graph)
  BY StartOK DEF Init
<1>2. GraphOK(graph) /\ CarryUnread(graph) /\ PublicPinned(graph)
  BY <1>1 DEF BuildOK
<1>3. stage = "build" /\ family \in Families /\ emitted = {} /\ scratch = {} /\ work = <<>>
  BY DEF Init
<1>4. WorkOK
  BY <1>3, EmptyWork DEF WorkOK
<1> QED BY <1>2, <1>3, <1>4 DEF CompilerInv, Stages, Propagating, ConstantsGone, ZerosGone, Eliminated

(* A step of the builder leaves everything but the graph and the pins alone. *)
LEMMA BuildInv ==
  ASSUME CompilerInv, Building, GraphOK(graph'), CarryUnread(graph'), PublicPinned(graph)'
  PROVE  CompilerInv'
<1>1. /\ stage = "build" /\ stage' = "build" /\ family' = family /\ work' = work
      /\ emitted' = emitted /\ scratch' = scratch
  BY DEF Building
<1>2. /\ family \in Families /\ work = <<>> /\ emitted = {} /\ scratch = {}
  BY <1>1 DEF CompilerInv, WorkOK
<1>3. WorkOK'
  BY <1>1, <1>2, EmptyWork DEF WorkOK
<1> QED BY <1>1, <1>2, <1>3 DEF CompilerInv, Stages, Propagating, ConstantsGone, ZerosGone, Eliminated

LEMMA BuilderHas ==
  ASSUME CompilerInv, Building
  PROVE  /\ BuildOK(graph) /\ GraphOK(graph) /\ CarryUnread(graph) /\ PublicPinned(graph)
         /\ graph.wires \in Seq(WireSet) /\ DOMAIN graph.wires \subseteq Nat
         /\ Handed \subseteq DOMAIN graph.wires
<1>1. BuildOK(graph) /\ GraphOK(graph) /\ CarryUnread(graph) /\ PublicPinned(graph)
  BY DEF CompilerInv, Building, BuildOK
<1>2. graph.wires \in Seq(WireSet) /\ DOMAIN graph.wires = 1..Len(graph.wires) /\ Len(graph.wires) \in Nat
  BY <1>1, GraphParts DEF GraphOK
<1> QED BY <1>1, <1>2 DEF Handed

LEMMA AddInv ==
  ASSUME CompilerInv, Building, UNCHANGED <<forced, calls>>, NEW word \in Words,
         graph' = AddConstant(graph, word)
  PROVE  CompilerInv'
<1>1. BuildOK(AddConstant(graph, word))
  BY BuilderHas, ConstantOK
<1>2. GraphOK(graph') /\ CarryUnread(graph') /\ PublicPinned(graph')
  BY <1>1 DEF BuildOK
<1>3. PublicPinned(graph)'
  BY <1>2, PinsKept
<1> QED BY <1>2, <1>3, BuildInv

LEMMA EmitInv ==
  ASSUME CompilerInv, Building, UNCHANGED <<forced, calls>>,
         NEW op \in Ops, NEW ins \in Seq(Nat), Len(ins) = NIn(op), \A k \in DOMAIN ins : ins[k] \in Handed,
         Emit(op, ins, NOut(op))
  PROVE  CompilerInv'
<1>1. \A k \in DOMAIN ins : ins[k] \in DOMAIN graph.wires
  BY DEF Handed
<1>2. \A k \in DOMAIN ins : \A i \in DOMAIN graph.gates :
        graph.gates[i].op = "Iadd32" => ins[k] # graph.gates[i].outs[2]
  BY DEF Handed, Gates
<1>3. BuildOK(EmitGate(graph, op, ins, NOut(op)))
  BY <1>1, <1>2, BuilderHas, EmitOK
<1>4. graph' = EmitGate(graph, op, ins, NOut(op))
  BY DEF Emit
<1>5. GraphOK(graph') /\ CarryUnread(graph') /\ PublicPinned(graph')
  BY <1>3, <1>4 DEF BuildOK
<1>6. PublicPinned(graph)'
  BY <1>5, PinsKept
<1> QED BY <1>5, <1>6, BuildInv

(* Each call of the builder. *)
LEMMA GateCallInv ==
  ASSUME CompilerInv, NEW a \in Handed, NEW b \in Handed,
         Bxor(a, b) \/ Iadd32(a, b) \/ Shl(a) \/ CallHint(a) \/ AssertZero(a)
  PROVE  CompilerInv'
<1>1. Building /\ UNCHANGED <<forced, calls>>
  BY DEF Bxor, Iadd32, Shl, CallHint, AssertZero
<1>2. a \in Nat /\ b \in Nat /\ a \in DOMAIN graph.wires /\ b \in DOMAIN graph.wires
  BY <1>1, BuilderHas
<1>3. ASSUME NEW op \in Ops, NIn(op) = 1, Emit(op, <<a>>, NOut(op)) PROVE CompilerInv'
  <2>1. <<a>> \in Seq(Nat) /\ Len(<<a>>) = 1 /\ \A k \in DOMAIN <<a>> : <<a>>[k] \in Handed
    BY <1>2
  <2> DEFINE ins == <<a>>
  <2> HIDE DEF ins
  <2>2. Emit(op, ins, NOut(op)) /\ ins \in Seq(Nat) /\ Len(ins) = NIn(op) /\ \A k \in DOMAIN ins : ins[k] \in Handed
    BY <1>3, <2>1 DEF ins
  <2> QED BY <1>1, <2>2, EmitInv
<1>4. ASSUME NEW op \in Ops, NIn(op) = 2, Emit(op, <<a, b>>, NOut(op)) PROVE CompilerInv'
  <2>1. <<a, b>> \in Seq(Nat) /\ Len(<<a, b>>) = 2 /\ \A k \in DOMAIN <<a, b>> : <<a, b>>[k] \in Handed
    BY <1>2
  <2> DEFINE ins == <<a, b>>
  <2> HIDE DEF ins
  <2>2. Emit(op, ins, NOut(op)) /\ ins \in Seq(Nat) /\ Len(ins) = NIn(op) /\ \A k \in DOMAIN ins : ins[k] \in Handed
    BY <1>4, <2>1 DEF ins
  <2> QED BY <1>1, <2>2, EmitInv
<1>5. CASE Bxor(a, b)
  <2>1. CASE a = b /\ graph' = AddConstant(graph, Zero)
    BY <1>1, <2>1, WordsKept, AddInv
  <2>2. CASE /\ a # b /\ IsConst(graph, a) /\ IsConst(graph, b)
             /\ graph' = AddConstant(graph, Xor(graph.wires[a].word, graph.wires[b].word))
    <3>1. graph.wires[a] \in WireSet /\ graph.wires[b] \in WireSet
      BY <1>1, <1>2, BuilderHas, GraphParts DEF GraphOK
    <3>2. graph.wires[a].word \in Words /\ graph.wires[b].word \in Words
      BY <2>2, <3>1, WireIs DEF IsConst
    <3>3. Xor(graph.wires[a].word, graph.wires[b].word) \in Words
      BY <3>2, WordsKept
    <3> QED BY <1>1, <2>2, <3>3, AddInv
  <2>3. CASE Emit("Bxor", <<a, b>>, 1)
    BY <1>4, <2>3 DEF Ops, NIn, NOut
  <2> QED BY <1>5, <2>1, <2>2, <2>3 DEF Bxor
<1>6. CASE Iadd32(a, b)
  BY <1>4, <1>6 DEF Iadd32, Ops, NIn, NOut
<1>7. CASE Shl(a)
  BY <1>3, <1>7 DEF Shl, Ops, NIn, NOut
<1>8. CASE CallHint(a)
  BY <1>3, <1>8 DEF CallHint, Ops, NIn, NOut
<1>9. CASE AssertZero(a)
  BY <1>3, <1>9 DEF AssertZero, Ops, NIn, NOut
<1> QED BY <1>5, <1>6, <1>7, <1>8, <1>9

LEMMA PinCallInv ==
  ASSUME CompilerInv, NEW w, ForceCommit(w) \/ MarkInout(w) \/ CallChip(w)
  PROVE  CompilerInv'
<1>1. /\ Building /\ w \in DOMAIN graph.wires /\ graph.wires[w].kind = "Internal"
      /\ pinned \subseteq pinned' /\ w \in pinned'
  BY DEF ForceCommit, MarkInout, CallChip, Pinning, Internal, pinned
<1>2. CASE graph' = graph
  <2>1. PublicPinned(graph)'
    BY <1>1, <1>2, BuilderHas DEF PublicPinned
  <2> QED BY <1>1, <1>2, <2>1, BuilderHas, BuildInv
<1>3. CASE graph' = [graph EXCEPT !.wires[w] = Wire("Inout")]
  <2>1. /\ GraphOK(graph') /\ CarryUnread(graph') /\ graph'.gates = graph.gates
        /\ \A x \in DOMAIN graph.wires : x # w => graph'.wires[x] = graph.wires[x]
    BY <1>1, <1>3, BuilderHas, MarkOK
  <2>2. ASSUME NEW i \in DOMAIN graph.gates, NEW k \in DOMAIN graph.gates[i].outs,
               graph'.wires[graph.gates[i].outs[k]].kind = "Inout"
        PROVE  graph.gates[i].outs[k] \in pinned'
    <3>1. graph.gates[i].outs[k] \in DOMAIN graph.wires
      BY <1>1, BuilderHas, GateParts
    <3>2. CASE graph.gates[i].outs[k] # w
      BY <1>1, <2>1, <2>2, <3>1, <3>2, BuilderHas DEF PublicPinned
    <3> QED BY <1>1, <3>2
  <2>3. PublicPinned(graph)'
    BY <2>1, <2>2 DEF PublicPinned
  <2> QED BY <1>1, <2>1, <2>3, BuildInv
<1> QED BY <1>2, <1>3 DEF ForceCommit, MarkInout, CallChip

(* Constant propagation *)
LEMMA CoversIs ==
  ASSUME NEW g, GraphOK(g)
  PROVE  Covers(g, WireUses(g))
<1>1. ASSUME NEW i \in DOMAIN g.gates, NEW k \in DOMAIN g.gates[i].ins
      PROVE  i \in Range(UsesOf(WireUses(g), g.gates[i].ins[k]))
  <2>1. g.gates[i].ins[k] \in DOMAIN g.wires /\ g.gates[i].ins[k] \in Range(g.gates[i].ins) /\ g \in GraphSet
    BY GateParts DEF Range, GraphOK
  <2> DEFINE w == g.gates[i].ins[k]
  <2>2. w \in DOMAIN WireUses(g) /\ Range(WireUses(g)[w]) = {j \in DOMAIN g.gates : w \in Range(g.gates[j].ins)}
    BY <2>1, UsesAre
  <2> QED BY <2>1, <2>2 DEF UsesOf
<1> QED BY <1>1 DEF Covers

LEMMA TailIs ==
  ASSUME NEW s \in Seq(Nat), Distinct(s), s # <<>>
  PROVE  /\ Head(s) \in Range(s) /\ Tail(s) \in Seq(Nat) /\ Distinct(Tail(s))
         /\ Range(Tail(s)) = Range(s) \ {Head(s)}
<1>1. /\ Len(s) \in Nat \ {0} /\ DOMAIN s = 1..Len(s) /\ Head(s) = s[1] /\ 1 \in DOMAIN s
      /\ Tail(s) \in Seq(Nat) /\ Len(Tail(s)) = Len(s) - 1 /\ DOMAIN Tail(s) = 1..Len(s) - 1
      /\ \A i \in 1..Len(s) - 1 : Tail(s)[i] = s[i + 1]
  OBVIOUS
<1> DEFINE t == Tail(s)
           n == Len(s)
<1> HIDE DEF t, n
<1>2. /\ n \in Nat \ {0} /\ DOMAIN s = 1..n /\ DOMAIN t = 1..n - 1
      /\ \A i \in 1..n - 1 : t[i] = s[i + 1] /\ i + 1 \in 1..n /\ i + 1 # 1
      /\ \A i \in 1..n : i = 1 \/ (i - 1 \in 1..n - 1 /\ i = (i - 1) + 1)
  BY <1>1 DEF t, n
<1>3. Distinct(t)
  <2>1. ASSUME NEW i \in 1..n - 1, NEW j \in 1..n - 1, t[i] = t[j] PROVE i = j
    <3>1. s[i + 1] = s[j + 1] /\ i + 1 \in DOMAIN s /\ j + 1 \in DOMAIN s
      BY <1>2, <2>1
    <3>2. i + 1 = j + 1
      BY <3>1 DEF Distinct
    <3> QED BY <1>2, <3>2
  <2> QED BY <1>2, <2>1 DEF Distinct
<1>4. Range(t) = Range(s) \ {s[1]}
  <2>1. ASSUME NEW i \in 1..n - 1 PROVE t[i] \in Range(s) /\ t[i] # s[1]
    <3>1. i + 1 \in DOMAIN s /\ 1 \in DOMAIN s /\ i + 1 # 1 /\ t[i] = s[i + 1]
      BY <1>1, <1>2
    <3> QED BY <3>1 DEF Range, Distinct
  <2>2. ASSUME NEW i \in 1..n, s[i] # s[1] PROVE s[i] \in Range(t)
    <3>1. i - 1 \in DOMAIN t /\ t[i - 1] = s[i]
      BY <1>2, <2>2
    <3> QED BY <3>1 DEF Range
  <2>3. \A x \in Range(t) : x \in Range(s) /\ x # s[1]
    BY <1>2, <2>1 DEF Range
  <2>4. \A x \in Range(s) : x # s[1] => x \in Range(t)
    BY <1>2, <2>2 DEF Range
  <2> QED BY <2>3, <2>4
<1>5. Head(s) = s[1] /\ 1 \in DOMAIN s /\ t \in Seq(Nat)
  BY <1>1 DEF t
<1>6. Head(s) \in Range(s) /\ t \in Seq(Nat) /\ Distinct(t) /\ Range(t) = Range(s) \ {Head(s)}
  BY <1>3, <1>4, <1>5 DEF Range
<1> QED BY <1>6 DEF t

LEMMA CompileInv ==
  ASSUME CompilerInv, NEW o, Compile(o)
  PROVE  CompilerInv'
<1>1. /\ stage = "build" /\ opts' = o /\ source' = graph /\ family' = family /\ graph' = graph
      /\ forced' = forced /\ calls' = calls /\ emitted' = emitted /\ scratch' = scratch
  BY DEF Compile
<1>2. GraphOK(graph) /\ CarryUnread(graph) /\ PublicPinned(graph) /\ emitted = {} /\ scratch = {} /\ family \in Families
  BY <1>1 DEF CompilerInv
<1>3. PublicPinned(graph)'
  BY <1>1, <1>2, PinsKept
<1>4. Step(source', graph')
  BY <1>1, <1>2, StepSelf
<1>5. CASE o.constant_propagation
  <2>1. stage' = "constants" /\ uses' = WireUses(graph) /\ work' = ConstReaders(graph)
    BY <1>5 DEF Compile
  <2>2. WorkOK'
    BY <1>1, <1>2, <2>1, ConstReadersAre DEF WorkOK, Gates
  <2>3. ASSUME NEW i \in DOMAIN graph.gates, AllConst(graph, i) PROVE i \in Range(ConstReaders(graph))
    <3>1. /\ 1 \in DOMAIN graph.gates[i].ins
          /\ \A k \in DOMAIN graph.gates[i].ins : graph.gates[i].ins[k] \in DOMAIN graph.wires
      BY <1>2, GateParts DEF NIn
    <3> QED BY <1>2, <2>3, <3>1, ConstReadersAre DEF AllConst
  <2>4. FoldedOrQueued(graph, Range(work'))
    BY <2>1, <2>3 DEF FoldedOrQueued
  <2>5. Propagating'
    BY <1>1, <1>2, <2>1, <2>4, IndexOK, CoversIs DEF Propagating
  <2> QED BY <1>1, <1>2, <1>3, <1>4, <2>1, <2>2, <2>5
          DEF CompilerInv, Stages, ConstantsGone, ZerosGone, Eliminated
<1>6. CASE ~o.constant_propagation
  <2>1. stage' = "zeros" /\ work' = <<>>
    BY <1>6 DEF Compile
  <2>2. WorkOK'
    BY <2>1, EmptyWork DEF WorkOK
  <2> QED BY <1>1, <1>2, <1>3, <1>4, <1>6, <2>1, <2>2
          DEF CompilerInv, Stages, Propagating, ConstantsGone, ZerosGone, Eliminated
<1> QED BY <1>5, <1>6

(* A gate is taken from the worklist. *)
LEMMA FoldInv ==
  ASSUME CompilerInv, FoldGate
  PROVE  CompilerInv'
<1> DEFINE i == Head(work)
           gate == graph.gates[i]
           words == ConstWords(graph, i)
           folded == Folded(graph, Tail(work), i)
<1>1. /\ stage = "constants" /\ work # <<>> /\ family' = family /\ forced' = forced /\ calls' = calls
      /\ opts' = opts /\ source' = source /\ uses' = uses /\ emitted' = emitted /\ scratch' = scratch
  BY DEF FoldGate
<1>2. /\ GraphOK(graph) /\ PublicPinned(graph) /\ emitted = {} /\ scratch = {} /\ family \in Families
      /\ Step(source, graph) /\ WorkOK
      /\ UsesOK(graph, uses) /\ Covers(graph, uses) /\ CarryUnread(graph) /\ FoldedOrQueued(graph, Range(work))
  BY <1>1 DEF CompilerInv, Propagating
<1>3. /\ i \in DOMAIN graph.gates /\ Tail(work) \in Seq(Nat) /\ Distinct(Tail(work))
      /\ Range(Tail(work)) = Range(work) \ {i} /\ Range(Tail(work)) \subseteq DOMAIN graph.gates
  BY <1>1, <1>2, TailIs DEF WorkOK, Gates
<1>4. \/ ~AllConst(graph, i) /\ work' = Tail(work) /\ stage' = stage /\ graph' = graph
      \/ AllConst(graph, i) /\ ~Holds(gate.op, words) /\ stage' = "failed" /\ graph' = graph /\ work' = work
      \/ AllConst(graph, i) /\ Holds(gate.op, words)
           /\ graph' = folded.graph /\ work' = folded.work /\ stage' = stage
  <2>1. (\E w \in Range(gate.ins) : ~IsConst(graph, w)) <=> ~AllConst(graph, i)
    BY DEF AllConst, Range
  <2>2. \/ (\E w \in Range(gate.ins) : ~IsConst(graph, w)) /\ work' = Tail(work) /\ UNCHANGED <<stage, graph>>
        \/ /\ ~\E w \in Range(gate.ins) : ~IsConst(graph, w)
           /\ ~Holds(gate.op, words) /\ stage' = "failed" /\ UNCHANGED <<graph, work>>
        \/ /\ ~\E w \in Range(gate.ins) : ~IsConst(graph, w)
           /\ Holds(gate.op, words) /\ graph' = folded.graph /\ work' = folded.work /\ UNCHANGED stage
    BY DEF FoldGate, Folded, ConstWords
  <2> QED BY <2>1, <2>2
<1> HIDE DEF i, folded
<1>5. CASE ~AllConst(graph, i) /\ work' = Tail(work) /\ stage' = stage /\ graph' = graph
  <2>1. WorkOK'
    BY <1>1, <1>3, <1>5 DEF WorkOK, Gates
  <2>2. FoldedOrQueued(graph, Range(work'))
    BY <1>2, <1>3, <1>5 DEF FoldedOrQueued
  <2>3. Propagating'
    BY <1>1, <1>2, <1>5, <2>2 DEF Propagating
  <2>4. PublicPinned(graph)'
    BY <1>1, <1>2, <1>5, PinsKept
  <2> QED BY <1>1, <1>2, <1>5, <2>1, <2>3, <2>4 DEF CompilerInv, Stages, ConstantsGone, ZerosGone, Eliminated
<1>6. CASE /\ AllConst(graph, i) /\ ~Holds(gate.op, words) /\ stage' = "failed"
           /\ graph' = graph /\ work' = work
  <2>1. Refuted(graph)
    BY <1>3, <1>6 DEF Refuted
  <2>2. PublicPinned(graph)'
    BY <1>1, <1>2, <1>6, PinsKept
  <2>3. WorkOK'
    BY <1>2, <1>6 DEF WorkOK, Gates
  <2> QED BY <1>1, <1>2, <1>6, <2>1, <2>2, <2>3
          DEF CompilerInv, Stages, Propagating, ConstantsGone, ZerosGone, Eliminated
<1>7. CASE /\ AllConst(graph, i) /\ Holds(gate.op, words)
           /\ graph' = folded.graph /\ work' = folded.work /\ stage' = stage
  <2>1. /\ FoldState(graph, i, Tail(work), folded)
        /\ \A k \in DOMAIN gate.outs : Unread(graph', gate.outs[k])
        /\ \A w \in DOMAIN graph.wires : ~IsConst(graph, w) /\ Unread(graph, w) => Unread(graph', w)
    BY <1>2, <1>3, <1>7, FoldedIs DEF folded
  <2>2. /\ Step(graph, graph') /\ SameGates(graph, graph') /\ UsesOK(graph', uses) /\ Covers(graph', uses)
        /\ work' \in Seq(Nat) /\ Distinct(work')
        /\ Range(Tail(work)) \subseteq Range(work') /\ Range(work') \subseteq DOMAIN graph.gates
        /\ \A j \in DOMAIN graph.gates : \A k \in DOMAIN graph.gates[j].ins :
             graph'.gates[j].ins[k] # graph.gates[j].ins[k] => j \in Range(work')
    BY <1>7, <2>1 DEF FoldState
  <2>3. /\ GraphOK(graph') /\ DOMAIN graph.wires \subseteq DOMAIN graph'.wires
        /\ \A w \in DOMAIN graph.wires : graph'.wires[w] = graph.wires[w]
    BY <2>2 DEF Step
  <2>4. Step(source, graph')
    BY <1>2, <2>2, StepTwice
  <2>5. \A j \in DOMAIN graph.gates : \A k \in DOMAIN graph.gates[j].outs :
          /\ graph.gates[j].outs[k] \in DOMAIN graph.wires /\ ~IsConst(graph, graph.gates[j].outs[k])
          /\ graph'.wires[graph.gates[j].outs[k]] = graph.wires[graph.gates[j].outs[k]]
    BY <1>2, <2>3, GateParts
  <2>6. PublicPinned(graph')
    BY <1>2, <2>2, <2>5 DEF PublicPinned, SameGates
  <2>7. CarryUnread(graph')
    <3>1. ASSUME NEW j \in DOMAIN graph.gates, graph.gates[j].op = "Iadd32" PROVE Unread(graph', graph.gates[j].outs[2])
      <4>1. 2 \in DOMAIN graph.gates[j].outs
        BY <1>2, <3>1, GateParts DEF NOut
      <4>2. Unread(graph, graph.gates[j].outs[2])
        BY <1>2, <3>1 DEF CarryUnread
      <4> QED BY <2>1, <2>5, <4>1, <4>2
    <3> QED BY <2>2, <3>1 DEF CarryUnread, SameGates
  <2>8. FoldedOrQueued(graph', Range(work'))
    <3>1. ASSUME NEW j \in DOMAIN graph.gates, AllConst(graph', j), j \notin Range(work')
          PROVE  /\ \A k \in DOMAIN graph.gates[j].outs : Unread(graph', graph.gates[j].outs[k])
                 /\ Holds(graph.gates[j].op, ConstWords(graph', j))
      <4>1. /\ DOMAIN graph'.gates[j].ins = DOMAIN graph.gates[j].ins
            /\ \A k \in DOMAIN graph.gates[j].ins : /\ graph'.gates[j].ins[k] = graph.gates[j].ins[k]
                                                    /\ graph.gates[j].ins[k] \in DOMAIN graph.wires
        BY <1>2, <2>2, <3>1, GateParts DEF SameGates
      <4>2. AllConst(graph, j) /\ ConstWords(graph', j) = ConstWords(graph, j)
        BY <2>3, <3>1, <4>1 DEF AllConst, ConstWords, IsConst
      <4>3. CASE j = i
        BY <1>7, <2>1, <4>2, <4>3
      <4>4. CASE j # i
        <5>1. j \notin Range(work)
          BY <1>3, <2>2, <3>1, <4>4
        <5>2. /\ \A k \in DOMAIN graph.gates[j].outs : Unread(graph, graph.gates[j].outs[k])
              /\ Holds(graph.gates[j].op, ConstWords(graph, j))
          BY <1>2, <4>2, <5>1 DEF FoldedOrQueued
        <5> QED BY <2>1, <2>5, <4>2, <5>2
      <4> QED BY <4>3, <4>4
    <3> QED BY <2>2, <3>1 DEF FoldedOrQueued, SameGates
  <2>9. WorkOK'
    BY <1>1, <1>7, <2>2 DEF WorkOK, Gates, SameGates
  <2>10. Propagating'
    BY <1>1, <2>2, <2>7, <2>8 DEF Propagating
  <2>11. PublicPinned(graph)'
    BY <1>1, <2>6, PinsKept
  <2> QED BY <1>1, <1>2, <1>7, <2>3, <2>4, <2>9, <2>10, <2>11
          DEF CompilerInv, Stages, ConstantsGone, ZerosGone, Eliminated
<1> QED BY <1>4, <1>5, <1>6, <1>7

LEMMA FoldDoneInv ==
  ASSUME CompilerInv, FoldDone
  PROVE  CompilerInv'
<1>1. /\ stage = "constants" /\ work = <<>> /\ stage' = "zeros"
      /\ family' = family /\ graph' = graph /\ forced' = forced /\ calls' = calls /\ opts' = opts
      /\ source' = source /\ work' = work /\ emitted' = emitted /\ scratch' = scratch
  BY DEF FoldDone
<1>2. /\ GraphOK(graph) /\ PublicPinned(graph) /\ emitted = {} /\ scratch = {} /\ family \in Families
      /\ Step(source, graph) /\ CarryUnread(graph) /\ FoldedOrQueued(graph, Range(work))
  BY <1>1 DEF CompilerInv, Propagating
<1>3. ConstDone(graph)
  BY <1>1, <1>2, EmptyWork DEF FoldedOrQueued, ConstDone
<1>4. PublicPinned(graph)'
  BY <1>1, <1>2, PinsKept
<1>5. WorkOK'
  BY <1>1, EmptyWork DEF WorkOK
<1> QED BY <1>1, <1>2, <1>3, <1>4, <1>5
        DEF CompilerInv, Stages, Propagating, ConstantsGone, ZerosGone, Eliminated

(* Zero propagation *)
LEMMA SweepKeeps ==
  ASSUME NEW g, GraphOK(g), NEW h, SweepState(g, h)
  PROVE  /\ Step(g, h) /\ (PublicPinned(g) => PublicPinned(h)) /\ (HasZero(h) <=> HasZero(g))
         /\ ConstDone(g) /\ CarryUnread(g) => ConstDone(h) /\ CarryUnread(h)
<1>1. /\ g \in GraphSet /\ Step(g, h) /\ Alike(g, h)
  BY DEF GraphOK, SweepState
<1>2. /\ h.wires = g.wires /\ DOMAIN h.gates = DOMAIN g.gates
      /\ \A i \in DOMAIN g.gates : /\ h.gates[i].op = g.gates[i].op /\ h.gates[i].outs = g.gates[i].outs
                                   /\ DOMAIN h.gates[i].ins = DOMAIN g.gates[i].ins
  BY <1>1, AlikeParts
<1>3. PublicPinned(g) => PublicPinned(h)
  BY <1>2 DEF PublicPinned
<1>4. HasZero(h) <=> HasZero(g)
  BY <1>2 DEF HasZero
<1>5. ASSUME ConstDone(g), CarryUnread(g) PROVE ConstDone(h) /\ CarryUnread(h)
  <2>1. Settled(g)
    BY <1>5 DEF Settled, ConstDone, CarryUnread
  <2>2. NoNewReads(g, h)
    BY <2>1 DEF SweepState
  <2>3. \A w : Unread(g, w) => Unread(h, w)
    BY <1>2, <2>2 DEF NoNewReads, Unread
  <2>4. ASSUME NEW i \in DOMAIN g.gates, AllConst(h, i)
        PROVE  AllConst(g, i) /\ ConstWords(h, i) = ConstWords(g, i)
    <3>1. \A n \in DOMAIN g.gates[i].ins : IsConst(g, h.gates[i].ins[n])
      BY <1>2, <2>4 DEF AllConst, IsConst
    <3>2. \A n \in DOMAIN g.gates[i].ins : h.gates[i].ins[n] = g.gates[i].ins[n]
      BY <2>2, <3>1 DEF NoNewReads
    <3> QED BY <1>2, <3>1, <3>2 DEF AllConst, ConstWords
  <2>5. ConstDone(h)
    BY <1>2, <1>5, <2>3, <2>4 DEF ConstDone
  <2>6. CarryUnread(h)
    BY <1>2, <1>5, <2>3 DEF CarryUnread
  <2> QED BY <2>5, <2>6
<1> QED BY <1>1, <1>3, <1>4, <1>5

LEMMA ZeroSweepInv ==
  ASSUME CompilerInv, ZeroSweep
  PROVE  CompilerInv'
<1>1. /\ stage = "zeros" /\ HasZero(graph) /\ graph' = Sweep(graph)
      /\ stage' = (IF graph' = graph THEN "eliminate" ELSE "zeros")
      /\ family' = family /\ forced' = forced /\ calls' = calls /\ opts' = opts
      /\ source' = source /\ work' = work /\ emitted' = emitted /\ scratch' = scratch
  BY DEF ZeroSweep
<1>2. /\ GraphOK(graph) /\ PublicPinned(graph) /\ emitted = {} /\ scratch = {} /\ family \in Families
      /\ Step(source, graph) /\ WorkOK
      /\ opts.constant_propagation => ConstDone(graph) /\ CarryUnread(graph)
  BY <1>1 DEF CompilerInv, ConstantsGone
<1>3. /\ SweepState(graph, graph')
      /\ graph' = graph => ZerosDone(graph)
  BY <1>1, <1>2, SweepIs DEF ZerosDone
<1>4. /\ Step(graph, graph') /\ PublicPinned(graph')
      /\ opts.constant_propagation => ConstDone(graph') /\ CarryUnread(graph')
  BY <1>2, <1>3, SweepKeeps
<1>5. Step(source, graph') /\ GraphOK(graph')
  BY <1>2, <1>4, StepTwice DEF Step
<1>6. WorkOK'
  <2>1. DOMAIN graph'.gates = DOMAIN graph.gates
    BY <1>2, <1>3, AlikeParts DEF GraphOK, SweepState
  <2> QED BY <1>1, <1>2, <2>1 DEF WorkOK, Gates
<1>7. PublicPinned(graph)'
  BY <1>1, <1>4, PinsKept
<1>8. ZerosGone'
  <2>1. CASE graph' = graph
    <3>1. ZerosDone(graph')
      BY <1>3, <2>1
    <3>2. ZerosDone(graph)'
      BY <1>1, <3>1, PinsKept
    <3> QED BY <3>2 DEF ZerosGone
  <2>2. CASE graph' # graph
    BY <1>1, <2>2 DEF ZerosGone
  <2> QED BY <2>1, <2>2
<1>9. ConstantsGone'
  BY <1>1, <1>4 DEF ConstantsGone
<1>10. stage' \in {"eliminate", "zeros"}
  BY <1>1
<1> QED BY <1>1, <1>2, <1>5, <1>6, <1>7, <1>8, <1>9, <1>10
        DEF CompilerInv, Stages, Propagating, Eliminated

LEMMA ZeroSkipInv ==
  ASSUME CompilerInv, ZeroSkip
  PROVE  CompilerInv'
<1>1. /\ stage = "zeros" /\ stage' = "eliminate" /\ (~opts.zero_propagation \/ ~HasZero(graph))
      /\ family' = family /\ graph' = graph /\ forced' = forced /\ calls' = calls /\ opts' = opts
      /\ source' = source /\ work' = work /\ emitted' = emitted /\ scratch' = scratch
  BY DEF ZeroSkip
<1>2. /\ GraphOK(graph) /\ PublicPinned(graph) /\ emitted = {} /\ scratch = {} /\ family \in Families
      /\ Step(source, graph) /\ WorkOK /\ (opts.constant_propagation => ConstDone(graph))
  BY <1>1 DEF CompilerInv, ConstantsGone
<1>3. PublicPinned(graph)'
  BY <1>1, <1>2, PinsKept
<1>4. WorkOK'
  BY <1>1, <1>2 DEF WorkOK, Gates
<1> QED BY <1>1, <1>2, <1>3, <1>4
        DEF CompilerInv, Stages, Propagating, ConstantsGone, ZerosGone, Eliminated

(* Elimination *)
LEMMA EliminateInv ==
  ASSUME CompilerInv, Eliminate
  PROVE  CompilerInv'
<1> DEFINE cse == opts.common_subexpression_elimination
           dead == IF cse THEN Dedup(graph).dead ELSE {}
<1>1. /\ stage = "eliminate" /\ stage' = "lay out" /\ family' = family /\ forced' = forced /\ calls' = calls
      /\ opts' = opts /\ source' = source /\ work' = work /\ scratch' = scratch
      /\ graph' = (IF cse THEN Dedup(graph).graph ELSE graph)
      /\ emitted' = {i \in Gates : /\ cse => i \notin Dedup(graph).dead
                                   /\ opts.dead_code_elimination => i \in Live(graph')}
  BY DEF Eliminate
<1>2. /\ GraphOK(graph) /\ PublicPinned(graph) /\ scratch = {} /\ family \in Families
      /\ Step(source, graph) /\ WorkOK /\ (opts.constant_propagation => ConstDone(graph))
      /\ (opts.zero_propagation /\ HasZero(graph) => ZerosDone(graph))
  BY <1>1 DEF CompilerInv, ConstantsGone, ZerosGone
<1>3. /\ Collapsed(graph, graph', dead)
      /\ cse => \A a, b \in DOMAIN graph.gates :
           a < b /\ a \notin Dedup(graph).dead /\ b \notin Dedup(graph).dead
             /\ Structure(graph'.gates[a]) = Structure(graph'.gates[b])
           => Observable(graph, graph.gates[b])
  <2>1. CASE cse
    BY <1>1, <1>2, <2>1, CollapsedIs
  <2>2. CASE ~cse
    BY <1>1, <1>2, <2>2, CollapsedIs
  <2> QED BY <2>1, <2>2
<1>4. /\ ConstDone(graph) => ConstDone(graph')
      /\ ZerosDone(graph) => ZerosDone(graph')
  BY <1>2, <1>3, CollapsedKeeps
<1>5. /\ Step(graph, graph') /\ Alike(graph, graph')
      /\ \A d \in dead : \E c \in DOMAIN graph.gates \ dead :
           Structure(graph'.gates[c]) = Structure(graph'.gates[d])
  BY <1>3 DEF Collapsed
<1>6. /\ graph'.wires = graph.wires /\ DOMAIN graph'.gates = DOMAIN graph.gates
      /\ \A i \in DOMAIN graph.gates : /\ graph'.gates[i].op = graph.gates[i].op
                                       /\ graph'.gates[i].outs = graph.gates[i].outs
  BY <1>2, <1>5, AlikeParts DEF GraphOK
<1>7. Step(source, graph') /\ GraphOK(graph')
  BY <1>2, <1>5, StepTwice DEF Step
<1>8. PublicPinned(graph')
  BY <1>2, <1>6 DEF PublicPinned
<1>9. WorkOK'
  BY <1>1, <1>2, <1>6 DEF WorkOK, Gates
<1>10. /\ \A i \in DOMAIN graph'.gates : graph'.gates[i].op = "AssertZero" => i \in Live(graph')
       /\ ZerosDone(graph') => \A i \in Live(graph') : ZeroIdentity(graph', graph'.gates[i]) = <<>>
  BY <1>7, <1>8, LiveIs
<1>11. /\ emitted' \subseteq DOMAIN graph.gates
       /\ \A i \in DOMAIN graph.gates : i \notin dead /\ i \in Live(graph') => i \in emitted'
       /\ cse => \A i \in emitted' : i \notin Dedup(graph).dead
       /\ opts.dead_code_elimination => \A i \in emitted' : i \in Live(graph')
  BY <1>1 DEF Gates
<1> HIDE DEF dead, cse
<1>12. Kept(graph', emitted')
  <2>1. ASSUME NEW i \in DOMAIN graph.gates, graph'.gates[i].op = "AssertZero"
        PROVE  \E c \in emitted' : Structure(graph'.gates[c]) = Structure(graph'.gates[i])
    <3>1. CASE i \notin dead
      BY <1>6, <1>10, <1>11, <2>1, <3>1
    <3>2. CASE i \in dead
      <4>1. PICK c \in DOMAIN graph.gates \ dead : Structure(graph'.gates[c]) = Structure(graph'.gates[i])
        BY <1>5, <3>2
      <4>2. graph'.gates[c].op = "AssertZero"
        BY <2>1, <4>1 DEF Structure
      <4> QED BY <1>6, <1>10, <1>11, <4>1, <4>2
    <3> QED BY <3>1, <3>2
  <2> QED BY <1>6, <2>1 DEF Kept
<1>13. cse => NoTwins(graph', emitted')
  <2>1. ASSUME cse, NEW i \in emitted', NEW j \in emitted', i < j,
               Structure(graph'.gates[i]) = Structure(graph'.gates[j])
        PROVE  Observable(graph', graph'.gates[j])
    <3>1. Observable(graph, graph.gates[j])
      BY <1>3, <1>11, <2>1
    <3> QED BY <1>6, <1>11, <3>1 DEF Observable
  <2> QED BY <2>1 DEF NoTwins
<1>14. opts.zero_propagation /\ opts.dead_code_elimination /\ HasZero(graph') => NoZeros(graph', emitted')
  <2>1. HasZero(graph') <=> HasZero(graph)
    BY <1>6 DEF HasZero
  <2> QED BY <1>2, <1>4, <1>10, <1>11, <2>1 DEF NoZeros
<1>15. Eliminated'
  <2>1. /\ NoTwins(graph, emitted)' <=> NoTwins(graph', emitted')
        /\ NoZeros(graph, emitted)' <=> NoZeros(graph', emitted')
    BY <1>1, PinsKept
  <2> QED BY <1>1, <1>12, <1>13, <1>14, <2>1 DEF Eliminated, cse
<1>16. PublicPinned(graph)'
  BY <1>1, <1>8, PinsKept
<1>17. (emitted \subseteq Gates)'
  BY <1>6, <1>11 DEF Gates
<1> QED BY <1>1, <1>2, <1>4, <1>7, <1>9, <1>15, <1>16, <1>17
        DEF CompilerInv, Stages, Propagating, ConstantsGone, ZerosGone

LEMMA LayOutInv ==
  ASSUME CompilerInv, LayOut
  PROVE  CompilerInv'
<1>1. /\ stage = "lay out" /\ stage' = "done"
      /\ family' = family /\ graph' = graph /\ forced' = forced /\ calls' = calls /\ opts' = opts
      /\ source' = source /\ work' = work /\ emitted' = emitted /\ scratch' \subseteq Internal
      /\ slots' = Slots(graph, scratch')
  BY DEF LayOut
<1>2. /\ GraphOK(graph) /\ PublicPinned(graph) /\ emitted \subseteq Gates /\ family \in Families
      /\ Step(source, graph) /\ WorkOK /\ (opts.constant_propagation => ConstDone(graph)) /\ Eliminated
  BY <1>1 DEF CompilerInv, ConstantsGone
<1>3. PublicPinned(graph)'
  BY <1>1, <1>2, PinsKept
<1>4. WorkOK'
  BY <1>1, <1>2 DEF WorkOK, Gates
<1>5. /\ NoTwins(graph, emitted)' <=> NoTwins(graph, emitted)
      /\ NoZeros(graph, emitted)' <=> NoZeros(graph, emitted)
  BY <1>1, PinsKept
<1>6. Eliminated'
  BY <1>1, <1>2, <1>5 DEF Eliminated
<1>7. (emitted \subseteq Gates)' /\ (scratch \subseteq Internal)'
  BY <1>1, <1>2 DEF Gates, Internal
<1> QED BY <1>1, <1>2, <1>3, <1>4, <1>6, <1>7
        DEF CompilerInv, Stages, Propagating, ConstantsGone, ZerosGone

LEMMA InvStep ==
  ASSUME CompilerInv, [Next]_vars
  PROVE  CompilerInv'
<1>1. CASE \E word \in family.literals : NameConstant(word)
  <2>1. PICK word \in family.literals : NameConstant(word)
    BY <1>1
  <2>2. word \in Words
    BY BoundsAssumption DEF CompilerInv
  <2> QED BY <2>1, <2>2, AddInv DEF NameConstant
<1>2. CASE \E a \in Handed : \/ \E b \in Handed : Bxor(a, b) \/ Iadd32(a, b)
                             \/ Shl(a) \/ CallHint(a) \/ AssertZero(a)
  BY <1>2, GateCallInv
<1>3. CASE \E a \in Handed : ForceCommit(a) \/ MarkInout(a) \/ CallChip(a)
  BY <1>3, PinCallInv
<1>4. CASE \E o \in family.options : Compile(o)
  BY <1>4, CompileInv
<1>5. CASE FoldGate
  BY <1>5, FoldInv
<1>6. CASE FoldDone
  BY <1>6, FoldDoneInv
<1>7. CASE ZeroSweep
  BY <1>7, ZeroSweepInv
<1>8. CASE ZeroSkip
  BY <1>8, ZeroSkipInv
<1>9. CASE Eliminate
  BY <1>9, EliminateInv
<1>10. CASE LayOut
  BY <1>10, LayOutInv
<1>11. CASE UNCHANGED vars
  <2>1. UNCHANGED <<forced, calls>> /\ graph' = graph /\ emitted' = emitted
    BY <1>11 DEF vars
  <2>2. /\ PublicPinned(graph)' <=> PublicPinned(graph)
        /\ ZerosDone(graph)' <=> ZerosDone(graph)
        /\ NoTwins(graph, emitted)' <=> NoTwins(graph, emitted)
        /\ NoZeros(graph, emitted)' <=> NoZeros(graph, emitted)
    BY <2>1, PinsKept
  <2>3. Eliminated => Eliminated'
    BY <1>11, <2>2 DEF Eliminated, vars
  <2>4. (ZerosGone => ZerosGone') /\ (ConstantsGone => ConstantsGone')
    BY <1>11, <2>2 DEF ZerosGone, ConstantsGone, vars
  <2>5. (Propagating => Propagating') /\ (WorkOK => WorkOK')
    BY <1>11 DEF Propagating, WorkOK, Gates, vars
  <2>6. (emitted \subseteq Gates)' <=> emitted \subseteq Gates
    BY <1>11 DEF Gates, vars
  <2>7. (scratch \subseteq Internal)' <=> scratch \subseteq Internal
    BY <1>11 DEF Internal, vars
  <2> QED BY <1>11, <2>2, <2>3, <2>4, <2>5, <2>6, <2>7 DEF CompilerInv, vars
<1> QED BY <1>1, <1>2, <1>3, <1>4, <1>5, <1>6, <1>7, <1>8, <1>9, <1>10, <1>11 DEF Next

LEMMA CompilerInvariant == Spec => []CompilerInv
<1>1. Init => CompilerInv
  BY InitInv
<1>2. CompilerInv /\ [Next]_vars => CompilerInv'
  BY InvStep
<1> QED BY <1>1, <1>2, PTL DEF Spec

LEMMA DistinctCount ==
  ASSUME NEW s \in Seq(Nat), Distinct(s)
  PROVE  Cardinality(Range(s)) = Len(s)
<1>1. Len(s) \in Nat /\ DOMAIN s = 1..Len(s) /\ s = [i \in 1..Len(s) |-> s[i]]
  OBVIOUS
<1>2. s \in Bijection(1..Len(s), Range(s))
  BY <1>1 DEF Bijection, Injection, Surjection, IsInjective, Range, Distinct
<1>3. ExistsBijection(1..Len(s), Range(s))
  BY <1>2 DEF ExistsBijection
<1> QED BY <1>1, <1>3, FS_CountingElements

(* TypeOK: whatever the builder is called with and whichever options are     *)
(* chosen, no pass leaves the graph out of shape: constants stay interned, a *)
(* wire has one gate that makes it, and no gate reads what a later one makes *)
(* (ir/mod.rs, cse.rs, eval_form/mod.rs).                                    *)
THEOREM CompilerTypeCorrect == Spec => []TypeOK
<1>1. CompilerInv => TypeOK
  <2> SUFFICES ASSUME CompilerInv PROVE TypeOK
    OBVIOUS
  <2>1. GraphOK(graph) /\ WorkOK
    BY DEF CompilerInv
  <2>2. Range(work) \subseteq Gates /\ Cardinality(Range(work)) = Len(work)
    BY <2>1, DistinctCount DEF WorkOK
  <2>3. \A v, w \in DOMAIN graph.wires :
          IsConst(graph, v) /\ graph.wires[v] = graph.wires[w] => v = w
    BY <2>1 DEF GraphOK, Interned
  <2>4. ASSUME NEW i \in Gates, NEW w \in Range(graph.gates[i].outs)
        PROVE  /\ ~IsConst(graph, w) /\ w \notin Declared
               /\ \A j \in Gates : w \in Range(graph.gates[j].outs) => j = i
               /\ \A j \in 1..i : w \notin Range(graph.gates[j].ins)
    <3>1. PICK k \in DOMAIN graph.gates[i].outs : w = graph.gates[i].outs[k]
      BY DEF Range
    <3>2. /\ graph \in GraphSet /\ i \in Nat /\ i \in DOMAIN graph.gates
          /\ graph.wires[w] \in {Wire("Inout"), Wire("Internal")} /\ ~IsConst(graph, w)
      BY <2>1, <3>1, GateParts DEF Gates
    <3>3. graph.wires[w].kind # "Witness"
      BY <3>2, WireIs
    <3>4. w \notin Declared
      BY <2>4, <3>3 DEF Declared, Gates
    <3>5. \A j \in Gates : w \in Range(graph.gates[j].outs) => j = i
      BY <2>1, <3>1, <3>2, OneMaker DEF Gates
    <3>6. ASSUME NEW j \in 1..i, w \in Range(graph.gates[j].ins) PROVE FALSE
      <4>1. DOMAIN graph.gates = 1..Len(graph.gates) /\ Len(graph.gates) \in Nat
        BY <3>2, GraphParts
      <4>2. j \in DOMAIN graph.gates /\ j \in Nat
        BY <3>2, <4>1
      <4>3. PICK n \in DOMAIN graph.gates[j].ins : w = graph.gates[j].ins[n]
        BY <3>6 DEF Range
      <4>4. Ready(graph, w, j)
        BY <2>1, <4>2, <4>3, GateParts
      <4>5. i < j
        BY <2>4, <3>2, <4>4 DEF Ready, Gates
      <4> QED BY <3>2, <4>5
    <3> QED BY <3>2, <3>4, <3>5, <3>6
  <2> QED BY <2>2, <2>3, <2>4 DEF TypeOK, CompilerInv, Stages
<1> QED BY <1>1, CompilerInvariant, PTL

(* HonestKept: for circuits of any size, no pass changes the value of any    *)
(* wire in an honest witness, or whether the assertions hold, at any moment, *)
(* nor does what elimination drops; constant propagation gives up only on a  *)
(* circuit no honest witness satisfies.                                      *)
THEOREM HonestWitnessesKept == Spec => []HonestKept
<1>1. CompilerInv => HonestKept
  <2> SUFFICES ASSUME CompilerInv, stage # "build", NEW f \in Assignments(Declared)
               PROVE  LET before == Values(source, DOMAIN source.gates, f)
                          after == Values(graph, Gates, f)
                          held == Satisfied(source, DOMAIN source.gates, before)
                      IN  /\ \A w \in DOMAIN source.wires : before[w] = after[w]
                          /\ held <=> Satisfied(graph, Gates, after)
                          /\ stage \in {"lay out", "done"} => (held <=> Satisfied(graph, emitted, after))
                          /\ stage = "failed" => ~held
    BY DEF HonestKept
  <2>1. Step(source, graph) /\ GraphOK(graph) /\ emitted \subseteq DOMAIN graph.gates
    BY DEF CompilerInv, Gates
  <2>2. Declared = DeclaredOf(graph) /\ DeclaredOf(graph) = DeclaredOf(source)
    BY <2>1 DEF Declared, DeclaredOf, Inout, Gates, Step
  <2>3. /\ \A w \in DOMAIN source.wires : V(graph, f)[w] = V(source, f)[w]
        /\ Sat(graph, f) <=> Sat(source, f)
    BY <2>1, <2>2 DEF Step, SameValues
  <2>4. ASSUME stage \in {"lay out", "done"}
        PROVE  Satisfied(graph, emitted, V(graph, f)) <=> Sat(graph, f)
    <3>1. Kept(graph, emitted)
      BY <2>4 DEF CompilerInv, Eliminated
    <3> QED BY <2>1, <3>1, KeptHold DEF Kept, Sat
  <2>5. ASSUME stage = "failed" PROVE ~Sat(graph, f)
    <3>1. PICK i \in DOMAIN graph.gates : AllConst(graph, i) /\ ~Holds(graph.gates[i].op, ConstWords(graph, i))
      BY <2>5 DEF CompilerInv, Refuted
    <3> QED BY <2>1, <3>1, ConstRead
  <2> QED BY <2>3, <2>4, <2>5 DEF V, Sat, Gates
<1> QED BY <1>1, CompilerInvariant, PTL

(* NothingLeft: what the passes promise to remove is gone from every circuit *)
(* that is compiled, of whatever size.                                       *)
THEOREM NothingIsLeft == Spec => []NothingLeft
<1>1. CompilerInv => NothingLeft
  BY DEF CompilerInv, Eliminated, NoTwins, NoZeros, NothingLeft
<1> QED BY <1>1, CompilerInvariant, PTL

(* ConstantsFolded: constant propagation reaches its fixpoint although the   *)
(* index of readers it follows is never rebuilt, and the passes after it     *)
(* make no new constants for a live gate to read (const_prop.rs).            *)
THEOREM ConstantsAreFolded == Spec => []ConstantsFolded
<1>1. CompilerInv => ConstantsFolded
  <2> SUFFICES ASSUME CompilerInv, stage \in {"eliminate", "lay out", "done"}, opts.constant_propagation,
                      NEW i \in Gates, \A w \in Range(graph.gates[i].ins) : IsConst(graph, w)
               PROVE  /\ \A j \in Live(graph) : Range(graph.gates[i].outs) \cap Range(graph.gates[j].ins) = {}
                      /\ Holds(graph.gates[i].op, [k \in DOMAIN graph.gates[i].ins |->
                                                     graph.wires[graph.gates[i].ins[k]].word])
    BY DEF ConstantsFolded
  <2>1. ConstDone(graph) /\ GraphOK(graph) /\ PublicPinned(graph)
    BY DEF CompilerInv, ConstantsGone
  <2>2. i \in DOMAIN graph.gates /\ AllConst(graph, i)
    BY DEF Gates, AllConst, Range
  <2>3. /\ \A k \in DOMAIN graph.gates[i].outs : Unread(graph, graph.gates[i].outs[k])
        /\ Holds(graph.gates[i].op, ConstWords(graph, i))
    BY <2>1, <2>2 DEF ConstDone
  <2>4. Live(graph) \subseteq DOMAIN graph.gates
    BY <2>1, LiveIs
  <2>5. \A j \in Live(graph) : Range(graph.gates[i].outs) \cap Range(graph.gates[j].ins) = {}
    BY <2>3, <2>4 DEF Unread, Range
  <2> QED BY <2>3, <2>5 DEF ConstWords
<1> QED BY <1>1, CompilerInvariant, PTL
------------------------------------------------------------------------------
(* Slots of scratch wires *)
SlotMaps == UNION {[D -> Nat] : D \in SUBSET Nat}
SlotSet == [slot : SlotMaps, free : Seq(Nat), n : Nat]
NoSlots == [slot |-> <<>>, free |-> <<>>, n |-> 0]

(* The slots after one wire has asked for one. *)
TakenOne(s, w, t) ==
  /\ t \in SlotSet /\ DOMAIN t.slot = DOMAIN s.slot \cup {w}
  /\ \A x \in DOMAIN s.slot : t.slot[x] = s.slot[x]
  /\ w \in DOMAIN s.slot => t = s
  /\ w \notin DOMAIN s.slot /\ s.free = <<>> => t.slot[w] = s.n /\ t.n = s.n + 1 /\ t.free = <<>>
  /\ w \notin DOMAIN s.slot /\ s.free # <<>> =>
       /\ t.n = s.n /\ t.slot[w] \in Range(s.free) /\ Range(t.free) \subseteq Range(s.free)
       /\ Distinct(s.free) => Distinct(t.free) /\ t.slot[w] \notin Range(t.free)

LEMMA SlotParts ==
  ASSUME NEW s \in SlotSet
  PROVE  /\ s = [slot |-> s.slot, free |-> s.free, n |-> s.n]
         /\ s.slot \in [DOMAIN s.slot -> Nat] /\ DOMAIN s.slot \subseteq Nat
         /\ s.free \in Seq(Nat) /\ s.n \in Nat
<1>1. s.slot \in SlotMaps /\ s.free \in Seq(Nat) /\ s.n \in Nat /\ s = [slot |-> s.slot, free |-> s.free, n |-> s.n]
  BY DEF SlotSet
<1>2. PICK D \in SUBSET Nat : s.slot \in [D -> Nat]
  BY <1>1 DEF SlotMaps
<1> QED BY <1>1, <1>2

Holding(s, w, x) == [y \in DOMAIN s.slot \cup {w} |-> IF y = w THEN x ELSE s.slot[y]]

LEMMA SlotAdded ==
  ASSUME NEW s \in SlotSet, NEW w \in Nat, w \notin DOMAIN s.slot, NEW x \in Nat
  PROVE  /\ Holding(s, w, x) \in SlotMaps /\ DOMAIN Holding(s, w, x) = DOMAIN s.slot \cup {w}
         /\ \A y \in DOMAIN s.slot : Holding(s, w, x)[y] = s.slot[y]
         /\ Holding(s, w, x)[w] = x
<1> DEFINE h == Holding(s, w, x)
           D == DOMAIN s.slot
<1>1. s.slot \in [D -> Nat] /\ D \subseteq Nat
  BY SlotParts
<1>2. h = [y \in D \cup {w} |-> IF y = w THEN x ELSE s.slot[y]]
  BY DEF Holding
<1>3. h \in [D \cup {w} -> Nat] /\ D \cup {w} \in SUBSET Nat
  BY <1>1, <1>2
<1>4. h[w] = x /\ \A y \in D : h[y] = s.slot[y]
  BY <1>2
<1> HIDE DEF h, D
<1>5. h \in SlotMaps
  BY <1>3 DEF SlotMaps
<1> QED BY <1>3, <1>4, <1>5 DEF h, D

LEMMA FrontIs ==
  ASSUME NEW s \in Seq(Nat), s # <<>>
  PROVE  /\ Front(s) \in Seq(Nat) /\ Last(s) \in Range(s) /\ Range(Front(s)) \subseteq Range(s)
         /\ Distinct(s) => Distinct(Front(s)) /\ Last(s) \notin Range(Front(s))
<1> DEFINE n == Len(s)
           t == Front(s)
<1>1. /\ n \in Nat /\ n # 0 /\ DOMAIN s = 1..n
      /\ t \in Seq(Nat) /\ DOMAIN t = 1..n - 1 /\ \A i \in 1..n - 1 : t[i] = s[i]
  BY DEF Front
<1>0. Last(s) = s[n]
  BY DEF Last
<1> HIDE DEF t, n
<1>2. Last(s) = s[n] /\ n \in 1..n /\ \A i \in 1..n - 1 : i \in 1..n /\ i # n
  BY <1>0, <1>1
<1>3. Last(s) \in Range(s) /\ Range(t) \subseteq Range(s)
  BY <1>1, <1>2 DEF Range
<1>4. ASSUME Distinct(s) PROVE Distinct(t) /\ s[n] \notin Range(t)
  BY <1>1, <1>2, <1>4 DEF Distinct, Range
<1> QED BY <1>1, <1>2, <1>3, <1>4 DEF t

LEMMA TakeOne ==
  ASSUME NEW s \in SlotSet, NEW w \in Nat
  PROVE  TakenOne(s, w, TakeSlot(s, w))
<1> DEFINE t == TakeSlot(s, w)
<1>1. /\ s = [slot |-> s.slot, free |-> s.free, n |-> s.n]
      /\ s.slot \in [DOMAIN s.slot -> Nat] /\ DOMAIN s.slot \in SUBSET Nat
      /\ s.free \in Seq(Nat) /\ s.n \in Nat
  BY SlotParts
<1>2. CASE w \in DOMAIN s.slot
  <2>1. t = s /\ DOMAIN s.slot = DOMAIN s.slot \cup {w}
    BY <1>2 DEF TakeSlot
  <2> HIDE DEF t
  <2> QED BY <1>2, <2>1 DEF TakenOne, t
<1>3. CASE w \notin DOMAIN s.slot /\ s.free = <<>>
  <2> DEFINE h == Holding(s, w, s.n)
  <2>0. s.n \in Nat /\ w \notin DOMAIN s.slot
    BY <1>1, <1>3
  <2>00. t = [s EXCEPT !.slot = h, !.n = s.n + 1]
    BY <1>3 DEF TakeSlot, Holding
  <2> HIDE DEF t
  <2>1. h \in SlotMaps /\ DOMAIN h = DOMAIN s.slot \cup {w} /\ h[w] = s.n /\ \A y \in DOMAIN s.slot : h[y] = s.slot[y]
    BY <2>0, SlotAdded
  <2> HIDE DEF h
  <2>3. t = [slot |-> h, free |-> s.free, n |-> s.n + 1]
    BY <1>1, <2>00
  <2>4. t \in SlotSet /\ t.slot = h /\ t.free = s.free /\ t.n = s.n + 1
    BY <1>1, <2>1, <2>3 DEF SlotSet
  <2> QED BY <1>3, <2>1, <2>4 DEF TakenOne, t
<1>4. CASE w \notin DOMAIN s.slot /\ s.free # <<>>
  <2> DEFINE top == Last(s.free)
             rest == Front(s.free)
             h == Holding(s, w, top)
  <2>0. /\ rest \in Seq(Nat) /\ top \in Range(s.free) /\ Range(rest) \subseteq Range(s.free)
        /\ Distinct(s.free) => Distinct(rest) /\ top \notin Range(rest)
    BY <1>1, <1>4, FrontIs
  <2>00. top \in Nat
    BY <1>1, <2>0 DEF Range
  <2>2. t = [s EXCEPT !.slot = h, !.free = rest]
    BY <1>4 DEF TakeSlot, Holding
  <2> HIDE DEF top, rest, t
  <2>1. h \in SlotMaps /\ DOMAIN h = DOMAIN s.slot \cup {w} /\ h[w] = top /\ \A y \in DOMAIN s.slot : h[y] = s.slot[y]
    BY <1>1, <1>4, <2>00, SlotAdded
  <2> HIDE DEF h
  <2>3. t = [slot |-> h, free |-> rest, n |-> s.n]
    BY <1>1, <2>2
  <2>4. t \in SlotSet /\ t.slot = h /\ t.free = rest /\ t.n = s.n
    BY <1>1, <2>0, <2>1, <2>3 DEF SlotSet
  <2> QED BY <1>4, <2>0, <2>1, <2>4 DEF TakenOne, t
<1> QED BY <1>2, <1>3, <1>4

LEMMA GiveOne ==
  ASSUME NEW s \in SlotSet, NEW w \in DOMAIN s.slot
  PROVE  /\ GiveSlot(s, w) \in SlotSet /\ GiveSlot(s, w).slot = s.slot /\ GiveSlot(s, w).n = s.n
         /\ GiveSlot(s, w).free = Append(s.free, s.slot[w])
<1> DEFINE q == Append(s.free, s.slot[w])
           t == GiveSlot(s, w)
<1>1. /\ s = [slot |-> s.slot, free |-> s.free, n |-> s.n]
      /\ s.slot \in [DOMAIN s.slot -> Nat] /\ s.free \in Seq(Nat) /\ s.n \in Nat
  BY SlotParts
<1>2. q \in Seq(Nat)
  BY <1>1
<1>3. t = [s EXCEPT !.free = q]
  BY DEF GiveSlot
<1> HIDE DEF q, t
<1>4. t = [slot |-> s.slot, free |-> q, n |-> s.n]
  BY <1>1, <1>3
<1>5. s.slot \in SlotMaps
  BY DEF SlotSet
<1> QED BY <1>1, <1>2, <1>4, <1>5 DEF SlotSet, q, t

Taken(P, base, s) ==
  /\ P[0] = base /\ FoldLeft(TakeSlot, base, s) = P[Len(s)]
  /\ \A k \in 0..Len(s) - 1 : P[k + 1] = TakeSlot(P[k], s[k + 1])

LEMMA TakeParts ==
  ASSUME NEW base \in SlotSet, NEW s \in Seq(Nat)
  PROVE  \E P \in [0..Len(s) -> SlotSet] : Taken(P, base, s)
<1> DEFINE n == Len(s)
           T == SlotSet
           G == [p \in T \X (1..n) |-> TakeSlot(p[1], s[p[2]])]
           Is(it) == it = [d \in SUBSET (1..n) |->
                             IF d = {} THEN base ELSE TakeSlot(it[d \ {Max(d)}], s[Max(d)])]
           it == CHOOSE x : Is(x)
<1>1. n \in Nat /\ DOMAIN s = 1..n /\ \A i \in 1..n : s[i] \in Nat
  OBVIOUS
<1>2. FoldLeft(TakeSlot, base, s) = it[1..n]
  BY <1>1 DEF FoldLeft, MapThenFoldSet
<1>3. \A v \in T : \A i \in 1..n : TakeSlot(v, s[i]) \in T
  BY <1>1, TakeOne DEF TakenOne
<1>4. base \in T
  OBVIOUS
<1> HIDE DEF n, T
<1>5. G \in [T \X (1..n) -> T]
  BY <1>3
<1>6. PICK x \in [SUBSET (1..n) -> T] : FoldsBy(x, n, base, G)
  <2> HIDE DEF G
  <2> QED BY <1>1, <1>4, <1>5, FoldExists
<1>7. Is(x)
  <2>1. ASSUME NEW d \in SUBSET (1..n), d # {}
        PROVE  x[d] = TakeSlot(x[d \ {Max(d)}], s[Max(d)])
    <3>1. Max(d) \in 1..n /\ x[d \ {Max(d)}] \in T
      BY <1>1, <2>1, FoldTop
    <3>2. G[<<x[d \ {Max(d)}], Max(d)>>] = TakeSlot(x[d \ {Max(d)}], s[Max(d)])
      BY <3>1
    <3> HIDE DEF G
    <3> QED BY <1>6, <2>1, <3>2 DEF FoldsBy
  <2>2. x[{}] = base
    BY <1>6 DEF FoldsBy
  <2> QED BY <1>6, <2>1, <2>2
<1>8. Is(it)
  <2> HIDE DEF Is
  <2> QED BY <1>7
<1> HIDE DEF it
<1>9. it[1..0] = base /\ \A k \in 0..n - 1 : it[1..k + 1] = TakeSlot(it[1..k], s[k + 1])
  <2>1. \A d \in SUBSET (1..n) : it[d] = IF d = {} THEN base ELSE TakeSlot(it[d \ {Max(d)}], s[Max(d)])
    BY <1>8
  <2>2. ASSUME NEW k \in 0..n - 1 PROVE it[1..k + 1] = TakeSlot(it[1..k], s[k + 1])
    <3>1. n \in Nat
      BY <1>1
    <3> QED BY ONLY <2>1, <3>1, PrefixMax, k \in 0..n - 1
  <2>3. 1..0 = {}
    BY <1>1
  <2> QED BY <2>1, <2>2, <2>3
<1> DEFINE P == [k \in 0..n |-> it[1..k]]
<1>10. \A k \in 0..n : it[1..k] \in T
  <2> DEFINE S == {k \in 0..n : it[1..k] \in T}
  <2>1. 0 \in S
    <3>1. 0 \in 0..n /\ it[1..0] \in T
      BY <1>1, <1>4, <1>9
    <3> QED BY <3>1
  <2>2. ASSUME NEW k \in Nat, k < n, k \in S PROVE k + 1 \in S
    <3>1. k \in 0..n - 1 /\ k + 1 \in 1..n /\ k + 1 \in 0..n /\ it[1..k] \in T
      BY <1>1, <2>2
    <3>2. it[1..k + 1] \in T
      BY <1>3, <1>9, <3>1
    <3> QED BY <3>1, <3>2
  <2> HIDE DEF S
  <2>3. \A k \in 0..n : k \in S
    BY <1>1, <2>1, <2>2, UpwardClosed
  <2> QED BY <2>3 DEF S
<1>11. P \in [0..n -> T]
  BY <1>10
<1>12. P[0] = base /\ P[n] = it[1..n] /\ \A k \in 0..n - 1 : P[k + 1] = TakeSlot(P[k], s[k + 1])
  BY <1>1, <1>9
<1> HIDE DEF P
<1> QED BY <1>2, <1>11, <1>12 DEF Taken, n, T

Given(P, base, s) ==
  /\ P[0] = base /\ FoldLeft(GiveSlot, base, s) = P[Len(s)]
  /\ \A k \in 0..Len(s) - 1 : P[k + 1] = GiveSlot(P[k], s[k + 1])

LEMMA GiveParts ==
  ASSUME NEW base \in SlotSet, NEW s \in Seq(Nat), Range(s) \subseteq DOMAIN base.slot
  PROVE  \E P \in [0..Len(s) -> {t \in SlotSet : t.slot = base.slot /\ t.n = base.n}] : Given(P, base, s)
<1> DEFINE n == Len(s)
           T == {t \in SlotSet : t.slot = base.slot /\ t.n = base.n}
           G == [p \in T \X (1..n) |-> GiveSlot(p[1], s[p[2]])]
           Is(it) == it = [d \in SUBSET (1..n) |->
                             IF d = {} THEN base ELSE GiveSlot(it[d \ {Max(d)}], s[Max(d)])]
           it == CHOOSE x : Is(x)
<1>1. n \in Nat /\ DOMAIN s = 1..n /\ \A i \in 1..n : s[i] \in DOMAIN base.slot
  BY DEF Range
<1>2. FoldLeft(GiveSlot, base, s) = it[1..n]
  BY <1>1 DEF FoldLeft, MapThenFoldSet
<1>3. \A v \in T : \A i \in 1..n : GiveSlot(v, s[i]) \in T
  BY <1>1, GiveOne
<1>4. base \in T
  OBVIOUS
<1> HIDE DEF n, T
<1>5. G \in [T \X (1..n) -> T]
  BY <1>3
<1>6. PICK x \in [SUBSET (1..n) -> T] : FoldsBy(x, n, base, G)
  <2> HIDE DEF G
  <2> QED BY <1>1, <1>4, <1>5, FoldExists
<1>7. Is(x)
  <2>1. ASSUME NEW d \in SUBSET (1..n), d # {}
        PROVE  x[d] = GiveSlot(x[d \ {Max(d)}], s[Max(d)])
    <3>1. Max(d) \in 1..n /\ x[d \ {Max(d)}] \in T
      BY <1>1, <2>1, FoldTop
    <3>2. G[<<x[d \ {Max(d)}], Max(d)>>] = GiveSlot(x[d \ {Max(d)}], s[Max(d)])
      BY <3>1
    <3> HIDE DEF G
    <3> QED BY <1>6, <2>1, <3>2 DEF FoldsBy
  <2>2. x[{}] = base
    BY <1>6 DEF FoldsBy
  <2> QED BY <1>6, <2>1, <2>2
<1>8. Is(it)
  <2> HIDE DEF Is
  <2> QED BY <1>7
<1> HIDE DEF it
<1>9. it[1..0] = base /\ \A k \in 0..n - 1 : it[1..k + 1] = GiveSlot(it[1..k], s[k + 1])
  <2>1. \A d \in SUBSET (1..n) : it[d] = IF d = {} THEN base ELSE GiveSlot(it[d \ {Max(d)}], s[Max(d)])
    BY <1>8
  <2>2. ASSUME NEW k \in 0..n - 1 PROVE it[1..k + 1] = GiveSlot(it[1..k], s[k + 1])
    <3>1. n \in Nat
      BY <1>1
    <3> QED BY ONLY <2>1, <3>1, PrefixMax, k \in 0..n - 1
  <2>3. 1..0 = {}
    BY <1>1
  <2> QED BY <2>1, <2>2, <2>3
<1> DEFINE P == [k \in 0..n |-> it[1..k]]
<1>10. \A k \in 0..n : it[1..k] \in T
  <2> DEFINE S == {k \in 0..n : it[1..k] \in T}
  <2>1. 0 \in S
    <3>1. 0 \in 0..n /\ it[1..0] \in T
      BY <1>1, <1>4, <1>9
    <3> QED BY <3>1
  <2>2. ASSUME NEW k \in Nat, k < n, k \in S PROVE k + 1 \in S
    <3>1. k \in 0..n - 1 /\ k + 1 \in 1..n /\ k + 1 \in 0..n /\ it[1..k] \in T
      BY <1>1, <2>2
    <3>2. it[1..k + 1] \in T
      BY <1>3, <1>9, <3>1
    <3> QED BY <3>1, <3>2
  <2> HIDE DEF S
  <2>3. \A k \in 0..n : k \in S
    BY <1>1, <2>1, <2>2, UpwardClosed
  <2> QED BY <2>3 DEF S
<1>11. P \in [0..n -> T]
  BY <1>10
<1>12. P[0] = base /\ P[n] = it[1..n] /\ \A k \in 0..n - 1 : P[k + 1] = GiveSlot(P[k], s[k + 1])
  BY <1>1, <1>9
<1> HIDE DEF P
<1> QED BY <1>2, <1>11, <1>12 DEF Given, n, T

(* A wire is mentioned by the gates that read or make it. *)
LEMMA MentionsAre ==
  ASSUME NEW g \in GraphSet, NEW W, NEW i \in DOMAIN g.gates
  PROVE  /\ Mentions(g, W, i) \in Seq(Nat)
         /\ Range(Mentions(g, W, i)) = (Range(g.gates[i].ins) \cup Range(g.gates[i].outs)) \cap W
<1> DEFINE a == g.gates[i].ins
           b == g.gates[i].outs
           s == a \o b
<1>1. a \in Seq(Nat) /\ b \in Seq(Nat)
  BY GraphParts
<1> HIDE DEF a, b
<1>2. s \in Seq(Nat) /\ Len(s) = Len(a) + Len(b) /\ Len(a) \in Nat /\ Len(b) \in Nat
  BY <1>1
<1>3. IsSequence(a) /\ IsSequence(b)
  BY <1>1, SeqIsSequence
<1>4. /\ DOMAIN a = 1..Len(a) /\ DOMAIN b = 1..Len(b) /\ DOMAIN s = 1..Len(a) + Len(b)
      /\ \A p \in 1..Len(a) : s[p] = a[p]
      /\ \A p \in 1..Len(b) : s[Len(a) + p] = b[p]
  BY <1>1, <1>2, <1>3, ConcatSequence
<1> HIDE DEF s
<1>5. ASSUME NEW x \in Range(s) PROVE x \in Range(a) \cup Range(b)
  <2>1. PICK p \in DOMAIN s : s[p] = x
    BY DEF Range
  <2>2. CASE p \in 1..Len(a)
    BY <1>4, <2>1, <2>2 DEF Range
  <2>3. CASE p \notin 1..Len(a)
    <3>1. p - Len(a) \in 1..Len(b) /\ Len(a) + (p - Len(a)) = p
      BY <1>2, <1>4, <2>1, <2>3
    <3>2. b[p - Len(a)] = x
      BY <1>4, <2>1, <3>1
    <3> QED BY <1>4, <3>1, <3>2 DEF Range
  <2> QED BY <2>2, <2>3
<1>6. ASSUME NEW x \in Range(a) PROVE x \in Range(s)
  <2>1. PICK p \in 1..Len(a) : a[p] = x
    BY <1>4 DEF Range
  <2>2. p \in DOMAIN s /\ s[p] = x
    BY <1>2, <1>4, <2>1
  <2> QED BY <2>2 DEF Range
<1>7. ASSUME NEW x \in Range(b) PROVE x \in Range(s)
  <2>1. PICK p \in 1..Len(b) : b[p] = x
    BY <1>4 DEF Range
  <2>2. Len(a) + p \in DOMAIN s /\ s[Len(a) + p] = x
    BY <1>2, <1>4, <2>1
  <2> QED BY <2>2 DEF Range
<1>8. Range(s) = Range(a) \cup Range(b)
  BY <1>5, <1>6, <1>7
<1>9. Mentions(g, W, i) = Select(s, W)
  BY DEF Mentions, s, a, b
<1>10. Select(s, W) \in Seq(Nat) /\ Range(Select(s, W)) = Range(s) \cap W
  BY <1>2, SelectIs
<1> QED BY <1>8, <1>9, <1>10 DEF a, b

LEMMA DeathsAre ==
  ASSUME NEW g \in GraphSet, NEW W, NEW i \in DOMAIN g.gates
  PROVE  /\ Deaths(g, W, i) \in Seq(Nat) /\ Distinct(Deaths(g, W, i))
         /\ \A w \in Range(Deaths(g, W, i)) :
              /\ w \in Range(Mentions(g, W, i))
              /\ \A j \in DOMAIN g.gates : w \in Range(Mentions(g, W, j)) => j <= i
<1> DEFINE all == [w \in DOMAIN g.wires |-> w]
           dying == {w \in Range(Mentions(g, W, i)) :
                       \A j \in DOMAIN g.gates : j > i => w \notin Range(Mentions(g, W, j))}
<1>1. Deaths(g, W, i) = Select(all, dying)
  BY DEF Deaths
<1>2. all \in Seq(Nat) /\ Distinct(all)
  BY GraphParts, CountIs
<1>3. \A w \in dying : /\ w \in Range(Mentions(g, W, i))
                       /\ \A j \in DOMAIN g.gates : w \in Range(Mentions(g, W, j)) => j <= i
  <2>1. DOMAIN g.gates \subseteq Nat
    BY GraphParts
  <2> QED BY <2>1
<1> HIDE DEF all, dying
<1>4. Select(all, dying) \in Seq(Nat) /\ Distinct(Select(all, dying)) /\ Range(Select(all, dying)) \subseteq dying
  BY <1>2, SelectIs
<1> QED BY <1>1, <1>3, <1>4

Mentioned(g, W, w, i) == w \in Range(Mentions(g, W, i))

(* All mentions of one wire are before all of the other. *)
Precedes(g, W, w, x) == \A i, j \in DOMAIN g.gates : Mentioned(g, W, w, i) /\ Mentioned(g, W, x, j) => i < j
Apart(g, W, w, x) == Precedes(g, W, w, x) \/ Precedes(g, W, x, w)

Over(g, W, w, k) == \A j \in DOMAIN g.gates : Mentioned(g, W, w, j) => j <= k

Bounded(s) == /\ \A w \in DOMAIN s.slot : s.slot[w] < s.n
              /\ \A x \in Range(s.free) : x < s.n
              /\ Distinct(s.free)

(* After k gates: what is free belongs to wires that are not mentioned any   *)
(* more, and of two wires that hold one slot, one was over before.           *)
SlotState(g, W, k, seen, s) ==
  /\ s \in SlotSet /\ Bounded(s) /\ DOMAIN s.slot = seen
  /\ \A w \in DOMAIN s.slot : s.slot[w] \in Range(s.free) => Over(g, W, w, k)
  /\ \A w, x \in DOMAIN s.slot : s.slot[w] = s.slot[x] => w = x \/ Apart(g, W, w, x)

Seen(g, W, k) == UNION {Range(Mentions(g, W, j)) : j \in 1..k}

LEMMA TakeStep ==
  ASSUME NEW g \in GraphSet, NEW W, NEW k \in Nat, k + 1 \in DOMAIN g.gates, NEW D, NEW s,
         SlotState(g, W, k, D, s), Seen(g, W, k) \subseteq D, NEW w, Mentioned(g, W, w, k + 1)
  PROVE  SlotState(g, W, k, D \cup {w}, TakeSlot(s, w))
<1> DEFINE t == TakeSlot(s, w)
<1>0. DOMAIN g.gates \subseteq Nat /\ \A j \in DOMAIN g.gates : j \in 1..k \/ k < j
  <2>1. DOMAIN g.gates = 1..Len(g.gates) /\ Len(g.gates) \in Nat
    BY GraphParts
  <2> QED BY <2>1
<1>1. w \in Nat
  BY MentionsAre DEF Range, Mentioned
<1>2. s \in SlotSet /\ Bounded(s) /\ DOMAIN s.slot = D
  BY DEF SlotState
<1>3. TakenOne(s, w, t)
  BY <1>1, <1>2, TakeOne
<1>4. \A x \in DOMAIN s.slot : s.slot[x] \in Nat
  BY <1>2, SlotParts
<1>5. s.n \in Nat /\ \A x \in Range(s.free) : x \in Nat
  BY <1>2, SlotParts DEF Range
<1> HIDE DEF t
<1>6. CASE w \in DOMAIN s.slot
  <2>1. t = s /\ D \cup {w} = D
    BY <1>2, <1>3, <1>6 DEF TakenOne
  <2> QED BY <2>1 DEF t
<1>7. CASE w \notin DOMAIN s.slot
  <2>1. \A j \in DOMAIN g.gates : Mentioned(g, W, w, j) => k < j
    <3>1. ASSUME NEW j \in 1..k, Mentioned(g, W, w, j) PROVE FALSE
      BY <1>2, <1>7, <3>1 DEF Seen, Mentioned
    <3> QED BY <1>0, <3>1
  <2>2. /\ t \in SlotSet /\ DOMAIN t.slot = D \cup {w} /\ \A x \in D : t.slot[x] = s.slot[x]
    BY <1>2, <1>3 DEF TakenOne
  <2>3. \A x, y \in D : t.slot[x] = t.slot[y] => x = y \/ Apart(g, W, x, y)
    BY <1>2, <2>2 DEF SlotState
  <2>4. CASE s.free = <<>>
    <3>1. t.slot[w] = s.n /\ t.n = s.n + 1 /\ t.free = <<>>
      BY <1>3, <1>7, <2>4 DEF TakenOne
    <3>2. Range(t.free) = {} /\ Distinct(t.free)
      BY <3>1 DEF Range, Distinct
    <3>3. \A x \in D : t.slot[x] < s.n
      BY <1>2, <2>2 DEF Bounded
    <3>4. Bounded(t)
      <4>1. ASSUME NEW x \in D \cup {w} PROVE t.slot[x] < t.n
        BY <1>2, <1>4, <1>5, <2>2, <3>1, <3>3, <4>1
      <4> QED BY <2>2, <3>2, <4>1 DEF Bounded
    <3>5. \A x \in D : t.slot[x] # t.slot[w]
      BY <1>2, <1>4, <1>5, <2>2, <3>1, <3>3
    <3>6. \A x, y \in D \cup {w} : t.slot[x] = t.slot[y] => x = y \/ Apart(g, W, x, y)
      BY <2>3, <3>5
    <3> HIDE DEF t
    <3>7. SlotState(g, W, k, D \cup {w}, t)
      BY <2>2, <3>2, <3>4, <3>6 DEF SlotState
    <3> QED BY <3>7 DEF t
  <2>5. CASE s.free # <<>>
    <3>1. /\ t.n = s.n /\ t.slot[w] \in Range(s.free) /\ Range(t.free) \subseteq Range(s.free)
          /\ Distinct(t.free) /\ t.slot[w] \notin Range(t.free)
      BY <1>2, <1>3, <1>7, <2>5 DEF TakenOne, Bounded
    <3>2. Bounded(t)
      BY <1>2, <2>2, <3>1 DEF Bounded
    <3>3. \A x \in D : s.slot[x] \in Range(s.free) => Over(g, W, x, k)
      BY <1>2 DEF SlotState
    <3>4. \A x \in D \cup {w} : t.slot[x] \in Range(t.free) => Over(g, W, x, k)
      BY <2>2, <3>1, <3>3
    <3>5. ASSUME NEW x \in D, t.slot[x] = t.slot[w] PROVE Apart(g, W, x, w) /\ Apart(g, W, w, x)
      <4>1. Over(g, W, x, k)
        BY <2>2, <3>1, <3>3, <3>5
      <4>2. Precedes(g, W, x, w)
        BY <1>0, <2>1, <4>1 DEF Over, Precedes
      <4> QED BY <4>2 DEF Apart
    <3>6. \A x, y \in D \cup {w} : t.slot[x] = t.slot[y] => x = y \/ Apart(g, W, x, y)
      BY <2>3, <3>5
    <3>7. SlotState(g, W, k, D \cup {w}, t)
      BY <2>2, <3>2, <3>4, <3>6 DEF SlotState
    <3> QED BY <3>7 DEF t
  <2> QED BY <2>4, <2>5
<1> QED BY <1>6, <1>7

LEMMA TakeAll ==
  ASSUME NEW g \in GraphSet, NEW W, NEW k \in Nat, k + 1 \in DOMAIN g.gates, NEW s,
         SlotState(g, W, k, Seen(g, W, k), s)
  PROVE  SlotState(g, W, k, Seen(g, W, k + 1), FoldLeft(TakeSlot, s, Mentions(g, W, k + 1)))
<1> DEFINE q == Mentions(g, W, k + 1)
           n == Len(q)
<1>1. q \in Seq(Nat) /\ s \in SlotSet
  BY MentionsAre DEF SlotState
<1>2. \A x : x \in Range(q) => Mentioned(g, W, x, k + 1)
  BY DEF Mentioned
<1>3. Seen(g, W, k + 1) = Seen(g, W, k) \cup Range(q)
  <2>1. 1..k + 1 = (1..k) \cup {k + 1}
    OBVIOUS
  <2> HIDE DEF q
  <2>2. Seen(g, W, k + 1) = Seen(g, W, k) \cup Range(Mentions(g, W, k + 1))
    BY <2>1 DEF Seen
  <2> QED BY <2>2 DEF q
<1> HIDE DEF q
<1>4. n \in Nat /\ DOMAIN q = 1..n /\ \A m \in 1..n : q[m] \in Range(q)
  BY <1>1 DEF Range
<1>5. PICK P \in [0..n -> SlotSet] : Taken(P, s, q)
  BY <1>1, TakeParts
<1>6. P[0] = s /\ FoldLeft(TakeSlot, s, q) = P[n] /\ \A m \in 0..n - 1 : P[m + 1] = TakeSlot(P[m], q[m + 1])
  BY <1>5 DEF Taken
<1> HIDE DEF n
<1> DEFINE First(m) == {q[p] : p \in 1..m}
           Good(m) == SlotState(g, W, k, Seen(g, W, k) \cup First(m), P[m])
           S == {m \in 0..n : Good(m)}
<1>7. 0 \in S
  <2>1. First(0) = {} /\ 0 \in 0..n
    BY <1>4
  <2>2. Seen(g, W, k) \cup First(0) = Seen(g, W, k)
    BY <2>1
  <2> HIDE DEF First
  <2> QED BY <1>6, <2>1, <2>2
<1>8. ASSUME NEW m \in Nat, m < n, m \in S PROVE m + 1 \in S
  <2>1. m \in 0..n - 1 /\ m \in 0..n /\ m + 1 \in 0..n /\ m + 1 \in 1..n
    BY <1>4, <1>8
  <2>2. Good(m)
    <3> HIDE DEF Good
    <3> QED BY <1>8
  <2>3. First(m + 1) = First(m) \cup {q[m + 1]}
    <3>1. 1..m + 1 = (1..m) \cup {m + 1}
      OBVIOUS
    <3> QED BY <3>1
  <2> HIDE DEF First
  <2>4. Mentioned(g, W, q[m + 1], k + 1)
    BY <1>2, <1>4, <2>1
  <2>5. SlotState(g, W, k, Seen(g, W, k) \cup First(m) \cup {q[m + 1]}, TakeSlot(P[m], q[m + 1]))
    <3>1. Seen(g, W, k) \subseteq Seen(g, W, k) \cup First(m)
      OBVIOUS
    <3> QED BY <2>2, <2>4, <3>1, TakeStep
  <2>6. P[m + 1] = TakeSlot(P[m], q[m + 1])
    BY <1>6, <2>1
  <2>7. Seen(g, W, k) \cup First(m) \cup {q[m + 1]} = Seen(g, W, k) \cup First(m + 1)
    BY <2>3
  <2>8. Good(m + 1)
    BY <2>5, <2>6, <2>7
  <2> HIDE DEF Good
  <2> QED BY <2>1, <2>8
<1>9. Good(n)
  <2> HIDE DEF S
  <2>1. \A m \in 0..n : m \in S
    BY <1>4, <1>7, <1>8, UpwardClosed
  <2> QED BY <1>4, <2>1 DEF S
<1>10. First(n) = Range(q)
  BY <1>4 DEF Range
<1> HIDE DEF First
<1>11. SlotState(g, W, k, Seen(g, W, k + 1), P[n])
  BY <1>3, <1>9, <1>10
<1> QED BY <1>6, <1>11 DEF q

(* Wires that one gate mentions are not apart. *)
LEMMA NeverApart ==
  ASSUME NEW g \in GraphSet, NEW W, NEW i \in DOMAIN g.gates, NEW w, NEW x,
         Mentioned(g, W, w, i), Mentioned(g, W, x, i)
  PROVE  ~Apart(g, W, w, x)
<1>1. ~(i < i)
  BY GraphParts
<1> QED BY <1>1 DEF Apart, Precedes

LEMMA GiveStep ==
  ASSUME NEW s \in SlotSet, NEW t \in SlotSet, t.slot = s.slot, t.n = s.n, Bounded(t), NEW w \in DOMAIN s.slot,
         s.slot[w] \notin Range(t.free)
  PROVE  /\ Bounded(GiveSlot(t, w)) /\ Range(GiveSlot(t, w).free) = Range(t.free) \cup {s.slot[w]}
<1> DEFINE u == GiveSlot(t, w)
<1>1. u \in SlotSet /\ u.slot = s.slot /\ u.n = s.n /\ u.free = Append(t.free, s.slot[w])
  BY GiveOne
<1>2. t.free \in Seq(Nat) /\ s.slot[w] \in Nat
  BY SlotParts
<1> HIDE DEF u
<1>3. /\ Range(u.free) = Range(t.free) \cup {s.slot[w]}
      /\ Distinct(t.free) /\ s.slot[w] \notin Range(t.free) => Distinct(u.free)
  BY <1>1, <1>2, AppendOne
<1>4. Bounded(u)
  <2>1. Distinct(u.free)
    BY <1>3 DEF Bounded
  <2>2. \A x \in DOMAIN u.slot : u.slot[x] < u.n
    BY <1>1 DEF Bounded
  <2>3. \A x \in Range(u.free) : x < u.n
    BY <1>1, <1>3 DEF Bounded
  <2> QED BY <2>1, <2>2, <2>3 DEF Bounded
<1> QED BY <1>3, <1>4 DEF u

LEMMA GiveAll ==
  ASSUME NEW g \in GraphSet, NEW W, NEW k \in Nat, k + 1 \in DOMAIN g.gates, NEW s,
         SlotState(g, W, k, Seen(g, W, k + 1), s)
  PROVE  SlotState(g, W, k + 1, Seen(g, W, k + 1), FoldLeft(GiveSlot, s, Deaths(g, W, k + 1)))
<1> DEFINE q == Deaths(g, W, k + 1)
           n == Len(q)
           T == {t \in SlotSet : t.slot = s.slot /\ t.n = s.n}
<1>1. q \in Seq(Nat) /\ Distinct(q) /\ s \in SlotSet /\ Bounded(s) /\ DOMAIN s.slot = Seen(g, W, k + 1)
  BY DeathsAre DEF SlotState
<1>2. \A x \in Range(q) : Mentioned(g, W, x, k + 1) /\ Over(g, W, x, k + 1)
  BY DeathsAre DEF Mentioned, Over
<1> HIDE DEF q
<1>3. \A x : Mentioned(g, W, x, k + 1) => x \in DOMAIN s.slot
  <2>1. k + 1 \in 1..k + 1
    OBVIOUS
  <2> QED BY <1>1, <2>1 DEF Mentioned, Seen
<1>4. Range(q) \subseteq DOMAIN s.slot
  BY <1>2, <1>3
<1>5. n \in Nat /\ DOMAIN q = 1..n /\ \A m \in 1..n : q[m] \in Range(q)
  BY <1>1 DEF Range
<1>6. PICK P \in [0..n -> T] : Given(P, s, q)
  BY <1>1, <1>4, GiveParts
<1>7. P[0] = s /\ FoldLeft(GiveSlot, s, q) = P[n] /\ \A m \in 0..n - 1 : P[m + 1] = GiveSlot(P[m], q[m + 1])
  BY <1>6 DEF Given
<1>8. \A m \in 0..n : P[m] \in SlotSet /\ P[m].slot = s.slot /\ P[m].n = s.n
  BY <1>6
<1> HIDE DEF n, T
<1>9. \A x \in DOMAIN s.slot : s.slot[x] \in Range(s.free) => Over(g, W, x, k)
  BY DEF SlotState
<1>10. \A x, y \in DOMAIN s.slot : s.slot[x] = s.slot[y] => x = y \/ Apart(g, W, x, y)
  BY DEF SlotState
<1> DEFINE Back(m) == {s.slot[q[p]] : p \in 1..m}
           Good(m) == Bounded(P[m]) /\ Range(P[m].free) = Range(s.free) \cup Back(m)
           S == {m \in 0..n : Good(m)}
<1>11. 0 \in S
  <2>1. Back(0) = {} /\ 0 \in 0..n
    BY <1>5
  <2> HIDE DEF Back
  <2> QED BY <1>1, <1>7, <2>1
<1>12. ASSUME NEW m \in Nat, m < n, m \in S PROVE m + 1 \in S
  <2>1. m \in 0..n - 1 /\ m \in 0..n /\ m + 1 \in 0..n /\ m + 1 \in 1..n
    BY <1>5, <1>12
  <2>2. Good(m)
    <3> HIDE DEF Good
    <3> QED BY <1>12
  <2>3. Back(m + 1) = Back(m) \cup {s.slot[q[m + 1]]}
    <3>1. 1..m + 1 = (1..m) \cup {m + 1}
      OBVIOUS
    <3> QED BY <3>1
  <2> DEFINE w == q[m + 1]
  <2>4. w \in DOMAIN s.slot /\ Mentioned(g, W, w, k + 1)
    BY <1>2, <1>4, <1>5, <2>1
  <2>5. s.slot[w] \notin Range(s.free)
    <3>1. ~(k + 1 <= k)
      OBVIOUS
    <3> QED BY <1>9, <2>4, <3>1 DEF Over
  <2>6. ASSUME NEW p \in 1..m, s.slot[q[p]] = s.slot[w] PROVE FALSE
    <3>1. p \in 1..n /\ p # m + 1
      BY <1>5, <1>12
    <3>2. q[p] # w
      BY <1>1, <1>5, <2>1, <3>1 DEF Distinct
    <3>3. q[p] \in DOMAIN s.slot /\ Mentioned(g, W, q[p], k + 1)
      BY <1>2, <1>4, <1>5, <3>1
    <3> HIDE DEF w
    <3>4. Apart(g, W, q[p], w)
      BY <1>10, <2>4, <2>6, <3>2, <3>3
    <3> QED BY <2>4, <3>3, <3>4, NeverApart
  <2>7. s.slot[w] \notin Range(P[m].free)
    BY <2>2, <2>5, <2>6
  <2>8. P[m + 1] = GiveSlot(P[m], w)
    BY <1>7, <2>1
  <2>9. P[m] \in SlotSet /\ P[m].slot = s.slot /\ P[m].n = s.n
    BY <1>8, <2>1
  <2> HIDE DEF w, Back
  <2>10. Bounded(P[m + 1]) /\ Range(P[m + 1].free) = Range(P[m].free) \cup {s.slot[w]}
    <3>1. Bounded(P[m]) /\ s \in SlotSet /\ w \in DOMAIN s.slot
      BY <1>1, <2>2, <2>4
    <3>2. Bounded(GiveSlot(P[m], w)) /\ Range(GiveSlot(P[m], w).free) = Range(P[m].free) \cup {s.slot[w]}
      BY ONLY <2>7, <2>9, <3>1, GiveStep
    <3> QED BY <2>8, <3>2
  <2>11. Good(m + 1)
    BY <2>2, <2>3, <2>10 DEF w
  <2> HIDE DEF Good
  <2> QED BY <2>1, <2>11
<1>13. Good(n)
  <2> HIDE DEF S
  <2>1. \A m \in 0..n : m \in S
    BY <1>5, <1>11, <1>12, UpwardClosed
  <2> QED BY <1>5, <2>1 DEF S
<1> DEFINE u == P[n]
<1>14. u \in SlotSet /\ u.slot = s.slot /\ u.n = s.n
  BY <1>5, <1>8
<1>15. ASSUME NEW w \in DOMAIN s.slot, s.slot[w] \in Range(u.free) PROVE Over(g, W, w, k + 1)
  <2>1. CASE s.slot[w] \in Range(s.free)
    <3>1. \A j \in DOMAIN g.gates : j <= k => j <= k + 1
      BY GraphParts
    <3> QED BY <1>9, <2>1, <3>1 DEF Over
  <2>2. CASE s.slot[w] \in Back(n)
    <3>1. PICK p \in 1..n : s.slot[q[p]] = s.slot[w]
      BY <2>2
    <3> DEFINE x == q[p]
    <3>2. x \in DOMAIN s.slot /\ Mentioned(g, W, x, k + 1) /\ Over(g, W, x, k + 1)
      BY <1>2, <1>4, <1>5
    <3> HIDE DEF x
    <3>3. CASE w = x
      BY <3>2, <3>3
    <3>4. CASE w # x
      <4>1. Apart(g, W, w, x)
        BY <1>10, <3>1, <3>2, <3>4 DEF x
      <4>2. PICK i \in 1..k + 1 : Mentioned(g, W, w, i)
        BY <1>1 DEF Seen, Mentioned
      <4>3. i \in DOMAIN g.gates /\ ~(k + 1 < i)
        <5>1. DOMAIN g.gates = 1..Len(g.gates) /\ Len(g.gates) \in Nat
          BY GraphParts
        <5> QED BY <5>1
      <4>4. Precedes(g, W, w, x)
        BY <3>2, <4>1, <4>2, <4>3 DEF Apart, Precedes
      <4>5. \A j \in DOMAIN g.gates : j < k + 1 => j <= k + 1
        BY GraphParts
      <4> QED BY <3>2, <4>4, <4>5 DEF Precedes, Over
    <3> QED BY <3>3, <3>4
  <2> QED BY <1>13, <1>15, <2>1, <2>2
<1> HIDE DEF u, Back
<1>16. SlotState(g, W, k + 1, Seen(g, W, k + 1), u)
  BY <1>1, <1>10, <1>13, <1>14, <1>15 DEF SlotState, u
<1> QED BY <1>7, <1>16 DEF q, u

(* A gate is visited. *)
LEMMA VisitStep ==
  ASSUME NEW g \in GraphSet, NEW W, NEW k \in Nat, k + 1 \in DOMAIN g.gates, NEW s,
         SlotState(g, W, k, Seen(g, W, k), s)
  PROVE  SlotState(g, W, k + 1, Seen(g, W, k + 1), VisitGate(g, W, s, k + 1))
BY TakeAll, GiveAll DEF VisitGate

LEMMA VisitTyped ==
  ASSUME NEW g \in GraphSet, NEW W, NEW i \in DOMAIN g.gates, NEW s \in SlotSet
  PROVE  VisitGate(g, W, s, i) \in SlotSet
<1> DEFINE q == Mentions(g, W, i)
           n == Len(q)
           t == FoldLeft(TakeSlot, s, q)
<1>1. q \in Seq(Nat)
  BY MentionsAre
<1>2. Deaths(g, W, i) \in Seq(Nat) /\ Range(Deaths(g, W, i)) \subseteq Range(q)
  BY DeathsAre
<1> HIDE DEF q
<1>3. n \in Nat /\ DOMAIN q = 1..n /\ \A m \in 1..n : q[m] \in Nat
  BY <1>1
<1>4. PICK P \in [0..n -> SlotSet] : Taken(P, s, q)
  BY <1>1, TakeParts
<1>5. t = P[n] /\ \A m \in 0..n - 1 : P[m + 1] = TakeSlot(P[m], q[m + 1])
  BY <1>4 DEF Taken
<1> HIDE DEF n, t
<1> DEFINE First(m) == {q[p] : p \in 1..m}
           S == {m \in 0..n : First(m) \subseteq DOMAIN P[m].slot}
<1>6. 0 \in S
  BY <1>3
<1>7. ASSUME NEW m \in Nat, m < n, m \in S PROVE m + 1 \in S
  <2>1. m \in 0..n - 1 /\ m \in 0..n /\ m + 1 \in 0..n /\ m + 1 \in 1..n
    BY <1>3, <1>7
  <2>2. DOMAIN P[m + 1].slot = DOMAIN P[m].slot \cup {q[m + 1]}
    <3>1. P[m] \in SlotSet /\ q[m + 1] \in Nat /\ P[m + 1] = TakeSlot(P[m], q[m + 1])
      BY <1>3, <1>4, <1>5, <2>1
    <3>2. TakenOne(P[m], q[m + 1], P[m + 1])
      BY ONLY <3>1, TakeOne
    <3> QED BY <3>2 DEF TakenOne
  <2>3. First(m + 1) = First(m) \cup {q[m + 1]}
    <3>1. 1..m + 1 = (1..m) \cup {m + 1}
      OBVIOUS
    <3> QED BY <3>1
  <2>4. First(m) \subseteq DOMAIN P[m].slot
    <3> HIDE DEF First
    <3> QED BY <1>7
  <2> HIDE DEF First
  <2> QED BY <2>1, <2>2, <2>3, <2>4
<1>8. Range(q) \subseteq DOMAIN t.slot /\ t \in SlotSet
  <2>1. First(n) \subseteq DOMAIN P[n].slot
    <3> HIDE DEF S
    <3>1. \A m \in 0..n : m \in S
      BY <1>3, <1>6, <1>7, UpwardClosed
    <3> QED BY <1>3, <3>1 DEF S
  <2>2. First(n) = Range(q)
    BY <1>3 DEF Range
  <2> HIDE DEF First
  <2> QED BY <1>3, <1>4, <1>5, <2>1, <2>2
<1>9. FoldLeft(GiveSlot, t, Deaths(g, W, i)) \in SlotSet
  <2> DEFINE d == Deaths(g, W, i)
             U == {x \in SlotSet : x.slot = t.slot /\ x.n = t.n}
  <2>1. \E Q \in [0..Len(d) -> U] : Given(Q, t, d)
    BY <1>2, <1>8, GiveParts
  <2>2. PICK Q : Q \in [0..Len(d) -> U] /\ Given(Q, t, d)
    BY <2>1
  <2>3. Len(d) \in 0..Len(d)
    BY <1>2
  <2>4. Q[Len(d)] \in U
    <3> HIDE DEF d, U
    <3> QED BY <2>2, <2>3
  <2> QED BY <2>2, <2>4 DEF Given
<1> QED BY <1>9 DEF VisitGate, t, q

Visited(P, g, W) ==
  /\ P[0] = NoSlots /\ Slots(g, W) = P[Len(g.gates)].slot
  /\ \A k \in 0..Len(g.gates) - 1 : P[k + 1] = VisitGate(g, W, P[k], k + 1)

LEMMA SlotsParts ==
  ASSUME NEW g \in GraphSet, NEW W
  PROVE  \E P \in [0..Len(g.gates) -> SlotSet] : Visited(P, g, W)
<1> DEFINE n == Len(g.gates)
           base == NoSlots
           s == [i \in DOMAIN g.gates |-> i]
           T == SlotSet
           G == [p \in T \X (1..n) |-> VisitGate(g, W, p[1], s[p[2]])]
           Is(it) == it = [d \in SUBSET (1..n) |->
                             IF d = {} THEN base ELSE VisitGate(g, W, it[d \ {Max(d)}], s[Max(d)])]
           it == CHOOSE x : Is(x)
<1>1. n \in Nat /\ DOMAIN g.gates = 1..n /\ DOMAIN s = 1..n /\ \A i \in 1..n : s[i] = i /\ i \in DOMAIN g.gates
  BY GraphParts
<1>2. Slots(g, W) = it[1..n].slot
  BY <1>1 DEF Slots, FoldLeft, MapThenFoldSet, NoSlots
<1>3. \A v \in T : \A i \in 1..n : VisitGate(g, W, v, s[i]) \in T
  BY <1>1, VisitTyped
<1>4. base \in T
  <2>1. <<>> \in [{} -> Nat] /\ {} \in SUBSET Nat
    OBVIOUS
  <2>2. <<>> \in SlotMaps
    BY <2>1 DEF SlotMaps
  <2> QED BY <2>2 DEF SlotSet, NoSlots
<1> HIDE DEF n, T, s, base
<1>5. G \in [T \X (1..n) -> T]
  BY <1>3
<1>6. PICK x \in [SUBSET (1..n) -> T] : FoldsBy(x, n, base, G)
  <2> HIDE DEF G
  <2> QED BY <1>1, <1>4, <1>5, FoldExists
<1>7. Is(x)
  <2>1. ASSUME NEW d \in SUBSET (1..n), d # {}
        PROVE  x[d] = VisitGate(g, W, x[d \ {Max(d)}], s[Max(d)])
    <3>1. Max(d) \in 1..n /\ x[d \ {Max(d)}] \in T
      BY <1>1, <2>1, FoldTop
    <3>2. G[<<x[d \ {Max(d)}], Max(d)>>] = VisitGate(g, W, x[d \ {Max(d)}], s[Max(d)])
      BY <3>1
    <3> HIDE DEF G
    <3> QED BY <1>6, <2>1, <3>2 DEF FoldsBy
  <2>2. x[{}] = base
    BY <1>6 DEF FoldsBy
  <2> QED BY <1>6, <2>1, <2>2
<1>8. Is(it)
  <2> HIDE DEF Is
  <2> QED BY <1>7
<1> HIDE DEF it
<1>9. it[1..0] = base /\ \A k \in 0..n - 1 : it[1..k + 1] = VisitGate(g, W, it[1..k], s[k + 1])
  <2>1. \A d \in SUBSET (1..n) : it[d] = IF d = {} THEN base ELSE VisitGate(g, W, it[d \ {Max(d)}], s[Max(d)])
    BY <1>8
  <2>2. ASSUME NEW k \in 0..n - 1 PROVE it[1..k + 1] = VisitGate(g, W, it[1..k], s[k + 1])
    <3>1. n \in Nat
      BY <1>1
    <3> QED BY ONLY <2>1, <3>1, PrefixMax, k \in 0..n - 1
  <2>3. 1..0 = {}
    BY <1>1
  <2> QED BY <2>1, <2>2, <2>3
<1> DEFINE P == [k \in 0..n |-> it[1..k]]
<1>10. \A k \in 0..n : it[1..k] \in T
  <2> DEFINE S == {k \in 0..n : it[1..k] \in T}
  <2>1. 0 \in S
    <3>1. 0 \in 0..n /\ it[1..0] \in T
      BY <1>1, <1>4, <1>9
    <3> QED BY <3>1
  <2>2. ASSUME NEW k \in Nat, k < n, k \in S PROVE k + 1 \in S
    <3>1. k \in 0..n - 1 /\ k + 1 \in 1..n /\ k + 1 \in 0..n /\ it[1..k] \in T
      BY <1>1, <2>2
    <3>2. it[1..k + 1] \in T
      BY <1>3, <1>9, <3>1
    <3> QED BY <3>1, <3>2
  <2> HIDE DEF S
  <2>3. \A k \in 0..n : k \in S
    BY <1>1, <2>1, <2>2, UpwardClosed
  <2> QED BY <2>3 DEF S
<1>11. P \in [0..n -> T]
  BY <1>10
<1>12. P[0] = base /\ P[n] = it[1..n] /\ \A k \in 0..n - 1 : P[k + 1] = VisitGate(g, W, P[k], s[k + 1])
  BY <1>1, <1>9
<1> HIDE DEF P
<1>13. \A k \in 0..n - 1 : s[k + 1] = k + 1
  BY <1>1
<1>14. \A k \in 0..n - 1 : P[k + 1] = VisitGate(g, W, P[k], k + 1)
  BY <1>12, <1>13
<1>15. Slots(g, W) = P[n].slot
  BY <1>2, <1>12
<1> QED BY <1>11, <1>12, <1>14, <1>15 DEF Visited, n, T, base

(* The scratch slots: every mentioned wire has one, and two that have the    *)
(* same are never needed at once.                                            *)
SlotsGood(g, W, slot) ==
  /\ \A i \in DOMAIN g.gates : \A w : Mentioned(g, W, w, i) => w \in DOMAIN slot
  /\ \A w, x \in DOMAIN slot : slot[w] = slot[x] => w = x \/ Apart(g, W, w, x)

LEMMA SlotsAre ==
  ASSUME NEW g \in GraphSet, NEW W
  PROVE  SlotsGood(g, W, Slots(g, W))
<1> DEFINE n == Len(g.gates)
<1>1. n \in Nat /\ DOMAIN g.gates = 1..n
  BY GraphParts
<1>2. PICK P \in [0..n -> SlotSet] : Visited(P, g, W)
  BY SlotsParts
<1>3. P[0] = NoSlots /\ Slots(g, W) = P[n].slot /\ \A k \in 0..n - 1 : P[k + 1] = VisitGate(g, W, P[k], k + 1)
  BY <1>2 DEF Visited
<1> HIDE DEF n
<1> DEFINE Good(k) == SlotState(g, W, k, Seen(g, W, k), P[k])
           S == {k \in 0..n : Good(k)}
<1>4. 0 \in S
  <2>1. 0 \in 0..n /\ P[0] \in SlotSet
    BY <1>1, <1>2
  <2>2. Seen(g, W, 0) = {}
    BY DEF Seen
  <2>3. NoSlots.free = <<>> /\ NoSlots.slot = <<>>
    BY DEF NoSlots
  <2>4. DOMAIN NoSlots.slot = {} /\ Range(NoSlots.free) = {} /\ Distinct(NoSlots.free)
    BY <2>3 DEF Range, Distinct
  <2>5. Good(0)
    BY <1>3, <2>1, <2>2, <2>4 DEF SlotState, Bounded
  <2> HIDE DEF Good
  <2> QED BY <2>1, <2>5
<1>5. ASSUME NEW k \in Nat, k < n, k \in S PROVE k + 1 \in S
  <2>1. k \in 0..n - 1 /\ k + 1 \in 0..n /\ k + 1 \in DOMAIN g.gates /\ Good(k)
    BY <1>1, <1>5
  <2>2. Good(k + 1)
    BY <1>3, <2>1, VisitStep
  <2> HIDE DEF Good
  <2> QED BY <2>1, <2>2
<1>6. SlotState(g, W, n, Seen(g, W, n), P[n])
  <2> HIDE DEF S
  <2>1. \A k \in 0..n : k \in S
    BY <1>1, <1>4, <1>5, UpwardClosed
  <2> QED BY <1>1, <2>1 DEF S
<1>7. \A i \in DOMAIN g.gates : \A w : Mentioned(g, W, w, i) => w \in Seen(g, W, n)
  BY <1>1 DEF Seen, Mentioned
<1> QED BY <1>3, <1>6, <1>7 DEF SlotState, SlotsGood
------------------------------------------------------------------------------
(* The evaluation form's run *)
Registers == {Register(w) : w \in DOMAIN graph.wires}
RunSet    == [mem : [Registers -> Words], failing : SUBSET Gates]

Fetched(m, i) == [k \in DOMAIN graph.gates[i].ins |-> m[Register(graph.gates[i].ins[k])]]
Targets(i, r) == {k \in DOMAIN graph.gates[i].outs : Register(graph.gates[i].outs[k]) = r}

StartMem(f) == [r \in Registers |->
  LET w == r[2]
  IN  IF r[1] = "slot" THEN Zero
      ELSE IF IsConst(graph, w) THEN graph.wires[w].word
      ELSE IF w \in Declared THEN f[w] ELSE Zero]
StartRun(f) == [mem |-> StartMem(f), failing |-> {}]

RanMem(s, i) == [r \in DOMAIN s.mem |->
  IF Targets(i, r) = {} THEN s.mem[r]
  ELSE Result(graph.gates[i].op, Fetched(s.mem, i))[CHOOSE k \in Targets(i, r) : TRUE]]
Ran(s, i) ==
  [mem |-> RanMem(s, i),
   failing |-> IF Holds(graph.gates[i].op, Fetched(s.mem, i)) THEN s.failing ELSE s.failing \cup {i}]

Evaluated(P, f) ==
  /\ P[0] = StartRun(f) /\ Evaluate(f) = P[Len(graph.gates)]
  /\ \A k \in 0..Len(graph.gates) - 1 : P[k + 1] = Ran(P[k], k + 1)

LEMMA StartMemTyped ==
  ASSUME GraphOK(graph), NEW f \in Assignments(Declared)
  PROVE  /\ StartMem(f) \in [Registers -> Words]
         /\ \A w \in DOMAIN graph.wires \ scratch : StartMem(f)[Register(w)] = StartValue(graph, f, w)
<1>1. Typed(f) /\ DOMAIN f = Declared
  BY AssignmentTyped DEF Assignments
<1>2. \A w \in DOMAIN graph.wires : StartValue(graph, f, w) \in Words
  BY <1>1, StartTyped DEF GraphOK
<1>3. \A w \in DOMAIN graph.wires \ scratch : StartMem(f)[Register(w)] = StartValue(graph, f, w)
  <2> SUFFICES ASSUME NEW w \in DOMAIN graph.wires, w \notin scratch
               PROVE  StartMem(f)[Register(w)] = StartValue(graph, f, w)
    OBVIOUS
  <2>1. Register(w) \in Registers
    BY DEF Registers
  <2>2. Register(w)[1] = "value" /\ Register(w)[2] = w
    BY DEF Register
  <2> QED BY <1>1, <2>1, <2>2 DEF StartMem, StartValue
<1>4. ASSUME NEW r \in Registers PROVE StartMem(f)[r] \in Words
  <2>1. PICK w \in DOMAIN graph.wires : r = Register(w)
    BY DEF Registers
  <2>2. CASE w \in scratch
    <3>1. r[1] = "slot"
      BY <2>1, <2>2 DEF Register
    <3>2. StartMem(f)[r] = Zero
      BY <3>1 DEF StartMem
    <3> QED BY <3>2, WordsKept
  <2>3. CASE w \notin scratch
    BY <1>2, <1>3, <2>1, <2>3
  <2> QED BY <2>2, <2>3
<1>5. StartMem(f) = [r \in Registers |-> StartMem(f)[r]]
  BY DEF StartMem
<1> QED BY <1>3, <1>4, <1>5

LEMMA RanTyped ==
  ASSUME GraphOK(graph), NEW s \in RunSet, NEW i \in Gates
  PROVE  Ran(s, i) \in RunSet
<1>1. /\ graph.gates[i].op \in Ops /\ DOMAIN graph.gates[i].outs = 1..NOut(graph.gates[i].op)
      /\ DOMAIN graph.gates[i].ins = 1..NIn(graph.gates[i].op)
      /\ \A k \in DOMAIN graph.gates[i].ins : graph.gates[i].ins[k] \in DOMAIN graph.wires
  BY GateParts DEF Gates
<1>2. s.mem \in [Registers -> Words] /\ s.failing \subseteq Gates
  BY DEF RunSet
<1>3. Fetched(s.mem, i) \in [1..NIn(graph.gates[i].op) -> Words]
  BY <1>1, <1>2 DEF Fetched, Registers
<1> DEFINE out == Result(graph.gates[i].op, Fetched(s.mem, i))
<1>4. \A k \in DOMAIN graph.gates[i].outs : out[k] \in Words
  BY <1>1, <1>3, ResultTyped
<1> HIDE DEF out
<1>5. ASSUME NEW r \in Registers
      PROVE  (IF Targets(i, r) = {} THEN s.mem[r] ELSE out[CHOOSE k \in Targets(i, r) : TRUE]) \in Words
  <2>1. CASE Targets(i, r) = {}
    BY <1>2, <2>1
  <2>2. CASE Targets(i, r) # {}
    <3>1. (CHOOSE k \in Targets(i, r) : TRUE) \in Targets(i, r)
      BY <2>2
    <3>2. Targets(i, r) \subseteq DOMAIN graph.gates[i].outs
      BY DEF Targets
    <3> QED BY <1>4, <2>2, <3>1, <3>2
  <2> QED BY <2>1, <2>2
<1>6. RanMem(s, i) \in [Registers -> Words]
  BY <1>2, <1>5 DEF RanMem, out
<1> QED BY <1>2, <1>6 DEF Ran, RunSet

LEMMA EvaluateParts ==
  ASSUME GraphOK(graph), NEW f \in Assignments(Declared)
  PROVE  \E P \in [0..Len(graph.gates) -> RunSet] : Evaluated(P, f)
<1> DEFINE n == Len(graph.gates)
           base == StartRun(f)
           s == [i \in DOMAIN graph.gates |-> i]
           T == RunSet
           G == [p \in T \X (1..n) |-> Ran(p[1], s[p[2]])]
           Is(it) == it = [d \in SUBSET (1..n) |->
                             IF d = {} THEN base ELSE Ran(it[d \ {Max(d)}], s[Max(d)])]
           it == CHOOSE x : Is(x)
<1>1. n \in Nat /\ Gates = 1..n /\ DOMAIN s = 1..n /\ \A i \in 1..n : s[i] = i /\ i \in Gates
  BY GraphParts DEF GraphOK, Gates
<1>2. Evaluate(f) = it[1..n]
  BY <1>1 DEF Evaluate, FoldLeft, MapThenFoldSet, StartRun, StartMem, Ran, RanMem, Fetched, Targets, Registers, Gates
<1>3. \A v \in T : \A i \in 1..n : Ran(v, s[i]) \in T
  BY <1>1, RanTyped
<1>4. base \in T
  BY StartMemTyped DEF StartRun, RunSet
<1> HIDE DEF n, T, s, base
<1>5. G \in [T \X (1..n) -> T]
  BY <1>3
<1>6. PICK x \in [SUBSET (1..n) -> T] : FoldsBy(x, n, base, G)
  <2> HIDE DEF G
  <2> QED BY <1>1, <1>4, <1>5, FoldExists
<1>7. Is(x)
  <2>1. ASSUME NEW d \in SUBSET (1..n), d # {}
        PROVE  x[d] = Ran(x[d \ {Max(d)}], s[Max(d)])
    <3>1. Max(d) \in 1..n /\ x[d \ {Max(d)}] \in T
      BY <1>1, <2>1, FoldTop
    <3>2. G[<<x[d \ {Max(d)}], Max(d)>>] = Ran(x[d \ {Max(d)}], s[Max(d)])
      BY <3>1
    <3> HIDE DEF G
    <3> QED BY <1>6, <2>1, <3>2 DEF FoldsBy
  <2>2. x[{}] = base
    BY <1>6 DEF FoldsBy
  <2> QED BY <1>6, <2>1, <2>2
<1>8. Is(it)
  <2> HIDE DEF Is
  <2> QED BY <1>7
<1> HIDE DEF it
<1>9. it[1..0] = base /\ \A k \in 0..n - 1 : it[1..k + 1] = Ran(it[1..k], s[k + 1])
  <2>1. \A d \in SUBSET (1..n) : it[d] = IF d = {} THEN base ELSE Ran(it[d \ {Max(d)}], s[Max(d)])
    BY <1>8
  <2>2. ASSUME NEW k \in 0..n - 1 PROVE it[1..k + 1] = Ran(it[1..k], s[k + 1])
    <3>1. n \in Nat
      BY <1>1
    <3> QED BY ONLY <2>1, <3>1, PrefixMax, k \in 0..n - 1
  <2>3. 1..0 = {}
    BY <1>1
  <2> QED BY <2>1, <2>2, <2>3
<1> DEFINE P == [k \in 0..n |-> it[1..k]]
<1>10. \A k \in 0..n : it[1..k] \in T
  <2> DEFINE S == {k \in 0..n : it[1..k] \in T}
  <2>1. 0 \in S
    <3>1. 0 \in 0..n /\ it[1..0] \in T
      BY <1>1, <1>4, <1>9
    <3> QED BY <3>1
  <2>2. ASSUME NEW k \in Nat, k < n, k \in S PROVE k + 1 \in S
    <3>1. k \in 0..n - 1 /\ k + 1 \in 1..n /\ k + 1 \in 0..n /\ it[1..k] \in T
      BY <1>1, <2>2
    <3>2. it[1..k + 1] \in T
      BY <1>3, <1>9, <3>1
    <3> QED BY <3>1, <3>2
  <2> HIDE DEF S
  <2>3. \A k \in 0..n : k \in S
    BY <1>1, <2>1, <2>2, UpwardClosed
  <2> QED BY <2>3 DEF S
<1>11. P \in [0..n -> T]
  BY <1>10
<1>12. P[0] = base /\ P[n] = it[1..n] /\ \A k \in 0..n - 1 : P[k + 1] = Ran(P[k], s[k + 1])
  BY <1>1, <1>9
<1> HIDE DEF P
<1>13. \A k \in 0..n - 1 : s[k + 1] = k + 1
  BY <1>1
<1>14. \A k \in 0..n - 1 : P[k + 1] = Ran(P[k], k + 1)
  BY <1>12, <1>13
<1> QED BY <1>2, <1>11, <1>12, <1>14 DEF Evaluated, n, T, base

(* A wire's register is its own, or shared with wires it is apart from. *)
Shared == \A w, x \in DOMAIN graph.wires :
  Register(w) = Register(x) => \/ w = x
                               \/ w \in scratch /\ x \in scratch /\ Apart(graph, scratch, w, x)

LEMMA ScratchMentioned ==
  ASSUME GraphOK(graph), NEW i \in Gates, NEW w \in scratch
  PROVE  Mentioned(graph, scratch, w, i) <=> w \in Range(graph.gates[i].ins) \cup Range(graph.gates[i].outs)
BY MentionsAre DEF GraphOK, Gates, Mentioned

LEMMA ScratchMade ==
  ASSUME GraphOK(graph), scratch \subseteq Internal, NEW w \in scratch
  PROVE  \E j \in Gates : w \in Range(graph.gates[j].outs) /\ Mentioned(graph, scratch, w, j)
<1>1. PICK j \in DOMAIN graph.gates : \E k \in DOMAIN graph.gates[j].outs : w = graph.gates[j].outs[k]
  BY DEF Internal, GraphOK, InternalMade
<1>2. w \in Range(graph.gates[j].outs)
  BY <1>1 DEF Range
<1> QED BY <1>2, ScratchMentioned DEF Gates

LEMMA SlotsShared ==
  ASSUME GraphOK(graph), scratch \subseteq Internal, slots = Slots(graph, scratch)
  PROVE  Shared
<1>1. SlotsGood(graph, scratch, slots)
  BY SlotsAre DEF GraphOK
<1>2. \A w \in scratch : w \in DOMAIN slots
  <2> SUFFICES ASSUME NEW w \in scratch PROVE w \in DOMAIN slots
    OBVIOUS
  <2>1. PICK j \in Gates : Mentioned(graph, scratch, w, j)
    BY ScratchMade
  <2> QED BY <1>1, <2>1 DEF SlotsGood, Gates
<1> SUFFICES ASSUME NEW w \in DOMAIN graph.wires, NEW x \in DOMAIN graph.wires,
                    Register(w) = Register(x), w # x
             PROVE  w \in scratch /\ x \in scratch /\ Apart(graph, scratch, w, x)
  BY DEF Shared
<1>3. w \in scratch /\ x \in scratch /\ slots[w] = slots[x]
  BY DEF Register
<1> QED BY <1>1, <1>2, <1>3 DEF SlotsGood

(* After k gates: the registers hold the values of the wires made by then,   *)
(* those of the scratch wires until they are mentioned no more.              *)
MadeUpto(w, k) == \A j \in Gates : w \in Range(graph.gates[j].outs) => j <= k
Wanted(w, k)   == w \in scratch => \E j \in Gates : k < j /\ Mentioned(graph, scratch, w, j)
RunState(v, k, s) ==
  /\ s \in RunSet
  /\ \A w \in DOMAIN graph.wires : MadeUpto(w, k) /\ Wanted(w, k) => s.mem[Register(w)] = v[w]
  /\ \A i \in Gates : i \in s.failing <=> i <= k /\ ~Holds(graph.gates[i].op, Read(graph, i, v))

LEMMA RunStart ==
  ASSUME GraphOK(graph), scratch \subseteq Internal, NEW f \in Assignments(Declared), NEW v, Fits(graph, f, v)
  PROVE  RunState(v, 0, StartRun(f))
<1> DEFINE s == StartRun(f)
<1>1. s.mem = StartMem(f) /\ s.failing = {} /\ s = [mem |-> StartMem(f), failing |-> {}]
  BY DEF StartRun
<1> HIDE DEF s
<1>2. s \in RunSet
  BY <1>1, StartMemTyped DEF RunSet
<1>3. Gates \subseteq Nat \ {0}
  <2>1. Gates = 1..Len(graph.gates) /\ Len(graph.gates) \in Nat
    BY GraphParts DEF GraphOK, Gates
  <2> QED BY <2>1
<1>4. ASSUME NEW w \in DOMAIN graph.wires, MadeUpto(w, 0) PROVE s.mem[Register(w)] = v[w]
  <2>1. \A j \in Gates : w \notin Range(graph.gates[j].outs)
    BY <1>3, <1>4 DEF MadeUpto
  <2>2. w \notin scratch
    BY <2>1, ScratchMade
  <2>3. v[w] = StartValue(graph, f, w)
    BY <2>1 DEF Fits, Sound, MadeBy, Gates
  <2> QED BY <1>1, <2>2, <2>3, StartMemTyped
<1>5. \A i \in Gates : i \in s.failing <=> i <= 0 /\ ~Holds(graph.gates[i].op, Read(graph, i, v))
  BY <1>1, <1>3
<1> QED BY <1>2, <1>4, <1>5 DEF RunState, s

LEMMA RunStep ==
  ASSUME GraphOK(graph), scratch \subseteq Internal, Shared,
         NEW f, NEW v, Fits(graph, f, v), NEW k \in Nat, k + 1 \in Gates, NEW s, RunState(v, k, s)
  PROVE  RunState(v, k + 1, Ran(s, k + 1))
<1> DEFINE i == k + 1
           gate == graph.gates[i]
           t == Ran(s, i)
           out == Result(gate.op, Fetched(s.mem, i))
<1>1. /\ i \in Gates /\ i \in Nat /\ graph \in GraphSet /\ Gates \subseteq Nat /\ i \in DOMAIN graph.gates
      /\ \A j \in Gates : j <= i <=> j <= k \/ j = i
      /\ \A j \in Gates : j < i => j <= k
      /\ \A j \in Gates : i < j => k < j
      /\ \A j \in Gates : i < j => ~(j < i) /\ ~(j <= i)
      /\ ~(i <= k) /\ k < i /\ ~(i < i)
  <2>1. Gates = 1..Len(graph.gates) /\ Len(graph.gates) \in Nat
    BY GraphParts DEF GraphOK, Gates
  <2> QED BY <2>1 DEF GraphOK, Gates
<1>2. /\ s \in RunSet
      /\ \A w \in DOMAIN graph.wires : MadeUpto(w, k) /\ Wanted(w, k) => s.mem[Register(w)] = v[w]
      /\ \A j \in Gates : j \in s.failing <=> j <= k /\ ~Holds(graph.gates[j].op, Read(graph, j, v))
  BY DEF RunState
<1>3. t \in RunSet
  BY <1>2, RanTyped
<1>4. /\ \A n \in DOMAIN gate.ins : gate.ins[n] \in DOMAIN graph.wires /\ Ready(graph, gate.ins[n], i)
      /\ \A n \in DOMAIN gate.outs : gate.outs[n] \in DOMAIN graph.wires
  BY <1>1, GateParts
<1>5. /\ t.mem = RanMem(s, i)
      /\ t.failing = IF Holds(gate.op, Fetched(s.mem, i)) THEN s.failing ELSE s.failing \cup {i}
  BY DEF Ran
<1>6. \A r \in Registers : t.mem[r] = IF Targets(i, r) = {} THEN s.mem[r] ELSE out[CHOOSE n \in Targets(i, r) : TRUE]
  BY <1>2, <1>5 DEF RanMem, RunSet
<1> HIDE DEF i, t
<1>7. Fetched(s.mem, i) = Read(graph, i, v)
  <2> SUFFICES ASSUME NEW n \in DOMAIN gate.ins PROVE s.mem[Register(gate.ins[n])] = v[gate.ins[n]]
    BY DEF Fetched, Read
  <2> DEFINE w == gate.ins[n]
  <2>1. w \in DOMAIN graph.wires /\ Ready(graph, w, i) /\ w \in Range(gate.ins)
    BY <1>4 DEF Range
  <2> HIDE DEF w
  <2>2. MadeUpto(w, k)
    BY <1>1, <2>1 DEF MadeUpto, Ready, Gates
  <2>3. Wanted(w, k)
    BY <1>1, <2>1, ScratchMentioned DEF Wanted
  <2>4. s.mem[Register(w)] = v[w]
    BY <1>2, <2>1, <2>2, <2>3
  <2> QED BY <2>4 DEF w
<1>8. \A n \in DOMAIN gate.outs : v[gate.outs[n]] = out[n]
  BY <1>1, <1>7 DEF Fits, Sound
<1> HIDE DEF out
<1>9. ASSUME NEW w \in DOMAIN graph.wires, MadeUpto(w, i), Wanted(w, i) PROVE t.mem[Register(w)] = v[w]
  <2>0. Register(w) \in Registers
    BY DEF Registers
  <2>1. CASE w \in Range(gate.outs)
    <3>1. PICK n \in DOMAIN gate.outs : w = gate.outs[n]
      BY <2>1 DEF Range
    <3>2. ASSUME NEW m \in Targets(i, Register(w)) PROVE m = n
      <4>1. m \in DOMAIN gate.outs /\ Register(gate.outs[m]) = Register(w)
        BY DEF Targets
      <4> DEFINE x == gate.outs[m]
      <4>2. x \in Range(gate.outs) /\ x \in DOMAIN graph.wires /\ Register(x) = Register(w)
        BY <1>4, <4>1 DEF Range
      <4>3. x = w
        <5> HIDE DEF x
        <5> SUFFICES ASSUME x # w PROVE FALSE
          OBVIOUS
        <5>1. x \in scratch /\ w \in scratch /\ Apart(graph, scratch, x, w)
          BY <4>2 DEF Shared
        <5>2. Mentioned(graph, scratch, x, i) /\ Mentioned(graph, scratch, w, i)
          BY <1>1, <2>1, <4>2, <5>1, ScratchMentioned
        <5> QED BY <1>1, <5>1, <5>2, NeverApart
      <4> QED BY <1>1, <3>1, <4>1, <4>3 DEF GraphOK, MadeOnce
    <3>3. n \in Targets(i, Register(w))
      BY <3>1 DEF Targets
    <3>4. (CHOOSE m \in Targets(i, Register(w)) : TRUE) = n /\ Targets(i, Register(w)) # {}
      BY <3>2, <3>3
    <3> QED BY <1>6, <1>8, <2>0, <3>1, <3>4
  <2>2. CASE w \notin Range(gate.outs)
    <3>1. MadeUpto(w, k)
      BY <1>1, <1>9, <2>2 DEF MadeUpto
    <3>2. Wanted(w, k)
      BY <1>1, <1>9 DEF Wanted
    <3>3. ASSUME NEW m \in Targets(i, Register(w)) PROVE FALSE
      <4>1. m \in DOMAIN gate.outs /\ Register(gate.outs[m]) = Register(w)
        BY DEF Targets
      <4> DEFINE x == gate.outs[m]
      <4>2. x \in Range(gate.outs) /\ x \in DOMAIN graph.wires /\ Register(x) = Register(w)
        BY <1>4, <4>1 DEF Range
      <4> HIDE DEF x
      <4>3. x \in scratch /\ w \in scratch /\ Apart(graph, scratch, x, w)
        BY <2>2, <4>2 DEF Shared
      <4>4. Mentioned(graph, scratch, x, i)
        BY <1>1, <4>2, <4>3, ScratchMentioned
      <4>5. PICK j \in Gates : i < j /\ Mentioned(graph, scratch, w, j)
        BY <1>9, <4>3 DEF Wanted
      <4>6. PICK h \in Gates : w \in Range(graph.gates[h].outs) /\ Mentioned(graph, scratch, w, h)
        BY <4>3, ScratchMade
      <4>7. h <= i /\ h \in Nat
        BY <1>1, <1>9, <4>6 DEF MadeUpto
      <4>8. CASE Precedes(graph, scratch, w, x)
        <5>1. j < i
          BY <1>1, <4>4, <4>5, <4>8 DEF Precedes, Gates
        <5> QED BY <1>1, <4>5, <5>1
      <4>9. CASE Precedes(graph, scratch, x, w)
        <5>1. i < h
          BY <1>1, <4>4, <4>6, <4>9 DEF Precedes, Gates
        <5> QED BY <1>1, <4>7, <5>1
      <4> QED BY <4>3, <4>8, <4>9 DEF Apart
    <3>4. Targets(i, Register(w)) = {}
      BY <3>3
    <3> QED BY <1>2, <1>6, <2>0, <3>1, <3>2, <3>4
  <2> QED BY <2>1, <2>2
<1>10. ASSUME NEW j \in Gates
       PROVE  j \in t.failing <=> j <= i /\ ~Holds(graph.gates[j].op, Read(graph, j, v))
  <2>1. CASE j = i
    <3>1. i \notin s.failing /\ i <= i
      BY <1>1, <1>2
    <3> QED BY <1>5, <1>7, <2>1, <3>1
  <2>2. CASE j # i
    BY <1>1, <1>2, <1>5, <2>2
  <2> QED BY <2>1, <2>2
<1> QED BY <1>3, <1>9, <1>10 DEF RunState, t, i

LEMMA EvaluateIs ==
  ASSUME GraphOK(graph), scratch \subseteq Internal, Shared,
         NEW f \in Assignments(Declared), NEW v, Fits(graph, f, v)
  PROVE  RunState(v, Len(graph.gates), Evaluate(f))
<1> DEFINE n == Len(graph.gates)
<1>1. n \in Nat /\ Gates = 1..n
  BY GraphParts DEF GraphOK, Gates
<1>2. PICK P \in [0..n -> RunSet] : Evaluated(P, f)
  BY EvaluateParts
<1>3. P[0] = StartRun(f) /\ Evaluate(f) = P[n] /\ \A k \in 0..n - 1 : P[k + 1] = Ran(P[k], k + 1)
  BY <1>2 DEF Evaluated
<1> HIDE DEF n
<1> DEFINE S == {k \in 0..n : RunState(v, k, P[k])}
<1>4. 0 \in S
  BY <1>1, <1>3, RunStart
<1>5. ASSUME NEW k \in Nat, k < n, k \in S PROVE k + 1 \in S
  <2>1. k \in 0..n - 1 /\ k + 1 \in 0..n /\ k + 1 \in Gates /\ RunState(v, k, P[k])
    BY <1>1, <1>5
  <2>2. RunState(v, k + 1, Ran(P[k], k + 1))
    BY <2>1, RunStep
  <2> QED BY <1>3, <2>1, <2>2
<1>6. RunState(v, n, P[n])
  <2> HIDE DEF S
  <2>1. \A k \in 0..n : k \in S
    BY <1>1, <1>4, <1>5, UpwardClosed
  <2> QED BY <1>1, <2>1 DEF S
<1> QED BY <1>3, <1>6 DEF n

(* SlotsHold: however many wires share a slot, the evaluation form leaves    *)
(* every committed wire the value it has when each wire has a register of    *)
(* its own, and finds the same assertions to fail: a slot is given back only *)
(* after the last gate that mentions its wire (scratch_alloc.rs;             *)
(* eval_form/mod.rs).                                                        *)
THEOREM SlotsNeverCollide == Spec => []SlotsHold
<1>1. CompilerInv => SlotsHold
  <2> SUFFICES ASSUME CompilerInv, stage = "done", NEW f \in Assignments(Declared)
               PROVE  LET v == Values(graph, Gates, f)
                          s == Evaluate(f)
                      IN  /\ \A w \in DOMAIN graph.wires \ scratch : s.mem[Register(w)] = v[w]
                          /\ \A i \in Gates : i \in s.failing <=> ~Satisfied(graph, {i}, v)
    BY DEF SlotsHold
  <2>1. GraphOK(graph) /\ scratch \subseteq Internal /\ slots = Slots(graph, scratch)
    BY DEF CompilerInv
  <2> DEFINE v == Values(graph, Gates, f)
  <2>2. Fits(graph, f, v)
    BY <2>1, VFits DEF V, Gates
  <2>3. Shared
    BY <2>1, SlotsShared
  <2> HIDE DEF v
  <2>4. RunState(v, Len(graph.gates), Evaluate(f))
    BY <2>1, <2>2, <2>3, EvaluateIs
  <2>5. \A j \in Gates : j <= Len(graph.gates)
    BY <2>1, GraphParts DEF GraphOK, Gates
  <2>6. \A w \in DOMAIN graph.wires \ scratch : Evaluate(f).mem[Register(w)] = v[w]
    BY <2>4, <2>5 DEF RunState, MadeUpto, Wanted
  <2>7. \A i \in Gates : i \in Evaluate(f).failing <=> ~Satisfied(graph, {i}, v)
    BY <2>4, <2>5 DEF RunState, Satisfied, Read
  <2> QED BY <2>6, <2>7 DEF v
<1> QED BY <1>1, CompilerInvariant, PTL
==============================================================================
