-------------------------- MODULE OracleMergeProofs --------------------------
(* Proofs about the round-merging channels, for scripts of any length and    *)
(* any number of oracles of any lengths.                                     *)
EXTENDS OracleMerge, DataFacts

------------------------------------------------------------------------------
(* Counting what a log or a script holds *)
LEMMA UptoIsCount ==
  ASSUME NEW S, NEW i \in Nat
  PROVE  Upto(S, i) = CountUpTo(S, i) /\ Upto(S, i) \in 0..i
BY CountType DEF Upto, CountUpTo

LEMMA NthFound ==
  ASSUME NEW S, S \subseteq Nat \ {0}, NEW i \in S
  PROVE  Nth(S, Upto(S, i)) = i
<1> DEFINE j == Nth(S, Upto(S, i))
<1>1. j \in S /\ Upto(S, j) = Upto(S, i)
  BY DEF Nth
<1> HIDE DEF j
<1>2. i \in Nat \ {0} /\ j \in Nat \ {0} /\ i \in Nat /\ j \in Nat
  BY <1>1
<1>3. CountUpTo(S, i) = CountUpTo(S, j)
  BY <1>1, <1>2, UptoIsCount
<1>4. i = j
  BY <1>1, <1>2, <1>3, CountUnique
<1> QED BY <1>4 DEF j

LEMMA NthExists ==
  ASSUME NEW S, NEW m \in Nat, NEW n \in 1..Upto(S, m)
  PROVE  \E i \in S \cap (1..m) : Upto(S, i) = n
<1>1. n \in 1..CountUpTo(S, m)
  BY UptoIsCount
<1>2. PICK i \in S \cap (1..m) : CountUpTo(S, i) = n
  BY <1>1, CountReaches
<1>3. i \in Nat
  OBVIOUS
<1> QED BY <1>2, <1>3, UptoIsCount

LEMMA OnPlaces ==
  ASSUME NEW s, IsSequence(s), NEW op
  PROVE  /\ On(s, op) \subseteq Nat \ {0}
         /\ \A i : i \in On(s, op) <=> i \in 1..Len(s) /\ s[i].op = op
         /\ Times(s, op) \in Nat
<1>1. Len(s) \in Nat /\ DOMAIN s = 1..Len(s)
  BY SequenceLen
<1> QED BY <1>1, UptoIsCount DEF On, Times

(* One position more. *)
LEMMA UptoNext ==
  ASSUME NEW s, IsSequence(s), NEW op, NEW i \in Nat, i < Len(s)
  PROVE  /\ s[i + 1].op = op => /\ i + 1 \in On(s, op)
                                /\ Upto(On(s, op), i + 1) = Upto(On(s, op), i) + 1
         /\ s[i + 1].op # op => Upto(On(s, op), i + 1) = Upto(On(s, op), i)
<1>1. i + 1 \in 1..Len(s) /\ i + 1 \in Nat
  BY SequenceLen
<1>2. i + 1 \in On(s, op) <=> s[i + 1].op = op
  BY <1>1, OnPlaces
<1>3. CountUpTo(On(s, op), i + 1) = CountUpTo(On(s, op), i) + (IF i + 1 \in On(s, op) THEN 1 ELSE 0)
  BY CountNext
<1>4. /\ Upto(On(s, op), i + 1) = CountUpTo(On(s, op), i + 1)
      /\ Upto(On(s, op), i) = CountUpTo(On(s, op), i) /\ Upto(On(s, op), i) \in 0..i
  BY <1>1, UptoIsCount
<1> QED BY <1>2, <1>3, <1>4

LEMMA UptoMonotonic ==
  ASSUME NEW S, NEW i \in Nat, NEW j \in Nat, i <= j
  PROVE  Upto(S, i) <= Upto(S, j)
BY UptoIsCount, CountMonotonic

(* What an entry more changes, and what it does not. *)
LEMMA OnAppend ==
  ASSUME NEW s, IsSequence(s), NEW e, NEW op
  PROVE  /\ \A i \in 0..Len(s) : Upto(On(Append(s, e), op), i) = Upto(On(s, op), i)
         /\ On(s, op) \subseteq On(Append(s, e), op)
         /\ e.op = op => /\ Len(s) + 1 \in On(Append(s, e), op)
                         /\ Times(Append(s, e), op) = Times(s, op) + 1
                         /\ Upto(On(Append(s, e), op), Len(s) + 1) = Times(s, op) + 1
         /\ e.op # op => /\ Times(Append(s, e), op) = Times(s, op)
                         /\ On(Append(s, e), op) = On(s, op)
<1> DEFINE t == Append(s, e)
           n == Len(s)
<1>1. /\ n \in Nat /\ IsSequence(t) /\ Len(t) = n + 1
      /\ \A i \in 1..n : t[i] = s[i]
      /\ t[n + 1] = e
  BY SequenceLen, AppendSequence, ZenonT(60)
<1> HIDE DEF t
<1>2. \A i : i \in On(s, op) <=> i \in 1..n /\ s[i].op = op
  BY OnPlaces
<1>3. \A i : i \in On(t, op) <=> i \in 1..n + 1 /\ t[i].op = op
  BY <1>1, OnPlaces
<1>4. \A i \in 1..n : i \in On(t, op) <=> i \in On(s, op)
  BY <1>1, <1>2, <1>3
<1>5. ASSUME NEW i \in 0..n PROVE Upto(On(t, op), i) = Upto(On(s, op), i)
  <2>1. On(t, op) \cap 1..i = On(s, op) \cap 1..i
    <3>1. \A j \in 1..i : j \in 1..n
      BY <1>1
    <3> QED BY <1>4, <3>1
  <2> QED BY <2>1 DEF Upto
<1>6. On(s, op) \subseteq On(t, op)
  BY <1>2, <1>4
<1>7. n \in 0..n /\ n < Len(t)
  BY <1>1
<1>8. Upto(On(t, op), n) = Times(s, op) /\ Times(t, op) = Upto(On(t, op), n + 1)
  BY <1>1, <1>5, <1>7 DEF Times
<1>9. /\ e.op = op => /\ n + 1 \in On(t, op)
                      /\ Upto(On(t, op), n + 1) = Upto(On(t, op), n) + 1
      /\ e.op # op => Upto(On(t, op), n + 1) = Upto(On(t, op), n)
  BY <1>1, <1>7, UptoNext
<1>10. e.op # op => On(t, op) = On(s, op)
  <2>1. ASSUME e.op # op, NEW i PROVE i \in On(t, op) <=> i \in On(s, op)
    <3>1. i \in 1..n + 1 => i \in 1..n \/ i = n + 1
      BY <1>1
    <3>2. i \in 1..n => i \in 1..n + 1
      BY <1>1
    <3> QED BY <1>1, <1>2, <1>3, <2>1, <3>1, <3>2
  <2> QED BY <2>1
<1>11. /\ \A i \in 0..n : Upto(On(t, op), i) = Upto(On(s, op), i)
       /\ On(s, op) \subseteq On(t, op)
       /\ e.op = op => /\ n + 1 \in On(t, op)
                       /\ Times(t, op) = Times(s, op) + 1
                       /\ Upto(On(t, op), n + 1) = Times(s, op) + 1
       /\ e.op # op => /\ Times(t, op) = Times(s, op)
                       /\ On(t, op) = On(s, op)
  BY <1>5, <1>6, <1>8, <1>9, <1>10
<1> QED BY <1>11 DEF t
------------------------------------------------------------------------------
(* A party that has run i operations of the script: as many oracles as the   *)
(* script has by then, those up to "closed" committed, each after the        *)
(* challenges it was due after; and, of the ones still open, that no         *)
(* challenge was drawn since.                                                *)
Drawn(s, i)   == Upto(On(s, "sample"), i)
Arrived(s, i) == Upto(On(s, "oracle"), i)
DueIn(s, k)   == Drawn(s, Nth(On(s, "oracle"), k))

Kept(s, log, records, closed, i) ==
  /\ IsSequence(log) /\ IsSequence(records)
  /\ closed \in 0..Len(records) /\ i \in 0..Len(s)
  /\ Len(records) = Arrived(s, i)
  /\ Times(log, "sample") = Drawn(s, i)
  /\ \A k \in 1..Len(records) : Committed(records[k]) <=> k <= closed
  /\ \A k \in 1..closed : /\ records[k].mapping.group \in 1..Times(log, "commit")
                          /\ DrawnBefore(log, records[k].mapping.group) = DueIn(s, k)

Due(s, n, closed, i) == \A k \in closed + 1..n : DueIn(s, k) = Drawn(s, i)

(* The records from closed + 1 on are given one group. *)
Grouped(records, recs, closed, g) ==
  /\ IsSequence(recs) /\ Len(recs) = Len(records)
  /\ \A k \in 1..closed : recs[k] = records[k]
  /\ \A k \in closed + 1..Len(records) : recs[k].mapping.group = g

LEMMA NoneCounted == ASSUME NEW S PROVE Upto(S, 0) = 0
BY UptoIsCount

LEMMA KeptAtFirst ==
  ASSUME NEW s, IsSequence(s)
  PROVE  Kept(s, <<>>, <<>>, 0, 0) /\ Due(s, 0, 0, 0)
<1>1. Len(s) \in Nat /\ Len(<<>>) = 0 /\ IsSequence(<<>>)
  BY SequenceLen, EmptyIsSequence
<1>2. Arrived(s, 0) = 0 /\ Drawn(s, 0) = 0 /\ Times(<<>>, "sample") = 0
  BY <1>1, NoneCounted DEF Arrived, Drawn, Times
<1> QED BY <1>1, <1>2 DEF Kept, Due

LEMMA DrawnStays ==
  ASSUME NEW log, IsSequence(log), NEW e, NEW g \in 1..Times(log, "commit")
  PROVE  DrawnBefore(Append(log, e), g) = DrawnBefore(log, g)
<1> DEFINE t == Append(log, e)
           C == On(log, "commit")
           D == On(t, "commit")
<1>1. Len(log) \in Nat /\ IsSequence(t)
  BY SequenceLen, AppendSequence
<1>2. C \subseteq Nat \ {0} /\ D \subseteq Nat \ {0}
  BY <1>1, OnPlaces
<1>3. PICK i \in C \cap (1..Len(log)) : Upto(C, i) = g
  BY <1>1, NthExists DEF Times
<1>4. i \in D /\ Upto(D, i) = g /\ i \in 0..Len(log)
  BY <1>1, <1>3, OnAppend
<1>5. Upto(On(t, "sample"), i) = Upto(On(log, "sample"), i)
  BY <1>4, OnAppend
<1> HIDE DEF t, C, D
<1>6. Nth(C, g) = i /\ Nth(D, g) = i
  BY <1>2, <1>3, <1>4, NthFound
<1> QED BY <1>5, <1>6 DEF DrawnBefore, t, C, D

LEMMA KeptLogged ==
  ASSUME NEW s, NEW log, NEW records, NEW closed, NEW i, Kept(s, log, records, closed, i),
         NEW e, e.op \notin {"commit", "sample"}
  PROVE  Kept(s, Append(log, e), records, closed, i)
<1>1. IsSequence(log)
  BY DEF Kept
<1>2. /\ IsSequence(Append(log, e)) /\ Times(Append(log, e), "sample") = Times(log, "sample")
      /\ Times(Append(log, e), "commit") = Times(log, "commit")
  <2>1. IsSequence(Append(log, e))
    BY <1>1, AppendSequence
  <2> QED BY <1>1, <2>1, OnAppend
<1>3. \A g \in 1..Times(log, "commit") : DrawnBefore(Append(log, e), g) = DrawnBefore(log, g)
  BY <1>1, DrawnStays
<1> QED BY <1>2, <1>3 DEF Kept

LEMMA KeptSample ==
  ASSUME NEW s, IsSequence(s),
         NEW log, NEW records, NEW closed, NEW i, Kept(s, log, records, closed, i),
         i < Len(s), s[i + 1].op = "sample", NEW e, e.op = "sample"
  PROVE  Kept(s, Append(log, e), records, closed, i + 1)
<1>1. IsSequence(log) /\ i \in Nat /\ i + 1 \in 0..Len(s)
  BY SequenceLen DEF Kept
<1>2. /\ IsSequence(Append(log, e)) /\ Times(Append(log, e), "sample") = Times(log, "sample") + 1
      /\ Times(Append(log, e), "commit") = Times(log, "commit")
  <2>1. IsSequence(Append(log, e))
    BY <1>1, AppendSequence
  <2> QED BY <1>1, <2>1, OnAppend
<1>3. \A g \in 1..Times(log, "commit") : DrawnBefore(Append(log, e), g) = DrawnBefore(log, g)
  BY <1>1, DrawnStays
<1>4. Drawn(s, i + 1) = Drawn(s, i) + 1 /\ Arrived(s, i + 1) = Arrived(s, i)
  BY <1>1, UptoNext DEF Drawn, Arrived
<1> QED BY <1>1, <1>2, <1>3, <1>4 DEF Kept

LEMMA KeptOpen ==
  ASSUME NEW s, IsSequence(s),
         NEW log, NEW records, NEW closed, NEW i, Kept(s, log, records, closed, i),
         i < Len(s), s[i + 1].op = "open"
  PROVE  /\ Kept(s, log, records, closed, i + 1)
         /\ Due(s, Len(records), closed, i) => Due(s, Len(records), closed, i + 1)
<1>1. i \in Nat /\ i + 1 \in 0..Len(s)
  BY SequenceLen DEF Kept
<1>2. Drawn(s, i + 1) = Drawn(s, i) /\ Arrived(s, i + 1) = Arrived(s, i)
  BY <1>1, UptoNext DEF Drawn, Arrived
<1> QED BY <1>1, <1>2 DEF Kept, Due

LEMMA KeptOracle ==
  ASSUME NEW s, IsSequence(s),
         NEW log, NEW records, NEW closed, NEW i, Kept(s, log, records, closed, i),
         i < Len(s), s[i + 1].op = "oracle", NEW r, r.mapping = Unmapped
  PROVE  /\ Kept(s, log, Append(records, r), closed, i + 1)
         /\ Len(Append(records, r)) = Len(records) + 1
         /\ Due(s, Len(records), closed, i) => Due(s, Len(records) + 1, closed, i + 1)
<1> DEFINE n == Len(records)
           recs == Append(records, r)
<1>1. /\ IsSequence(records) /\ i \in Nat /\ i + 1 \in 0..Len(s)
      /\ n \in Nat /\ n = Arrived(s, i) /\ closed \in 0..n
  BY SequenceLen DEF Kept
<1>2. /\ IsSequence(recs) /\ Len(recs) = n + 1
      /\ \A k \in 1..n : recs[k] = records[k]
      /\ recs[n + 1] = r
  BY <1>1, AppendSequence
<1>3. /\ Drawn(s, i + 1) = Drawn(s, i) /\ Arrived(s, i + 1) = n + 1
      /\ i + 1 \in On(s, "oracle")
  BY <1>1, UptoNext DEF Drawn, Arrived
<1>4. DueIn(s, n + 1) = Drawn(s, i + 1)
  <2>1. On(s, "oracle") \subseteq Nat \ {0}
    BY OnPlaces
  <2>2. Nth(On(s, "oracle"), n + 1) = i + 1
    BY <1>3, <2>1, NthFound DEF Arrived
  <2> QED BY <2>2 DEF DueIn
<1> HIDE DEF recs, n
<1>5. ASSUME Due(s, n, closed, i) PROVE Due(s, n + 1, closed, i + 1)
  <2>1. ASSUME NEW k \in closed + 1..n + 1 PROVE DueIn(s, k) = Drawn(s, i + 1)
    <3>1. k \in closed + 1..n \/ k = n + 1
      BY <1>1
    <3> QED BY <1>3, <1>4, <1>5, <3>1 DEF Due
  <2> QED BY <2>1 DEF Due
<1>6. Kept(s, log, recs, closed, i + 1)
  <2>1. ASSUME NEW k \in 1..n + 1 PROVE Committed(recs[k]) <=> k <= closed
    <3>1. CASE k = n + 1
      BY <1>1, <1>2, <3>1 DEF Committed
    <3>2. CASE k # n + 1
      <4>1. k \in 1..n
        BY <1>1, <3>2
      <4> QED BY <1>2, <4>1 DEF Kept, n
    <3> QED BY <3>1, <3>2
  <2>2. \A k \in 1..closed : recs[k] = records[k]
    BY <1>1, <1>2
  <2>3. closed \in 0..n + 1
    BY <1>1
  <2>4. Times(log, "sample") = Drawn(s, i + 1)
    BY <1>3 DEF Kept
  <2> QED BY <1>1, <1>2, <1>3, <2>1, <2>2, <2>3, <2>4 DEF Kept
<1> QED BY <1>2, <1>5, <1>6 DEF recs, n

(* A commitment closes the round: its oracles are due where it comes. *)
LEMMA KeptCommit ==
  ASSUME NEW s, IsSequence(s),
         NEW log, NEW records, NEW closed, NEW i, Kept(s, log, records, closed, i),
         Due(s, Len(records), closed, i),
         NEW recs, Grouped(records, recs, closed, Times(log, "commit") + 1),
         NEW e, e.op = "commit"
  PROVE  /\ Kept(s, Append(log, e), recs, Len(recs), i)
         /\ Times(Append(log, e), "commit") = Times(log, "commit") + 1
<1> DEFINE n == Len(records)
           g == Times(log, "commit") + 1
           t == Append(log, e)
<1>1. /\ IsSequence(log) /\ IsSequence(records) /\ n \in Nat /\ Len(log) \in Nat
      /\ closed \in 0..n /\ Times(log, "commit") \in Nat
  BY SequenceLen, OnPlaces DEF Kept
<1>2. /\ IsSequence(recs) /\ Len(recs) = n
      /\ \A k \in 1..closed : recs[k] = records[k]
      /\ \A k \in closed + 1..n : recs[k].mapping.group = g
  BY DEF Grouped
<1>3. /\ IsSequence(t) /\ Times(t, "commit") = g /\ Times(t, "sample") = Times(log, "sample")
      /\ Len(log) + 1 \in On(t, "commit") /\ Upto(On(t, "commit"), Len(log) + 1) = g
  <2>1. IsSequence(t)
    BY <1>1, AppendSequence
  <2>2. Times(t, "sample") = Times(log, "sample")
    BY <1>1, OnAppend
  <2> QED BY <1>1, <2>1, <2>2, OnAppend
<1>4. DrawnBefore(t, g) = Times(log, "sample")
  <2>1. On(t, "commit") \subseteq Nat \ {0}
    BY <1>3, OnPlaces
  <2>2. Nth(On(t, "commit"), g) = Len(log) + 1
    BY <1>3, <2>1, NthFound
  <2>3. Len(t) = Len(log) + 1
    BY <1>1, AppendSequence
  <2>4. Upto(On(t, "sample"), Len(log) + 1) = Times(log, "sample")
    BY <1>3, <2>3 DEF Times
  <2> QED BY <2>2, <2>4 DEF DrawnBefore
<1>5. \A m \in 1..Times(log, "commit") : DrawnBefore(t, m) = DrawnBefore(log, m)
  BY <1>1, DrawnStays
<1> HIDE DEF n, g, t
<1>6. ASSUME NEW k \in 1..n
      PROVE  /\ Committed(recs[k]) /\ recs[k].mapping.group \in 1..g
             /\ DrawnBefore(t, recs[k].mapping.group) = DueIn(s, k)
  <2>1. CASE k <= closed
    <3>1. k \in 1..closed
      BY <1>1, <2>1
    <3>2. /\ Committed(records[k]) /\ records[k].mapping.group \in 1..Times(log, "commit")
          /\ DrawnBefore(log, records[k].mapping.group) = DueIn(s, k)
      BY <2>1, <3>1 DEF Kept, n
    <3>3. 1..Times(log, "commit") \subseteq 1..g
      BY <1>1 DEF g
    <3> QED BY <1>2, <1>5, <3>1, <3>2, <3>3
  <2>2. CASE ~(k <= closed)
    <3>1. k \in closed + 1..n
      BY <1>1, <2>2
    <3>2. recs[k].mapping.group = g /\ g \in 1..g /\ g # 0
      BY <1>1, <1>2, <3>1 DEF g
    <3>3. Committed(recs[k])
      BY <3>2 DEF Committed, Unmapped
    <3>4. DueIn(s, k) = Times(log, "sample")
      BY <3>1 DEF Due, Kept, n
    <3> QED BY <1>4, <3>2, <3>3, <3>4
  <2> QED BY <2>1, <2>2
<1>7. Kept(s, t, recs, n, i)
  <2>1. n \in 0..n /\ \A k \in 1..n : k <= n
    BY <1>1
  <2> QED BY <1>2, <1>3, <1>6, <2>1 DEF Kept, n
<1> QED BY <1>2, <1>3, <1>7 DEF t, g, n
------------------------------------------------------------------------------
(* The prover's channel between calls *)
Closed(p) == Len(p.records) - Len(p.pending)

GroupShape(x) ==
  x \in [buffer : {x.buffer}, n_members : {x.n_members}, n_finalized : {x.n_finalized}]

ProverShape(p) ==
  /\ p \in [pending : {p.pending}, records : {p.records}, groups : {p.groups}, log : {p.log}]
  /\ IsSequence(p.pending) /\ IsSequence(p.records) /\ IsSequence(p.groups) /\ IsSequence(p.log)
  /\ Len(p.pending) <= Len(p.records)
  /\ Len(p.groups) = Times(p.log, "commit")
  /\ \A k \in 1..Len(p.records) :
       p.records[k] \in [len : Lens, mapping : {p.records[k].mapping}]
  /\ \A g \in 1..Len(p.groups) : GroupShape(p.groups[g])
  /\ \A j \in 1..Len(p.pending) : p.pending[j].len = p.records[Closed(p) + j].len

ProverKept(p, s, i) ==
  ProverShape(p) /\ Kept(s, p.log, p.records, Closed(p), i) /\ Due(s, Len(p.records), Closed(p), i)

LEMMA TabledSequence ==
  ASSUME NEW n \in Nat, NEW f, DOMAIN f = 1..n, f = [i \in DOMAIN f |-> f[i]]
  PROVE  IsSequence(f) /\ Len(f) = n
<1> DEFINE T == {f[i] : i \in 1..n}
<1>1. f \in [1..n -> T]
  OBVIOUS
<1> HIDE DEF T
<1>2. f \in Seq(T) /\ Len(f) = n
  BY ONLY <1>1, n \in Nat
<1> QED BY <1>2, SeqIsSequence

(* The records of an open round are given its mapping, and nothing else. *)
Remapped(records, recs, closed, g) ==
  /\ Grouped(records, recs, closed, g)
  /\ \A k \in 1..Len(records) : recs[k] \in [len : Lens, mapping : {recs[k].mapping}]
  /\ \A k \in 1..Len(records) : recs[k].len = records[k].len

LEMMA FlushProverOK ==
  ASSUME NEW p, ProverShape(p)
  PROVE  LET q == FlushProver(p) IN
         /\ p.pending = <<>> => q = p
         /\ p.pending # <<>> =>
              /\ Remapped(p.records, q.records, Closed(p), Len(p.groups) + 1)
              /\ q \in [pending : {<<>>}, records : {q.records}, groups : {q.groups}, log : {q.log}]
              /\ q.log = Append(p.log,
                   [op |-> "commit",
                    len |-> merged_log_msg_len([k \in DOMAIN p.pending |-> p.pending[k].len])])
              /\ \E b : q.groups = Append(p.groups,
                   [buffer |-> <<b>>, n_members |-> Len(p.pending), n_finalized |-> 0])
<1> DEFINE first == Closed(p)
           n == Len(p.records)
           len == [k \in DOMAIN p.pending |-> p.pending[k].len]
           of == [k \in DOMAIN p.pending |-> p.pending[k].id]
           N == merged_log_msg_len(len)
           g == Len(p.groups) + 1
           c == Combined(len, of)
           mapping(i) == [group |-> g, block_index |-> BlockIndices(len)[i - first],
                          combined_log_len |-> N]
           recs == [i \in DOMAIN p.records |->
              IF i > first THEN [p.records[i] EXCEPT !.mapping = mapping(i)] ELSE p.records[i]]
           q == FlushProver(p)
<1>1. /\ n \in Nat /\ DOMAIN p.records = 1..n /\ first \in 0..n
      /\ Len(p.pending) \in Nat /\ Len(p.pending) <= n
  BY SequenceLen DEF ProverShape, Closed
<1>2. CASE p.pending = <<>>
  BY <1>2 DEF FlushProver
<1>3. CASE p.pending # <<>>
  <2>1. q = [pending |-> <<>>, records |-> recs,
             groups |-> Append(p.groups, [buffer |-> <<c>>, n_members |-> Len(p.pending),
                                          n_finalized |-> 0]),
             log |-> Append(p.log, [op |-> "commit", len |-> N])]
    BY <1>3 DEF FlushProver, Closed
  <2> HIDE DEF N, c, q
  <2>2. \A i : mapping(i).group = g
    OBVIOUS
  <2> HIDE DEF mapping
  <2>3. DOMAIN recs = 1..n /\ recs = [i \in DOMAIN recs |-> recs[i]]
    BY <1>1
  <2>4. ASSUME NEW k \in 1..n
        PROVE  /\ k <= first => recs[k] = p.records[k]
               /\ k > first => recs[k] = [p.records[k] EXCEPT !.mapping = mapping(k)]
    BY <1>1
  <2>5. IsSequence(recs) /\ Len(recs) = n
    <3> HIDE DEF recs
    <3> QED BY <1>1, <2>3, TabledSequence
  <2> HIDE DEF recs
  <2>6. ASSUME NEW k \in 1..n
        PROVE  /\ recs[k] \in [len : Lens, mapping : {recs[k].mapping}]
               /\ recs[k].len = p.records[k].len
               /\ k > first => recs[k].mapping = mapping(k)
    <3>1. p.records[k] \in [len : Lens, mapping : {p.records[k].mapping}]
      BY DEF ProverShape
    <3>2. CASE k <= first
      BY <1>1, <2>4, <3>1, <3>2
    <3>3. CASE k > first
      <4> DEFINE m == mapping(k)
                 old == p.records[k]
      <4>1. recs[k] = [old EXCEPT !.mapping = m]
        BY <2>4, <3>3
      <4> HIDE DEF m, old
      <4>2. old \in [len : Lens, mapping : {old.mapping}]
        BY <3>1 DEF old
      <4>3. recs[k] = [len |-> old.len, mapping |-> m] /\ old.len \in Lens
        BY <4>1, <4>2
      <4>4. recs[k].len = old.len /\ recs[k].mapping = m /\ recs[k] \in [len : Lens, mapping : {m}]
        BY <4>3
      <4> QED BY <4>4 DEF m, old
    <3>4. k <= first \/ k > first
      BY <1>1
    <3> QED BY <3>2, <3>3, <3>4
  <2>7. Grouped(p.records, recs, first, g)
    <3>1. \A k \in 1..first : k \in 1..n /\ k <= first
      BY <1>1
    <3>2. \A k \in first + 1..n : k \in 1..n /\ k > first
      BY <1>1
    <3>3. \A k \in 1..first : recs[k] = p.records[k]
      BY <2>4, <3>1
    <3>4. \A k \in first + 1..n : recs[k].mapping = mapping(k)
      BY <2>6, <3>2
    <3>5. \A k \in first + 1..n : recs[k].mapping.group = g
      BY <2>2, <3>4
    <3> QED BY <2>5, <3>3, <3>5 DEF Grouped
  <2>8. Remapped(p.records, recs, first, g)
    BY <2>6, <2>7 DEF Remapped
  <2>9. /\ q.records = recs /\ q.log = Append(p.log, [op |-> "commit", len |-> N])
        /\ q.groups = Append(p.groups, [buffer |-> <<c>>, n_members |-> Len(p.pending),
                                        n_finalized |-> 0])
        /\ q \in [pending : {<<>>}, records : {q.records}, groups : {q.groups}, log : {q.log}]
    BY <2>1
  <2> QED BY <1>3, <2>8, <2>9 DEF q, N
<1> QED BY <1>2, <1>3

(* A flush leaves nothing open, and the challenges where they were due. *)
LEMMA FlushProverKept ==
  ASSUME NEW p, NEW s, IsSequence(s), NEW i, ProverKept(p, s, i)
  PROVE  LET q == FlushProver(p) IN
         /\ ProverKept(q, s, i) /\ q.pending = <<>> /\ Len(q.records) = Len(p.records)
         /\ Closed(q) = Len(q.records)
<1> DEFINE q == FlushProver(p)
           g == Len(p.groups) + 1
           n == Len(p.records)
<1>1. /\ ProverShape(p) /\ Kept(s, p.log, p.records, Closed(p), i)
      /\ Due(s, n, Closed(p), i) /\ IsSequence(p.log) /\ IsSequence(p.groups)
      /\ g = Times(p.log, "commit") + 1 /\ n \in Nat
  BY SequenceLen DEF ProverKept, ProverShape
<1>2. Len(<<>>) = 0 /\ IsSequence(<<>>)
  BY EmptyIsSequence
<1>3. CASE p.pending = <<>>
  <2>1. q = p
    BY <1>1, <1>3, FlushProverOK
  <2>2. Closed(p) = n
    BY <1>1, <1>2, <1>3 DEF Closed
  <2> QED BY <1>3, <2>1, <2>2
<1>4. CASE p.pending # <<>>
  <2>1. /\ Remapped(p.records, q.records, Closed(p), g)
        /\ q \in [pending : {<<>>}, records : {q.records}, groups : {q.groups}, log : {q.log}]
        /\ \E e : e.op = "commit" /\ q.log = Append(p.log, e)
        /\ \E x : GroupShape(x) /\ q.groups = Append(p.groups, x)
    <3>1. \E b : q.groups = Append(p.groups,
                   [buffer |-> <<b>>, n_members |-> Len(p.pending), n_finalized |-> 0])
      BY <1>1, <1>4, FlushProverOK
    <3>2. PICK b : q.groups = Append(p.groups,
                   [buffer |-> <<b>>, n_members |-> Len(p.pending), n_finalized |-> 0])
      BY <3>1
    <3>3. GroupShape([buffer |-> <<b>>, n_members |-> Len(p.pending), n_finalized |-> 0])
      BY DEF GroupShape
    <3> QED BY <1>1, <1>4, <3>2, <3>3, FlushProverOK
  <2> HIDE DEF q, g
  <2>2. PICK e : e.op = "commit" /\ q.log = Append(p.log, e)
    BY <2>1
  <2>3. PICK x : GroupShape(x) /\ q.groups = Append(p.groups, x)
    BY <2>1
  <2>4. /\ Grouped(p.records, q.records, Closed(p), Times(p.log, "commit") + 1)
        /\ IsSequence(q.records) /\ Len(q.records) = n
    BY <1>1, <2>1 DEF Remapped, Grouped
  <2>5. /\ Kept(s, q.log, q.records, Len(q.records), i)
        /\ Times(q.log, "commit") = Times(p.log, "commit") + 1
    BY <1>1, <2>2, <2>4, KeptCommit
  <2>6. /\ IsSequence(q.log) /\ IsSequence(q.groups) /\ Len(q.groups) = g
        /\ \A h \in 1..Len(q.groups) : GroupShape(q.groups[h])
    <3> DEFINE groups == Append(p.groups, x)
    <3>1. IsSequence(Append(p.log, e))
      BY <1>1, AppendSequence
    <3>2. /\ IsSequence(groups) /\ Len(groups) = Len(p.groups) + 1
          /\ \A h \in 1..Len(p.groups) : groups[h] = p.groups[h]
          /\ groups[Len(p.groups) + 1] = x
      BY <1>1, AppendSequence, ZenonT(60)
    <3>3. \A h \in 1..Len(p.groups) + 1 : h \in 1..Len(p.groups) \/ h = Len(p.groups) + 1
      BY <1>1, SequenceLen
    <3>4. \A h \in 1..Len(p.groups) : GroupShape(p.groups[h])
      BY <1>1 DEF ProverShape
    <3>5. q.groups = groups
      BY <2>3
    <3> HIDE DEF groups
    <3>6. \A h \in 1..Len(groups) : GroupShape(groups[h])
      BY <2>3, <3>2, <3>3, <3>4
    <3> QED BY <2>2, <3>1, <3>2, <3>5, <3>6 DEF g
  <2>7. q.pending = <<>> /\ Closed(q) = Len(q.records)
    BY <1>1, <1>2, <2>1, <2>4 DEF Closed
  <2>8. ProverShape(q)
    <3>1. q.pending = <<>> /\ Len(q.pending) = 0 /\ IsSequence(q.pending) /\ 1..0 = {}
      BY <1>2, <2>7
    <3> QED BY <1>1, <2>1, <2>4, <2>5, <2>6, <3>1 DEF ProverShape, Remapped
  <2>9. Due(s, Len(q.records), Closed(q), i)
    BY <1>1, <2>4, <2>7 DEF Due
  <2> QED BY <2>4, <2>5, <2>7, <2>8, <2>9 DEF ProverKept, q
<1> QED BY <1>3, <1>4

(* What the inner channel is asked, apart from commitments, changes nothing  *)
(* but its log.                                                              *)
LEMMA LoggedOK ==
  ASSUME NEW p, ProverShape(p), NEW e, e.op # "commit"
  PROVE  LET q == Logged(p, e) IN
         /\ ProverShape(q) /\ q.log = Append(p.log, e)
         /\ q.records = p.records /\ q.pending = p.pending /\ q.groups = p.groups
         /\ Closed(q) = Closed(p)
<1> DEFINE q == Logged(p, e)
           l == Append(p.log, e)
<1>1. IsSequence(l) /\ Times(l, "commit") = Times(p.log, "commit")
  <2>1. IsSequence(l)
    BY AppendSequence DEF ProverShape
  <2> QED BY <2>1, OnAppend DEF ProverShape
<1> HIDE DEF l
<1>2. q = [p EXCEPT !.log = l]
  BY DEF Logged, l
<1>3. p \in [pending : {p.pending}, records : {p.records}, groups : {p.groups}, log : {p.log}]
  BY DEF ProverShape
<1> HIDE DEF q
<1>4. q = [pending |-> p.pending, records |-> p.records, groups |-> p.groups, log |-> l]
  BY <1>2, <1>3
<1>5. /\ q.log = l /\ q.records = p.records /\ q.pending = p.pending /\ q.groups = p.groups
      /\ q \in [pending : {q.pending}, records : {q.records}, groups : {q.groups}, log : {q.log}]
  BY <1>4
<1>6. Closed(q) = Closed(p)
  BY <1>5 DEF Closed
<1>7. ProverShape(q)
  BY <1>1, <1>5, <1>6 DEF ProverShape
<1> QED BY <1>5, <1>6, <1>7 DEF q, l

(* One oracle more is open. *)
Sent(p, x, r) == [p EXCEPT !.pending = Append(@, x), !.records = Append(@, r)]

LEMMA SendKept ==
  ASSUME NEW p, NEW s, IsSequence(s), NEW i, ProverKept(p, s, i),
         i < Len(s), s[i + 1].op = "oracle",
         NEW r, r \in [len : Lens, mapping : {Unmapped}], NEW x, x.len = r.len
  PROVE  LET q == Sent(p, x, r) IN
         /\ ProverKept(q, s, i + 1)
         /\ q.groups = p.groups /\ q.log = p.log /\ q.records = Append(p.records, r)
         /\ Closed(q) = Closed(p)
<1> DEFINE q == Sent(p, x, r)
           pending == Append(p.pending, x)
           records == Append(p.records, r)
           n == Len(p.records)
           w == Len(p.pending)
<1>1. /\ ProverShape(p) /\ Kept(s, p.log, p.records, Closed(p), i)
      /\ Due(s, n, Closed(p), i) /\ n \in Nat /\ w \in Nat /\ w <= n /\ Closed(p) = n - w
  BY SequenceLen DEF ProverKept, ProverShape, Closed
<1>0. IsSequence(p.pending) /\ IsSequence(p.records)
  BY <1>1 DEF ProverShape
<1>2. /\ IsSequence(pending) /\ Len(pending) = w + 1
      /\ \A j \in 1..w : pending[j] = p.pending[j]
      /\ pending[w + 1] = x
  BY ONLY <1>0, AppendSequence, ZenonT(60)
<1>3. /\ IsSequence(records) /\ Len(records) = n + 1
      /\ \A k \in 1..n : records[k] = p.records[k]
      /\ records[n + 1] = r
  BY ONLY <1>0, AppendSequence, ZenonT(60)
<1>4. r.mapping = Unmapped
  OBVIOUS
<1>5. /\ Kept(s, p.log, records, Closed(p), i + 1) /\ Due(s, n + 1, Closed(p), i + 1)
  BY <1>1, <1>4, KeptOracle
<1>6. q = [p EXCEPT !.pending = pending, !.records = records]
  BY DEF Sent
<1> HIDE DEF pending, records, n, w, q
<1>7. p \in [pending : {p.pending}, records : {p.records}, groups : {p.groups}, log : {p.log}]
  BY <1>1 DEF ProverShape
<1>8. q = [pending |-> pending, records |-> records, groups |-> p.groups, log |-> p.log]
  BY <1>6, <1>7
<1>9. /\ q.pending = pending /\ q.records = records /\ q.groups = p.groups /\ q.log = p.log
      /\ q \in [pending : {q.pending}, records : {q.records}, groups : {q.groups}, log : {q.log}]
  BY <1>8
<1>10. Closed(q) = Closed(p)
  <2>1. Closed(q) = Len(q.records) - Len(q.pending)
    BY DEF Closed
  <2> QED BY <1>1, <1>2, <1>3, <1>9, <2>1
<1>11. ASSUME NEW k \in 1..n + 1 PROVE records[k] \in [len : Lens, mapping : {records[k].mapping}]
  <2>1. CASE k = n + 1
    BY <1>3, <1>4, <2>1
  <2>2. CASE k # n + 1
    <3>1. k \in 1..n
      BY <1>1, <2>2
    <3> QED BY <1>1, <1>3, <3>1 DEF ProverShape, n
  <2> QED BY <2>1, <2>2
<1>12. ASSUME NEW j \in 1..w + 1 PROVE pending[j].len = records[Closed(p) + j].len
  <2>1. CASE j = w + 1
    <3>1. Closed(p) + j = n + 1
      BY <1>1, <2>1
    <3> QED BY <1>2, <1>3, <2>1, <3>1
  <2>2. CASE j # w + 1
    <3>1. j \in 1..w /\ Closed(p) + j \in 1..n
      BY <1>1, <2>2
    <3>2. p.pending[j].len = p.records[Closed(p) + j].len
      BY <1>1, <3>1 DEF ProverShape, w
    <3> QED BY <1>2, <1>3, <3>1, <3>2
  <2> QED BY <2>1, <2>2
<1>13. w + 1 <= n + 1
  BY <1>1
<1>14. ProverShape(q)
  <2>1. /\ IsSequence(p.groups) /\ IsSequence(p.log) /\ Len(p.groups) = Times(p.log, "commit")
        /\ \A g \in 1..Len(p.groups) : GroupShape(p.groups[g])
    BY <1>1 DEF ProverShape
  <2>2. /\ \A k \in 1..Len(q.records) : q.records[k] \in [len : Lens, mapping : {q.records[k].mapping}]
        /\ \A j \in 1..Len(q.pending) : q.pending[j].len = q.records[Closed(q) + j].len
        /\ Len(q.pending) <= Len(q.records)
    BY <1>2, <1>3, <1>9, <1>10, <1>11, <1>12, <1>13
  <2> QED BY <1>2, <1>3, <1>9, <2>1, <2>2 DEF ProverShape
<1>15. ProverKept(q, s, i + 1)
  BY <1>3, <1>5, <1>9, <1>10, <1>14 DEF ProverKept
<1> QED BY <1>9, <1>10, <1>15 DEF q, records

(* The challenge comes after the flush; an opening changes nothing. *)
LEMMA AskKept ==
  ASSUME NEW p, NEW s, IsSequence(s), NEW i, ProverKept(p, s, i),
         p.pending = <<>>, Closed(p) = Len(p.records), i < Len(s), NEW e,
         \/ s[i + 1].op = "sample" /\ e.op = "sample"
         \/ s[i + 1].op = "open" /\ e.op = "open"
  PROVE  ProverKept(Logged(p, e), s, i + 1) /\ Logged(p, e).pending = <<>>
<1> DEFINE q == Logged(p, e)
<1>1. /\ ProverShape(p) /\ Kept(s, p.log, p.records, Closed(p), i)
      /\ Due(s, Len(p.records), Closed(p), i) /\ Len(p.records) \in Nat
  BY SequenceLen DEF ProverKept, ProverShape
<1>2. e.op # "commit"
  OBVIOUS
<1>3. /\ ProverShape(q) /\ q.log = Append(p.log, e)
      /\ q.records = p.records /\ q.pending = p.pending /\ Closed(q) = Closed(p)
  BY <1>1, <1>2, LoggedOK
<1>4. Kept(s, Append(p.log, e), p.records, Closed(p), i + 1)
  <2>1. CASE s[i + 1].op = "sample" /\ e.op = "sample"
    BY <1>1, <2>1, KeptSample
  <2>2. CASE s[i + 1].op = "open" /\ e.op = "open"
    <3>1. Kept(s, p.log, p.records, Closed(p), i + 1)
      BY <1>1, <2>2, KeptOpen
    <3>2. e.op \notin {"commit", "sample"}
      BY <2>2
    <3> QED BY <3>1, <3>2, KeptLogged
  <2> QED BY <2>1, <2>2
<1>5. Due(s, Len(p.records), Closed(p), i + 1)
  BY <1>1 DEF Due
<1> HIDE DEF q
<1>6. ProverKept(q, s, i + 1) /\ q.pending = <<>>
  BY <1>3, <1>4, <1>5 DEF ProverKept
<1> QED BY <1>6 DEF q

(* A group is counted, or its buffer taken: the other groups and the rest of *)
(* the channel stay.                                                         *)
WithGroup(p, q, g, x) ==
  /\ ProverShape(q)
  /\ q.pending = p.pending /\ q.records = p.records /\ q.log = p.log
  /\ Len(q.groups) = Len(p.groups) /\ q.groups[g] = x
  /\ \A h \in 1..Len(p.groups) : h # g => q.groups[h] = p.groups[h]

LEMMA WithGroupOK ==
  ASSUME NEW p, ProverShape(p), NEW g \in 1..Len(p.groups), NEW x, GroupShape(x),
         NEW q, q = [p EXCEPT !.groups = [p.groups EXCEPT ![g] = x]]
  PROVE  WithGroup(p, q, g, x)
<1> DEFINE groups == [p.groups EXCEPT ![g] = x]
           n == Len(p.groups)
<1>1. n \in Nat /\ DOMAIN p.groups = 1..n /\ g \in 1..n
  BY SequenceLen DEF ProverShape
<1>2. /\ DOMAIN groups = 1..n /\ groups = [h \in DOMAIN groups |-> groups[h]]
      /\ groups[g] = x /\ \A h \in 1..n : h # g => groups[h] = p.groups[h]
  BY <1>1
<1>3. IsSequence(groups) /\ Len(groups) = n
  <2> HIDE DEF groups, n
  <2> QED BY <1>1, <1>2, TabledSequence
<1>4. p \in [pending : {p.pending}, records : {p.records}, groups : {p.groups}, log : {p.log}]
  BY DEF ProverShape
<1>5. q = [p EXCEPT !.groups = groups]
  OBVIOUS
<1> HIDE DEF groups
<1>6. q = [pending |-> p.pending, records |-> p.records, groups |-> groups, log |-> p.log]
  BY <1>4, <1>5
<1>7. /\ q.pending = p.pending /\ q.records = p.records /\ q.groups = groups /\ q.log = p.log
      /\ q \in [pending : {q.pending}, records : {q.records}, groups : {q.groups}, log : {q.log}]
  BY ONLY <1>6
<1>8. \A h \in 1..n : GroupShape(groups[h])
  <2>1. \A h \in 1..n : GroupShape(p.groups[h])
    BY DEF ProverShape
  <2> QED BY <1>2, <2>1
<1>9. Closed(q) = Closed(p)
  BY <1>7 DEF Closed
<1>10. ProverShape(q)
  BY <1>3, <1>7, <1>8, <1>9 DEF ProverShape
<1> QED BY <1>2, <1>3, <1>7, <1>10 DEF WithGroup

Counted(p, g) == [p EXCEPT !.groups[g].n_finalized = @ + 1]
Taken(p, g)   == [p EXCEPT !.groups[g].buffer = <<>>]

LEMMA CountedOK ==
  ASSUME NEW p, ProverShape(p), NEW g \in 1..Len(p.groups)
  PROVE  WithGroup(p, Counted(p, g), g,
                   [buffer |-> p.groups[g].buffer, n_members |-> p.groups[g].n_members,
                    n_finalized |-> p.groups[g].n_finalized + 1])
<1> DEFINE old == p.groups[g]
           x == [buffer |-> old.buffer, n_members |-> old.n_members,
                 n_finalized |-> old.n_finalized + 1]
<1>1. GroupShape(old) /\ GroupShape(x)
  BY DEF ProverShape, GroupShape
<1>2. [old EXCEPT !.n_finalized = @ + 1] = x
  <2> HIDE DEF old
  <2>1. old \in [buffer : {old.buffer}, n_members : {old.n_members}, n_finalized : {old.n_finalized}]
    BY <1>1 DEF GroupShape
  <2> QED BY <2>1
<1>3. g \in DOMAIN p.groups
  BY SequenceLen DEF ProverShape
<1>4. p \in [pending : {p.pending}, records : {p.records}, groups : {p.groups}, log : {p.log}]
  BY DEF ProverShape
<1>5. Counted(p, g) = [p EXCEPT !.groups = [p.groups EXCEPT ![g] = x]]
  BY <1>2, <1>3, <1>4 DEF Counted
<1> QED BY <1>1, <1>5, WithGroupOK

LEMMA TakenOK ==
  ASSUME NEW p, ProverShape(p), NEW g \in 1..Len(p.groups)
  PROVE  WithGroup(p, Taken(p, g), g,
                   [buffer |-> <<>>, n_members |-> p.groups[g].n_members,
                    n_finalized |-> p.groups[g].n_finalized])
<1> DEFINE old == p.groups[g]
           x == [buffer |-> <<>>, n_members |-> old.n_members, n_finalized |-> old.n_finalized]
<1>1. GroupShape(old) /\ GroupShape(x)
  BY DEF ProverShape, GroupShape
<1>2. [old EXCEPT !.buffer = <<>>] = x
  <2> HIDE DEF old
  <2>1. old \in [buffer : {old.buffer}, n_members : {old.n_members}, n_finalized : {old.n_finalized}]
    BY <1>1 DEF GroupShape
  <2> QED BY <2>1
<1>3. g \in DOMAIN p.groups
  BY SequenceLen DEF ProverShape
<1>4. p \in [pending : {p.pending}, records : {p.records}, groups : {p.groups}, log : {p.log}]
  BY DEF ProverShape
<1>5. Taken(p, g) = [p EXCEPT !.groups = [p.groups EXCEPT ![g] = x]]
  BY <1>2, <1>3, <1>4 DEF Taken
<1> QED BY <1>1, <1>5, WithGroupOK

LEMMA WithGroupKept ==
  ASSUME NEW p, NEW s, NEW i, ProverKept(p, s, i), NEW q, NEW g, NEW x, WithGroup(p, q, g, x)
  PROVE  ProverKept(q, s, i)
<1>1. Closed(q) = Closed(p)
  BY DEF WithGroup, Closed
<1> QED BY <1>1 DEF WithGroup, ProverKept
------------------------------------------------------------------------------
(* What a group knows of its members and of those handed back. *)
Members(p, g)   == {k \in 1..Len(p.records) : p.records[k].mapping.group = g}
Forwarded(log, g) == {i \in On(log, "finalize") : log[i].group = g}

GroupKept(p, h, g) ==
  /\ Members(p, g) # {}
  /\ p.groups[g].n_members = Cardinality(Members(p, g))
  /\ p.groups[g].n_finalized = Cardinality(Members(p, g) \cap h)
  /\ p.groups[g].buffer = <<>> <=> Members(p, g) \subseteq h
  /\ Cardinality(Forwarded(p.log, g)) = IF Members(p, g) \subseteq h THEN 1 ELSE 0

GroupsKept(p, h) ==
  /\ h \subseteq 1..Closed(p)
  /\ \A g \in 1..Len(p.groups) : GroupKept(p, h, g)
  /\ \A i \in On(p.log, "finalize") : p.log[i].group \in 1..Len(p.groups)

(* What a log entry more forwards. *)
LEMMA FinalizeAppend ==
  ASSUME NEW log, IsSequence(log), NEW e, NEW i \in On(Append(log, e), "finalize")
  PROVE  \/ i \in On(log, "finalize") /\ Append(log, e)[i] = log[i]
         \/ e.op = "finalize" /\ Append(log, e)[i] = e
<1> DEFINE n == Len(log)
           l == Append(log, e)
<1>0. IsSequence(log)
  OBVIOUS
<1>1. IsSequence(l) /\ Len(l) = n + 1 /\ (\A j \in 1..n : l[j] = log[j]) /\ l[n + 1] = e
  BY ONLY <1>0, AppendSequence, ZenonT(60)
<1>2. i \in 1..n + 1 /\ l[i].op = "finalize" /\ n \in Nat
  <2>1. i \in On(l, "finalize")
    OBVIOUS
  <2> HIDE DEF l
  <2> QED BY ONLY <1>0, <1>1, <2>1, OnPlaces, SequenceLen
<1>3. i \in 1..n \/ i = n + 1
  BY <1>2
<1>4. i \in 1..n /\ log[i].op = "finalize" => i \in On(log, "finalize")
  BY ONLY <1>0, OnPlaces
<1> QED BY <1>1, <1>2, <1>3, <1>4

LEMMA ForwardedAppend ==
  ASSUME NEW log, IsSequence(log), NEW e, NEW g
  PROVE  /\ ~(e.op = "finalize" /\ e.group = g) => Forwarded(Append(log, e), g) = Forwarded(log, g)
         /\ e.op = "finalize" /\ e.group = g /\ Cardinality(Forwarded(log, g)) = 0 =>
              Cardinality(Forwarded(Append(log, e), g)) = 1
<1> DEFINE n == Len(log)
           l == Append(log, e)
           P == On(log, "finalize")
           Q == On(l, "finalize")
<1>0. IsSequence(log)
  OBVIOUS
<1>1. n \in Nat
  BY <1>0, SequenceLen
<1>2. IsSequence(l) /\ Len(l) = n + 1 /\ (\A i \in 1..n : l[i] = log[i]) /\ l[n + 1] = e
  BY ONLY <1>0, AppendSequence, ZenonT(60)
<1> HIDE DEF l
<1>3. \A i : i \in P <=> i \in 1..n /\ log[i].op = "finalize"
  BY ONLY <1>0, OnPlaces
<1>4. \A i : i \in Q <=> i \in 1..n + 1 /\ l[i].op = "finalize"
  BY ONLY <1>2, OnPlaces
<1>5. \A i : i \in 1..n + 1 <=> i \in 1..n \/ i = n + 1
  BY <1>1
<1>6. n + 1 \notin 1..n
  BY <1>1
<1> HIDE DEF P, Q, n
<1>7. \A i : i \in Q <=> (i \in P \/ (i = n + 1 /\ e.op = "finalize"))
  BY <1>2, <1>3, <1>4, <1>5, <1>6
<1>8. \A i : i \in P => l[i] = log[i]
  BY <1>2, <1>3
<1>9. \A i : i \in Forwarded(Append(log, e), g) <=>
             (i \in Forwarded(log, g) \/ (i = n + 1 /\ e.op = "finalize" /\ e.group = g))
  BY <1>2, <1>7, <1>8 DEF Forwarded, Q, P, l
<1>10. ASSUME ~(e.op = "finalize" /\ e.group = g) PROVE Forwarded(Append(log, e), g) = Forwarded(log, g)
  BY <1>9, <1>10
<1>11. ASSUME e.op = "finalize" /\ e.group = g, Cardinality(Forwarded(log, g)) = 0
       PROVE  Cardinality(Forwarded(Append(log, e), g)) = 1
  <2>1. Forwarded(log, g) = {}
    <3>1. Forwarded(log, g) \subseteq 1..n
      BY <1>3 DEF Forwarded, P
    <3>2. IsFiniteSet(1..n)
      <4>1. 1 \in Int /\ n \in Int
        BY <1>1
      <4> QED BY <4>1, FS_Interval
    <3>3. IsFiniteSet(Forwarded(log, g))
      BY <3>1, <3>2, FS_Subset
    <3> QED BY <1>11, <3>3, FS_EmptySet
  <2>2. Forwarded(Append(log, e), g) = {n + 1}
    BY <1>9, <1>11, <2>1
  <2> QED BY <2>2, FS_Singleton
<1> QED BY <1>10, <1>11

LEMMA SameGroups ==
  ASSUME NEW p, NEW h, GroupsKept(p, h), NEW q, q.groups = p.groups, Closed(q) = Closed(p),
         \A g \in 1..Len(p.groups) : Members(q, g) = Members(p, g),
         \A g \in 1..Len(p.groups) : Forwarded(q.log, g) = Forwarded(p.log, g),
         \A i \in On(q.log, "finalize") : q.log[i].group \in 1..Len(p.groups)
  PROVE  GroupsKept(q, h)
<1>1. ASSUME NEW g \in 1..Len(p.groups) PROVE GroupKept(q, h, g)
  <2>1. GroupKept(p, h, g) /\ Members(q, g) = Members(p, g) /\ Forwarded(q.log, g) = Forwarded(p.log, g)
    BY DEF GroupsKept
  <2> HIDE DEF Members, Forwarded
  <2> QED BY <2>1 DEF GroupKept
<1> QED BY <1>1 DEF GroupsKept

LEMMA SendGroups ==
  ASSUME NEW p, ProverShape(p), NEW h, GroupsKept(p, h),
         NEW q, q.groups = p.groups, q.log = p.log, Closed(q) = Closed(p),
         NEW r, q.records = Append(p.records, r), r.mapping = Unmapped
  PROVE  GroupsKept(q, h)
<1> DEFINE n == Len(p.records)
           records == Append(p.records, r)
<1>0. IsSequence(p.records)
  BY DEF ProverShape
<1>1. /\ n \in Nat /\ Len(records) = n + 1
      /\ \A k \in 1..n : records[k] = p.records[k]
      /\ records[n + 1] = r
  BY ONLY <1>0, SequenceLen, AppendSequence
<1>2. \A g \in 1..Len(p.groups) : Forwarded(q.log, g) = Forwarded(p.log, g)
  BY DEF Forwarded
<1>3. ASSUME NEW g \in 1..Len(p.groups) PROVE Members(q, g) = Members(p, g)
  <2>1. g # 0
    OBVIOUS
  <2>2. records[n + 1].mapping.group = 0
    BY <1>1 DEF Unmapped
  <2>3. \A k : k \in 1..n + 1 <=> k \in 1..n \/ k = n + 1
    BY <1>1
  <2> HIDE DEF records, n
  <2>4. \A k : k \in 1..n + 1 /\ records[k].mapping.group = g
               <=> k \in 1..n /\ p.records[k].mapping.group = g
    BY <1>1, <2>1, <2>2, <2>3
  <2>5. q.records = records
    BY DEF records
  <2> QED BY <1>1, <2>4, <2>5 DEF Members, n
<1>4. \A i \in On(q.log, "finalize") : q.log[i].group \in 1..Len(p.groups)
  BY DEF GroupsKept
<1> QED BY <1>2, <1>3, <1>4, SameGroups

LEMMA LogGroups ==
  ASSUME NEW p, ProverShape(p), NEW h, GroupsKept(p, h),
         NEW e, e.op \notin {"commit", "finalize"}
  PROVE  GroupsKept(Logged(p, e), h)
<1> DEFINE q == Logged(p, e)
<1>1. /\ q.log = Append(p.log, e) /\ q.records = p.records /\ q.groups = p.groups
      /\ Closed(q) = Closed(p)
  BY LoggedOK
<1> HIDE DEF q
<1>2. \A g \in 1..Len(p.groups) : Members(q, g) = Members(p, g)
  BY <1>1 DEF Members
<1>3. \A g \in 1..Len(p.groups) : Forwarded(q.log, g) = Forwarded(p.log, g)
  <2>1. IsSequence(p.log) /\ e.op # "finalize"
    BY DEF ProverShape
  <2>2. \A g : Forwarded(Append(p.log, e), g) = Forwarded(p.log, g)
    BY ONLY <2>1, ForwardedAppend
  <2> QED BY <1>1, <2>2
<1>4. \A i \in On(q.log, "finalize") : q.log[i].group \in 1..Len(p.groups)
  <2>1. ASSUME NEW i \in On(q.log, "finalize")
        PROVE  i \in On(p.log, "finalize") /\ q.log[i] = p.log[i]
    <3>1. IsSequence(p.log) /\ i \in On(Append(p.log, e), "finalize")
      BY <1>1 DEF ProverShape
    <3>2. e.op # "finalize"
      OBVIOUS
    <3>3. i \in On(p.log, "finalize") /\ Append(p.log, e)[i] = p.log[i]
      BY ONLY <3>1, <3>2, FinalizeAppend
    <3> QED BY <1>1, <3>3
  <2> QED BY <2>1 DEF GroupsKept
<1>5. GroupsKept(q, h)
  BY <1>1, <1>2, <1>3, <1>4, SameGroups
<1> QED BY <1>5 DEF q

(* A flush gives the open records a group of their own, none of them handed  *)
(* back yet.                                                                 *)
LEMMA FlushGroups ==
  ASSUME NEW p, NEW s, IsSequence(s), NEW i, ProverKept(p, s, i), NEW h, GroupsKept(p, h)
  PROVE  GroupsKept(FlushProver(p), h)
<1> DEFINE q == FlushProver(p)
           n == Len(p.records)
           c == Closed(p)
           w == Len(p.pending)
           G == Len(p.groups)
<1>1. /\ ProverShape(p) /\ Kept(s, p.log, p.records, c, i)
      /\ n \in Nat /\ w \in Nat /\ G \in Nat /\ w <= n /\ c = n - w /\ c \in 0..n
      /\ G = Times(p.log, "commit")
  BY SequenceLen DEF ProverKept, ProverShape, Closed
<1>2. CASE p.pending = <<>>
  <2>1. q = p
    BY <1>1, <1>2, FlushProverOK
  <2> QED BY <2>1
<1>3. CASE p.pending # <<>>
  <2>1. w > 0
    BY <1>1, <1>3, SequenceLen DEF ProverShape
  <2>2. /\ Remapped(p.records, q.records, c, G + 1)
        /\ \E e : e.op = "commit" /\ q.log = Append(p.log, e)
        /\ \E b : q.groups = Append(p.groups, [buffer |-> <<b>>, n_members |-> w, n_finalized |-> 0])
    BY <1>1, <1>3, FlushProverOK
  <2>3. Closed(q) = n /\ Len(q.records) = n
    BY FlushProverKept
  <2> HIDE DEF q
  <2>4. PICK e : e.op = "commit" /\ q.log = Append(p.log, e)
    BY <2>2
  <2>5. PICK b : q.groups = Append(p.groups, [buffer |-> <<b>>, n_members |-> w, n_finalized |-> 0])
    BY <2>2
  <2> DEFINE x == [buffer |-> <<b>>, n_members |-> w, n_finalized |-> 0]
  <2>6. /\ Len(q.groups) = G + 1 /\ q.groups[G + 1] = x
        /\ \A g \in 1..G : q.groups[g] = p.groups[g]
    <3>1. IsSequence(p.groups)
      BY <1>1 DEF ProverShape
    <3> HIDE DEF x
    <3>2. /\ Len(Append(p.groups, x)) = G + 1 /\ Append(p.groups, x)[G + 1] = x
          /\ \A g \in 1..G : Append(p.groups, x)[g] = p.groups[g]
      BY ONLY <3>1, AppendSequence
    <3>3. q.groups = Append(p.groups, x)
      BY <2>5 DEF x
    <3> QED BY <3>2, <3>3
  <2>7. x.buffer # <<>> /\ x.n_members = w /\ x.n_finalized = 0
    BY SingletonIsSequence
  <2> HIDE DEF x
  <2>8. /\ \A k \in 1..c : q.records[k] = p.records[k] /\ p.records[k].mapping.group \in 1..G
        /\ \A k \in c + 1..n : q.records[k].mapping.group = G + 1 /\ p.records[k].mapping.group = 0
    <3>1. \A k \in 1..c : q.records[k] = p.records[k] /\ p.records[k].mapping.group \in 1..G
      BY <1>1, <2>2 DEF Remapped, Grouped, Kept
    <3>2. ASSUME NEW k \in c + 1..n
          PROVE  q.records[k].mapping.group = G + 1 /\ p.records[k].mapping.group = 0
      <4>1. k \in 1..n /\ ~(k <= c)
        BY <1>1
      <4>2. p.records[k].mapping = Unmapped
        BY <1>1, <4>1 DEF Kept, Committed
      <4> QED BY <2>2, <4>2 DEF Unmapped, Remapped, Grouped
    <3> QED BY <3>1, <3>2
  <2>9. /\ \A k : k \in 1..n <=> k \in 1..c \/ k \in c + 1..n
        /\ (c + 1..n) \cap (1..c) = {}
    <3> HIDE DEF n, c, w, G
    <3> QED BY <1>1
  <2>10. \A g \in 1..G : Members(q, g) = Members(p, g)
    <3>1. ASSUME NEW g \in 1..G, NEW k
          PROVE  k \in 1..n /\ q.records[k].mapping.group = g
                 <=> k \in 1..n /\ p.records[k].mapping.group = g
      <4>1. g # G + 1 /\ g # 0
        BY <1>1
      <4> QED BY <2>8, <2>9, <4>1
    <3> QED BY <2>3, <3>1 DEF Members
  <2>11. Members(q, G + 1) = c + 1..n
    <3>1. ASSUME NEW k
          PROVE  k \in 1..n /\ q.records[k].mapping.group = G + 1 <=> k \in c + 1..n
      <4>1. G + 1 \notin 1..G
        BY <1>1
      <4> QED BY <2>8, <2>9, <4>1
    <3> QED BY <2>3, <3>1 DEF Members
  <2>12. Members(q, G + 1) # {} /\ Cardinality(Members(q, G + 1)) = w
    <3>1. c + 1 \in Int /\ n \in Int /\ c + 1 <= n /\ n - (c + 1) + 1 = w
      BY <1>1, <2>1
    <3>2. Cardinality(c + 1..n) = w
      BY <3>1, FS_Interval
    <3> QED BY <2>11, <3>1, <3>2
  <2>13. /\ Members(q, G + 1) \cap h = {} /\ ~(Members(q, G + 1) \subseteq h)
    <3>1. h \subseteq 1..c
      BY DEF GroupsKept
    <3> QED BY <2>9, <2>11, <2>12, <3>1
  <2>14. \A g : Forwarded(q.log, g) = Forwarded(p.log, g)
    <3>1. IsSequence(p.log) /\ e.op # "finalize"
      BY <1>1, <2>4 DEF ProverShape
    <3>2. \A g : Forwarded(Append(p.log, e), g) = Forwarded(p.log, g)
      BY ONLY <3>1, ForwardedAppend
    <3> QED BY <2>4, <3>2
  <2>15. \A j \in On(q.log, "finalize") : j \in On(p.log, "finalize") /\ q.log[j].group \in 1..G
    <3>1. ASSUME NEW j \in On(q.log, "finalize")
          PROVE  j \in On(p.log, "finalize") /\ q.log[j] = p.log[j]
      <4>1. /\ IsSequence(p.log) /\ e.op # "finalize"
            /\ j \in On(Append(p.log, e), "finalize")
        BY <1>1, <2>4 DEF ProverShape
      <4>2. j \in On(p.log, "finalize") /\ Append(p.log, e)[j] = p.log[j]
        BY ONLY <4>1, FinalizeAppend
      <4> QED BY <2>4, <4>2
    <3> QED BY <3>1 DEF GroupsKept
  <2>16. Forwarded(q.log, G + 1) = {}
    <3>1. G + 1 \notin 1..G
      BY <1>1
    <3> QED BY <2>15, <3>1 DEF Forwarded
  <2>17. GroupKept(q, h, G + 1)
    BY <2>6, <2>7, <2>12, <2>13, <2>16, FS_EmptySet DEF GroupKept
  <2>18. ASSUME NEW g \in 1..G PROVE GroupKept(q, h, g)
    <3>1. GroupKept(p, h, g)
      BY DEF GroupsKept
    <3> QED BY <2>6, <2>10, <2>14, <3>1 DEF GroupKept
  <2>19. \A g : g \in 1..G + 1 <=> g \in 1..G \/ g = G + 1
    BY <1>1
  <2>20. h \subseteq 1..n
    BY <1>1 DEF GroupsKept
  <2>21. GroupsKept(q, h)
    BY <2>3, <2>6, <2>15, <2>17, <2>18, <2>19, <2>20 DEF GroupsKept
  <2> QED BY <2>21 DEF q
<1> QED BY <1>2, <1>3

(* An oracle handed back is counted in its group, and the last of a group    *)
(* takes the buffer.                                                         *)
HandBack(p, k) ==
  LET g == p.records[k].mapping.group
      counted == Counted(p, g)
  IN  IF counted.groups[g].n_finalized = counted.groups[g].n_members
      THEN Logged(Taken(counted, g), [op |-> "finalize", group |-> g,
                                      buffer |-> Last(counted.groups[g].buffer)])
      ELSE counted

LEMMA OneMore ==
  ASSUME NEW M, IsFiniteSet(M), NEW h, NEW k \in M, k \notin h
  PROVE  /\ Cardinality(M \cap (h \cup {k})) = Cardinality(M \cap h) + 1
         /\ Cardinality(M \cap (h \cup {k})) = Cardinality(M) <=> M \subseteq h \cup {k}
         /\ ~(M \subseteq h)
<1>1. IsFiniteSet(M \cap h) /\ IsFiniteSet(M \cap (h \cup {k}))
  <2>1. M \cap h \subseteq M /\ M \cap (h \cup {k}) \subseteq M
    OBVIOUS
  <2> QED BY <2>1, FS_Subset
<1>2. M \cap (h \cup {k}) = (M \cap h) \cup {k} /\ k \notin M \cap h
  OBVIOUS
<1>3. Cardinality(M \cap (h \cup {k})) = Cardinality(M \cap h) + 1
  BY <1>1, <1>2, FS_AddElement
<1>4. Cardinality(M \cap (h \cup {k})) = Cardinality(M) => M \cap (h \cup {k}) = M
  <2>1. M \cap (h \cup {k}) \subseteq M
    OBVIOUS
  <2> QED BY <1>1, <2>1, FS_Subset
<1>5. M \subseteq h \cup {k} <=> M \cap (h \cup {k}) = M
  OBVIOUS
<1> QED BY <1>3, <1>4, <1>5

LEMMA HandBackKept ==
  ASSUME NEW p, NEW s, NEW i, ProverKept(p, s, i), Closed(p) = Len(p.records),
         NEW h, GroupsKept(p, h), NEW k \in 1..Len(p.records), k \notin h
  PROVE  ProverKept(HandBack(p, k), s, i) /\ GroupsKept(HandBack(p, k), h \cup {k})
<1> DEFINE g == p.records[k].mapping.group
           n == Len(p.records)
           G == Len(p.groups)
           old == p.groups[g]
           counted == Counted(p, g)
           x == [buffer |-> old.buffer, n_members |-> old.n_members,
                 n_finalized |-> old.n_finalized + 1]
           y == [buffer |-> <<>>, n_members |-> x.n_members, n_finalized |-> x.n_finalized]
           taken == Taken(counted, g)
           e == [op |-> "finalize", group |-> g, buffer |-> Last(counted.groups[g].buffer)]
           q == HandBack(p, k)
           new == h \cup {k}
<1>1. /\ ProverShape(p) /\ n \in Nat /\ G \in Nat /\ g \in 1..G /\ Closed(p) = n
      /\ IsSequence(p.log)
  <2>1. ProverShape(p) /\ n \in Nat /\ G \in Nat /\ IsSequence(p.log)
    BY SequenceLen DEF ProverKept, ProverShape
  <2>2. g \in 1..Times(p.log, "commit") /\ G = Times(p.log, "commit")
    BY DEF ProverKept, ProverShape, Kept
  <2> QED BY <2>1, <2>2
<1>2. WithGroup(p, counted, g, x)
  BY <1>1, CountedOK
<1> HIDE DEF g, counted
<1>3. ProverShape(counted) /\ g \in 1..Len(counted.groups) /\ counted.groups[g] = x
  BY <1>1, <1>2 DEF WithGroup
<1>4. WithGroup(counted, taken, g, y)
  <2> HIDE DEF x
  <2> QED BY <1>3, TakenOK
<1> HIDE DEF taken
<1>5. ProverKept(counted, s, i)
  BY <1>2, WithGroupKept
<1>6. ProverKept(taken, s, i)
  BY <1>4, <1>5, WithGroupKept
<1>7. q = IF x.n_finalized = x.n_members THEN Logged(taken, e) ELSE counted
  BY <1>3 DEF HandBack, g, counted, taken
<1>8. /\ Logged(taken, e).log = Append(taken.log, e)
      /\ Logged(taken, e).records = taken.records /\ Logged(taken, e).groups = taken.groups
      /\ ProverShape(Logged(taken, e)) /\ Closed(Logged(taken, e)) = Closed(taken)
  <2>1. ProverShape(taken) /\ e.op # "commit"
    BY <1>6 DEF ProverKept
  <2> QED BY <2>1, LoggedOK
<1>9. ProverKept(q, s, i)
  <2>1. Kept(s, Append(taken.log, e), taken.records, Closed(taken), i)
    <3>1. Kept(s, taken.log, taken.records, Closed(taken), i) /\ e.op \notin {"commit", "sample"}
      BY <1>6 DEF ProverKept
    <3> HIDE DEF e
    <3> QED BY <3>1, KeptLogged
  <2>2. ProverKept(Logged(taken, e), s, i)
    BY <1>6, <1>8, <2>1 DEF ProverKept
  <2> QED BY <1>5, <1>7, <2>2
<1>10. /\ counted.records = p.records /\ counted.log = p.log /\ Len(counted.groups) = G
       /\ taken.records = p.records /\ taken.log = p.log /\ Len(taken.groups) = G
       /\ taken.groups[g] = y
       /\ \A f \in 1..G : f # g => counted.groups[f] = p.groups[f] /\ taken.groups[f] = p.groups[f]
       /\ Closed(counted) = n /\ Closed(taken) = n
  BY <1>1, <1>2, <1>4 DEF WithGroup, Closed
<1> DEFINE M == Members(p, g)
<1>11. IsFiniteSet(M) /\ k \in M
  <2>1. 1 \in Int /\ n \in Int
    BY <1>1
  <2>2. IsFiniteSet(1..n)
    BY <2>1, FS_Interval
  <2>3. M \subseteq 1..n /\ k \in M
    BY DEF Members, g
  <2> QED BY <2>2, <2>3, FS_Subset
<1>12. GroupKept(p, h, g)
  BY <1>1 DEF GroupsKept
<1>13. /\ x.n_members = Cardinality(M) /\ x.n_finalized = Cardinality(M \cap new)
       /\ Cardinality(Forwarded(p.log, g)) = 0 /\ x.buffer # <<>> /\ M # {}
       /\ x.n_finalized = x.n_members <=> M \subseteq new
  <2>1. /\ Cardinality(M \cap new) = Cardinality(M \cap h) + 1
        /\ Cardinality(M \cap new) = Cardinality(M) <=> M \subseteq new
        /\ ~(M \subseteq h)
    BY <1>11, OneMore
  <2> QED BY <1>12, <2>1 DEF GroupKept
<1>14. y.n_members = x.n_members /\ y.n_finalized = x.n_finalized /\ y.buffer = <<>>
  OBVIOUS
<1>15. ASSUME NEW f \in 1..G, f # g PROVE Members(p, f) \cap new = Members(p, f) \cap h
                                       /\ (Members(p, f) \subseteq new <=> Members(p, f) \subseteq h)
  <2>1. k \notin Members(p, f)
    BY <1>15 DEF Members, g
  <2> QED BY <2>1
<1>16. new \subseteq 1..n
  BY <1>1 DEF GroupsKept
<1>17. e.op = "finalize" /\ e.group = g
  OBVIOUS
<1> HIDE DEF e, x, y, new, M, n, G, q
<1>18. CASE M \subseteq new
  <2>1. /\ q.log = Append(p.log, e) /\ q.records = p.records /\ q.groups = taken.groups
        /\ Closed(q) = n
    BY <1>7, <1>8, <1>10, <1>13, <1>18
  <2>2. \A f : Members(q, f) = Members(p, f)
    BY <2>1 DEF Members
  <2>3. GroupKept(q, new, g)
    <3>1. Cardinality(Forwarded(Append(p.log, e), g)) = 1
      BY <1>1, <1>13, <1>17, ForwardedAppend
    <3> QED BY <1>10, <1>13, <1>14, <1>18, <2>1, <2>2, <3>1 DEF GroupKept, M
  <2>4. ASSUME NEW f \in 1..G, f # g PROVE GroupKept(q, new, f)
    <3>1. Forwarded(Append(p.log, e), f) = Forwarded(p.log, f)
      BY <1>1, <1>17, <2>4, ForwardedAppend
    <3>2. GroupKept(p, h, f)
      BY DEF GroupsKept, G
    <3> QED BY <1>10, <1>15, <2>1, <2>2, <2>4, <3>1, <3>2 DEF GroupKept
  <2>5. ASSUME NEW j \in On(q.log, "finalize") PROVE q.log[j].group \in 1..G
    <3>1. j \in On(Append(p.log, e), "finalize")
      BY <2>1
    <3>2. \/ j \in On(p.log, "finalize") /\ Append(p.log, e)[j] = p.log[j]
          \/ Append(p.log, e)[j] = e
      BY ONLY <1>1, <3>1, FinalizeAppend
    <3> QED BY <1>1, <1>17, <2>1, <3>2 DEF GroupsKept, G
  <2>6. Len(q.groups) = G
    BY <1>10, <2>1
  <2>7. GroupsKept(q, new)
    BY <1>16, <2>1, <2>3, <2>4, <2>5, <2>6 DEF GroupsKept
  <2> QED BY <1>9, <2>7 DEF q, new
<1>19. CASE ~(M \subseteq new)
  <2>1. q.log = p.log /\ q.records = p.records /\ q.groups = counted.groups /\ Closed(q) = n
    BY <1>7, <1>10, <1>13, <1>19
  <2>2. \A f : Members(q, f) = Members(p, f)
    BY <2>1 DEF Members
  <2>3. x.buffer # <<>> /\ counted.groups[g] = x
    BY <1>3, <1>13
  <2>4. GroupKept(q, new, g)
    BY <1>13, <1>19, <2>1, <2>2, <2>3 DEF GroupKept, M
  <2>5. ASSUME NEW f \in 1..G, f # g PROVE GroupKept(q, new, f)
    <3>1. GroupKept(p, h, f)
      BY DEF GroupsKept, G
    <3> QED BY <1>10, <1>15, <2>1, <2>2, <2>5, <3>1 DEF GroupKept
  <2>6. GroupsKept(q, new)
    BY <1>10, <1>16, <2>1, <2>4, <2>5 DEF GroupsKept, G
  <2> QED BY <1>9, <2>6 DEF q, new
<1> QED BY <1>18, <1>19
------------------------------------------------------------------------------
(* The verifier's channel between calls *)
VerifierShape(v) ==
  /\ v \in [records : {v.records}, flushed : {v.flushed}, log : {v.log}, verdict : {v.verdict}]
  /\ IsSequence(v.records) /\ IsSequence(v.log) /\ v.flushed \in 0..Len(v.records)
  /\ \A k \in 1..Len(v.records) :
       v.records[k] \in [len : Lens, wd : {v.records[k].wd}, mapping : {v.records[k].mapping}]

(* A flush fails for good: the challenges of a round that could not be       *)
(* committed are drawn, but no commitment is received after them.            *)
VerifierKept(v, s, i, t) ==
  /\ VerifierShape(v) /\ Kept(s, v.log, v.records, v.flushed, i)
  /\ Times(v.log, "commit") < t => Due(s, Len(v.records), v.flushed, i)

OpenLens(v) == [k \in 1..Len(v.records) - v.flushed |-> v.records[k + v.flushed].len]
Commit(v)   == [op |-> "commit", len |-> merged_log_msg_len(OpenLens(v)),
                wd |-> \E i \in v.flushed + 1..Len(v.records) : v.records[i].wd]

(* The records of an open round are given its mapping, and nothing else. *)
Reassigned(records, recs, closed, g) ==
  /\ Grouped(records, recs, closed, g)
  /\ \A k \in 1..Len(records) :
       recs[k] \in [len : {records[k].len}, wd : {records[k].wd}, mapping : {recs[k].mapping}]

LEMMA FlushVerifierOK ==
  ASSUME NEW v, VerifierShape(v)
  PROVE  LET q == FlushVerifier(v) IN
         /\ ~Unflushed(v) \/ FlushFails(v) => q = v
         /\ Unflushed(v) /\ ~FlushFails(v) =>
              /\ Reassigned(v.records, q.records, v.flushed, Times(v.log, "commit") + 1)
              /\ q \in [records : {q.records}, flushed : {Len(v.records)},
                        log : {Append(v.log, Commit(v))}, verdict : {v.verdict}]
<1> DEFINE first == v.flushed
           n == Len(v.records)
           open == first + 1..n
           len == [k \in 1..n - first |-> v.records[k + first].len]
           N == merged_log_msg_len(len)
           g == Times(v.log, "commit") + 1
           mapping(i) == [group |-> g, block_index |-> BlockIndices(len)[i - first],
                          combined_log_len |-> N]
           recs == [i \in DOMAIN v.records |->
                     IF i \in open THEN [v.records[i] EXCEPT !.mapping = mapping(i)]
                     ELSE v.records[i]]
           q == FlushVerifier(v)
<1>1. n \in Nat /\ DOMAIN v.records = 1..n /\ first \in 0..n
  BY SequenceLen DEF VerifierShape
<1>2. CASE ~Unflushed(v) \/ FlushFails(v)
  BY <1>2 DEF FlushVerifier
<1>3. CASE Unflushed(v) /\ ~FlushFails(v)
  <2>1. q = [v EXCEPT !.records = recs, !.flushed = n, !.log = Append(v.log, Commit(v))]
    BY <1>3 DEF FlushVerifier, Commit, OpenLens
  <2>2. \A i : mapping(i).group = g
    OBVIOUS
  <2> HIDE DEF mapping, q
  <2>3. DOMAIN recs = 1..n /\ recs = [i \in DOMAIN recs |-> recs[i]]
    BY <1>1
  <2>4. ASSUME NEW k \in 1..n
        PROVE  /\ k <= first => recs[k] = v.records[k]
               /\ k > first => recs[k] = [v.records[k] EXCEPT !.mapping = mapping(k)]
    <3>1. k \in open <=> k > first
      BY <1>1
    <3>2. k > first <=> ~(k <= first)
      BY <1>1
    <3> HIDE DEF open
    <3> QED BY <1>1, <3>1, <3>2
  <2>5. IsSequence(recs) /\ Len(recs) = n
    <3> HIDE DEF recs
    <3> QED BY <1>1, <2>3, TabledSequence
  <2> HIDE DEF recs, open
  <2>6. ASSUME NEW k \in 1..n
        PROVE  /\ recs[k] \in [len : {v.records[k].len}, wd : {v.records[k].wd},
                               mapping : {recs[k].mapping}]
               /\ k > first => recs[k].mapping = mapping(k)
    <3> DEFINE m == mapping(k)
               old == v.records[k]
               new == recs[k]
    <3>1. old \in [len : Lens, wd : {old.wd}, mapping : {old.mapping}]
      BY DEF VerifierShape
    <3>2. k <= first => new = old
      BY <2>4
    <3>3. k > first => new = [old EXCEPT !.mapping = m]
      BY <2>4
    <3>4. k <= first \/ k > first
      BY <1>1
    <3>5. k <= first => ~(k > first)
      BY <1>1
    <3> HIDE DEF m, old, new
    <3>6. old = [len |-> old.len, wd |-> old.wd, mapping |-> old.mapping]
      BY <3>1
    <3>7. CASE k > first
      <4>1. new = [len |-> old.len, wd |-> old.wd, mapping |-> m]
        BY <3>3, <3>6, <3>7
      <4> QED BY <4>1, <3>5, <3>7 DEF m, old, new
    <3>8. CASE k <= first
      <4>1. new \in [len : {old.len}, wd : {old.wd}, mapping : {new.mapping}]
        BY <3>1, <3>2, <3>8
      <4> QED BY <4>1, <3>5, <3>8 DEF old, new
    <3> QED BY <3>4, <3>7, <3>8
  <2>7. Grouped(v.records, recs, first, g)
    <3>1. \A k \in 1..first : k \in 1..n /\ k <= first
      BY <1>1
    <3>2. \A k \in first + 1..n : k \in 1..n /\ k > first
      BY <1>1
    <3>3. \A k \in 1..first : recs[k] = v.records[k]
      BY <2>4, <3>1
    <3>4. \A k \in first + 1..n : recs[k].mapping = mapping(k)
      BY <2>6, <3>2
    <3>5. \A k \in first + 1..n : recs[k].mapping.group = g
      BY <2>2, <3>4
    <3> QED BY <2>5, <3>3, <3>5 DEF Grouped
  <2>8. Reassigned(v.records, recs, first, g)
    BY <2>6, <2>7 DEF Reassigned
  <2> DEFINE l == Append(v.log, Commit(v))
  <2> HIDE DEF l, n
  <2>9. q = [records |-> recs, flushed |-> n, log |-> l, verdict |-> v.verdict]
    <3>1. v \in [records : {v.records}, flushed : {v.flushed}, log : {v.log}, verdict : {v.verdict}]
      BY DEF VerifierShape
    <3>2. q = [v EXCEPT !.records = recs, !.flushed = n, !.log = l]
      BY <2>1 DEF l
    <3> QED BY <3>1, <3>2
  <2>10. q.records = recs /\ q \in [records : {q.records}, flushed : {n}, log : {l}, verdict : {v.verdict}]
    BY ONLY <2>9
  <2> QED BY <1>3, <2>8, <2>10 DEF q, l, n
<1> QED BY <1>2, <1>3

LEMMA FlushVerifierKept ==
  ASSUME NEW v, NEW s, IsSequence(s), NEW i, VerifierKept(v, s, i, tape)
  PROVE  LET q == FlushVerifier(v) IN
         /\ VerifierKept(q, s, i, tape) /\ q.verdict = v.verdict /\ Len(q.records) = Len(v.records)
         /\ ~FlushFails(v) => q.flushed = Len(q.records)
         /\ FlushFails(v) => ~(Times(q.log, "commit") < tape)
<1> DEFINE q == FlushVerifier(v)
           n == Len(v.records)
           g == Times(v.log, "commit") + 1
<1>1. VerifierShape(v) /\ Kept(s, v.log, v.records, v.flushed, i) /\ n \in Nat /\ v.flushed \in 0..n
      /\ IsSequence(v.log)
  BY SequenceLen DEF VerifierKept, VerifierShape
<1>2. CASE ~Unflushed(v) \/ FlushFails(v)
  <2>1. q = v
    BY <1>1, <1>2, FlushVerifierOK
  <2>2. ~Unflushed(v) => v.flushed = n
    BY <1>1 DEF Unflushed
  <2> HIDE DEF q
  <2> QED BY <1>2, <2>1, <2>2 DEF FlushFails, InnerHasCommitment, q
<1>3. CASE Unflushed(v) /\ ~FlushFails(v)
  <2> DEFINE e == Commit(v)
             l == Append(v.log, e)
  <2>1. /\ Reassigned(v.records, q.records, v.flushed, g)
        /\ q \in [records : {q.records}, flushed : {n}, log : {l}, verdict : {v.verdict}]
    BY <1>1, <1>3, FlushVerifierOK
  <2>2. e.op = "commit"
    BY DEF Commit
  <2>3. Times(v.log, "commit") < tape
    BY <1>3 DEF FlushFails, InnerHasCommitment
  <2>4. Due(s, n, v.flushed, i)
    BY <2>3 DEF VerifierKept
  <2> HIDE DEF q, e, g, l
  <2>5. /\ Grouped(v.records, q.records, v.flushed, Times(v.log, "commit") + 1)
        /\ IsSequence(q.records) /\ Len(q.records) = n
    BY <2>1 DEF Reassigned, Grouped, g
  <2>6. Kept(s, l, q.records, n, i)
    BY <1>1, <2>2, <2>4, <2>5, KeptCommit DEF l
  <2>7. IsSequence(l)
    BY <1>1, AppendSequence DEF l
  <2>8. q.flushed = n /\ q.log = l /\ q.verdict = v.verdict
    BY <2>1
  <2>9. Due(s, n, n, i)
    BY <1>1 DEF Due
  <2>10. ASSUME NEW k \in 1..n
         PROVE  q.records[k] \in [len : Lens, wd : {q.records[k].wd}, mapping : {q.records[k].mapping}]
    <3> DEFINE old == v.records[k]
               new == q.records[k]
    <3>1. old \in [len : Lens, wd : {old.wd}, mapping : {old.mapping}]
      BY <1>1 DEF VerifierShape
    <3>2. new \in [len : {old.len}, wd : {old.wd}, mapping : {new.mapping}]
      BY <2>1 DEF Reassigned
    <3> HIDE DEF old, new
    <3>3. new \in [len : Lens, wd : {new.wd}, mapping : {new.mapping}]
      BY <3>1, <3>2
    <3> QED BY <3>3 DEF new
  <2>11. q \in [records : {q.records}, flushed : {q.flushed}, log : {q.log}, verdict : {q.verdict}]
    BY <2>1
  <2>12. VerifierShape(q)
    BY <1>1, <2>5, <2>7, <2>8, <2>10, <2>11 DEF VerifierShape
  <2>13. VerifierKept(q, s, i, tape)
    BY <2>5, <2>6, <2>8, <2>9, <2>12 DEF VerifierKept
  <2> QED BY <1>3, <2>5, <2>8, <2>13 DEF q
<1> QED BY <1>2, <1>3

(* An oracle received is open, and what the inner channel is asked after a   *)
(* flush leaves no round open that could still be committed.                 *)
Received(v, r) == [v EXCEPT !.records = Append(@, r)]

LEMMA ReceivedKept ==
  ASSUME NEW v, NEW s, IsSequence(s), NEW i, NEW t, VerifierKept(v, s, i, t),
         i < Len(s), s[i + 1].op = "oracle",
         NEW wd, NEW r, r \in [len : Lens, wd : {wd}, mapping : {Unmapped}]
  PROVE  LET q == Received(v, r) IN
         VerifierKept(q, s, i + 1, t) /\ q.verdict = v.verdict /\ q.records = Append(v.records, r)
<1> DEFINE q == Received(v, r)
           records == Append(v.records, r)
           n == Len(v.records)
<1>1. VerifierShape(v) /\ Kept(s, v.log, v.records, v.flushed, i) /\ n \in Nat /\ v.flushed \in 0..n
  BY SequenceLen DEF VerifierKept, VerifierShape
<1>2. IsSequence(v.records) /\ IsSequence(v.log)
  BY <1>1 DEF VerifierShape
<1>3. /\ IsSequence(records) /\ Len(records) = n + 1
      /\ \A k \in 1..n : records[k] = v.records[k]
      /\ records[n + 1] = r
  BY ONLY <1>2, AppendSequence, ZenonT(60)
<1>4. r.mapping = Unmapped /\ r \in [len : Lens, wd : {r.wd}, mapping : {r.mapping}]
  OBVIOUS
<1>5. /\ Kept(s, v.log, records, v.flushed, i + 1)
      /\ Due(s, n, v.flushed, i) => Due(s, n + 1, v.flushed, i + 1)
  BY <1>1, <1>4, KeptOracle
<1>6. q = [v EXCEPT !.records = records]
  BY DEF Received
<1>7. v \in [records : {v.records}, flushed : {v.flushed}, log : {v.log}, verdict : {v.verdict}]
  BY <1>1 DEF VerifierShape
<1> HIDE DEF q, records, n
<1>8. q = [records |-> records, flushed |-> v.flushed, log |-> v.log, verdict |-> v.verdict]
  BY ONLY <1>6, <1>7
<1>9. /\ q.records = records /\ q.flushed = v.flushed /\ q.log = v.log /\ q.verdict = v.verdict
      /\ q \in [records : {q.records}, flushed : {q.flushed}, log : {q.log}, verdict : {q.verdict}]
  BY ONLY <1>8
<1>10. ASSUME NEW k \in 1..n + 1
       PROVE  records[k] \in [len : Lens, wd : {records[k].wd}, mapping : {records[k].mapping}]
  <2>1. CASE k = n + 1
    BY <1>3, <1>4, <2>1
  <2>2. CASE k # n + 1
    <3>1. k \in 1..n
      BY <1>1, <2>2
    <3> QED BY <1>1, <1>3, <3>1 DEF VerifierShape, n
  <2> QED BY <2>1, <2>2
<1>11. v.flushed \in 0..n + 1
  BY <1>1
<1>12. VerifierShape(q)
  BY <1>2, <1>3, <1>9, <1>10, <1>11 DEF VerifierShape
<1>13. Times(q.log, "commit") < t => Due(s, n + 1, v.flushed, i + 1)
  BY <1>5, <1>9 DEF VerifierKept, n
<1> QED BY <1>3, <1>5, <1>9, <1>12, <1>13 DEF VerifierKept, q, records

LEMMA VerifierAskKept ==
  ASSUME NEW v, NEW s, IsSequence(s), NEW i, NEW t, VerifierKept(v, s, i, t),
         v.flushed = Len(v.records) \/ ~(Times(v.log, "commit") < t), i < Len(s), NEW e,
         \/ s[i + 1].op = "sample" /\ e.op = "sample"
         \/ s[i + 1].op = "open" /\ e.op = "open"
  PROVE  LET q == Logged(v, e) IN VerifierKept(q, s, i + 1, t) /\ q.verdict = v.verdict
<1> DEFINE q == Logged(v, e)
           l == Append(v.log, e)
           n == Len(v.records)
<1>1. /\ VerifierShape(v) /\ Kept(s, v.log, v.records, v.flushed, i)
      /\ IsSequence(v.log) /\ n \in Nat
  BY SequenceLen DEF VerifierKept, VerifierShape
<1>2. e.op # "commit"
  OBVIOUS
<1>3. IsSequence(l) /\ Times(l, "commit") = Times(v.log, "commit")
  <2>1. IsSequence(l)
    BY <1>1, AppendSequence
  <2> QED BY <1>1, <1>2, <2>1, OnAppend
<1>4. Kept(s, l, v.records, v.flushed, i + 1)
  <2>1. CASE s[i + 1].op = "sample" /\ e.op = "sample"
    BY <1>1, <2>1, KeptSample
  <2>2. CASE s[i + 1].op = "open" /\ e.op = "open"
    <3>1. Kept(s, v.log, v.records, v.flushed, i + 1)
      BY <1>1, <2>2, KeptOpen
    <3>2. e.op \notin {"commit", "sample"}
      BY <2>2
    <3> QED BY <3>1, <3>2, KeptLogged
  <2> QED BY <2>1, <2>2
<1>5. q = [v EXCEPT !.log = l]
  BY DEF Logged
<1>6. v \in [records : {v.records}, flushed : {v.flushed}, log : {v.log}, verdict : {v.verdict}]
  BY <1>1 DEF VerifierShape
<1> HIDE DEF q, l, n
<1>7. q = [records |-> v.records, flushed |-> v.flushed, log |-> l, verdict |-> v.verdict]
  BY ONLY <1>5, <1>6
<1>8. /\ q.records = v.records /\ q.flushed = v.flushed /\ q.log = l /\ q.verdict = v.verdict
      /\ q \in [records : {q.records}, flushed : {q.flushed}, log : {q.log}, verdict : {q.verdict}]
  BY ONLY <1>7
<1>9. VerifierShape(q)
  BY <1>1, <1>3, <1>8 DEF VerifierShape
<1>10. Times(q.log, "commit") < t => Due(s, n, v.flushed, i + 1)
  <2>1. ASSUME Times(q.log, "commit") < t PROVE v.flushed = n
    BY <1>3, <1>8, <2>1 DEF n
  <2> QED BY <1>1, <2>1 DEF Due
<1> QED BY <1>4, <1>8, <1>9, <1>10 DEF VerifierKept, q, n

(* The verdict is the last thing written. *)
LEMMA VerdictKept ==
  ASSUME NEW v, NEW s, NEW i, NEW t, VerifierKept(v, s, i, t), NEW d
  PROVE  LET q == [v EXCEPT !.verdict = d] IN
         VerifierKept(q, s, i, t) /\ q.verdict = d /\ q.records = v.records /\ q.flushed = v.flushed
<1> DEFINE q == [v EXCEPT !.verdict = d]
<1>1. v \in [records : {v.records}, flushed : {v.flushed}, log : {v.log}, verdict : {v.verdict}]
  BY DEF VerifierKept, VerifierShape
<1>2. q = [records |-> v.records, flushed |-> v.flushed, log |-> v.log, verdict |-> d]
  BY <1>1
<1> HIDE DEF q
<1>3. /\ q.records = v.records /\ q.flushed = v.flushed /\ q.log = v.log /\ q.verdict = d
      /\ q \in [records : {q.records}, flushed : {q.flushed}, log : {q.log}, verdict : {q.verdict}]
  BY ONLY <1>2
<1>4. VerifierShape(q)
  BY <1>3 DEF VerifierKept, VerifierShape
<1>5. Times(q.log, "commit") < t => Times(v.log, "commit") < t
  BY <1>3
<1> QED BY <1>3, <1>4, <1>5 DEF VerifierKept, q
------------------------------------------------------------------------------
(* The inductive invariant: while the script is written nobody runs it, then *)
(* the prover keeps to it, and last the verifier.                            *)
ScriptShape(s) ==
  /\ IsSequence(s)
  /\ \A i \in 1..Len(s) : s[i].op = "oracle" => s[i].len \in Lens

ScheduleShape(sch, n) ==
  /\ sch \in [specs : {sch.specs}, ends : {sch.ends}]
  /\ IsSequence(sch.specs) /\ IsSequence(sch.ends) /\ Len(sch.specs) = n
  /\ \A r \in 1..Len(sch.ends) : sch.ends[r] \in 1..n

InitialProver   == [pending |-> <<>>, records |-> <<>>, groups |-> <<>>, log |-> <<>>]
InitialVerifier == [records |-> <<>>, flushed |-> 0, log |-> <<>>, verdict |-> "none"]

Accepting(v, s, i) == v.verdict = "ok" => i = Len(s) /\ v.flushed = Len(v.records)

MergeInv ==
  /\ stage \in {"setup", "prove", "verify"} /\ zk \in BOOLEAN
  /\ ScriptShape(script) /\ ScheduleShape(schedule, n_oracles)
  /\ stage = "setup" => pos = 0 /\ handed = {} /\ prover = InitialProver
  /\ stage # "verify" => tape = 0 /\ verifier = InitialVerifier
  /\ stage # "verify" => ProverKept(prover, script, pos)
  /\ stage = "verify" => /\ ProverKept(prover, script, Len(script)) /\ prover.pending = <<>>
                         /\ VerifierKept(verifier, script, pos, tape)
                         /\ verifier.verdict \in {"none", "ok", "error"}
                         /\ Accepting(verifier, script, pos)
                         /\ tape \in 0..Len(prover.groups)
  /\ GroupsKept(prover, handed)

LEMMA InitialKept ==
  ASSUME NEW s, IsSequence(s)
  PROVE  /\ ProverKept(InitialProver, s, 0) /\ GroupsKept(InitialProver, {})
         /\ VerifierKept(InitialVerifier, s, 0, tape)
<1>1. /\ IsSequence(<<>>) /\ Len(<<>>) = 0 /\ Kept(s, <<>>, <<>>, 0, 0) /\ Due(s, 0, 0, 0)
      /\ 1..0 = {} /\ 0 \in 0..0
  BY EmptyIsSequence, KeptAtFirst
<1>2. Times(<<>>, "commit") = 0 /\ On(<<>>, "finalize") = {}
  BY <1>1, NoneCounted, OnPlaces DEF Times
<1> DEFINE e == <<>>
<1> HIDE DEF e
<1>3. InitialProver = [pending |-> e, records |-> e, groups |-> e, log |-> e]
  BY DEF InitialProver, e
<1>4. InitialVerifier = [records |-> e, flushed |-> 0, log |-> e, verdict |-> "none"]
  BY DEF InitialVerifier, e
<1> DEFINE p == InitialProver
           v == InitialVerifier
<1> HIDE DEF p, v
<1>5. /\ p.pending = e /\ p.records = e /\ p.groups = e /\ p.log = e
      /\ p \in [pending : {p.pending}, records : {p.records}, groups : {p.groups}, log : {p.log}]
  BY <1>3 DEF p
<1>6. /\ v.records = e /\ v.flushed = 0 /\ v.log = e
      /\ v \in [records : {v.records}, flushed : {v.flushed}, log : {v.log}, verdict : {v.verdict}]
  BY <1>4 DEF v
<1>7. /\ IsSequence(e) /\ Len(e) = 0 /\ Kept(s, e, e, 0, 0) /\ Due(s, 0, 0, 0)
      /\ 1..0 = {} /\ 0 \in 0..0 /\ Times(e, "commit") = 0 /\ On(e, "finalize") = {}
  BY <1>1, <1>2 DEF e
<1>8. Closed(p) = 0
  BY <1>5, <1>7 DEF Closed
<1>9. ProverShape(p)
  BY <1>5, <1>7 DEF ProverShape
<1>10. ProverKept(p, s, 0)
  BY <1>5, <1>7, <1>8, <1>9 DEF ProverKept
<1>11. GroupsKept(p, {})
  BY <1>5, <1>7 DEF GroupsKept
<1>12. VerifierShape(v)
  BY <1>6, <1>7 DEF VerifierShape
<1>13. VerifierKept(v, s, 0, tape)
  BY <1>6, <1>7, <1>12 DEF VerifierKept
<1> QED BY <1>10, <1>11, <1>13 DEF p, v

LEMMA MergeInit == Init => MergeInv
<1> SUFFICES ASSUME Init PROVE MergeInv
  OBVIOUS
<1>1. /\ stage = "setup" /\ zk \in BOOLEAN /\ script = <<>> /\ pos = 0 /\ tape = 0 /\ handed = {}
      /\ schedule = [specs |-> <<>>, ends |-> <<>>]
      /\ prover = InitialProver /\ verifier = InitialVerifier
  BY DEF Init, InitialProver, InitialVerifier
<1>2. IsSequence(<<>>) /\ Len(<<>>) = 0 /\ 1..0 = {}
  BY EmptyIsSequence
<1>3. ScriptShape(script)
  BY <1>1, <1>2 DEF ScriptShape
<1>4. n_oracles = 0
  BY <1>1, <1>2, NoneCounted DEF n_oracles, Times
<1>5. ScheduleShape(schedule, n_oracles)
  <2>1. schedule.specs = <<>> /\ schedule.ends = <<>>
    BY <1>1
  <2> QED BY <1>1, <1>2, <1>4, <2>1 DEF ScheduleShape
<1>6. ProverKept(prover, script, pos) /\ GroupsKept(prover, handed)
  BY <1>1, <1>2, InitialKept
<1> QED BY <1>1, <1>3, <1>5, <1>6 DEF MergeInv
------------------------------------------------------------------------------
(* The dry run.  A round is closed at as many oracles as there are. *)
LEMMA EndRoundShape ==
  ASSUME NEW sch, NEW n, ScheduleShape(sch, n)
  PROVE  ScheduleShape(end_round(sch), n)
<1> DEFINE open_start == IF sch.ends = <<>> THEN 0 ELSE Last(sch.ends)
           ends == Append(sch.ends, Len(sch.specs))
           new == [sch EXCEPT !.ends = ends]
<1>1. /\ sch \in [specs : {sch.specs}, ends : {sch.ends}]
      /\ IsSequence(sch.specs) /\ IsSequence(sch.ends) /\ Len(sch.specs) = n /\ n \in Nat
      /\ Len(sch.ends) \in Nat
      /\ \A r \in 1..Len(sch.ends) : sch.ends[r] \in 1..n
  BY SequenceLen DEF ScheduleShape
<1>2. end_round(sch) = IF Len(sch.specs) > open_start THEN new ELSE sch
  BY DEF end_round
<1>3. CASE Len(sch.specs) > open_start
  <2>1. /\ IsSequence(ends) /\ Len(ends) = Len(sch.ends) + 1
        /\ \A r \in 1..Len(sch.ends) : ends[r] = sch.ends[r]
        /\ ends[Len(sch.ends) + 1] = n
    BY <1>1, AppendSequence, ZenonT(60)
  <2>2. n > 0
    <3>1. CASE sch.ends = <<>>
      BY <1>1, <1>3, <3>1
    <3>2. CASE sch.ends # <<>>
      <4>1. Len(sch.ends) > 0
        BY <1>1, <3>2, SequenceLen
      <4>2. Len(sch.ends) \in 1..Len(sch.ends)
        BY <1>1, <4>1
      <4> QED BY <1>1, <4>2
    <3> QED BY <3>1, <3>2
  <2> HIDE DEF ends
  <2>3. new.specs = sch.specs /\ new.ends = ends /\ new \in [specs : {new.specs}, ends : {new.ends}]
    BY <1>1
  <2>4. ASSUME NEW r \in 1..Len(ends) PROVE ends[r] \in 1..n
    <3>1. r \in 1..Len(sch.ends) \/ r = Len(sch.ends) + 1
      BY <1>1, <2>1
    <3>2. n \in 1..n
      BY <1>1, <2>2
    <3> QED BY <1>1, <2>1, <3>1, <3>2
  <2> HIDE DEF new
  <2>5. ScheduleShape(new, n)
    BY <1>1, <2>1, <2>3, <2>4 DEF ScheduleShape
  <2> QED BY <1>2, <1>3, <2>5
<1>4. CASE ~(Len(sch.specs) > open_start)
  BY <1>2, <1>4
<1> QED BY <1>3, <1>4

(* An oracle more in the script is one more in its schedule. *)
LEMMA SpecAppended ==
  ASSUME NEW sch, NEW n \in Nat, ScheduleShape(sch, n), NEW x
  PROVE  ScheduleShape([sch EXCEPT !.specs = Append(@, x)], n + 1)
<1> DEFINE specs == Append(sch.specs, x)
           new == [sch EXCEPT !.specs = specs]
<1>1. /\ sch \in [specs : {sch.specs}, ends : {sch.ends}]
      /\ IsSequence(sch.specs) /\ IsSequence(sch.ends) /\ Len(sch.specs) = n
  BY DEF ScheduleShape
<1>2. IsSequence(specs) /\ Len(specs) = n + 1
  BY <1>1, AppendSequence
<1> HIDE DEF specs
<1>3. new.specs = specs /\ new.ends = sch.ends /\ new \in [specs : {new.specs}, ends : {new.ends}]
  BY <1>1
<1>4. 1..n \subseteq 1..n + 1
  OBVIOUS
<1> HIDE DEF new
<1>5. ScheduleShape(new, n + 1)
  BY <1>1, <1>2, <1>3, <1>4 DEF ScheduleShape
<1> QED BY <1>5 DEF new, specs

LEMMA ScriptAppended ==
  ASSUME NEW s, ScriptShape(s), NEW op, op.op = "oracle" => op.len \in Lens
  PROVE  ScriptShape(Append(s, op))
<1>1. IsSequence(s) /\ Len(s) \in Nat
  BY SequenceLen DEF ScriptShape
<1> DEFINE t == Append(s, op)
<1>2. /\ IsSequence(t) /\ Len(t) = Len(s) + 1
      /\ \A i \in 1..Len(s) : t[i] = s[i]
      /\ t[Len(s) + 1] = op
  BY ONLY <1>1, AppendSequence
<1>3. \A i \in 1..Len(s) + 1 : i \in 1..Len(s) \/ i = Len(s) + 1
  BY <1>1
<1> HIDE DEF t
<1>4. ScriptShape(t)
  BY <1>2, <1>3 DEF ScriptShape
<1> QED BY <1>4 DEF t

LEMMA Declared ==
  ASSUME MergeInv, NEW op, Declare(op), op.op = "oracle" => op.len \in Lens,
         ScheduleShape(schedule', n_oracles')
  PROVE  MergeInv'
<1>1. /\ stage = "setup" /\ stage' = stage /\ zk' = zk /\ pos' = 0 /\ handed' = {} /\ tape' = 0
      /\ prover' = InitialProver /\ verifier' = InitialVerifier
  BY DEF Declare, MergeInv
<1>2. ScriptShape(script')
  BY ScriptAppended DEF Declare, MergeInv
<1>3. ProverKept(prover', script', pos') /\ GroupsKept(prover', handed')
  <2>1. IsSequence(script')
    BY <1>2 DEF ScriptShape
  <2>2. ProverKept(InitialProver, script', 0) /\ GroupsKept(InitialProver, {})
    BY <2>1, InitialKept
  <2> QED BY <1>1, <2>2
<1> QED BY <1>1, <1>2, <1>3 DEF MergeInv

LEMMA SetupStep ==
  ASSUME MergeInv,
         \/ \E n \in Lens, wd \in BOOLEAN : SetupRecvOracle(n, wd)
         \/ SetupSample
         \/ \E k \in 1..n_oracles : SetupVerifyRelation(k)
  PROVE  MergeInv'
<1>1. ScriptShape(script) /\ IsSequence(script) /\ ScheduleShape(schedule, n_oracles)
  BY DEF MergeInv, ScriptShape
<1>2. n_oracles \in Nat
  BY <1>1, OnPlaces DEF n_oracles
<1>3. ASSUME NEW n \in Lens, NEW wd \in BOOLEAN, SetupRecvOracle(n, wd) PROVE MergeInv'
  <2> DEFINE op == Oracle(n, wd)
  <2>1. op.op = "oracle" /\ op.len \in Lens
    BY DEF Oracle
  <2>2. Declare(op) /\ script' = Append(script, op)
    BY <1>3 DEF SetupRecvOracle, Declare
  <2> HIDE DEF op
  <2>3. n_oracles' = n_oracles + 1
    BY <1>1, <2>1, <2>2, OnAppend DEF n_oracles
  <2>4. ScheduleShape(schedule', n_oracles + 1)
    BY <1>1, <1>2, <1>3, SpecAppended DEF SetupRecvOracle
  <2> QED BY <2>1, <2>2, <2>3, <2>4, Declared
<1>4. ASSUME NEW op, op.op # "oracle", Declare(op), schedule' = end_round(schedule) PROVE MergeInv'
  <2>1. n_oracles' = n_oracles
    BY <1>1, <1>4, OnAppend DEF n_oracles, Declare
  <2>2. ScheduleShape(schedule', n_oracles')
    BY <1>1, <1>4, <2>1, EndRoundShape
  <2> QED BY <1>4, <2>2, Declared
<1>5. Sample.op # "oracle" /\ \A k : Open(k).op # "oracle"
  BY DEF Sample, Open
<1> QED BY <1>3, <1>4, <1>5 DEF SetupSample, SetupVerifyRelation

LEMMA SetupEnds ==
  ASSUME MergeInv, IntoOracleSchedule
  PROVE  MergeInv'
<1>1. ScheduleShape(schedule', n_oracles)
  BY EndRoundShape DEF MergeInv, IntoOracleSchedule
<1>2. n_oracles' = n_oracles
  BY DEF n_oracles, IntoOracleSchedule
<1> QED BY <1>1, <1>2 DEF MergeInv, IntoOracleSchedule
------------------------------------------------------------------------------
(* The prover's steps *)
LEMMA ProverAdvances ==
  ASSUME MergeInv, stage = "prove", UNCHANGED <<stage, zk, script, schedule, tape, verifier>>,
         ProverKept(prover', script, pos'), GroupsKept(prover', handed'), NEW op
  PROVE  MergeInv'
BY DEF MergeInv, n_oracles

LEMMA ProverStep ==
  ASSUME MergeInv, SendOracle \/ ProverSample \/ ProveRelation
  PROVE  MergeInv'
<1> DEFINE p == FlushProver(prover)
<1>1. /\ stage = "prove" /\ UNCHANGED <<stage, zk, script, schedule, tape, verifier>>
      /\ pos < Len(script) /\ pos' = pos + 1 /\ handed' = handed
  BY DEF SendOracle, ProverSample, ProveRelation, Proving
<1>2. /\ IsSequence(script) /\ pos \in Nat /\ pos + 1 \in 1..Len(script)
      /\ ProverKept(prover, script, pos) /\ GroupsKept(prover, handed) /\ ProverShape(prover)
      /\ script[pos + 1].op = "oracle" => script[pos + 1].len \in Lens
  <2>1. ScriptShape(script) /\ ProverKept(prover, script, pos) /\ GroupsKept(prover, handed)
    BY <1>1 DEF MergeInv
  <2>2. pos \in 0..Len(script) /\ Len(script) \in Nat /\ ProverShape(prover)
    BY <2>1, SequenceLen DEF ProverKept, Kept, ScriptShape
  <2>3. pos + 1 \in 1..Len(script) /\ pos \in Nat
    BY <1>1, <2>2
  <2> QED BY <2>1, <2>2, <2>3 DEF ScriptShape
<1>3. CASE SendOracle
  <2> DEFINE n == script[pos + 1].len
             x == [id |-> Len(prover.records) + 1, len |-> n]
             r == [len |-> n, mapping |-> Unmapped]
  <2>1. script[pos + 1].op = "oracle" /\ prover' = Sent(prover, x, r)
    BY <1>3 DEF SendOracle, Proving, Sent
  <2>2. x.len = r.len /\ r \in [len : Lens, mapping : {Unmapped}] /\ r.mapping = Unmapped
    BY <1>2, <2>1
  <2> HIDE DEF x, r
  <2>3. /\ ProverKept(prover', script, pos + 1)
        /\ prover'.groups = prover.groups /\ prover'.log = prover.log
        /\ prover'.records = Append(prover.records, r) /\ Closed(prover') = Closed(prover)
    BY <1>1, <1>2, <2>1, <2>2, SendKept
  <2>4. GroupsKept(prover', handed)
    BY <1>2, <2>2, <2>3, SendGroups
  <2> QED BY <1>1, <2>3, <2>4, ProverAdvances
<1>4. /\ ProverKept(p, script, pos) /\ p.pending = <<>> /\ Closed(p) = Len(p.records)
      /\ GroupsKept(p, handed)
  BY <1>2, FlushProverKept, FlushGroups
<1>5. ASSUME NEW e, prover' = Logged(p, e),
             \/ script[pos + 1].op = "sample" /\ e.op = "sample"
             \/ script[pos + 1].op = "open" /\ e.op = "open"
      PROVE  MergeInv'
  <2> HIDE DEF p
  <2>1. ProverKept(prover', script, pos + 1)
    BY <1>1, <1>2, <1>4, <1>5, AskKept
  <2>2. GroupsKept(prover', handed)
    <3>1. ProverShape(p) /\ e.op \notin {"commit", "finalize"}
      BY <1>4, <1>5 DEF ProverKept
    <3> QED BY <1>4, <1>5, <3>1, LogGroups
  <2> QED BY <1>1, <2>1, <2>2, ProverAdvances
<1>6. CASE ProverSample
  <2>1. prover' = Logged(p, Sample) /\ script[pos + 1].op = "sample" /\ Sample.op = "sample"
    BY <1>6 DEF ProverSample, Proving, Sample
  <2> HIDE DEF p
  <2> QED BY <1>5, <2>1
<1>7. CASE ProveRelation
  <2>1. \E e : prover' = Logged(p, e) /\ e.op = "open"
    BY <1>7, SMTT(40) DEF ProveRelation
  <2>2. script[pos + 1].op = "open"
    BY <1>7 DEF ProveRelation, Proving
  <2> HIDE DEF p
  <2> QED BY <1>5, <2>1, <2>2
<1> QED BY <1>3, <1>6, <1>7

(* No oracle is to come: all the script has were sent. *)
LEMMA AllArrived ==
  ASSUME NEW s, IsSequence(s), NEW i \in 0..Len(s), \A j \in i + 1..Len(s) : s[j].op # "oracle"
  PROVE  Arrived(s, i) = Times(s, "oracle")
<1>1. \A j : j \in On(s, "oracle") => j \in 1..Len(s) /\ s[j].op = "oracle"
  BY OnPlaces
<1>2. Len(s) \in Nat
  BY SequenceLen
<1>3. \A j : j \in 1..Len(s) <=> j \in 1..i \/ j \in i + 1..Len(s)
  BY <1>2
<1>4. On(s, "oracle") \cap 1..i = On(s, "oracle") \cap 1..Len(s)
  BY <1>1, <1>3
<1> QED BY <1>4 DEF Arrived, Times, Upto

LEMMA FinalizeStep ==
  ASSUME MergeInv, NEW k \in 1..n_oracles, FinalizeOracle(k)
  PROVE  MergeInv'
<1> DEFINE p == FlushProver(prover)
<1>1. /\ stage = "prove" /\ UNCHANGED <<stage, zk, script, schedule, tape, verifier>>
      /\ pos' = pos /\ handed' = handed \cup {k} /\ k \notin handed
      /\ \A i \in pos + 1..Len(script) : script[i].op # "oracle"
  BY DEF FinalizeOracle
<1>2. IsSequence(script) /\ ProverKept(prover, script, pos) /\ GroupsKept(prover, handed)
  BY <1>1 DEF MergeInv, ScriptShape
<1>3. /\ ProverKept(p, script, pos) /\ p.pending = <<>> /\ Closed(p) = Len(p.records)
      /\ GroupsKept(p, handed)
  BY <1>2, FlushProverKept, FlushGroups
<1>4. prover' = HandBack(p, k)
  BY DEF FinalizeOracle, HandBack, Counted, Taken
<1> HIDE DEF p
<1>5. k \in 1..Len(p.records)
  <2>1. Len(p.records) = Arrived(script, pos) /\ pos \in 0..Len(script)
    BY <1>3 DEF ProverKept, Kept
  <2> QED BY <1>1, <1>2, <2>1, AllArrived DEF n_oracles
<1>6. ProverKept(prover', script, pos) /\ GroupsKept(prover', handed \cup {k})
  BY <1>1, <1>3, <1>4, <1>5, HandBackKept
<1> QED BY <1>1, <1>6, ProverAdvances

LEMMA ProverEnds ==
  ASSUME MergeInv, ProverIntoInner
  PROVE  MergeInv'
<1> DEFINE p == FlushProver(prover)
<1>1. /\ stage = "prove" /\ stage' = "verify" /\ pos = Len(script) /\ pos' = 0
      /\ UNCHANGED <<zk, script, schedule, handed, verifier>> /\ prover' = p
      /\ tape' \in 0..Times(prover'.log, "commit")
  BY DEF ProverIntoInner
<1>2. IsSequence(script) /\ ProverKept(prover, script, pos) /\ GroupsKept(prover, handed)
  BY <1>1 DEF MergeInv, ScriptShape
<1>3. ProverKept(p, script, Len(script)) /\ p.pending = <<>> /\ GroupsKept(p, handed)
  BY <1>1, <1>2, FlushProverKept, FlushGroups
<1>4. Len(p.groups) = Times(p.log, "commit")
  BY <1>3 DEF ProverKept, ProverShape
<1>5. verifier' = InitialVerifier
  BY <1>1 DEF MergeInv
<1>6. VerifierKept(InitialVerifier, script, 0, tape')
  <2>1. VerifierKept(InitialVerifier, script, 0, tape)
    BY <1>2, InitialKept
  <2>2. Len(<<>>) = 0 /\ InitialVerifier.records = <<>> /\ InitialVerifier.flushed = 0
    BY EmptyIsSequence DEF InitialVerifier
  <2>3. Due(script, Len(InitialVerifier.records), InitialVerifier.flushed, 0)
    BY <1>2, <2>2, KeptAtFirst
  <2> HIDE DEF InitialVerifier
  <2> QED BY <2>1, <2>3 DEF VerifierKept
<1>7. InitialVerifier.verdict = "none"
  BY DEF InitialVerifier
<1>8. n_oracles' = n_oracles
  BY <1>1 DEF n_oracles
<1> HIDE DEF p
<1> QED BY <1>1, <1>3, <1>4, <1>5, <1>6, <1>7, <1>8 DEF MergeInv, Accepting
------------------------------------------------------------------------------
(* The verifier's steps *)
LEMMA VerifierAdvances ==
  ASSUME MergeInv, stage = "verify",
         UNCHANGED <<stage, zk, script, schedule, prover, handed, tape>>,
         VerifierKept(verifier', script, pos', tape),
         verifier'.verdict \in {"none", "ok", "error"}, Accepting(verifier', script, pos')
  PROVE  MergeInv'
BY DEF MergeInv, n_oracles

LEMMA VerifyRelationIs ==
  ASSUME VerifyRelation, ~FlushFails(verifier)
  PROVE  \E e : verifier' = Logged(FlushVerifier(verifier), e) /\ e.op = "open"
<1> DEFINE k == script[pos + 1].oracle
           v == FlushVerifier(verifier)
           m == v.records[k].mapping
           e == [op |-> "open", group |-> m.group,
                 weights |-> BlockWeights(k, v.records[k].len, m.block_index, m.combined_log_len)]
<1>1. verifier' = Logged(v, e)
  BY Zenon DEF VerifyRelation
<1>2. e.op = "open"
  OBVIOUS
<1> HIDE DEF e
<1> QED BY <1>1, <1>2

LEMMA VerifierStep ==
  ASSUME MergeInv, RecvOracle \/ VerifierSample \/ VerifyRelation
  PROVE  MergeInv'
<1> DEFINE v == FlushVerifier(verifier)
<1>1. /\ stage = "verify" /\ UNCHANGED <<stage, zk, script, schedule, prover, handed, tape>>
      /\ verifier.verdict = "none" /\ pos < Len(script) /\ pos' = pos + 1
  BY DEF RecvOracle, VerifierSample, VerifyRelation, Verifying
<1>2. /\ IsSequence(script) /\ pos \in 0..Len(script) /\ pos + 1 \in 1..Len(script)
      /\ VerifierKept(verifier, script, pos, tape)
      /\ script[pos + 1].op = "oracle" => script[pos + 1].len \in Lens
  <2>1. ScriptShape(script) /\ VerifierKept(verifier, script, pos, tape)
    BY <1>1 DEF MergeInv
  <2>2. pos \in 0..Len(script) /\ Len(script) \in Nat
    BY <2>1, SequenceLen DEF VerifierKept, Kept, ScriptShape
  <2>3. pos + 1 \in 1..Len(script)
    BY <1>1, <2>2
  <2> QED BY <2>1, <2>2, <2>3 DEF ScriptShape
<1>3. CASE RecvOracle
  <2> DEFINE n == script[pos + 1].len
             wd == script[pos + 1].wd
             r == [len |-> n, wd |-> wd, mapping |-> Unmapped]
  <2>1. script[pos + 1].op = "oracle" /\ verifier' = Received(verifier, r)
    BY <1>3 DEF RecvOracle, Verifying, Received
  <2>2. r \in [len : Lens, wd : {wd}, mapping : {Unmapped}]
    BY <1>2, <2>1
  <2> HIDE DEF r, wd
  <2>3. VerifierKept(verifier', script, pos + 1, tape) /\ verifier'.verdict = "none"
    BY <1>1, <1>2, <2>1, <2>2, ReceivedKept
  <2> QED BY <1>1, <2>3, VerifierAdvances DEF Accepting
<1>4. /\ VerifierKept(v, script, pos, tape) /\ v.verdict = "none"
      /\ v.flushed = Len(v.records) \/ ~(Times(v.log, "commit") < tape)
  BY <1>1, <1>2, FlushVerifierKept
<1>5. ASSUME NEW e, verifier' = Logged(v, e),
             \/ script[pos + 1].op = "sample" /\ e.op = "sample"
             \/ script[pos + 1].op = "open" /\ e.op = "open"
      PROVE  MergeInv'
  <2> HIDE DEF v
  <2>1. VerifierKept(verifier', script, pos + 1, tape) /\ verifier'.verdict = "none"
    BY <1>1, <1>2, <1>4, <1>5, VerifierAskKept
  <2> QED BY <1>1, <2>1, VerifierAdvances DEF Accepting
<1>6. CASE VerifierSample
  <2>1. verifier' = Logged(v, Sample) /\ script[pos + 1].op = "sample" /\ Sample.op = "sample"
    BY <1>6 DEF VerifierSample, Verifying, Sample
  <2> HIDE DEF v
  <2> QED BY <1>5, <2>1
<1>7. CASE VerifyRelation
  <2>1. script[pos + 1].op = "open"
    BY <1>7 DEF VerifyRelation, Verifying
  <2>2. CASE FlushFails(verifier)
    <3>1. verifier' = [verifier EXCEPT !.verdict = "error"]
      BY <1>7, <2>2 DEF VerifyRelation, Reject
    <3>2. VerifierKept(verifier, script, pos + 1, tape)
      <4>1. Kept(script, verifier.log, verifier.records, verifier.flushed, pos)
        BY <1>2 DEF VerifierKept
      <4>2. /\ Kept(script, verifier.log, verifier.records, verifier.flushed, pos + 1)
            /\ Due(script, Len(verifier.records), verifier.flushed, pos)
                 => Due(script, Len(verifier.records), verifier.flushed, pos + 1)
        BY <1>1, <1>2, <2>1, <4>1, KeptOpen
      <4> QED BY <1>2, <4>2 DEF VerifierKept
    <3>3. VerifierKept(verifier', script, pos + 1, tape) /\ verifier'.verdict = "error"
      BY <3>1, <3>2, VerdictKept
    <3> QED BY <1>1, <3>3, VerifierAdvances DEF Accepting
  <2>3. CASE ~FlushFails(verifier)
    <3>1. \E e : verifier' = Logged(v, e) /\ e.op = "open"
      BY <1>7, <2>3, VerifyRelationIs
    <3> HIDE DEF v
    <3> QED BY <1>5, <2>1, <3>1
  <2> QED BY <2>2, <2>3
<1> QED BY <1>3, <1>6, <1>7

LEMMA VerifierEnds ==
  ASSUME MergeInv, VerifierIntoInner
  PROVE  MergeInv'
<1> DEFINE v == FlushVerifier(verifier)
<1>1. /\ stage = "verify" /\ UNCHANGED <<stage, zk, script, schedule, pos, prover, handed, tape>>
      /\ pos = Len(script)
      /\ verifier' = IF FlushFails(verifier) THEN [verifier EXCEPT !.verdict = "error"]
                     ELSE [v EXCEPT !.verdict = "ok"]
  BY DEF VerifierIntoInner, Reject
<1>2. IsSequence(script) /\ VerifierKept(verifier, script, pos, tape)
  BY <1>1 DEF MergeInv, ScriptShape
<1>3. /\ VerifierKept(v, script, pos, tape)
      /\ ~FlushFails(verifier) => v.flushed = Len(v.records)
  BY <1>2, FlushVerifierKept
<1> HIDE DEF v
<1>4. CASE FlushFails(verifier)
  <2>1. VerifierKept(verifier', script, pos, tape) /\ verifier'.verdict = "error"
    BY <1>1, <1>2, <1>4, VerdictKept
  <2> QED BY <1>1, <2>1, VerifierAdvances DEF Accepting
<1>5. CASE ~FlushFails(verifier)
  <2>1. /\ VerifierKept(verifier', script, pos, tape) /\ verifier'.verdict = "ok"
        /\ verifier'.records = v.records /\ verifier'.flushed = v.flushed
    BY <1>1, <1>3, <1>5, VerdictKept
  <2> QED BY <1>1, <1>3, <1>5, <2>1, VerifierAdvances DEF Accepting
<1> QED BY <1>4, <1>5

LEMMA MergeNext ==
  ASSUME MergeInv, [Next]_vars
  PROVE  MergeInv'
<1>1. CASE UNCHANGED vars
  BY <1>1 DEF MergeInv, vars, n_oracles
<1>2. CASE Next
  <2>1. CASE \/ \E n \in Lens, wd \in BOOLEAN : SetupRecvOracle(n, wd)
             \/ SetupSample
             \/ \E k \in 1..n_oracles : SetupVerifyRelation(k)
    BY <2>1, SetupStep
  <2>2. CASE IntoOracleSchedule
    BY <2>2, SetupEnds
  <2>3. CASE SendOracle \/ ProverSample \/ ProveRelation
    BY <2>3, ProverStep
  <2>4. CASE \E k \in 1..n_oracles : FinalizeOracle(k)
    BY <2>4, FinalizeStep
  <2>5. CASE ProverIntoInner
    BY <2>5, ProverEnds
  <2>6. CASE RecvOracle \/ VerifierSample \/ VerifyRelation
    BY <2>6, VerifierStep
  <2>7. CASE VerifierIntoInner
    BY <2>7, VerifierEnds
  <2> QED BY <1>2, <2>1, <2>2, <2>3, <2>4, <2>5, <2>6, <2>7 DEF Next
<1> QED BY <1>1, <1>2

LEMMA MergeInvariant == Spec => []MergeInv
BY MergeInit, MergeNext, PTL DEF Spec
------------------------------------------------------------------------------
LEMMA ArrivedAtMost ==
  ASSUME NEW s, IsSequence(s), NEW i \in 0..Len(s)
  PROVE  Arrived(s, i) \in 0..Times(s, "oracle")
<1>1. i \in Nat /\ Len(s) \in Nat /\ i <= Len(s)
  BY SequenceLen
<1>2. Upto(On(s, "oracle"), i) <= Upto(On(s, "oracle"), Len(s)) /\ Upto(On(s, "oracle"), i) \in Nat
      /\ Upto(On(s, "oracle"), Len(s)) \in Nat
  BY <1>1, UptoMonotonic, UptoIsCount
<1> QED BY <1>2 DEF Arrived, Times

(* What the prover and the verifier of an invariant state have. *)
LEMMA PartiesKept ==
  ASSUME MergeInv
  PROVE  /\ \E i \in 0..Len(script) : ProverKept(prover, script, i)
         /\ \E i, t : /\ i \in 0..Len(script) /\ VerifierKept(verifier, script, i, t)
                      /\ Accepting(verifier, script, i)
         /\ pos \in 0..Len(script) /\ tape \in 0..Len(prover.groups)
         /\ verifier.verdict \in {"none", "ok", "error"}
<1>1. IsSequence(script) /\ 0 \in 0..Len(script)
  BY SequenceLen DEF MergeInv, ScriptShape
<1>2. PICK i : ProverKept(prover, script, i)
  BY DEF MergeInv
<1>3. i \in 0..Len(script) /\ Len(prover.groups) \in Nat
  BY <1>2, SequenceLen DEF ProverKept, Kept, ProverShape
<1>4. CASE stage # "verify"
  <2>1. verifier = InitialVerifier /\ tape = 0 /\ ProverKept(prover, script, pos)
    BY <1>4 DEF MergeInv
  <2>2. VerifierKept(InitialVerifier, script, 0, tape) /\ InitialVerifier.verdict = "none"
    BY <1>1, InitialKept DEF InitialVerifier
  <2>3. pos \in 0..Len(script)
    BY <2>1 DEF ProverKept, Kept
  <2> QED BY <1>1, <1>2, <1>3, <2>1, <2>2, <2>3 DEF Accepting
<1>5. CASE stage = "verify"
  <2>1. /\ VerifierKept(verifier, script, pos, tape) /\ tape \in 0..Len(prover.groups)
        /\ verifier.verdict \in {"none", "ok", "error"} /\ Accepting(verifier, script, pos)
    BY <1>5 DEF MergeInv
  <2>2. pos \in 0..Len(script)
    BY <2>1 DEF VerifierKept, Kept
  <2> QED BY <1>2, <1>3, <2>1, <2>2
<1> QED BY <1>4, <1>5

LEMMA TypeHolds == MergeInv => TypeOK
<1> SUFFICES ASSUME MergeInv PROVE TypeOK
  OBVIOUS
<1>1. PICK i \in 0..Len(script) : ProverKept(prover, script, i)
  BY PartiesKept
<1>2. PICK j, t : j \in 0..Len(script) /\ VerifierKept(verifier, script, j, t)
  BY PartiesKept
<1>3. IsSequence(script)
  BY DEF MergeInv, ScriptShape
<1>4. /\ Kept(script, prover.log, prover.records, Closed(prover), i) /\ IsSequence(prover.records)
      /\ Kept(script, verifier.log, verifier.records, verifier.flushed, j)
      /\ IsSequence(verifier.records)
  BY <1>1, <1>2 DEF ProverKept, VerifierKept, Kept
<1>5. /\ DOMAIN prover.records = 1..Len(prover.records)
      /\ DOMAIN verifier.records = 1..Len(verifier.records)
  BY <1>4, SequenceLen
<1>6. handed \subseteq 1..n_oracles
  <2>1. handed \subseteq 1..Closed(prover) /\ Closed(prover) \in 0..Len(prover.records)
        /\ Len(prover.records) = Arrived(script, i)
    BY <1>4 DEF MergeInv, GroupsKept, Kept
  <2>2. Arrived(script, i) \in 0..n_oracles /\ n_oracles \in Nat
    BY <1>3, ArrivedAtMost, OnPlaces DEF n_oracles
  <2>3. Arrived(script, i) \in Nat /\ Arrived(script, i) <= n_oracles
    BY <2>2
  <2>4. Closed(prover) \in 0..Arrived(script, i)
    BY <2>1
  <2>5. 1..Closed(prover) \subseteq 1..n_oracles
    BY <2>2, <2>3, <2>4
  <2> QED BY <2>1, <2>5
<1>7. /\ \A k \in DOMAIN prover.records :
           Committed(prover.records[k]) <=> k <= Len(prover.records) - Len(prover.pending)
      /\ \A k \in DOMAIN verifier.records :
           Committed(verifier.records[k]) <=> k <= verifier.flushed
  BY <1>4, <1>5 DEF Kept, Closed
<1>8. /\ Len(schedule.specs) = n_oracles
      /\ \A r \in DOMAIN schedule.ends : schedule.ends[r] \in 1..n_oracles
  BY SequenceLen DEF MergeInv, ScheduleShape
<1>9. stage \in {"setup", "prove", "verify"} /\ zk \in BOOLEAN
  BY DEF MergeInv
<1> QED BY <1>6, <1>7, <1>8, <1>9, PartiesKept DEF TypeOK

(* Every state of the channels keeps to their shapes: the two decorators     *)
(* hold as many oracles as their script sent, and of these exactly the ones  *)
(* of flushed rounds are committed.                                          *)
THEOREM OracleMergeTypeCorrect == Spec => []TypeOK
BY MergeInvariant, TypeHolds, PTL

LEMMA RoundsHold == MergeInv => ChallengesFollowRounds
<1> SUFFICES ASSUME MergeInv PROVE ChallengesFollowRounds
  OBVIOUS
<1>1. PICK i \in 0..Len(script) : ProverKept(prover, script, i)
  BY PartiesKept
<1>2. PICK j, t : /\ j \in 0..Len(script) /\ VerifierKept(verifier, script, j, t)
                  /\ Accepting(verifier, script, j)
  BY PartiesKept
<1>3. /\ Kept(script, prover.log, prover.records, Closed(prover), i)
      /\ Kept(script, verifier.log, verifier.records, verifier.flushed, j)
  BY <1>1, <1>2 DEF ProverKept, VerifierKept
<1>4. \A k : DueBefore(k) = DueIn(script, k)
  BY DEF DueBefore, DueIn, Drawn
<1>5. ASSUME NEW log, NEW records, NEW closed, NEW m, Kept(script, log, records, closed, m),
             NEW k \in DOMAIN records, Committed(records[k])
      PROVE  DrawnBefore(log, records[k].mapping.group) = DueBefore(k)
  <2>1. k \in 1..Len(records) /\ k <= closed /\ closed \in 0..Len(records) /\ Len(records) \in Nat
    BY <1>5, SequenceLen DEF Kept
  <2>2. k \in 1..closed
    BY <2>1
  <2> QED BY <1>4, <1>5, <2>2 DEF Kept
<1>6. ASSUME verifier.verdict = "ok"
      PROVE  /\ Len(verifier.records) = n_oracles
             /\ \A k \in 1..n_oracles : Committed(verifier.records[k])
  <2>1. j = Len(script) /\ verifier.flushed = Len(verifier.records)
    BY <1>2, <1>6 DEF Accepting
  <2>2. Len(verifier.records) = n_oracles
    BY <1>3, <2>1 DEF Kept, Arrived, Times, n_oracles
  <2> QED BY <1>3, <2>1, <2>2 DEF Kept
<1> QED BY <1>3, <1>5, <1>6 DEF ChallengesFollowRounds

(* On both sides every oracle is committed after exactly the challenges the  *)
(* script has before it, whichever flush commits it and although a flush in  *)
(* sample can fail in silence; a verifier that accepts committed them all.   *)
THEOREM RoundsComeFirst == Spec => []ChallengesFollowRounds
BY MergeInvariant, RoundsHold, PTL

LEMMA ForwardingHolds == MergeInv => ForwardedOnce
<1> SUFFICES ASSUME MergeInv PROVE ForwardedOnce
  OBVIOUS
<1>1. PICK i \in 0..Len(script) : ProverKept(prover, script, i)
  BY PartiesKept
<1>2. GroupsKept(prover, handed)
  BY DEF MergeInv
<1>3. /\ DOMAIN prover.groups = 1..Len(prover.groups)
      /\ DOMAIN prover.records = 1..Len(prover.records)
  BY <1>1, SequenceLen DEF ProverKept, ProverShape
<1>4. ASSUME NEW g \in DOMAIN prover.groups
      PROVE  /\ Cardinality(Forwarded(prover.log, g)) = IF Members(prover, g) \subseteq handed
                                                        THEN 1 ELSE 0
             /\ prover.groups[g].buffer = <<>> <=> Members(prover, g) \subseteq handed
  BY <1>2, <1>3 DEF GroupsKept, GroupKept
<1> QED BY <1>3, <1>4 DEF ForwardedOnce, Forwarded, Members

(* The buffer of a round goes to the inner channel once, with the last of    *)
(* its members, however rounds and hand-backs interleave.                    *)
THEOREM BuffersForwardedOnce == Spec => []ForwardedOnce
BY MergeInvariant, ForwardingHolds, PTL
------------------------------------------------------------------------------
(* The n-th entry of a kind, and the end of a round. *)
Entry(log, op, n) == log[Nth(On(log, op), n)]
End(sch, g)       == IF g = 0 THEN 0 ELSE sch.ends[g]

LEMMA EntryAt ==
  ASSUME NEW s, IsSequence(s), NEW op, NEW i \in Nat, i < Len(s), s[i + 1].op = op
  PROVE  Entry(s, op, Upto(On(s, op), i) + 1) = s[i + 1]
<1>1. i + 1 \in On(s, op) /\ Upto(On(s, op), i + 1) = Upto(On(s, op), i) + 1
  BY UptoNext
<1>2. On(s, op) \subseteq Nat \ {0}
  BY OnPlaces
<1>3. Nth(On(s, op), Upto(On(s, op), i) + 1) = i + 1
  BY <1>1, <1>2, NthFound
<1> QED BY <1>3 DEF Entry

LEMMA EntryStays ==
  ASSUME NEW s, IsSequence(s), NEW e, NEW op, NEW n \in 1..Times(s, op)
  PROVE  Entry(Append(s, e), op, n) = Entry(s, op, n)
<1> DEFINE t == Append(s, e)
           C == On(s, op)
           D == On(t, op)
<1>1. Len(s) \in Nat /\ IsSequence(t) /\ \A i \in 1..Len(s) : t[i] = s[i]
  BY SequenceLen, AppendSequence, ZenonT(60)
<1>2. C \subseteq Nat \ {0} /\ D \subseteq Nat \ {0}
  BY <1>1, OnPlaces
<1>3. PICK i \in C \cap (1..Len(s)) : Upto(C, i) = n
  BY <1>1, NthExists DEF Times
<1>4. i \in D /\ Upto(D, i) = n
  BY <1>1, <1>3, OnAppend
<1>5. t[i] = s[i]
  BY <1>1, <1>3
<1> HIDE DEF t, C, D
<1>6. Nth(C, n) = i /\ Nth(D, n) = i
  BY <1>2, <1>3, <1>4, NthFound
<1> QED BY <1>5, <1>6 DEF Entry, t, C, D

LEMMA EntryNew ==
  ASSUME NEW s, IsSequence(s), NEW e, NEW op, e.op = op
  PROVE  Entry(Append(s, e), op, Times(s, op) + 1) = e
<1> DEFINE t == Append(s, e)
<1>1. /\ Len(s) \in Nat /\ IsSequence(t) /\ Len(t) = Len(s) + 1 /\ t[Len(s) + 1] = e
  BY SequenceLen, AppendSequence
<1>2. Len(s) + 1 \in On(t, op) /\ Upto(On(t, op), Len(s) + 1) = Times(s, op) + 1
  BY OnAppend
<1> HIDE DEF t
<1>3. On(t, op) \subseteq Nat \ {0}
  BY <1>1, OnPlaces
<1>4. Nth(On(t, op), Times(s, op) + 1) = Len(s) + 1
  BY <1>2, <1>3, NthFound
<1> QED BY <1>1, <1>4 DEF Entry, t
------------------------------------------------------------------------------
(* What the schedule holds of the script: each oracle's length and mask, and *)
(* the ends of the rounds, in order: where an operation follows oracles,     *)
(* and, once the dry run is over, the end of the last.                       *)
Closes(s, e) == \E i \in 1..Len(s) : s[i].op # "oracle" /\ Arrived(s, i) = e

SpecsKept(sch, s, z) ==
  \A k \in 1..Times(s, "oracle") :
    /\ sch.specs[k].log_msg_len = Entry(s, "oracle", k).len
    /\ sch.specs[k].is_zk <=> z /\ Entry(s, "oracle", k).wd

Increasing(ends) == \A a, b \in 1..Len(ends) : a < b => ends[a] < ends[b]

Ended(sch, e) == \E r \in 1..Len(sch.ends) : sch.ends[r] = e

EndsKept(sch, s, last) ==
  /\ Increasing(sch.ends)
  /\ \A i \in 1..Len(s) : s[i].op # "oracle" /\ Arrived(s, i) > 0 => Ended(sch, Arrived(s, i))
  /\ \A r \in 1..Len(sch.ends) : Closes(s, sch.ends[r]) \/ (last /\ sch.ends[r] = Times(s, "oracle"))
  /\ last => Ended(sch, Times(s, "oracle"))

(* A party's commitments are the schedule's, round by round; and no round    *)
(* that is over is still open.                                               *)
RoundLens(sch, g) == Lengths(rounds(sch)[g])

LensKept(s, records) == \A k \in 1..Len(records) : records[k].len = Entry(s, "oracle", k).len

SameLens(records, recs) ==
  Len(recs) = Len(records) /\ \A k \in 1..Len(records) : recs[k].len = records[k].len

OpenPart(records, closed) == [k \in 1..Len(records) - closed |-> records[closed + k].len]

Follows(s, sch, log, records, closed) ==
  /\ LensKept(s, records)
  /\ Times(log, "commit") \in 0..Len(sch.ends) /\ closed = End(sch, Times(log, "commit"))
  /\ \A g \in 1..Times(log, "commit") :
       Entry(log, "commit", g).len = merged_log_msg_len(RoundLens(sch, g))

Behind(s, closed, i) == \A j \in 1..i : s[j].op # "oracle" => Arrived(s, j) <= closed

LEMMA FollowsAtFirst ==
  ASSUME NEW s, NEW sch, IsSequence(sch.ends)
  PROVE  Follows(s, sch, <<>>, <<>>, 0) /\ Behind(s, 0, 0)
<1>1. Len(<<>>) = 0 /\ Times(<<>>, "commit") = 0 /\ 1..0 = {} /\ Len(sch.ends) \in Nat
  BY EmptyIsSequence, NoneCounted, SequenceLen DEF Times
<1> QED BY <1>1 DEF Follows, LensKept, Behind, End

LEMMA FollowsLogged ==
  ASSUME NEW s, NEW sch, NEW log, IsSequence(log), NEW records, NEW closed,
         Follows(s, sch, log, records, closed), NEW e, e.op # "commit"
  PROVE  Follows(s, sch, Append(log, e), records, closed)
<1>1. Times(Append(log, e), "commit") = Times(log, "commit")
  BY OnAppend
<1>2. \A g \in 1..Times(log, "commit") :
        Entry(Append(log, e), "commit", g) = Entry(log, "commit", g)
  BY EntryStays
<1> QED BY <1>1, <1>2 DEF Follows

LEMMA FollowsOracle ==
  ASSUME NEW s, IsSequence(s), NEW sch, NEW log, NEW records, NEW closed, NEW i \in Nat,
         Follows(s, sch, log, records, closed), IsSequence(records),
         i < Len(s), s[i + 1].op = "oracle", Len(records) = Arrived(s, i),
         NEW r, r.len = s[i + 1].len
  PROVE  Follows(s, sch, log, Append(records, r), closed)
<1> DEFINE n == Len(records)
           recs == Append(records, r)
<1>1. /\ n \in Nat /\ Len(recs) = n + 1
      /\ \A k \in 1..n : recs[k] = records[k]
      /\ recs[n + 1] = r
  BY SequenceLen, AppendSequence
<1>2. Entry(s, "oracle", n + 1) = s[i + 1]
  BY EntryAt DEF Arrived
<1> HIDE DEF recs, n
<1>3. ASSUME NEW k \in 1..n + 1 PROVE recs[k].len = Entry(s, "oracle", k).len
  <2>1. CASE k = n + 1
    BY <1>1, <1>2, <2>1
  <2>2. CASE k # n + 1
    <3>1. k \in 1..n
      BY <1>1, <2>2
    <3> QED BY <1>1, <3>1 DEF Follows, LensKept, n
  <2> QED BY <2>1, <2>2
<1> QED BY <1>1, <1>3 DEF Follows, LensKept, recs

LEMMA BehindOracle ==
  ASSUME NEW s, NEW closed, NEW i \in Nat, Behind(s, closed, i), s[i + 1].op = "oracle"
  PROVE  Behind(s, closed, i + 1)
<1>1. \A j \in 1..i + 1 : j \in 1..i \/ j = i + 1
  OBVIOUS
<1> QED BY <1>1 DEF Behind

LEMMA BehindAll ==
  ASSUME NEW s, IsSequence(s), NEW i \in 0..Len(s)
  PROVE  Behind(s, Arrived(s, i), i)
<1>1. ASSUME NEW j \in 1..i PROVE Arrived(s, j) <= Arrived(s, i)
  <2>1. i \in Nat /\ j \in Nat /\ j <= i
    BY SequenceLen
  <2> QED BY <2>1, UptoMonotonic DEF Arrived
<1> QED BY <1>1 DEF Behind

(* The round a flush closes is the next of the schedule. *)
LEMMA NextEnd ==
  ASSUME NEW s, IsSequence(s), NEW sch, ScheduleShape(sch, Times(s, "oracle")),
         NEW last, EndsKept(sch, s, last), NEW i \in 0..Len(s), Ended(sch, Arrived(s, i)),
         NEW g \in 0..Len(sch.ends), End(sch, g) < Arrived(s, i), Behind(s, End(sch, g), i)
  PROVE  g + 1 \in 1..Len(sch.ends) /\ sch.ends[g + 1] = Arrived(s, i)
<1> DEFINE L == Len(sch.ends)
           ends == sch.ends
           n == Arrived(s, i)
           closed == End(sch, g)
           all == Times(s, "oracle")
<1>1. /\ L \in Nat /\ all \in Nat /\ n \in 0..all
      /\ \A r \in 1..L : ends[r] \in 1..all
      /\ \A a, b \in 1..L : a < b => ends[a] < ends[b]
  BY SequenceLen, OnPlaces, ArrivedAtMost DEF ScheduleShape, EndsKept, Increasing
<1>2. PICK r \in 1..L : ends[r] = n
  BY DEF Ended
<1>3. closed \in Nat /\ (g # 0 => closed = ends[g] /\ g \in 1..L) /\ closed < n
  BY <1>1 DEF End
<1> HIDE DEF ends, L, closed, n, all
<1>4. r > g
  <2>1. CASE g = 0
    BY <1>1, <1>2, <2>1
  <2>2. CASE g # 0
    <3>1. r < g => ends[r] < ends[g]
      BY <1>1, <1>2, <1>3, <2>2
    <3> QED BY <1>1, <1>2, <1>3, <2>2, <3>1
  <2> QED BY <2>1, <2>2
<1>5. g + 1 \in 1..L /\ g \in Nat
  BY <1>1, <1>2, <1>4 DEF L
<1>6. CASE r = g + 1
  BY <1>2, <1>5, <1>6 DEF L, ends, n
<1>7. CASE r # g + 1
  <2> DEFINE e == ends[g + 1]
  <2>1. e < n /\ e \in 1..all
    <3>1. g + 1 < r
      BY <1>1, <1>2, <1>4, <1>5, <1>7
    <3> QED BY <1>1, <1>2, <1>5, <3>1
  <2>2. closed < e
    <3>1. CASE g = 0
      BY <1>1, <1>5, <2>1, <3>1 DEF closed, End
    <3>2. CASE g # 0
      <4>1. g < g + 1
        BY <1>5
      <4> QED BY <1>1, <1>3, <1>5, <3>2, <4>1
    <3> QED BY <3>1, <3>2
  <2>3. PICK j \in 1..Len(s) : s[j].op # "oracle" /\ Arrived(s, j) = e
    <3>1. e # all
      BY <1>1, <2>1
    <3> QED BY <1>5, <3>1 DEF EndsKept, Closes, all, L, ends
  <2>4. i \in Nat /\ j \in Nat
    BY SequenceLen
  <2> HIDE DEF e
  <2>5. j <= i
    <3>1. i <= j => n <= Arrived(s, j)
      BY <2>4, UptoMonotonic DEF Arrived, n
    <3> QED BY <1>1, <2>1, <2>3, <2>4, <3>1
  <2>6. Arrived(s, j) <= closed
    <3>1. j \in 1..i
      BY <2>4, <2>5
    <3> QED BY <2>3, <3>1 DEF Behind, closed
  <2> QED BY <1>1, <1>3, <2>1, <2>2, <2>3, <2>6
<1> QED BY <1>6, <1>7

(* The lengths of the oracles a flush finds open are those of the round. *)
LEMMA OpenRound ==
  ASSUME NEW s, NEW sch, ScheduleShape(sch, Times(s, "oracle")), NEW z, SpecsKept(sch, s, z),
         NEW g \in Nat, g + 1 \in 1..Len(sch.ends), NEW records, LensKept(s, records),
         Len(records) = sch.ends[g + 1], End(sch, g) \in 0..Len(records)
  PROVE  RoundLens(sch, g + 1) = OpenPart(records, End(sch, g))
<1> DEFINE n == Len(records)
           c == End(sch, g)
           all == Times(s, "oracle")
           round == SubSeq(sch.specs, c + 1, n)
<1>1. /\ Len(sch.specs) = all /\ n \in 1..all /\ IsSequence(sch.ends) /\ IsSequence(sch.specs)
      /\ all \in Nat
  <2>1. Len(sch.specs) = all /\ IsSequence(sch.specs) /\ IsSequence(sch.ends) /\ n \in 1..all
    BY DEF ScheduleShape
  <2> QED BY <2>1, SequenceLen
<1>2. DOMAIN sch.ends = 1..Len(sch.ends) /\ DOMAIN sch.specs = 1..all
  BY <1>1, SequenceLen
<1>3. rounds(sch)[g + 1] = round
  <2>1. c = IF g + 1 = 1 THEN 0 ELSE sch.ends[(g + 1) - 1]
    BY DEF End
  <2> QED BY <1>2, <2>1 DEF rounds
<1>4. c \in Nat /\ c <= n
  OBVIOUS
<1>5. /\ DOMAIN round = 1..n - c
      /\ \A k \in 1..n - c : round[k] = sch.specs[c + k]
  <2>1. PICK T : sch.specs \in Seq(T)
    BY <1>1 DEF IsSequence
  <2> HIDE DEF c
  <2>2. Len(round) = n - c /\ round \in Seq(T)
    BY <1>1, <1>4, <2>1, SMTT(40)
  <2>3. \A k \in 1..n - c : round[k] = sch.specs[c + k]
    BY <1>1, <1>4, <2>1
  <2> QED BY <2>2, <2>3
<1>6. ASSUME NEW k \in 1..n - c
      PROVE  round[k].log_msg_len = records[c + k].len
  <2>1. c + k \in 1..n /\ c + k \in 1..all
    BY <1>1, <1>4
  <2>2. sch.specs[c + k].log_msg_len = Entry(s, "oracle", c + k).len
    BY <2>1 DEF SpecsKept
  <2> QED BY <1>5, <2>1, <2>2 DEF LensKept
<1> HIDE DEF round
<1>7. Lengths(round) = [k \in 1..n - c |-> round[k].log_msg_len]
  BY <1>5 DEF Lengths
<1> QED BY <1>3, <1>6, <1>7 DEF RoundLens, OpenPart

(* A flush commits the next round of the schedule. *)
LEMMA FollowsCommit ==
  ASSUME NEW s, IsSequence(s), NEW sch, ScheduleShape(sch, Times(s, "oracle")),
         NEW last, EndsKept(sch, s, last), NEW z, SpecsKept(sch, s, z),
         NEW log, NEW records, NEW closed, NEW i, Kept(s, log, records, closed, i),
         Follows(s, sch, log, records, closed), Behind(s, closed, i),
         closed < Len(records), Ended(sch, Arrived(s, i)),
         NEW recs, SameLens(records, recs),
         NEW e, e.op = "commit",
         e.len = merged_log_msg_len(OpenPart(records, closed))
  PROVE  /\ Follows(s, sch, Append(log, e), recs, Len(recs))
         /\ rounds(sch)[Times(log, "commit") + 1] = SubSeq(sch.specs, closed + 1, Len(records))
<1> DEFINE n == Len(records)
           g == Times(log, "commit")
           t == Append(log, e)
           len == OpenPart(records, closed)
<1>1. /\ IsSequence(log) /\ n \in Nat /\ n = Arrived(s, i) /\ i \in 0..Len(s)
      /\ closed \in 0..n /\ g \in Nat /\ g \in 0..Len(sch.ends) /\ closed = End(sch, g)
      /\ LensKept(s, records) /\ Len(recs) = n
  BY SequenceLen, OnPlaces DEF Kept, Follows, SameLens
<1>2. g + 1 \in 1..Len(sch.ends) /\ sch.ends[g + 1] = n
  BY <1>1, NextEnd
<1> HIDE DEF g, n
<1>3. RoundLens(sch, g + 1) = len
  BY <1>1, <1>2, OpenRound DEF n, g
<1>4. Times(t, "commit") = g + 1 /\ Entry(t, "commit", g + 1) = e
  BY <1>1, OnAppend, EntryNew DEF g
<1>5. \A m \in 1..g : Entry(t, "commit", m) = Entry(log, "commit", m)
  BY <1>1, EntryStays DEF g
<1> HIDE DEF t, len
<1>6. e.len = merged_log_msg_len(len)
  BY DEF len
<1>7. ASSUME NEW m \in 1..g + 1
      PROVE  Entry(t, "commit", m).len = merged_log_msg_len(RoundLens(sch, m))
  <2>1. CASE m = g + 1
    BY <1>3, <1>4, <1>6, <2>1
  <2>2. CASE m # g + 1
    <3>1. m \in 1..g
      BY <1>1, <2>2
    <3> QED BY <1>5, <3>1 DEF Follows, g
  <2> QED BY <2>1, <2>2
<1>8. n = End(sch, g + 1) /\ g + 1 \in 0..Len(sch.ends)
  BY <1>1, <1>2 DEF End
<1>9. Follows(s, sch, t, recs, n)
  <2>1. LensKept(s, recs)
    BY <1>1 DEF LensKept, SameLens, n
  <2> QED BY <1>4, <1>7, <1>8, <2>1 DEF Follows
<1>10. rounds(sch)[g + 1] = SubSeq(sch.specs, closed + 1, n)
  <2>1. DOMAIN sch.ends = 1..Len(sch.ends)
    BY SequenceLen DEF ScheduleShape
  <2>2. closed = IF g + 1 = 1 THEN 0 ELSE sch.ends[(g + 1) - 1]
    BY <1>1 DEF End
  <2> QED BY <1>2, <2>1, <2>2 DEF rounds
<1>11. Len(recs) = n
  BY <1>1
<1> QED BY <1>9, <1>10, <1>11 DEF t, n, g

LEMMA FlushProverFollows ==
  ASSUME NEW s, IsSequence(s), NEW sch, ScheduleShape(sch, Times(s, "oracle")),
         NEW last, EndsKept(sch, s, last), NEW z, SpecsKept(sch, s, z),
         NEW p, NEW i, ProverKept(p, s, i), Follows(s, sch, p.log, p.records, Closed(p)),
         Behind(s, Closed(p), i), Closed(p) < Len(p.records) => Ended(sch, Arrived(s, i))
  PROVE  LET q == FlushProver(p) IN Follows(s, sch, q.log, q.records, Closed(q))
<1> DEFINE q == FlushProver(p)
           c == Closed(p)
           n == Len(p.records)
           w == Len(p.pending)
<1>1. /\ ProverShape(p) /\ Kept(s, p.log, p.records, c, i) /\ n \in Nat /\ w \in Nat
      /\ c = n - w /\ w <= n /\ (p.pending = <<>> <=> w = 0) /\ DOMAIN p.pending = 1..w
  BY SequenceLen DEF ProverKept, ProverShape, Closed
<1>2. CASE p.pending = <<>>
  <2>1. q = p
    BY <1>1, <1>2, FlushProverOK
  <2> QED BY <2>1
<1>3. CASE p.pending # <<>>
  <2> DEFINE len == [k \in DOMAIN p.pending |-> p.pending[k].len]
             e == [op |-> "commit", len |-> merged_log_msg_len(len)]
  <2>1. Remapped(p.records, q.records, c, Len(p.groups) + 1) /\ q.log = Append(p.log, e)
    BY <1>1, <1>3, FlushProverOK
  <2>2. Closed(q) = Len(q.records)
    BY FlushProverKept
  <2> HIDE DEF q
  <2>3. SameLens(p.records, q.records)
    BY <2>1 DEF Remapped, Grouped, SameLens
  <2>4. len = OpenPart(p.records, c)
    <3>1. n - c = w
      BY <1>1
    <3>2. \A k \in 1..w : p.pending[k].len = p.records[c + k].len
      BY <1>1 DEF ProverShape
    <3>3. OpenPart(p.records, c) = [k \in 1..w |-> p.records[c + k].len]
      BY <3>1 DEF OpenPart
    <3>4. len = [k \in 1..w |-> p.pending[k].len]
      BY <1>1
    <3> HIDE DEF len, c
    <3> QED BY <3>2, <3>3, <3>4
  <2>5. e.op = "commit" /\ e.len = merged_log_msg_len(len)
    OBVIOUS
  <2>6. c < n /\ Ended(sch, Arrived(s, i))
    <3>1. c < n
      <4> HIDE DEF c, n, w
      <4> QED BY <1>1, <1>3
    <3> QED BY <3>1
  <2> HIDE DEF e, len
  <2>7. e.len = merged_log_msg_len(OpenPart(p.records, c))
    BY <2>4, <2>5
  <2>8. Follows(s, sch, Append(p.log, e), q.records, Len(q.records))
    <3>1. /\ Kept(s, p.log, p.records, c, i) /\ Follows(s, sch, p.log, p.records, c)
          /\ Behind(s, c, i) /\ c < Len(p.records)
      BY <1>1, <2>6
    <3> HIDE DEF c, n, w
    <3> QED BY <2>3, <2>5, <2>6, <2>7, <3>1, FollowsCommit
  <2> QED BY <2>1, <2>2, <2>8 DEF q
<1> QED BY <1>2, <1>3

(* The verifier asks for the mask of a round when one of its oracles needs   *)
(* one.                                                                      *)
MasksKept(s, records) == \A k \in 1..Len(records) : records[k].wd <=> Entry(s, "oracle", k).wd

RoundMasked(sch, g) == \E k \in DOMAIN rounds(sch)[g] : rounds(sch)[g][k].is_zk

Masked(s, sch, z, log, records) ==
  /\ MasksKept(s, records)
  /\ \A g \in 1..Times(log, "commit") : (z /\ Entry(log, "commit", g).wd) <=> RoundMasked(sch, g)

SameMasks(records, recs) ==
  Len(recs) = Len(records) /\ \A k \in 1..Len(records) : recs[k].wd <=> records[k].wd

MaskOf(records, closed) == \E k \in closed + 1..Len(records) : records[k].wd

LEMMA MaskedAtFirst ==
  ASSUME NEW s, NEW sch, NEW z
  PROVE  Masked(s, sch, z, <<>>, <<>>)
<1>1. Len(<<>>) = 0 /\ Times(<<>>, "commit") = 0 /\ 1..0 = {}
  BY EmptyIsSequence, NoneCounted DEF Times
<1> QED BY <1>1 DEF Masked, MasksKept

LEMMA MaskedLogged ==
  ASSUME NEW s, NEW sch, NEW z, NEW log, IsSequence(log), NEW records,
         Masked(s, sch, z, log, records), NEW e, e.op # "commit"
  PROVE  Masked(s, sch, z, Append(log, e), records)
<1>1. Times(Append(log, e), "commit") = Times(log, "commit")
  BY OnAppend
<1>2. \A g \in 1..Times(log, "commit") :
        Entry(Append(log, e), "commit", g) = Entry(log, "commit", g)
  BY EntryStays
<1> QED BY <1>1, <1>2 DEF Masked

LEMMA MaskedOracle ==
  ASSUME NEW s, IsSequence(s), NEW sch, NEW z, NEW log, NEW records, NEW i \in Nat,
         Masked(s, sch, z, log, records), IsSequence(records),
         i < Len(s), s[i + 1].op = "oracle", Len(records) = Arrived(s, i),
         NEW r, r.wd = s[i + 1].wd
  PROVE  Masked(s, sch, z, log, Append(records, r))
<1> DEFINE n == Len(records)
           recs == Append(records, r)
<1>1. /\ n \in Nat /\ Len(recs) = n + 1
      /\ \A k \in 1..n : recs[k] = records[k]
      /\ recs[n + 1] = r
  BY SequenceLen, AppendSequence
<1>2. Entry(s, "oracle", n + 1) = s[i + 1]
  BY EntryAt DEF Arrived
<1> HIDE DEF recs, n
<1>3. ASSUME NEW k \in 1..n + 1 PROVE recs[k].wd <=> Entry(s, "oracle", k).wd
  <2>1. CASE k = n + 1
    BY <1>1, <1>2, <2>1
  <2>2. CASE k # n + 1
    <3>1. k \in 1..n
      BY <1>1, <2>2
    <3> QED BY <1>1, <3>1 DEF Masked, MasksKept, n
  <2> QED BY <2>1, <2>2
<1> QED BY <1>1, <1>3 DEF Masked, MasksKept, recs

LEMMA MaskedCommit ==
  ASSUME NEW s, NEW sch, ScheduleShape(sch, Times(s, "oracle")), NEW z, SpecsKept(sch, s, z),
         NEW log, IsSequence(log), NEW records, Masked(s, sch, z, log, records),
         NEW n, n = Len(records), n \in 0..Times(s, "oracle"), NEW closed \in 0..n,
         rounds(sch)[Times(log, "commit") + 1] = SubSeq(sch.specs, closed + 1, n),
         NEW recs, SameMasks(records, recs),
         NEW e, e.op = "commit", e.wd <=> MaskOf(records, closed)
  PROVE  Masked(s, sch, z, Append(log, e), recs)
<1> DEFINE all == Times(s, "oracle")
           g == Times(log, "commit")
           t == Append(log, e)
           round == SubSeq(sch.specs, closed + 1, n)
<1>1. /\ Len(sch.specs) = all /\ IsSequence(sch.specs) /\ all \in Nat /\ g \in Nat
      /\ closed \in Nat /\ n \in Nat /\ closed <= n /\ n <= all
  <2>1. Len(sch.specs) = all /\ IsSequence(sch.specs) /\ g \in Nat
    BY OnPlaces DEF ScheduleShape
  <2>2. all \in Nat
    BY <2>1, SequenceLen
  <2> QED BY <2>1, <2>2
<1>2. Times(t, "commit") = g + 1 /\ Entry(t, "commit", g + 1) = e
  BY OnAppend, EntryNew
<1>3. \A m \in 1..g : Entry(t, "commit", m) = Entry(log, "commit", m)
  BY EntryStays
<1>4. /\ DOMAIN round = 1..n - closed
      /\ \A k \in 1..n - closed : round[k] = sch.specs[closed + k]
  <2>1. PICK T : sch.specs \in Seq(T)
    BY <1>1 DEF IsSequence
  <2>2. Len(round) = n - closed /\ round \in Seq(T)
    BY <1>1, <2>1
  <2>3. \A k \in 1..n - closed : round[k] = sch.specs[closed + k]
    BY <1>1, <2>1
  <2> QED BY <2>2, <2>3
<1> HIDE DEF round, all, g, t
<1>5. ASSUME NEW k \in 1..n - closed
      PROVE  round[k].is_zk <=> z /\ records[closed + k].wd
  <2>1. closed + k \in 1..n /\ closed + k \in 1..all
    BY <1>1
  <2>2. sch.specs[closed + k].is_zk <=> z /\ Entry(s, "oracle", closed + k).wd
    BY <2>1 DEF SpecsKept, all
  <2>3. records[closed + k].wd <=> Entry(s, "oracle", closed + k).wd
    BY <2>1 DEF Masked, MasksKept
  <2> QED BY <1>4, <2>2, <2>3
<1>6. (\E k \in 1..n - closed : records[closed + k].wd) <=> MaskOf(records, closed)
  <2>1. ASSUME NEW k \in 1..n - closed, records[closed + k].wd PROVE MaskOf(records, closed)
    <3>1. closed + k \in closed + 1..n
      BY <1>1
    <3> QED BY <2>1, <3>1 DEF MaskOf
  <2>2. ASSUME NEW j \in closed + 1..n, records[j].wd
        PROVE  \E k \in 1..n - closed : records[closed + k].wd
    <3>1. j - closed \in 1..n - closed /\ closed + (j - closed) = j
      BY <1>1
    <3>2. records[closed + (j - closed)].wd
      BY <2>2, <3>1
    <3> QED BY <3>1, <3>2
  <2> QED BY <2>1, <2>2 DEF MaskOf
<1>7. (z /\ e.wd) <=> RoundMasked(sch, g + 1)
  <2>1. RoundMasked(sch, g + 1) <=> \E k \in 1..n - closed : round[k].is_zk
    BY <1>4 DEF RoundMasked, round, g
  <2>2. (\E k \in 1..n - closed : round[k].is_zk) <=> z /\ \E k \in 1..n - closed : records[closed + k].wd
    BY <1>5
  <2> QED BY <1>6, <2>1, <2>2
<1>8. ASSUME NEW m \in 1..g + 1
      PROVE  (z /\ Entry(t, "commit", m).wd) <=> RoundMasked(sch, m)
  <2>1. CASE m = g + 1
    BY <1>2, <1>7, <2>1
  <2>2. CASE m # g + 1
    <3>1. m \in 1..g
      BY <1>1, <2>2
    <3> QED BY <1>3, <3>1 DEF Masked, g
  <2> QED BY <2>1, <2>2
<1>9. MasksKept(s, recs)
  BY DEF Masked, MasksKept, SameMasks
<1> QED BY <1>2, <1>8, <1>9 DEF Masked, t, g

LEMMA FlushVerifierFollows ==
  ASSUME NEW s, IsSequence(s), NEW sch, ScheduleShape(sch, Times(s, "oracle")),
         NEW last, EndsKept(sch, s, last), NEW z, SpecsKept(sch, s, z),
         NEW v, NEW i, VerifierKept(v, s, i, tape),
         Follows(s, sch, v.log, v.records, v.flushed), Masked(s, sch, z, v.log, v.records),
         Times(v.log, "commit") < tape => Behind(s, v.flushed, i),
         v.flushed < Len(v.records) => Ended(sch, Arrived(s, i))
  PROVE  LET q == FlushVerifier(v) IN
         Follows(s, sch, q.log, q.records, q.flushed) /\ Masked(s, sch, z, q.log, q.records)
<1> DEFINE q == FlushVerifier(v)
           n == Len(v.records)
           c == v.flushed
           e == Commit(v)
<1>1. /\ VerifierShape(v) /\ Kept(s, v.log, v.records, c, i) /\ n \in Nat /\ c \in 0..n
      /\ IsSequence(v.log) /\ n = Arrived(s, i) /\ i \in 0..Len(s)
  BY SequenceLen DEF VerifierKept, VerifierShape, Kept
<1>2. CASE ~Unflushed(v) \/ FlushFails(v)
  <2>1. q = v
    BY <1>1, <1>2, FlushVerifierOK
  <2> QED BY <2>1
<1>3. CASE Unflushed(v) /\ ~FlushFails(v)
  <2>1. /\ Reassigned(v.records, q.records, c, Times(v.log, "commit") + 1)
        /\ q \in [records : {q.records}, flushed : {n}, log : {Append(v.log, e)}, verdict : {v.verdict}]
    BY <1>1, <1>3, FlushVerifierOK
  <2>2. c < n /\ Times(v.log, "commit") < tape
    BY <1>3 DEF Unflushed, FlushFails, InnerHasCommitment
  <2>3. e.op = "commit" /\ e.len = merged_log_msg_len(OpenLens(v))
    BY DEF Commit
  <2>4. e.wd <=> MaskOf(v.records, c)
    BY Zenon DEF Commit, MaskOf
  <2>5. OpenLens(v) = OpenPart(v.records, c)
    <3>1. \A k \in 1..n - c : k + c = c + k
      BY <1>1
    <3> QED BY <3>1 DEF OpenLens, OpenPart
  <2> HIDE DEF q, e, c
  <2>6. /\ SameLens(v.records, q.records) /\ SameMasks(v.records, q.records)
        /\ Len(q.records) = n
    <3>1. Len(q.records) = n
      BY <2>1 DEF Reassigned, Grouped
    <3>2. ASSUME NEW k \in 1..n
          PROVE  q.records[k].len = v.records[k].len /\ q.records[k].wd = v.records[k].wd
      <4> DEFINE new == q.records[k]
                 old == v.records[k]
      <4>1. new \in [len : {old.len}, wd : {old.wd}, mapping : {new.mapping}]
        BY <2>1 DEF Reassigned
      <4> HIDE DEF new, old
      <4>2. new.len = old.len /\ new.wd = old.wd
        BY <4>1
      <4> QED BY <4>2 DEF new, old
    <3> QED BY <3>1, <3>2 DEF SameLens, SameMasks
  <2>7. e.len = merged_log_msg_len(OpenPart(v.records, c))
    BY <2>3, <2>5
  <2>8. Follows(s, sch, v.log, v.records, c) /\ Behind(s, c, i) /\ Ended(sch, Arrived(s, i))
    BY <2>2 DEF c
  <2>9. /\ Follows(s, sch, Append(v.log, e), q.records, Len(q.records))
        /\ rounds(sch)[Times(v.log, "commit") + 1] = SubSeq(sch.specs, c + 1, n)
    BY <1>1, <2>2, <2>3, <2>6, <2>7, <2>8, FollowsCommit
  <2>10. n \in 0..Times(s, "oracle")
    BY <1>1, ArrivedAtMost
  <2>11. Masked(s, sch, z, Append(v.log, e), q.records)
    BY <1>1, <2>3, <2>4, <2>6, <2>9, <2>10, MaskedCommit
  <2>12. q.flushed = n /\ q.log = Append(v.log, e)
    BY <2>1
  <2> QED BY <2>6, <2>9, <2>11, <2>12 DEF q
<1> QED BY <1>2, <1>3
------------------------------------------------------------------------------
(* The dry run closes a round at as many oracles as there are, once. *)
LEMMA RoundEnded ==
  ASSUME NEW sch, NEW n \in Nat, ScheduleShape(sch, n), Increasing(sch.ends)
  PROVE  LET new == end_round(sch) IN
         /\ new.specs = sch.specs /\ Increasing(new.ends)
         /\ n > 0 => Ended(new, n)
         /\ \A e : Ended(sch, e) => Ended(new, e)
         /\ \A e : Ended(new, e) => Ended(sch, e) \/ e = n
<1> DEFINE L == Len(sch.ends)
           open_start == IF sch.ends = <<>> THEN 0 ELSE Last(sch.ends)
           ends == Append(sch.ends, Len(sch.specs))
           longer == [sch EXCEPT !.ends = ends]
           new == end_round(sch)
<1>1. /\ sch \in [specs : {sch.specs}, ends : {sch.ends}]
      /\ IsSequence(sch.ends) /\ Len(sch.specs) = n /\ L \in Nat
      /\ (sch.ends = <<>> <=> L = 0)
      /\ \A r \in 1..L : sch.ends[r] \in 1..n
  BY SequenceLen DEF ScheduleShape
<1>2. new = IF n > open_start THEN longer ELSE sch
  BY <1>1 DEF end_round
<1>3. /\ Len(ends) = L + 1 /\ ends[L + 1] = n
      /\ \A r \in 1..L : ends[r] = sch.ends[r]
  BY <1>1, AppendSequence
<1> HIDE DEF ends
<1>4. longer.specs = sch.specs /\ longer.ends = ends
  BY <1>1
<1>5. \A a, b \in 1..L : a < b => sch.ends[a] < sch.ends[b]
  BY DEF Increasing
<1>6. L > 0 => open_start = sch.ends[L] /\ L \in 1..L
  BY <1>1 DEF Last
<1>7. L = 0 => open_start = 0
  BY <1>1
<1> HIDE DEF open_start, new, longer, L
<1>8. CASE n > open_start
  <2>1. ASSUME NEW a \in 1..L + 1, NEW b \in 1..L + 1, a < b PROVE ends[a] < ends[b]
    <3>1. a \in 1..L
      BY <1>1, <2>1
    <3>2. CASE b \in 1..L
      BY <1>3, <1>5, <2>1, <3>1, <3>2
    <3>3. CASE b = L + 1
      <4>1. L > 0 /\ sch.ends[L] \in 1..n /\ sch.ends[a] \in 1..n /\ sch.ends[L] < n
        BY <1>1, <1>6, <1>8, <3>1
      <4>2. a < L => sch.ends[a] < sch.ends[L]
        BY <1>5, <1>6, <3>1, <4>1
      <4>3. a < L \/ a = L
        BY <1>1, <3>1
      <4> QED BY <1>1, <1>3, <3>1, <3>3, <4>1, <4>2, <4>3
    <3> QED BY <1>1, <3>2, <3>3
  <2>2. \A r : r \in 1..L + 1 <=> r \in 1..L \/ r = L + 1
    BY <1>1
  <2>3. \A e : (\E r \in 1..L + 1 : ends[r] = e) <=> (\E r \in 1..L : sch.ends[r] = e) \/ e = n
    BY <1>3, <2>2
  <2>4. new.specs = sch.specs /\ new.ends = ends
    BY <1>2, <1>4, <1>8
  <2>5. \A e : Ended(new, e) <=> Ended(sch, e) \/ e = n
    BY <1>3, <2>3, <2>4 DEF Ended, L
  <2>6. Increasing(new.ends)
    BY <1>3, <2>1, <2>4 DEF Increasing
  <2> QED BY <2>4, <2>5, <2>6 DEF new
<1>9. CASE ~(n > open_start)
  <2>1. new = sch
    BY <1>2, <1>9
  <2>2. n > 0 => Ended(sch, n)
    <3>1. ASSUME n > 0 PROVE L > 0
      BY <1>1, <1>7, <1>9, <3>1
    <3>2. ASSUME n > 0 PROVE sch.ends[L] = n /\ L \in 1..L
      BY <1>1, <1>6, <1>9, <3>1, <3>2
    <3> QED BY <3>2 DEF Ended, L
  <2> QED BY <2>1, <2>2 DEF new
<1> QED BY <1>8, <1>9

(* An operation more in the script. *)
LEMMA ScriptGrows ==
  ASSUME NEW s, IsSequence(s), NEW op
  PROVE  LET t == Append(s, op) IN
         /\ IsSequence(t) /\ Len(t) = Len(s) + 1 /\ Len(s) \in Nat /\ t[Len(s) + 1] = op
         /\ \A i \in 1..Len(s) : t[i] = s[i] /\ Arrived(t, i) = Arrived(s, i)
         /\ op.op # "oracle" => /\ Arrived(t, Len(s) + 1) = Times(s, "oracle")
                                /\ Times(t, "oracle") = Times(s, "oracle")
         /\ op.op = "oracle" => Times(t, "oracle") = Times(s, "oracle") + 1
         /\ \A e : Closes(s, e) => Closes(t, e)
<1> DEFINE t == Append(s, op)
<1>1. /\ IsSequence(t) /\ Len(t) = Len(s) + 1 /\ Len(s) \in Nat /\ t[Len(s) + 1] = op
      /\ \A i \in 1..Len(s) : t[i] = s[i]
  BY SequenceLen, AppendSequence, ZenonT(60)
<1>2. \A i \in 0..Len(s) : Upto(On(t, "oracle"), i) = Upto(On(s, "oracle"), i)
  BY OnAppend
<1>3. /\ op.op # "oracle" => Times(t, "oracle") = Times(s, "oracle")
      /\ op.op = "oracle" => Times(t, "oracle") = Times(s, "oracle") + 1
  BY OnAppend
<1> HIDE DEF t
<1>4. \A i \in 1..Len(s) : Arrived(t, i) = Arrived(s, i)
  BY <1>1, <1>2 DEF Arrived
<1>5. op.op # "oracle" => Arrived(t, Len(s) + 1) = Times(s, "oracle")
  BY <1>1, <1>3 DEF Arrived, Times
<1>6. \A e : Closes(s, e) => Closes(t, e)
  <2>1. \A i \in 1..Len(s) : i \in 1..Len(t)
    BY <1>1
  <2> QED BY <1>1, <1>4, <2>1 DEF Closes
<1> QED BY <1>1, <1>3, <1>4, <1>5, <1>6 DEF t

LEMMA EndsOracle ==
  ASSUME NEW s, IsSequence(s), NEW sch, EndsKept(sch, s, FALSE), NEW op, op.op = "oracle",
         NEW new, new.ends = sch.ends
  PROVE  EndsKept(new, Append(s, op), FALSE)
<1> DEFINE t == Append(s, op)
<1>1. /\ Len(t) = Len(s) + 1 /\ Len(s) \in Nat /\ t[Len(s) + 1] = op
      /\ \A i \in 1..Len(s) : t[i] = s[i] /\ Arrived(t, i) = Arrived(s, i)
      /\ \A e : Closes(s, e) => Closes(t, e)
  BY ScriptGrows
<1> HIDE DEF t
<1>2. ASSUME NEW i \in 1..Len(t), t[i].op # "oracle" PROVE i \in 1..Len(s)
  <2>1. i # Len(s) + 1
    BY <1>1, <1>2
  <2> QED BY <1>1, <2>1
<1>3. \A e : Ended(new, e) <=> Ended(sch, e)
  BY DEF Ended
<1>4. ASSUME NEW i \in 1..Len(t), t[i].op # "oracle", Arrived(t, i) > 0
      PROVE  Ended(new, Arrived(t, i))
  BY <1>1, <1>2, <1>3, <1>4 DEF EndsKept
<1>5. \A r \in 1..Len(new.ends) : Closes(t, new.ends[r])
  BY <1>1 DEF EndsKept
<1>6. Increasing(new.ends)
  BY DEF EndsKept
<1> QED BY <1>4, <1>5, <1>6 DEF EndsKept, t

LEMMA EndsRound ==
  ASSUME NEW s, IsSequence(s), NEW sch, ScheduleShape(sch, Times(s, "oracle")),
         EndsKept(sch, s, FALSE), NEW op, op.op # "oracle"
  PROVE  EndsKept(end_round(sch), Append(s, op), FALSE)
<1> DEFINE t == Append(s, op)
           n == Times(s, "oracle")
           new == end_round(sch)
<1>1. /\ Len(t) = Len(s) + 1 /\ Len(s) \in Nat /\ t[Len(s) + 1] = op
      /\ \A i \in 1..Len(s) : t[i] = s[i] /\ Arrived(t, i) = Arrived(s, i)
      /\ Arrived(t, Len(s) + 1) = n
      /\ \A e : Closes(s, e) => Closes(t, e)
  BY ScriptGrows
<1>2. n \in Nat
  BY OnPlaces
<1>3. /\ Increasing(new.ends)
      /\ n > 0 => Ended(new, n)
      /\ \A e : Ended(sch, e) => Ended(new, e)
      /\ \A e : Ended(new, e) => Ended(sch, e) \/ e = n
  <2>1. Increasing(sch.ends)
    BY DEF EndsKept
  <2> QED BY <1>2, <2>1, RoundEnded
<1> HIDE DEF t, n, new
<1>4. \A i \in 1..Len(t) : i \in 1..Len(s) \/ i = Len(s) + 1
  BY <1>1
<1>5. ASSUME NEW i \in 1..Len(t), t[i].op # "oracle", Arrived(t, i) > 0
      PROVE  Ended(new, Arrived(t, i))
  <2>1. CASE i \in 1..Len(s)
    BY <1>1, <1>3, <1>5, <2>1 DEF EndsKept
  <2>2. CASE i = Len(s) + 1
    BY <1>1, <1>3, <1>5, <2>2
  <2> QED BY <1>4, <2>1, <2>2
<1>6. Closes(t, n)
  <2>1. Len(s) + 1 \in 1..Len(t)
    BY <1>1
  <2> QED BY <1>1, <2>1 DEF Closes
<1>7. ASSUME NEW r \in 1..Len(new.ends) PROVE Closes(t, new.ends[r])
  <2>1. Ended(new, new.ends[r])
    BY DEF Ended
  <2>2. Ended(sch, new.ends[r]) \/ new.ends[r] = n
    BY <1>3, <2>1
  <2>3. \A e : Ended(sch, e) => Closes(s, e)
    BY DEF Ended, EndsKept
  <2> QED BY <1>1, <1>6, <2>2, <2>3
<1> QED BY <1>3, <1>5, <1>7 DEF EndsKept, t, new

LEMMA EndsFinal ==
  ASSUME NEW s, IsSequence(s), NEW sch, ScheduleShape(sch, Times(s, "oracle")),
         EndsKept(sch, s, FALSE), Times(s, "oracle") > 0
  PROVE  EndsKept(end_round(sch), s, TRUE)
<1> DEFINE n == Times(s, "oracle")
           new == end_round(sch)
<1>1. n \in Nat
  BY OnPlaces
<1>2. /\ Increasing(new.ends) /\ Ended(new, n)
      /\ \A e : Ended(sch, e) => Ended(new, e)
      /\ \A e : Ended(new, e) => Ended(sch, e) \/ e = n
  <2>1. Increasing(sch.ends)
    BY DEF EndsKept
  <2> QED BY <1>1, <2>1, RoundEnded
<1> HIDE DEF n, new
<1>3. ASSUME NEW r \in 1..Len(new.ends) PROVE Closes(s, new.ends[r]) \/ new.ends[r] = n
  <2>1. Ended(new, new.ends[r])
    BY DEF Ended
  <2>2. \A e : Ended(sch, e) => Closes(s, e)
    BY DEF Ended, EndsKept
  <2> QED BY <1>2, <2>1, <2>2
<1> QED BY <1>2, <1>3 DEF EndsKept, n, new

(* What an oracle more asks for is what its entry in the schedule says. *)
LEMMA SpecsOracle ==
  ASSUME NEW s, IsSequence(s), NEW sch, ScheduleShape(sch, Times(s, "oracle")), NEW z,
         SpecsKept(sch, s, z), NEW op, op.op = "oracle",
         NEW x, x.log_msg_len = op.len, x.is_zk <=> z /\ op.wd,
         NEW new, new.specs = Append(sch.specs, x)
  PROVE  SpecsKept(new, Append(s, op), z)
<1> DEFINE n == Times(s, "oracle")
           t == Append(s, op)
           specs == Append(sch.specs, x)
<1>1. IsSequence(sch.specs) /\ Len(sch.specs) = n /\ n \in Nat
  BY OnPlaces DEF ScheduleShape
<1>2. specs[n + 1] = x /\ \A k \in 1..n : specs[k] = sch.specs[k]
  BY <1>1, AppendSequence
<1>3. Times(t, "oracle") = n + 1 /\ Entry(t, "oracle", n + 1) = op
  BY OnAppend, EntryNew
<1>4. \A k \in 1..n : Entry(t, "oracle", k) = Entry(s, "oracle", k)
  BY EntryStays
<1> HIDE DEF t, n, specs
<1>5. ASSUME NEW k \in 1..n + 1
      PROVE  /\ specs[k].log_msg_len = Entry(t, "oracle", k).len
             /\ specs[k].is_zk <=> z /\ Entry(t, "oracle", k).wd
  <2>1. CASE k = n + 1
    BY <1>2, <1>3, <2>1
  <2>2. CASE k # n + 1
    <3>1. k \in 1..n
      BY <1>1, <2>2
    <3> QED BY <1>2, <1>4, <3>1 DEF SpecsKept, n
  <2> QED BY <2>1, <2>2
<1> QED BY <1>3, <1>5 DEF SpecsKept, t, specs

LEMMA SpecsSame ==
  ASSUME NEW s, IsSequence(s), NEW sch, NEW z, SpecsKept(sch, s, z), NEW op, op.op # "oracle",
         NEW new, new.specs = sch.specs
  PROVE  SpecsKept(new, Append(s, op), z) /\ SpecsKept(new, s, z)
<1>1. Times(Append(s, op), "oracle") = Times(s, "oracle")
  BY OnAppend
<1>2. \A k \in 1..Times(s, "oracle") : Entry(Append(s, op), "oracle", k) = Entry(s, "oracle", k)
  BY EntryStays
<1> QED BY <1>1, <1>2 DEF SpecsKept
------------------------------------------------------------------------------
(* The inductive invariant, on top of MergeInv: the schedule keeps to the    *)
(* script and both parties to the schedule.                                  *)
ProverFollows(p, s, sch, i) ==
  Follows(s, sch, p.log, p.records, Closed(p)) /\ Behind(s, Closed(p), i)

VerifierFollows(v, s, sch, z, i, t) ==
  /\ Follows(s, sch, v.log, v.records, v.flushed) /\ Masked(s, sch, z, v.log, v.records)
  /\ Times(v.log, "commit") < t => Behind(s, v.flushed, i)

ScheduleInv ==
  /\ SpecsKept(schedule, script, zk) /\ EndsKept(schedule, script, stage # "setup")
  /\ stage # "verify" => ProverFollows(prover, script, schedule, pos)
  /\ stage = "verify" => /\ ProverFollows(prover, script, schedule, Len(script))
                         /\ Times(prover.log, "commit") = Len(schedule.ends)
                         /\ VerifierFollows(verifier, script, schedule, zk, pos, tape)

LEMMA InitialFollows ==
  ASSUME NEW s, NEW sch, IsSequence(sch.ends)
  PROVE  /\ ProverFollows(InitialProver, s, sch, 0)
         /\ \A z, t : VerifierFollows(InitialVerifier, s, sch, z, 0, t)
<1> DEFINE e == <<>>
<1>1. Len(e) = 0 /\ Follows(s, sch, e, e, 0) /\ Behind(s, 0, 0) /\ \A z : Masked(s, sch, z, e, e)
  BY EmptyIsSequence, FollowsAtFirst, MaskedAtFirst
<1> HIDE DEF e
<1>2. /\ InitialProver = [pending |-> e, records |-> e, groups |-> e, log |-> e]
      /\ InitialVerifier = [records |-> e, flushed |-> 0, log |-> e, verdict |-> "none"]
  BY DEF InitialProver, InitialVerifier, e
<1>3. /\ InitialProver.pending = e /\ InitialProver.records = e /\ InitialProver.log = e
      /\ InitialVerifier.records = e /\ InitialVerifier.flushed = 0 /\ InitialVerifier.log = e
  BY <1>2
<1>4. Closed(InitialProver) = 0
  BY <1>1, <1>3 DEF Closed
<1> QED BY <1>1, <1>3, <1>4 DEF ProverFollows, VerifierFollows

LEMMA ScheduleInit == Init => ScheduleInv
<1> SUFFICES ASSUME Init PROVE ScheduleInv
  OBVIOUS
<1>1. /\ stage = "setup" /\ script = <<>> /\ pos = 0 /\ prover = InitialProver
      /\ schedule = [specs |-> <<>>, ends |-> <<>>]
  BY DEF Init, InitialProver
<1>2. schedule.ends = <<>> /\ schedule.specs = <<>>
  BY <1>1
<1>3. Len(<<>>) = 0 /\ IsSequence(<<>>) /\ 1..0 = {} /\ Times(<<>>, "oracle") = 0
  BY EmptyIsSequence, NoneCounted DEF Times
<1>4. SpecsKept(schedule, script, zk)
  BY <1>1, <1>3 DEF SpecsKept
<1>5. EndsKept(schedule, script, FALSE)
  BY <1>1, <1>2, <1>3 DEF EndsKept, Increasing
<1>6. ProverFollows(prover, script, schedule, pos)
  BY <1>1, <1>2, <1>3, InitialFollows
<1> QED BY <1>1, <1>4, <1>5, <1>6 DEF ScheduleInv

LEMMA ScheduleSetup ==
  ASSUME MergeInv, MergeInv', ScheduleInv,
         \/ \E n \in Lens, wd \in BOOLEAN : SetupRecvOracle(n, wd)
         \/ SetupSample
         \/ \E k \in 1..n_oracles : SetupVerifyRelation(k)
  PROVE  ScheduleInv'
<1>1. /\ IsSequence(script) /\ ScheduleShape(schedule, Times(script, "oracle"))
      /\ IsSequence(schedule'.ends)
  BY DEF MergeInv, ScriptShape, ScheduleShape, n_oracles
<1>2. stage = "setup" /\ stage' = "setup" /\ zk' = zk /\ prover' = InitialProver /\ pos' = 0
  BY DEF MergeInv, SetupRecvOracle, SetupSample, SetupVerifyRelation, Declare
<1>3. SpecsKept(schedule, script, zk) /\ EndsKept(schedule, script, FALSE)
  BY <1>2 DEF ScheduleInv
<1>4. ProverFollows(prover', script', schedule', pos')
  BY <1>1, <1>2, InitialFollows
<1>5. ASSUME NEW n \in Lens, NEW wd \in BOOLEAN, SetupRecvOracle(n, wd)
      PROVE  SpecsKept(schedule', script', zk) /\ EndsKept(schedule', script', FALSE)
  <2> DEFINE op == Oracle(n, wd)
             x == [log_msg_len |-> n, is_zk |-> zk /\ wd]
             specs == Append(schedule.specs, x)
  <2>1. op.op = "oracle" /\ op.len = n /\ op.wd = wd
    BY DEF Oracle
  <2>2. x.log_msg_len = op.len /\ (x.is_zk <=> zk /\ op.wd)
    BY <2>1, Zenon
  <2>3. script' = Append(script, op) /\ schedule' = [schedule EXCEPT !.specs = specs]
    BY <1>5 DEF SetupRecvOracle, Declare
  <2> HIDE DEF op, x, specs
  <2>4. schedule'.specs = specs /\ schedule'.ends = schedule.ends
    BY <1>1, <2>3 DEF ScheduleShape
  <2>5. EndsKept(schedule', script', FALSE)
    BY <1>1, <1>3, <2>1, <2>3, <2>4, EndsOracle
  <2>6. SpecsKept(schedule', script', zk)
    BY <1>1, <1>3, <2>1, <2>2, <2>3, <2>4, SpecsOracle DEF specs
  <2> QED BY <2>5, <2>6
<1>6. ASSUME NEW op, op.op # "oracle", Declare(op), schedule' = end_round(schedule)
      PROVE  SpecsKept(schedule', script', zk) /\ EndsKept(schedule', script', FALSE)
  <2>1. script' = Append(script, op)
    BY <1>6 DEF Declare
  <2>2. schedule'.specs = schedule.specs
    <3>1. Increasing(schedule.ends) /\ Times(script, "oracle") \in Nat
      BY <1>1, <1>3, OnPlaces DEF EndsKept
    <3> QED BY <1>1, <1>6, <3>1, RoundEnded
  <2>3. EndsKept(schedule', script', FALSE)
    BY <1>1, <1>3, <1>6, <2>1, EndsRound
  <2>4. SpecsKept(schedule', script', zk)
    BY <1>1, <1>3, <1>6, <2>1, <2>2, SpecsSame
  <2> QED BY <2>3, <2>4
<1>7. Sample.op # "oracle" /\ \A k : Open(k).op # "oracle"
  BY DEF Sample, Open
<1>8. SpecsKept(schedule', script', zk) /\ EndsKept(schedule', script', FALSE)
  BY <1>5, <1>6, <1>7 DEF SetupSample, SetupVerifyRelation
<1> QED BY <1>2, <1>4, <1>8 DEF ScheduleInv

LEMMA ScheduleReady ==
  ASSUME MergeInv, MergeInv', ScheduleInv, IntoOracleSchedule
  PROVE  ScheduleInv'
<1>1. /\ IsSequence(script) /\ ScheduleShape(schedule, Times(script, "oracle"))
      /\ IsSequence(schedule'.ends)
  BY DEF MergeInv, ScriptShape, ScheduleShape, n_oracles
<1>2. /\ stage = "setup" /\ stage' = "prove" /\ Times(script, "oracle") > 0
      /\ UNCHANGED <<zk, script, prover, pos>> /\ schedule' = end_round(schedule)
  BY DEF IntoOracleSchedule, n_oracles
<1>3. prover' = InitialProver /\ pos' = 0
  BY <1>2 DEF MergeInv
<1>4. SpecsKept(schedule, script, zk) /\ EndsKept(schedule, script, FALSE)
  BY <1>2 DEF ScheduleInv
<1>5. EndsKept(schedule', script, TRUE)
  BY <1>1, <1>2, <1>4, EndsFinal
<1>6. SpecsKept(schedule', script, zk)
  <2>1. Increasing(schedule.ends) /\ Times(script, "oracle") \in Nat
    BY <1>1, <1>4, OnPlaces DEF EndsKept
  <2>2. schedule'.specs = schedule.specs
    BY <1>1, <1>2, <2>1, RoundEnded
  <2> QED BY <1>4, <2>2 DEF SpecsKept
<1>7. ProverFollows(prover', script, schedule', pos')
  BY <1>1, <1>3, InitialFollows
<1> QED BY <1>2, <1>5, <1>6, <1>7 DEF ScheduleInv
------------------------------------------------------------------------------
(* A flush happens where a round ends. *)
LEMMA EndsHere ==
  ASSUME NEW s, IsSequence(s), NEW sch, EndsKept(sch, s, TRUE), NEW i \in 0..Len(s),
         \/ i < Len(s) /\ s[i + 1].op # "oracle"
         \/ \A j \in i + 1..Len(s) : s[j].op # "oracle"
  PROVE  Arrived(s, i) > 0 => Ended(sch, Arrived(s, i))
<1>1. Len(s) \in Nat
  BY SequenceLen
<1>2. CASE i < Len(s) /\ s[i + 1].op # "oracle"
  <2>1. i + 1 \in 1..Len(s) /\ i \in Nat
    BY <1>1, <1>2
  <2>2. Arrived(s, i + 1) = Arrived(s, i)
    BY <1>2, <2>1, UptoNext DEF Arrived
  <2> QED BY <1>2, <2>1, <2>2 DEF EndsKept
<1>3. CASE \A j \in i + 1..Len(s) : s[j].op # "oracle"
  BY <1>3, AllArrived DEF EndsKept
<1> QED BY <1>2, <1>3

LEMMA ProverFlushed ==
  ASSUME NEW s, IsSequence(s), NEW sch, ScheduleShape(sch, Times(s, "oracle")),
         EndsKept(sch, s, TRUE), NEW z, SpecsKept(sch, s, z), NEW i \in 0..Len(s),
         \/ i < Len(s) /\ s[i + 1].op # "oracle"
         \/ \A j \in i + 1..Len(s) : s[j].op # "oracle",
         NEW p, ProverKept(p, s, i), ProverFollows(p, s, sch, i)
  PROVE  LET q == FlushProver(p) IN
         /\ ProverFollows(q, s, sch, i) /\ Closed(q) = Arrived(s, i)
         /\ Behind(s, Closed(q), IF i < Len(s) THEN i + 1 ELSE i)
<1> DEFINE q == FlushProver(p)
<1>1. Closed(p) < Len(p.records) => Ended(sch, Arrived(s, i))
  <2>1. Kept(s, p.log, p.records, Closed(p), i) /\ Len(p.records) \in Nat
    BY SequenceLen DEF ProverKept, ProverShape
  <2>2. Closed(p) < Len(p.records) => Arrived(s, i) > 0
    BY <2>1 DEF Kept
  <2> QED BY <2>2, EndsHere
<1>2. Follows(s, sch, q.log, q.records, Closed(q))
  BY <1>1, FlushProverFollows DEF ProverFollows
<1>3. ProverKept(q, s, i) /\ Closed(q) = Len(q.records)
  BY FlushProverKept
<1> HIDE DEF q
<1>4. Closed(q) = Arrived(s, i)
  BY <1>3 DEF ProverKept, Kept
<1>5. Behind(s, Arrived(s, i), i)
  BY BehindAll
<1>6. ASSUME i < Len(s) PROVE Behind(s, Arrived(s, i), i + 1)
  <2>1. i \in Nat /\ i + 1 \in 1..Len(s) /\ i + 1 \in 0..Len(s)
    BY <1>6, SequenceLen
  <2>2. CASE s[i + 1].op = "oracle"
    BY <1>5, <2>1, <2>2, BehindOracle
  <2>3. CASE s[i + 1].op # "oracle"
    <3>1. Arrived(s, i + 1) = Arrived(s, i)
      BY <1>6, <2>1, <2>3, UptoNext DEF Arrived
    <3> QED BY <2>1, <3>1, BehindAll
  <2> QED BY <2>2, <2>3
<1> QED BY <1>2, <1>4, <1>5, <1>6 DEF ProverFollows, q

LEMMA ScheduleProver ==
  ASSUME MergeInv, ScheduleInv, SendOracle \/ ProverSample \/ ProveRelation
  PROVE  ScheduleInv'
<1> DEFINE p == FlushProver(prover)
<1>1. /\ stage = "prove" /\ UNCHANGED <<stage, zk, script, schedule, tape, verifier>>
      /\ pos < Len(script) /\ pos' = pos + 1
  BY DEF SendOracle, ProverSample, ProveRelation, Proving
<1>2. /\ IsSequence(script) /\ ScheduleShape(schedule, Times(script, "oracle"))
      /\ ProverKept(prover, script, pos) /\ pos \in 0..Len(script) /\ pos \in Nat
  <2>1. ScriptShape(script) /\ ProverKept(prover, script, pos)
    BY <1>1 DEF MergeInv
  <2>2. pos \in 0..Len(script)
    BY <2>1 DEF ProverKept, Kept
  <2> QED BY <2>1, <2>2 DEF MergeInv, ScriptShape, n_oracles
<1>3. /\ SpecsKept(schedule, script, zk) /\ EndsKept(schedule, script, TRUE)
      /\ ProverFollows(prover, script, schedule, pos)
  BY <1>1 DEF ScheduleInv
<1>4. ASSUME ProverFollows(prover', script, schedule, pos + 1) PROVE ScheduleInv'
  BY <1>1, <1>3, <1>4 DEF ScheduleInv
<1>5. CASE SendOracle
  <2> DEFINE n == script[pos + 1].len
             x == [id |-> Len(prover.records) + 1, len |-> n]
             r == [len |-> n, mapping |-> Unmapped]
  <2>1. script[pos + 1].op = "oracle" /\ prover' = Sent(prover, x, r)
    BY <1>5 DEF SendOracle, Proving, Sent
  <2>2. x.len = n /\ r.len = n /\ r \in [len : {n}, mapping : {Unmapped}]
    OBVIOUS
  <2>3. n \in Lens
    <3>1. pos + 1 \in 1..Len(script)
      BY <1>1, <1>2, SequenceLen
    <3> QED BY <2>1, <3>1 DEF MergeInv, ScriptShape
  <2> HIDE DEF x, r, n
  <2>4. r \in [len : Lens, mapping : {Unmapped}]
    BY <2>2, <2>3
  <2>5. /\ prover'.log = prover.log /\ prover'.records = Append(prover.records, r)
        /\ Closed(prover') = Closed(prover)
    BY <1>1, <1>2, <2>1, <2>2, <2>4, SendKept, ZenonT(60)
  <2>6. IsSequence(prover.log) /\ IsSequence(prover.records) /\ Len(prover.records) = Arrived(script, pos)
    BY <1>2 DEF ProverKept, Kept
  <2>7. Follows(script, schedule, prover.log, Append(prover.records, r), Closed(prover))
    BY <1>1, <1>2, <1>3, <2>1, <2>2, <2>6, FollowsOracle DEF ProverFollows, n
  <2>8. Behind(script, Closed(prover), pos + 1)
    BY <1>2, <1>3, <2>1, BehindOracle DEF ProverFollows
  <2> QED BY <1>4, <2>5, <2>7, <2>8 DEF ProverFollows
<1>6. ASSUME NEW e, e.op # "commit", prover' = Logged(p, e), script[pos + 1].op # "oracle"
      PROVE  ScheduleInv'
  <2>1. ProverFollows(p, script, schedule, pos) /\ Behind(script, Closed(p), pos + 1)
    BY <1>1, <1>2, <1>3, <1>6, ProverFlushed
  <2>2. ProverShape(p) /\ IsSequence(p.log)
    BY <1>2, FlushProverKept DEF ProverKept, ProverShape
  <2> HIDE DEF p
  <2>3. /\ prover'.log = Append(p.log, e) /\ prover'.records = p.records
        /\ Closed(prover') = Closed(p)
    BY <1>6, <2>2, LoggedOK
  <2>4. Follows(script, schedule, Append(p.log, e), p.records, Closed(p))
    BY <1>6, <2>1, <2>2, FollowsLogged DEF ProverFollows
  <2> QED BY <1>4, <2>1, <2>3, <2>4 DEF ProverFollows
<1>7. CASE ProverSample
  <2>1. prover' = Logged(p, Sample) /\ script[pos + 1].op = "sample" /\ Sample.op = "sample"
    BY <1>7 DEF ProverSample, Proving, Sample
  <2> HIDE DEF p
  <2> QED BY <1>6, <2>1
<1>8. CASE ProveRelation
  <2>1. \E e : prover' = Logged(p, e) /\ e.op = "open"
    BY <1>8, SMTT(40) DEF ProveRelation
  <2>2. script[pos + 1].op = "open"
    BY <1>8 DEF ProveRelation, Proving
  <2> HIDE DEF p
  <2> QED BY <1>6, <2>1, <2>2
<1> QED BY <1>5, <1>7, <1>8

(* Handing an oracle back commits nothing. *)
LEMMA HandBackSame ==
  ASSUME NEW p, ProverShape(p), NEW k, p.records[k].mapping.group \in 1..Len(p.groups)
  PROVE  LET q == HandBack(p, k) IN
         /\ q.records = p.records /\ Closed(q) = Closed(p)
         /\ q.log = p.log \/ \E e : e.op # "commit" /\ q.log = Append(p.log, e)
<1> DEFINE g == p.records[k].mapping.group
           counted == Counted(p, g)
           taken == Taken(counted, g)
           e == [op |-> "finalize", group |-> g, buffer |-> Last(counted.groups[g].buffer)]
           q == HandBack(p, k)
<1>1. /\ ProverShape(counted) /\ g \in 1..Len(counted.groups)
      /\ counted.records = p.records /\ counted.pending = p.pending /\ counted.log = p.log
  <2> HIDE DEF g, counted
  <2>1. g \in 1..Len(p.groups)
    BY DEF g
  <2>2. \E x : WithGroup(p, counted, g, x)
    BY <2>1, CountedOK DEF counted
  <2> QED BY <2>1, <2>2 DEF WithGroup
<1>2. /\ ProverShape(taken)
      /\ taken.records = p.records /\ taken.pending = p.pending /\ taken.log = p.log
  <2> HIDE DEF g, counted, taken
  <2>1. \E x : WithGroup(counted, taken, g, x)
    BY <1>1, TakenOK DEF taken
  <2> QED BY <1>1, <2>1 DEF WithGroup
<1>3. e.op # "commit"
  OBVIOUS
<1>4. q = IF counted.groups[g].n_finalized = counted.groups[g].n_members
          THEN Logged(taken, e) ELSE counted
  BY DEF HandBack
<1> HIDE DEF g, counted, taken, e, q
<1>5. /\ Logged(taken, e).log = Append(p.log, e) /\ Logged(taken, e).records = p.records
      /\ Logged(taken, e).pending = p.pending
  BY <1>2, <1>3, LoggedOK
<1> QED BY <1>1, <1>3, <1>4, <1>5 DEF Closed, q

LEMMA ScheduleFinalize ==
  ASSUME MergeInv, ScheduleInv, NEW k \in 1..n_oracles, FinalizeOracle(k)
  PROVE  ScheduleInv'
<1> DEFINE p == FlushProver(prover)
<1>1. /\ stage = "prove" /\ UNCHANGED <<stage, zk, script, schedule, tape, verifier>>
      /\ pos' = pos /\ \A i \in pos + 1..Len(script) : script[i].op # "oracle"
  BY DEF FinalizeOracle
<1>2. /\ IsSequence(script) /\ ScheduleShape(schedule, Times(script, "oracle"))
      /\ ProverKept(prover, script, pos) /\ pos \in 0..Len(script)
  <2>1. ScriptShape(script) /\ ProverKept(prover, script, pos)
    BY <1>1 DEF MergeInv
  <2>2. pos \in 0..Len(script)
    BY <2>1 DEF ProverKept, Kept
  <2> QED BY <2>1, <2>2 DEF MergeInv, ScriptShape, n_oracles
<1>3. /\ SpecsKept(schedule, script, zk) /\ EndsKept(schedule, script, TRUE)
      /\ ProverFollows(prover, script, schedule, pos)
  BY <1>1 DEF ScheduleInv
<1>4. ProverFollows(p, script, schedule, pos)
  BY <1>1, <1>2, <1>3, ProverFlushed
<1>5. ProverKept(p, script, pos) /\ Closed(p) = Len(p.records)
  BY <1>2, FlushProverKept
<1>6. prover' = HandBack(p, k)
  BY DEF FinalizeOracle, HandBack, Counted, Taken
<1> HIDE DEF p
<1>7. /\ ProverShape(p) /\ IsSequence(p.log)
      /\ p.records[k].mapping.group \in 1..Len(p.groups)
  <2>1. k \in 1..Len(p.records)
    <3>1. Len(p.records) = Arrived(script, pos)
      BY <1>5 DEF ProverKept, Kept
    <3> QED BY <1>1, <1>2, <3>1, AllArrived DEF n_oracles
  <2> QED BY <1>5, <2>1 DEF ProverKept, ProverShape, Kept
<1>8. /\ prover'.records = p.records /\ Closed(prover') = Closed(p)
      /\ prover'.log = p.log \/ \E e : e.op # "commit" /\ prover'.log = Append(p.log, e)
  BY <1>6, <1>7, HandBackSame
<1>9. \A e : e.op # "commit" => Follows(script, schedule, Append(p.log, e), p.records, Closed(p))
  BY <1>4, <1>7, FollowsLogged DEF ProverFollows
<1>10. Follows(script, schedule, prover'.log, p.records, Closed(p))
  BY <1>4, <1>8, <1>9 DEF ProverFollows
<1>11. ProverFollows(prover', script, schedule, pos)
  BY <1>4, <1>8, <1>10 DEF ProverFollows
<1> QED BY <1>1, <1>3, <1>11 DEF ScheduleInv

(* The last round of the schedule ends with the last oracle, and no other    *)
(* does: a party that committed it committed all.                            *)
LEMMA LastRound ==
  ASSUME NEW s, NEW sch, NEW n \in Nat, ScheduleShape(sch, n), Increasing(sch.ends),
         Ended(sch, n), NEW g \in 0..Len(sch.ends), End(sch, g) = n, n > 0
  PROVE  g = Len(sch.ends)
<1> DEFINE L == Len(sch.ends)
<1>1. L \in Nat /\ \A r \in 1..L : sch.ends[r] \in 1..n
  BY SequenceLen DEF ScheduleShape
<1>2. g \in 1..L /\ sch.ends[g] = n
  BY <1>1 DEF End
<1>3. CASE g < L
  <2>1. sch.ends[g] < sch.ends[L] /\ L \in 1..L
    BY <1>1, <1>2, <1>3 DEF Increasing
  <2> QED BY <1>1, <1>2, <2>1
<1> QED BY <1>1, <1>2, <1>3

LEMMA ScheduleProved ==
  ASSUME MergeInv, MergeInv', ScheduleInv, ProverIntoInner
  PROVE  ScheduleInv'
<1> DEFINE p == FlushProver(prover)
           n == Times(script, "oracle")
<1>1. /\ stage = "prove" /\ stage' = "verify" /\ UNCHANGED <<zk, script, schedule>>
      /\ pos = Len(script) /\ pos' = 0 /\ prover' = p /\ handed = 1..n_oracles
      /\ UNCHANGED verifier
  BY DEF ProverIntoInner
<1>2. /\ IsSequence(script) /\ ScheduleShape(schedule, n)
      /\ ProverKept(prover, script, pos) /\ verifier = InitialVerifier
      /\ pos \in 0..Len(script) /\ Len(script) \in Nat /\ IsSequence(schedule.ends)
  <2>1. ScriptShape(script) /\ ProverKept(prover, script, pos)
    BY <1>1 DEF MergeInv
  <2>2. pos \in 0..Len(script) /\ Len(script) \in Nat
    BY <2>1, SequenceLen DEF ProverKept, Kept, ScriptShape
  <2> QED BY <1>1, <2>1, <2>2 DEF MergeInv, ScriptShape, ScheduleShape, n_oracles
<1>3. /\ SpecsKept(schedule, script, zk) /\ EndsKept(schedule, script, TRUE)
      /\ ProverFollows(prover, script, schedule, pos)
  BY <1>1 DEF ScheduleInv
<1>4. \A j \in pos + 1..Len(script) : script[j].op # "oracle"
  BY <1>1, <1>2
<1>5. ProverFollows(p, script, schedule, pos) /\ Closed(p) = Arrived(script, pos)
  BY <1>2, <1>3, <1>4, ProverFlushed
<1> HIDE DEF p, n
<1>6. Closed(p) = n
  BY <1>1, <1>5 DEF Arrived, Times, n
<1>7. Times(p.log, "commit") = Len(schedule.ends)
  <2>1. Ended(schedule, n) /\ Increasing(schedule.ends)
    BY <1>3 DEF EndsKept, n
  <2>2. n \in Nat /\ n > 0
    <3>1. PICK r \in 1..Len(schedule.ends) : schedule.ends[r] = n
      BY <2>1 DEF Ended
    <3>2. n \in 1..n
      BY <1>2, <3>1 DEF ScheduleShape
    <3>3. n \in Nat
      BY <1>2, OnPlaces DEF n
    <3> QED BY <3>2, <3>3
  <2>3. /\ Times(p.log, "commit") \in 0..Len(schedule.ends)
        /\ End(schedule, Times(p.log, "commit")) = n
    BY <1>5, <1>6 DEF ProverFollows, Follows
  <2> QED BY <1>2, <2>1, <2>2, <2>3, LastRound
<1>8. VerifierFollows(verifier', script, schedule, zk, 0, tape')
  BY <1>1, <1>2, InitialFollows
<1>9. /\ ProverFollows(prover', script', schedule', Len(script'))
      /\ Times(prover'.log, "commit") = Len(schedule'.ends)
  BY <1>1, <1>5, <1>7
<1> QED BY <1>1, <1>3, <1>8, <1>9 DEF ScheduleInv
------------------------------------------------------------------------------
(* The verifier's steps.  A round that could not be committed stays open,    *)
(* but then nothing is committed any more.                                   *)
LEMMA VerifierFlushed ==
  ASSUME NEW s, IsSequence(s), NEW sch, ScheduleShape(sch, Times(s, "oracle")),
         EndsKept(sch, s, TRUE), NEW z, SpecsKept(sch, s, z), NEW i \in 0..Len(s),
         \/ i < Len(s) /\ s[i + 1].op # "oracle"
         \/ \A j \in i + 1..Len(s) : s[j].op # "oracle",
         NEW v, VerifierKept(v, s, i, tape), VerifierFollows(v, s, sch, z, i, tape)
  PROVE  LET q == FlushVerifier(v) IN
         /\ VerifierFollows(q, s, sch, z, i, tape)
         /\ i < Len(s) => VerifierFollows(q, s, sch, z, i + 1, tape)
<1> DEFINE q == FlushVerifier(v)
<1>1. v.flushed < Len(v.records) => Ended(sch, Arrived(s, i))
  <2>1. Kept(s, v.log, v.records, v.flushed, i) /\ Len(v.records) \in Nat
    BY SequenceLen DEF VerifierKept, VerifierShape
  <2>2. v.flushed < Len(v.records) => Arrived(s, i) > 0
    BY <2>1 DEF Kept
  <2> QED BY <2>2, EndsHere
<1>2. Follows(s, sch, q.log, q.records, q.flushed) /\ Masked(s, sch, z, q.log, q.records)
  BY <1>1, FlushVerifierFollows DEF VerifierFollows
<1>3. /\ VerifierKept(q, s, i, tape)
      /\ ~FlushFails(v) => q.flushed = Len(q.records)
      /\ FlushFails(v) => ~(Times(q.log, "commit") < tape)
  BY FlushVerifierKept
<1> HIDE DEF q
<1>4. Times(q.log, "commit") < tape => q.flushed = Arrived(s, i)
  BY <1>3 DEF VerifierKept, Kept
<1>5. Behind(s, Arrived(s, i), i)
  BY BehindAll
<1>6. ASSUME i < Len(s) PROVE Behind(s, Arrived(s, i), i + 1)
  <2>1. i \in Nat /\ i + 1 \in 1..Len(s) /\ i + 1 \in 0..Len(s)
    BY <1>6, SequenceLen
  <2>2. CASE s[i + 1].op = "oracle"
    BY <1>5, <2>1, <2>2, BehindOracle
  <2>3. CASE s[i + 1].op # "oracle"
    <3>1. Arrived(s, i + 1) = Arrived(s, i)
      BY <1>6, <2>1, <2>3, UptoNext DEF Arrived
    <3> QED BY <2>1, <3>1, BehindAll
  <2> QED BY <2>2, <2>3
<1> QED BY <1>2, <1>4, <1>5, <1>6 DEF VerifierFollows, q

LEMMA ScheduleVerifier ==
  ASSUME MergeInv, ScheduleInv, RecvOracle \/ VerifierSample \/ VerifyRelation
  PROVE  ScheduleInv'
<1> DEFINE v == FlushVerifier(verifier)
<1>1. /\ stage = "verify" /\ UNCHANGED <<stage, zk, script, schedule, prover, handed, tape>>
      /\ pos < Len(script) /\ pos' = pos + 1
  BY DEF RecvOracle, VerifierSample, VerifyRelation, Verifying
<1>2. /\ IsSequence(script) /\ ScheduleShape(schedule, Times(script, "oracle"))
      /\ VerifierKept(verifier, script, pos, tape) /\ pos \in 0..Len(script) /\ pos \in Nat
  <2>1. ScriptShape(script) /\ VerifierKept(verifier, script, pos, tape)
    BY <1>1 DEF MergeInv
  <2>2. pos \in 0..Len(script)
    BY <2>1 DEF VerifierKept, Kept
  <2> QED BY <2>1, <2>2 DEF MergeInv, ScriptShape, n_oracles
<1>3. /\ SpecsKept(schedule, script, zk) /\ EndsKept(schedule, script, TRUE)
      /\ VerifierFollows(verifier, script, schedule, zk, pos, tape)
      /\ ProverFollows(prover, script, schedule, Len(script))
      /\ Times(prover.log, "commit") = Len(schedule.ends)
  BY <1>1 DEF ScheduleInv
<1>4. ASSUME VerifierFollows(verifier', script, schedule, zk, pos + 1, tape) PROVE ScheduleInv'
  BY <1>1, <1>3, <1>4 DEF ScheduleInv
<1>5. /\ IsSequence(verifier.log) /\ IsSequence(verifier.records)
      /\ Len(verifier.records) = Arrived(script, pos)
      /\ verifier \in [records : {verifier.records}, flushed : {verifier.flushed},
                       log : {verifier.log}, verdict : {verifier.verdict}]
  BY <1>2 DEF VerifierKept, VerifierShape, Kept
<1>6. CASE RecvOracle
  <2> DEFINE n == script[pos + 1].len
             wd == script[pos + 1].wd
             r == [len |-> n, wd |-> wd, mapping |-> Unmapped]
             recs == Append(verifier.records, r)
  <2>1. script[pos + 1].op = "oracle" /\ verifier' = [verifier EXCEPT !.records = recs]
    BY <1>6 DEF RecvOracle, Verifying
  <2>2. r.len = n
    OBVIOUS
  <2>3. r.wd = wd
    OBVIOUS
  <2> HIDE DEF r
  <2>4. Follows(script, schedule, verifier.log, recs, verifier.flushed)
    BY <1>1, <1>2, <1>3, <1>5, <2>1, <2>2, FollowsOracle DEF VerifierFollows
  <2>5. Masked(script, schedule, zk, verifier.log, recs)
    BY <1>1, <1>2, <1>3, <1>5, <2>1, <2>3, MaskedOracle DEF VerifierFollows
  <2>6. Times(verifier.log, "commit") < tape => Behind(script, verifier.flushed, pos + 1)
    BY <1>2, <1>3, <2>1, BehindOracle DEF VerifierFollows
  <2> HIDE DEF recs
  <2>7. verifier'.log = verifier.log /\ verifier'.records = recs /\ verifier'.flushed = verifier.flushed
    BY <1>5, <2>1
  <2> QED BY <1>4, <2>4, <2>5, <2>6, <2>7 DEF VerifierFollows
<1>7. ASSUME script[pos + 1].op # "oracle"
      PROVE  /\ VerifierFollows(v, script, schedule, zk, pos + 1, tape) /\ IsSequence(v.log)
             /\ v \in [records : {v.records}, flushed : {v.flushed}, log : {v.log},
                       verdict : {v.verdict}]
  <2>1. VerifierKept(v, script, pos, tape)
    BY <1>2, FlushVerifierKept
  <2> QED BY <1>1, <1>2, <1>3, <1>7, <2>1, VerifierFlushed DEF VerifierKept, VerifierShape
<1>8. ASSUME NEW e, e.op # "commit", verifier' = Logged(v, e), script[pos + 1].op # "oracle"
      PROVE  ScheduleInv'
  <2> DEFINE log == Append(v.log, e)
  <2> HIDE DEF v
  <2>1. Follows(script, schedule, log, v.records, v.flushed)
    BY <1>7, <1>8, FollowsLogged DEF VerifierFollows
  <2>2. Masked(script, schedule, zk, log, v.records)
    BY <1>7, <1>8, MaskedLogged DEF VerifierFollows
  <2>3. Times(log, "commit") = Times(v.log, "commit")
    BY <1>7, <1>8, OnAppend
  <2>4. verifier' = [v EXCEPT !.log = log]
    BY <1>8 DEF Logged
  <2> HIDE DEF log
  <2>5. verifier'.log = log /\ verifier'.records = v.records /\ verifier'.flushed = v.flushed
    BY <1>7, <1>8, <2>4
  <2>6. VerifierFollows(verifier', script, schedule, zk, pos + 1, tape)
    BY <1>7, <1>8, <2>1, <2>2, <2>3, <2>5 DEF VerifierFollows
  <2> QED BY <1>4, <2>6
<1>9. CASE VerifierSample
  <2>1. verifier' = Logged(v, Sample) /\ script[pos + 1].op = "sample" /\ Sample.op = "sample"
    BY <1>9 DEF VerifierSample, Verifying, Sample
  <2> HIDE DEF v
  <2> QED BY <1>8, <2>1
<1>10. CASE VerifyRelation
  <2>1. script[pos + 1].op = "open"
    BY <1>10 DEF VerifyRelation, Verifying
  <2>2. CASE FlushFails(verifier)
    <3>1. verifier' = [verifier EXCEPT !.verdict = "error"]
      BY <1>10, <2>2 DEF VerifyRelation, Reject
    <3>2. /\ verifier'.log = verifier.log /\ verifier'.records = verifier.records
          /\ verifier'.flushed = verifier.flushed
      BY <1>5, <3>1
    <3>3. ~(Times(verifier.log, "commit") < tape)
      BY <2>2 DEF FlushFails, InnerHasCommitment
    <3> QED BY <1>3, <1>4, <3>2, <3>3 DEF VerifierFollows
  <2>3. CASE ~FlushFails(verifier)
    <3>1. \E e : verifier' = Logged(v, e) /\ e.op = "open"
      BY <1>10, <2>3, VerifyRelationIs
    <3> HIDE DEF v
    <3> QED BY <1>8, <2>1, <3>1
  <2> QED BY <2>2, <2>3
<1> QED BY <1>6, <1>9, <1>10

LEMMA ScheduleVerified ==
  ASSUME MergeInv, ScheduleInv, VerifierIntoInner
  PROVE  ScheduleInv'
<1> DEFINE v == FlushVerifier(verifier)
<1>1. /\ stage = "verify" /\ UNCHANGED <<stage, zk, script, schedule, pos, prover, handed, tape>>
      /\ pos = Len(script)
      /\ verifier' = IF FlushFails(verifier) THEN [verifier EXCEPT !.verdict = "error"]
                     ELSE [v EXCEPT !.verdict = "ok"]
  BY DEF VerifierIntoInner, Reject
<1>2. /\ IsSequence(script) /\ ScheduleShape(schedule, Times(script, "oracle"))
      /\ VerifierKept(verifier, script, pos, tape) /\ pos \in 0..Len(script)
      /\ Len(script) \in Nat
  <2>1. ScriptShape(script) /\ VerifierKept(verifier, script, pos, tape)
    BY <1>1 DEF MergeInv
  <2>2. pos \in 0..Len(script) /\ Len(script) \in Nat
    BY <2>1, SequenceLen DEF VerifierKept, Kept, ScriptShape
  <2> QED BY <2>1, <2>2 DEF MergeInv, ScriptShape, n_oracles
<1>3. /\ SpecsKept(schedule, script, zk) /\ EndsKept(schedule, script, TRUE)
      /\ VerifierFollows(verifier, script, schedule, zk, pos, tape)
      /\ ProverFollows(prover, script, schedule, Len(script))
      /\ Times(prover.log, "commit") = Len(schedule.ends)
  BY <1>1 DEF ScheduleInv
<1>4. \A j \in pos + 1..Len(script) : script[j].op # "oracle"
  BY <1>1, <1>2
<1>5. VerifierFollows(v, script, schedule, zk, pos, tape)
  BY <1>2, <1>3, <1>4, VerifierFlushed
<1>6. VerifierKept(v, script, pos, tape)
  BY <1>2, FlushVerifierKept
<1> HIDE DEF v
<1>7. \A w, d : w \in [records : {w.records}, flushed : {w.flushed}, log : {w.log},
                       verdict : {w.verdict}]
        => LET new == [w EXCEPT !.verdict = d] IN
           new.log = w.log /\ new.records = w.records /\ new.flushed = w.flushed
  OBVIOUS
<1>8. VerifierFollows(verifier', script, schedule, zk, pos, tape)
  BY <1>1, <1>2, <1>3, <1>5, <1>6, <1>7 DEF VerifierFollows, VerifierKept, VerifierShape
<1> QED BY <1>1, <1>3, <1>8 DEF ScheduleInv

LEMMA ScheduleNext ==
  ASSUME MergeInv, MergeInv', ScheduleInv, [Next]_vars
  PROVE  ScheduleInv'
<1>1. CASE UNCHANGED vars
  BY <1>1 DEF ScheduleInv, vars
<1>2. CASE Next
  <2>1. CASE \/ \E n \in Lens, wd \in BOOLEAN : SetupRecvOracle(n, wd)
             \/ SetupSample
             \/ \E k \in 1..n_oracles : SetupVerifyRelation(k)
    BY <2>1, ScheduleSetup
  <2>2. CASE IntoOracleSchedule
    BY <2>2, ScheduleReady
  <2>3. CASE SendOracle \/ ProverSample \/ ProveRelation
    BY <2>3, ScheduleProver
  <2>4. CASE \E k \in 1..n_oracles : FinalizeOracle(k)
    BY <2>4, ScheduleFinalize
  <2>5. CASE ProverIntoInner
    BY <2>5, ScheduleProved
  <2>6. CASE RecvOracle \/ VerifierSample \/ VerifyRelation
    BY <2>6, ScheduleVerifier
  <2>7. CASE VerifierIntoInner
    BY <2>7, ScheduleVerified
  <2> QED BY <1>2, <2>1, <2>2, <2>3, <2>4, <2>5, <2>6, <2>7 DEF Next
<1> QED BY <1>1, <1>2

LEMMA ScheduleInvariant == Spec => []ScheduleInv
BY MergeInvariant, ScheduleInit, ScheduleNext, PTL DEF Spec
------------------------------------------------------------------------------
LEMMA MergedSpecs ==
  ASSUME NEW sch, IsSequence(sch.ends)
  PROVE  /\ Len(merged_specs(sch)) = Len(sch.ends)
         /\ \A g \in 1..Len(sch.ends) :
              merged_specs(sch)[g] = [log_msg_len |-> merged_log_msg_len(RoundLens(sch, g)),
                                      is_zk |-> RoundMasked(sch, g)]
<1> DEFINE n == Len(sch.ends)
           specs == [r \in DOMAIN sch.ends |->
                      [log_msg_len |-> merged_log_msg_len(RoundLens(sch, r)),
                       is_zk |-> RoundMasked(sch, r)]]
<1>1. n \in Nat /\ DOMAIN sch.ends = 1..n
  BY SequenceLen
<1>2. merged_specs(sch) = specs
  BY DEF merged_specs, RoundLens, RoundMasked
<1>3. DOMAIN specs = 1..n /\ specs = [r \in DOMAIN specs |-> specs[r]]
  BY <1>1
<1>4. Len(specs) = n
  <2> HIDE DEF specs, n
  <2> QED BY <1>1, <1>3, TabledSequence
<1> QED BY <1>1, <1>2, <1>4

LEMMA ScheduleHolds == MergeInv /\ ScheduleInv => ScheduleExact
<1> SUFFICES ASSUME MergeInv, ScheduleInv, stage # "setup" PROVE ScheduleExact
  BY DEF ScheduleExact
<1> DEFINE specs == merged_specs(schedule)
           P == Times(prover.log, "commit")
           V == Times(verifier.log, "commit")
           L == Len(schedule.ends)
<1>1. /\ Len(specs) = L /\ L \in Nat
      /\ \A g \in 1..L : specs[g] = [log_msg_len |-> merged_log_msg_len(RoundLens(schedule, g)),
                                     is_zk |-> RoundMasked(schedule, g)]
  BY MergedSpecs, SequenceLen DEF MergeInv, ScheduleShape
<1>2. /\ ProverFollows(prover, script, schedule, IF stage = "verify" THEN Len(script) ELSE pos)
      /\ stage = "verify" => P = L
  BY DEF ScheduleInv
<1>3. /\ P \in 0..L
      /\ \A g \in 1..P : Entry(prover.log, "commit", g).len = merged_log_msg_len(RoundLens(schedule, g))
  BY <1>2 DEF ProverFollows, Follows
<1>4. \E i, t : VerifierFollows(verifier, script, schedule, zk, i, t)
  <2>1. CASE stage = "verify"
    BY <2>1 DEF ScheduleInv
  <2>2. CASE stage # "verify"
    <3>1. verifier = InitialVerifier /\ IsSequence(schedule.ends)
      BY <2>2 DEF MergeInv, ScheduleShape
    <3> QED BY <3>1, InitialFollows
  <2> QED BY <2>1, <2>2
<1>5. /\ V \in 0..L
      /\ \A g \in 1..V : /\ Entry(verifier.log, "commit", g).len
                              = merged_log_msg_len(RoundLens(schedule, g))
                         /\ (zk /\ Entry(verifier.log, "commit", g).wd) <=> RoundMasked(schedule, g)
  BY <1>4 DEF VerifierFollows, Follows, Masked
<1> HIDE DEF specs, L, P, V
<1>6. \A g \in 1..P : Entry(prover.log, "commit", g).len = specs[g].log_msg_len
  BY <1>1, <1>3
<1>7. ASSUME NEW g \in 1..V
      PROVE  [log_msg_len |-> Entry(verifier.log, "commit", g).len,
              is_zk |-> zk /\ Entry(verifier.log, "commit", g).wd] = specs[g]
  <2>1. g \in 1..L
    BY <1>1, <1>5
  <2>2. (zk /\ Entry(verifier.log, "commit", g).wd) = RoundMasked(schedule, g)
    BY <1>5 DEF RoundMasked
  <2>3. specs[g] = [log_msg_len |-> merged_log_msg_len(RoundLens(schedule, g)),
                    is_zk |-> RoundMasked(schedule, g)]
    BY <1>1, <2>1
  <2>4. Entry(verifier.log, "commit", g).len = merged_log_msg_len(RoundLens(schedule, g))
    BY <1>5
  <2> QED BY <2>2, <2>3, <2>4, Zenon
<1> QED BY <1>1, <1>2, <1>3, <1>5, <1>6, <1>7 DEF ScheduleExact, Entry, specs, P, V

(* Both decorators commit what the dry run of the same script predicted: as  *)
(* many combined oracles, of the same lengths, the same of them masked       *)
(* (OracleSetupChannel::into_oracle_schedule and merged_specs against the    *)
(* flushes of the two channels), however the script places its operations.   *)
THEOREM ScheduleIsExact == Spec => []ScheduleExact
BY MergeInvariant, ScheduleInvariant, ScheduleHolds, PTL
------------------------------------------------------------------------------
(* What the channels commit, open and hand on: first how the oracles of one  *)
(* round are laid out in the oracle committed for them, whatever their       *)
(* lengths, then both channels: each round laid out as the schedule says, on *)
(* both sides the same, and in the same order.                               *)

(* Powers of two *)
LEMMA Pow2Is ==
  /\ pow2[0] = 1
  /\ \A n \in Nat : pow2[n] \in Nat /\ pow2[n] > 0 /\ pow2[n + 1] = 2 * pow2[n]
<1> DEFINE Is(f) == f = [n \in Nat |-> IF n = 0 THEN 1 ELSE 2 * f[n - 1]]
<1>1. PICK G \in [Nat -> Nat] : \A x \in Nat : G[x] = 2 * x
  <2>1. [x \in Nat |-> 2 * x] \in [Nat -> Nat]
    OBVIOUS
  <2> QED BY <2>1
<1>2. PICK f \in [Nat -> Nat] : f[0] = 1 /\ \A n \in Nat : f[n + 1] = G[f[n]]
  <2>1. 1 \in Nat
    OBVIOUS
  <2> HIDE DEF Is
  <2>2. PICK f \in [Nat -> Nat] : StartsAndSteps(f, 1, G)
    BY <1>1, <2>1, RecursionExists
  <2> QED BY <2>2 DEF StartsAndSteps
<1>3. Is(f)
  <2>1. ASSUME NEW n \in Nat PROVE f[n] = IF n = 0 THEN 1 ELSE 2 * f[n - 1]
    <3>1. CASE n = 0
      BY <1>2, <3>1
    <3>2. CASE n # 0
      <4>1. n - 1 \in Nat /\ (n - 1) + 1 = n
        BY <3>2
      <4>2. f[n - 1] \in Nat /\ f[n] = G[f[n - 1]]
        BY <1>2, <4>1
      <4> QED BY <1>1, <3>2, <4>2
    <3> QED BY <3>1, <3>2
  <2>2. f = [n \in Nat |-> f[n]]
    BY <1>2
  <2> QED BY <2>1, <2>2
<1>4. Is(pow2)
  BY <1>3 DEF pow2
<1>5. pow2[0] = 1
  BY <1>4
<1>6. ASSUME NEW n \in Nat PROVE pow2[n + 1] = 2 * pow2[n]
  <2>1. n + 1 \in Nat /\ n + 1 # 0 /\ (n + 1) - 1 = n
    OBVIOUS
  <2> QED BY <1>4, <2>1
<1> DEFINE S == {n \in Nat : pow2[n] \in Nat /\ pow2[n] > 0}
<1>7. ASSUME NEW n \in Nat PROVE n \in S
  <2>1. 0 \in S
    BY <1>5
  <2>2. ASSUME NEW k \in Nat, k \in S PROVE k + 1 \in S
    BY <1>6, <2>2
  <2> HIDE DEF S
  <2>3. \A k \in 0..n : k \in S
    BY <2>1, <2>2, UpwardClosed
  <2> QED BY <2>3
<1> HIDE DEF Is
<1> QED BY <1>5, <1>6, <1>7

LEMMA Pow2Sum ==
  ASSUME NEW m \in Nat, NEW n \in Nat
  PROVE  pow2[m + n] = pow2[m] * pow2[n]
<1> DEFINE S == {k \in Nat : pow2[m + k] = pow2[m] * pow2[k]}
<1>1. 0 \in S
  BY Pow2Is
<1>2. ASSUME NEW k \in Nat, k \in S PROVE k + 1 \in S
  <2>1. m + (k + 1) = (m + k) + 1 /\ m + k \in Nat
    OBVIOUS
  <2>2. pow2[(m + k) + 1] = 2 * pow2[m + k] /\ pow2[k + 1] = 2 * pow2[k]
    BY <2>1, Pow2Is
  <2>3. pow2[m] \in Nat /\ pow2[k] \in Nat
    BY Pow2Is
  <2>4. \A a, b \in Nat : 2 * (a * b) = a * (2 * b)
    OBVIOUS
  <2>5. 2 * (pow2[m] * pow2[k]) = pow2[m] * (2 * pow2[k])
    BY <2>3, <2>4
  <2> QED BY <1>2, <2>1, <2>2, <2>5
<1> HIDE DEF S
<1>3. \A k \in 0..n : k \in S
  BY <1>1, <1>2, UpwardClosed
<1>4. n \in S
  BY <1>3
<1> QED BY <1>4 DEF S

LEMMA Pow2Grows ==
  ASSUME NEW m \in Nat, NEW n \in Nat, m < n
  PROVE  2 * pow2[m] <= pow2[n]
<1>1. n - (m + 1) \in Nat /\ m + 1 \in Nat /\ (m + 1) + (n - (m + 1)) = n
  OBVIOUS
<1>2. pow2[n] = pow2[m + 1] * pow2[n - (m + 1)]
  BY <1>1, Pow2Sum
<1>3. pow2[m + 1] = 2 * pow2[m] /\ pow2[m] \in Nat /\ pow2[m + 1] \in Nat
  BY <1>1, Pow2Is
<1>4. pow2[n - (m + 1)] \in Nat /\ pow2[n - (m + 1)] >= 1
  BY <1>1, Pow2Is
<1>5. \A a, b \in Nat : b >= 1 => a <= a * b
  OBVIOUS
<1> QED BY <1>2, <1>3, <1>4, <1>5

LEMMA Pow2Above ==
  ASSUME NEW n \in Nat
  PROVE  n < pow2[n]
<1> DEFINE S == {k \in Nat : k < pow2[k]}
<1>1. 0 \in S
  BY Pow2Is
<1>2. ASSUME NEW k \in Nat, k \in S PROVE k + 1 \in S
  <2>1. pow2[k] \in Nat /\ pow2[k + 1] = 2 * pow2[k]
    BY Pow2Is
  <2> QED BY <1>2, <2>1
<1> HIDE DEF S
<1>3. \A k \in 0..n : k \in S
  BY <1>1, <1>2, UpwardClosed
<1> QED BY <1>3 DEF S

(* The least power of two that is no less. *)
LEMMA CeilIs ==
  ASSUME NEW n \in Nat
  PROVE  /\ log2_ceil(n) \in Nat /\ n <= pow2[log2_ceil(n)]
         /\ \A m \in Nat : pow2[m] <= n => m <= log2_ceil(n)
<1> DEFINE e == log2_ceil(n)
           S == {k \in Nat : n <= pow2[k]}
<1>1. n \in S
  <2>1. pow2[n] \in Nat /\ n < pow2[n]
    BY Pow2Is, Pow2Above
  <2> QED BY <2>1
<1>2. PICK k \in S : \A m \in S : k <= m
  <2>1. S \subseteq Nat /\ S # {}
    BY <1>1
  <2> HIDE DEF S
  <2> QED BY <2>1, LeastElement
<1>3. k \in 0..n /\ n <= pow2[k] /\ (k = 0 \/ pow2[k - 1] < n)
  <2>1. k \in Nat /\ k <= n /\ n <= pow2[k]
    BY <1>1, <1>2
  <2>2. ASSUME k # 0 PROVE pow2[k - 1] < n
    <3>1. k - 1 \in Nat /\ ~(k <= k - 1)
      BY <2>1, <2>2
    <3>2. k - 1 \notin S
      BY <1>2, <3>1
    <3>3. pow2[k - 1] \in Nat
      BY <3>1, Pow2Is
    <3> QED BY <3>1, <3>2, <3>3
  <2> QED BY <2>1, <2>2
<1>4. e \in 0..n /\ n <= pow2[e]
  BY <1>3 DEF log2_ceil
<1> HIDE DEF e
<1>5. ASSUME NEW m \in Nat, pow2[m] <= n PROVE m <= e
  <2>1. SUFFICES ASSUME e < m PROVE FALSE
    BY <1>4
  <2>2. e \in Nat /\ pow2[e] \in Nat /\ pow2[e] > 0 /\ pow2[m] \in Nat
    BY <1>4, Pow2Is
  <2>3. 2 * pow2[e] <= pow2[m]
    BY <2>1, <2>2, Pow2Grows
  <2> QED BY <1>4, <1>5, <2>2, <2>3
<1> QED BY <1>4, <1>5 DEF e
------------------------------------------------------------------------------
(* What some of the oracles come to, in whatever order they are added up.    *)
Sums(g, n, w) ==
  /\ g[{}] = 0
  /\ \A A \in SUBSET (1..n), x \in 1..n : x \notin A => g[A \cup {x}] = g[A] + w[x]

LEMMA SumsExist ==
  ASSUME NEW n \in Nat, NEW w \in [1..n -> Nat]
  PROVE  \E g \in [SUBSET (1..n) -> Nat] : Sums(g, n, w)
<1> DEFINE Is(g, k) == g \in [SUBSET (1..k) -> Nat] /\ Sums(g, k, w)
           Has(k) == \E g : Is(g, k)
           S == {k \in Nat : Has(k)}
<1>1. 0 \in S
  <2> DEFINE g == [A \in SUBSET (1..0) |-> 0]
  <2>1. g \in [SUBSET (1..0) -> Nat]
    OBVIOUS
  <2>2. {} \in SUBSET (1..0) /\ \A x \in 1..0 : FALSE
    OBVIOUS
  <2>3. g[{}] = 0
    BY <2>2
  <2> HIDE DEF g
  <2>4. Is(g, 0)
    BY <2>1, <2>2, <2>3 DEF Sums
  <2>5. Has(0)
    BY <2>4
  <2> HIDE DEF Has
  <2> QED BY <2>5
<1>2. ASSUME NEW k \in Nat, k < n, k \in S PROVE k + 1 \in S
  <2>1. PICK g : Is(g, k)
    BY <1>2
  <2> DEFINE m == k + 1
             h == [A \in SUBSET (1..m) |-> g[A \ {m}] + (IF m \in A THEN w[m] ELSE 0)]
  <2>2. m \in 1..n /\ m \notin 1..k /\ 1..m = (1..k) \cup {m}
    BY <1>2
  <2>3. \A A \in SUBSET (1..m) : A \ {m} \in SUBSET (1..k)
    BY <2>2
  <2>4. w[m] \in Nat
    BY <2>2
  <2> HIDE DEF m
  <2>5. h \in [SUBSET (1..m) -> Nat]
    <3>1. ASSUME NEW A \in SUBSET (1..m) PROVE g[A \ {m}] + (IF m \in A THEN w[m] ELSE 0) \in Nat
      <4>1. g[A \ {m}] \in Nat
        BY <2>1, <2>3
      <4> QED BY <2>4, <4>1
    <3> QED BY <3>1
  <2>6. h[{}] = 0
    <3>1. {} \ {m} = {} /\ {} \in SUBSET (1..m) /\ g[{}] = 0
      BY <2>1 DEF Sums
    <3> QED BY <3>1
  <2>7. ASSUME NEW A \in SUBSET (1..m), NEW x \in 1..m, x \notin A
        PROVE  h[A \cup {x}] = h[A] + w[x]
    <3>1. A \cup {x} \in SUBSET (1..m) /\ A \ {m} \in SUBSET (1..k)
      BY <2>3
    <3>2. g[A \ {m}] \in Nat
      BY <2>1, <3>1
    <3>3. CASE x = m
      <4>1. (A \cup {x}) \ {m} = A \ {m} /\ m \in A \cup {x} /\ m \notin A
        BY <2>7, <3>3
      <4>2. h[A \cup {x}] = g[A \ {m}] + w[m] /\ h[A] = g[A \ {m}] + 0
        BY <3>1, <4>1
      <4> HIDE DEF h
      <4> QED BY <2>4, <3>2, <3>3, <4>2
    <3>4. CASE x # m
      <4>1. (A \cup {x}) \ {m} = (A \ {m}) \cup {x} /\ x \in 1..k /\ x \notin A \ {m}
        BY <2>2, <2>7, <3>4
      <4>2. g[(A \ {m}) \cup {x}] = g[A \ {m}] + w[x]
        BY <2>1, <3>1, <4>1 DEF Sums
      <4>3. x \in 1..n /\ w[x] \in Nat
        BY <1>2, <4>1
      <4>4. m \in A \cup {x} <=> m \in A
        BY <3>4
      <4>5. /\ h[A \cup {x}] = g[(A \cup {x}) \ {m}] + (IF m \in A \cup {x} THEN w[m] ELSE 0)
            /\ h[A] = g[A \ {m}] + (IF m \in A THEN w[m] ELSE 0)
        BY <3>1
      <4> HIDE DEF h
      <4>6. (IF m \in A \cup {x} THEN w[m] ELSE 0) = (IF m \in A THEN w[m] ELSE 0)
        BY <4>4
      <4>7. (IF m \in A THEN w[m] ELSE 0) \in Nat
        BY <2>4
      <4> DEFINE c == IF m \in A THEN w[m] ELSE 0
                 a == g[A \ {m}]
      <4>8. h[A \cup {x}] = (a + w[x]) + c /\ h[A] = a + c
        BY <4>1, <4>2, <4>5, <4>6
      <4>9. a \in Nat /\ c \in Nat
        BY <3>2, <4>7
      <4> HIDE DEF a, c
      <4> QED BY <4>3, <4>8, <4>9
    <3> QED BY <3>3, <3>4
  <2> HIDE DEF h
  <2>8. Is(h, m)
    BY <2>5, <2>6, <2>7 DEF Sums
  <2>9. Has(m)
    BY <2>8
  <2> HIDE DEF Has
  <2> QED BY <2>9 DEF m
<1> HIDE DEF S
<1>3. \A k \in 0..n : k \in S
  BY <1>1, <1>2, UpwardClosed
<1>4. Has(n)
  <2>1. n \in S
    BY <1>3
  <2> HIDE DEF Has
  <2> QED BY <2>1 DEF S
<1> QED BY <1>4

LEMMA TotalIsSum ==
  ASSUME NEW n \in Nat, NEW w \in [1..n -> Nat], NEW g \in [SUBSET (1..n) -> Nat],
         Sums(g, n, w), NEW len, NEW A \in SUBSET (1..n), \A k \in A : w[k] = pow2[len[k]]
  PROVE  Total(len, A) = g[A]
<1> DEFINE Pick1(s) == CHOOSE x \in s : TRUE
           Is(it) == it = [s \in SUBSET A |->
                             IF s = {} THEN 0 ELSE pow2[len[Pick1(s)]] + it[s \ {Pick1(s)}]]
           it == CHOOSE x : Is(x)
           h == [s \in SUBSET A |-> g[s]]
<1>1. Total(len, A) = it[A]
  BY DEF Total, MapThenSumSet, MapThenFoldSet
<1>2. ASSUME NEW s \in SUBSET A, s # {}
      PROVE  /\ Pick1(s) \in s /\ s \ {Pick1(s)} \in SUBSET A
             /\ g[s] = pow2[len[Pick1(s)]] + g[s \ {Pick1(s)}]
  <2>1. Pick1(s) \in s
    BY <1>2
  <2> HIDE DEF Pick1
  <2>2. PICK x : x = Pick1(s)
    OBVIOUS
  <2>3. x \in s /\ s = (s \ {x}) \cup {x} /\ x \notin s \ {x} /\ x \in 1..n /\ s \ {x} \in SUBSET (1..n)
    BY <2>1, <2>2
  <2> DEFINE B == s \ {x}
  <2>4. g[s] = g[B] + w[x]
    <3>1. s = B \cup {x} /\ B \in SUBSET (1..n) /\ x \notin B /\ x \in 1..n
      BY <2>3
    <3> HIDE DEF B
    <3>2. g[B \cup {x}] = g[B] + w[x]
      BY <3>1 DEF Sums
    <3> QED BY <3>1, <3>2
  <2>5. w[x] = pow2[len[x]] /\ w[x] \in Nat /\ g[B] \in Nat
    BY <2>3
  <2> QED BY <2>2, <2>3, <2>4, <2>5
<1> HIDE DEF Pick1
<1>3. Is(h)
  <2>1. ASSUME NEW s \in SUBSET A
        PROVE  h[s] = IF s = {} THEN 0 ELSE pow2[len[Pick1(s)]] + h[s \ {Pick1(s)}]
    <3>1. CASE s = {}
      BY <3>1 DEF Sums
    <3>2. CASE s # {}
      BY <1>2, <3>2
    <3> QED BY <3>1, <3>2
  <2>2. h = [s \in SUBSET A |-> h[s]]
    OBVIOUS
  <2> HIDE DEF h
  <2> QED BY <2>1, <2>2
<1>4. Is(it)
  <2> HIDE DEF h, Is
  <2>1. \E x : Is(x)
    BY <1>3
  <2> QED BY <2>1
<1> HIDE DEF it, h
<1> DEFINE S == {k \in Nat : \A s \in SUBSET A : Cardinality(s) = k => it[s] = g[s]}
<1>5. \A s \in SUBSET A : IsFiniteSet(s) /\ Cardinality(s) \in Nat
  <2>1. IsFiniteSet(1..n)
    BY FS_Interval
  <2> QED BY <2>1, FS_Subset, FS_CardinalityType
<1>6. 0 \in S
  <2>1. ASSUME NEW s \in SUBSET A, Cardinality(s) = 0 PROVE it[s] = g[s]
    <3>1. s = {}
      BY <1>5, <2>1, FS_EmptySet
    <3> QED BY <1>4, <3>1 DEF Sums
  <2> QED BY <2>1
<1>7. ASSUME NEW k \in Nat, k \in S PROVE k + 1 \in S
  <2>1. ASSUME NEW s \in SUBSET A, Cardinality(s) = k + 1 PROVE it[s] = g[s]
    <3>1. s # {}
      <4>1. k + 1 # 0
        OBVIOUS
      <4> QED BY <2>1, <4>1, FS_EmptySet, Zenon
    <3>2. PICK x : x = Pick1(s)
      OBVIOUS
    <3>3. x \in s /\ s \ {x} \in SUBSET A /\ g[s] = pow2[len[x]] + g[s \ {x}]
      BY <1>2, <3>1, <3>2
    <3>4. Cardinality(s \ {x}) = k
      <4>1. IsFiniteSet(s) /\ x \in s
        BY <1>5, <3>3
      <4>2. Cardinality(s \ {x}) = Cardinality(s) - 1
        BY <4>1, FS_RemoveElement
      <4> QED BY <2>1, <4>2
    <3>5. it[s \ {x}] = g[s \ {x}]
      BY <1>7, <3>3, <3>4
    <3>6. it[s] = pow2[len[x]] + it[s \ {x}]
      BY <1>4, <3>1, <3>2
    <3> QED BY <3>3, <3>5, <3>6
  <2> HIDE DEF Is
  <2> QED BY <2>1
<1> HIDE DEF S, Is
<1>8. A \in SUBSET A /\ Cardinality(A) \in Nat
  BY <1>5
<1>9. Cardinality(A) \in S
  <2>1. \A k \in 0..Cardinality(A) : k \in S
    BY <1>6, <1>7, <1>8, UpwardClosed
  <2> QED BY <1>8, <2>1
<1> QED BY <1>1, <1>8, <1>9 DEF S

(* A round's total is the same whatever else there is. *)
LEMMA TotalAdds ==
  ASSUME NEW n \in Nat, NEW len, NEW A \in SUBSET (1..n), \A k \in A : len[k] \in Nat
  PROVE  /\ Total(len, A) \in Nat
         /\ \A x \in 1..n : x \notin A /\ len[x] \in Nat =>
              Total(len, A \cup {x}) = Total(len, A) + pow2[len[x]]
         /\ Total(len, {}) = 0
         /\ \A other : (\A k \in A : other[k] = len[k]) => Total(other, A) = Total(len, A)
<1> DEFINE w == [k \in 1..n |-> IF len[k] \in Nat THEN pow2[len[k]] ELSE 0]
<1>1. w \in [1..n -> Nat]
  BY Pow2Is
<1>2. \A k \in 1..n : len[k] \in Nat => w[k] = pow2[len[k]]
  OBVIOUS
<1> HIDE DEF w
<1>3. PICK g \in [SUBSET (1..n) -> Nat] : Sums(g, n, w)
  BY <1>1, SumsExist
<1>4. \A B \in SUBSET (1..n) : (\A k \in B : len[k] \in Nat) => Total(len, B) = g[B]
  <2>1. ASSUME NEW B \in SUBSET (1..n), \A k \in B : len[k] \in Nat PROVE Total(len, B) = g[B]
    <3>1. \A k \in B : w[k] = pow2[len[k]]
      BY <1>2, <2>1
    <3> QED BY <1>1, <1>3, <3>1, TotalIsSum
  <2> QED BY <2>1
<1>5. ASSUME NEW x \in 1..n, x \notin A, len[x] \in Nat
      PROVE  Total(len, A \cup {x}) = Total(len, A) + pow2[len[x]]
  <2>1. A \cup {x} \in SUBSET (1..n) /\ \A k \in A \cup {x} : len[k] \in Nat
    BY <1>5
  <2>2. Total(len, A \cup {x}) = g[A \cup {x}] /\ Total(len, A) = g[A]
    BY <1>4, <2>1
  <2>3. g[A \cup {x}] = g[A] + w[x]
    BY <1>3, <1>5 DEF Sums
  <2> QED BY <1>2, <1>5, <2>2, <2>3
<1>6. Total(len, {}) = 0
  <2>1. {} \in SUBSET (1..n) /\ \A k \in {} : len[k] \in Nat
    OBVIOUS
  <2> QED BY <1>3, <1>4, <2>1 DEF Sums
<1>7. ASSUME NEW other, \A k \in A : other[k] = len[k] PROVE Total(other, A) = Total(len, A)
  <2>1. \A k \in A : w[k] = pow2[other[k]]
    BY <1>2, <1>7
  <2>2. Total(other, A) = g[A]
    BY <1>1, <1>3, <2>1, TotalIsSum
  <2> QED BY <1>4, <2>2
<1>8. Total(len, A) \in Nat
  BY <1>3, <1>4
<1> QED BY <1>5, <1>6, <1>7, <1>8

LEMMA TotalNone == \A len : Total(len, {}) = 0
<1>1. ASSUME NEW len PROVE Total(len, {}) = 0
  <2>1. 0 \in Nat /\ {} \in SUBSET (1..0) /\ \A k \in {} : len[k] \in Nat
    OBVIOUS
  <2> QED BY <2>1, TotalAdds
<1> QED BY <1>1

LEMMA TotalMore ==
  ASSUME NEW n \in Nat, NEW len, NEW A \in SUBSET (1..n), \A k \in A : len[k] \in Nat,
         NEW x \in 1..n, x \notin A, len[x] \in Nat
  PROVE  /\ Total(len, A) \in Nat /\ pow2[len[x]] \in Nat /\ pow2[len[x]] > 0
         /\ Total(len, A \cup {x}) = Total(len, A) + pow2[len[x]]
<1>1. Total(len, A) \in Nat
  BY TotalAdds
<1>2. \A y \in 1..n : y \notin A /\ len[y] \in Nat =>
        Total(len, A \cup {y}) = Total(len, A) + pow2[len[y]]
  BY TotalAdds
<1> QED BY <1>1, <1>2, Pow2Is

(* A larger set comes to more, and oracles that all have at least 2^m        *)
(* scalars come to a multiple of it.                                         *)
LEMMA TotalMonotone ==
  ASSUME NEW n \in Nat, NEW len, NEW B \in SUBSET (1..n), \A k \in B : len[k] \in Nat,
         NEW A \in SUBSET B
  PROVE  Total(len, A) <= Total(len, B)
<1> DEFINE P == {C \in SUBSET (1..n) : (\A k \in C : len[k] \in Nat) =>
                                         \A D \in SUBSET C : Total(len, D) <= Total(len, C)}
<1>1. {} \in P
  <2>1. ASSUME NEW D \in SUBSET {} PROVE Total(len, D) <= Total(len, {})
    <3>1. D = {}
      OBVIOUS
    <3> QED BY <3>1, TotalNone
  <2>2. {} \in SUBSET (1..n)
    OBVIOUS
  <2> QED BY <2>1, <2>2
<1>2. ASSUME NEW C \in P, NEW k \in 1..n, C \subseteq 1..k - 1 PROVE C \cup {k} \in P
  <2>1. C \in SUBSET (1..n) /\ k \notin C /\ C \cup {k} \in SUBSET (1..n)
    BY <1>2
  <2>2. ASSUME \A j \in C \cup {k} : len[j] \in Nat, NEW D \in SUBSET (C \cup {k})
        PROVE  Total(len, D) <= Total(len, C \cup {k})
    <3>1. /\ Total(len, C) \in Nat /\ pow2[len[k]] \in Nat
          /\ Total(len, C \cup {k}) = Total(len, C) + pow2[len[k]]
      BY <2>1, <2>2, TotalMore, SMTT(60), ZenonT(60)
    <3>2. CASE k \notin D
      <4>1. D \in SUBSET C
        BY <3>2
      <4>2. Total(len, D) <= Total(len, C) /\ Total(len, D) \in Nat
        <5>1. Total(len, D) <= Total(len, C)
          BY <1>2, <2>2, <4>1
        <5>2. D \in SUBSET (1..n) /\ \A j \in D : len[j] \in Nat
          BY <2>1, <2>2, <4>1
        <5>3. Total(len, D) \in Nat
          BY <5>2, TotalAdds
        <5> QED BY <5>1, <5>3
      <4> QED BY <3>1, <4>2
    <3>3. CASE k \in D
      <4> DEFINE E == D \ {k}
      <4>1. E \in SUBSET C /\ D = E \cup {k} /\ k \notin E
        BY <3>3
      <4> HIDE DEF E
      <4>2. E \in SUBSET (1..n) /\ \A j \in E : len[j] \in Nat
        BY <2>1, <2>2, <4>1
      <4>3. Total(len, E) \in Nat /\ Total(len, D) = Total(len, E) + pow2[len[k]]
        BY <2>2, <4>1, <4>2, TotalMore, SMTT(60), ZenonT(60)
      <4>4. Total(len, E) <= Total(len, C)
        BY <1>2, <2>2, <4>1
      <4> QED BY <3>1, <4>3, <4>4
    <3> QED BY <3>2, <3>3
  <2> QED BY <2>1, <2>2
<1> HIDE DEF P
<1>3. \A C \in SUBSET (1..n) : C \in P
  BY <1>1, <1>2, SubsetsByOne
<1> QED BY <1>3 DEF P

LEMMA TotalMultiple ==
  ASSUME NEW n \in Nat, NEW len, NEW m \in Nat, NEW A \in SUBSET (1..n),
         \A k \in A : len[k] \in Nat /\ len[k] >= m
  PROVE  \E q \in Nat : Total(len, A) = q * pow2[m]
<1> DEFINE P == {C \in SUBSET (1..n) : (\A k \in C : len[k] \in Nat /\ len[k] >= m) =>
                                         \E q \in Nat : Total(len, C) = q * pow2[m]}
<1>0. pow2[m] \in Nat
  BY Pow2Is
<1>1. {} \in P
  <2>2. Total(len, {}) = 0 * pow2[m] /\ 0 \in Nat
    BY <1>0, TotalNone
  <2>3. {} \in SUBSET (1..n)
    OBVIOUS
  <2> QED BY <2>2, <2>3
<1>2. ASSUME NEW C \in P, NEW k \in 1..n, C \subseteq 1..k - 1 PROVE C \cup {k} \in P
  <2>1. C \in SUBSET (1..n) /\ k \notin C /\ C \cup {k} \in SUBSET (1..n)
    BY <1>2
  <2>2. ASSUME \A j \in C \cup {k} : len[j] \in Nat /\ len[j] >= m
        PROVE  \E q \in Nat : Total(len, C \cup {k}) = q * pow2[m]
    <3>1. PICK q \in Nat : Total(len, C) = q * pow2[m]
      BY <1>2, <2>2
    <3>2. Total(len, C \cup {k}) = Total(len, C) + pow2[len[k]]
      BY <2>1, <2>2, TotalMore, SMTT(60), ZenonT(60)
    <3> DEFINE d == len[k] - m
    <3>3. d \in Nat /\ m + d = len[k] /\ d + m = len[k]
      BY <2>2
    <3>4. pow2[len[k]] = pow2[d] * pow2[m] /\ pow2[d] \in Nat
      BY <3>3, Pow2Sum, Pow2Is, SMTT(60), ZenonT(60)
    <3> HIDE DEF d
    <3>5. \A a, b, c \in Nat : a * c + b * c = (a + b) * c
      OBVIOUS
    <3>6. Total(len, C \cup {k}) = (q + pow2[d]) * pow2[m]
      BY <1>0, <3>1, <3>2, <3>4, <3>5
    <3>7. q + pow2[d] \in Nat
      BY <3>4
    <3> QED BY <3>6, <3>7
  <2> QED BY <2>1, <2>2
<1> HIDE DEF P
<1>3. \A C \in SUBSET (1..n) : C \in P
  BY <1>1, <1>2, SubsetsByOne
<1> QED BY <1>3 DEF P
------------------------------------------------------------------------------
(* The oracles that lie before another, and where it starts. *)
Before(len, k) == {j \in DOMAIN len : Precedes(len, j, k)}
Start(len, k)  == Total(len, Before(len, k))

LEMMA PrecedesIs ==
  ASSUME NEW n \in Nat, NEW len \in [1..n -> Nat], NEW j \in 1..n, NEW k \in 1..n
  PROVE  /\ Precedes(len, j, k) \/ Precedes(len, k, j) \/ j = k
         /\ ~Precedes(len, k, k)
         /\ Precedes(len, j, k) => /\ ~Precedes(len, k, j) /\ len[j] >= len[k]
                                   /\ Before(len, j) \cup {j} \subseteq Before(len, k)
<1>1. len[j] \in Nat /\ len[k] \in Nat /\ DOMAIN len = 1..n
  OBVIOUS
<1>2. ASSUME NEW i \in 1..n, Precedes(len, i, j), Precedes(len, j, k)
      PROVE  Precedes(len, i, k)
  <2>1. len[i] \in Nat
    OBVIOUS
  <2> QED BY <1>1, <1>2, <2>1 DEF Precedes
<1> QED BY <1>1, <1>2 DEF Precedes, Before

LEMMA BeforeIs ==
  ASSUME NEW n \in Nat, NEW len \in [1..n -> Nat], NEW k \in 1..n
  PROVE  /\ Before(len, k) \in SUBSET (1..n) /\ k \notin Before(len, k)
         /\ IsFiniteSet(Before(len, k)) /\ Cardinality(Before(len, k)) \in 0..n - 1
         /\ \A j \in Before(len, k) : Precedes(len, j, k) /\ len[j] \in Nat /\ len[j] >= len[k]
<1>1. \A j \in Before(len, k) : j \in 1..n /\ Precedes(len, j, k)
  BY DEF Before
<1>2. k \notin Before(len, k)
  BY <1>1, PrecedesIs
<1>3. IsFiniteSet(1..n) /\ Cardinality(1..n) = n
  <2>1. 1 \in Int /\ n \in Int
    OBVIOUS
  <2> QED BY <2>1, FS_Interval
<1>4. IsFiniteSet((1..n) \ {k}) /\ Cardinality((1..n) \ {k}) = n - 1
  BY <1>3, FS_RemoveElement
<1>5. Before(len, k) \in SUBSET ((1..n) \ {k})
  BY <1>1, <1>2
<1>6. /\ IsFiniteSet(Before(len, k)) /\ Cardinality(Before(len, k)) <= n - 1
      /\ Cardinality(Before(len, k)) \in Nat
  BY <1>4, <1>5, FS_Subset, FS_CardinalityType
<1>7. \A j \in Before(len, k) : len[j] >= len[k] /\ len[j] \in Nat
  BY <1>1, PrecedesIs
<1> QED BY <1>1, <1>2, <1>5, <1>6, <1>7

(* The order is a permutation, and each comes before those that follow. *)
LEMMA OrderIs ==
  ASSUME NEW n \in Nat, NEW len \in [1..n -> Nat]
  PROVE  /\ Order(len) \in [1..n -> 1..n] /\ Len(Order(len)) = n
         /\ \A i, j \in 1..n : i < j <=> Precedes(len, Order(len)[i], Order(len)[j])
         /\ \A k \in 1..n : \E i \in 1..n : Order(len)[i] = k
         /\ \A i, j \in 1..n : Order(len)[i] = Order(len)[j] => i = j
<1> DEFINE rank(k) == Cardinality(Before(len, k))
           order == Order(len)
           r == [k \in 1..n |-> rank(k) + 1]
<1>1. \A k \in 1..n : rank(k) \in 0..n - 1
  BY BeforeIs
<1>2. ASSUME NEW j \in 1..n, NEW k \in 1..n, Precedes(len, j, k) PROVE rank(j) < rank(k)
  <2>1. Before(len, j) \cup {j} \subseteq Before(len, k)
    BY <1>2, PrecedesIs
  <2>2. j \notin Before(len, j) /\ IsFiniteSet(Before(len, j)) /\ IsFiniteSet(Before(len, k))
    BY BeforeIs
  <2>3. Cardinality(Before(len, j) \cup {j}) = rank(j) + 1
    BY <2>2, FS_AddElement
  <2>4. Cardinality(Before(len, j) \cup {j}) <= rank(k)
    BY <2>1, <2>2, FS_Subset
  <2> QED BY <1>1, <2>3, <2>4
<1>3. \A j, k \in 1..n : rank(j) = rank(k) => j = k
  <2>1. ASSUME NEW j \in 1..n, NEW k \in 1..n, rank(j) = rank(k), j # k PROVE FALSE
    <3>1. rank(j) < rank(k) \/ rank(k) < rank(j)
      BY <1>2, <2>1, PrecedesIs
    <3>2. rank(j) \in 0..n - 1 /\ rank(k) \in 0..n - 1
      BY <1>1
    <3> QED BY <2>1, <3>1, <3>2
  <2> QED BY <2>1
<1> HIDE DEF rank
<1>4. r \in Injection(1..n, 1..n)
  <2>1. \A k \in 1..n : rank(k) + 1 \in 1..n
    BY <1>1
  <2>2. r \in [1..n -> 1..n]
    BY <2>1
  <2>3. \A j, k \in 1..n : r[j] = r[k] => j = k
    BY <1>1, <1>3
  <2> HIDE DEF r
  <2> QED BY <2>2, <2>3 DEF Injection, IsInjective
<1>5. r \in Surjection(1..n, 1..n)
  <2>1. IsFiniteSet(1..n)
    <3>1. 1 \in Int /\ n \in Int
      OBVIOUS
    <3> QED BY <3>1, FS_Interval
  <2> HIDE DEF r
  <2> QED BY <1>4, <2>1, FS_Injection
<1>6. \A i \in 1..n : order[i] \in 1..n /\ rank(order[i]) = i - 1
  <2>1. ASSUME NEW i \in 1..n PROVE order[i] \in 1..n /\ rank(order[i]) = i - 1
    <3>1. PICK k \in 1..n : r[k] = i
      <4> HIDE DEF r
      <4> QED BY <1>5 DEF Surjection
    <3>2. rank(k) = i - 1
      <4>1. r[k] = rank(k) + 1 /\ rank(k) \in 0..n - 1
        BY <1>1
      <4> HIDE DEF r
      <4> QED BY <3>1, <4>1
    <3>3. order[i] = CHOOSE x \in 1..n : rank(x) = i - 1
      BY DEF Order, rank, Before
    <3> QED BY <3>2, <3>3
  <2> QED BY <2>1
<1>7. order \in [1..n -> 1..n] /\ Len(order) = n
  <2>1. order = [i \in 1..n |-> order[i]]
    <3> DEFINE pick(i) == CHOOSE k \in DOMAIN len : Cardinality({j \in DOMAIN len : Precedes(len, j, k)}) = i - 1
    <3>1. order = [i \in DOMAIN len |-> pick(i)]
      BY DEF Order
    <3>2. DOMAIN len = 1..n
      OBVIOUS
    <3> HIDE DEF pick, order
    <3> QED BY <3>1, <3>2
  <2> HIDE DEF order
  <2>2. order \in [1..n -> 1..n]
    BY <1>6, <2>1
  <2>3. order \in Seq(1..n)
    BY <2>2
  <2> QED BY <2>2, <2>3
<1> HIDE DEF order
<1>8. ASSUME NEW k \in 1..n PROVE \E i \in 1..n : order[i] = k
  <2>1. r[k] \in 1..n /\ r[k] - 1 = rank(k)
    <3>1. rank(k) \in 0..n - 1
      BY <1>1
    <3>2. r[k] = rank(k) + 1
      OBVIOUS
    <3> HIDE DEF r
    <3> QED BY <3>1, <3>2
  <2>2. rank(order[r[k]]) = rank(k) /\ order[r[k]] \in 1..n
    BY <1>6, <2>1
  <2> QED BY <1>3, <2>1, <2>2
<1>9. ASSUME NEW i \in 1..n, NEW j \in 1..n, order[i] = order[j] PROVE i = j
  BY <1>6, <1>9
<1>10. ASSUME NEW i \in 1..n, NEW j \in 1..n PROVE i < j <=> Precedes(len, order[i], order[j])
  <2>1. order[i] \in 1..n /\ order[j] \in 1..n /\ rank(order[i]) = i - 1 /\ rank(order[j]) = j - 1
    BY <1>6
  <2>2. Precedes(len, order[i], order[j]) => i < j
    <3>1. Precedes(len, order[i], order[j]) => rank(order[i]) < rank(order[j])
      BY <1>2, <2>1
    <3> QED BY <2>1, <3>1
  <2>3. Precedes(len, order[j], order[i]) => j < i
    <3>1. Precedes(len, order[j], order[i]) => rank(order[j]) < rank(order[i])
      BY <1>2, <2>1
    <3> QED BY <2>1, <3>1
  <2>4. order[i] = order[j] => i = j
    BY <1>9
  <2>5. Precedes(len, order[i], order[j]) \/ Precedes(len, order[j], order[i]) \/ order[i] = order[j]
    BY <2>1, PrecedesIs
  <2> QED BY <2>2, <2>3, <2>4, <2>5
<1> QED BY <1>7, <1>8, <1>9, <1>10 DEF order

LEMMA BeforeIsPrefix ==
  ASSUME NEW n \in Nat, NEW len \in [1..n -> Nat], NEW i \in 1..n
  PROVE  Before(len, Order(len)[i]) = {Order(len)[j] : j \in 1..i - 1}
<1> DEFINE order == Order(len)
<1>1. /\ \A j \in 1..n : order[j] \in 1..n
      /\ \A j \in 1..n : j < i <=> Precedes(len, order[j], order[i])
      /\ \A k \in 1..n : \E j \in 1..n : order[j] = k
  <2>1. /\ order \in [1..n -> 1..n]
        /\ \A a, b \in 1..n : a < b <=> Precedes(len, order[a], order[b])
        /\ \A k \in 1..n : \E j \in 1..n : order[j] = k
    BY OrderIs
  <2> HIDE DEF order
  <2> QED BY <2>1
<1> HIDE DEF order
<1>2. ASSUME NEW k \in Before(len, order[i]) PROVE \E j \in 1..i - 1 : order[j] = k
  <2>1. k \in 1..n /\ Precedes(len, k, order[i])
    BY <1>2 DEF Before
  <2>2. PICK j \in 1..n : order[j] = k
    BY <1>1, <2>1
  <2>3. j < i
    BY <1>1, <2>1, <2>2
  <2>4. j \in 1..i - 1
    BY <2>3
  <2> QED BY <2>2, <2>4
<1>3. ASSUME NEW j \in 1..i - 1 PROVE order[j] \in Before(len, order[i])
  <2>1. j \in 1..n /\ j < i
    OBVIOUS
  <2> QED BY <1>1, <2>1 DEF Before
<1> QED BY <1>2, <1>3 DEF order

(* Each starts at a multiple of its size, and ends where the next may start. *)
LEMMA BlocksAre ==
  ASSUME NEW n \in Nat, NEW len \in [1..n -> Nat], NEW k \in 1..n
  PROVE  /\ Start(len, k) \in Nat /\ BlockIndices(len)[k] \in Nat
         /\ BlockIndices(len)[k] * pow2[len[k]] = Start(len, k)
         /\ Start(len, k) + pow2[len[k]] <= Total(len, 1..n)
         /\ \A j \in 1..n : Precedes(len, j, k) => Start(len, j) + pow2[len[j]] <= Start(len, k)
<1> DEFINE order == Order(len)
           place == CHOOSE i \in DOMAIN order : order[i] = k
<1>1. /\ order \in [1..n -> 1..n] /\ DOMAIN order = 1..n
      /\ \E i \in 1..n : order[i] = k
      /\ \A i, j \in 1..n : order[i] = order[j] => i = j
  BY OrderIs
<1>2. place \in 1..n /\ order[place] = k
  BY <1>1
<1>3. {order[i] : i \in 1..place} \ {k} = Before(len, k)
  <2>1. Before(len, order[place]) = {order[i] : i \in 1..place - 1}
    BY <1>2, BeforeIsPrefix
  <2> HIDE DEF place, order
  <2>2. ASSUME NEW i \in 1..place, order[i] # k PROVE i \in 1..place - 1
    BY <1>2, <2>2
  <2>3. ASSUME NEW i \in 1..place - 1 PROVE i \in 1..place /\ order[i] # k
    <3>1. i \in 1..n /\ i # place /\ i \in 1..place
      BY <1>2
    <3> QED BY <1>1, <1>2, <3>1
  <2> QED BY <1>2, <2>1, <2>2, <2>3
<1>4. BlockIndices(len)[k] = Start(len, k) \div pow2[len[k]]
  <2>1. BlockIndices(len)[k] = Total(len, {order[i] : i \in 1..place} \ {k}) \div pow2[len[k]]
    BY DEF BlockIndices
  <2> QED BY <1>3, <2>1 DEF Start
<1> HIDE DEF order, place
<1>5. /\ Before(len, k) \in SUBSET (1..n) /\ k \notin Before(len, k) /\ len[k] \in Nat
      /\ \A j \in Before(len, k) : len[j] \in Nat /\ len[j] >= len[k]
  BY BeforeIs
<1>6. /\ Start(len, k) \in Nat /\ pow2[len[k]] \in Nat /\ pow2[len[k]] > 0
      /\ Total(len, Before(len, k) \cup {k}) = Start(len, k) + pow2[len[k]]
  BY <1>5, TotalMore, SMTT(60), ZenonT(60) DEF Start
<1>7. PICK q \in Nat : Start(len, k) = q * pow2[len[k]]
  BY <1>5, TotalMultiple, SMTT(60), ZenonT(60) DEF Start
<1>8. BlockIndices(len)[k] = q
  <2>1. \A a, b \in Nat : b > 0 => (a * b) \div b = a
    BY SMTT(30)
  <2> QED BY <1>4, <1>6, <1>7, <2>1
<1>9. Start(len, k) + pow2[len[k]] <= Total(len, 1..n)
  <2>1. Before(len, k) \cup {k} \in SUBSET (1..n) /\ 1..n \in SUBSET (1..n) /\ \A j \in 1..n : len[j] \in Nat
    BY <1>5
  <2>2. Total(len, Before(len, k) \cup {k}) <= Total(len, 1..n)
    BY <2>1, TotalMonotone
  <2> QED BY <1>6, <2>2
<1>10. ASSUME NEW j \in 1..n, Precedes(len, j, k) PROVE Start(len, j) + pow2[len[j]] <= Start(len, k)
  <2>1. Before(len, j) \cup {j} \in SUBSET Before(len, k)
    BY <1>10, PrecedesIs
  <2>2. Total(len, Before(len, j) \cup {j}) <= Total(len, Before(len, k))
    BY <1>5, <2>1, TotalMonotone
  <2>3. /\ Before(len, j) \in SUBSET (1..n) /\ j \notin Before(len, j) /\ len[j] \in Nat
        /\ \A i \in Before(len, j) : len[i] \in Nat
    BY BeforeIs
  <2>4. Total(len, Before(len, j) \cup {j}) = Total(len, Before(len, j)) + pow2[len[j]]
    BY <2>3, TotalMore, SMTT(60), ZenonT(60)
  <2> QED BY <2>2, <2>4 DEF Start
<1> QED BY <1>6, <1>7, <1>8, <1>9, <1>10
------------------------------------------------------------------------------
(* The positions of an oracle's scalars. *)
Block(len, k) == Start(len, k)..Start(len, k) + pow2[len[k]] - 1

LEMMA BlocksApart ==
  ASSUME NEW n \in Nat, NEW len \in [1..n -> Nat], NEW j \in 1..n, NEW k \in 1..n, j # k
  PROVE  Block(len, j) \cap Block(len, k) = {}
<1>1. ASSUME NEW a \in 1..n, NEW b \in 1..n, Precedes(len, a, b)
      PROVE  \A p : ~(p \in Block(len, a) /\ p \in Block(len, b))
  <2>1. Start(len, a) + pow2[len[a]] <= Start(len, b) /\ Start(len, a) \in Nat /\ Start(len, b) \in Nat
    BY <1>1, BlocksAre
  <2>2. pow2[len[a]] \in Nat /\ pow2[len[b]] \in Nat
    BY Pow2Is
  <2>3. ASSUME NEW p, p \in Block(len, a), p \in Block(len, b) PROVE FALSE
    <3>1. p \in Start(len, a)..Start(len, a) + pow2[len[a]] - 1 /\ p \in Start(len, b)..Start(len, b) + pow2[len[b]] - 1
      BY <2>3 DEF Block
    <3> QED BY <2>1, <2>2, <3>1
  <2> QED BY <2>3
<1>2. Precedes(len, j, k) \/ Precedes(len, k, j)
  BY PrecedesIs
<1> QED BY <1>1, <1>2

LEMMA BlockAt ==
  ASSUME NEW n \in Nat, NEW len \in [1..n -> Nat], NEW k \in 1..n, NEW p \in Nat
  PROVE  /\ p \div pow2[len[k]] = BlockIndices(len)[k] <=> p \in Block(len, k)
         /\ p \in Block(len, k) => p % pow2[len[k]] = p - Start(len, k)
<1> DEFINE b == pow2[len[k]]
           s == Start(len, k)
           q == BlockIndices(len)[k]
<1>1. b \in Nat /\ b > 0
  BY Pow2Is
<1>2. s \in Nat /\ q \in Nat /\ q * b = s
  BY BlocksAre
<1> SUFFICES (p \div b = q <=> p \in s..s + b - 1) /\ (p \in s..s + b - 1 => p % b = p - s)
  BY DEF Block
<1> HIDE DEF b, s, q
<1>3. p \div b \in Nat /\ p % b \in 0..b - 1 /\ p = b * (p \div b) + (p % b)
  BY <1>1, SMTT(30)
<1>4. PICK d \in Nat, r \in 0..b - 1 : d = p \div b /\ r = p % b /\ p = b * d + r
  BY <1>3
<1>5. d = q => p = s + r
  BY <1>1, <1>2, <1>4
<1>6. d < q => p < s
  <2>1. ASSUME d < q PROVE p < s
    <3>1. d + 1 <= q
      BY <1>2, <2>1
    <3>2. \A x, y, z \in Nat : x <= y => x * z <= y * z
      OBVIOUS
    <3>3. (d + 1) * b <= q * b
      BY <1>1, <1>2, <3>1, <3>2
    <3>4. (d + 1) * b = b * d + b
      BY <1>1
    <3>5. b * d \in Nat
      BY <1>1
    <3> QED BY <1>1, <1>2, <1>4, <3>3, <3>4, <3>5
  <2> QED BY <2>1
<1>7. q < d => p >= s + b
  <2>1. ASSUME q < d PROVE p >= s + b
    <3>1. q + 1 <= d
      BY <1>2, <2>1
    <3>2. \A x, y, z \in Nat : x <= y => x * z <= y * z
      OBVIOUS
    <3>3. (q + 1) * b <= d * b
      BY <1>1, <1>2, <3>1, <3>2
    <3>4. (q + 1) * b = s + b /\ d * b = b * d /\ b * d \in Nat
      BY <1>1, <1>2
    <3> QED BY <1>1, <1>2, <1>4, <3>3, <3>4
  <2> QED BY <2>1
<1>8. p \in s..s + b - 1 <=> d = q
  BY <1>1, <1>2, <1>4, <1>5, <1>6, <1>7
<1> QED BY <1>1, <1>2, <1>4, <1>5, <1>8

(* A block is inside the combined oracle. *)
LEMMA BlockInside ==
  ASSUME NEW n \in Nat, NEW len \in [1..n -> Nat], NEW k \in 1..n
  PROVE  /\ Block(len, k) \subseteq 0..pow2[merged_log_msg_len(len)] - 1
         /\ merged_log_msg_len(len) \in Nat /\ len[k] <= merged_log_msg_len(len)
         /\ IsFiniteSet(Block(len, k)) /\ Cardinality(Block(len, k)) = pow2[len[k]]
<1> DEFINE N == merged_log_msg_len(len)
           t == Total(len, 1..n)
<1>1. DOMAIN len = 1..n /\ 1..n \in SUBSET (1..n) /\ \A j \in 1..n : len[j] \in Nat
  OBVIOUS
<1>2. t \in Nat
  BY <1>1, TotalAdds
<1>3. N = log2_ceil(t)
  BY <1>1 DEF merged_log_msg_len
<1> HIDE DEF N, t
<1>4. N \in Nat /\ t <= pow2[N] /\ \A m \in Nat : pow2[m] <= t => m <= N
  BY <1>2, <1>3, CeilIs
<1>5. Start(len, k) \in Nat /\ Start(len, k) + pow2[len[k]] <= t
  BY BlocksAre DEF t
<1>6. pow2[len[k]] \in Nat /\ pow2[N] \in Nat /\ len[k] \in Nat
  BY <1>4, Pow2Is
<1>7. Block(len, k) \subseteq 0..pow2[N] - 1
  <2>1. t \in Nat /\ t <= pow2[N]
    BY <1>2, <1>4
  <2>2. ASSUME NEW p \in Block(len, k) PROVE p \in 0..pow2[N] - 1
    <3>1. p \in Start(len, k)..Start(len, k) + pow2[len[k]] - 1
      BY DEF Block
    <3> QED BY <1>5, <1>6, <2>1, <3>1
  <2> QED BY <2>2
<1>8. len[k] <= N
  BY <1>2, <1>4, <1>5, <1>6
<1>9. IsFiniteSet(Block(len, k)) /\ Cardinality(Block(len, k)) = pow2[len[k]]
  <2> DEFINE a == Start(len, k)
             z == Start(len, k) + pow2[len[k]] - 1
  <2>1. a \in Int /\ z \in Int /\ (IF a > z THEN 0 ELSE z - a + 1) = pow2[len[k]]
    <3>1. \A s, b \in Nat : b > 0 => /\ s \in Int /\ s + b - 1 \in Int
                                     /\ (IF s > s + b - 1 THEN 0 ELSE (s + b - 1) - s + 1) = b
      OBVIOUS
    <3>2. Start(len, k) \in Nat /\ pow2[len[k]] \in Nat /\ pow2[len[k]] > 0
      BY <1>5, <1>6, Pow2Is
    <3> QED BY <3>1, <3>2
  <2>2. Block(len, k) = a..z
    BY DEF Block
  <2> HIDE DEF a, z
  <2> QED BY <2>1, <2>2, FS_Interval
<1> QED BY <1>4, <1>7, <1>8, <1>9 DEF N

(* Some oracles' scalars are as many as the oracles come to. *)
LEMMA BlocksFill ==
  ASSUME NEW n \in Nat, NEW len \in [1..n -> Nat]
  PROVE  Cardinality(UNION {Block(len, k) : k \in 1..n}) = Total(len, 1..n)
<1> DEFINE Filled(A) == UNION {Block(len, k) : k \in A}
           P == {A \in SUBSET (1..n) : IsFiniteSet(Filled(A)) /\ Cardinality(Filled(A)) = Total(len, A)}
<1>1. {} \in P
  <2>1. Filled({}) = {} /\ {} \in SUBSET (1..n)
    OBVIOUS
  <2> HIDE DEF Filled
  <2>2. IsFiniteSet(Filled({})) /\ Cardinality(Filled({})) = Total(len, {})
    BY <2>1, FS_EmptySet, TotalNone
  <2> QED BY <2>1, <2>2
<1>2. ASSUME NEW A \in P, NEW k \in 1..n, A \subseteq 1..k - 1 PROVE A \cup {k} \in P
  <2>1. A \in SUBSET (1..n) /\ k \notin A /\ A \cup {k} \in SUBSET (1..n) /\ \A j \in A : len[j] \in Nat
    BY <1>2
  <2>2. Filled(A \cup {k}) = Filled(A) \cup Block(len, k)
    OBVIOUS
  <2>3. Filled(A) \cap Block(len, k) = {}
    <3>1. \A j \in A : Block(len, j) \cap Block(len, k) = {}
      <4>1. \A j \in A : j \in 1..n /\ j # k
        BY <2>1
      <4> QED BY <4>1, BlocksApart
    <3> QED BY <3>1
  <2>4. IsFiniteSet(Filled(A)) /\ Cardinality(Filled(A)) = Total(len, A)
    BY <1>2
  <2>5. IsFiniteSet(Block(len, k)) /\ Cardinality(Block(len, k)) = pow2[len[k]]
    BY BlockInside
  <2>6. Total(len, A) \in Nat /\ Total(len, A \cup {k}) = Total(len, A) + pow2[len[k]]
    <3>1. len[k] \in Nat
      OBVIOUS
    <3>2. PICK B \in SUBSET (1..n) : B = A /\ k \notin B /\ \A j \in B : len[j] \in Nat
      BY <2>1
    <3> HIDE DEF P
    <3>3. Total(len, B) \in Nat /\ Total(len, B \cup {k}) = Total(len, B) + pow2[len[k]]
      BY <3>1, <3>2, TotalMore, SMTT(60), ZenonT(60)
    <3> QED BY <3>2, <3>3
  <2> HIDE DEF Filled
  <2>7. IsFiniteSet(Filled(A) \cup Block(len, k))
    BY <2>4, <2>5, FS_Union
  <2>8. Cardinality(Filled(A) \cup Block(len, k)) = Cardinality(Filled(A)) + pow2[len[k]]
    <3>1. Cardinality(Filled(A) \cup Block(len, k))
            = Cardinality(Filled(A)) + Cardinality(Block(len, k)) - Cardinality({})
      BY <2>3, <2>4, <2>5, FS_Union
    <3>2. Cardinality({}) = 0 /\ pow2[len[k]] \in Nat
      BY FS_EmptySet, Pow2Is
    <3> QED BY <2>4, <2>5, <2>6, <3>1, <3>2
  <2>9. Cardinality(Filled(A \cup {k})) = Total(len, A \cup {k}) /\ IsFiniteSet(Filled(A \cup {k}))
    BY <2>2, <2>4, <2>6, <2>7, <2>8
  <2> QED BY <2>1, <2>9
<1>3. 1..n \in P
  <2> HIDE DEF P
  <2>1. \A A \in SUBSET (1..n) : A \in P
    BY <1>1, <1>2, SubsetsByOne
  <2> QED BY <2>1
<1> QED BY <1>3
------------------------------------------------------------------------------
(* Where the first i oracles of the order end, and the next one starts. *)
EndAt(len, i) == Total(len, {Order(len)[j] : j \in 1..i})

LEMMA EndAtIs ==
  ASSUME NEW n \in Nat, NEW len \in [1..n -> Nat]
  PROVE  /\ EndAt(len, 0) = 0
         /\ \A i \in 1..n : /\ Start(len, Order(len)[i]) = EndAt(len, i - 1)
                            /\ EndAt(len, i - 1) \in Nat /\ pow2[len[Order(len)[i]]] \in Nat
                            /\ EndAt(len, i) = EndAt(len, i - 1) + pow2[len[Order(len)[i]]]
<1>1. EndAt(len, 0) = 0
  <2>1. {Order(len)[j] : j \in 1..0} = {}
    OBVIOUS
  <2> QED BY <2>1, TotalNone DEF EndAt
<1>2. ASSUME NEW i \in 1..n
      PROVE  /\ Start(len, Order(len)[i]) = EndAt(len, i - 1)
             /\ EndAt(len, i - 1) \in Nat /\ pow2[len[Order(len)[i]]] \in Nat
             /\ EndAt(len, i) = EndAt(len, i - 1) + pow2[len[Order(len)[i]]]
  <2> DEFINE order == Order(len)
  <2>1. order \in [1..n -> 1..n]
    BY OrderIs
  <2>2. Before(len, order[i]) = {order[j] : j \in 1..i - 1}
    BY BeforeIsPrefix
  <2> HIDE DEF order
  <2>3. PICK k \in 1..n : k = order[i]
    BY <2>1
  <2>4. PICK B : B = Before(len, k)
    OBVIOUS
  <2>5. B \in SUBSET (1..n) /\ k \notin B /\ len[k] \in Nat /\ \A j \in B : len[j] \in Nat
    BY <2>4, BeforeIs
  <2>6. /\ Total(len, B) \in Nat /\ pow2[len[k]] \in Nat
        /\ Total(len, B \cup {k}) = Total(len, B) + pow2[len[k]]
    BY <2>5, TotalMore, SMTT(60), ZenonT(60)
  <2>7. {order[j] : j \in 1..i} = B \cup {k}
    <3>1. \A j \in 1..i : j \in 1..i - 1 \/ j = i
      OBVIOUS
    <3>2. i \in 1..i /\ 1..i - 1 \subseteq 1..i
      OBVIOUS
    <3> QED BY <2>2, <2>3, <2>4, <3>1, <3>2
  <2>8. EndAt(len, i) = Total(len, B \cup {k}) /\ EndAt(len, i - 1) = Total(len, B)
    BY <2>2, <2>3, <2>4, <2>7 DEF EndAt, order
  <2>9. Start(len, k) = Total(len, B)
    BY <2>4 DEF Start
  <2> QED BY <2>3, <2>6, <2>8, <2>9 DEF order
<1> QED BY <1>1, <1>2

(* What a buffer is when the first m oracles of the order are in it. *)
Holds(buf, len, of, m) ==
  /\ DOMAIN buf = 0..pow2[merged_log_msg_len(len)] - 1
  /\ \A i \in 1..m : \A p \in Block(len, Order(len)[i]) :
       buf[p] = <<of[Order(len)[i]], p - Start(len, Order(len)[i])>>
  /\ \A p \in DOMAIN buf : (\A i \in 1..m : p \notin Block(len, Order(len)[i])) => buf[p] = Zero

LEMMA Joined ==
  ASSUME NEW a, IsSequence(a), NEW b, IsSequence(b), NEW c, c = a \o b
  PROVE  /\ Len(c) = Len(a) + Len(b)
         /\ \A i \in 1..Len(a) : c[i] = a[i]
         /\ \A i \in 1..Len(b) : c[Len(a) + i] = b[i]
<1>1. Len(a \o b) = Len(a) + Len(b)
  BY ConcatSequence
<1>2. \A i \in 1..Len(a) : (a \o b)[i] = a[i]
  BY ConcatSequence
<1>3. \A i \in 1..Len(b) : (a \o b)[Len(a) + i] = b[i]
  BY ConcatSequence
<1> QED BY <1>1, <1>2, <1>3

(* The oracles appended word by word. *)
Appended(len, of, m) ==
  FlattenSeq([j \in 1..m |-> [i \in 1..pow2[len[Order(len)[j]]] |-> <<of[Order(len)[j]], i - 1>>]])

LEMMA AppendedType ==
  ASSUME NEW n \in Nat, NEW len \in [1..n -> Nat], NEW of \in [1..n -> Nat], NEW m \in 0..n
  PROVE  Appended(len, of, m) \in Seq(Nat \X Nat)
<1> DEFINE order == Order(len)
           Part(j) == [i \in 1..pow2[len[order[j]]] |-> <<of[order[j]], i - 1>>]
           ss == [j \in 1..m |-> Part(j)]
<1>1. PICK T : T = Nat \X Nat
  OBVIOUS
<1>2. ASSUME NEW j \in 1..m PROVE Part(j) \in Seq(T)
  <2> HIDE DEF Part
  <2>1. order \in [1..n -> 1..n]
    BY OrderIs
  <2>2. j \in 1..n
    OBVIOUS
  <2> HIDE DEF order
  <2>3. PICK k \in 1..n : k = order[j]
    BY <2>1, <2>2
  <2> USE DEF Part
  <2>4. PICK b \in Nat : b = pow2[len[k]]
    BY Pow2Is
  <2>5. \A i \in 1..b : <<of[k], i - 1>> \in T
    BY <1>1
  <2>6. [i \in 1..b |-> <<of[k], i - 1>>] \in [1..b -> T]
    BY <2>5
  <2>7. [i \in 1..b |-> <<of[k], i - 1>>] \in Seq(T)
    BY <2>6
  <2> QED BY <2>3, <2>4, <2>7
<1>3. ss \in Seq(Seq(T))
  <2> HIDE DEF Part
  <2>1. ss \in [1..m -> Seq(T)] /\ m \in Nat
    BY <1>2
  <2> QED BY <2>1
<1> HIDE DEF ss
<1>4. FlattenSeq(ss) \in Seq(T)
  BY <1>3, FlattenSeqOK
<1> QED BY <1>1, <1>4 DEF Appended, ss

LEMMA AppendedHolds ==
  ASSUME NEW n \in Nat, NEW len \in [1..n -> Nat], NEW of \in [1..n -> Nat], NEW m \in 0..n
  PROVE  Holds([p \in 0..pow2[merged_log_msg_len(len)] - 1 |->
                  IF p < Len(Appended(len, of, m)) THEN Appended(len, of, m)[p + 1] ELSE Zero],
               len, of, m)
<1> DEFINE order == Order(len)
           b(j) == pow2[len[order[j]]]
           Part(j) == [i \in 1..b(j) |-> <<of[order[j]], i - 1>>]
           ss == [j \in 1..m |-> Part(j)]
           T == Nat \X Nat
<1>1. /\ order \in [1..n -> 1..n]
      /\ \A i, j \in 1..n : i < j <=> Precedes(len, order[i], order[j])
      /\ \A k \in 1..n : \E i \in 1..n : order[i] = k
      /\ \A i, j \in 1..n : order[i] = order[j] => i = j
  BY OrderIs
<1>2. /\ EndAt(len, 0) = 0
      /\ \A i \in 1..n : /\ Start(len, order[i]) = EndAt(len, i - 1)
                         /\ EndAt(len, i - 1) \in Nat /\ b(i) \in Nat
                         /\ EndAt(len, i) = EndAt(len, i - 1) + b(i)
  BY EndAtIs
<1>3. Appended(len, of, m) = FlattenSeq(ss)
  BY DEF Appended
<1>4. m \in Nat /\ m <= n /\ \A j \in 1..m : j \in 1..n
  OBVIOUS
<1> HIDE DEF order
<1>5. ASSUME NEW j \in 1..m PROVE Part(j) \in Seq(T) /\ Len(Part(j)) = b(j)
  <2>1. order[j] \in 1..n /\ of[order[j]] \in Nat /\ b(j) \in Nat
    BY <1>1, <1>2, <1>4
  <2> HIDE DEF b
  <2>2. Part(j) \in [1..b(j) -> T]
    <3>1. \A i \in 1..b(j) : <<of[order[j]], i - 1>> \in T
      BY <2>1
    <3> HIDE DEF T
    <3> QED BY <3>1
  <2>3. PICK c, x : c \in Nat /\ c = b(j) /\ x = Part(j) /\ x \in [1..c -> T]
    BY <2>1, <2>2
  <2> HIDE DEF Part, T, b
  <2>4. x \in Seq(T) /\ Len(x) = c
    <3>1. c \in Nat /\ x \in [1..c -> T]
      BY <2>3
    <3> QED BY <3>1
  <2> QED BY <2>3, <2>4
<1>6. ss \in Seq(Seq(T)) /\ Len(ss) = m /\ \A j \in 1..m : ss[j] = Part(j)
  <2> HIDE DEF Part, T
  <2>1. ss \in [1..m -> Seq(T)]
    BY <1>5
  <2> QED BY <1>4, <2>1
<1> HIDE DEF ss
<1>7. PICK Q : /\ Q[0] = <<>> /\ FlattenSeq(ss) = Q[m]
               /\ \A k \in 0..m : Q[k] \in Seq(T)
               /\ \A k \in 0..m - 1 : Q[k + 1] = Q[k] \o Part(k + 1)
  <2> HIDE DEF Part, T
  <2>1. PICK Q : /\ Q[0] = <<>> /\ FlattenSeq(ss) = Q[Len(ss)]
                 /\ \A k \in 0..Len(ss) : Q[k] \in Seq(T)
                 /\ \A k \in 0..Len(ss) - 1 : Q[k + 1] = Q[k] \o ss[k + 1]
    BY <1>6, FlattenParts
  <2>2. \A k \in 0..m - 1 : ss[k + 1] = Part(k + 1)
    BY <1>4, <1>6
  <2> QED BY <1>6, <2>1, <2>2
<1> DEFINE ScalarAt(j, p) == <<of[order[j]], p - Start(len, order[j])>>
           Fine(k) == /\ Len(Q[k]) = EndAt(len, k) /\ EndAt(len, k) \in Nat
                      /\ \A j \in 1..k : \A p \in Block(len, order[j]) :
                           p \in 0..EndAt(len, k) - 1 /\ Q[k][p + 1] = ScalarAt(j, p)
                      /\ \A p \in 0..EndAt(len, k) - 1 : \E j \in 1..k : p \in Block(len, order[j])
           S == {k \in 0..m : Fine(k)}
<1>8. 0 \in S
  <2>1. Len(Q[0]) = 0 /\ 1..0 = {} /\ 0..0 - 1 = {}
    BY <1>7
  <2>2. Fine(0)
    BY <1>2, <2>1
  <2> HIDE DEF Fine
  <2> QED BY <2>2
<1>9. ASSUME NEW k \in Nat, k < m, k \in S PROVE k + 1 \in S
  <2> DEFINE e == EndAt(len, k)
             f == EndAt(len, k + 1)
  <2>1. k + 1 \in 1..m /\ k + 1 \in 1..n /\ (k + 1) - 1 = k /\ k \in 0..m /\ k \in 0..m - 1
    BY <1>4, <1>9
  <2>2. /\ Start(len, order[k + 1]) = e /\ e \in Nat /\ b(k + 1) \in Nat /\ f = e + b(k + 1)
    BY <1>2, <2>1
  <2>3. Fine(k)
    BY <1>9
  <2>4. Q[k] \in Seq(T) /\ Q[k + 1] = Q[k] \o Part(k + 1) /\ Part(k + 1) \in Seq(T) /\ Len(Part(k + 1)) = b(k + 1)
    <3> HIDE DEF Part, b, T
    <3> QED BY <1>5, <1>7, <2>1
  <2>5. \A i \in 1..b(k + 1) : Part(k + 1)[i] = <<of[order[k + 1]], i - 1>>
    OBVIOUS
  <2> HIDE DEF Part
  <2>6. /\ Len(Q[k + 1]) = e + b(k + 1)
        /\ \A i \in 1..e : Q[k + 1][i] = Q[k][i]
        /\ \A i \in 1..b(k + 1) : Q[k + 1][e + i] = Part(k + 1)[i]
    <3> HIDE DEF b, e, T
    <3>1. IsSequence(Q[k]) /\ IsSequence(Part(k + 1)) /\ Len(Q[k]) = e
      BY <2>3, <2>4, SeqIsSequence DEF e
    <3> HIDE DEF Fine
    <3>2. PICK x, y, z : x = Q[k] /\ y = Part(k + 1) /\ z = Q[k + 1]
      OBVIOUS
    <3>3. z = x \o y /\ IsSequence(x) /\ IsSequence(y) /\ Len(x) = e /\ Len(y) = b(k + 1)
      BY <2>4, <3>1, <3>2
    <3>4. Len(z) = Len(x) + Len(y)
      BY ONLY <3>3, Joined
    <3>5. \A i \in 1..Len(x) : z[i] = x[i]
      BY ONLY <3>3, Joined
    <3>6. \A i \in 1..Len(y) : z[Len(x) + i] = y[i]
      BY ONLY <3>3, Joined
    <3> QED BY <3>2, <3>3, <3>4, <3>5, <3>6
  <2>7. ASSUME NEW j \in 1..k + 1, NEW p \in Block(len, order[j])
        PROVE  p \in 0..f - 1 /\ Q[k + 1][p + 1] = ScalarAt(j, p)
    <3>1. CASE j = k + 1
      <4>1. p \in e..e + b(k + 1) - 1
        <5> HIDE DEF e
        <5> QED BY <2>2, <2>7, <3>1 DEF Block
      <4> DEFINE i == p - e + 1
      <4>2. p \in 0..f - 1 /\ i \in 1..b(k + 1) /\ e + i = p + 1 /\ i - 1 = p - e
        <5> HIDE DEF e, f, b
        <5> QED BY <2>2, <4>1
      <4> HIDE DEF i
      <4>3. Q[k + 1][e + i] = Part(k + 1)[i]
        <5> HIDE DEF e, b
        <5> QED BY <2>6, <4>2
      <4>4. Part(k + 1)[i] = <<of[order[k + 1]], i - 1>>
        <5> HIDE DEF e, b
        <5> QED BY <2>5, <4>2
      <4>5. ScalarAt(j, p) = <<of[order[k + 1]], p - e>>
        BY <2>2, <3>1
      <4> HIDE DEF ScalarAt, e, f, b
      <4> QED BY <4>2, <4>3, <4>4, <4>5
    <3>2. CASE j # k + 1
      <4>1. j \in 1..k
        BY <3>2
      <4>2. p \in 0..e - 1 /\ Q[k][p + 1] = ScalarAt(j, p)
        BY <2>3, <2>7, <4>1
      <4>3. p + 1 \in 1..e /\ p \in 0..f - 1
        <5> HIDE DEF e, f, b, ScalarAt
        <5> QED BY <2>2, <4>2
      <4> HIDE DEF ScalarAt, Fine
      <4> QED BY <2>6, <4>2, <4>3
    <3> QED BY <3>1, <3>2
  <2>8. ASSUME NEW p \in 0..f - 1 PROVE \E j \in 1..k + 1 : p \in Block(len, order[j])
    <3>1. CASE p < e
      <4>1. p \in 0..e - 1
        BY <2>2, <3>1
      <4>2. PICK j \in 1..k : p \in Block(len, order[j])
        BY <2>3, <4>1
      <4>3. j \in 1..k + 1
        OBVIOUS
      <4> QED BY <4>2, <4>3
    <3>2. CASE ~(p < e)
      <4>1. p \in e..e + b(k + 1) - 1 /\ k + 1 \in 1..k + 1
        BY <2>2, <3>2
      <4>2. p \in Block(len, order[k + 1])
        BY <2>2, <4>1 DEF Block
      <4> QED BY <4>1, <4>2
    <3> QED BY <3>1, <3>2
  <2>9. Fine(k + 1)
    <3>1. f \in Nat /\ Len(Q[k + 1]) = f
      BY <2>2, <2>6
    <3> HIDE DEF ScalarAt
    <3> QED BY <2>7, <2>8, <3>1
  <2> HIDE DEF Fine
  <2> QED BY <2>1, <2>9
<1>10. Fine(m)
  <2> HIDE DEF S
  <2>1. \A k \in 0..m : k \in S
    BY <1>4, <1>8, <1>9, UpwardClosed
  <2>2. m \in S
    BY <1>4, <2>1
  <2> QED BY <2>2 DEF S
<1> DEFINE run == Appended(len, of, m)
           Z == pow2[merged_log_msg_len(len)]
           buf == [p \in 0..Z - 1 |-> IF p < Len(run) THEN run[p + 1] ELSE Zero]
<1>11. run = Q[m] /\ Len(run) = EndAt(len, m) /\ EndAt(len, m) \in Nat
  BY <1>3, <1>7, <1>10
<1>12. ASSUME NEW i \in 1..m, NEW p \in Block(len, order[i])
       PROVE  buf[p] = <<of[order[i]], p - Start(len, order[i])>>
  <2>1. p \in 0..EndAt(len, m) - 1 /\ Q[m][p + 1] = ScalarAt(i, p)
    BY <1>10
  <2>2. p \in 0..Z - 1
    <3>1. order[i] \in 1..n
      BY <1>1, <1>4
    <3>2. Block(len, order[i]) \subseteq 0..Z - 1
      BY <3>1, BlockInside
    <3> QED BY <3>2
  <2>3. p < Len(run)
    BY <1>11, <2>1
  <2> HIDE DEF Z, run
  <2> QED BY <1>11, <2>1, <2>2, <2>3
<1>13. ASSUME NEW p \in 0..Z - 1, \A i \in 1..m : p \notin Block(len, order[i])
       PROVE  buf[p] = Zero
  <2>1. p \notin 0..EndAt(len, m) - 1
    BY <1>10, <1>13
  <2>2. ~(p < Len(run))
    BY <1>11, <2>1
  <2> HIDE DEF Z, run
  <2> QED BY <2>2
<1>14. DOMAIN buf = 0..Z - 1
  OBVIOUS
<1> HIDE DEF buf
<1>15. Holds(buf, len, of, m)
  BY <1>12, <1>13, <1>14 DEF Holds, order
<1> QED BY <1>15 DEF buf

(* The next of the order placed in its block. *)
LEMMA PlacedHolds ==
  ASSUME NEW n \in Nat, NEW len \in [1..n -> Nat], NEW of, NEW buf,
         NEW m \in Nat, m < n, Holds(buf, len, of, m), NEW k, k = Order(len)[m + 1]
  PROVE  Holds(PlaceBlock(buf, of[k], len[k], BlockIndices(len)[k]), len, of, m + 1)
<1> DEFINE order == Order(len)
           new == PlaceBlock(buf, of[k], len[k], BlockIndices(len)[k])
           Z == pow2[merged_log_msg_len(len)]
<1>1. order \in [1..n -> 1..n] /\ \A i, j \in 1..n : order[i] = order[j] => i = j
  BY OrderIs
<1> HIDE DEF order
<1>2. m + 1 \in 1..n /\ m + 1 \in 1..m + 1 /\ \A i \in 1..m : i \in 1..n /\ i # m + 1
  OBVIOUS
<1>3. k \in 1..n /\ k = order[m + 1]
  BY <1>1, <1>2 DEF order
<1>4. DOMAIN new = DOMAIN buf /\ DOMAIN buf = 0..Z - 1
  BY DEF PlaceBlock, Holds
<1>5. ASSUME NEW p \in 0..Z - 1
      PROVE  new[p] = IF p \in Block(len, k) THEN <<of[k], p - Start(len, k)>> ELSE buf[p]
  <2>1. p \in Nat
    OBVIOUS
  <2>2. new[p] = IF p \div pow2[len[k]] = BlockIndices(len)[k]
                 THEN <<of[k], p % pow2[len[k]]>> ELSE buf[p]
    BY <1>4, <1>5 DEF PlaceBlock
  <2>3. /\ p \div pow2[len[k]] = BlockIndices(len)[k] <=> p \in Block(len, k)
        /\ p \in Block(len, k) => p % pow2[len[k]] = p - Start(len, k)
    BY <1>3, <2>1, BlockAt
  <2> QED BY <2>2, <2>3
<1>6. ASSUME NEW i \in 1..n PROVE Block(len, order[i]) \subseteq 0..Z - 1
  <2>1. order[i] \in 1..n
    BY <1>1
  <2> QED BY <2>1, BlockInside
<1> HIDE DEF new, Z
<1>7. ASSUME NEW i \in 1..m + 1, NEW p \in Block(len, order[i])
      PROVE  new[p] = <<of[order[i]], p - Start(len, order[i])>>
  <2>0. i \in 1..n /\ p \in 0..Z - 1
    <3>1. i \in 1..n
      OBVIOUS
    <3> QED BY <1>6, <3>1
  <2>1. CASE i = m + 1
    BY <1>3, <1>5, <2>0, <2>1
  <2>2. CASE i # m + 1
    <3>1. i \in 1..m /\ order[i] # k /\ order[i] \in 1..n
      BY <1>1, <1>2, <1>3, <2>0, <2>2
    <3>2. p \notin Block(len, k)
      BY <1>3, <3>1, BlocksApart
    <3>3. buf[p] = <<of[order[i]], p - Start(len, order[i])>>
      BY <3>1 DEF Holds, order
    <3> QED BY <1>5, <2>0, <3>2, <3>3
  <2> QED BY <2>1, <2>2
<1>8. ASSUME NEW p \in 0..Z - 1, \A i \in 1..m + 1 : p \notin Block(len, order[i])
      PROVE  new[p] = Zero
  <2>1. p \notin Block(len, k)
    BY <1>2, <1>3, <1>8
  <2>2. \A i \in 1..m : p \notin Block(len, order[i])
    <3>1. \A i \in 1..m : i \in 1..m + 1
      OBVIOUS
    <3> QED BY <1>8, <3>1
  <2>3. buf[p] = Zero
    BY <1>4, <2>2 DEF Holds, order
  <2> QED BY <1>5, <2>1, <2>3
<1>9. Holds(new, len, of, m + 1)
  BY <1>4, <1>7, <1>8 DEF Holds, order, Z
<1> QED BY <1>9 DEF new

(* Whatever is appended and whatever is placed, the combined buffer holds    *)
(* all of the round.                                                         *)
LEMMA CombinedHolds ==
  ASSUME NEW n \in Nat, NEW len \in [1..n -> Nat], NEW of \in [1..n -> Nat]
  PROVE  Holds(Combined(len, of), len, of, n)
<1> DEFINE order == Order(len)
           block == BlockIndices(len)
           Z == pow2[merged_log_msg_len(len)]
           whole == {m \in 0..Len(order) : \A i \in 1..m : len[order[i]] >= LogWidth}
           nw == Max(whole)
           run == Appended(len, of, nw)
           words == [p \in 0..Z - 1 |-> IF p < Len(run) THEN run[p + 1] ELSE Zero]
           narrow == SubSeq(order, nw + 1, Len(order))
           Place(dst, k) == PlaceBlock(dst, of[k], len[k], block[k])
           c == n - nw
           Is(it) == it = [s \in SUBSET (1..c) |->
                             IF s = {} THEN words ELSE Place(it[s \ {Max(s)}], narrow[Max(s)])]
           it == CHOOSE x : Is(x)
<1>1. order \in [1..n -> 1..n] /\ Len(order) = n
  BY OrderIs
<1>2. nw \in 0..n
  <2> HIDE DEF order
  <2>1. whole \subseteq 0..n /\ 0 \in whole
    BY <1>1
  <2> HIDE DEF whole
  <2>2. whole # {}
    BY <2>1
  <2>3. nw \in whole
    BY <2>1, <2>2, MaxIs
  <2> QED BY <2>1, <2>3
<1>3. /\ c \in Nat /\ nw + c = n /\ narrow \in Seq(1..n) /\ Len(narrow) = c /\ DOMAIN narrow = 1..c
      /\ \A i \in 1..c : narrow[i] = order[nw + i]
  <2> HIDE DEF nw, order
  <2>1. /\ nw + 1 \in Int /\ n \in Int /\ n - (nw + 1) + 1 = c /\ c \in Nat /\ nw + c = n
        /\ \A i \in 1..c : (nw + 1) + i - 1 = nw + i /\ nw + i \in 1..n
        /\ \A i \in nw + 1..n : i \in 1..n
    BY <1>2
  <2>2. ASSUME NEW i \in nw + 1..n PROVE order[i] \in 1..n
    <3>1. i \in 1..n
      BY <2>1
    <3> QED BY <1>1, <3>1
  <2>3. /\ SubSeq(order, nw + 1, n) \in Seq(1..n)
        /\ Len(SubSeq(order, nw + 1, n)) = IF nw + 1 <= n THEN n - (nw + 1) + 1 ELSE 0
        /\ \A i \in 1..n - (nw + 1) + 1 : SubSeq(order, nw + 1, n)[i] = order[(nw + 1) + i - 1]
    <3> HIDE DEF c
    <3>1. PICK a, e, U : /\ a \in Int /\ e \in Int
                      /\ a = nw + 1 /\ e = n /\ U = 1..n
      BY <2>1
    <3>2. \A i \in a..e : order[i] \in U
      BY <2>2, <3>1
    <3>3. SubSeq(order, a, e) \in Seq(U)
      BY <3>1, <3>2, SubSeqProperties
    <3>4. Len(SubSeq(order, a, e)) = IF a <= e THEN e - a + 1 ELSE 0
      BY <3>1, <3>2, SubSeqProperties
    <3>5. \A i \in 1..e - a + 1 : SubSeq(order, a, e)[i] = order[a + i - 1]
      BY <3>1, <3>2, SubSeqProperties
    <3> QED BY <3>1, <3>3, <3>4, <3>5
  <2>4. narrow = SubSeq(order, nw + 1, n)
    BY <1>1
  <2> HIDE DEF narrow
  <2>5. Len(narrow) = c
    <3>1. nw + 1 <= n \/ c = 0
      BY <1>2
    <3> QED BY <1>2, <2>1, <2>3, <2>4, <3>1
  <2>6. \A i \in 1..c : narrow[i] = order[nw + i]
    BY <2>1, <2>3, <2>4
  <2> HIDE DEF c
  <2>7. narrow \in Seq(1..n) /\ DOMAIN narrow = 1..c
    BY <2>3, <2>4, <2>5
  <2> QED BY <2>1, <2>5, <2>6, <2>7
<1>4. Combined(len, of) = it[1..c]
  <2>1. Combined(len, of) = FoldLeft(LAMBDA dst, k : PlaceBlock(dst, of[k], len[k], block[k]), words, narrow)
    BY DEF Combined, Appended, Zeros
  <2> HIDE DEF words, narrow, block, c
  <2> QED BY <1>3, <2>1 DEF FoldLeft, MapThenFoldSet
<1> HIDE DEF order, whole, nw, block, narrow, c
<1> DEFINE T == [0..Z - 1 -> {Zero} \cup (Nat \X Nat)]
           G == [p \in T \X (1..c) |-> Place(p[1], narrow[p[2]])]
<1>5. Holds(words, len, of, nw)
  BY <1>2, AppendedHolds
<1>6. words \in T
  <2>1. Appended(len, of, nw) \in Seq(Nat \X Nat)
    BY <1>2, AppendedType
  <2>2. ASSUME NEW p \in 0..Z - 1, p < Len(run) PROVE run[p + 1] \in Nat \X Nat
    <3>1. Len(run) \in Nat
      BY <2>1
    <3>2. p + 1 \in 1..Len(run)
      BY <2>2, <3>1
    <3> QED BY <2>1, <3>2, ElementOfSeq
  <2> HIDE DEF Z, run
  <2> QED BY <2>2
<1>7. ASSUME NEW dst \in T, NEW k \in 1..n PROVE Place(dst, k) \in T
  <2>1. of[k] \in Nat /\ \A p \in 0..Z - 1 : p % pow2[len[k]] \in Nat
    <3>1. \A a, b \in Nat : b > 0 => a % b \in Nat
      BY SMTT(30)
    <3>2. pow2[len[k]] \in Nat /\ pow2[len[k]] > 0
      BY Pow2Is
    <3>3. \A p \in 0..Z - 1 : p \in Nat
      OBVIOUS
    <3> QED BY <3>1, <3>2, <3>3
  <2>2. DOMAIN dst = 0..Z - 1
    OBVIOUS
  <2>3. Place(dst, k) = [p \in 0..Z - 1 |-> IF p \div pow2[len[k]] = block[k]
                                            THEN <<of[k], p % pow2[len[k]]>> ELSE dst[p]]
    BY <2>2 DEF PlaceBlock
  <2> HIDE DEF Z
  <2> QED BY <2>1, <2>3
<1>8. G \in [T \X (1..c) -> T]
  <2>1. \A i \in 1..c : narrow[i] \in 1..n
    BY <1>3
  <2> HIDE DEF T, Place
  <2>2. \A p \in T \X (1..c) : p[1] \in T /\ p[2] \in 1..c
    OBVIOUS
  <2> QED BY <1>7, <2>1, <2>2
<1> HIDE DEF words, T, Place
<1>9. PICK x \in [SUBSET (1..c) -> T] : FoldsBy(x, c, words, G)
  <2> HIDE DEF G
  <2> QED BY <1>3, <1>6, <1>8, FoldExists
<1>10. Is(x)
  <2>1. ASSUME NEW s \in SUBSET (1..c)
        PROVE  x[s] = IF s = {} THEN words ELSE Place(x[s \ {Max(s)}], narrow[Max(s)])
    <3>1. CASE s = {}
      BY <1>9, <3>1 DEF FoldsBy
    <3>2. CASE s # {}
      <4>1. s \subseteq 0..c
        BY <1>3
      <4>2. Max(s) \in s
        BY <1>3, <3>2, <4>1, MaxIs
      <4>3. PICK top : top = Max(s)
        OBVIOUS
      <4>4. top \in 1..c /\ x[s \ {top}] \in T
        BY <4>2, <4>3
      <4>5. G[<<x[s \ {top}], top>>] = Place(x[s \ {top}], narrow[top])
        BY <4>4
      <4>6. x[s] = G[<<x[s \ {top}], top>>]
        BY <1>9, <3>2, <4>3 DEF FoldsBy
      <4> QED BY <3>2, <4>3, <4>5, <4>6
    <3> QED BY <3>1, <3>2
  <2>2. x = [s \in SUBSET (1..c) |-> x[s]]
    BY <1>9
  <2> QED BY <2>1, <2>2
<1>11. Is(it)
  <2> HIDE DEF Is
  <2> QED BY <1>10
<1> HIDE DEF it
(* Each that is placed comes next in the order. *)
<1>12. FoldsBy(it, c, words, [p \in {it[s] : s \in SUBSET (1..c)} \X (1..c) |-> Place(p[1], narrow[p[2]])])
  <2> DEFINE R == {it[s] : s \in SUBSET (1..c)}
             H == [p \in R \X (1..c) |-> Place(p[1], narrow[p[2]])]
  <2>1. ASSUME NEW s \in SUBSET (1..c)
        PROVE  it[s] = IF s = {} THEN words ELSE H[<<it[s \ {Max(s)}], Max(s)>>]
    <3>1. CASE s = {}
      BY <1>11, <3>1
    <3>2. CASE s # {}
      <4>1. s \subseteq 0..c
        BY <1>3
      <4>2. Max(s) \in s
        BY <1>3, <3>2, <4>1, MaxIs
      <4>3. PICK top : top = Max(s)
        OBVIOUS
      <4>4. top \in 1..c /\ s \ {top} \in SUBSET (1..c)
        BY <4>2, <4>3
      <4>5. it[s \ {top}] \in R
        BY <4>4
      <4> HIDE DEF R
      <4>6. H[<<it[s \ {top}], top>>] = Place(it[s \ {top}], narrow[top])
        BY <4>4, <4>5
      <4>7. it[s] = Place(it[s \ {top}], narrow[top])
        BY <1>11, <3>2, <4>3
      <4> QED BY <3>2, <4>3, <4>6, <4>7
    <3> QED BY <3>1, <3>2
  <2> HIDE DEF H
  <2>2. FoldsBy(it, c, words, H)
    BY <2>1 DEF FoldsBy
  <2> QED BY <2>2 DEF H
<1> DEFINE S == {k \in 0..c : Holds(it[1..k], len, of, nw + k)}
<1>13. /\ it[1..0] = words
       /\ \A k \in 0..c - 1 : it[1..k + 1] = Place(it[1..k], narrow[k + 1])
  <2> DEFINE R == {it[s] : s \in SUBSET (1..c)}
             H == [p \in R \X (1..c) |-> Place(p[1], narrow[p[2]])]
  <2>1. /\ it[1..0] = words
        /\ \A k \in 0..c - 1 : it[1..k + 1] = H[<<it[1..k], k + 1>>]
    <3>1. FoldsBy(it, c, words, H)
      BY <1>12
    <3> HIDE DEF H
    <3> QED BY <1>3, <3>1, FoldParts
  <2>2. ASSUME NEW k \in 0..c - 1 PROVE H[<<it[1..k], k + 1>>] = Place(it[1..k], narrow[k + 1])
    <3>1. k + 1 \in 1..c /\ 1..k \in SUBSET (1..c)
      BY <1>3
    <3>2. it[1..k] \in R
      BY <3>1
    <3> HIDE DEF R
    <3> QED BY <3>1, <3>2
  <2> QED BY <2>1, <2>2
<1>14. 0 \in S
  <2>1. nw + 0 = nw /\ 0 \in 0..c
    BY <1>2, <1>3
  <2> QED BY <1>5, <1>13, <2>1
<1>15. ASSUME NEW k \in Nat, k < c, k \in S PROVE k + 1 \in S
  <2>1. /\ k \in 0..c - 1 /\ k + 1 \in 1..c /\ k + 1 \in 0..c
        /\ nw + k \in Nat /\ nw + k < n /\ (nw + k) + 1 = nw + (k + 1)
    BY <1>2, <1>3, <1>15
  <2>2. PICK a : a = narrow[k + 1]
    OBVIOUS
  <2>3. a = Order(len)[(nw + k) + 1]
    <3>1. narrow[k + 1] = order[nw + (k + 1)]
      BY <1>3, <2>1
    <3>2. order = Order(len)
      BY DEF order
    <3> HIDE DEF narrow, order
    <3> QED BY <2>1, <2>2, <3>1, <3>2
  <2>4. Holds(it[1..k], len, of, nw + k)
    BY <1>15
  <2>5. Holds(PlaceBlock(it[1..k], of[a], len[a], BlockIndices(len)[a]), len, of, (nw + k) + 1)
    BY <2>1, <2>3, <2>4, PlacedHolds
  <2>6. it[1..k + 1] = PlaceBlock(it[1..k], of[a], len[a], BlockIndices(len)[a])
    BY <1>13, <2>1, <2>2 DEF Place, block
  <2>7. Holds(it[1..k + 1], len, of, nw + (k + 1))
    BY <2>1, <2>5, <2>6
  <2> QED BY <2>1, <2>7
<1>16. c \in S
  <2> HIDE DEF S
  <2>1. \A k \in 0..c : k \in S
    BY <1>3, <1>14, <1>15, UpwardClosed
  <2> QED BY <1>3, <2>1
<1> QED BY <1>3, <1>4, <1>16
------------------------------------------------------------------------------
(* What a round's buffer is to those who look at it. *)
RoundHeld(buf, len, of, n) ==
  /\ DOMAIN buf = 0..pow2[merged_log_msg_len(len)] - 1
  /\ \A k \in 1..n : \A p \in Block(len, k) :
       p \in DOMAIN buf /\ buf[p] = <<of[k], p - Start(len, k)>>
  /\ Cardinality({p \in DOMAIN buf : buf[p] # Zero}) = Total(len, 1..n)

LEMMA RoundLaid ==
  ASSUME NEW n \in Nat, NEW len \in [1..n -> Nat], NEW of \in [1..n -> Nat],
         NEW buf, buf = Combined(len, of)
  PROVE  RoundHeld(buf, len, of, n)
<1> DEFINE order == Order(len)
<1>1. Holds(buf, len, of, n)
  BY CombinedHolds
<1>2. DOMAIN buf = 0..pow2[merged_log_msg_len(len)] - 1
  BY <1>1 DEF Holds
<1>3. /\ order \in [1..n -> 1..n]
      /\ \A k \in 1..n : \E i \in 1..n : order[i] = k
  BY OrderIs
<1>4. /\ \A i \in 1..n : \A p \in Block(len, order[i]) : buf[p] = <<of[order[i]], p - Start(len, order[i])>>
      /\ \A p \in DOMAIN buf : (\A i \in 1..n : p \notin Block(len, order[i])) => buf[p] = Zero
  BY <1>1 DEF Holds
<1> HIDE DEF order
<1>5. ASSUME NEW k \in 1..n, NEW p \in Block(len, k)
      PROVE  p \in DOMAIN buf /\ buf[p] = <<of[k], p - Start(len, k)>>
  <2>1. PICK i \in 1..n : order[i] = k
    BY <1>3
  <2>2. Block(len, k) \subseteq DOMAIN buf
    BY <1>2, BlockInside
  <2> QED BY <1>4, <2>1, <2>2
<1>6. \A a, b : <<a, b>> # Zero
  BY DEF Zero
<1>7. {p \in DOMAIN buf : buf[p] # Zero} = UNION {Block(len, k) : k \in 1..n}
  <2>1. ASSUME NEW p \in DOMAIN buf, buf[p] # Zero PROVE \E k \in 1..n : p \in Block(len, k)
    <3>1. PICK i \in 1..n : p \in Block(len, order[i])
      BY <1>4, <2>1
    <3> QED BY <1>3, <3>1
  <2>2. ASSUME NEW k \in 1..n, NEW p \in Block(len, k) PROVE p \in DOMAIN buf /\ buf[p] # Zero
    BY <1>5, <1>6
  <2> QED BY <2>1, <2>2
<1> QED BY <1>2, <1>5, <1>7, BlocksFill DEF RoundHeld

(* A transparent polynomial is padded with zeros to the combined oracle's    *)
(* size: it meets the scalars of its own oracle.                             *)
Padded(len, a, k) ==
  PlaceBlock(Zeros(merged_log_msg_len(len)), a, len[k], BlockIndices(len)[k])

PaddedTo(w, len, a, k) ==
  /\ DOMAIN w = 0..pow2[merged_log_msg_len(len)] - 1
  /\ \A p \in DOMAIN w : w[p] = IF p \in Block(len, k) THEN <<a, p - Start(len, k)>> ELSE Zero
  /\ {w[p] : p \in DOMAIN w} \ {Zero} = {<<a, i>> : i \in 0..pow2[len[k]] - 1}

LEMMA PaddedIs ==
  ASSUME NEW n \in Nat, NEW len \in [1..n -> Nat], NEW a, NEW k \in 1..n,
         NEW w, w = Padded(len, a, k)
  PROVE  PaddedTo(w, len, a, k)
<1> DEFINE Z == pow2[merged_log_msg_len(len)]
           b == pow2[len[k]]
           s == Start(len, k)
<1>1. DOMAIN w = 0..Z - 1
  BY DEF Padded, PlaceBlock, Zeros
<1>2. ASSUME NEW p \in 0..Z - 1
      PROVE  w[p] = IF p \in Block(len, k) THEN <<a, p - s>> ELSE Zero
  <2>1. p \in Nat
    OBVIOUS
  <2>2. Zeros(merged_log_msg_len(len))[p] = Zero /\ p \in DOMAIN Zeros(merged_log_msg_len(len))
    BY DEF Zeros
  <2>3. w[p] = IF p \div b = BlockIndices(len)[k] THEN <<a, p % b>> ELSE Zero
    BY <2>2 DEF Padded, PlaceBlock
  <2>4. /\ p \div b = BlockIndices(len)[k] <=> p \in Block(len, k)
        /\ p \in Block(len, k) => p % b = p - s
    BY <2>1, BlockAt
  <2> QED BY <2>3, <2>4
<1>3. Block(len, k) \subseteq 0..Z - 1
  BY BlockInside
<1>4. b \in Nat /\ s \in Nat /\ Block(len, k) = s..s + b - 1
  BY Pow2Is, BlocksAre DEF Block
<1> HIDE DEF Z, b, s
<1>5. \A x, y : <<x, y>> # Zero
  BY DEF Zero
<1>6. ASSUME NEW i \in 0..b - 1 PROVE \E p \in 0..Z - 1 : w[p] = <<a, i>>
  <2>1. PICK p : p = s + i
    OBVIOUS
  <2>2. p \in s..s + b - 1 /\ p - s = i
    BY <1>4, <2>1
  <2>3. p \in Block(len, k) /\ p \in 0..Z - 1
    BY <1>3, <1>4, <2>2
  <2> QED BY <1>2, <2>2, <2>3
<1>7. ASSUME NEW p \in 0..Z - 1, w[p] # Zero PROVE \E i \in 0..b - 1 : w[p] = <<a, i>>
  <2>1. p \in s..s + b - 1 /\ w[p] = <<a, p - s>>
    BY <1>2, <1>4, <1>7
  <2>2. p - s \in 0..b - 1
    BY <1>4, <2>1
  <2> QED BY <2>1, <2>2
<1>8. {w[p] : p \in DOMAIN w} \ {Zero} = {<<a, i>> : i \in 0..b - 1}
  <2>1. ASSUME NEW y \in {w[p] : p \in DOMAIN w} \ {Zero} PROVE y \in {<<a, i>> : i \in 0..b - 1}
    <3>1. PICK p \in 0..Z - 1 : y = w[p] /\ w[p] # Zero
      BY <1>1, <2>1
    <3> QED BY <1>7, <3>1
  <2>2. ASSUME NEW i \in 0..b - 1 PROVE <<a, i>> \in {w[p] : p \in DOMAIN w} \ {Zero}
    <3>1. PICK p \in 0..Z - 1 : w[p] = <<a, i>>
      BY <1>6
    <3> QED BY <1>1, <1>5, <3>1
  <2> QED BY <2>1, <2>2
<1> QED BY <1>1, <1>2, <1>8 DEF PaddedTo, Z, b, s

(* The verifier's reading of the block index from the high coordinates finds *)
(* the same block: there are enough of them to spell it.                     *)
LEMMA WeightsAgree ==
  ASSUME NEW n \in Nat, NEW len \in [1..n -> Nat], NEW a, NEW k \in 1..n
  PROVE  BlockWeights(a, len[k], BlockIndices(len)[k], merged_log_msg_len(len)) = Padded(len, a, k)
<1> DEFINE N == merged_log_msg_len(len)
           q == BlockIndices(len)[k]
           b == pow2[len[k]]
           c == pow2[N - len[k]]
<1>1. /\ N \in Nat /\ len[k] \in Nat /\ len[k] <= N
      /\ Block(len, k) \subseteq 0..pow2[N] - 1
  BY BlockInside
<1>2. q \in Nat /\ q * b = Start(len, k) /\ b \in Nat /\ b > 0
  BY BlocksAre, Pow2Is
<1>3. c \in Nat /\ c > 0 /\ pow2[N] = c * b
  <2> HIDE DEF N, q
  <2>1. N - len[k] \in Nat /\ (N - len[k]) + len[k] = N
    BY <1>1
  <2>2. pow2[(N - len[k]) + len[k]] = pow2[N - len[k]] * pow2[len[k]]
    BY <1>1, <2>1, Pow2Sum
  <2> QED BY <2>1, <2>2, Pow2Is
<1>4. q < c
  <2>1. q * b \in Block(len, k)
    <3>1. q * b \in Nat
      BY <1>2
    <3>2. \A x, y \in Nat : y > 0 => x \in x..x + y - 1
      OBVIOUS
    <3> HIDE DEF q, b, c, N
    <3>3. q * b \in q * b..q * b + b - 1
      BY <1>2, <3>1, <3>2
    <3> QED BY <1>2, <3>3 DEF Block, b
  <2>2. q * b < c * b
    <3> HIDE DEF q, b, c, N
    <3>1. q * b \in 0..pow2[N] - 1 /\ c * b \in Nat
      BY <1>1, <1>2, <1>3, <2>1
    <3> QED BY <1>3, <3>1
  <2> HIDE DEF q, b, c, N
  <2>3. ASSUME c <= q PROVE FALSE
    <3>1. \A x, y, z \in Nat : x <= y => x * z <= y * z
      OBVIOUS
    <3>2. c * b <= q * b /\ c * b \in Nat /\ q * b \in Nat
      BY <1>2, <1>3, <2>3, <3>1
    <3> QED BY <2>2, <3>2
  <2> QED BY <1>2, <1>3, <2>3
<1>5. q % c = q
  <2> HIDE DEF q, b, c, N
  <2>1. \A x, y \in Nat : x < y => x % y = x
    BY SMTT(30)
  <2> QED BY <1>2, <1>3, <1>4, <2>1
<1>6. Padded(len, a, k) = [p \in 0..pow2[N] - 1 |->
        IF p \div b = q THEN <<a, p % b>> ELSE Zeros(N)[p]]
  BY DEF Padded, PlaceBlock, Zeros
<1>7. \A p \in 0..pow2[N] - 1 : Zeros(N)[p] = Zero
  BY DEF Zeros
<1>8. BlockWeights(a, len[k], q, N) = [p \in 0..pow2[N] - 1 |->
        IF p \div b = q % c THEN <<a, p % b>> ELSE Zero]
  BY DEF BlockWeights
<1> HIDE DEF q, b, c, N
<1>9. BlockWeights(a, len[k], q, N) = Padded(len, a, k)
  BY <1>5, <1>6, <1>7, <1>8
<1> QED BY <1>9 DEF q, N

(* What oracles come to does not depend on how they are numbered. *)
LEMMA TotalShift ==
  ASSUME NEW n \in Nat, NEW len \in [1..n -> Nat], NEW first \in Nat, NEW other,
         \A j \in 1..n : other[first + j] = len[j]
  PROVE  Total(other, first + 1..first + n) = Total(len, 1..n)
<1> DEFINE S == {m \in 0..n : Total(other, first + 1..first + m) = Total(len, 1..m)}
<1>1. 0 \in S
  <2>1. first + 1..first + 0 = {} /\ 1..0 = {}
    OBVIOUS
  <2> QED BY <2>1, TotalNone
<1>2. ASSUME NEW m \in Nat, m < n, m \in S PROVE m + 1 \in S
  <2>1. PICK x : x = first + (m + 1)
    OBVIOUS
  <2> DEFINE A == first + 1..first + m
             B == 1..m
             L == first + n
  <2>2. /\ A \in SUBSET (1..L) /\ x \in 1..L /\ x \notin A /\ L \in Nat
        /\ first + 1..first + (m + 1) = A \cup {x}
    <3>1. A \in SUBSET (1..L) /\ x \in 1..L /\ x \notin A /\ L \in Nat
      BY <1>2, <2>1
    <3>2. \A i : i \in first + 1..first + (m + 1) <=> i \in first + 1..first + m \/ i = first + (m + 1)
      BY <1>2
    <3> QED BY <2>1, <3>1, <3>2
  <2>3. /\ B \in SUBSET (1..n) /\ m + 1 \in 1..n /\ m + 1 \notin B
        /\ 1..m + 1 = B \cup {m + 1}
    BY <1>2
  <2>4. \A j \in A : other[j] \in Nat
    <3>1. \A j \in A : j - first \in 1..n /\ first + (j - first) = j
      BY <1>2
    <3> QED BY <3>1
  <2>5. other[x] = len[m + 1] /\ len[m + 1] \in Nat /\ \A j \in B : len[j] \in Nat
    BY <2>1, <2>3
  <2> HIDE DEF A, B, L
  <2>6. Total(other, A \cup {x}) = Total(other, A) + pow2[other[x]]
    BY <2>2, <2>4, <2>5, TotalMore, SMTT(60), ZenonT(60)
  <2>7. Total(len, B \cup {m + 1}) = Total(len, B) + pow2[len[m + 1]]
    BY <2>3, <2>5, TotalMore, SMTT(60), ZenonT(60)
  <2>8. Total(other, A) = Total(len, B)
    BY <1>2 DEF A, B
  <2>9. m + 1 \in 0..n
    BY <1>2
  <2> QED BY <2>2, <2>3, <2>5, <2>6, <2>7, <2>8, <2>9
<1> HIDE DEF S
<1>3. \A m \in 0..n : m \in S
  BY <1>1, <1>2, UpwardClosed
<1>4. n \in S
  BY <1>3
<1> QED BY <1>4 DEF S
------------------------------------------------------------------------------
(* What the schedule makes of round g: the oracles in it, where each of them *)
(* lies, the buffer that holds them, and what an opening of one asks for.    *)
Round(sch, g) == End(sch, g - 1) + 1..End(sch, g)

MappingIn(sch, g, k) ==
  [group |-> g, block_index |-> BlockIndices(RoundLens(sch, g))[k - End(sch, g - 1)],
   combined_log_len |-> merged_log_msg_len(RoundLens(sch, g))]

RoundIds(sch, g)    == [j \in DOMAIN RoundLens(sch, g) |-> End(sch, g - 1) + j]
RoundBuffer(sch, g) == Combined(RoundLens(sch, g), RoundIds(sch, g))

OpenOf(sch, g, k) ==
  [op |-> "open", group |-> g, weights |-> Padded(RoundLens(sch, g), k, k - End(sch, g - 1))]

(* The records of the rounds committed are mapped so. *)
Placed(sch, log, records) ==
  \A g \in 1..Times(log, "commit") : \A k \in Round(sch, g) :
    records[k].mapping = MappingIn(sch, g, k)

(* The prover's pending oracles are those it last received, and its groups   *)
(* hold the buffers of their rounds, until they are handed on.               *)
IdsKept(p) == \A j \in 1..Len(p.pending) : p.pending[j].id = Closed(p) + j

BuffersKept(p, sch) ==
  /\ \A g \in 1..Len(p.groups) : p.groups[g].buffer \in {<<>>, <<RoundBuffer(sch, g)>>}
  /\ \A i \in On(p.log, "finalize") : p.log[i].buffer = RoundBuffer(sch, p.log[i].group)

(* The openings the inner channel was asked are those of the script. *)
OpensKept(s, sch, log, i) ==
  /\ Times(log, "open") = Upto(On(s, "open"), i)
  /\ \A n \in 1..Times(log, "open") : \E g \in 1..Times(log, "commit") :
       /\ Entry(s, "open", n).oracle \in Round(sch, g)
       /\ Entry(log, "open", n) = OpenOf(sch, g, Entry(s, "open", n).oracle)

OraclesFirst(s) ==
  \A i \in 1..Len(s) : s[i].op = "open" => s[i].oracle \in 1..Arrived(s, i)
------------------------------------------------------------------------------
(* Everything an inner channel is asked but the buffers it is handed, and    *)
(* where the commitment of round g and the request of operation j come in it.*)
Asked(log)  == DOMAIN log \ On(log, "finalize")
NAsked(log) == Upto(Asked(log), Len(log))
Ask(log, m) == log[Nth(Asked(log), m)]
Common(e)   == IF e.op = "commit" THEN [op |-> "commit", len |-> e.len] ELSE e

CommitAt(s, sch, g) == Nth(On(s, "oracle"), End(sch, g)) - End(sch, g) + g
RequestAt(s, j, d)  == j - Arrived(s, j) + d

Requested(e, s, sch, j) ==
  \/ s[j].op = "sample" /\ e = Sample
  \/ s[j].op = "open" /\ \E g \in 1..Len(sch.ends) : /\ s[j].oracle \in Round(sch, g)
                                                    /\ e = OpenOf(sch, g, s[j].oracle)

(* Operation j is no oracle, and d rounds were over by then. *)
After(s, sch, j, d) == s[j].op # "oracle" /\ End(sch, d) = Arrived(s, j)

CommitsInOrder(s, sch, log) ==
  \A g \in 1..Times(log, "commit") :
    /\ CommitAt(s, sch, g) \in 1..NAsked(log)
    /\ Common(Ask(log, CommitAt(s, sch, g)))
         = [op |-> "commit", len |-> merged_log_msg_len(RoundLens(sch, g))]

RequestsInOrder(s, sch, log, i) ==
  \A j \in 1..i, d \in 0..Times(log, "commit") : After(s, sch, j, d) =>
    /\ RequestAt(s, j, d) \in 1..NAsked(log)
    /\ Requested(Ask(log, RequestAt(s, j, d)), s, sch, j)

NothingElse(s, sch, log, i) ==
  \A m \in 1..NAsked(log) :
    \/ \E g \in 1..Times(log, "commit") : m = CommitAt(s, sch, g)
    \/ \E j \in 1..i, d \in 0..Times(log, "commit") :
         After(s, sch, j, d) /\ m = RequestAt(s, j, d)

InOrder(s, sch, log, i) ==
  /\ NAsked(log) = i - Arrived(s, i) + Times(log, "commit")
  /\ CommitsInOrder(s, sch, log) /\ RequestsInOrder(s, sch, log, i)
  /\ NothingElse(s, sch, log, i)

Laid(s, sch, log, records, i) == Placed(sch, log, records) /\ InOrder(s, sch, log, i)

CommitsBare(log) == \A j \in On(log, "commit") : Common(log[j]) = log[j]

ProverLaid(p, s, sch, i) ==
  /\ IdsKept(p) /\ BuffersKept(p, sch) /\ OpensKept(s, sch, p.log, i)
  /\ Laid(s, sch, p.log, p.records, i) /\ CommitsBare(p.log)

VerifierLaid(v, s, sch, i) ==
  /\ On(v.log, "finalize") = {} /\ v.verdict # "error"
  /\ Laid(s, sch, v.log, v.records, i)

LayoutInv ==
  /\ OraclesFirst(script)
  /\ stage # "verify" => ProverLaid(prover, script, schedule, pos)
  /\ stage = "verify" => ProverLaid(prover, script, schedule, Len(script))
  /\ stage = "verify" /\ tape = Len(schedule.ends) => VerifierLaid(verifier, script, schedule, pos)
------------------------------------------------------------------------------
LEMMA AskedIs ==
  ASSUME NEW log, IsSequence(log)
  PROVE  /\ Asked(log) \subseteq Nat \ {0} /\ NAsked(log) \in Nat
         /\ \A i : i \in Asked(log) <=> i \in 1..Len(log) /\ log[i].op # "finalize"
<1>1. Len(log) \in Nat /\ DOMAIN log = 1..Len(log)
  BY SequenceLen
<1>2. \A i : i \in On(log, "finalize") <=> i \in 1..Len(log) /\ log[i].op = "finalize"
  BY OnPlaces
<1>3. NAsked(log) \in Nat
  BY <1>1, UptoIsCount DEF NAsked
<1> QED BY <1>1, <1>2, <1>3 DEF Asked

(* What is asked stays asked, and a request more is the last. *)
LEMMA AskAppend ==
  ASSUME NEW log, IsSequence(log), NEW e
  PROVE  /\ NAsked(log) \in Nat
         /\ \A m \in 1..NAsked(log) : Ask(Append(log, e), m) = Ask(log, m)
         /\ e.op = "finalize" => NAsked(Append(log, e)) = NAsked(log)
         /\ e.op # "finalize" => /\ NAsked(Append(log, e)) = NAsked(log) + 1
                                 /\ Ask(Append(log, e), NAsked(log) + 1) = e
<1> DEFINE t == Append(log, e)
           n == Len(log)
           S == Asked(log)
           T == Asked(t)
<1>1. /\ n \in Nat /\ IsSequence(t) /\ Len(t) = n + 1
      /\ \A i \in 1..n : t[i] = log[i]
      /\ t[n + 1] = e
  BY SequenceLen, AppendSequence, ZenonT(60)
<1> HIDE DEF t
<1>2. /\ S \subseteq Nat \ {0} /\ NAsked(log) \in Nat
      /\ \A i : i \in S <=> i \in 1..n /\ log[i].op # "finalize"
  BY AskedIs
<1>3. T \subseteq Nat \ {0} /\ \A i : i \in T <=> i \in 1..n + 1 /\ t[i].op # "finalize"
  BY <1>1, AskedIs
<1> HIDE DEF S, T
<1>4. \A i \in 1..n : i \in T <=> i \in S
  BY <1>1, <1>2, <1>3
<1>5. ASSUME NEW i \in 0..n PROVE Upto(T, i) = Upto(S, i)
  <2>1. \A j \in 1..i : j \in 1..n
    BY <1>1
  <2>2. T \cap 1..i = S \cap 1..i
    BY <1>4, <2>1
  <2> QED BY <2>2 DEF Upto
<1>6. NAsked(log) = Upto(S, n) /\ NAsked(t) = Upto(T, n + 1)
  BY <1>1 DEF NAsked, S, T
<1>7. Upto(T, n + 1) = Upto(T, n) + IF n + 1 \in T THEN 1 ELSE 0
  BY <1>1, UptoIsCount, CountNext
<1>8. Upto(T, n) = Upto(S, n)
  BY <1>1, <1>5
<1>9. n + 1 \in T <=> e.op # "finalize"
  BY <1>1, <1>3
<1>10. e.op = "finalize" => NAsked(t) = NAsked(log)
  BY <1>2, <1>6, <1>7, <1>8, <1>9
<1>11. e.op # "finalize" => NAsked(t) = NAsked(log) + 1
  BY <1>2, <1>6, <1>7, <1>8, <1>9
<1>12. ASSUME e.op # "finalize" PROVE Ask(t, NAsked(log) + 1) = e
  <2>1. Upto(T, n + 1) = NAsked(log) + 1 /\ n + 1 \in T
    BY <1>6, <1>9, <1>11, <1>12
  <2>2. Nth(T, NAsked(log) + 1) = n + 1
    BY <1>3, <2>1, NthFound
  <2> QED BY <1>1, <2>2 DEF Ask, T
<1>13. ASSUME NEW m \in 1..NAsked(log) PROVE Ask(t, m) = Ask(log, m)
  <2>1. PICK i \in S \cap 1..n : Upto(S, i) = m
    BY <1>1, <1>6, NthExists
  <2>2. i \in T /\ Upto(T, i) = m /\ i \in S /\ i \in 1..n
    <3>1. i \in 1..n /\ i \in 0..n
      BY <1>1
    <3> QED BY <1>4, <1>5, <2>1, <3>1
  <2>3. Nth(S, m) = i
    BY <1>2, <2>1, <2>2, NthFound
  <2>4. Nth(T, m) = i
    BY <1>3, <2>2, NthFound
  <2> QED BY <1>1, <2>2, <2>3, <2>4 DEF Ask, S, T
<1> QED BY <1>2, <1>10, <1>11, <1>12, <1>13 DEF t

LEMMA AskedNothing == NAsked(<<>>) = 0
<1>1. Len(<<>>) = 0
  BY EmptyIsSequence
<1> QED BY <1>1, NoneCounted DEF NAsked
------------------------------------------------------------------------------
(* The schedule of the script: its rounds end one after another, none empty, *)
(* and each has the lengths of the oracles in it.                            *)
Scheduled(s, sch) ==
  /\ ScriptShape(s) /\ ScheduleShape(sch, Times(s, "oracle"))
  /\ EndsKept(sch, s, TRUE) /\ \E z : SpecsKept(sch, s, z)

LEMMA EndsAre ==
  ASSUME NEW s, NEW sch, Scheduled(s, sch)
  PROVE  /\ Len(sch.ends) \in Nat /\ Times(s, "oracle") \in Nat
         /\ \A g \in 0..Len(sch.ends) : End(sch, g) \in 0..Times(s, "oracle")
         /\ \A g, h \in 0..Len(sch.ends) : g < h => End(sch, g) < End(sch, h)
<1> DEFINE L == Len(sch.ends)
           n == Times(s, "oracle")
<1>1. /\ L \in Nat /\ n \in Nat
      /\ \A r \in 1..L : sch.ends[r] \in 1..n
      /\ \A a, b \in 1..L : a < b => sch.ends[a] < sch.ends[b]
  BY SequenceLen, OnPlaces DEF Scheduled, ScriptShape, ScheduleShape, EndsKept, Increasing
<1> HIDE DEF L, n
<1>2. /\ End(sch, 0) = 0
      /\ \A g \in 1..L : End(sch, g) = sch.ends[g]
  BY <1>1 DEF End
<1>3. ASSUME NEW g \in 0..L PROVE End(sch, g) \in 0..n
  BY <1>1, <1>2
<1>4. ASSUME NEW g \in 0..L, NEW h \in 0..L, g < h PROVE End(sch, g) < End(sch, h)
  <2>1. h \in 1..L
    BY <1>1, <1>4
  <2>2. CASE g = 0
    BY <1>1, <1>2, <2>1, <2>2
  <2>3. CASE g # 0
    <3>1. g \in 1..L
      BY <1>1, <2>3
    <3> QED BY <1>1, <1>2, <1>4, <2>1, <3>1
  <2> QED BY <2>2, <2>3
<1> QED BY <1>1, <1>3, <1>4 DEF L, n

LEMMA RoundsApart ==
  ASSUME NEW s, NEW sch, Scheduled(s, sch), NEW g \in 1..Len(sch.ends), NEW h \in 1..Len(sch.ends),
         NEW k, k \in Round(sch, g), k \in Round(sch, h)
  PROVE  g = h
<1> DEFINE L == Len(sch.ends)
           n == Times(s, "oracle")
<1>1. /\ L \in Nat /\ n \in Nat
      /\ \A a \in 0..L : End(sch, a) \in 0..n
      /\ \A a, b \in 0..L : a < b => End(sch, a) < End(sch, b)
  BY EndsAre
<1>2. /\ g - 1 \in 0..L /\ h - 1 \in 0..L /\ g \in 0..L /\ h \in 0..L
      /\ g \in Nat /\ h \in Nat
  BY <1>1
<1> HIDE DEF L, n
<1>3. /\ End(sch, g - 1) < k /\ k <= End(sch, g) /\ k \in Int
      /\ End(sch, h - 1) < k /\ k <= End(sch, h)
  BY <1>1, <1>2 DEF Round
<1>4. ASSUME NEW a \in Nat, NEW b \in Nat, a \in 0..L, b - 1 \in 0..L, a < b,
             k <= End(sch, a), End(sch, b - 1) < k
      PROVE  FALSE
  <2>1. a = b - 1 \/ a < b - 1
    BY <1>4
  <2>2. End(sch, a) <= End(sch, b - 1)
    BY <1>1, <1>4, <2>1
  <2> QED BY <1>1, <1>3, <1>4, <2>2
<1>5. ~(g < h)
  BY <1>2, <1>3, <1>4
<1>6. ~(h < g)
  BY <1>2, <1>3, <1>4
<1> QED BY <1>2, <1>5, <1>6

LEMMA RoundLensAre ==
  ASSUME NEW s, NEW sch, Scheduled(s, sch), NEW g \in 1..Len(sch.ends)
  PROVE  LET first == End(sch, g - 1)
             n == End(sch, g) - first
         IN  /\ first \in Nat /\ n \in Nat \ {0} /\ End(sch, g) = first + n
             /\ RoundLens(sch, g) \in [1..n -> Nat]
             /\ \A j \in 1..n : RoundLens(sch, g)[j] = Entry(s, "oracle", first + j).len
<1> DEFINE first == End(sch, g - 1)
           last == End(sch, g)
           n == last - first
           all == Times(s, "oracle")
           records == [k \in 1..last |-> [len |-> Entry(s, "oracle", k).len]]
<1>1. /\ Len(sch.ends) \in Nat /\ all \in Nat /\ g \in 0..Len(sch.ends) /\ g - 1 \in 0..Len(sch.ends)
      /\ g - 1 < g /\ g - 1 \in Nat /\ (g - 1) + 1 = g
  BY EndsAre
<1>2. first \in 0..all /\ last \in 0..all /\ first < last
  BY <1>1, EndsAre
<1>3. last = sch.ends[g]
  BY <1>1 DEF End
<1>4. PICK z : SpecsKept(sch, s, z)
  BY DEF Scheduled
<1> HIDE DEF first, last, all
<1>5. n \in Nat \ {0} /\ last = first + n /\ last \in Nat /\ first \in Nat
  BY <1>1, <1>2
<1>6. /\ Len(records) = last
      /\ \A k \in 1..last : records[k].len = Entry(s, "oracle", k).len
  BY <1>5
<1> HIDE DEF records
<1>7. LensKept(s, records)
  BY <1>6 DEF LensKept
<1>8. RoundLens(sch, g) = OpenPart(records, first)
  <2>1. ScheduleShape(sch, Times(s, "oracle"))
    BY DEF Scheduled
  <2>2. first \in 0..Len(records)
    BY <1>2, <1>5, <1>6
  <2> QED BY <1>1, <1>3, <1>4, <1>6, <1>7, <2>1, <2>2, OpenRound DEF first
<1>9. OpenPart(records, first) = [j \in 1..n |-> records[first + j].len]
  BY <1>6 DEF OpenPart
<1>10. ASSUME NEW j \in 1..n
       PROVE  /\ RoundLens(sch, g)[j] = Entry(s, "oracle", first + j).len
              /\ RoundLens(sch, g)[j] \in Nat
  <2>1. first + j \in 1..last /\ first + j \in 1..all
    BY <1>1, <1>2, <1>5
  <2>2. RoundLens(sch, g)[j] = Entry(s, "oracle", first + j).len
    BY <1>6, <1>8, <1>9, <2>1
  <2>3. PICK i \in On(s, "oracle") \cap 1..Len(s) : Upto(On(s, "oracle"), i) = first + j
    <3>1. Len(s) \in Nat
      BY SequenceLen DEF Scheduled, ScriptShape
    <3>2. first + j \in 1..Upto(On(s, "oracle"), Len(s))
      BY <2>1 DEF all, Times
    <3> QED BY <3>1, <3>2, NthExists
  <2>4. /\ On(s, "oracle") \subseteq Nat \ {0}
        /\ i \in 1..Len(s) /\ s[i].op = "oracle"
    BY <2>3, OnPlaces DEF Scheduled, ScriptShape
  <2>5. Entry(s, "oracle", first + j) = s[i]
    BY <2>3, <2>4, NthFound DEF Entry
  <2>6. s[i].len \in Nat
    BY <2>4, MergeAssumption DEF Scheduled, ScriptShape
  <2> QED BY <2>2, <2>5, <2>6
<1>11. RoundLens(sch, g) \in [1..n -> Nat]
  <2>1. RoundLens(sch, g) = [j \in 1..n |-> RoundLens(sch, g)[j]]
    BY <1>8, <1>9
  <2> QED BY <1>10, <2>1
<1> QED BY <1>5, <1>10, <1>11 DEF first, last
------------------------------------------------------------------------------
(* What either side does keeps its records placed and its requests in order. *)
LEMMA InClosed ==
  ASSUME NEW s, NEW sch, Scheduled(s, sch), NEW c \in 0..Len(sch.ends), NEW g \in 1..c,
         NEW k \in Round(sch, g)
  PROVE  k \in 1..End(sch, c)
<1> DEFINE L == Len(sch.ends)
           n == Times(s, "oracle")
<1>1. /\ L \in Nat /\ n \in Nat
      /\ \A a \in 0..L : End(sch, a) \in 0..n
      /\ \A a, b \in 0..L : a < b => End(sch, a) < End(sch, b)
  BY EndsAre
<1>2. g \in 0..L /\ g - 1 \in 0..L /\ (g = c \/ g < c)
  BY <1>1
<1> HIDE DEF L, n
<1>3. End(sch, g) <= End(sch, c)
  <2>1. CASE g = c
    BY <1>1, <1>2, <2>1 DEF L
  <2>2. CASE g < c
    BY <1>1, <1>2, <2>2 DEF L
  <2> QED BY <1>2, <2>1, <2>2
<1>4. End(sch, g) \in Nat /\ End(sch, g - 1) \in Nat /\ End(sch, c) \in Nat
  BY <1>1, <1>2 DEF L
<1> QED BY <1>3, <1>4 DEF Round

LEMMA LaidAtFirst ==
  ASSUME NEW s, NEW sch
  PROVE  Laid(s, sch, <<>>, <<>>, 0)
<1>1. Times(<<>>, "commit") = 0 /\ NAsked(<<>>) = 0 /\ Arrived(s, 0) = 0 /\ 1..0 = {}
  <2>1. Len(<<>>) = 0
    BY EmptyIsSequence
  <2> QED BY <2>1, NoneCounted, AskedNothing DEF Times, Arrived
<1> QED BY <1>1 DEF Laid, Placed, InOrder, CommitsInOrder, RequestsInOrder, NothingElse

LEMMA LaidOracle ==
  ASSUME NEW s, NEW sch, Scheduled(s, sch),
         NEW log, NEW records, NEW closed, NEW i, Kept(s, log, records, closed, i),
         Follows(s, sch, log, records, closed), Laid(s, sch, log, records, i),
         i < Len(s), s[i + 1].op = "oracle", NEW r
  PROVE  Laid(s, sch, log, Append(records, r), i + 1)
<1> DEFINE c == Times(log, "commit")
<1>1. /\ IsSequence(s) /\ IsSequence(log) /\ IsSequence(records) /\ i \in Nat
      /\ closed \in 0..Len(records) /\ c \in 0..Len(sch.ends) /\ closed = End(sch, c)
      /\ Arrived(s, i) \in Nat /\ Len(records) \in Nat
  BY UptoIsCount, SequenceLen DEF Kept, Follows, Scheduled, ScriptShape, Arrived
<1>2. Arrived(s, i + 1) = Arrived(s, i) + 1
  BY <1>1, UptoNext DEF Arrived
<1> HIDE DEF c
<1>3. Placed(sch, log, Append(records, r))
  <2>1. ASSUME NEW g \in 1..c, NEW k \in Round(sch, g)
        PROVE  Append(records, r)[k].mapping = MappingIn(sch, g, k)
    <3>1. k \in 1..closed
      BY <1>1, InClosed
    <3>2. k \in 1..Len(records)
      BY <1>1, <3>1
    <3>3. Append(records, r)[k] = records[k]
      BY <1>1, <3>2, AppendSequence
    <3> QED BY <3>3 DEF Laid, Placed, c
  <2> QED BY <2>1 DEF Placed, c
<1>4. \A d : ~After(s, sch, i + 1, d)
  BY DEF After
<1>5. NAsked(log) = (i + 1) - Arrived(s, i + 1) + c
  BY <1>1, <1>2 DEF Laid, InOrder, c
<1>6. \A j \in 1..i + 1 : j \in 1..i \/ j = i + 1
  BY <1>1
<1>7. \A j \in 1..i : j \in 1..i + 1
  BY <1>1
<1>8. RequestsInOrder(s, sch, log, i + 1)
  BY <1>4, <1>6 DEF Laid, InOrder, RequestsInOrder
<1>9. NothingElse(s, sch, log, i + 1)
  <2>1. NothingElse(s, sch, log, i)
    BY DEF Laid, InOrder
  <2> QED BY <1>7, <2>1 DEF NothingElse
<1>10. CommitsInOrder(s, sch, log)
  BY DEF Laid, InOrder
<1>11. InOrder(s, sch, log, i + 1)
  <2>1. PICK n : n = i + 1
    OBVIOUS
  <2>2. NAsked(log) = n - Arrived(s, n) + Times(log, "commit")
    BY <1>5, <2>1 DEF c
  <2>3. RequestsInOrder(s, sch, log, n) /\ NothingElse(s, sch, log, n)
    BY <1>8, <1>9, <2>1
  <2>4. InOrder(s, sch, log, n)
    BY <1>10, <2>2, <2>3 DEF InOrder
  <2> QED BY <2>1, <2>4
<1> QED BY <1>3, <1>11 DEF Laid

(* A request made once every oracle received is committed. *)
LEMMA LaidRequest ==
  ASSUME NEW s, NEW sch, Scheduled(s, sch),
         NEW log, NEW records, NEW i, Kept(s, log, records, Len(records), i),
         Follows(s, sch, log, records, Len(records)), Laid(s, sch, log, records, i),
         i < Len(s), s[i + 1].op # "oracle",
         NEW e, Requested(e, s, sch, i + 1), e.op \notin {"commit", "finalize"}
  PROVE  Laid(s, sch, Append(log, e), records, i + 1)
<1> DEFINE c == Times(log, "commit")
           t == Append(log, e)
<1>1. /\ IsSequence(s) /\ IsSequence(log) /\ i \in Nat
      /\ c \in 0..Len(sch.ends) /\ Arrived(s, i) = End(sch, c) /\ Arrived(s, i) \in Nat
      /\ Len(sch.ends) \in Nat
  BY UptoIsCount, EndsAre DEF Kept, Follows, Scheduled, ScriptShape, Arrived
<1>2. Arrived(s, i + 1) = Arrived(s, i)
  BY <1>1, UptoNext DEF Arrived
<1>3. Times(t, "commit") = c
  BY <1>1, OnAppend
<1>4. /\ NAsked(log) \in Nat /\ NAsked(t) = NAsked(log) + 1 /\ Ask(t, NAsked(log) + 1) = e
      /\ \A m \in 1..NAsked(log) : Ask(t, m) = Ask(log, m)
  BY <1>1, AskAppend
<1> HIDE DEF c, t
<1>5. /\ NAsked(log) = i - Arrived(s, i) + c /\ CommitsInOrder(s, sch, log)
      /\ RequestsInOrder(s, sch, log, i) /\ NothingElse(s, sch, log, i)
  BY DEF Laid, InOrder, c
<1>6. NAsked(t) = (i + 1) - Arrived(s, i + 1) + c
  BY <1>1, <1>2, <1>4, <1>5
<1>7. \A m \in 1..NAsked(log) : m \in 1..NAsked(t)
  BY <1>4
<1>8. CommitsInOrder(s, sch, t)
  BY <1>3, <1>4, <1>5, <1>7 DEF CommitsInOrder, c
<1>9. RequestAt(s, i + 1, c) = (i + 1) - Arrived(s, i + 1) + c
  BY DEF RequestAt
<1>10. RequestAt(s, i + 1, c) = NAsked(log) + 1 /\ After(s, sch, i + 1, c)
  BY <1>1, <1>2, <1>5, <1>9 DEF After
<1>11. ASSUME NEW d \in 0..c, End(sch, d) = Arrived(s, i + 1) PROVE d = c
  <2>1. d \in 0..Len(sch.ends) /\ (d < c => End(sch, d) < End(sch, c)) /\ (d < c \/ d = c)
    BY <1>1, EndsAre
  <2>2. End(sch, c) \in Nat
    BY <1>1
  <2> QED BY <1>1, <1>2, <1>11, <2>1, <2>2
<1>12. \A j \in 1..i + 1 : j \in 1..i \/ j = i + 1
  BY <1>1
<1>13. RequestsInOrder(s, sch, t, i + 1)
  <2>1. ASSUME NEW j \in 1..i + 1, NEW d \in 0..c, After(s, sch, j, d)
        PROVE  /\ RequestAt(s, j, d) \in 1..NAsked(t)
               /\ Requested(Ask(t, RequestAt(s, j, d)), s, sch, j)
    <3>1. CASE j \in 1..i
      BY <1>4, <1>5, <1>7, <2>1, <3>1 DEF RequestsInOrder, c
    <3>2. CASE j = i + 1
      <4>1. d = c
        BY <1>11, <2>1, <3>2 DEF After
      <4>2. NAsked(log) + 1 \in 1..NAsked(t)
        BY <1>4
      <4> QED BY <1>4, <1>10, <3>2, <4>1, <4>2
    <3> QED BY <1>12, <3>1, <3>2
  <2> QED BY <1>3, <2>1 DEF RequestsInOrder
<1>14. NothingElse(s, sch, t, i + 1)
  <2>1. ASSUME NEW m \in 1..NAsked(t)
        PROVE  \/ \E g \in 1..c : m = CommitAt(s, sch, g)
               \/ \E j \in 1..i + 1, d \in 0..c : After(s, sch, j, d) /\ m = RequestAt(s, j, d)
    <3>1. CASE m \in 1..NAsked(log)
      <4>1. \A j \in 1..i : j \in 1..i + 1
        BY <1>1
      <4> QED BY <1>5, <3>1, <4>1 DEF NothingElse, c
    <3>2. CASE m \notin 1..NAsked(log)
      <4>1. m = NAsked(log) + 1
        BY <1>4, <3>2
      <4>2. i + 1 \in 1..i + 1 /\ c \in 0..c
        BY <1>1
      <4> QED BY <1>10, <4>1, <4>2
    <3> QED BY <3>1, <3>2
  <2> QED BY <1>3, <2>1 DEF NothingElse
<1>15. InOrder(s, sch, t, i + 1)
  <2>1. PICK n : n = i + 1
    OBVIOUS
  <2>2. NAsked(t) = n - Arrived(s, n) + Times(t, "commit")
    BY <1>3, <1>6, <2>1
  <2>3. RequestsInOrder(s, sch, t, n) /\ NothingElse(s, sch, t, n)
    BY <1>13, <1>14, <2>1
  <2>4. InOrder(s, sch, t, n)
    BY <1>8, <2>2, <2>3 DEF InOrder
  <2> QED BY <2>1, <2>4
<1>16. Placed(sch, t, records)
  BY <1>3 DEF Laid, Placed, c
<1> QED BY <1>15, <1>16 DEF Laid, t

(* Handing a buffer on asks for nothing. *)
LEMMA LaidFinalize ==
  ASSUME NEW s, NEW sch, NEW log, IsSequence(log), NEW records, NEW i,
         Laid(s, sch, log, records, i), NEW e, e.op = "finalize"
  PROVE  Laid(s, sch, Append(log, e), records, i)
<1> DEFINE t == Append(log, e)
<1>1. Times(t, "commit") = Times(log, "commit")
  BY OnAppend
<1>2. NAsked(t) = NAsked(log) /\ \A m \in 1..NAsked(log) : Ask(t, m) = Ask(log, m)
  BY AskAppend
<1> HIDE DEF t
<1>3. Placed(sch, t, records)
  BY <1>1 DEF Laid, Placed
<1>4. CommitsInOrder(s, sch, t)
  BY <1>1, <1>2 DEF Laid, InOrder, CommitsInOrder
<1>5. RequestsInOrder(s, sch, t, i)
  BY <1>1, <1>2 DEF Laid, InOrder, RequestsInOrder
<1>6. NothingElse(s, sch, t, i)
  BY <1>1, <1>2 DEF Laid, InOrder, NothingElse
<1>7. NAsked(t) = i - Arrived(s, i) + Times(t, "commit")
  BY <1>1, <1>2 DEF Laid, InOrder
<1> QED BY <1>3, <1>4, <1>5, <1>6, <1>7 DEF Laid, InOrder, t

(* The round a flush closes is the next of the schedule, and its last oracle *)
(* is the operation run last.                                                *)
LEMMA NextRound ==
  ASSUME NEW s, NEW sch, Scheduled(s, sch),
         NEW log, NEW records, NEW closed, NEW i, Kept(s, log, records, closed, i),
         Follows(s, sch, log, records, closed), Behind(s, closed, i),
         closed < Len(records), Ended(sch, Arrived(s, i))
  PROVE  LET g == Times(log, "commit") + 1 IN
         /\ g \in 1..Len(sch.ends) /\ End(sch, g - 1) = closed
         /\ End(sch, g) = Len(records) /\ End(sch, g) = Arrived(s, i)
         /\ RoundLens(sch, g) = OpenPart(records, closed)
         /\ CommitAt(s, sch, g) = i - Arrived(s, i) + g
<1> DEFINE c == Times(log, "commit")
           n == Len(records)
<1>1. /\ IsSequence(s) /\ i \in 0..Len(s) /\ n = Arrived(s, i) /\ c \in 0..Len(sch.ends)
      /\ closed = End(sch, c) /\ closed \in 0..n /\ n \in Nat /\ LensKept(s, records)
      /\ ScheduleShape(sch, Times(s, "oracle")) /\ EndsKept(sch, s, TRUE) /\ Len(sch.ends) \in Nat
      /\ Len(s) \in Nat
  BY UptoIsCount, SequenceLen, EndsAre DEF Kept, Follows, Scheduled, ScriptShape, Arrived
<1>2. c + 1 \in 1..Len(sch.ends) /\ sch.ends[c + 1] = n
  BY <1>1, NextEnd
<1>3. End(sch, c + 1) = n /\ c + 1 # 0
  BY <1>1, <1>2 DEF End
<1> HIDE DEF c, n
<1>4. (c + 1) - 1 = c /\ c \in Nat
  BY <1>1
<1>5. RoundLens(sch, c + 1) = OpenPart(records, closed)
  <2>1. PICK z : SpecsKept(sch, s, z)
    BY DEF Scheduled
  <2> QED BY <1>1, <1>2, <1>4, <2>1, OpenRound DEF n
<1>6. i \in 1..Len(s)
  <2>1. Arrived(s, 0) = 0
    BY NoneCounted DEF Arrived
  <2>2. i # 0
    BY <1>1, <2>1 DEF n
  <2> QED BY <1>1, <2>2
<1>7. s[i].op = "oracle"
  <2>1. i \in 1..i
    BY <1>6
  <2>2. Arrived(s, i) > closed /\ Arrived(s, i) \in Nat /\ closed \in Nat
    BY <1>1 DEF n
  <2> QED BY <2>1, <2>2 DEF Behind
<1>8. i \in On(s, "oracle") /\ On(s, "oracle") \subseteq Nat \ {0}
  BY <1>1, <1>6, <1>7, OnPlaces
<1>9. Nth(On(s, "oracle"), n) = i
  BY <1>1, <1>8, NthFound DEF Arrived
<1>10. CommitAt(s, sch, c + 1) = i - n + (c + 1)
  BY <1>3, <1>9 DEF CommitAt
<1>11. n = Arrived(s, i) /\ n = Len(records)
  BY <1>1 DEF n
<1> QED BY <1>1, <1>2, <1>3, <1>4, <1>5, <1>10, <1>11 DEF c

Mapped(sch, records, recs, closed, g) ==
  /\ \A k \in 1..closed : recs[k] = records[k]
  /\ \A k \in closed + 1..Len(records) : recs[k].mapping = MappingIn(sch, g, k)

LEMMA LaidCommit ==
  ASSUME NEW s, NEW sch, Scheduled(s, sch),
         NEW log, NEW records, NEW closed, NEW i, Kept(s, log, records, closed, i),
         Follows(s, sch, log, records, closed), Behind(s, closed, i),
         Laid(s, sch, log, records, i),
         closed < Len(records), Ended(sch, Arrived(s, i)),
         NEW g, g = Times(log, "commit") + 1,
         NEW recs, Mapped(sch, records, recs, closed, g),
         NEW e, e.op = "commit",
         Common(e) = [op |-> "commit", len |-> merged_log_msg_len(RoundLens(sch, g))]
  PROVE  Laid(s, sch, Append(log, e), recs, i)
<1> DEFINE c == Times(log, "commit")
           t == Append(log, e)
<1>1. /\ IsSequence(s) /\ IsSequence(log) /\ i \in Nat /\ i \in 0..Len(s)
      /\ c \in 0..Len(sch.ends) /\ closed = End(sch, c)
      /\ Arrived(s, i) \in Nat /\ Len(sch.ends) \in Nat /\ closed \in Nat
      /\ closed < Arrived(s, i)
  BY UptoIsCount, EndsAre, SequenceLen DEF Kept, Follows, Scheduled, ScriptShape, Arrived
<1>2. /\ g \in 1..Len(sch.ends) /\ End(sch, g - 1) = closed
      /\ End(sch, g) = Len(records) /\ End(sch, g) = Arrived(s, i)
      /\ CommitAt(s, sch, g) = i - Arrived(s, i) + g
  BY NextRound
<1>3. Times(t, "commit") = g
  BY <1>1, OnAppend
<1>4. /\ NAsked(log) \in Nat /\ NAsked(t) = NAsked(log) + 1 /\ Ask(t, NAsked(log) + 1) = e
      /\ \A m \in 1..NAsked(log) : Ask(t, m) = Ask(log, m)
  BY <1>1, AskAppend
<1>5. g = c + 1 /\ c \in Nat
  BY <1>1
<1> HIDE DEF c, t
<1>6. /\ NAsked(log) = i - Arrived(s, i) + c /\ CommitsInOrder(s, sch, log)
      /\ RequestsInOrder(s, sch, log, i) /\ NothingElse(s, sch, log, i)
  BY DEF Laid, InOrder, c
<1>7. NAsked(t) = i - Arrived(s, i) + g /\ CommitAt(s, sch, g) = NAsked(log) + 1
  BY <1>1, <1>2, <1>4, <1>5, <1>6
<1>8. \A m \in 1..NAsked(log) : m \in 1..NAsked(t)
  BY <1>4
<1>9. NAsked(log) + 1 \in 1..NAsked(t)
  BY <1>4
<1>10. \A h \in 1..g : h \in 1..c \/ h = g
  BY <1>5
<1>11. Placed(sch, t, recs)
  <2>1. ASSUME NEW h \in 1..g, NEW k \in Round(sch, h)
        PROVE  recs[k].mapping = MappingIn(sch, h, k)
    <3>1. CASE h \in 1..c
      <4>1. k \in 1..closed
        BY <1>1, <3>1, InClosed
      <4> QED BY <3>1, <4>1 DEF Laid, Placed, Mapped, c
    <3>2. CASE h = g
      <4>1. k \in closed + 1..Len(records)
        BY <1>2, <3>2 DEF Round
      <4> QED BY <3>2, <4>1 DEF Mapped
    <3> QED BY <1>10, <3>1, <3>2
  <2> QED BY <1>3, <2>1 DEF Placed
<1>12. CommitsInOrder(s, sch, t)
  <2>1. ASSUME NEW h \in 1..g
        PROVE  /\ CommitAt(s, sch, h) \in 1..NAsked(t)
               /\ Common(Ask(t, CommitAt(s, sch, h)))
                    = [op |-> "commit", len |-> merged_log_msg_len(RoundLens(sch, h))]
    <3>1. CASE h \in 1..c
      BY <1>4, <1>6, <1>8, <3>1 DEF CommitsInOrder, c
    <3>2. CASE h = g
      BY <1>4, <1>7, <1>9, <3>2
    <3> QED BY <1>10, <3>1, <3>2
  <2> QED BY <1>3, <2>1 DEF CommitsInOrder
<1>13. ASSUME NEW j \in 1..i PROVE ~After(s, sch, j, g)
  <2>1. s[j].op # "oracle" => Arrived(s, j) <= closed
    BY DEF Behind
  <2>2. Arrived(s, j) \in Nat
    BY <1>1, UptoIsCount DEF Arrived
  <2> QED BY <1>1, <1>2, <2>1, <2>2 DEF After
<1>14. \A d \in 0..g : d \in 0..c \/ d = g
  BY <1>5
<1>15. RequestsInOrder(s, sch, t, i)
  <2>1. ASSUME NEW j \in 1..i, NEW d \in 0..g, After(s, sch, j, d)
        PROVE  /\ RequestAt(s, j, d) \in 1..NAsked(t)
               /\ Requested(Ask(t, RequestAt(s, j, d)), s, sch, j)
    <3>1. d \in 0..c
      BY <1>13, <1>14, <2>1
    <3> QED BY <1>4, <1>6, <1>8, <2>1, <3>1 DEF RequestsInOrder, c
  <2> QED BY <1>3, <2>1 DEF RequestsInOrder
<1>16. NothingElse(s, sch, t, i)
  <2>1. ASSUME NEW m \in 1..NAsked(t)
        PROVE  \/ \E h \in 1..g : m = CommitAt(s, sch, h)
               \/ \E j \in 1..i, d \in 0..g : After(s, sch, j, d) /\ m = RequestAt(s, j, d)
    <3>1. CASE m \in 1..NAsked(log)
      <4>1. (\A h \in 1..c : h \in 1..g) /\ (\A d \in 0..c : d \in 0..g)
        BY <1>5
      <4> QED BY <1>6, <3>1, <4>1 DEF NothingElse, c
    <3>2. CASE m \notin 1..NAsked(log)
      <4>1. m = NAsked(log) + 1
        BY <1>4, <3>2
      <4>2. g \in 1..g
        BY <1>5
      <4> QED BY <1>7, <4>1, <4>2
    <3> QED BY <3>1, <3>2
  <2> QED BY <1>3, <2>1 DEF NothingElse
<1>17. InOrder(s, sch, t, i)
  BY <1>3, <1>7, <1>12, <1>15, <1>16 DEF InOrder
<1> QED BY <1>11, <1>17 DEF Laid, t
------------------------------------------------------------------------------
(* The prover *)
OldOrNew(log, e, op, j) ==
  \/ j \in On(log, op) /\ Append(log, e)[j] = log[j]
  \/ e.op = op /\ Append(log, e)[j] = e

LEMMA OnEither ==
  ASSUME NEW log, IsSequence(log), NEW e, NEW op, NEW j \in On(Append(log, e), op)
  PROVE  OldOrNew(log, e, op, j)
<1> DEFINE t == Append(log, e)
<1>1. /\ Len(log) \in Nat /\ IsSequence(t) /\ Len(t) = Len(log) + 1
      /\ \A i \in 1..Len(log) : t[i] = log[i]
      /\ t[Len(log) + 1] = e
  <2>1. Len(log) \in Nat
    BY SequenceLen
  <2>2. /\ IsSequence(t) /\ Len(t) = Len(log) + 1
        /\ \A i \in 1..Len(log) : t[i] = log[i]
        /\ t[Len(log) + 1] = e
    BY AppendSequence, ZenonT(60)
  <2> QED BY <2>1, <2>2
<1> HIDE DEF t
<1>2. j \in 1..Len(t) /\ t[j].op = op
  <2>1. j \in On(t, op)
    BY DEF t
  <2> QED BY <1>1, <2>1, OnPlaces
<1>3. CASE j = Len(log) + 1
  BY <1>1, <1>2, <1>3 DEF t, OldOrNew
<1>4. CASE j # Len(log) + 1
  <2>1. j \in 1..Len(log)
    BY <1>1, <1>2, <1>4
  <2>2. j \in On(log, op)
    BY <1>1, <1>2, <2>1, OnPlaces
  <2> QED BY <1>1, <2>1, <2>2 DEF t, OldOrNew
<1> QED BY <1>3, <1>4

FlushedTo(p, q, len, of) ==
  /\ q.pending = <<>> /\ q.log = Append(p.log, [op |-> "commit", len |-> merged_log_msg_len(len)])
  /\ q.groups = Append(p.groups, [buffer |-> <<Combined(len, of)>>,
                                  n_members |-> Len(p.pending), n_finalized |-> 0])
  /\ \A k \in 1..Closed(p) : q.records[k] = p.records[k]
  /\ \A k \in Closed(p) + 1..Len(p.records) :
       q.records[k].mapping = [group |-> Len(p.groups) + 1,
                               block_index |-> BlockIndices(len)[k - Closed(p)],
                               combined_log_len |-> merged_log_msg_len(len)]

LEMMA FlushProverIs ==
  ASSUME NEW p, ProverShape(p), p.pending # <<>>,
         NEW len, len = [k \in DOMAIN p.pending |-> p.pending[k].len],
         NEW of, of = [k \in DOMAIN p.pending |-> p.pending[k].id]
  PROVE  FlushedTo(p, FlushProver(p), len, of)
<1> DEFINE first == Closed(p)
           n == Len(p.records)
           N == merged_log_msg_len(len)
           g == Len(p.groups) + 1
           c == Combined(len, of)
           mapping(i) == [group |-> g, block_index |-> BlockIndices(len)[i - first],
                          combined_log_len |-> N]
           recs == [i \in DOMAIN p.records |->
              IF i > first THEN [p.records[i] EXCEPT !.mapping = mapping(i)] ELSE p.records[i]]
           q == FlushProver(p)
<1>1. /\ n \in Nat /\ DOMAIN p.records = 1..n /\ first \in 0..n
  BY SequenceLen DEF ProverShape, Closed
<1>2. q = [pending |-> <<>>, records |-> recs,
           groups |-> Append(p.groups, [buffer |-> <<c>>, n_members |-> Len(p.pending),
                                        n_finalized |-> 0]),
           log |-> Append(p.log, [op |-> "commit", len |-> N])]
  BY DEF FlushProver, Closed
<1> HIDE DEF N, c, q, mapping
<1>3. ASSUME NEW k \in 1..n
      PROVE  /\ k <= first => recs[k] = p.records[k]
             /\ k > first => recs[k] = [p.records[k] EXCEPT !.mapping = mapping(k)]
  BY <1>1
<1> HIDE DEF recs
<1>4. ASSUME NEW k \in first + 1..n PROVE recs[k].mapping = mapping(k)
  <2>1. k \in 1..n /\ k > first
    BY <1>1
  <2>2. PICK m, old : m = mapping(k) /\ old = p.records[k]
    OBVIOUS
  <2>3. old \in [len : Lens, mapping : {old.mapping}]
    BY <2>1, <2>2 DEF ProverShape
  <2>4. recs[k] = [old EXCEPT !.mapping = m]
    BY <1>3, <2>1, <2>2
  <2>5. recs[k].mapping = m
    BY <2>3, <2>4
  <2> QED BY <2>2, <2>5
<1>5. ASSUME NEW k \in 1..first PROVE recs[k] = p.records[k]
  <2>1. k \in 1..n /\ k <= first
    BY <1>1
  <2> QED BY <1>3, <2>1
<1>6. /\ q.records = recs /\ q.pending = <<>> /\ q.log = Append(p.log, [op |-> "commit", len |-> N])
      /\ q.groups = Append(p.groups, [buffer |-> <<c>>, n_members |-> Len(p.pending),
                                      n_finalized |-> 0])
  BY <1>2
<1> QED BY <1>4, <1>5, <1>6 DEF FlushedTo, q, N, c, mapping

LEMMA OpensStay ==
  ASSUME NEW s, NEW sch, NEW log, IsSequence(log), NEW i, OpensKept(s, sch, log, i),
         NEW e, e.op # "open"
  PROVE  OpensKept(s, sch, Append(log, e), i)
<1> DEFINE t == Append(log, e)
           m == Times(log, "open")
           c == Times(log, "commit")
<1>1. Times(t, "open") = m
  BY OnAppend
<1>2. \A n \in 1..m : Entry(t, "open", n) = Entry(log, "open", n)
  BY EntryStays
<1>3. \A g \in 1..c : g \in 1..Times(t, "commit")
  <2>1. (Times(t, "commit") = c \/ Times(t, "commit") = c + 1) /\ c \in Nat
    BY OnAppend, OnPlaces
  <2> HIDE DEF t, c
  <2> QED BY <2>1
<1> HIDE DEF t, m, c
<1> QED BY <1>1, <1>2, <1>3 DEF OpensKept, t, m, c

LEMMA OpensIdle ==
  ASSUME NEW s, IsSequence(s), NEW sch, NEW log, NEW i \in Nat, OpensKept(s, sch, log, i),
         i < Len(s), s[i + 1].op # "open"
  PROVE  OpensKept(s, sch, log, i + 1)
<1>1. Upto(On(s, "open"), i + 1) = Upto(On(s, "open"), i)
  BY UptoNext
<1> QED BY <1>1 DEF OpensKept

LEMMA OpensMore ==
  ASSUME NEW s, IsSequence(s), NEW sch, NEW log, IsSequence(log), NEW i \in Nat,
         OpensKept(s, sch, log, i), i < Len(s), s[i + 1].op = "open",
         NEW g \in 1..Times(log, "commit"), NEW k, k = s[i + 1].oracle, k \in Round(sch, g),
         NEW e, e = OpenOf(sch, g, k)
  PROVE  OpensKept(s, sch, Append(log, e), i + 1)
<1> DEFINE t == Append(log, e)
           m == Times(log, "open")
           c == Times(log, "commit")
<1>1. e.op = "open"
  BY DEF OpenOf
<1>2. Times(t, "open") = m + 1 /\ Times(t, "commit") = c /\ m \in Nat
  BY <1>1, OnAppend, OnPlaces
<1>3. \A n \in 1..m : Entry(t, "open", n) = Entry(log, "open", n)
  BY EntryStays
<1>4. Entry(t, "open", m + 1) = e
  BY <1>1, EntryNew
<1>5. Upto(On(s, "open"), i + 1) = Upto(On(s, "open"), i) + 1 /\ Upto(On(s, "open"), i) = m
  BY UptoNext DEF OpensKept
<1>6. Entry(s, "open", m + 1) = s[i + 1]
  BY <1>5, EntryAt
<1> HIDE DEF t, m, c
<1>7. ASSUME NEW n \in 1..m + 1
      PROVE  \E h \in 1..c : /\ Entry(s, "open", n).oracle \in Round(sch, h)
                             /\ Entry(t, "open", n) = OpenOf(sch, h, Entry(s, "open", n).oracle)
  <2>1. CASE n = m + 1
    BY <1>4, <1>6, <2>1 DEF c
  <2>2. CASE n # m + 1
    <3>1. n \in 1..m
      BY <1>2, <2>2
    <3> QED BY <1>3, <3>1 DEF OpensKept, m, c
  <2> QED BY <2>1, <2>2
<1> QED BY <1>2, <1>5, <1>7 DEF OpensKept, t

LEMMA BareStay ==
  ASSUME NEW log, IsSequence(log), CommitsBare(log), NEW e, e.op = "commit" => Common(e) = e
  PROVE  CommitsBare(Append(log, e))
<1> DEFINE t == Append(log, e)
<1>1. ASSUME NEW j \in On(t, "commit") PROVE Common(t[j]) = t[j]
  <2>1. \/ j \in On(log, "commit") /\ t[j] = log[j]
        \/ e.op = "commit" /\ t[j] = e
    <3>1. OldOrNew(log, e, "commit", j)
      BY OnEither
    <3> QED BY <3>1 DEF OldOrNew
  <2> HIDE DEF t
  <2> QED BY <2>1 DEF CommitsBare
<1> QED BY <1>1 DEF CommitsBare

LEMMA PendingRound ==
  ASSUME NEW s, NEW sch, Scheduled(s, sch), NEW p, NEW i, ProverKept(p, s, i),
         ProverFollows(p, s, sch, i), IdsKept(p), p.pending # <<>>, Ended(sch, Arrived(s, i)),
         NEW g, g = Len(p.groups) + 1
  PROVE  /\ Closed(p) < Len(p.records) /\ Closed(p) = End(sch, g - 1)
         /\ [k \in DOMAIN p.pending |-> p.pending[k].len] = RoundLens(sch, g)
         /\ [k \in DOMAIN p.pending |-> p.pending[k].id] = RoundIds(sch, g)
<1> DEFINE c == Closed(p)
           n == Len(p.records)
           w == Len(p.pending)
<1>1. /\ ProverShape(p) /\ Kept(s, p.log, p.records, c, i) /\ n \in Nat /\ w \in Nat
      /\ c = n - w /\ w <= n /\ w # 0 /\ DOMAIN p.pending = 1..w
      /\ g = Times(p.log, "commit") + 1
      /\ Follows(s, sch, p.log, p.records, c) /\ Behind(s, c, i)
  BY SequenceLen DEF ProverKept, ProverShape, Closed, ProverFollows
<1>2. c < n
  <2> HIDE DEF c, n, w
  <2> QED BY <1>1
<1>3. /\ g \in 1..Len(sch.ends) /\ End(sch, g - 1) = c
      /\ RoundLens(sch, g) = OpenPart(p.records, c)
  <2>1. /\ Kept(s, p.log, p.records, c, i) /\ Follows(s, sch, p.log, p.records, c)
        /\ Behind(s, c, i) /\ c < Len(p.records)
    BY <1>1, <1>2
  <2> HIDE DEF c, n, w
  <2> QED BY <1>1, <2>1, NextRound
<1>4. /\ \A k \in 1..w : p.pending[k].len = p.records[c + k].len
      /\ \A k \in 1..w : p.pending[k].id = c + k
  BY <1>1 DEF ProverShape, IdsKept
<1>5. n - c = w
  <2> HIDE DEF c, n, w
  <2> QED BY <1>1
<1>6. OpenPart(p.records, c) = [k \in 1..w |-> p.records[c + k].len]
  BY <1>5 DEF OpenPart
<1> HIDE DEF c, n, w
<1>7. [k \in DOMAIN p.pending |-> p.pending[k].len] = RoundLens(sch, g)
  BY <1>1, <1>3, <1>4, <1>6
<1>8. RoundIds(sch, g) = [k \in 1..w |-> c + k]
  BY <1>3, <1>6 DEF RoundIds
<1>9. [k \in DOMAIN p.pending |-> p.pending[k].id] = RoundIds(sch, g)
  BY <1>1, <1>4, <1>8
<1> QED BY <1>2, <1>3, <1>7, <1>9 DEF c, n

(* A flush commits the next round as the schedule lays it out. *)
LEMMA FlushProverLaid ==
  ASSUME NEW s, NEW sch, Scheduled(s, sch), NEW p, NEW i, ProverKept(p, s, i),
         ProverFollows(p, s, sch, i), ProverLaid(p, s, sch, i),
         p.pending # <<>> => Ended(sch, Arrived(s, i))
  PROVE  ProverLaid(FlushProver(p), s, sch, i)
<1> DEFINE q == FlushProver(p)
           c == Closed(p)
           g == Len(p.groups) + 1
<1>1. CASE p.pending = <<>>
  BY <1>1 DEF FlushProver
<1>2. CASE p.pending # <<>>
  <2> DEFINE len == [k \in DOMAIN p.pending |-> p.pending[k].len]
             of == [k \in DOMAIN p.pending |-> p.pending[k].id]
             e == [op |-> "commit", len |-> merged_log_msg_len(len)]
             x == [buffer |-> <<Combined(len, of)>>, n_members |-> Len(p.pending), n_finalized |-> 0]
  <2>1. /\ ProverShape(p) /\ Kept(s, p.log, p.records, c, i) /\ IsSequence(p.log)
        /\ IsSequence(p.groups) /\ Len(p.groups) = Times(p.log, "commit")
        /\ Follows(s, sch, p.log, p.records, c) /\ Behind(s, c, i)
        /\ Ended(sch, Arrived(s, i)) /\ g = Times(p.log, "commit") + 1
        /\ IdsKept(p) /\ BuffersKept(p, sch) /\ OpensKept(s, sch, p.log, i)
        /\ Laid(s, sch, p.log, p.records, i) /\ CommitsBare(p.log)
    BY <1>2 DEF ProverKept, ProverShape, ProverFollows, ProverLaid
  <2>2. c < Len(p.records) /\ c = End(sch, g - 1) /\ len = RoundLens(sch, g) /\ of = RoundIds(sch, g)
    BY <1>2, <2>1, PendingRound
  <2>3. /\ q.pending = <<>> /\ q.log = Append(p.log, e) /\ q.groups = Append(p.groups, x)
        /\ \A k \in 1..c : q.records[k] = p.records[k]
        /\ \A k \in c + 1..Len(p.records) :
             q.records[k].mapping = [group |-> g, block_index |-> BlockIndices(len)[k - c],
                                     combined_log_len |-> merged_log_msg_len(len)]
    <3>1. PICK l, o : l = len /\ o = of
      OBVIOUS
    <3> HIDE DEF len, of
    <3>2. /\ l = [k \in DOMAIN p.pending |-> p.pending[k].len]
          /\ o = [k \in DOMAIN p.pending |-> p.pending[k].id]
      BY <3>1 DEF len, of
    <3>3. FlushedTo(p, q, l, o)
      BY <1>2, <2>1, <3>2, FlushProverIs
    <3>4. FlushedTo(p, q, len, of)
      BY <3>1, <3>3
    <3> QED BY <3>4 DEF FlushedTo
  <2>4. x.buffer = <<RoundBuffer(sch, g)>>
    BY <2>2 DEF RoundBuffer
  <2>5. e.op = "commit" /\ e = [op |-> "commit", len |-> merged_log_msg_len(RoundLens(sch, g))]
    BY <2>2
  <2>6. Common(e) = e
    BY DEF Common
  <2> HIDE DEF q, c, e, x
  <2>7. Mapped(sch, p.records, q.records, c, g)
    BY <2>2, <2>3 DEF MappingIn, Mapped
  <2> HIDE DEF len, of, g
  <2>8. Laid(s, sch, Append(p.log, e), q.records, i)
    <3>1. Common(e) = [op |-> "commit", len |-> merged_log_msg_len(RoundLens(sch, g))]
      BY <2>5, <2>6
    <3> QED BY <2>1, <2>2, <2>5, <2>7, <3>1, LaidCommit, SMTT(60)
  <2>9. OpensKept(s, sch, Append(p.log, e), i)
    BY <2>1, <2>5, OpensStay
  <2>10. CommitsBare(Append(p.log, e))
    BY <2>1, <2>6, BareStay
  <2>11. IdsKept(q)
    <3>1. Len(q.pending) = 0
      BY <2>3, EmptyIsSequence
    <3> QED BY <3>1 DEF IdsKept
  <2>12. BuffersKept(q, sch)
    <3>1. /\ Len(p.groups) \in Nat /\ Len(q.groups) = g /\ q.groups[g] = x
          /\ \A h \in 1..Len(p.groups) : q.groups[h] = p.groups[h]
      BY <2>1, <2>3, AppendSequence, SequenceLen DEF g
    <3>2. ASSUME NEW h \in 1..Len(q.groups)
          PROVE  q.groups[h].buffer \in {<<>>, <<RoundBuffer(sch, h)>>}
      <4>1. CASE h = g
        BY <2>4, <3>1, <4>1
      <4>2. CASE h # g
        <5>1. h \in 1..Len(p.groups)
          BY <3>1, <4>2 DEF g
        <5> QED BY <2>1, <3>1, <5>1 DEF BuffersKept
      <4> QED BY <4>1, <4>2
    <3>3. ASSUME NEW j \in On(q.log, "finalize")
          PROVE  q.log[j].buffer = RoundBuffer(sch, q.log[j].group)
      <4>1. \/ j \in On(p.log, "finalize") /\ q.log[j] = p.log[j]
            \/ e.op = "finalize" /\ q.log[j] = e
        <5>1. j \in On(Append(p.log, e), "finalize")
          BY <2>3
        <5>2. OldOrNew(p.log, e, "finalize", j)
          BY <2>1, <5>1, OnEither
        <5> QED BY <2>3, <5>2 DEF OldOrNew
      <4> QED BY <2>1, <2>5, <4>1 DEF BuffersKept
    <3> QED BY <3>2, <3>3 DEF BuffersKept
  <2> QED BY <2>3, <2>8, <2>9, <2>10, <2>11, <2>12 DEF ProverLaid, q
<1> QED BY <1>1, <1>2

(* Every oracle committed is in a round, and is mapped as its round is laid  *)
(* out: an opening of it asks for what the schedule says, on either side.    *)
LEMMA RoundOf ==
  ASSUME NEW s, NEW sch, Scheduled(s, sch), NEW c \in 0..Len(sch.ends), NEW k \in 1..End(sch, c)
  PROVE  \E g \in 1..c : k \in Round(sch, g)
<1> DEFINE L == Len(sch.ends)
           n == Times(s, "oracle")
           S == {h \in 0..c : k <= End(sch, h)}
<1>1. /\ L \in Nat /\ n \in Nat
      /\ \A a \in 0..L : End(sch, a) \in 0..n
  BY EndsAre
<1>2. End(sch, 0) = 0 /\ c \in Nat /\ \A a \in 0..c : a \in 0..L
  BY <1>1 DEF End
<1> HIDE DEF L, n
<1>3. k \in Nat \ {0} /\ c \in S /\ S \subseteq Nat
  <2>1. End(sch, c) \in 0..n /\ c \in 0..c
    BY <1>1, <1>2
  <2> QED BY <1>1, <2>1
<1>4. PICK g \in S : \A h \in S : g <= h
  <2> HIDE DEF S
  <2> QED BY <1>3, LeastElement
<1>5. g \in 0..c /\ k <= End(sch, g)
  BY <1>4
<1>6. g # 0
  BY <1>2, <1>3, <1>5
<1>7. g \in 1..c /\ g - 1 \in 0..c
  BY <1>2, <1>5, <1>6
<1>8. End(sch, g) \in Nat /\ End(sch, g - 1) \in Nat
  <2>1. g \in 0..L /\ g - 1 \in 0..L
    BY <1>2, <1>5, <1>7
  <2>2. End(sch, g) \in 0..n /\ End(sch, g - 1) \in 0..n
    BY <1>1, <2>1
  <2> QED BY <1>1, <2>2
<1>9. ~(k <= End(sch, g - 1))
  <2>1. g - 1 \notin S
    <3>1. ~(g <= g - 1)
      BY <1>7
    <3> HIDE DEF S
    <3> QED BY <1>4, <3>1
  <2> QED BY <1>7, <2>1
<1>10. k \in Round(sch, g)
  BY <1>3, <1>5, <1>8, <1>9 DEF Round
<1> QED BY <1>7, <1>10

LEMMA OpeningIs ==
  ASSUME NEW s, NEW sch, Scheduled(s, sch), NEW log, NEW records, NEW closed, NEW i,
         Kept(s, log, records, closed, i), Follows(s, sch, log, records, closed),
         Placed(sch, log, records), NEW g \in 1..Times(log, "commit"), NEW k \in Round(sch, g),
         NEW m, m = records[k].mapping
  PROVE  /\ m.group = g
         /\ OpenOf(sch, g, k) = [op |-> "open", group |-> m.group,
              weights |-> PlaceBlock(Zeros(m.combined_log_len), k, records[k].len, m.block_index)]
         /\ OpenOf(sch, g, k) = [op |-> "open", group |-> m.group,
              weights |-> BlockWeights(k, records[k].len, m.block_index, m.combined_log_len)]
<1> DEFINE len == RoundLens(sch, g)
           first == End(sch, g - 1)
           n == End(sch, g) - first
           j == k - first
<1>1. m = MappingIn(sch, g, k)
  BY DEF Placed
<1>2. /\ Times(log, "commit") \in 0..Len(sch.ends) /\ closed = End(sch, Times(log, "commit"))
      /\ closed \in 0..Len(records) /\ Len(records) \in Nat /\ LensKept(s, records)
      /\ Len(sch.ends) \in Nat
  BY SequenceLen, EndsAre DEF Kept, Follows
<1>3. k \in 1..Len(records)
  <2>1. k \in 1..closed
    BY <1>2, InClosed
  <2> QED BY <1>2, <2>1
<1>4. g \in 1..Len(sch.ends)
  BY <1>2
<1>5. /\ first \in Nat /\ n \in Nat \ {0} /\ End(sch, g) = first + n
      /\ len \in [1..n -> Nat]
      /\ \A a \in 1..n : len[a] = Entry(s, "oracle", first + a).len
  BY <1>4, RoundLensAre
<1>6. j \in 1..n /\ first + j = k
  <2> HIDE DEF n
  <2> QED BY <1>5 DEF Round
<1> HIDE DEF len, first, n, j
<1>7. records[k].len = len[j]
  BY <1>2, <1>3, <1>5, <1>6 DEF LensKept
<1>8. /\ m.group = g /\ m.block_index = BlockIndices(len)[j]
      /\ m.combined_log_len = merged_log_msg_len(len)
  BY <1>1 DEF MappingIn, len, first, j
<1>9. OpenOf(sch, g, k) = [op |-> "open", group |-> g, weights |-> Padded(len, k, j)]
  BY DEF OpenOf, len, first, j
<1>10. Padded(len, k, j)
         = PlaceBlock(Zeros(m.combined_log_len), k, records[k].len, m.block_index)
  BY <1>7, <1>8 DEF Padded
<1>11. Padded(len, k, j)
         = BlockWeights(k, records[k].len, m.block_index, m.combined_log_len)
  <2>1. n \in Nat
    BY <1>5
  <2>2. BlockWeights(k, len[j], BlockIndices(len)[j], merged_log_msg_len(len)) = Padded(len, k, j)
    BY <1>5, <1>6, <2>1, WeightsAgree
  <2> QED BY <1>7, <1>8, <2>2
<1> QED BY <1>8, <1>9, <1>10, <1>11

(* What the prover asks for once everything received is committed. *)
LEMMA AskLaid ==
  ASSUME NEW s, NEW sch, Scheduled(s, sch), NEW p, NEW i, ProverKept(p, s, i),
         ProverFollows(p, s, sch, i), ProverLaid(p, s, sch, i),
         p.pending = <<>>, Closed(p) = Len(p.records), i < Len(s), NEW e,
         \/ s[i + 1].op = "sample" /\ e = Sample
         \/ /\ s[i + 1].op = "open"
            /\ \E g \in 1..Times(p.log, "commit") : /\ s[i + 1].oracle \in Round(sch, g)
                                                    /\ e = OpenOf(sch, g, s[i + 1].oracle)
  PROVE  ProverLaid(Logged(p, e), s, sch, i + 1)
<1> DEFINE q == Logged(p, e)
           n == Len(p.records)
           c == Times(p.log, "commit")
<1>1. /\ ProverShape(p) /\ Kept(s, p.log, p.records, n, i) /\ IsSequence(p.log)
      /\ Follows(s, sch, p.log, p.records, n) /\ IsSequence(s) /\ i \in Nat
      /\ c \in 0..Len(sch.ends) /\ Len(sch.ends) \in Nat
      /\ IdsKept(p) /\ BuffersKept(p, sch) /\ OpensKept(s, sch, p.log, i)
      /\ Laid(s, sch, p.log, p.records, i) /\ CommitsBare(p.log)
  BY EndsAre, SequenceLen
     DEF ProverKept, ProverShape, ProverFollows, ProverLaid, Kept, Follows, Scheduled, ScriptShape
<1>2. s[i + 1].op \in {"sample", "open"} /\ e.op = s[i + 1].op
  BY DEF Sample, OpenOf
<1>3. Requested(e, s, sch, i + 1)
  <2>1. \A g \in 1..c : g \in 1..Len(sch.ends)
    BY <1>1
  <2> QED BY <2>1 DEF Requested
<1>4. /\ q.log = Append(p.log, e) /\ q.records = p.records /\ q.pending = p.pending
      /\ q.groups = p.groups /\ Closed(q) = Closed(p)
  <2>1. e.op # "commit"
    BY <1>2
  <2> QED BY <1>1, <2>1, LoggedOK
<1> HIDE DEF q, n, c
<1>5. Laid(s, sch, Append(p.log, e), p.records, i + 1)
  <2>1. e.op \notin {"commit", "finalize"} /\ s[i + 1].op # "oracle"
    BY <1>2
  <2> QED BY <1>1, <1>3, <2>1, LaidRequest DEF n
<1>6. OpensKept(s, sch, Append(p.log, e), i + 1)
  <2>1. CASE s[i + 1].op = "sample"
    <3>1. OpensKept(s, sch, p.log, i + 1)
      BY <1>1, <2>1, OpensIdle
    <3> QED BY <1>1, <1>2, <2>1, <3>1, OpensStay
  <2>2. CASE s[i + 1].op = "open"
    <3>1. PICK k : k = s[i + 1].oracle
      OBVIOUS
    <3>2. PICK g \in 1..Times(p.log, "commit") : k \in Round(sch, g) /\ e = OpenOf(sch, g, k)
      BY <2>2, <3>1
    <3> QED BY <1>1, <2>2, <3>1, <3>2, OpensMore
  <2> QED BY <1>2, <2>1, <2>2
<1>7. CommitsBare(Append(p.log, e))
  <2>1. e.op # "commit"
    BY <1>2
  <2> QED BY <1>1, <2>1, BareStay
<1>8. IdsKept(q)
  BY <1>1, <1>4 DEF IdsKept
<1>9. BuffersKept(q, sch)
  <2>1. ASSUME NEW j \in On(q.log, "finalize")
        PROVE  q.log[j].buffer = RoundBuffer(sch, q.log[j].group)
    <3>1. On(Append(p.log, e), "finalize") = On(p.log, "finalize")
      <4>1. e.op # "finalize"
        BY <1>2
      <4> QED BY <1>1, <4>1, OnAppend
    <3>2. j \in On(p.log, "finalize") /\ j \in 1..Len(p.log)
      BY <1>1, <1>4, <2>1, <3>1, OnPlaces
    <3>3. q.log[j] = p.log[j]
      BY <1>1, <1>4, <3>2, AppendSequence
    <3> QED BY <1>1, <3>2, <3>3 DEF BuffersKept
  <2>2. \A g \in 1..Len(q.groups) : q.groups[g].buffer \in {<<>>, <<RoundBuffer(sch, g)>>}
    BY <1>1, <1>4 DEF BuffersKept
  <2> QED BY <2>1, <2>2 DEF BuffersKept
<1> QED BY <1>4, <1>5, <1>6, <1>7, <1>8, <1>9 DEF ProverLaid, q

(* An oracle more is a pending one. *)
LEMMA SendLaid ==
  ASSUME NEW s, NEW sch, Scheduled(s, sch), NEW p, NEW i, ProverKept(p, s, i),
         ProverFollows(p, s, sch, i), ProverLaid(p, s, sch, i),
         i < Len(s), s[i + 1].op = "oracle",
         NEW n \in Lens, NEW x, x = [id |-> Len(p.records) + 1, len |-> n],
         NEW r, r = [len |-> n, mapping |-> Unmapped]
  PROVE  ProverLaid(Sent(p, x, r), s, sch, i + 1)
<1> DEFINE q == Sent(p, x, r)
           w == Len(p.pending)
           c == Closed(p)
<1>1. /\ ProverShape(p) /\ Kept(s, p.log, p.records, c, i) /\ IsSequence(s) /\ i \in Nat
      /\ Follows(s, sch, p.log, p.records, c) /\ IsSequence(p.pending) /\ w \in Nat
      /\ Len(p.records) \in Nat /\ c + w = Len(p.records)
      /\ IdsKept(p) /\ BuffersKept(p, sch) /\ OpensKept(s, sch, p.log, i)
      /\ Laid(s, sch, p.log, p.records, i) /\ CommitsBare(p.log)
  BY SequenceLen DEF ProverKept, ProverShape, ProverFollows, ProverLaid, Kept, Scheduled,
     ScriptShape, Closed
<1>2. q.groups = p.groups /\ q.log = p.log /\ q.records = Append(p.records, r) /\ Closed(q) = c
  <2>1. r \in [len : Lens, mapping : {Unmapped}] /\ x.len = r.len
    OBVIOUS
  <2> HIDE DEF c
  <2>2. /\ q.groups = p.groups /\ q.log = p.log /\ q.records = Append(p.records, r)
        /\ Closed(q) = Closed(p)
    BY <1>1, <2>1, SendKept, ZenonT(120)
  <2> QED BY <2>2 DEF c
<1>3. q.pending = Append(p.pending, x)
  <2>1. p \in [pending : {p.pending}, records : {p.records}, groups : {p.groups}, log : {p.log}]
    BY <1>1 DEF ProverShape
  <2> QED BY <2>1 DEF Sent
<1> HIDE DEF q, c, w
<1>4. /\ Len(q.pending) = w + 1
      /\ \A j \in 1..w : q.pending[j] = p.pending[j]
      /\ q.pending[w + 1] = x
  BY <1>1, <1>3, AppendSequence DEF w
<1>5. IdsKept(q)
  <2>1. ASSUME NEW j \in 1..w + 1 PROVE q.pending[j].id = c + j
    <3>1. CASE j = w + 1
      <4>1. x.id = Len(p.records) + 1
        OBVIOUS
      <4>2. c \in Int
        BY <1>1 DEF Kept
      <4> QED BY <1>1, <1>4, <3>1, <4>1, <4>2
    <3>2. CASE j # w + 1
      <4>1. j \in 1..w
        BY <1>1, <3>2
      <4>2. \A k \in 1..w : p.pending[k].id = c + k
        BY <1>1 DEF IdsKept, w, c
      <4> QED BY <1>4, <4>1, <4>2
    <3> QED BY <3>1, <3>2
  <2> QED BY <1>2, <1>4, <2>1 DEF IdsKept
<1>6. Laid(s, sch, p.log, Append(p.records, r), i + 1)
  BY <1>1, LaidOracle
<1>7. OpensKept(s, sch, p.log, i + 1)
  BY <1>1, OpensIdle
<1>8. BuffersKept(q, sch)
  BY <1>1, <1>2 DEF BuffersKept
<1> QED BY <1>1, <1>2, <1>5, <1>6, <1>7, <1>8 DEF ProverLaid, q

(* The buffer handed on is that of the round. *)
LEMMA HandBackLaid ==
  ASSUME NEW s, NEW sch, NEW p, NEW i, ProverKept(p, s, i), Closed(p) = Len(p.records),
         NEW h, GroupsKept(p, h), NEW k \in 1..Len(p.records), k \notin h,
         ProverLaid(p, s, sch, i)
  PROVE  ProverLaid(HandBack(p, k), s, sch, i)
<1> DEFINE g == p.records[k].mapping.group
           counted == Counted(p, g)
           taken == Taken(counted, g)
           e == [op |-> "finalize", group |-> g, buffer |-> Last(counted.groups[g].buffer)]
           b == RoundBuffer(sch, g)
           L == Len(p.groups)
<1>1. /\ ProverShape(p) /\ IsSequence(p.log) /\ L \in Nat
      /\ IdsKept(p) /\ BuffersKept(p, sch) /\ OpensKept(s, sch, p.log, i)
      /\ Laid(s, sch, p.log, p.records, i) /\ CommitsBare(p.log)
  BY SequenceLen DEF ProverKept, ProverShape, ProverLaid
<1>2. g \in 1..L
  BY DEF ProverKept, ProverShape, Kept
<1>3. p.groups[g].buffer = <<b>>
  <2>1. k \in Members(p, g)
    BY DEF Members
  <2>2. GroupKept(p, h, g)
    BY <1>2 DEF GroupsKept
  <2> HIDE DEF g
  <2>3. p.groups[g].buffer # <<>>
    BY <2>1, <2>2 DEF GroupKept
  <2> QED BY <1>1, <1>2, <2>3 DEF BuffersKept
<1> HIDE DEF g, counted, taken
<1>4. /\ ProverShape(counted) /\ Len(counted.groups) = L
      /\ counted.pending = p.pending /\ counted.records = p.records /\ counted.log = p.log
      /\ \A a \in 1..L : counted.groups[a].buffer = p.groups[a].buffer
  <2> DEFINE x == [buffer |-> p.groups[g].buffer, n_members |-> p.groups[g].n_members,
                   n_finalized |-> p.groups[g].n_finalized + 1]
  <2>1. WithGroup(p, counted, g, x)
    BY <1>1, <1>2, CountedOK DEF counted
  <2>2. x.buffer = p.groups[g].buffer
    OBVIOUS
  <2> HIDE DEF x
  <2> QED BY <2>1, <2>2 DEF WithGroup
<1>5. /\ ProverShape(taken) /\ Len(taken.groups) = L
      /\ taken.pending = p.pending /\ taken.records = p.records /\ taken.log = p.log
      /\ \A a \in 1..L : taken.groups[a].buffer = IF a = g THEN <<>> ELSE p.groups[a].buffer
  <2> DEFINE x == [buffer |-> <<>>, n_members |-> counted.groups[g].n_members,
                   n_finalized |-> counted.groups[g].n_finalized]
  <2>1. WithGroup(counted, taken, g, x)
    BY <1>2, <1>4, TakenOK DEF taken
  <2>2. x.buffer = <<>>
    OBVIOUS
  <2> HIDE DEF x
  <2> QED BY <1>4, <2>1, <2>2 DEF WithGroup
<1>6. /\ e.op = "finalize" /\ e.group = g /\ e.buffer = b
  <2>1. counted.groups[g].buffer = <<b>>
    BY <1>2, <1>3, <1>4
  <2>2. Last(<<b>>) = b
    <3> HIDE DEF b
    <3>1. Len(<<b>>) = 1 /\ <<b>>[1] = b
      OBVIOUS
    <3> QED BY <3>1 DEF Last
  <2> HIDE DEF b
  <2> QED BY <2>1, <2>2
<1>7. HandBack(p, k) = IF counted.groups[g].n_finalized = counted.groups[g].n_members
                       THEN Logged(taken, e) ELSE counted
  BY DEF HandBack, g, counted, taken
<1> HIDE DEF e, b, L
<1>8. ProverLaid(counted, s, sch, i)
  <2>1. IdsKept(counted)
    BY <1>1, <1>4 DEF IdsKept, Closed
  <2>2. BuffersKept(counted, sch)
    BY <1>1, <1>4 DEF BuffersKept, L
  <2> QED BY <1>1, <1>4, <2>1, <2>2 DEF ProverLaid
<1>9. ProverLaid(Logged(taken, e), s, sch, i)
  <2> DEFINE q == Logged(taken, e)
  <2>1. /\ q.log = Append(p.log, e) /\ q.records = p.records /\ q.pending = p.pending
        /\ q.groups = taken.groups
    <3>1. e.op # "commit"
      BY <1>6
    <3> QED BY <1>5, <3>1, LoggedOK
  <2> HIDE DEF q
  <2>2. IdsKept(q)
    BY <1>1, <2>1 DEF IdsKept, Closed
  <2>3. BuffersKept(q, sch)
    <3>1. \A a \in 1..Len(q.groups) : q.groups[a].buffer \in {<<>>, <<RoundBuffer(sch, a)>>}
      BY <1>1, <1>5, <2>1 DEF BuffersKept, L
    <3>2. ASSUME NEW j \in On(q.log, "finalize")
          PROVE  q.log[j].buffer = RoundBuffer(sch, q.log[j].group)
      <4>1. j \in On(Append(p.log, e), "finalize")
        BY <2>1
      <4>2. OldOrNew(p.log, e, "finalize", j)
        BY <1>1, <4>1, OnEither
      <4>3. q.log[j] = Append(p.log, e)[j]
        BY <2>1
      <4> QED BY <1>1, <1>6, <4>2, <4>3 DEF BuffersKept, OldOrNew, b
    <3> QED BY <3>1, <3>2 DEF BuffersKept
  <2>4. Laid(s, sch, Append(p.log, e), p.records, i)
    BY <1>1, <1>6, LaidFinalize
  <2>5. OpensKept(s, sch, Append(p.log, e), i)
    BY <1>1, <1>6, OpensStay
  <2>6. CommitsBare(Append(p.log, e))
    <3>1. e.op # "commit"
      BY <1>6
    <3> QED BY <1>1, <3>1, BareStay
  <2> QED BY <2>1, <2>2, <2>3, <2>4, <2>5, <2>6 DEF ProverLaid, q
<1> QED BY <1>7, <1>8, <1>9
------------------------------------------------------------------------------
(* The verifier *)
LEMMA LastEnd ==
  ASSUME NEW s, NEW sch, Scheduled(s, sch)
  PROVE  Len(sch.ends) \in Nat /\ End(sch, Len(sch.ends)) = Times(s, "oracle")
<1> DEFINE L == Len(sch.ends)
           n == Times(s, "oracle")
<1>1. /\ L \in Nat /\ n \in Nat
      /\ \A a \in 0..L : End(sch, a) \in 0..n
      /\ \A a, b \in 0..L : a < b => End(sch, a) < End(sch, b)
  BY EndsAre
<1>2. PICK r \in 1..L : sch.ends[r] = n
  BY DEF Scheduled, EndsKept, Ended
<1>3. End(sch, r) = n /\ r \in 0..L /\ L \in 0..L /\ (r < L \/ r = L)
  BY <1>1, <1>2 DEF End
<1> HIDE DEF L, n
<1>4. End(sch, L) \in 0..n /\ (r < L => n < End(sch, L))
  BY <1>1, <1>3
<1> QED BY <1>1, <1>3, <1>4 DEF L, n

LEMMA FlushVerifierIs ==
  ASSUME NEW v, VerifierShape(v), Unflushed(v), ~FlushFails(v),
         NEW sch, NEW g, g = Times(v.log, "commit") + 1,
         v.flushed = End(sch, g - 1), OpenPart(v.records, v.flushed) = RoundLens(sch, g)
  PROVE  /\ FlushVerifier(v).log = Append(v.log, Commit(v))
         /\ Common(Commit(v)) = [op |-> "commit", len |-> merged_log_msg_len(RoundLens(sch, g))]
         /\ Mapped(sch, v.records, FlushVerifier(v).records, v.flushed, g)
<1> DEFINE n == Len(v.records)
           f == v.flushed
           len == OpenLens(v)
           m(i) == [group |-> g, block_index |-> BlockIndices(len)[i - f],
                    combined_log_len |-> merged_log_msg_len(len)]
           recs == [i \in DOMAIN v.records |->
                     IF i \in f + 1..n THEN [v.records[i] EXCEPT !.mapping = m(i)] ELSE v.records[i]]
           q == FlushVerifier(v)
<1>1. /\ n \in Nat /\ DOMAIN v.records = 1..n /\ f \in 0..n
      /\ v \in [records : {v.records}, flushed : {v.flushed}, log : {v.log}, verdict : {v.verdict}]
  BY SequenceLen DEF VerifierShape
<1>2. q = [v EXCEPT !.records = recs, !.flushed = n, !.log = Append(@, Commit(v))]
  BY DEF FlushVerifier, Commit, OpenLens
<1> HIDE DEF recs, q
<1>3. q.records = recs /\ q.log = Append(v.log, Commit(v))
  BY <1>1, <1>2
<1>4. len = RoundLens(sch, g)
  <2>1. \A k \in 1..n - f : k + f = f + k
    BY <1>1
  <2>2. OpenPart(v.records, f) = [k \in 1..n - f |-> v.records[f + k].len]
    BY DEF OpenPart
  <2>3. len = [k \in 1..n - f |-> v.records[k + f].len]
    BY DEF OpenLens
  <2> HIDE DEF len, n, f
  <2>4. len = OpenPart(v.records, f)
    BY <2>1, <2>2, <2>3
  <2> QED BY <2>4 DEF f
<1>5. Commit(v).op = "commit" /\ Commit(v).len = merged_log_msg_len(len)
  BY DEF Commit
<1>6. Common(Commit(v)) = [op |-> "commit", len |-> merged_log_msg_len(RoundLens(sch, g))]
  BY <1>4, <1>5 DEF Common
<1> HIDE DEF m
<1>7. ASSUME NEW k \in 1..f PROVE recs[k] = v.records[k]
  <2>1. k \in 1..n /\ k \notin f + 1..n
    BY <1>1
  <2> QED BY <1>1, <2>1 DEF recs
<1>8. ASSUME NEW k \in f + 1..n PROVE recs[k].mapping = MappingIn(sch, g, k)
  <2>1. k \in 1..n
    BY <1>1
  <2>2. PICK x, old : x = m(k) /\ old = v.records[k]
    OBVIOUS
  <2>3. recs[k] = [old EXCEPT !.mapping = x]
    BY <1>1, <2>1, <2>2 DEF recs
  <2>4. old \in [len : Lens, wd : {old.wd}, mapping : {old.mapping}]
    BY <2>1, <2>2 DEF VerifierShape
  <2>5. recs[k].mapping = x
    BY <2>3, <2>4
  <2>6. x = MappingIn(sch, g, k)
    BY <1>4, <2>2 DEF m, MappingIn
  <2> QED BY <2>5, <2>6
<1> QED BY <1>3, <1>6, <1>7, <1>8 DEF Mapped, q, n, f

(* A flush finds the commitment it needs when the proof has all of them, and *)
(* it commits the next round.                                                *)
LEMMA FlushVerifierLaid ==
  ASSUME NEW s, NEW sch, Scheduled(s, sch), tape = Len(sch.ends), NEW z,
         NEW v, NEW i, VerifierKept(v, s, i, tape), VerifierFollows(v, s, sch, z, i, tape),
         VerifierLaid(v, s, sch, i), Unflushed(v) => Ended(sch, Arrived(s, i))
  PROVE  ~FlushFails(v) /\ VerifierLaid(FlushVerifier(v), s, sch, i)
<1> DEFINE q == FlushVerifier(v)
           c == Times(v.log, "commit")
           g == c + 1
           f == v.flushed
<1>1. /\ VerifierShape(v) /\ Kept(s, v.log, v.records, f, i) /\ IsSequence(v.log)
      /\ Follows(s, sch, v.log, v.records, f) /\ (c < tape => Behind(s, f, i))
      /\ c \in 0..Len(sch.ends) /\ f = End(sch, c) /\ Len(v.records) = Arrived(s, i)
      /\ On(v.log, "finalize") = {} /\ v.verdict # "error" /\ Laid(s, sch, v.log, v.records, i)
      /\ IsSequence(s) /\ i \in 0..Len(s)
  BY DEF VerifierKept, VerifierShape, VerifierFollows, VerifierLaid, Kept, Follows, Scheduled,
         ScriptShape
<1>2. Arrived(s, i) \in 0..Times(s, "oracle")
  BY <1>1, ArrivedAtMost
<1>3. Len(sch.ends) \in Nat /\ End(sch, Len(sch.ends)) = Times(s, "oracle") /\ Times(s, "oracle") \in Nat
  BY LastEnd, EndsAre
<1> HIDE DEF c, f
<1>4. Unflushed(v) => c < tape /\ f < Len(v.records)
  <2>1. Unflushed(v) => f < Len(v.records)
    BY DEF Unflushed, f
  <2>2. c = Len(sch.ends) => ~(f < Len(v.records))
    BY <1>1, <1>2, <1>3
  <2> QED BY <1>1, <1>3, <2>1, <2>2
<1>5. ~FlushFails(v)
  BY <1>4 DEF FlushFails, InnerHasCommitment, c
<1>6. CASE ~Unflushed(v)
  <2>1. q = v
    BY <1>6 DEF FlushVerifier
  <2> QED BY <1>5, <2>1
<1>7. CASE Unflushed(v)
  <2>1. /\ End(sch, g - 1) = f /\ RoundLens(sch, g) = OpenPart(v.records, f)
    BY <1>1, <1>4, <1>7, NextRound DEF c
  <2>2. /\ q.log = Append(v.log, Commit(v))
        /\ Common(Commit(v)) = [op |-> "commit", len |-> merged_log_msg_len(RoundLens(sch, g))]
        /\ Mapped(sch, v.records, q.records, f, g)
    BY <1>1, <1>5, <1>7, <2>1, FlushVerifierIs DEF c, f
  <2>3. Commit(v).op = "commit"
    BY DEF Commit
  <2>4. q.verdict = v.verdict
    BY <1>1, <1>5, <1>7, FlushVerifierOK
  <2> HIDE DEF q
  <2>5. Laid(s, sch, Append(v.log, Commit(v)), q.records, i)
    <3>1. PICK h : h = g
      OBVIOUS
    <3> HIDE DEF g
    <3>2. h = Times(v.log, "commit") + 1
      BY <3>1 DEF g, c
    <3> QED BY <1>1, <1>4, <1>7, <2>2, <2>3, <3>1, <3>2, LaidCommit
  <2>6. On(Append(v.log, Commit(v)), "finalize") = {}
    BY <1>1, <2>3, OnAppend
  <2> QED BY <1>1, <1>5, <2>2, <2>4, <2>5, <2>6 DEF VerifierLaid, q
<1> QED BY <1>6, <1>7

LEMMA VerifierAskLaid ==
  ASSUME NEW s, NEW sch, Scheduled(s, sch), NEW v, NEW i, NEW t, VerifierKept(v, s, i, t),
         Follows(s, sch, v.log, v.records, v.flushed), VerifierLaid(v, s, sch, i),
         v.flushed = Len(v.records), i < Len(s), s[i + 1].op # "oracle",
         NEW e, Requested(e, s, sch, i + 1), e.op \notin {"commit", "finalize"}
  PROVE  VerifierLaid(Logged(v, e), s, sch, i + 1)
<1> DEFINE q == Logged(v, e)
<1>1. /\ VerifierShape(v) /\ Kept(s, v.log, v.records, Len(v.records), i) /\ IsSequence(v.log)
      /\ Follows(s, sch, v.log, v.records, Len(v.records))
      /\ On(v.log, "finalize") = {} /\ v.verdict # "error" /\ Laid(s, sch, v.log, v.records, i)
  BY DEF VerifierKept, VerifierShape, VerifierLaid
<1>2. q.log = Append(v.log, e) /\ q.records = v.records /\ q.verdict = v.verdict
  <2>1. v \in [records : {v.records}, flushed : {v.flushed}, log : {v.log}, verdict : {v.verdict}]
    BY <1>1 DEF VerifierShape
  <2> QED BY <2>1 DEF Logged
<1> HIDE DEF q
<1>3. Laid(s, sch, Append(v.log, e), v.records, i + 1)
  BY <1>1, LaidRequest
<1>4. On(Append(v.log, e), "finalize") = {}
  <2>1. e.op # "finalize"
    OBVIOUS
  <2> QED BY <1>1, <2>1, OnAppend
<1> QED BY <1>1, <1>2, <1>3, <1>4 DEF VerifierLaid, q

LEMMA ReceivedLaid ==
  ASSUME NEW s, NEW sch, Scheduled(s, sch), NEW v, NEW i, NEW t, VerifierKept(v, s, i, t),
         Follows(s, sch, v.log, v.records, v.flushed), VerifierLaid(v, s, sch, i),
         i < Len(s), s[i + 1].op = "oracle", NEW r
  PROVE  VerifierLaid([v EXCEPT !.records = Append(@, r)], s, sch, i + 1)
<1> DEFINE q == [v EXCEPT !.records = Append(@, r)]
<1>1. /\ VerifierShape(v) /\ Kept(s, v.log, v.records, v.flushed, i)
      /\ On(v.log, "finalize") = {} /\ v.verdict # "error" /\ Laid(s, sch, v.log, v.records, i)
  BY DEF VerifierKept, VerifierLaid
<1>2. q.log = v.log /\ q.records = Append(v.records, r) /\ q.verdict = v.verdict
  <2>1. v \in [records : {v.records}, flushed : {v.flushed}, log : {v.log}, verdict : {v.verdict}]
    BY <1>1 DEF VerifierShape
  <2> QED BY <2>1
<1> HIDE DEF q
<1>3. Laid(s, sch, v.log, Append(v.records, r), i + 1)
  BY <1>1, LaidOracle
<1> QED BY <1>1, <1>2, <1>3 DEF VerifierLaid, q

LEMMA VerdictLaid ==
  ASSUME NEW s, NEW sch, NEW v, VerifierShape(v), NEW i, VerifierLaid(v, s, sch, i),
         NEW d, d # "error"
  PROVE  VerifierLaid([v EXCEPT !.verdict = d], s, sch, i)
<1> DEFINE q == [v EXCEPT !.verdict = d]
<1>1. q.log = v.log /\ q.records = v.records /\ q.verdict = d
  BY DEF VerifierShape
<1> HIDE DEF q
<1> QED BY <1>1 DEF VerifierLaid, q

LEMMA InitialLaid ==
  ASSUME NEW s, NEW sch
  PROVE  ProverLaid(InitialProver, s, sch, 0) /\ VerifierLaid(InitialVerifier, s, sch, 0)
<1>1. /\ Len(<<>>) = 0 /\ 1..0 = {} /\ Laid(s, sch, <<>>, <<>>, 0)
      /\ Times(<<>>, "open") = 0 /\ Upto(On(s, "open"), 0) = 0
  BY EmptyIsSequence, LaidAtFirst, NoneCounted DEF Times
<1>2. \A op : On(<<>>, op) = {}
  <2>1. DOMAIN <<>> = {}
    BY EmptyIsSequence, SequenceLen
  <2> QED BY <2>1 DEF On
<1>3. InitialProver.pending = <<>> /\ InitialProver.groups = <<>> /\ InitialProver.log = <<>>
      /\ InitialProver.records = <<>>
  BY DEF InitialProver
<1>4. InitialVerifier.log = <<>> /\ InitialVerifier.records = <<>> /\ InitialVerifier.verdict = "none"
  BY DEF InitialVerifier
<1>5. IdsKept(InitialProver) /\ BuffersKept(InitialProver, sch)
  BY <1>1, <1>2, <1>3 DEF IdsKept, BuffersKept
<1>6. OpensKept(s, sch, <<>>, 0) /\ CommitsBare(<<>>)
  BY <1>1, <1>2 DEF OpensKept, CommitsBare
<1>7. ProverLaid(InitialProver, s, sch, 0)
  BY <1>1, <1>3, <1>5, <1>6 DEF ProverLaid
<1>8. VerifierLaid(InitialVerifier, s, sch, 0)
  BY <1>1, <1>2, <1>4 DEF VerifierLaid
<1> QED BY <1>7, <1>8
------------------------------------------------------------------------------
(* The steps. *)
LEMMA Running ==
  ASSUME MergeInv, ScheduleInv, stage # "setup"
  PROVE  Scheduled(script, schedule)
BY DEF MergeInv, ScheduleInv, Scheduled, n_oracles

LEMMA FirstsGrow ==
  ASSUME NEW s, IsSequence(s), OraclesFirst(s), NEW op,
         op.op = "open" => op.oracle \in 1..Times(s, "oracle")
  PROVE  OraclesFirst(Append(s, op))
<1> DEFINE t == Append(s, op)
           n == Len(s)
<1>1. /\ Len(t) = n + 1 /\ n \in Nat /\ t[n + 1] = op
      /\ \A i \in 1..n : t[i] = s[i]
      /\ \A i \in 1..n : Arrived(t, i) = Arrived(s, i)
  BY ScriptGrows
<1>2. op.op # "oracle" => Arrived(t, n + 1) = Times(s, "oracle")
  BY ScriptGrows
<1> HIDE DEF t, n
<1>3. ASSUME NEW i \in 1..n + 1, t[i].op = "open" PROVE t[i].oracle \in 1..Arrived(t, i)
  <2>1. CASE i = n + 1
    BY <1>1, <1>2, <1>3, <2>1
  <2>2. CASE i # n + 1
    <3>1. i \in 1..n
      BY <1>1, <2>2
    <3> QED BY <1>1, <1>3, <3>1 DEF OraclesFirst, n
  <2> QED BY <2>1, <2>2
<1> QED BY <1>1, <1>3 DEF OraclesFirst, t

LEMMA LayoutSetup ==
  ASSUME MergeInv, LayoutInv,
         \/ \E n \in Lens, wd \in BOOLEAN : SetupRecvOracle(n, wd)
         \/ SetupSample
         \/ \E k \in 1..n_oracles : SetupVerifyRelation(k)
  PROVE  LayoutInv'
<1>1. stage = "setup" /\ stage' = "setup" /\ prover' = InitialProver /\ pos' = 0
  BY DEF MergeInv, SetupRecvOracle, SetupSample, SetupVerifyRelation, Declare
<1>2. ProverLaid(prover', script', schedule', pos')
  BY <1>1, InitialLaid
<1>3. \E op : /\ script' = Append(script, op)
              /\ op.op = "open" => op.oracle \in 1..Times(script, "oracle")
  <2>1. /\ \A n, wd : Oracle(n, wd).op # "open"
        /\ Sample.op # "open"
        /\ \A k : Open(k).oracle = k
    BY DEF Oracle, Sample, Open
  <2>2. CASE \E n \in Lens, wd \in BOOLEAN : SetupRecvOracle(n, wd)
    <3>1. PICK n, wd : SetupRecvOracle(n, wd)
      BY <2>2
    <3>2. script' = Append(script, Oracle(n, wd))
      BY <3>1 DEF SetupRecvOracle, Declare
    <3> QED BY <2>1, <3>2
  <2>3. CASE SetupSample
    <3>1. script' = Append(script, Sample)
      BY <2>3 DEF SetupSample, Declare
    <3> QED BY <2>1, <3>1
  <2>4. CASE \E k \in 1..n_oracles : SetupVerifyRelation(k)
    <3>1. PICK k \in 1..n_oracles : SetupVerifyRelation(k)
      BY <2>4
    <3>2. script' = Append(script, Open(k)) /\ k \in 1..Times(script, "oracle")
      BY <3>1 DEF SetupVerifyRelation, Declare, n_oracles
    <3> QED BY <2>1, <3>2
  <2> QED BY <2>2, <2>3, <2>4
<1>4. IsSequence(script) /\ OraclesFirst(script)
  BY DEF MergeInv, ScriptShape, LayoutInv
<1>5. OraclesFirst(script')
  BY <1>3, <1>4, FirstsGrow
<1> QED BY <1>1, <1>2, <1>5 DEF LayoutInv

LEMMA LayoutReady ==
  ASSUME MergeInv, LayoutInv, IntoOracleSchedule
  PROVE  LayoutInv'
<1>1. stage = "setup" /\ stage' = "prove" /\ prover' = InitialProver /\ pos' = 0 /\ script' = script
  BY DEF MergeInv, IntoOracleSchedule
<1>2. ProverLaid(prover', script', schedule', pos')
  BY <1>1, InitialLaid
<1> QED BY <1>1, <1>2 DEF LayoutInv

LEMMA ProverFlushLaid ==
  ASSUME NEW s, NEW sch, Scheduled(s, sch), NEW i \in 0..Len(s),
         \/ i < Len(s) /\ s[i + 1].op # "oracle"
         \/ \A j \in i + 1..Len(s) : s[j].op # "oracle",
         NEW p, ProverKept(p, s, i), ProverFollows(p, s, sch, i), ProverLaid(p, s, sch, i)
  PROVE  LET q == FlushProver(p) IN
         /\ ProverKept(q, s, i) /\ ProverFollows(q, s, sch, i) /\ ProverLaid(q, s, sch, i)
         /\ q.pending = <<>> /\ Closed(q) = Len(q.records) /\ Len(q.records) = Arrived(s, i)
<1> DEFINE q == FlushProver(p)
<1>1. /\ IsSequence(s) /\ ScheduleShape(sch, Times(s, "oracle")) /\ EndsKept(sch, s, TRUE)
  BY DEF Scheduled, ScriptShape
<1>2. PICK z : SpecsKept(sch, s, z)
  BY DEF Scheduled
<1>3. ProverFollows(q, s, sch, i)
  BY <1>1, <1>2, ProverFlushed
<1>4. ProverKept(q, s, i) /\ q.pending = <<>> /\ Closed(q) = Len(q.records)
  BY <1>1, FlushProverKept
<1>5. p.pending # <<>> => Ended(sch, Arrived(s, i))
  <2>1. /\ IsSequence(p.pending) /\ Len(p.pending) <= Len(p.records)
        /\ Len(p.records) = Arrived(s, i) /\ Len(p.records) \in Nat
    BY SequenceLen DEF ProverKept, ProverShape, Kept
  <2>2. p.pending # <<>> => Arrived(s, i) > 0
    BY <2>1, SequenceLen
  <2> QED BY <1>1, <2>2, EndsHere
<1>6. ProverLaid(q, s, sch, i)
  BY <1>5, FlushProverLaid
<1> HIDE DEF q
<1>7. Len(q.records) = Arrived(s, i)
  BY <1>4 DEF ProverKept, Kept
<1> QED BY <1>3, <1>4, <1>6, <1>7 DEF q

LEMMA LayoutProver ==
  ASSUME MergeInv, ScheduleInv, LayoutInv, SendOracle \/ ProverSample \/ ProveRelation
  PROVE  LayoutInv'
<1> DEFINE p == FlushProver(prover)
<1>1. /\ stage = "prove" /\ UNCHANGED <<stage, zk, script, schedule, tape, verifier>>
      /\ pos < Len(script) /\ pos' = pos + 1
  BY DEF SendOracle, ProverSample, ProveRelation, Proving
<1>2. /\ IsSequence(script) /\ Scheduled(script, schedule)
      /\ ProverKept(prover, script, pos) /\ pos \in 0..Len(script) /\ pos \in Nat
      /\ pos + 1 \in 1..Len(script)
  <2>1. ScriptShape(script) /\ ProverKept(prover, script, pos)
    BY <1>1 DEF MergeInv
  <2>2. pos \in 0..Len(script) /\ Len(script) \in Nat
    BY <2>1, SequenceLen DEF ProverKept, Kept, ScriptShape
  <2> QED BY <1>1, <2>1, <2>2, Running DEF ScriptShape
<1>3. /\ ProverFollows(prover, script, schedule, pos) /\ ProverLaid(prover, script, schedule, pos)
      /\ OraclesFirst(script)
  BY <1>1 DEF ScheduleInv, LayoutInv
<1>4. ASSUME ProverLaid(prover', script, schedule, pos + 1) PROVE LayoutInv'
  BY <1>1, <1>3, <1>4 DEF LayoutInv
<1>5. CASE SendOracle
  <2> DEFINE n == script[pos + 1].len
             x == [id |-> Len(prover.records) + 1, len |-> n]
             r == [len |-> n, mapping |-> Unmapped]
  <2>1. script[pos + 1].op = "oracle" /\ prover' = Sent(prover, x, r)
    BY <1>5 DEF SendOracle, Proving, Sent
  <2>2. n \in Lens
    BY <1>2, <2>1 DEF MergeInv, ScriptShape
  <2>3. ProverLaid(Sent(prover, x, r), script, schedule, pos + 1)
    <3>1. PICK a, b, c : a = n /\ b = x /\ c = r
      OBVIOUS
    <3>2. /\ a \in Lens /\ b = [id |-> Len(prover.records) + 1, len |-> a]
          /\ c = [len |-> a, mapping |-> Unmapped]
      BY <2>2, <3>1
    <3> HIDE DEF n, x, r
    <3>3. ProverLaid(Sent(prover, b, c), script, schedule, pos + 1)
      BY <1>1, <1>2, <1>3, <2>1, <3>2, SendLaid
    <3> QED BY <3>1, <3>3
  <2> QED BY <1>4, <2>1, <2>3
<1>6. ASSUME script[pos + 1].op # "oracle"
      PROVE  /\ ProverKept(p, script, pos) /\ ProverFollows(p, script, schedule, pos)
             /\ ProverLaid(p, script, schedule, pos)
             /\ p.pending = <<>> /\ Closed(p) = Len(p.records)
             /\ Len(p.records) = Arrived(script, pos)
  BY <1>1, <1>2, <1>3, <1>6, ProverFlushLaid
<1>7. CASE ProverSample
  <2>1. prover' = Logged(p, Sample) /\ script[pos + 1].op = "sample"
    BY <1>7 DEF ProverSample, Proving
  <2> HIDE DEF p
  <2>2. ProverLaid(Logged(p, Sample), script, schedule, pos + 1)
    BY <1>1, <1>2, <1>6, <2>1, AskLaid
  <2> QED BY <1>4, <2>1, <2>2
<1>8. CASE ProveRelation
  <2> DEFINE k == script[pos + 1].oracle
             m == p.records[k].mapping
             e == [op |-> "open", group |-> m.group,
                   weights |-> PlaceBlock(Zeros(m.combined_log_len), k, p.records[k].len,
                                          m.block_index)]
  <2>1. script[pos + 1].op = "open"
    BY <1>8 DEF ProveRelation, Proving
  <2>2. prover' = Logged(p, e)
    BY <1>8 DEF ProveRelation
  <2> HIDE DEF p
  <2>3. /\ Kept(script, p.log, p.records, Len(p.records), pos)
        /\ Follows(script, schedule, p.log, p.records, Len(p.records))
        /\ Placed(schedule, p.log, p.records)
        /\ Times(p.log, "commit") \in 0..Len(schedule.ends)
        /\ Len(p.records) = End(schedule, Times(p.log, "commit"))
    BY <1>6, <2>1 DEF ProverKept, ProverFollows, ProverLaid, Laid, Follows
  <2>4. k \in 1..End(schedule, Times(p.log, "commit"))
    <3>1. k \in 1..Arrived(script, pos + 1)
      BY <1>2, <1>3, <2>1 DEF OraclesFirst
    <3>2. Arrived(script, pos + 1) = Arrived(script, pos)
      BY <1>1, <1>2, <2>1, UptoNext DEF Arrived
    <3> QED BY <1>6, <2>1, <2>3, <3>1, <3>2
  <2>5. PICK g \in 1..Times(p.log, "commit") : k \in Round(schedule, g)
    BY <1>2, <2>3, <2>4, RoundOf
  <2>6. e = OpenOf(schedule, g, k)
    <3>1. PICK a : a = m
      OBVIOUS
    <3> HIDE DEF k
    <3>2. a = p.records[k].mapping
      BY <3>1
    <3>3. OpenOf(schedule, g, k) = [op |-> "open", group |-> a.group,
            weights |-> PlaceBlock(Zeros(a.combined_log_len), k, p.records[k].len, a.block_index)]
      BY <1>2, <2>3, <2>5, <3>2, OpeningIs
    <3> QED BY <3>1, <3>3
  <2> HIDE DEF e
  <2>7. ProverLaid(Logged(p, e), script, schedule, pos + 1)
    <3>1. \E h \in 1..Times(p.log, "commit") : /\ script[pos + 1].oracle \in Round(schedule, h)
                                               /\ e = OpenOf(schedule, h, script[pos + 1].oracle)
      BY <2>5, <2>6
    <3> QED BY <1>1, <1>2, <1>6, <2>1, <3>1, AskLaid
  <2> QED BY <1>4, <2>2, <2>7
<1> QED BY <1>5, <1>7, <1>8

LEMMA LayoutFinalize ==
  ASSUME MergeInv, ScheduleInv, LayoutInv, NEW k \in 1..n_oracles, FinalizeOracle(k)
  PROVE  LayoutInv'
<1> DEFINE p == FlushProver(prover)
<1>1. /\ stage = "prove" /\ UNCHANGED <<stage, zk, script, schedule, tape, verifier>>
      /\ pos' = pos /\ k \notin handed /\ \A i \in pos + 1..Len(script) : script[i].op # "oracle"
  BY DEF FinalizeOracle
<1>2. /\ IsSequence(script) /\ Scheduled(script, schedule) /\ GroupsKept(prover, handed)
      /\ ProverKept(prover, script, pos) /\ pos \in 0..Len(script)
  <2>1. ScriptShape(script) /\ ProverKept(prover, script, pos) /\ GroupsKept(prover, handed)
    BY <1>1 DEF MergeInv
  <2>2. pos \in 0..Len(script)
    BY <2>1 DEF ProverKept, Kept
  <2> QED BY <1>1, <2>1, <2>2, Running DEF ScriptShape
<1>3. /\ ProverFollows(prover, script, schedule, pos) /\ ProverLaid(prover, script, schedule, pos)
      /\ OraclesFirst(script)
  BY <1>1 DEF ScheduleInv, LayoutInv
<1>4. /\ ProverKept(p, script, pos) /\ ProverLaid(p, script, schedule, pos)
      /\ Closed(p) = Len(p.records) /\ Len(p.records) = Arrived(script, pos)
  BY <1>1, <1>2, <1>3, ProverFlushLaid
<1>5. GroupsKept(p, handed)
  BY <1>2, FlushGroups
<1>6. prover' = HandBack(p, k)
  BY DEF FinalizeOracle, HandBack, Counted, Taken
<1> HIDE DEF p
<1>7. k \in 1..Len(p.records)
  BY <1>1, <1>2, <1>4, AllArrived DEF n_oracles
<1>8. ProverLaid(prover', script, schedule, pos)
  BY <1>1, <1>4, <1>5, <1>6, <1>7, HandBackLaid
<1> QED BY <1>1, <1>3, <1>8 DEF LayoutInv

LEMMA LayoutProved ==
  ASSUME MergeInv, ScheduleInv, LayoutInv, ProverIntoInner
  PROVE  LayoutInv'
<1> DEFINE p == FlushProver(prover)
<1>1. /\ stage = "prove" /\ stage' = "verify" /\ UNCHANGED <<zk, script, schedule>>
      /\ pos = Len(script) /\ pos' = 0 /\ prover' = p /\ UNCHANGED verifier
  BY DEF ProverIntoInner
<1>2. /\ Scheduled(script, schedule) /\ verifier' = InitialVerifier
      /\ ProverKept(prover, script, pos) /\ pos \in 0..Len(script) /\ Len(script) \in Nat
  <2>1. /\ ScriptShape(script) /\ ProverKept(prover, script, pos) /\ verifier' = InitialVerifier
    BY <1>1 DEF MergeInv
  <2>2. pos \in 0..Len(script) /\ Len(script) \in Nat
    BY <2>1, SequenceLen DEF ProverKept, Kept, ScriptShape
  <2> QED BY <1>1, <2>1, <2>2, Running
<1>3. /\ ProverFollows(prover, script, schedule, pos) /\ ProverLaid(prover, script, schedule, pos)
      /\ OraclesFirst(script)
  BY <1>1 DEF ScheduleInv, LayoutInv
<1>4. \A j \in pos + 1..Len(script) : script[j].op # "oracle"
  BY <1>1, <1>2
<1>5. ProverLaid(p, script, schedule, pos)
  BY <1>2, <1>3, <1>4, ProverFlushLaid
<1>6. VerifierLaid(verifier', script, schedule, 0)
  BY <1>2, InitialLaid
<1> HIDE DEF p
<1> QED BY <1>1, <1>3, <1>5, <1>6 DEF LayoutInv

LEMMA VerifierFlushLaid ==
  ASSUME NEW s, NEW sch, Scheduled(s, sch), NEW z, SpecsKept(sch, s, z), NEW i \in 0..Len(s),
         \/ i < Len(s) /\ s[i + 1].op # "oracle"
         \/ \A j \in i + 1..Len(s) : s[j].op # "oracle",
         tape = Len(sch.ends),
         NEW v, VerifierKept(v, s, i, tape), VerifierFollows(v, s, sch, z, i, tape),
         VerifierLaid(v, s, sch, i)
  PROVE  LET q == FlushVerifier(v) IN
         /\ ~FlushFails(v) /\ VerifierKept(q, s, i, tape) /\ VerifierLaid(q, s, sch, i)
         /\ Follows(s, sch, q.log, q.records, q.flushed)
         /\ q.flushed = Len(q.records) /\ Len(q.records) = Arrived(s, i)
<1> DEFINE q == FlushVerifier(v)
<1>1. /\ IsSequence(s) /\ ScheduleShape(sch, Times(s, "oracle")) /\ EndsKept(sch, s, TRUE)
  BY DEF Scheduled, ScriptShape
<1>2. VerifierFollows(q, s, sch, z, i, tape)
  BY <1>1, VerifierFlushed
<1>3. Unflushed(v) => Ended(sch, Arrived(s, i))
  <2>1. v.flushed \in 0..Len(v.records) /\ Len(v.records) = Arrived(s, i) /\ Len(v.records) \in Nat
    BY SequenceLen DEF VerifierKept, VerifierShape, Kept
  <2>2. Unflushed(v) => Arrived(s, i) > 0
    BY <2>1 DEF Unflushed
  <2> QED BY <1>1, <2>2, EndsHere
<1>4. ~FlushFails(v) /\ VerifierLaid(q, s, sch, i)
  BY <1>3, FlushVerifierLaid
<1>5. VerifierKept(q, s, i, tape) /\ q.flushed = Len(q.records)
  BY <1>1, <1>4, FlushVerifierKept
<1> HIDE DEF q
<1>6. Len(q.records) = Arrived(s, i) /\ Follows(s, sch, q.log, q.records, q.flushed)
  BY <1>2, <1>5 DEF VerifierKept, Kept, VerifierFollows
<1> QED BY <1>4, <1>5, <1>6 DEF q

LEMMA LayoutVerifier ==
  ASSUME MergeInv, ScheduleInv, LayoutInv, RecvOracle \/ VerifierSample \/ VerifyRelation
  PROVE  LayoutInv'
<1> DEFINE v == FlushVerifier(verifier)
<1>1. /\ stage = "verify" /\ UNCHANGED <<stage, zk, script, schedule, prover, handed, tape>>
      /\ pos < Len(script) /\ pos' = pos + 1
  BY DEF RecvOracle, VerifierSample, VerifyRelation, Verifying
<1>2. /\ IsSequence(script) /\ Scheduled(script, schedule) /\ SpecsKept(schedule, script, zk)
      /\ VerifierKept(verifier, script, pos, tape) /\ pos \in 0..Len(script) /\ pos \in Nat
      /\ pos + 1 \in 1..Len(script)
      /\ VerifierFollows(verifier, script, schedule, zk, pos, tape)
      /\ Follows(script, schedule, verifier.log, verifier.records, verifier.flushed)
  <2>1. ScriptShape(script) /\ VerifierKept(verifier, script, pos, tape)
    BY <1>1 DEF MergeInv
  <2>2. pos \in 0..Len(script) /\ Len(script) \in Nat
    BY <2>1, SequenceLen DEF VerifierKept, Kept, ScriptShape
  <2>3. VerifierFollows(verifier, script, schedule, zk, pos, tape) /\ SpecsKept(schedule, script, zk)
    BY <1>1 DEF ScheduleInv
  <2> QED BY <1>1, <2>1, <2>2, <2>3, Running DEF ScriptShape, VerifierFollows
<1>3. /\ ProverLaid(prover, script, schedule, Len(script)) /\ OraclesFirst(script)
      /\ tape = Len(schedule.ends) => VerifierLaid(verifier, script, schedule, pos)
  BY <1>1 DEF LayoutInv
<1>4. SUFFICES ASSUME tape = Len(schedule.ends)
               PROVE  VerifierLaid(verifier', script, schedule, pos + 1)
  BY <1>1, <1>3 DEF LayoutInv
<1>5. VerifierLaid(verifier, script, schedule, pos)
  BY <1>3, <1>4
<1>6. CASE RecvOracle
  <2> DEFINE r == [len |-> script[pos + 1].len, wd |-> script[pos + 1].wd, mapping |-> Unmapped]
  <2>1. script[pos + 1].op = "oracle" /\ verifier' = [verifier EXCEPT !.records = Append(@, r)]
    BY <1>6 DEF RecvOracle, Verifying
  <2> HIDE DEF r
  <2> QED BY <1>1, <1>2, <1>5, <2>1, ReceivedLaid
<1>7. ASSUME script[pos + 1].op # "oracle"
      PROVE  /\ ~FlushFails(verifier)
             /\ VerifierKept(v, script, pos, tape) /\ VerifierLaid(v, script, schedule, pos)
             /\ Follows(script, schedule, v.log, v.records, v.flushed)
             /\ v.flushed = Len(v.records) /\ Len(v.records) = Arrived(script, pos)
  BY <1>1, <1>2, <1>4, <1>5, <1>7, VerifierFlushLaid
<1>8. ASSUME script[pos + 1].op # "oracle", NEW e, Requested(e, script, schedule, pos + 1),
             e.op \notin {"commit", "finalize"}
      PROVE  VerifierLaid(Logged(v, e), script, schedule, pos + 1)
  <2> HIDE DEF v
  <2> QED BY <1>1, <1>2, <1>7, <1>8, VerifierAskLaid
<1>9. CASE VerifierSample
  <2>1. verifier' = Logged(v, Sample) /\ script[pos + 1].op = "sample" /\ Sample.op = "sample"
    BY <1>9 DEF VerifierSample, Verifying, Sample
  <2>2. Requested(Sample, script, schedule, pos + 1)
    BY <2>1 DEF Requested
  <2> HIDE DEF v
  <2> QED BY <1>8, <2>1, <2>2
<1>10. CASE VerifyRelation
  <2> DEFINE k == script[pos + 1].oracle
             m == v.records[k].mapping
             e == [op |-> "open", group |-> m.group,
                   weights |-> BlockWeights(k, v.records[k].len, m.block_index,
                                            m.combined_log_len)]
  <2>1. script[pos + 1].op = "open"
    BY <1>10 DEF VerifyRelation, Verifying
  <2>2. verifier' = Logged(v, e)
    BY <1>7, <1>10, <2>1 DEF VerifyRelation
  <2> HIDE DEF v
  <2>3. /\ Kept(script, v.log, v.records, v.flushed, pos)
        /\ Follows(script, schedule, v.log, v.records, v.flushed)
        /\ Placed(schedule, v.log, v.records)
        /\ Times(v.log, "commit") \in 0..Len(schedule.ends)
        /\ Len(v.records) = End(schedule, Times(v.log, "commit"))
    BY <1>7, <2>1 DEF VerifierKept, VerifierLaid, Laid, Follows
  <2>4. k \in 1..End(schedule, Times(v.log, "commit"))
    <3>1. k \in 1..Arrived(script, pos + 1)
      BY <1>2, <1>3, <2>1 DEF OraclesFirst
    <3>2. Arrived(script, pos + 1) = Arrived(script, pos)
      BY <1>1, <1>2, <2>1, UptoNext DEF Arrived
    <3> QED BY <1>7, <2>1, <2>3, <3>1, <3>2
  <2>5. PICK g \in 1..Times(v.log, "commit") : k \in Round(schedule, g)
    BY <1>2, <2>3, <2>4, RoundOf
  <2>6. e = OpenOf(schedule, g, k)
    <3>1. PICK a : a = m
      OBVIOUS
    <3> HIDE DEF k
    <3>2. a = v.records[k].mapping
      BY <3>1
    <3>3. OpenOf(schedule, g, k) = [op |-> "open", group |-> a.group,
            weights |-> BlockWeights(k, v.records[k].len, a.block_index, a.combined_log_len)]
      BY <1>2, <2>3, <2>5, <3>2, OpeningIs
    <3> QED BY <3>1, <3>3
  <2>7. e.op = "open"
    OBVIOUS
  <2> HIDE DEF e
  <2>8. Requested(e, script, schedule, pos + 1)
    <3>1. g \in 1..Len(schedule.ends)
      BY <2>3, <2>5
    <3> QED BY <2>1, <2>5, <2>6, <3>1 DEF Requested
  <2> QED BY <1>8, <2>1, <2>2, <2>7, <2>8
<1> QED BY <1>6, <1>9, <1>10

LEMMA LayoutVerified ==
  ASSUME MergeInv, ScheduleInv, LayoutInv, VerifierIntoInner
  PROVE  LayoutInv'
<1> DEFINE v == FlushVerifier(verifier)
<1>1. /\ stage = "verify" /\ UNCHANGED <<stage, zk, script, schedule, pos, prover, handed, tape>>
      /\ pos = Len(script)
      /\ ~FlushFails(verifier) => verifier' = [v EXCEPT !.verdict = "ok"]
  BY DEF VerifierIntoInner
<1>2. /\ Scheduled(script, schedule) /\ SpecsKept(schedule, script, zk)
      /\ VerifierKept(verifier, script, pos, tape) /\ pos \in 0..Len(script)
      /\ Len(script) \in Nat
      /\ VerifierFollows(verifier, script, schedule, zk, pos, tape)
  <2>1. ScriptShape(script) /\ VerifierKept(verifier, script, pos, tape)
    BY <1>1 DEF MergeInv
  <2>2. pos \in 0..Len(script) /\ Len(script) \in Nat
    BY <2>1, SequenceLen DEF VerifierKept, Kept, ScriptShape
  <2>3. VerifierFollows(verifier, script, schedule, zk, pos, tape) /\ SpecsKept(schedule, script, zk)
    BY <1>1 DEF ScheduleInv
  <2> QED BY <1>1, <2>1, <2>2, <2>3, Running
<1>3. /\ ProverLaid(prover, script, schedule, Len(script)) /\ OraclesFirst(script)
      /\ tape = Len(schedule.ends) => VerifierLaid(verifier, script, schedule, pos)
  BY <1>1 DEF LayoutInv
<1>4. SUFFICES ASSUME tape = Len(schedule.ends)
               PROVE  VerifierLaid(verifier', script, schedule, pos)
  BY <1>1, <1>3 DEF LayoutInv
<1>5. \A j \in pos + 1..Len(script) : script[j].op # "oracle"
  BY <1>1, <1>2
<1>6. /\ ~FlushFails(verifier) /\ VerifierKept(v, script, pos, tape)
      /\ VerifierLaid(v, script, schedule, pos)
  BY <1>2, <1>3, <1>4, <1>5, VerifierFlushLaid
<1> HIDE DEF v
<1>7. VerifierLaid([v EXCEPT !.verdict = "ok"], script, schedule, pos)
  <2>1. VerifierShape(v) /\ VerifierLaid(v, script, schedule, pos) /\ "ok" # "error"
    BY <1>6 DEF VerifierKept
  <2> QED BY ONLY <2>1, VerdictLaid
<1> QED BY <1>1, <1>6, <1>7

LEMMA LayoutInit == Init => LayoutInv
<1> SUFFICES ASSUME Init PROVE LayoutInv
  OBVIOUS
<1>1. stage = "setup" /\ script = <<>> /\ pos = 0 /\ prover = InitialProver
  BY DEF Init, InitialProver
<1>2. ProverLaid(prover, script, schedule, pos)
  BY <1>1, InitialLaid
<1>3. OraclesFirst(<<>>)
  <2>1. Len(<<>>) = 0 /\ 1..0 = {}
    BY EmptyIsSequence
  <2> QED BY <2>1 DEF OraclesFirst
<1> QED BY <1>1, <1>2, <1>3 DEF LayoutInv

LEMMA LayoutNext ==
  ASSUME MergeInv, ScheduleInv, LayoutInv, [Next]_vars
  PROVE  LayoutInv'
<1>1. CASE UNCHANGED vars
  BY <1>1 DEF LayoutInv, vars, VerifierLaid, ProverLaid
<1>2. CASE Next
  <2>1. CASE \/ \E n \in Lens, wd \in BOOLEAN : SetupRecvOracle(n, wd)
             \/ SetupSample
             \/ \E k \in 1..n_oracles : SetupVerifyRelation(k)
    BY <2>1, LayoutSetup
  <2>2. CASE IntoOracleSchedule
    BY <2>2, LayoutReady
  <2>3. CASE SendOracle \/ ProverSample \/ ProveRelation
    BY <2>3, LayoutProver
  <2>4. CASE \E k \in 1..n_oracles : FinalizeOracle(k)
    BY <2>4, LayoutFinalize
  <2>5. CASE ProverIntoInner
    BY <2>5, LayoutProved
  <2>6. CASE RecvOracle \/ VerifierSample \/ VerifyRelation
    BY <2>6, LayoutVerifier
  <2>7. CASE VerifierIntoInner
    BY <2>7, LayoutVerified
  <2> QED BY <1>2, <2>1, <2>2, <2>3, <2>4, <2>5, <2>6, <2>7 DEF Next
<1> QED BY <1>1, <1>2

LEMMA LayoutInvariant == Spec => []LayoutInv
BY MergeInvariant, ScheduleInvariant, LayoutInit, LayoutNext, PTL DEF Spec
------------------------------------------------------------------------------
(* The properties *)

(* The records of group g are the oracles of round g. *)
LEMMA GroupIsRound ==
  ASSUME NEW s, NEW sch, Scheduled(s, sch), NEW log, NEW records, NEW closed, NEW i,
         Kept(s, log, records, closed, i), Follows(s, sch, log, records, closed),
         Placed(sch, log, records), NEW g \in 1..Times(log, "commit")
  PROVE  LET first == End(sch, g - 1)
             n == End(sch, g) - first
             len == RoundLens(sch, g)
         IN  /\ g \in 1..Len(sch.ends)
             /\ first \in Nat /\ n \in Nat \ {0} /\ len \in [1..n -> Nat]
             /\ {k \in 1..Len(records) : records[k].mapping.group = g} = first + 1..first + n
             /\ \A j \in 1..n : /\ first + j \in Round(sch, g)
                                /\ records[first + j].len = len[j]
                                /\ records[first + j].mapping.block_index = BlockIndices(len)[j]
<1> DEFINE first == End(sch, g - 1)
           n == End(sch, g) - first
           len == RoundLens(sch, g)
           c == Times(log, "commit")
<1>1. /\ c \in 0..Len(sch.ends) /\ closed = End(sch, c)
      /\ closed \in 0..Len(records) /\ Len(records) \in Nat /\ LensKept(s, records)
      /\ Len(sch.ends) \in Nat
  BY SequenceLen, EndsAre DEF Kept, Follows
<1>2. g \in 1..Len(sch.ends)
  BY <1>1
<1>3. /\ first \in Nat /\ n \in Nat \ {0} /\ End(sch, g) = first + n
      /\ len \in [1..n -> Nat]
      /\ \A a \in 1..n : len[a] = Entry(s, "oracle", first + a).len
  BY <1>2, RoundLensAre
<1>4. Round(sch, g) = first + 1..first + n
  BY <1>3 DEF Round
<1>5. ASSUME NEW h \in 1..c, NEW k \in Round(sch, h)
      PROVE  k \in 1..Len(records) /\ records[k].mapping = MappingIn(sch, h, k)
  <2>1. k \in 1..closed
    BY <1>1, InClosed
  <2>2. records[k].mapping = MappingIn(sch, h, k)
    BY DEF Placed
  <2> QED BY <1>1, <2>1, <2>2
<1>6. \A h, k : MappingIn(sch, h, k).group = h
  BY DEF MappingIn
<1>7. ASSUME NEW k \in 1..Len(records), records[k].mapping.group = g
      PROVE  k \in Round(sch, g)
  <2>1. k <= closed
    <3>1. ASSUME ~(k <= closed) PROVE FALSE
      <4>1. records[k].mapping = Unmapped
        BY <3>1 DEF Kept, Committed
      <4>2. g = 0
        BY <1>7, <4>1 DEF Unmapped
      <4> QED BY <4>2
    <3> QED BY <3>1
  <2>2. k \in 1..End(sch, c)
    BY <1>1, <2>1
  <2>3. PICK h \in 1..c : k \in Round(sch, h)
    BY <1>1, <2>2, RoundOf
  <2>4. h = g
    BY <1>5, <1>6, <1>7, <2>3
  <2> QED BY <2>3, <2>4
<1>8. {k \in 1..Len(records) : records[k].mapping.group = g} = Round(sch, g)
  BY <1>5, <1>6, <1>7
<1>9. ASSUME NEW j \in 1..n
      PROVE  /\ first + j \in Round(sch, g) /\ records[first + j].len = len[j]
             /\ records[first + j].mapping.block_index = BlockIndices(len)[j]
  <2>1. first + j \in Round(sch, g) /\ (first + j) - first = j
    <3> HIDE DEF first, n
    <3> QED BY <1>3, <1>4
  <2>2. /\ first + j \in 1..Len(records)
        /\ records[first + j].mapping = MappingIn(sch, g, first + j)
    BY <1>5, <2>1
  <2>3. records[first + j].len = len[j]
    BY <1>1, <1>3, <2>2 DEF LensKept
  <2>4. MappingIn(sch, g, first + j).block_index = BlockIndices(len)[(first + j) - first]
    BY DEF MappingIn
  <2> QED BY <2>1, <2>2, <2>3, <2>4
<1> HIDE DEF first, n, len
<1>10. /\ g \in 1..Len(sch.ends) /\ first \in Nat /\ n \in Nat \ {0} /\ len \in [1..n -> Nat]
       /\ {k \in 1..Len(records) : records[k].mapping.group = g} = first + 1..first + n
       /\ \A j \in 1..n : /\ first + j \in Round(sch, g)
                          /\ records[first + j].len = len[j]
                          /\ records[first + j].mapping.block_index = BlockIndices(len)[j]
  BY <1>2, <1>3, <1>4, <1>8, <1>9
<1> QED BY <1>10 DEF first, n, len

(* The combined oracle of a round, position by position. *)
Buffered(buf, len, first, n) ==
  /\ DOMAIN buf = 0..pow2[merged_log_msg_len(len)] - 1
  /\ \A j \in 1..n : \A p \in Block(len, j) :
       p \in DOMAIN buf /\ buf[p] = <<first + j, p - Start(len, j)>>
  /\ Cardinality({p \in DOMAIN buf : buf[p] # Zero}) = Total(len, 1..n)

LEMMA RoundBufferIs ==
  ASSUME NEW s, NEW sch, Scheduled(s, sch), NEW g \in 1..Len(sch.ends),
         NEW first, first = End(sch, g - 1), NEW n, n = End(sch, g) - first,
         NEW len, len = RoundLens(sch, g), NEW buf, buf = RoundBuffer(sch, g)
  PROVE  Buffered(buf, len, first, n)
<1> DEFINE of == RoundIds(sch, g)
<1>1. first \in Nat /\ n \in Nat \ {0} /\ len \in [1..n -> Nat] /\ DOMAIN len = 1..n
  BY RoundLensAre
<1>2. of = [j \in 1..n |-> first + j]
  BY <1>1 DEF RoundIds
<1>3. of \in [1..n -> Nat] /\ \A j \in 1..n : of[j] = first + j
  BY <1>1, <1>2
<1>4. buf = Combined(len, of) /\ n \in Nat
  BY <1>1 DEF RoundBuffer
<1> HIDE DEF of
<1>5. n \in Nat /\ len \in [1..n -> Nat] /\ of \in [1..n -> Nat] /\ buf = Combined(len, of)
  BY <1>1, <1>3, <1>4
<1>6. RoundHeld(buf, len, of, n)
  BY ONLY <1>5, RoundLaid
<1> QED BY <1>3, <1>6 DEF RoundHeld, Buffered

(* What the prover has in a state that is reached: it ran the script up to i.*)
LEMMA ProverIsLaid ==
  ASSUME MergeInv, ScheduleInv, LayoutInv, prover.log # <<>> \/ prover.groups # <<>>
  PROVE  /\ Scheduled(script, schedule)
         /\ \E i : /\ ProverKept(prover, script, i) /\ ProverFollows(prover, script, schedule, i)
                   /\ ProverLaid(prover, script, schedule, i)
<1>1. stage # "setup"
  BY DEF MergeInv, InitialProver
<1>2. CASE stage = "verify"
  BY <1>1, <1>2, Running DEF MergeInv, ScheduleInv, LayoutInv
<1>3. CASE stage # "verify"
  BY <1>1, <1>3, Running DEF MergeInv, ScheduleInv, LayoutInv
<1> QED BY <1>2, <1>3

LEMMA LaidOutHolds == MergeInv /\ ScheduleInv /\ LayoutInv => RoundsLaidOut
<1> SUFFICES ASSUME MergeInv, ScheduleInv, LayoutInv, NEW g \in DOMAIN prover.groups,
                    NEW held \in DOMAIN prover.groups[g].buffer
             PROVE  LET buffer == prover.groups[g].buffer[held]
                        members == {k \in DOMAIN prover.records :
                                      prover.records[k].mapping.group = g}
                        len == [k \in members |-> prover.records[k].len]
                        start(k) == prover.records[k].mapping.block_index * pow2[len[k]]
                    IN  /\ \A k \in members : \A i \in 0..pow2[len[k]] - 1 :
                             start(k) + i \in DOMAIN buffer /\ buffer[start(k) + i] = <<k, i>>
                        /\ Cardinality({p \in DOMAIN buffer : buffer[p] # Zero})
                             = Total(len, members)
  BY DEF RoundsLaidOut
<1> DEFINE buffer == prover.groups[g].buffer[held]
           records == prover.records
           members == {k \in DOMAIN records : records[k].mapping.group = g}
           length == [k \in members |-> records[k].len]
           first == End(schedule, g - 1)
           n == End(schedule, g) - first
           len == RoundLens(schedule, g)
<1>1. prover.groups # <<>>
  <2>1. DOMAIN <<>> = {}
    BY EmptyIsSequence, SequenceLen
  <2> QED BY <2>1
<1>2. PICK i : /\ ProverKept(prover, script, i) /\ ProverFollows(prover, script, schedule, i)
               /\ ProverLaid(prover, script, schedule, i)
  BY <1>1, ProverIsLaid
<1>3. Scheduled(script, schedule)
  BY <1>1, ProverIsLaid
<1>4. /\ IsSequence(records) /\ IsSequence(prover.groups) /\ DOMAIN records = 1..Len(records)
      /\ DOMAIN prover.groups = 1..Len(prover.groups)
      /\ Len(prover.groups) = Times(prover.log, "commit")
      /\ Kept(script, prover.log, records, Closed(prover), i)
      /\ Follows(script, schedule, prover.log, records, Closed(prover))
      /\ Placed(schedule, prover.log, records)
  BY <1>2, SequenceLen DEF ProverKept, ProverShape, ProverFollows, ProverLaid, Laid
<1>5. /\ g \in 1..Len(schedule.ends)
      /\ first \in Nat /\ n \in Nat \ {0} /\ len \in [1..n -> Nat]
      /\ members = first + 1..first + n
      /\ \A j \in 1..n : /\ records[first + j].len = len[j]
                         /\ records[first + j].mapping.block_index = BlockIndices(len)[j]
  BY <1>3, <1>4, GroupIsRound, SMTT(60), ZenonT(60)
<1>6. buffer = RoundBuffer(schedule, g)
  <2>1. prover.groups[g].buffer \in {<<>>, <<RoundBuffer(schedule, g)>>}
    BY <1>2, <1>4 DEF ProverLaid, BuffersKept
  <2>2. DOMAIN <<>> = {}
    BY EmptyIsSequence, SequenceLen
  <2>3. prover.groups[g].buffer = <<RoundBuffer(schedule, g)>>
    BY <2>1, <2>2
  <2>4. \A x : DOMAIN <<x>> = {1} /\ <<x>>[1] = x
    OBVIOUS
  <2> QED BY <2>3, <2>4
<1> DEFINE B == buffer
<1> HIDE DEF buffer, first, n, len, members
<1>7. /\ \A j \in 1..n : \A p \in Block(len, j) :
           p \in DOMAIN B /\ B[p] = <<first + j, p - Start(len, j)>>
      /\ Cardinality({p \in DOMAIN B : B[p] # Zero}) = Total(len, 1..n)
  <2>1. Buffered(B, len, first, n)
    BY <1>3, <1>5, <1>6, RoundBufferIs DEF first, n, len
  <2> QED BY <2>1 DEF Buffered
<1>8. \A k \in members : /\ k - first \in 1..n /\ first + (k - first) = k
                         /\ length[k] = len[k - first]
  <2>1. \A k \in members : k - first \in 1..n /\ first + (k - first) = k
    BY <1>5
  <2> QED BY <1>5, <2>1
<1>9. Total(length, members) = Total(len, 1..n)
  <2>1. \A j \in 1..n : length[first + j] = len[j]
    <3>1. \A j \in 1..n : first + j \in members /\ (first + j) - first = j
      BY <1>5
    <3> QED BY <1>8, <3>1
  <2> HIDE DEF length
  <2>2. n \in Nat
    BY <1>5
  <2> QED BY <1>5, <2>1, <2>2, TotalShift
<1>10. ASSUME NEW k \in members, NEW m \in 0..pow2[length[k]] - 1
       PROVE  LET p == records[k].mapping.block_index * pow2[length[k]] + m
              IN  p \in DOMAIN B /\ B[p] = <<k, m>>
  <2> DEFINE j == k - first
             p == records[k].mapping.block_index * pow2[length[k]] + m
  <2>1. j \in 1..n /\ first + j = k /\ length[k] = len[j]
    BY <1>8
  <2> HIDE DEF j
  <2>2. records[k].mapping.block_index = BlockIndices(len)[j]
    BY <1>5, <2>1
  <2>3. /\ Start(len, j) \in Nat /\ BlockIndices(len)[j] * pow2[len[j]] = Start(len, j)
        /\ pow2[len[j]] \in Nat
    <3>1. n \in Nat /\ len[j] \in Nat
      BY <1>5, <2>1
    <3> QED BY <1>5, <2>1, <3>1, BlocksAre, Pow2Is
  <2> HIDE DEF length
  <2>4. p = Start(len, j) + m
    BY <2>1, <2>2, <2>3
  <2>5. m \in 0..pow2[len[j]] - 1
    BY <2>1
  <2> HIDE DEF p
  <2>6. p \in Block(len, j) /\ p - Start(len, j) = m
    BY <2>3, <2>4, <2>5 DEF Block
  <2>7. p \in DOMAIN B /\ B[p] = <<k, m>>
    BY <1>7, <2>1, <2>6
  <2> QED BY <2>7 DEF p
<1> HIDE DEF length, records
<1>11. Cardinality({p \in DOMAIN B : B[p] # Zero}) = Total(length, members)
  BY <1>7, <1>9
<1>12. \A k \in members : \A m \in 0..pow2[length[k]] - 1 :
         LET p == records[k].mapping.block_index * pow2[length[k]] + m
         IN  p \in DOMAIN B /\ B[p] = <<k, m>>
  BY <1>10
<1> QED BY <1>11, <1>12 DEF buffer, members, length, records

(* Whatever oracles a round has, and whichever of them fill whole words, the *)
(* combined oracle holds every scalar of every member once, in a run that    *)
(* starts where the member's block index says, and nothing else.             *)
THEOREM RoundsAreLaidOut == Spec => []RoundsLaidOut
BY MergeInvariant, ScheduleInvariant, LayoutInvariant, LaidOutHolds, PTL
LEMMA CarryOverHolds == MergeInv /\ ScheduleInv /\ LayoutInv => ClaimsCarryOver
<1> SUFFICES ASSUME MergeInv, ScheduleInv, LayoutInv,
                    NEW j \in On(prover.log, "open"), NEW c \in On(prover.log, "finalize"),
                    prover.log[j].group = prover.log[c].group
             PROVE  LET k == script[Nth(On(script, "open"), Upto(On(prover.log, "open"), j))].oracle
                        w == prover.log[j].weights
                        buffer == prover.log[c].buffer
                    IN  /\ {w[p] : p \in DOMAIN w} \ {Zero}
                             = {<<k, i>> : i \in 0..pow2[prover.records[k].len] - 1}
                        /\ DOMAIN w = DOMAIN buffer
                        /\ \A p \in DOMAIN w : w[p] # Zero => w[p] = buffer[p]
  BY DEF ClaimsCarryOver
<1> DEFINE k == script[Nth(On(script, "open"), Upto(On(prover.log, "open"), j))].oracle
           w == prover.log[j].weights
           buffer == prover.log[c].buffer
           log == prover.log
           records == prover.records
           m == Upto(On(log, "open"), j)
<1>1. log # <<>>
  <2>1. DOMAIN <<>> = {}
    BY EmptyIsSequence, SequenceLen
  <2> QED BY <2>1 DEF On
<1>2. PICK i : /\ ProverKept(prover, script, i) /\ ProverFollows(prover, script, schedule, i)
               /\ ProverLaid(prover, script, schedule, i)
  BY <1>1, ProverIsLaid
<1>3. Scheduled(script, schedule)
  BY <1>1, ProverIsLaid
<1>4. /\ IsSequence(log) /\ Len(log) \in Nat
      /\ Kept(script, log, records, Closed(prover), i)
      /\ Follows(script, schedule, log, records, Closed(prover))
      /\ Placed(schedule, log, records)
      /\ OpensKept(script, schedule, log, i) /\ BuffersKept(prover, schedule)
  BY <1>2, SequenceLen DEF ProverKept, ProverShape, ProverFollows, ProverLaid, Laid
<1>5. m \in 1..Times(log, "open") /\ Entry(log, "open", m) = log[j]
  <2>1. /\ On(log, "open") \subseteq Nat \ {0} /\ j \in 1..Len(log)
    BY <1>4, OnPlaces
  <2>2. Nth(On(log, "open"), m) = j
    BY <2>1, NthFound
  <2>3. m <= Times(log, "open") /\ m \in Nat /\ Times(log, "open") \in Nat
    BY <1>4, <2>1, UptoMonotonic, UptoIsCount DEF Times
  <2>4. m > 0
    <3>1. \E l \in On(log, "open") \cap (1..j) : TRUE
      BY <2>1
    <3>2. j \in On(log, "open") \cap (1..j) /\ j \in Nat
      BY <2>1
    <3>3. IsFiniteSet(On(log, "open") \cap (1..j))
      BY <3>2, CountType
    <3> QED BY <2>3, <3>2, <3>3, FS_EmptySet DEF Upto
  <2> QED BY <2>2, <2>3, <2>4 DEF Entry
<1> HIDE DEF m
<1>6. k = Entry(script, "open", m).oracle
  BY DEF Entry, m
<1> HIDE DEF k
<1>7. PICK g \in 1..Times(log, "commit") : /\ k \in Round(schedule, g)
                                           /\ log[j] = OpenOf(schedule, g, k)
  BY <1>4, <1>5, <1>6 DEF OpensKept
<1> DEFINE first == End(schedule, g - 1)
           n == End(schedule, g) - first
           len == RoundLens(schedule, g)
           q == k - first
<1>8. log[j].group = g /\ w = Padded(len, k, q)
  BY <1>7 DEF OpenOf
<1>9. buffer = RoundBuffer(schedule, g)
  BY <1>4, <1>8 DEF BuffersKept
<1>10. /\ g \in 1..Len(schedule.ends)
       /\ first \in Nat /\ n \in Nat \ {0} /\ len \in [1..n -> Nat]
       /\ \A a \in 1..n : records[first + a].len = len[a]
  BY <1>3, <1>4, GroupIsRound, SMTT(60), ZenonT(60)
<1>11. q \in 1..n /\ first + q = k
  <2>1. End(schedule, g) = first + n
    BY <1>3, <1>10, RoundLensAre
  <2> HIDE DEF n
  <2> QED BY <1>7, <1>10, <2>1 DEF Round
<1>12. /\ DOMAIN buffer = 0..pow2[merged_log_msg_len(len)] - 1
       /\ \A a \in 1..n : \A p \in Block(len, a) :
            p \in DOMAIN buffer /\ buffer[p] = <<first + a, p - Start(len, a)>>
  <2> HIDE DEF first, n, len
  <2>1. Buffered(buffer, len, first, n)
    BY <1>3, <1>9, <1>10, RoundBufferIs DEF first, n, len
  <2> QED BY <2>1 DEF Buffered
<1> HIDE DEF first, n, len, q, records, w, buffer
<1>13. /\ DOMAIN w = 0..pow2[merged_log_msg_len(len)] - 1
       /\ \A p \in DOMAIN w : w[p] = IF p \in Block(len, q) THEN <<k, p - Start(len, q)>> ELSE Zero
       /\ {w[p] : p \in DOMAIN w} \ {Zero} = {<<k, x>> : x \in 0..pow2[len[q]] - 1}
  <2>1. n \in Nat
    BY <1>10
  <2>2. PaddedTo(w, len, k, q)
    BY <1>8, <1>10, <1>11, <2>1, PaddedIs
  <2> QED BY <2>2 DEF PaddedTo
<1>14. len[q] = records[k].len
  BY <1>10, <1>11
<1>15. \A p \in DOMAIN w : w[p] # Zero => w[p] = buffer[p]
  BY <1>11, <1>12, <1>13
<1> QED BY <1>12, <1>13, <1>14, <1>15 DEF records, k, w, buffer

(* Every claim the prover forwards is about the scalars of the oracle that   *)
(* was opened, wherever its round put them: the padded polynomial and the    *)
(* combined oracle agree at each position where the polynomial is not zero.  *)
THEOREM OpeningsCarryOver == Spec => []ClaimsCarryOver
BY MergeInvariant, ScheduleInvariant, LayoutInvariant, CarryOverHolds, PTL

(* The two sides, request by request. *)
LEMMA SyncHolds == MergeInv /\ ScheduleInv /\ LayoutInv => InSync
<1> DEFINE Shared(e) == IF e.op = "commit" THEN [op |-> "commit", len |-> e.len] ELSE e
           P == prover.log
           V == verifier.log
           asked == DOMAIN P \ On(P, "finalize")
           n == Len(script)
<1> SUFFICES ASSUME MergeInv, ScheduleInv, LayoutInv, stage = "verify",
                    tape = Len(prover.groups)
             PROVE  /\ \A i \in DOMAIN V : /\ i <= Cardinality(asked)
                                           /\ Shared(V[i]) = P[Nth(asked, i)]
                    /\ verifier.verdict # "error"
                    /\ verifier.verdict = "ok" => Len(V) = Cardinality(asked)
  BY DEF InSync
<1>1. /\ Scheduled(script, schedule) /\ IsSequence(script) /\ n \in Nat
      /\ ProverKept(prover, script, n) /\ ProverLaid(prover, script, schedule, n)
      /\ VerifierKept(verifier, script, pos, tape) /\ Accepting(verifier, script, pos)
      /\ Follows(script, schedule, V, verifier.records, verifier.flushed)
      /\ Times(P, "commit") = Len(schedule.ends)
  BY Running, SequenceLen DEF MergeInv, ScheduleInv, LayoutInv, ScriptShape, VerifierFollows
<1>2. /\ IsSequence(P) /\ DOMAIN P = 1..Len(P) /\ Len(P) \in Nat
      /\ IsSequence(V) /\ DOMAIN V = 1..Len(V) /\ Len(V) \in Nat
      /\ pos \in 0..n /\ Times(V, "commit") \in 0..Len(schedule.ends) /\ Len(schedule.ends) \in Nat
      /\ Len(prover.groups) = Times(P, "commit")
  BY <1>1, SequenceLen, EndsAre DEF ProverKept, ProverShape, VerifierKept, VerifierShape, Kept, Follows
<1>3. tape = Len(schedule.ends) /\ VerifierLaid(verifier, script, schedule, pos)
  BY <1>1, <1>2 DEF LayoutInv
<1>4. asked = Asked(P) /\ Cardinality(asked) = NAsked(P)
  <2>1. asked = Asked(P)
    BY DEF Asked
  <2>2. asked \cap 1..Len(P) = asked
    BY <1>2
  <2> QED BY <2>1, <2>2 DEF NAsked, Upto
<1> HIDE DEF P, V, asked, n
<1>5. /\ InOrder(script, schedule, P, n) /\ CommitsBare(P)
      /\ InOrder(script, schedule, V, pos) /\ On(V, "finalize") = {} /\ verifier.verdict # "error"
  BY <1>1, <1>3 DEF ProverLaid, VerifierLaid, Laid, P, V
<1>6. NAsked(V) = Len(V) /\ \A i \in 1..Len(V) : Ask(V, i) = V[i]
  <2>1. Asked(V) = 1..Len(V)
    BY <1>2, <1>5 DEF Asked
  <2>2. ASSUME NEW i \in 0..Len(V) PROVE Upto(1..Len(V), i) = i
    <3>1. 1..Len(V) \cap 1..i = 1..i /\ i \in Nat
      BY <1>2
    <3>2. Cardinality(1..i) = i
      BY <3>1, FS_Interval
    <3> QED BY <3>1, <3>2 DEF Upto
  <2>3. NAsked(V) = Len(V)
    <3>1. Len(V) \in 0..Len(V)
      BY <1>2
    <3> QED BY <2>1, <2>2, <3>1 DEF NAsked
  <2>4. ASSUME NEW i \in 1..Len(V) PROVE Ask(V, i) = V[i]
    <3>1. /\ 1..Len(V) \subseteq Nat \ {0} /\ i \in 0..Len(V)
      BY <1>2
    <3>2. Nth(1..Len(V), i) = i
      BY <2>2, <3>1, NthFound
    <3> QED BY <2>1, <3>2 DEF Ask
  <2> QED BY <2>3, <2>4
<1>7. ASSUME NEW i \in 1..Len(V)
      PROVE  i \in 1..NAsked(P) /\ Common(V[i]) = Ask(P, i)
  <2>1. \/ \E g \in 1..Times(V, "commit") : i = CommitAt(script, schedule, g)
        \/ \E j \in 1..pos, d \in 0..Times(V, "commit") :
             After(script, schedule, j, d) /\ i = RequestAt(script, j, d)
    BY <1>5, <1>6 DEF InOrder, NothingElse
  <2>2. CASE \E g \in 1..Times(V, "commit") : i = CommitAt(script, schedule, g)
    <3>1. PICK g \in 1..Times(V, "commit") : i = CommitAt(script, schedule, g)
      BY <2>2
    <3>2. g \in 1..Times(P, "commit")
      BY <1>1, <1>2, <3>1 DEF P
    <3>3. i \in 1..NAsked(P) /\ Common(Ask(P, i)) = Common(V[i])
      BY <1>5, <1>6, <3>1, <3>2 DEF InOrder, CommitsInOrder
    <3>4. Common(Ask(P, i)) = Ask(P, i)
      <4>1. CASE Ask(P, i).op # "commit"
        BY <4>1 DEF Common
      <4>2. CASE Ask(P, i).op = "commit"
        <5>1. PICK l \in Asked(P) \cap (1..Len(P)) : Upto(Asked(P), l) = i
          BY <1>2, <3>3, NthExists DEF NAsked
        <5>2. Nth(Asked(P), i) = l
          BY <1>2, <5>1, AskedIs, NthFound
        <5>3. l \in On(P, "commit")
          BY <1>2, <4>2, <5>1, <5>2, OnPlaces DEF Ask
        <5> QED BY <1>5, <5>2, <5>3 DEF CommitsBare, Ask
      <4> QED BY <4>1, <4>2
    <3> QED BY <3>3, <3>4
  <2>3. CASE \E j \in 1..pos, d \in 0..Times(V, "commit") :
               After(script, schedule, j, d) /\ i = RequestAt(script, j, d)
    <3>1. PICK j \in 1..pos, d \in 0..Times(V, "commit") :
            After(script, schedule, j, d) /\ i = RequestAt(script, j, d)
      BY <2>3
    <3>2. j \in 1..n /\ d \in 0..Times(P, "commit")
      BY <1>1, <1>2, <3>1 DEF P
    <3>3. /\ i \in 1..NAsked(P) /\ Requested(Ask(P, i), script, schedule, j)
          /\ Requested(V[i], script, schedule, j)
      BY <1>5, <1>6, <3>1, <3>2 DEF InOrder, RequestsInOrder
    <3>4. \A g, k : OpenOf(schedule, g, k).op = "open"
      BY DEF OpenOf
    <3>5. Sample.op = "sample"
      BY DEF Sample
    <3>6. Ask(P, i) = V[i] /\ V[i].op # "commit"
      <4>1. CASE script[j].op = "sample"
        BY <3>3, <3>5, <4>1 DEF Requested
      <4>2. CASE script[j].op # "sample"
        <5>1. PICK g \in 1..Len(schedule.ends) : /\ script[j].oracle \in Round(schedule, g)
                                                 /\ Ask(P, i) = OpenOf(schedule, g, script[j].oracle)
          BY <3>3, <4>2 DEF Requested
        <5>2. PICK h \in 1..Len(schedule.ends) : /\ script[j].oracle \in Round(schedule, h)
                                                 /\ V[i] = OpenOf(schedule, h, script[j].oracle)
          BY <3>3, <4>2 DEF Requested
        <5>3. g = h
          BY <1>1, <5>1, <5>2, RoundsApart
        <5> QED BY <3>4, <5>1, <5>2, <5>3
      <4> QED BY <4>1, <4>2
    <3> QED BY <3>3, <3>6 DEF Common
  <2> QED BY <2>1, <2>2, <2>3
<1>8. \A i \in DOMAIN V : i <= Cardinality(asked) /\ Shared(V[i]) = P[Nth(asked, i)]
  <2>1. NAsked(P) \in Nat
    BY <1>2, AskedIs
  <2> QED BY <1>2, <1>4, <1>7, <2>1 DEF Common, Ask
<1>9. ASSUME verifier.verdict = "ok" PROVE Len(V) = Cardinality(asked)
  <2>1. pos = n /\ verifier.flushed = Times(script, "oracle")
    <3>1. pos = n /\ verifier.flushed = Len(verifier.records)
      BY <1>1, <1>9 DEF Accepting, n
    <3> QED BY <1>1, <3>1 DEF VerifierKept, Kept, Arrived, Times, n
  <2> DEFINE c == Times(V, "commit")
             L == Len(schedule.ends)
  <2>2. End(schedule, c) = End(schedule, L)
    BY <1>1, <2>1, LastEnd DEF Follows, V
  <2>3. c = L
    <3>1. c < L => End(schedule, c) < End(schedule, L)
      BY <1>1, <1>2, EndsAre
    <3>2. End(schedule, L) \in Nat
      BY <1>1, <1>2, EndsAre
    <3> QED BY <1>2, <2>2, <3>1, <3>2
  <2>4. c = Times(P, "commit")
    BY <1>1, <2>3 DEF P
  <2> HIDE DEF c
  <2>5. NAsked(V) = n - Arrived(script, n) + c /\ NAsked(P) = n - Arrived(script, n) + c
    BY <1>5, <2>1, <2>4 DEF InOrder, c
  <2> QED BY <1>4, <1>6, <2>5
<1> QED BY <1>5, <1>8, <1>9 DEF V, P, asked

(* A verifier that gets every commitment asks its inner channel for exactly  *)
(* what the prover asked of its own, in the same order, and never runs out;  *)
(* if it accepts it has asked for all of it.                                 *)
THEOREM SidesStayInSync == Spec => []InSync
BY MergeInvariant, ScheduleInvariant, LayoutInvariant, SyncHolds, PTL
==============================================================================
