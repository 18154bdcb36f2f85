------------------------------ MODULE DataFacts ------------------------------
(* What several of the proofs need of numbers and sequences: a set of        *)
(* natural numbers has a least element, how many of a set are within 1..n,   *)
(* and what appending and concatenating do to any sequences.                 *)
EXTENDS Shapes, Integers, SequencesExt, FiniteSetTheorems, SequenceTheorems, TLAPS

CountUpTo(S, n) == Cardinality(S \cap (1..n))

(* The principle that stands for induction: of the numbers at which          *)
(* something fails one is the least.                                         *)
LEMMA LeastElement ==
  ASSUME NEW S, S \subseteq Nat, S # {}
  PROVE  \E n \in S : \A m \in S : n <= m
<1>1. IsWellFoundedOn(OpToRel(<, Nat), Nat)
  BY NatLessThanWellFounded
<1>2. PICK n \in S : \A m \in S : ~(<<m, n>> \in OpToRel(<, Nat))
  BY <1>1, WFMin, Zenon
<1>3. \A m \in S : ~(m < n)
  BY <1>2 DEF OpToRel
<1>4. \A m \in S : n \in Nat /\ m \in Nat
  OBVIOUS
<1>5. \A m \in S : n <= m
  BY <1>3, <1>4
<1> QED BY <1>5

(* As it is used: a set that holds zero and, with a number, the next below a *)
(* bound, holds all up to the bound.                                         *)
LEMMA UpwardClosed ==
  ASSUME NEW b \in Nat, NEW S, 0 \in S, \A n \in Nat : n < b /\ n \in S => n + 1 \in S
  PROVE  \A n \in 0..b : n \in S
<1> DEFINE T == {n \in 0..b : n \notin S}
<1>1. SUFFICES ASSUME T # {} PROVE FALSE
  OBVIOUS
<1>2. T \subseteq Nat
  OBVIOUS
<1>3. PICK n \in T : \A m \in T : n <= m
  BY <1>1, <1>2, LeastElement
<1>4. n \in 0..b /\ n \notin S /\ n # 0
  BY <1>3
<1>5. n - 1 \in Nat /\ n - 1 < b /\ n - 1 \in 0..b /\ ~(n <= n - 1)
  BY <1>4
<1>6. n - 1 \in S
  BY <1>3, <1>5
<1>7. (n - 1) + 1 \in S
  BY <1>5, <1>6
<1> QED BY <1>4, <1>7

LEMMA CountZero ==
  ASSUME NEW S
  PROVE  CountUpTo(S, 0) = 0
<1>1. S \cap (1..0) = {}
  OBVIOUS
<1> QED BY <1>1, FS_EmptySet DEF CountUpTo

LEMMA CountType ==
  ASSUME NEW S, NEW n \in Nat
  PROVE  IsFiniteSet(S \cap (1..n)) /\ CountUpTo(S, n) \in 0..n
<1>1. IsFiniteSet(1..n) /\ Cardinality(1..n) = n
  <2>1. 1 \in Int /\ n \in Int
    OBVIOUS
  <2> QED BY <2>1, FS_Interval
<1>2. S \cap (1..n) \in SUBSET (1..n)
  OBVIOUS
<1>3. IsFiniteSet(S \cap (1..n)) /\ Cardinality(S \cap (1..n)) <= n
  BY <1>1, <1>2, FS_Subset
<1>4. Cardinality(S \cap (1..n)) \in Nat
  BY <1>3, FS_CardinalityType
<1> QED BY <1>3, <1>4 DEF CountUpTo

LEMMA CountNext ==
  ASSUME NEW S, NEW n \in Nat
  PROVE  CountUpTo(S, n + 1) = CountUpTo(S, n) + (IF n + 1 \in S THEN 1 ELSE 0)
<1>1. IsFiniteSet(S \cap (1..n)) /\ CountUpTo(S, n) \in Nat
  BY CountType
<1>2. CASE n + 1 \in S
  <2>1. S \cap (1..n + 1) = (S \cap (1..n)) \cup {n + 1} /\ n + 1 \notin S \cap (1..n)
    BY <1>2
  <2> QED BY <1>1, <1>2, <2>1, FS_AddElement DEF CountUpTo
<1>3. CASE n + 1 \notin S
  <2>1. S \cap (1..n + 1) = S \cap (1..n)
    BY <1>3
  <2> QED BY <1>1, <1>3, <2>1 DEF CountUpTo
<1> QED BY <1>2, <1>3

(* Over a stretch that is all in the set, or all out of it. *)
LEMMA CountStretch ==
  ASSUME NEW S, NEW n \in Nat, NEW k \in Nat
  PROVE  /\ (\A i \in 1..k : n + i \in S) => CountUpTo(S, n + k) = CountUpTo(S, n) + k
         /\ (\A i \in 1..k : n + i \notin S) => CountUpTo(S, n + k) = CountUpTo(S, n)
<1>1. CountUpTo(S, n) \in Nat
  <2>1. CountUpTo(S, n) \in 0..n
    BY CountType
  <2> QED BY <2>1
<1>2. ASSUME \A i \in 1..k : n + i \in S
      PROVE  CountUpTo(S, n + k) = CountUpTo(S, n) + k
  <2> DEFINE T == {j \in 0..k : CountUpTo(S, n + j) = CountUpTo(S, n) + j}
  <2>1. 0 \in T
    BY <1>1
  <2>2. ASSUME NEW j \in Nat, j < k, j \in T PROVE j + 1 \in T
    <3>1. n + j \in Nat /\ (n + j) + 1 = n + (j + 1) /\ j + 1 \in 1..k /\ j + 1 \in 0..k
      BY <2>2
    <3>2. CountUpTo(S, n + (j + 1)) = CountUpTo(S, n + j) + 1
      BY <1>2, <3>1, CountNext
    <3> QED BY <1>1, <2>2, <3>1, <3>2
  <2>3. \A j \in 0..k : j \in T
    <3> HIDE DEF T
    <3> QED BY <2>1, <2>2, UpwardClosed
  <2> QED BY <2>3
<1>3. ASSUME \A i \in 1..k : n + i \notin S
      PROVE  CountUpTo(S, n + k) = CountUpTo(S, n)
  <2>1. S \cap (1..n + k) = S \cap (1..n)
    <3>1. \A i \in (1..n + k) \ (1..n) : i - n \in 1..k /\ n + (i - n) = i
      OBVIOUS
    <3> QED BY <1>3, <3>1
  <2> QED BY <2>1 DEF CountUpTo
<1> QED BY <1>2, <1>3

LEMMA CountMonotonic ==
  ASSUME NEW S, NEW m \in Nat, NEW n \in Nat, m <= n
  PROVE  /\ CountUpTo(S, m) <= CountUpTo(S, n)
         /\ CountUpTo(S, n) = CountUpTo(S, m) => \A i \in m + 1..n : i \notin S
<1>1. IsFiniteSet(S \cap (1..n)) /\ S \cap (1..m) \in SUBSET (S \cap (1..n))
  BY CountType
<1>2. /\ CountUpTo(S, m) <= CountUpTo(S, n)
      /\ CountUpTo(S, n) = CountUpTo(S, m) => S \cap (1..n) = S \cap (1..m)
  BY <1>1, FS_Subset DEF CountUpTo
<1> QED BY <1>2

(* Two elements are never counted alike, and none is skipped. *)
LEMMA CountUnique ==
  ASSUME NEW S, NEW i \in Nat \ {0}, NEW j \in Nat \ {0}, i \in S, j \in S,
         CountUpTo(S, i) = CountUpTo(S, j)
  PROVE  i = j
<1>1. ASSUME NEW m \in Nat, NEW n \in Nat \ {0}, m < n, n \in S
      PROVE  CountUpTo(S, m) # CountUpTo(S, n)
  <2>1. m <= n /\ n \in m + 1..n
    BY <1>1
  <2> QED BY <1>1, <2>1, CountMonotonic
<1>2. i < j \/ j < i \/ i = j
  OBVIOUS
<1> QED BY <1>1, <1>2

LEMMA CountReaches ==
  ASSUME NEW S, NEW m \in Nat, NEW n \in 1..CountUpTo(S, m)
  PROVE  \E i \in S \cap (1..m) : CountUpTo(S, i) = n
<1>1. CountUpTo(S, 0) = 0 /\ \A i \in Nat : CountUpTo(S, i) \in Nat
  <2>1. ASSUME NEW i \in Nat PROVE CountUpTo(S, i) \in Nat
    <3>1. CountUpTo(S, i) \in 0..i
      BY CountType
    <3> QED BY <3>1
  <2> QED BY <2>1, CountZero
<1> DEFINE T == {i \in 0..m : CountUpTo(S, i) < n}
<1>2. 0 \in T /\ m \notin T
  BY <1>1
<1> HIDE DEF T
<1>3. PICK i \in Nat : i < m /\ i \in T /\ i + 1 \notin T
  BY <1>2, UpwardClosed
<1>4. CountUpTo(S, i + 1) = CountUpTo(S, i) + (IF i + 1 \in S THEN 1 ELSE 0)
  BY CountNext
<1>5. i + 1 \in 1..m /\ CountUpTo(S, i) < n /\ ~(CountUpTo(S, i + 1) < n)
  BY <1>3 DEF T
<1>6. CountUpTo(S, i) \in Nat /\ CountUpTo(S, i + 1) \in Nat
  BY <1>1
<1> QED BY <1>4, <1>5, <1>6

(* Only the elements up to n count. *)
LEMMA CountAgree ==
  ASSUME NEW S, NEW T, NEW n \in Nat, \A i \in 1..n : i \in S <=> i \in T
  PROVE  CountUpTo(S, n) = CountUpTo(T, n)
<1>1. S \cap (1..n) = T \cap (1..n)
  OBVIOUS
<1> QED BY <1>1 DEF CountUpTo
------------------------------------------------------------------------------
(* Any two sequences are sequences over one set. *)
LEMMA CommonSet ==
  ASSUME NEW a, NEW b, NEW c, IsSequence(a), IsSequence(b), IsSequence(c)
  PROVE  \E T : a \in Seq(T) /\ b \in Seq(T) /\ c \in Seq(T)
<1> DEFINE Ran(s) == {s[i] : i \in DOMAIN s}
           T == Ran(a) \cup Ran(b) \cup Ran(c)
<1>1. a \in Seq(Ran(a)) /\ b \in Seq(Ran(b)) /\ c \in Seq(Ran(c))
  BY DEF IsSequence
<1>2. Ran(a) \subseteq T /\ Ran(b) \subseteq T /\ Ran(c) \subseteq T
  OBVIOUS
<1> HIDE DEF Ran, T
<1>3. a \in Seq(T) /\ b \in Seq(T) /\ c \in Seq(T)
  BY <1>1, <1>2, SeqMonotonic
<1> QED BY <1>3

LEMMA SeqIsSequence ==
  ASSUME NEW T, NEW s \in Seq(T)
  PROVE  IsSequence(s)
<1>1. s \in Seq(Range(s))
  BY SeqOfRange
<1> QED BY <1>1 DEF IsSequence, Range

LEMMA SingletonIsSequence ==
  ASSUME NEW x
  PROVE  IsSequence(<<x>>) /\ Len(<<x>>) = 1 /\ <<x>> # <<>>
<1>1. <<x>> \in Seq({x})
  OBVIOUS
<1>2. IsSequence(<<x>>)
  BY ONLY <1>1, SeqIsSequence
<1> QED BY <1>2

LEMMA EmptyIsSequence == IsSequence(<<>>) /\ Len(<<>>) = 0
BY SeqIsSequence, EmptySeq

LEMMA SequenceLen ==
  ASSUME NEW s, IsSequence(s)
  PROVE  Len(s) \in Nat /\ DOMAIN s = 1..Len(s) /\ (s = <<>> <=> Len(s) = 0)
<1>1. PICK T : s \in Seq(T)
  BY DEF IsSequence
<1>2. Len(s) \in Nat /\ DOMAIN s = 1..Len(s)
  BY <1>1, LenProperties
<1>3. s # <<>> => Len(s) \in Nat \ {0}
  BY <1>1, EmptySeq
<1>4. Len(<<>>) = 0
  OBVIOUS
<1> QED BY <1>2, <1>3, <1>4

LEMMA AppendSequence ==
  ASSUME NEW s, IsSequence(s), NEW x
  PROVE  /\ IsSequence(Append(s, x))
         /\ Len(Append(s, x)) = Len(s) + 1
         /\ \A i \in 1..Len(s) : Append(s, x)[i] = s[i]
         /\ Append(s, x)[Len(s) + 1] = x
         /\ Append(s, x) = s \o <<x>>
<1>1. PICK T : s \in Seq(T)
  BY DEF IsSequence
<1> DEFINE U == T \cup {x}
<1>2. s \in Seq(U) /\ x \in U
  BY <1>1, SeqMonotonic
<1> HIDE DEF U
<1>3. /\ Append(s, x) \in Seq(U)
      /\ Len(Append(s, x)) = Len(s) + 1
      /\ \A i \in 1..Len(s) : Append(s, x)[i] = s[i]
      /\ Append(s, x)[Len(s) + 1] = x
  BY <1>2, AppendProperties
<1>4. IsSequence(Append(s, x))
  BY ONLY <1>3, SeqIsSequence
<1>5. Append(s, x) = s \o <<x>>
  BY ONLY <1>2, AppendIsConcat
<1> QED BY <1>3, <1>4, <1>5

LEMMA AppendSame ==
  ASSUME NEW s, IsSequence(s), NEW t, IsSequence(t), NEW x, NEW y
  PROVE  Append(s, x) = Append(t, y) <=> s = t /\ x = y
<1>1. PICK T : s \in Seq(T) /\ t \in Seq(T)
  BY CommonSet
<1> DEFINE U == T \cup {x, y}
<1>2. s \in Seq(U) /\ t \in Seq(U) /\ x \in U /\ y \in U
  BY <1>1, SeqMonotonic
<1> HIDE DEF U
<1> QED BY ONLY <1>2, AppendInjective

LEMMA ConcatSequence ==
  ASSUME NEW s, IsSequence(s), NEW t, IsSequence(t)
  PROVE  /\ IsSequence(s \o t)
         /\ Len(s \o t) = Len(s) + Len(t)
         /\ \A i \in 1..Len(s) : (s \o t)[i] = s[i]
         /\ \A i \in 1..Len(t) : (s \o t)[Len(s) + i] = t[i]
<1>1. PICK T : s \in Seq(T) /\ t \in Seq(T)
  BY CommonSet
<1>2. /\ s \o t \in Seq(T)
      /\ Len(s \o t) = Len(s) + Len(t)
      /\ \A i \in 1..Len(s) + Len(t) : (s \o t)[i] = IF i <= Len(s) THEN s[i] ELSE t[i - Len(s)]
  BY ONLY <1>1, ConcatProperties
<1>3. IsSequence(s \o t)
  BY ONLY <1>2, SeqIsSequence
<1>4. Len(s) \in Nat /\ Len(t) \in Nat
  BY SequenceLen
<1>5. \A i \in 1..Len(s) : (s \o t)[i] = s[i]
  BY <1>2, <1>4
<1>6. ASSUME NEW i \in 1..Len(t) PROVE (s \o t)[Len(s) + i] = t[i]
  <2>1. Len(s) + i \in 1..Len(s) + Len(t) /\ ~(Len(s) + i <= Len(s)) /\ (Len(s) + i) - Len(s) = i
    BY <1>4
  <2> QED BY <1>2, <2>1
<1> QED BY <1>2, <1>3, <1>5, <1>6
------------------------------------------------------------------------------
(* A sequence of sequences is flattened one after the other. *)
LEMMA FlattenParts ==
  ASSUME NEW T, NEW ss \in Seq(Seq(T))
  PROVE  \E Q : /\ Q[0] = <<>> /\ FlattenSeq(ss) = Q[Len(ss)]
                /\ \A k \in 0..Len(ss) : Q[k] \in Seq(T)
                /\ \A k \in 0..Len(ss) - 1 : Q[k + 1] = Q[k] \o ss[k + 1]
<1> DEFINE n == Len(ss)
           Part(f, i) == IF i = 1 THEN ss[i] ELSE f[i - 1] \o ss[i]
           Is(f, k) == f = [i \in 1..k |-> Part(f, i)]
           F == CHOOSE f : Is(f, n)
           Q == [k \in 0..n |-> IF k = 0 THEN <<>> ELSE F[k]]
<1>1. n \in Nat /\ \A i \in 1..n : ss[i] \in Seq(T)
  OBVIOUS
<1>2. \E f : Is(f, n)
  <2> DEFINE Has(k) == \E f : Is(f, k)
             S == {k \in Nat : Has(k)}
  <2>1. 0 \in S
    <3>1. Is(<<>>, 0)
      OBVIOUS
    <3>2. Has(0)
      BY <3>1
    <3> HIDE DEF Has
    <3> QED BY <3>2
  <2>2. ASSUME NEW k \in Nat, k < n, k \in S PROVE k + 1 \in S
    <3>1. PICK f : Is(f, k)
      BY <2>2
    <3> DEFINE g == [i \in 1..k + 1 |-> Part(f, i)]
    <3>2. \A i \in 1..k + 1 : Part(g, i) = Part(f, i)
      <4>1. ASSUME NEW i \in 1..k + 1 PROVE Part(g, i) = Part(f, i)
        <5>1. CASE i = 1
          BY <5>1
        <5>2. CASE i # 1
          <6>1. i - 1 \in 1..k /\ i - 1 \in 1..k + 1
            BY <5>2
          <6>2. g[i - 1] = f[i - 1]
            <7>1. f[i - 1] = Part(f, i - 1)
              BY <3>1, <6>1
            <7> QED BY <6>1, <7>1
          <6> HIDE DEF g
          <6> QED BY <5>2, <6>2
        <5> QED BY <5>1, <5>2
      <4> QED BY <4>1
    <3>3. Is(g, k + 1)
      <4>1. g = [i \in 1..k + 1 |-> Part(g, i)]
        BY <3>2
      <4> QED BY <4>1
    <3> HIDE DEF g
    <3>4. Has(k + 1)
      BY <3>3
    <3> HIDE DEF Has
    <3> QED BY <3>4
  <2> HIDE DEF S
  <2>3. n \in S
    <3>1. \A k \in 0..n : k \in S
      BY <1>1, <2>1, <2>2, UpwardClosed
    <3> QED BY <1>1, <3>1
  <2> QED BY <2>3 DEF S
<1>3. Is(F, n)
  BY <1>2
<1>4. FlattenSeq(ss) = Q[n] /\ Q[0] = <<>>
  BY <1>1 DEF FlattenSeq
<1> HIDE DEF F
<1>5. ASSUME NEW k \in 0..n - 1, Q[k] \in Seq(T) PROVE Q[k + 1] = Q[k] \o ss[k + 1] /\ Q[k + 1] \in Seq(T)
  <2>1. k + 1 \in 1..n /\ k + 1 \in 0..n /\ k \in 0..n /\ k + 1 # 0 /\ ss[k + 1] \in Seq(T)
    BY <1>1
  <2>2. F[k + 1] = Part(F, k + 1) /\ Q[k + 1] = F[k + 1]
    BY <1>3, <2>1
  <2>3. CASE k = 0
    <3>1. Q[k] = <<>> /\ F[k + 1] = ss[k + 1]
      BY <1>1, <2>2, <2>3
    <3>2. <<>> \o ss[k + 1] = ss[k + 1]
      BY ONLY <2>1, ConcatEmptySeq
    <3> HIDE DEF Q
    <3> QED BY <2>1, <2>2, <3>1, <3>2
  <2>4. CASE k # 0
    <3>1. k + 1 # 1 /\ (k + 1) - 1 = k /\ Q[k] = F[k]
      <4>1. Q[k] = IF k = 0 THEN <<>> ELSE F[k]
        BY <2>1
      <4>2. n \in Nat
        BY <1>1
      <4> HIDE DEF n, Q
      <4>3. k \in Nat
        BY <4>2
      <4> QED BY <2>4, <4>1, <4>3
    <3>2. F[k + 1] = F[(k + 1) - 1] \o ss[k + 1]
      BY <2>2, <3>1
    <3>3. Q[k + 1] = Q[k] \o ss[k + 1]
      BY <2>2, <3>1, <3>2
    <3> HIDE DEF Q
    <3>4. Q[k] \o ss[k + 1] \in Seq(T)
      BY ONLY <1>5, <2>1, ConcatProperties
    <3> QED BY <3>3, <3>4
  <2> QED BY <2>3, <2>4
<1> HIDE DEF Q
<1> DEFINE S == {k \in Nat : k <= n => Q[k] \in Seq(T)}
<1>6. 0 \in S
  BY <1>4, EmptySeq
<1>7. ASSUME NEW k \in Nat, k < n, k \in S PROVE k + 1 \in S
  <2>1. k \in 0..n - 1 /\ k <= n /\ k + 1 \in Nat
    BY <1>1, <1>7
  <2>2. Q[k] \in Seq(T)
    BY <1>7, <2>1
  <2>3. Q[k + 1] \in Seq(T)
    BY <1>5, <2>1, <2>2
  <2> QED BY <2>1, <2>3
<1> HIDE DEF S
<1>8. \A k \in 0..n : Q[k] \in Seq(T)
  <2>1. \A k \in 0..n : k \in S
    BY <1>1, <1>6, <1>7, UpwardClosed
  <2> QED BY <1>1, <2>1 DEF S
<1>9. \A k \in 0..n - 1 : k \in 0..n
  BY <1>1
<1> QED BY <1>4, <1>5, <1>8, <1>9

(* What is flattened is a sequence again. *)
LEMMA FlattenSeqOK ==
  ASSUME NEW T, NEW ss \in Seq(Seq(T))
  PROVE  FlattenSeq(ss) \in Seq(T)
<1>1. Len(ss) \in 0..Len(ss)
  OBVIOUS
<1> QED BY <1>1, FlattenParts
------------------------------------------------------------------------------
(* A nonempty bounded set has a greatest element. *)
LEMMA MaxIs ==
  ASSUME NEW b \in Nat, NEW S, S \subseteq 0..b, S # {}
  PROVE  Max(S) \in S /\ \A n \in S : n <= Max(S)
<1> DEFINE R == {b - n : n \in S}
<1>1. R \subseteq Nat /\ R # {}
  <2>1. PICK y \in S : b - y \in R
    OBVIOUS
  <2> QED BY <2>1
<1>2. PICK r \in R : \A m \in R : r <= m
  BY <1>1, LeastElement
<1>3. PICK x \in S : r = b - x
  BY <1>2
<1>4. \A y \in S : x >= y
  <2>1. ASSUME NEW y \in S PROVE x >= y
    <3>1. b - y \in R /\ b - x <= b - y
      BY <1>2, <1>3
    <3> QED BY <3>1
  <2> QED BY <2>1
<1> HIDE DEF R
<1>5. Max(S) \in S /\ \A y \in S : Max(S) >= y
  BY <1>4 DEF Max
<1> QED BY <1>5

(* What a fold over the places 1..n goes through, from one set of them to    *)
(* the next: it exists, and stays in T.                                      *)
FoldsBy(it, n, base, G) == \A s \in SUBSET (1..n) :
  it[s] = IF s = {} THEN base ELSE G[<<it[s \ {Max(s)}], Max(s)>>]

(* A fold that takes the greatest place last is well defined. *)
LEMMA FoldExists ==
  ASSUME NEW T, NEW n \in Nat, NEW base \in T, NEW G \in [T \X (1..n) -> T]
  PROVE  \E it \in [SUBSET (1..n) -> T] : FoldsBy(it, n, base, G)
<1> DEFINE Next1(it, s) == IF s = {} THEN base ELSE G[<<it[s \ {Max(s)}], Max(s)>>]
           Is(it, k) == /\ it \in [SUBSET (1..k) -> T]
                        /\ it = [s \in SUBSET (1..k) |-> Next1(it, s)]
           Has(k) == \E it : Is(it, k)
           S == {k \in Nat : Has(k)}
<1>1. 0 \in S
  <2> DEFINE it == [s \in SUBSET (1..0) |-> base]
  <2>1. \A s \in SUBSET (1..0) : s = {}
    OBVIOUS
  <2>2. Is(it, 0)
    BY <2>1
  <2>3. Has(0)
    BY <2>2
  <2> HIDE DEF Has
  <2> QED BY <2>3
<1>2. ASSUME NEW k \in Nat, k < n, k \in S PROVE k + 1 \in S
  <2>1. PICK it : Is(it, k)
    BY <1>2
  <2> DEFINE h == [s \in SUBSET (1..k + 1) |-> Next1(it, s)]
  <2>2. ASSUME NEW s \in SUBSET (1..k + 1), s # {}
        PROVE  Max(s) \in s /\ Max(s) \in 1..n /\ s \ {Max(s)} \in SUBSET (1..k)
    <3>1. s \subseteq 0..k + 1 /\ k + 1 \in Nat
      OBVIOUS
    <3>2. Max(s) \in s /\ \A m \in s : m <= Max(s)
      BY <2>2, <3>1, MaxIs
    <3>3. PICK top : top = Max(s)
      OBVIOUS
    <3>4. top \in s /\ \A m \in s : m <= top
      BY <3>2, <3>3
    <3>5. top \in 1..k + 1 /\ \A m \in s : m \in 1..k + 1
      BY <3>4
    <3>6. \A m \in s \ {top} : m \in 1..k
      BY <3>4, <3>5
    <3>7. top \in 1..n
      BY <1>2, <3>5
    <3> QED BY <3>3, <3>4, <3>6, <3>7
  <2>3. \A s \in SUBSET (1..k) : h[s] = it[s]
    <3>1. ASSUME NEW s \in SUBSET (1..k) PROVE h[s] = it[s]
      <4>1. it[s] = Next1(it, s)
        BY <2>1
      <4>2. s \in SUBSET (1..k + 1)
        OBVIOUS
      <4> QED BY <4>1, <4>2
    <3> QED BY <3>1
  <2>4. \A s \in SUBSET (1..k + 1) : Next1(it, s) \in T
    <3>1. ASSUME NEW s \in SUBSET (1..k + 1), s # {} PROVE G[<<it[s \ {Max(s)}], Max(s)>>] \in T
      <4>1. it[s \ {Max(s)}] \in T /\ Max(s) \in 1..n
        BY <2>1, <2>2, <3>1
      <4> QED BY <4>1
    <3> QED BY <3>1
  <2>5. \A s \in SUBSET (1..k + 1) : Next1(h, s) = Next1(it, s)
    <3>1. ASSUME NEW s \in SUBSET (1..k + 1), s # {} PROVE h[s \ {Max(s)}] = it[s \ {Max(s)}]
      <4>1. s \ {Max(s)} \in SUBSET (1..k)
        BY <2>2, <3>1
      <4> HIDE DEF h
      <4> QED BY <2>3, <4>1
    <3> HIDE DEF h
    <3> QED BY <3>1
  <2>6. h \in [SUBSET (1..k + 1) -> T]
    <3> HIDE DEF Next1
    <3> QED BY <2>4
  <2>7. h = [s \in SUBSET (1..k + 1) |-> Next1(h, s)]
    <3>1. h = [s \in SUBSET (1..k + 1) |-> Next1(it, s)]
      OBVIOUS
    <3> HIDE DEF Next1, h
    <3> QED BY <2>5, <3>1
  <2> HIDE DEF h, Next1
  <2>8. Is(h, k + 1)
    BY <2>6, <2>7
  <2>9. Has(k + 1)
    BY <2>8
  <2> HIDE DEF Has
  <2> QED BY <2>9
<1> HIDE DEF S
<1>3. n \in S
  <2>1. \A k \in 0..n : k \in S
    BY <1>1, <1>2, UpwardClosed
  <2> QED BY <2>1
<1>4. Has(n)
  BY <1>3 DEF S
<1>5. PICK it \in [SUBSET (1..n) -> T] : it = [s \in SUBSET (1..n) |-> Next1(it, s)]
  BY <1>4
<1>6. FoldsBy(it, n, base, G)
  BY <1>5 DEF FoldsBy
<1> QED BY <1>6

(* Such a fold over all of 1..n takes one place after the other. *)
LEMMA FoldParts ==
  ASSUME NEW n \in Nat, NEW base, NEW G, NEW it, FoldsBy(it, n, base, G)
  PROVE  /\ it[1..0] = base
         /\ \A k \in 0..n - 1 : it[1..k + 1] = G[<<it[1..k], k + 1>>]
<1>1. it[1..0] = base
  <2>1. {} \in SUBSET (1..n) /\ 1..0 = {}
    OBVIOUS
  <2> QED BY <2>1 DEF FoldsBy
<1>2. ASSUME NEW k \in 0..n - 1 PROVE it[1..k + 1] = G[<<it[1..k], k + 1>>]
  <2> DEFINE s == 1..k + 1
  <2>1. k + 1 \in s /\ s \subseteq 0..n /\ s \subseteq 1..n /\ s \ {k + 1} = 1..k
    OBVIOUS
  <2>2. \A m \in s : m <= k + 1 /\ m \in Nat
    OBVIOUS
  <2> HIDE DEF s
  <2>3. s # {}
    BY <2>1
  <2>4. Max(s) \in s /\ \A m \in s : m <= Max(s)
    BY <2>1, <2>3, MaxIs
  <2>5. Max(s) <= k + 1 /\ k + 1 <= Max(s) /\ Max(s) \in Nat
    BY <2>1, <2>2, <2>4
  <2>6. Max(s) = k + 1
    BY <2>5
  <2>7. it[s] = G[<<it[s \ {Max(s)}], Max(s)>>]
    BY <2>1, <2>3 DEF FoldsBy
  <2>8. it[s] = G[<<it[1..k], k + 1>>]
    BY <2>1, <2>6, <2>7
  <2> QED BY <2>8 DEF s
<1> QED BY <1>1, <1>2
------------------------------------------------------------------------------
(* A function on the naturals may be given by its value at zero and a step.  *)
StartsAndSteps(f, base, G) == f[0] = base /\ \A n \in Nat : f[n + 1] = G[f[n]]

LEMMA RecursionExists ==
  ASSUME NEW T, NEW base \in T, NEW G \in [T -> T]
  PROVE  \E f \in [Nat -> T] : StartsAndSteps(f, base, G)
<1> DEFINE Is(g, k) == /\ g \in [0..k -> T] /\ g[0] = base
                       /\ \A n \in 0..k - 1 : g[n + 1] = G[g[n]]
           Has(k) == \E g : Is(g, k)
           S == {k \in Nat : Has(k)}
<1>1. 0 \in S
  <2> DEFINE g == [i \in 0..0 |-> base]
  <2>1. Is(g, 0)
    OBVIOUS
  <2> HIDE DEF g, Is
  <2> QED BY <2>1
<1>2. ASSUME NEW k \in Nat, k \in S PROVE k + 1 \in S
  <2>1. PICK g : Is(g, k)
    BY <1>2
  <2> DEFINE h == [i \in 0..k + 1 |-> IF i = k + 1 THEN G[g[k]] ELSE g[i]]
  <2>2. k \in 0..k /\ k + 1 \in 0..k + 1 /\ 0 \in 0..k
    OBVIOUS
  <2>3. h \in [0..k + 1 -> T]
    BY <2>1, <2>2
  <2>4. h[0] = base
    BY <2>1, <2>2
  <2>5. ASSUME NEW n \in 0..(k + 1) - 1 PROVE h[n + 1] = G[h[n]]
    <3>1. n \in 0..k /\ n \in 0..k + 1 /\ n + 1 \in 0..k + 1 /\ n # k + 1
      OBVIOUS
    <3>2. CASE n = k
      BY <3>1, <3>2
    <3>3. CASE n # k
      <4>1. n \in 0..k - 1 /\ n + 1 # k + 1
        BY <3>1, <3>3
      <4> QED BY <2>1, <3>1, <4>1
    <3> QED BY <3>2, <3>3
  <2> HIDE DEF h
  <2>6. Is(h, k + 1)
    BY <2>3, <2>4, <2>5
  <2> HIDE DEF Is
  <2> QED BY <2>6
<1>3. \A k \in Nat : k \in S
  <2>1. ASSUME NEW k \in Nat PROVE k \in S
    <3> HIDE DEF S
    <3>1. \A n \in 0..k : n \in S
      BY <1>1, <1>2, UpwardClosed
    <3> QED BY <3>1
  <2> QED BY <2>1
<1>4. \A k \in Nat : Has(k)
  BY <1>3
<1> DEFINE g(k) == CHOOSE x : Is(x, k)
<1>5. \A k \in Nat : Is(g(k), k)
  BY <1>4
<1> HIDE DEF g, S, Has
(* Two of them agree as far as the shorter one goes. *)
<1>6. ASSUME NEW k \in Nat PROVE g(k + 1)[k] = g(k)[k]
  <2>1. Is(g(k), k) /\ Is(g(k + 1), k + 1)
    BY <1>5
  <2> DEFINE E == {i \in 0..k : g(k + 1)[i] = g(k)[i]}
  <2>2. 0 \in E
    BY <2>1
  <2>3. ASSUME NEW i \in Nat, i < k, i \in E PROVE i + 1 \in E
    <3>1. i \in 0..k - 1 /\ i \in 0..(k + 1) - 1 /\ i + 1 \in 0..k
      BY <2>3
    <3>2. g(k)[i + 1] = G[g(k)[i]] /\ g(k + 1)[i + 1] = G[g(k + 1)[i]]
      BY <2>1, <3>1
    <3> QED BY <2>3, <3>1, <3>2
  <2> HIDE DEF E
  <2>4. \A i \in 0..k : i \in E
    BY <2>2, <2>3, UpwardClosed
  <2> QED BY <2>4 DEF E
<1> DEFINE f == [k \in Nat |-> g(k)[k]]
<1>7. f[0] = base
  BY <1>5
<1>8. ASSUME NEW n \in Nat PROVE f[n + 1] = G[f[n]]
  <2>1. Is(g(n + 1), n + 1) /\ n \in 0..(n + 1) - 1
    BY <1>5
  <2>2. g(n + 1)[n + 1] = G[g(n + 1)[n]]
    BY <2>1
  <2> HIDE DEF Is
  <2> QED BY <1>6, <2>2
<1>9. f \in [Nat -> T]
  <2>1. ASSUME NEW k \in Nat PROVE g(k)[k] \in T
    <3>1. Is(g(k), k) /\ k \in 0..k
      BY <1>5
    <3> QED BY <3>1
  <2> QED BY <2>1
<1> HIDE DEF f, Is
<1> QED BY <1>7, <1>8, <1>9 DEF StartsAndSteps

(* What holds of no places, and with some of any one more, holds of any set  *)
(* of the places 1..n.                                                       *)
LEMMA SubsetsByOne ==
  ASSUME NEW n \in Nat, NEW P, {} \in P,
         \A A \in P, k \in 1..n : A \subseteq 1..k - 1 => A \cup {k} \in P
  PROVE  \A A \in SUBSET (1..n) : A \in P
<1> DEFINE S == {k \in 0..n : \A A \in SUBSET (1..k) : A \in P}
<1>1. 0 \in S
  <2>1. ASSUME NEW A \in SUBSET (1..0) PROVE A \in P
    <3>1. A = {}
      OBVIOUS
    <3> QED BY <3>1
  <2>2. 0 \in 0..n
    OBVIOUS
  <2> QED BY <2>1, <2>2
<1>2. ASSUME NEW k \in Nat, k < n, k \in S PROVE k + 1 \in S
  <2>1. ASSUME NEW A \in SUBSET (1..k + 1) PROVE A \in P
    <3>1. CASE k + 1 \notin A
      <4>1. A \in SUBSET (1..k)
        BY <3>1
      <4> QED BY <1>2, <4>1
    <3>2. CASE k + 1 \in A
      <4> DEFINE B == A \ {k + 1}
      <4>1. B \in SUBSET (1..k) /\ A = B \cup {k + 1} /\ (k + 1) - 1 = k /\ k + 1 \in 1..n
        BY <1>2, <3>2
      <4>2. B \in P
        BY <1>2, <4>1
      <4> HIDE DEF B
      <4> QED BY <4>1, <4>2
    <3> QED BY <3>1, <3>2
  <2> QED BY <1>2, <2>1
<1> HIDE DEF S
<1>3. \A k \in 0..n : k \in S
  BY <1>1, <1>2, UpwardClosed
<1>4. n \in S
  BY <1>3
<1> QED BY <1>4 DEF S
==============================================================================
