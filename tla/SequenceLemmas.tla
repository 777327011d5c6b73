----------------------------- MODULE SequenceLemmas -----------------------------
(***************************************************************************)
(* Lemmas about sequences, whatever they consist of, and about recursive   *)
(* functions, on which the proofs of several modules rest.                 *)
(***************************************************************************)
EXTENDS Integers, SequencesExt, TLAPS, SequenceTheorems, FiniteSetTheorems,
        WellFoundedInduction

\* s is a sequence, of whatever
IsSequence(s) == s \in Seq(Range(s))

LEMMA SequenceShape ==
  ASSUME NEW s, IsSequence(s)
  PROVE  /\ Len(s) \in Nat
         /\ DOMAIN s = 1..Len(s)
         /\ Range(s) = {s[i] : i \in 1..Len(s)}
         /\ s = <<>> <=> Len(s) = 0
BY DEF IsSequence, Range

LEMMA SequenceOf ==
  ASSUME NEW S, NEW s \in Seq(S)
  PROVE  IsSequence(s) /\ Range(s) \subseteq S
<1>1. s \in [1..Len(s) -> Range(s)] /\ Len(s) \in Nat
  BY DEF Range
<1> QED
  BY <1>1 DEF IsSequence, Range

LEMMA EmptySequence == IsSequence(<<>>) /\ Range(<<>>) = {} /\ Len(<<>>) = 0
BY DEF IsSequence, Range

LEMMA AppendSequence ==
  ASSUME NEW s, NEW x, IsSequence(s)
  PROVE  /\ IsSequence(Append(s, x))
         /\ Range(Append(s, x)) = Range(s) \cup {x}
         /\ Len(Append(s, x)) = Len(s) + 1
         /\ \A i \in 1..Len(s) : Append(s, x)[i] = s[i]
         /\ Append(s, x)[Len(s) + 1] = x
         /\ Last(Append(s, x)) = x
<1> DEFINE T == Range(s) \cup {x}
           t == Append(s, x)
<1>1. s \in Seq(T) /\ x \in T
  BY SeqMonotonic DEF IsSequence
<1> HIDE DEF T
<1>2. /\ t \in Seq(T) /\ Len(t) = Len(s) + 1
      /\ \A i \in 1..Len(s) : t[i] = s[i]
      /\ t[Len(s) + 1] = x
  BY <1>1, AppendProperties
<1>3. Range(s) = {s[i] : i \in 1..Len(s)} /\ Range(t) = {t[i] : i \in 1..Len(t)} /\ Len(s) \in Nat
  BY <1>1, <1>2 DEF Range
<1>4. Range(t) = Range(s) \cup {x}
  BY <1>2, <1>3
<1>5. IsSequence(t)
  BY <1>2, SequenceOf
<1> HIDE DEF t
<1>6. Last(t) = x
  BY <1>2 DEF Last
<1> QED
  BY <1>2, <1>4, <1>5, <1>6 DEF t

LEMMA TailSequence ==
  ASSUME NEW s, IsSequence(s), s # <<>>
  PROVE  /\ IsSequence(Tail(s))
         /\ Range(Tail(s)) \subseteq Range(s)
         /\ Len(Tail(s)) = Len(s) - 1
         /\ DOMAIN Tail(s) = 1..(Len(s) - 1)
         /\ \A i \in 1..(Len(s) - 1) : Tail(s)[i] = s[i + 1] /\ i + 1 \in DOMAIN s
         /\ Head(s) = s[1] /\ 1 \in DOMAIN s
<1>1. Tail(s) \in Seq(Range(s)) /\ Len(Tail(s)) = Len(s) - 1
      /\ \A i \in 1..Len(Tail(s)) : Tail(s)[i] = s[i + 1]
  BY HeadTailProperties DEF IsSequence
<1>2. Len(s) \in Nat \ {0} /\ DOMAIN s = 1..Len(s) /\ Head(s) = s[1]
  BY SequenceShape
<1>3. IsSequence(Tail(s)) /\ Range(Tail(s)) \subseteq Range(s)
  BY <1>1, SequenceOf
<1>4. DOMAIN Tail(s) = 1..(Len(s) - 1)
  BY <1>1, <1>3, SequenceShape
<1>5. \A i \in 1..(Len(s) - 1) : i + 1 \in 1..Len(s)
  BY <1>2
<1> QED
  BY <1>1, <1>2, <1>3, <1>4, <1>5

LEMMA ConcatSequence ==
  ASSUME NEW s, NEW t, IsSequence(s), IsSequence(t)
  PROVE  /\ IsSequence(s \o t)
         /\ Range(s \o t) = Range(s) \cup Range(t)
         /\ Len(s \o t) = Len(s) + Len(t)
         /\ \A i \in 1..Len(s) : (s \o t)[i] = s[i]
         /\ \A i \in 1..Len(t) : (s \o t)[Len(s) + i] = t[i]
<1> DEFINE T == Range(s) \cup Range(t)
           u == s \o t
<1>1. s \in Seq(T) /\ t \in Seq(T)
  BY SeqMonotonic DEF IsSequence
<1> HIDE DEF T
<1>2. /\ u \in Seq(T) /\ Len(u) = Len(s) + Len(t)
      /\ \A i \in 1..Len(s) + Len(t) : u[i] = IF i <= Len(s) THEN s[i] ELSE t[i - Len(s)]
  BY <1>1, ConcatProperties
<1> HIDE DEF u
<1>3. Len(s) \in Nat /\ Len(t) \in Nat
  BY SequenceShape
<1>4. /\ \A i \in 1..Len(s) : u[i] = s[i]
      /\ \A i \in 1..Len(t) : u[Len(s) + i] = t[i]
  BY SMTT(60), <1>2, <1>3
<1>5. Range(u) = Range(s) \cup Range(t)
  <2>1. /\ Range(s) = {s[i] : i \in 1..Len(s)} /\ Range(t) = {t[i] : i \in 1..Len(t)}
        /\ Range(u) = {u[i] : i \in 1..Len(u)}
    BY <1>1, <1>2 DEF Range
  <2>2. ASSUME NEW i \in 1..Len(u) PROVE u[i] \in Range(s) \cup Range(t)
    BY <1>2, <1>3, <2>1, i <= Len(s) => i \in 1..Len(s), i > Len(s) => i - Len(s) \in 1..Len(t)
  <2>3. \A i \in 1..Len(s) : s[i] \in Range(u)
    BY <1>2, <1>3, <1>4, <2>1
  <2>4. \A i \in 1..Len(t) : t[i] \in Range(u)
    BY <1>2, <1>3, <1>4, <2>1, \A i \in 1..Len(t) : Len(s) + i \in 1..Len(u)
  <2> QED
    BY <2>1, <2>2, <2>3, <2>4
<1>6. IsSequence(u)
  BY <1>2, SequenceOf
<1> QED
  BY <1>2, <1>4, <1>5, <1>6 DEF u

-----------------------------------------------------------------------------
(* Induction                                                               *)

Less == OpToRel(<, Nat)

\* A set of numbers that has 0 and with every number the next has them all.
LEMMA Induction ==
  ASSUME NEW T, 0 \in T, \A n \in Nat : n \in T => n + 1 \in T
  PROVE  Nat \subseteq T
<1> SUFFICES ASSUME Nat \ T # {} PROVE FALSE
  OBVIOUS
<1>1. PICK n \in Nat \ T : \A k \in Nat \ T : ~ (<<k, n>> \in Less)
  BY NatLessThanWellFounded, WFMin DEF Less
<1>2. n - 1 \in Nat /\ n = (n - 1) + 1
  OBVIOUS
<1>3. <<n - 1, n>> \in Less
  BY <1>2 DEF Less, OpToRel
<1>4. n - 1 \in T
  BY <1>1, <1>2, <1>3
<1> QED
  BY <1>2, <1>4

\* A set of numbers with a bound has a largest.
LEMMA Largest ==
  ASSUME NEW S, S \subseteq Nat, S # {}, NEW n \in Nat, \A x \in S : x <= n
  PROVE  \E m \in S : \A x \in S : x <= m
<1> DEFINE T == {k \in Nat : \E x \in S : k <= x}
<1>1. 0 \in T /\ n + 1 \notin T
  <2>1. PICK x \in S : x \in Nat
    OBVIOUS
  <2>2. 0 <= x
    BY <2>1
  <2>3. 0 \in T
    BY <2>2
  <2>4. \A y \in S : y \in Nat /\ y <= n
    OBVIOUS
  <2>5. \A y \in S : ~(n + 1 <= y)
    BY <2>4
  <2> QED
    BY <2>3, <2>5
<1>2. PICK k \in Nat : k \in T /\ k + 1 \notin T
  <2> HIDE DEF T
  <2> QED
    BY <1>1, Induction
<1>3. PICK m \in S : k <= m
  BY <1>2
<1>4. \A x \in S : x \in Nat /\ ~(k + 1 <= x)
  BY <1>2
<1> QED
  BY <1>3, <1>4

\* A function on 0..n is defined by its first value and a step from each to the next.
LEMMA Recursion ==
  ASSUME NEW S, NEW first \in S, NEW n \in Nat, NEW step \in [1..n -> [S -> S]]
  PROVE  \E f \in [0..n -> S] : f[0] = first /\ \A i \in 1..n : f[i] = step[i][f[i - 1]]
<1> DEFINE Upto(m, f) == f[0] = first /\ \A i \in 1..m : f[i] = step[i][f[i - 1]]
           T == {m \in Nat : m <= n => \E f \in [0..m -> S] : Upto(m, f)}
<1>1. 0 \in T
  <2>1. [i \in 0..0 |-> first] \in [0..0 -> S] /\ Upto(0, [i \in 0..0 |-> first])
    OBVIOUS
  <2> QED
    BY <2>1
<1>2. ASSUME NEW m \in Nat, m \in T PROVE m + 1 \in T
  <2> SUFFICES ASSUME m + 1 <= n PROVE \E f \in [0..(m + 1) -> S] : Upto(m + 1, f)
    OBVIOUS
  <2>1. PICK f \in [0..m -> S] : Upto(m, f)
    BY <1>2
  <2> DEFINE g == [i \in 0..(m + 1) |-> IF i = m + 1 THEN step[m + 1][f[m]] ELSE f[i]]
  <2>2. m + 1 \in 1..n /\ f[m] \in S /\ step[m + 1][f[m]] \in S
    OBVIOUS
  <2>3. g \in [0..(m + 1) -> S]
    BY <2>2
  <2>4. \A i \in 0..m : g[i] = f[i]
    OBVIOUS
  <2>5. g[m + 1] = step[m + 1][f[m]]
    OBVIOUS
  <2> HIDE DEF g
  <2>6. ASSUME NEW i \in 1..(m + 1) PROVE g[i] = step[i][g[i - 1]]
    <3>1. CASE i = m + 1
      BY <2>4, <2>5, <3>1, i - 1 = m
    <3>2. CASE i \in 1..m
      BY <2>1, <2>4, <3>2, i - 1 \in 0..m
    <3> QED
      BY <3>1, <3>2
  <2>7. g[0] = first
    BY <2>1, <2>4
  <2> QED
    BY <2>3, <2>6, <2>7
<1>3. n \in T
  <2> HIDE DEF T
  <2> QED
    BY <1>1, <1>2, Induction
<1> QED
  BY <1>3

\* The same for the numbers up to n.
LEMMA InductionUpto ==
  ASSUME NEW n \in Nat, NEW T, 0 \in T, \A i \in 1..n : i - 1 \in T => i \in T
  PROVE  0..n \subseteq T
<1> DEFINE U == {k \in Nat : k <= n => k \in T}
<1>1. 0 \in U
  OBVIOUS
<1>2. ASSUME NEW k \in Nat, k \in U PROVE k + 1 \in U
  <2> SUFFICES ASSUME k + 1 <= n PROVE k + 1 \in T
    OBVIOUS
  <2>1. k + 1 \in 1..n /\ (k + 1) - 1 = k /\ k \in T
    BY <1>2
  <2> QED
    BY <2>1
<1>3. Nat \subseteq U
  <2> HIDE DEF U
  <2> QED
    BY <1>1, <1>2, Induction
<1> QED
  BY <1>3

\* A set of numbers has a smallest.
LEMMA Smallest ==
  ASSUME NEW S, S \subseteq Nat, S # {}
  PROVE  \E m \in S : \A x \in S : m <= x
<1>1. PICK m \in S : \A x \in S : ~(<<x, m>> \in Less)
  BY NatLessThanWellFounded, WFMin DEF Less
<1>2. ASSUME NEW x \in S PROVE m <= x
  <2>1. x \in Nat /\ m \in Nat
    OBVIOUS
  <2>2. x < m => <<x, m>> \in Less
    BY <2>1 DEF Less, OpToRel
  <2>3. ~(x < m)
    BY <1>1, <2>2
  <2> QED
    BY <2>1, <2>3
<1> QED
  BY <1>2

\* So does a finite set, which can be put in order.
LEMMA LargestOfFinite ==
  ASSUME NEW S \in SUBSET Nat, S # {}, IsFiniteSet(S)
  PROVE  \E m \in S : \A x \in S : x <= m
<1> DEFINE HasLargest(R) == \E m \in R : \A x \in R : x <= m
           T == {n \in Nat : \A R \in SUBSET Nat :
                    IsFiniteSet(R) /\ Cardinality(R) = n /\ R # {} => HasLargest(R)}
<1>1. 0 \in T
  BY FS_EmptySet
<1>2. ASSUME NEW n \in Nat, n \in T PROVE n + 1 \in T
  <2> SUFFICES ASSUME NEW R \in SUBSET Nat, IsFiniteSet(R), Cardinality(R) = n + 1, R # {}
               PROVE  HasLargest(R)
    OBVIOUS
  <2>1. PICK y \in R : y \in Nat
    OBVIOUS
  <2>2. IsFiniteSet(R \ {y}) /\ Cardinality(R \ {y}) = n /\ R \ {y} \in SUBSET Nat
    <3>1. Cardinality(R \ {y}) = Cardinality(R) - 1 /\ IsFiniteSet(R \ {y})
      BY <2>1, FS_RemoveElement
    <3> QED
      BY <3>1
  <2>3. CASE R \ {y} = {}
    BY <2>1, <2>3
  <2>4. CASE R \ {y} # {}
    <3>1. PICK m \in R \ {y} : m \in Nat /\ \A x \in R \ {y} : x <= m
      BY <1>2, <2>2, <2>4
    <3>2. \A x \in R : x \in Nat /\ (x = y \/ x <= m)
      BY <3>1
    <3>3. CASE y <= m
      BY <3>1, <3>2, <3>3
    <3>4. CASE ~(y <= m)
      <4>1. \A x \in R : x <= y
        BY <2>1, <3>1, <3>2, <3>4
      <4> QED
        BY <4>1
    <3> QED
      BY <3>3, <3>4
  <2> QED
    BY <2>3, <2>4
<1>3. Nat \subseteq T
  <2> HIDE DEF T
  <2> QED
    BY <1>1, <1>2, Induction
<1>4. Cardinality(S) \in T
  <2> HIDE DEF T
  <2> QED
    BY <1>3, FS_CardinalityType
<1> QED
  BY <1>4

LEMMA InOrder ==
  ASSUME NEW S \in SUBSET Nat, IsFiniteSet(S)
  PROVE  \E s \in [1..Cardinality(S) -> S] :
            \A i, k \in 1..Cardinality(S) : i < k => s[i] < s[k]
<1> DEFINE Ordered(R, n) == \E s \in [1..n -> R] : \A i, k \in 1..n : i < k => s[i] < s[k]
           T == {n \in Nat : \A R \in SUBSET Nat :
                    IsFiniteSet(R) /\ Cardinality(R) = n => Ordered(R, n)}
<1>1. 0 \in T
  <2>1. ASSUME NEW R \in SUBSET Nat PROVE Ordered(R, 0)
    <3>1. [i \in 1..0 |-> i] \in [1..0 -> R]
      OBVIOUS
    <3> QED
      BY <3>1
  <2> QED
    BY <2>1
<1>2. ASSUME NEW n \in Nat, n \in T PROVE n + 1 \in T
  <2> SUFFICES ASSUME NEW R \in SUBSET Nat, IsFiniteSet(R), Cardinality(R) = n + 1
               PROVE  Ordered(R, n + 1)
    OBVIOUS
  <2>1. R # {}
    BY FS_EmptySet
  <2>2. PICK m \in R : \A x \in R : x <= m
    BY <2>1, LargestOfFinite
  <2>3. IsFiniteSet(R \ {m}) /\ Cardinality(R \ {m}) = n /\ R \ {m} \in SUBSET Nat
    BY FS_RemoveElement
  <2>4. PICK s \in [1..n -> R \ {m}] : \A i, k \in 1..n : i < k => s[i] < s[k]
    BY <1>2, <2>3
  <2> DEFINE t == [i \in 1..(n + 1) |-> IF i = n + 1 THEN m ELSE s[i]]
  <2>5. /\ \A i \in 1..(n + 1) : i # n + 1 => i \in 1..n
        /\ t[n + 1] = m
        /\ \A i \in 1..n : t[i] = s[i] /\ s[i] \in R /\ s[i] # m
    OBVIOUS
  <2>6. t \in [1..(n + 1) -> R]
    <3>1. \A i \in 1..(n + 1) : t[i] \in R
      <4> HIDE DEF t
      <4> QED
        BY <2>5
    <3>2. t = [i \in 1..(n + 1) |-> t[i]]
      OBVIOUS
    <3> HIDE DEF t
    <3> QED
      BY <3>1, <3>2
  <2> HIDE DEF t
  <2>7. ASSUME NEW i \in 1..(n + 1), NEW k \in 1..(n + 1), i < k PROVE t[i] < t[k]
    <3>1. i \in 1..n
      BY <2>7
    <3>2. CASE k = n + 1
      <4>1. t[i] = s[i] /\ s[i] \in R /\ s[i] # m /\ t[k] = m
        BY <2>5, <3>1, <3>2
      <4>2. s[i] \in Nat /\ m \in Nat /\ s[i] <= m
        BY <2>2, <4>1
      <4> QED
        BY <4>1, <4>2
    <3>3. CASE k \in 1..n
      BY <2>4, <2>5, <2>7, <3>1, <3>3
    <3> QED
      BY <2>5, <3>2, <3>3
  <2> QED
    BY <2>6, <2>7
<1>3. Nat \subseteq T
  <2> HIDE DEF T
  <2> QED
    BY <1>1, <1>2, Induction
<1>4. Cardinality(S) \in T
  <2> HIDE DEF T
  <2> QED
    BY <1>3, FS_CardinalityType
<1> QED
  BY <1>4

-----------------------------------------------------------------------------
(* Sequences of sequences                                                  *)

\* What is at a place in a flattened sequence was at a place in one of the sequences.
LEMMA FlattenSequence ==
  ASSUME NEW seqs, IsSequence(seqs), \A i \in 1..Len(seqs) : IsSequence(seqs[i])
  PROVE  LET flat == FlattenSeq(seqs)
         IN /\ IsSequence(flat)
            /\ Range(flat) = UNION {Range(seqs[i]) : i \in 1..Len(seqs)}
            /\ \E from \in [1..Len(flat) -> (1..Len(seqs)) \X Nat] :
                  /\ \A k \in 1..Len(flat) :
                        /\ from[k][2] \in 1..Len(seqs[from[k][1]])
                        /\ flat[k] = seqs[from[k][1]][from[k][2]]
                  /\ \A k, l \in 1..Len(flat) : k # l => from[k] # from[l]
<1> DEFINE n == Len(seqs)
           S == Seq(UNION {Range(seqs[i]) : i \in 1..n})
           IsFlat(f) == f = [i \in 1..n |-> IF i = 1 THEN seqs[i] ELSE f[i - 1] \o seqs[i]]
           Places(m, flat) ==
              /\ IsSequence(flat)
              /\ Range(flat) = UNION {Range(seqs[i]) : i \in 1..m}
              /\ \E from \in [1..Len(flat) -> (1..m) \X Nat] :
                    /\ \A k \in 1..Len(flat) :
                          /\ from[k][2] \in 1..Len(seqs[from[k][1]])
                          /\ flat[k] = seqs[from[k][1]][from[k][2]]
                    /\ \A k, l \in 1..Len(flat) : k # l => from[k] # from[l]
<1>1. n \in Nat
  BY SequenceShape
<1>2. CASE n = 0
  <2>1. FlattenSeq(seqs) = seqs /\ seqs = <<>>
    BY <1>2, SequenceShape DEF FlattenSeq
  <2>2. Places(0, <<>>)
    <3>1. 1..Len(<<>>) = {} /\ {Range(seqs[i]) : i \in 1..0} = {}
      OBVIOUS
    <3>2. \E from \in [1..Len(<<>>) -> (1..0) \X Nat] : TRUE
      BY <3>1, [k \in 1..Len(<<>>) |-> <<1, 1>>] \in [1..Len(<<>>) -> (1..0) \X Nat]
    <3> QED
      BY <3>1, <3>2, EmptySequence
  <2> HIDE DEF Places
  <2>3. Places(n, FlattenSeq(seqs))
    BY <1>2, <2>1, <2>2
  <2> QED
    BY <2>3 DEF Places
<1>3. CASE n # 0
  <2> DEFINE step == [i \in 1..(n - 1) |-> [t \in S |-> t \o seqs[i + 1]]]
  <2>1. n \in Nat /\ n - 1 \in Nat /\ \A i \in 1..n : seqs[i] \in S
    <3>1. \A i \in 1..n : Range(seqs[i]) \subseteq UNION {Range(seqs[k]) : k \in 1..n}
      OBVIOUS
    <3>2. \A i \in 1..n : seqs[i] \in S
      BY <3>1, SeqMonotonic DEF IsSequence
    <3> QED
      BY <1>1, <1>3, <3>2
  <2>2. step \in [1..(n - 1) -> [S -> S]]
    <3>1. ASSUME NEW i \in 1..(n - 1), NEW t \in S PROVE t \o seqs[i + 1] \in S
      BY <2>1, i + 1 \in 1..n, ConcatProperties
    <3> QED
      BY <3>1
  <2>3. PICK g \in [0..(n - 1) -> S] : g[0] = seqs[1] /\ \A i \in 1..(n - 1) : g[i] = step[i][g[i - 1]]
    <3> DEFINE m == n - 1
               first == seqs[1]
    <3>1. first \in S /\ m \in Nat /\ step \in [1..m -> [S -> S]]
      BY SMTT(60), <1>3, <2>1, <2>2
    <3> HIDE DEF S, m, step, first
    <3>2. \E g \in [0..m -> S] : g[0] = first /\ \A i \in 1..m : g[i] = step[i][g[i - 1]]
      BY <3>1, Recursion
    <3> QED
      BY <3>2 DEF m, first
  <2> DEFINE f == [i \in 1..n |-> g[i - 1]]
  <2>4. IsFlat(f)
    <3>1. ASSUME NEW i \in 1..n, i # 1 PROVE f[i] = f[i - 1] \o seqs[i]
      <4>1. i - 1 \in 1..(n - 1) /\ i - 1 \in 1..n /\ (i - 1) + 1 = i /\ (i - 1) - 1 \in 0..(n - 1)
        BY <2>1, <3>1
      <4>2. f[i] = g[i - 1] /\ f[i - 1] = g[(i - 1) - 1] /\ g[(i - 1) - 1] \in S
        <5> HIDE DEF S
        <5> QED
          BY <4>1
      <4>3. g[i - 1] = step[i - 1][g[(i - 1) - 1]]
        BY <2>3, <4>1
      <4> HIDE DEF S, f
      <4> QED
        BY <4>1, <4>2, <4>3
    <3>2. n >= 1 => f[1] = seqs[1]
      BY <2>1, <2>3
    <3> DEFINE h == [i \in 1..n |-> IF i = 1 THEN seqs[i] ELSE f[i - 1] \o seqs[i]]
    <3>3. ASSUME NEW i \in 1..n PROVE f[i] = h[i]
      <4> HIDE DEF f
      <4>1. CASE i = 1
        BY <1>3, <2>1, <3>2, <4>1
      <4>2. CASE i # 1
        BY <3>1, <4>2
      <4> QED
        BY <4>1, <4>2
    <3>4. f = h
      <4>1. f = [i \in 1..n |-> f[i]]
        OBVIOUS
      <4> HIDE DEF f
      <4> QED
        BY <3>3, <4>1
    <3> QED
      BY <3>4
  <2> DEFINE flatten == CHOOSE h : IsFlat(h)
  <2>5. /\ flatten[1] = seqs[1]
        /\ \A i \in 1..n : i # 1 => flatten[i] = flatten[i - 1] \o seqs[i]
    <3>1. IsFlat(flatten)
      <4> HIDE DEF IsFlat, f
      <4> QED
        BY <2>4
    <3> HIDE DEF flatten, n
    <3>2. \A i \in 1..n : flatten[i] = IF i = 1 THEN seqs[i] ELSE flatten[i - 1] \o seqs[i]
      BY <3>1, Zenon
    <3>3. 1 \in 1..n
      BY <1>3, <2>1
    <3> QED
      BY <3>2, <3>3
  <2>6. FlattenSeq(seqs) = flatten[n]
    BY <1>3 DEF FlattenSeq
  <2> HIDE DEF flatten
  <2> DEFINE T == {i \in 0..n : i # 0 => Places(i, flatten[i])}
  <2>7. 0 \in T
    BY <1>1
  <2>8. ASSUME NEW i \in 1..n, i - 1 \in T PROVE i \in T
    <3>1. CASE i = 1
      <4> DEFINE from == [k \in 1..Len(seqs[1]) |-> <<1, k>>]
      <4>1. flatten[1] = seqs[1] /\ IsSequence(seqs[1]) /\ Len(seqs[1]) \in Nat
        BY <2>5, <3>1, SequenceShape
      <4>2. Range(flatten[1]) = UNION {Range(seqs[k]) : k \in 1..1}
        BY <4>1
      <4>3. /\ from \in [1..Len(seqs[1]) -> (1..1) \X Nat]
            /\ \A k \in 1..Len(seqs[1]) : from[k][1] = 1 /\ from[k][2] = k
            /\ \A k, l \in 1..Len(seqs[1]) : k # l => from[k] # from[l]
        BY <4>1
      <4>4. Places(1, flatten[1])
        <5> HIDE DEF from
        <5> QED
          BY <4>1, <4>2, <4>3
      <4> HIDE DEF Places
      <4> QED
        BY <3>1, <4>4
    <3>2. CASE i # 1
      <4> DEFINE s == flatten[i - 1]
                 t == seqs[i]
      <4>1. i - 1 # 0 /\ i - 1 \in 0..n /\ flatten[i] = s \o t /\ IsSequence(t) /\ Places(i - 1, s)
        <5> HIDE DEF Places
        <5> QED
          BY <2>1, <2>5, <2>8, <3>2
      <4> HIDE DEF s, flatten
      <4>2. /\ IsSequence(s) /\ Range(s) = UNION {Range(seqs[k]) : k \in 1..(i - 1)}
            /\ Len(s) \in Nat /\ Len(t) \in Nat
        BY <4>1, SequenceShape
      <4>3. PICK from \in [1..Len(s) -> (1..(i - 1)) \X Nat] :
                /\ \A k \in 1..Len(s) :
                      /\ from[k][2] \in 1..Len(seqs[from[k][1]])
                      /\ s[k] = seqs[from[k][1]][from[k][2]]
                /\ \A k, l \in 1..Len(s) : k # l => from[k] # from[l]
        BY <4>1
      <4> DEFINE u == s \o t
                 to == [k \in 1..Len(u) |-> IF k <= Len(s) THEN from[k] ELSE <<i, k - Len(s)>>]
      <4>4. /\ IsSequence(u) /\ Range(u) = Range(s) \cup Range(t) /\ Len(u) = Len(s) + Len(t)
            /\ \A k \in 1..Len(s) : u[k] = s[k]
            /\ \A k \in 1..Len(t) : u[Len(s) + k] = t[k]
        BY SMTT(60), <4>1, <4>2, ConcatSequence
      <4>5. Range(u) = UNION {Range(seqs[k]) : k \in 1..i}
        <5>1. 1..i = 1..(i - 1) \cup {i}
          BY <2>1
        <5> HIDE DEF u
        <5> QED
          BY <4>2, <4>4, <5>1
      <4> HIDE DEF u
      <4>6. ASSUME NEW k \in 1..Len(u)
            PROVE  \/ /\ k \in 1..Len(s) /\ to[k] = from[k] /\ from[k] \in (1..(i - 1)) \X Nat
                      /\ u[k] = s[k]
                   \/ /\ k > Len(s) /\ k - Len(s) \in 1..Len(t) /\ to[k] = <<i, k - Len(s)>>
                      /\ u[k] = t[k - Len(s)]
        <5>1. CASE k <= Len(s)
          BY <4>2, <4>4, <5>1
        <5>2. CASE k > Len(s)
          BY <4>2, <4>4, <5>2, k - Len(s) \in 1..Len(t), Len(s) + (k - Len(s)) = k
        <5> QED
          BY <4>2, <5>1, <5>2
      <4>7. to \in [1..Len(u) -> (1..i) \X Nat]
        <5>1. ASSUME NEW k \in 1..Len(u) PROVE to[k] \in (1..i) \X Nat
          <6>1. CASE to[k] = from[k] /\ from[k] \in (1..(i - 1)) \X Nat
            BY <2>1, <6>1
          <6>2. CASE k - Len(s) \in 1..Len(t) /\ to[k] = <<i, k - Len(s)>>
            BY <2>1, <4>2, <6>2
          <6> HIDE DEF to
          <6> QED
            BY <4>6, <6>1, <6>2
        <5>2. to = [k \in 1..Len(u) |-> to[k]]
          OBVIOUS
        <5> HIDE DEF to
        <5> QED
          BY <5>1, <5>2
      <4> HIDE DEF to
      <4>8. \A k \in 1..Len(u) : to[k][2] \in 1..Len(seqs[to[k][1]]) /\ u[k] = seqs[to[k][1]][to[k][2]]
        BY <4>3, <4>6
      <4>9. ASSUME NEW k \in 1..Len(u), NEW l \in 1..Len(u), k # l PROVE to[k] # to[l]
        <5>1. from[k] \in (1..(i - 1)) \X Nat => from[k][1] # i
          BY <2>1
        <5>2. from[l] \in (1..(i - 1)) \X Nat => from[l][1] # i
          BY <2>1
        <5>3. k - Len(s) # l - Len(s)
          BY <4>2, <4>9
        <5> QED
          BY <4>3, <4>6, <4>9, <5>1, <5>2, <5>3
      <4>10. Places(i, u)
        BY <4>4, <4>5, <4>7, <4>8, <4>9
      <4> HIDE DEF Places
      <4>11. i \in 0..n /\ Places(i, flatten[i])
        BY <2>1, <4>1, <4>10 DEF u
      <4> QED
        BY <4>11
    <3> QED
      BY <3>1, <3>2
  <2>9. n \in T
    <3> HIDE DEF T
    <3>1. 0..n \subseteq T
      BY <2>1, <2>7, <2>8, InductionUpto
    <3> QED
      BY <2>1, <3>1
  <2>10. Places(n, FlattenSeq(seqs))
    <3> HIDE DEF Places
    <3> QED
      BY <1>3, <2>6, <2>9
  <2> QED
    BY <2>10
<1> QED
  BY <1>2, <1>3

\* A sequence has finitely many elements, as many as its length if they differ.
LEMMA RangeIsFinite ==
  ASSUME NEW s, IsSequence(s)
  PROVE  /\ IsFiniteSet(Range(s)) /\ Cardinality(Range(s)) \in Nat
         /\ Cardinality(Range(s)) <= Len(s)
         /\ (\A i, k \in 1..Len(s) : i # k => s[i] # s[k]) => Cardinality(Range(s)) = Len(s)
<1>1. Len(s) \in Nat /\ s \in [1..Len(s) -> Range(s)] /\ Range(s) = {s[i] : i \in 1..Len(s)}
  BY SequenceShape DEF IsSequence
<1>2. s \in Surjection(1..Len(s), Range(s))
  BY <1>1 DEF Surjection
<1>3. IsFiniteSet(1..Len(s)) /\ Cardinality(1..Len(s)) = Len(s)
  <2> DEFINE n == Len(s)
  <2>1. n \in Nat /\ n \in Int /\ 1 \in Int
    BY <1>1
  <2> HIDE DEF n
  <2>2. IsFiniteSet(1..n) /\ Cardinality(1..n) = IF 1 > n THEN 0 ELSE n - 1 + 1
    BY <2>1, FS_Interval
  <2>3. Cardinality(1..n) = n
    BY <2>1, <2>2
  <2> QED
    BY <2>2, <2>3 DEF n
<1>4. /\ IsFiniteSet(Range(s)) /\ Cardinality(Range(s)) <= Len(s)
      /\ Cardinality(Range(s)) = Len(s) <=> s \in Injection(1..Len(s), Range(s))
  BY <1>2, <1>3, FS_Surjection
<1>5. (\A i, k \in 1..Len(s) : i # k => s[i] # s[k]) => s \in Injection(1..Len(s), Range(s))
  BY <1>1 DEF Injection, IsInjective
<1> QED
  BY <1>4, <1>5, FS_CardinalityType

\* Sequences that agree everywhere are one.
LEMMA SameSequence ==
  ASSUME NEW s, NEW t, IsSequence(s), IsSequence(t), Len(s) = Len(t), \A i \in 1..Len(s) : s[i] = t[i]
  PROVE  s = t
<1>1. DOMAIN s = DOMAIN t /\ \A i \in DOMAIN s : s[i] = t[i]
  BY SequenceShape
<1>2. s = [i \in DOMAIN s |-> s[i]] /\ t = [i \in DOMAIN t |-> t[i]]
  BY SequenceShape DEF IsSequence
<1> QED
  BY <1>1, <1>2

\* Flattening one sequence gives it back.
LEMMA FlattenOne == ASSUME NEW s PROVE FlattenSeq(<<s>>) = s
<1> DEFINE IsFlat(f) == f = [i \in 1..1 |-> IF i = 1 THEN <<s>>[i] ELSE f[i - 1] \o <<s>>[i]]
<1>1. Len(<<s>>) = 1 /\ <<s>> # <<>> /\ <<s>>[1] = s
  OBVIOUS
<1>2. FlattenSeq(<<s>>) = (CHOOSE f : IsFlat(f))[1]
  BY <1>1 DEF FlattenSeq
<1>3. IsFlat([i \in 1..1 |-> s])
  BY <1>1
<1>4. IsFlat(CHOOSE f : IsFlat(f))
  BY <1>3
<1>5. PICK flat : flat = (CHOOSE f : IsFlat(f)) /\ IsFlat(flat)
  BY <1>4
<1>6. flat[1] = s
  BY <1>1, <1>5
<1> QED
  BY <1>2, <1>5, <1>6

=============================================================================
