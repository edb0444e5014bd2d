-------------------------- MODULE OrderedIdsProofs --------------------------
(***************************************************************************)
(* What the operators of OrderedIds, and those of sequences, do to arrays  *)
(* in which an id occurs once.                                             *)
(***************************************************************************)
EXTENDS OrderedIds, FiniteSetTheorems, SequenceTheorems, TLAPS
-----------------------------------------------------------------------------
\* Elements and repetitions, as the operators of OrderedIds change them.

\* Array push of an id that is not in the array (chat_send).
LEMMA AppendElements ==
    ASSUME NEW T, NEW s \in Seq(T), NEW m \in T, m \notin Elements(s), Injective(s)
    PROVE  /\ Append(s, m) \in Seq(T)
           /\ Elements(Append(s, m)) = Elements(s) \cup {m}
           /\ Injective(Append(s, m))
BY DEF Elements, Injective

\* Array unshift of an id that is not in the array (a message goes back).
LEMMA FrontElements ==
    ASSUME NEW T, NEW s \in Seq(T), NEW m \in T, m \notin Elements(s), Injective(s)
    PROVE  /\ <<m>> \o s \in Seq(T)
           /\ Elements(<<m>> \o s) = Elements(s) \cup {m}
           /\ Injective(<<m>> \o s)
<1> DEFINE t == <<m>> \o s
<1>1. /\ t \in Seq(T) /\ Len(t) = 1 + Len(s) /\ t[1] = m
      /\ \A i \in 2..Len(t) : t[i] = s[i - 1]
  OBVIOUS
<1>2. \A i \in 1..Len(s) : t[i + 1] = s[i]
  BY <1>1
<1>3. Injective(t)
  BY <1>1 DEF Injective, Elements
<1> HIDE DEF t
<1>4. Elements(t) = Elements(s) \cup {m}
  <2>1. \A i \in 1..Len(t) : t[i] \in Elements(s) \cup {m}
    BY <1>1 DEF Elements
  <2>2. \A i \in 1..Len(s) : s[i] \in Elements(t)
    BY <1>1, <1>2 DEF Elements
  <2>3. m \in Elements(t)
    BY <1>1 DEF Elements
  <2> QED
    BY <2>1, <2>2, <2>3 DEF Elements
<1> QED
  BY <1>1, <1>3, <1>4 DEF t

\* Array shift (drainChatQueue).
LEMMA TailElements ==
    ASSUME NEW T, NEW s \in Seq(T), s # <<>>, Injective(s)
    PROVE  /\ Tail(s) \in Seq(T) /\ Head(s) \in T /\ Head(s) \in Elements(s)
           /\ Elements(Tail(s)) = Elements(s) \ {Head(s)}
           /\ Injective(Tail(s))
<1> DEFINE t == Tail(s)
<1>1. /\ t \in Seq(T) /\ Len(t) = Len(s) - 1 /\ Head(s) = s[1]
      /\ \A i \in 1..Len(t) : t[i] = s[i + 1]
      /\ Len(s) \in Nat /\ Len(s) >= 1
  OBVIOUS
<1> HIDE DEF t
<1>2. \A i \in 2..Len(s) : s[i] = t[i - 1] /\ s[i] # s[1]
  BY <1>1 DEF Injective
<1>3. Elements(t) = Elements(s) \ {Head(s)}
  <2>1. \A i \in 1..Len(t) : t[i] \in Elements(s) \ {Head(s)}
    BY <1>1, <1>2 DEF Elements
  <2>2. \A i \in 1..Len(s) : s[i] = Head(s) \/ s[i] \in Elements(t)
    BY <1>1, <1>2 DEF Elements
  <2> QED
    BY <2>1, <2>2 DEF Elements
<1>4. Injective(t)
  BY <1>1 DEF Injective
<1>5. Head(s) \in T /\ Head(s) \in Elements(s)
  BY <1>1 DEF Elements
<1> QED
  BY <1>1, <1>3, <1>4, <1>5 DEF t

\* Array splice of one id (removeOrderedID): what is behind it moves up.
LEMMA WithoutShape ==
    ASSUME NEW T, NEW s \in Seq(T), NEW m \in Elements(s)
    PROVE  \E at \in 1..Len(s) :
               /\ s[at] = m /\ Without(s, m) \in Seq(T)
               /\ Len(Without(s, m)) = Len(s) - 1
               /\ \A i \in 1..Len(Without(s, m)) :
                     Without(s, m)[i] = IF i < at THEN s[i] ELSE s[i + 1]
<1> DEFINE at == CHOOSE i \in 1..Len(s) : s[i] = m
           a == SubSeq(s, 1, at - 1)
           b == SubSeq(s, at + 1, Len(s))
           t == a \o b
<1>1. at \in 1..Len(s) /\ s[at] = m
  BY DEF Elements
<1>2. Without(s, m) = t
  BY DEF Without
<1> HIDE DEF at
<1> Len(s) \in Nat /\ \A i \in 1..Len(s) : s[i] \in T
  OBVIOUS
<1>3. /\ a \in Seq(T) /\ Len(a) = at - 1
      /\ \A i \in 1..Len(a) : a[i] = s[i]
  BY <1>1, SubSeqProperties
<1>4. /\ b \in Seq(T) /\ Len(b) = Len(s) - at
      /\ \A i \in 1..Len(b) : b[i] = s[i + at]
  BY <1>1, SubSeqProperties
<1> HIDE DEF a, b
<1>5. /\ a \o b \in Seq(T) /\ Len(a \o b) = Len(a) + Len(b)
      /\ \A i \in 1..Len(a) + Len(b) :
            (a \o b)[i] = IF i <= Len(a) THEN a[i] ELSE b[i - Len(a)]
  BY <1>3, <1>4, ConcatProperties
<1> HIDE DEF t
<1>6. t \in Seq(T) /\ Len(t) = Len(s) - 1
  BY <1>1, <1>3, <1>4, <1>5 DEF t
<1>7. ASSUME NEW i \in 1..Len(t)
      PROVE  t[i] = IF i < at THEN s[i] ELSE s[i + 1]
  <2>1. CASE i < at
    BY <1>1, <1>3, <1>4, <1>5, <1>6, <2>1 DEF t
  <2>2. CASE ~(i < at)
    <3>1. t[i] = b[i - (at - 1)] /\ i - (at - 1) \in 1..Len(b)
      BY <1>1, <1>3, <1>4, <1>5, <1>6, <2>2 DEF t
    <3> QED
      BY <1>1, <1>4, <2>2, <3>1
  <2> QED
    BY <2>1, <2>2
<1> QED
  BY <1>1, <1>2, <1>6, <1>7

LEMMA WithoutElements ==
    ASSUME NEW T, NEW s \in Seq(T), NEW m, Injective(s)
    PROVE  /\ Without(s, m) \in Seq(T)
           /\ Elements(Without(s, m)) = Elements(s) \ {m}
           /\ Injective(Without(s, m))
<1>1. CASE m \notin Elements(s)
  BY <1>1 DEF Without
<1>2. CASE m \in Elements(s)
  <2> DEFINE t == Without(s, m)
  <2>1. PICK at \in 1..Len(s) :
             /\ s[at] = m /\ t \in Seq(T) /\ Len(t) = Len(s) - 1
             /\ \A i \in 1..Len(t) : t[i] = IF i < at THEN s[i] ELSE s[i + 1]
    BY <1>2, WithoutShape
  <2> HIDE DEF t
  <2>2. \A i \in 1..Len(s) : i < at => s[i] = t[i] /\ i \in 1..Len(t)
    BY <2>1
  <2>3. \A i \in 1..Len(s) : i > at => s[i] = t[i - 1] /\ i - 1 \in 1..Len(t)
    BY <2>1
  <2>4. Elements(t) \subseteq Elements(s) \ {m}
    <3>1. ASSUME NEW i \in 1..Len(t)
          PROVE  t[i] \in Elements(s) \ {m}
      <4>1. CASE i < at
        <5>1. i \in 1..Len(s) /\ t[i] = s[i] /\ i # at
          BY SMTT(60), <2>1, <4>1
        <5> QED
          BY <2>1, <5>1 DEF Elements, Injective
      <4>2. CASE ~(i < at)
        <5>1. i + 1 \in 1..Len(s) /\ t[i] = s[i + 1] /\ i + 1 # at
          BY <2>1, <4>2
        <5> QED
          BY <2>1, <5>1 DEF Elements, Injective
      <4> QED
        BY <4>1, <4>2
    <3> QED
      BY <3>1 DEF Elements
  <2>5. Elements(s) \ {m} \subseteq Elements(t)
    <3>1. ASSUME NEW i \in 1..Len(s), s[i] # m
          PROVE  s[i] \in Elements(t)
      <4>1. i < at \/ i > at
        BY <2>1, <3>1
      <4> QED
        BY <2>2, <2>3, <4>1 DEF Elements
    <3> QED
      BY <3>1 DEF Elements
  <2>6. Injective(t)
    <3> DEFINE from(i) == IF i < at THEN i ELSE i + 1
    <3>1. \A i \in 1..Len(t) : t[i] = s[from(i)] /\ from(i) \in 1..Len(s)
      BY <2>1
    <3>2. \A i, j \in 1..Len(t) : from(i) = from(j) => i = j
      BY <2>1
    <3> HIDE DEF from
    <3> QED
      BY <3>1, <3>2 DEF Injective
  <2> QED
    BY <2>1, <2>4, <2>5, <2>6 DEF t
<1> QED
  BY <1>1, <1>2

\* Sorting a set of ids makes a sequence of them, each once (restoreOrder).
LEMMA SortedElements ==
    ASSUME NEW S, IsFiniteSet(S), NEW ord, NEW s \in Sorted(S, ord)
    PROVE  s \in Seq(S) /\ Elements(s) = S /\ Injective(s)
<1> DEFINE n == Cardinality(S)
<1>1. n \in Nat
  BY FS_CardinalityType
<1>2. s \in [1..n -> S] /\ Injective(s)
  BY DEF Sorted
<1>3. s \in Seq(S) /\ Len(s) = n
  BY <1>1, <1>2
<1>4. s \in Injection(1..n, S)
  BY <1>2, <1>3 DEF Injective, Injection, IsInjective
<1>5. IsFiniteSet(1..n) /\ Cardinality(1..n) = n
  BY <1>1, FS_Interval
<1>6. s \in Surjection(1..n, S)
  BY <1>4, <1>5, FS_Injection
<1> QED
  BY <1>2, <1>3, <1>6 DEF Surjection, Elements

\* Arrays are finite.
LEMMA FiniteElements ==
    ASSUME NEW T, NEW s \in Seq(T)
    PROVE  IsFiniteSet(Elements(s))
<1>1. Len(s) \in Nat /\ s \in [1..Len(s) -> Elements(s)]
  BY DEF Elements
<1>2. s \in Surjection(1..Len(s), Elements(s))
  BY <1>1 DEF Surjection, Elements
<1>3. IsFiniteSet(1..Len(s))
  BY <1>1, FS_Interval
<1> QED
  BY <1>2, <1>3, FS_Surjection
-----------------------------------------------------------------------------
(***************************************************************************)
(* Sequences without repetition: who comes before whom.                    *)
(***************************************************************************)
Before(s, a, b) == \E i, j \in 1..Len(s) : i < j /\ s[i] = a /\ s[j] = b

LEMMA PositionIs ==
    ASSUME NEW T, NEW s \in Seq(T), Injective(s), NEW i \in 1..Len(s)
    PROVE  Position(s, s[i]) = i
BY DEF Position, Injective

\* Position compares as the sequence does.
LEMMA BeforePosition ==
    ASSUME NEW T, NEW s \in Seq(T), Injective(s), NEW a \in Elements(s), NEW b \in Elements(s)
    PROVE  Before(s, a, b) <=> Position(s, a) < Position(s, b)
<1>1. PICK i \in 1..Len(s) : s[i] = a
  BY DEF Elements
<1>2. PICK j \in 1..Len(s) : s[j] = b
  BY DEF Elements
<1>3. Position(s, a) = i /\ Position(s, b) = j
  BY <1>1, <1>2, PositionIs
<1>4. Before(s, a, b) <=> i < j
  BY <1>1, <1>2 DEF Before, Injective
<1> QED
  BY <1>3, <1>4

\* Who comes before somebody is somebody.
LEMMA BeforeElements ==
    ASSUME NEW s, NEW a, NEW b, Before(s, a, b)
    PROVE  a \in Elements(s) /\ b \in Elements(s)
BY DEF Before, Elements

LEMMA BeforeAppend ==
    ASSUME NEW T, NEW s \in Seq(T), NEW m \in T, NEW a, NEW b
    PROVE  Before(Append(s, m), a, b) <=> Before(s, a, b) \/ (a \in Elements(s) /\ b = m)
<1> DEFINE t == Append(s, m)
<1>1. /\ Len(t) = Len(s) + 1 /\ Len(s) \in Nat /\ t[Len(s) + 1] = m
      /\ \A i \in 1..Len(s) : t[i] = s[i]
  OBVIOUS
<1> HIDE DEF t
<1>2. ASSUME NEW i \in 1..Len(t), NEW j \in 1..Len(t), i < j, t[i] = a, t[j] = b
      PROVE  Before(s, a, b) \/ (a \in Elements(s) /\ b = m)
  <2>1. i \in 1..Len(s) /\ s[i] = a
    BY <1>1, <1>2
  <2>2. CASE j = Len(s) + 1
    BY <1>1, <1>2, <2>1, <2>2 DEF Elements
  <2>3. CASE j # Len(s) + 1
    <3>1. j \in 1..Len(s) /\ s[j] = b
      BY <1>1, <1>2, <2>3
    <3> QED
      BY <1>2, <2>1, <3>1 DEF Before
  <2> QED
    BY <2>2, <2>3
<1>3. ASSUME Before(s, a, b)
      PROVE  Before(t, a, b)
  <2>1. PICK i \in 1..Len(s), j \in 1..Len(s) : i < j /\ s[i] = a /\ s[j] = b
    BY <1>3 DEF Before
  <2>2. i \in 1..Len(t) /\ j \in 1..Len(t) /\ t[i] = a /\ t[j] = b
    BY <1>1, <2>1
  <2> QED
    BY <2>1, <2>2 DEF Before
<1>4. ASSUME a \in Elements(s), b = m
      PROVE  Before(t, a, b)
  <2>1. PICK i \in 1..Len(s) : s[i] = a
    BY <1>4 DEF Elements
  <2>2. /\ i \in 1..Len(t) /\ Len(t) \in 1..Len(t) /\ i < Len(t)
        /\ t[i] = a /\ t[Len(t)] = b
    BY <1>1, <1>4, <2>1
  <2> QED
    BY <2>2 DEF Before
<1>5. Before(t, a, b) => Before(s, a, b) \/ (a \in Elements(s) /\ b = m)
  BY <1>2 DEF Before
<1> QED
  BY <1>3, <1>4, <1>5 DEF t

LEMMA BeforeFront ==
    ASSUME NEW T, NEW s \in Seq(T), NEW m \in T, NEW a, NEW b, Before(<<m>> \o s, a, b)
    PROVE  Before(s, a, b) \/ (a = m /\ b \in Elements(s))
<1> DEFINE t == <<m>> \o s
<1>1. /\ Len(t) = Len(s) + 1 /\ Len(s) \in Nat /\ t[1] = m
      /\ \A i \in 2..Len(t) : t[i] = s[i - 1]
  OBVIOUS
<1>2. Before(t, a, b)
  OBVIOUS
<1> HIDE DEF t
<1>3. PICK i \in 1..Len(t), j \in 1..Len(t) : i < j /\ t[i] = a /\ t[j] = b
  BY <1>2 DEF Before
<1>4. j - 1 \in 1..Len(s) /\ s[j - 1] = b
  BY <1>1, <1>3
<1>5. CASE i = 1
  BY <1>1, <1>3, <1>4, <1>5 DEF Elements
<1>6. CASE i # 1
  <2>1. i - 1 \in 1..Len(s) /\ s[i - 1] = a /\ i - 1 < j - 1
    BY <1>1, <1>3, <1>6
  <2> QED
    BY <1>4, <2>1 DEF Before
<1> QED
  BY <1>5, <1>6

LEMMA BeforeTail ==
    ASSUME NEW T, NEW s \in Seq(T), s # <<>>, NEW a, NEW b, Before(Tail(s), a, b)
    PROVE  Before(s, a, b)
<1> DEFINE t == Tail(s)
<1>1. /\ Len(t) = Len(s) - 1 /\ Len(s) \in Nat
      /\ \A i \in 1..Len(t) : t[i] = s[i + 1]
  OBVIOUS
<1>2. Before(t, a, b)
  OBVIOUS
<1> HIDE DEF t
<1>3. PICK i \in 1..Len(t), j \in 1..Len(t) : i < j /\ t[i] = a /\ t[j] = b
  BY <1>2 DEF Before
<1>4. /\ i + 1 \in 1..Len(s) /\ j + 1 \in 1..Len(s) /\ i + 1 < j + 1
      /\ s[i + 1] = a /\ s[j + 1] = b
  BY <1>1, <1>3
<1> QED
  BY <1>4 DEF Before

\* The first one comes before all others.
LEMMA BeforeHead ==
    ASSUME NEW T, NEW s \in Seq(T), s # <<>>, NEW a \in Elements(s), a # Head(s)
    PROVE  Before(s, Head(s), a)
<1>1. PICK i \in 1..Len(s) : s[i] = a
  BY DEF Elements
<1>2. 1 \in 1..Len(s) /\ 1 < i /\ s[1] = Head(s)
  BY <1>1
<1> QED
  BY <1>1, <1>2 DEF Before

\* Taking one away leaves the others as they are, and who is first.
LEMMA BeforeWithout ==
    ASSUME NEW T, NEW s \in Seq(T), NEW m, Injective(s)
    PROVE  /\ \A a, b : Before(Without(s, m), a, b) => Before(s, a, b)
           /\ \A a, b : Before(s, a, b) /\ a # m /\ b # m => Before(Without(s, m), a, b)
           /\ s # <<>> /\ Head(s) # m => Without(s, m) # <<>> /\ Head(Without(s, m)) = Head(s)
<1>1. CASE m \notin Elements(s)
  BY <1>1 DEF Without
<1>2. CASE m \in Elements(s)
  <2> DEFINE t == Without(s, m)
  <2>1. PICK at \in 1..Len(s) :
             /\ s[at] = m /\ t \in Seq(T) /\ Len(t) = Len(s) - 1
             /\ \A i \in 1..Len(t) : t[i] = IF i < at THEN s[i] ELSE s[i + 1]
    BY <1>2, WithoutShape
  <2> HIDE DEF t
  <2> DEFINE from(i) == IF i < at THEN i ELSE i + 1
             to(i) == IF i < at THEN i ELSE i - 1
  <2>2. \A i \in 1..Len(t) : t[i] = s[from(i)] /\ from(i) \in 1..Len(s)
    BY <2>1
  <2>3. \A i, j \in 1..Len(t) : i < j => from(i) < from(j)
    BY <2>1
  <2>4. \A i \in 1..Len(s) : i # at => s[i] = t[to(i)] /\ to(i) \in 1..Len(t)
    BY <2>1
  <2>5. \A i, j \in 1..Len(s) : i # at /\ j # at /\ i < j => to(i) < to(j)
    BY <2>1
  <2> HIDE DEF from, to
  <2>6. ASSUME NEW a, NEW b, Before(t, a, b)
        PROVE  Before(s, a, b)
    <3>1. PICK i \in 1..Len(t), j \in 1..Len(t) : i < j /\ t[i] = a /\ t[j] = b
      BY <2>6 DEF Before
    <3>2. /\ from(i) \in 1..Len(s) /\ from(j) \in 1..Len(s) /\ from(i) < from(j)
          /\ s[from(i)] = a /\ s[from(j)] = b
      BY <2>2, <2>3, <3>1
    <3> QED
      BY <3>2 DEF Before
  <2>7. ASSUME NEW a, NEW b, Before(s, a, b), a # m, b # m
        PROVE  Before(t, a, b)
    <3>1. PICK i \in 1..Len(s), j \in 1..Len(s) : i < j /\ s[i] = a /\ s[j] = b
      BY <2>7 DEF Before
    <3>2. /\ to(i) \in 1..Len(t) /\ to(j) \in 1..Len(t) /\ to(i) < to(j)
          /\ t[to(i)] = a /\ t[to(j)] = b
      BY <2>1, <2>4, <2>5, <2>7, <3>1
    <3> QED
      BY <3>2 DEF Before
  <2>8. ASSUME s # <<>>, Head(s) # m
        PROVE  t # <<>> /\ Head(t) = Head(s)
    <3>1. at > 1 /\ s[1] = Head(s)
      BY <2>1, <2>8
    <3>2. Len(t) >= 1 /\ t[1] = s[1]
      BY <2>1, <3>1
    <3> QED
      BY <2>1, <3>1, <3>2
  <2> QED
    BY <2>6, <2>7, <2>8 DEF t
<1> QED
  BY <1>1, <1>2

\* Sorted puts them in the given order.
LEMMA BeforeSorted ==
    ASSUME NEW S, IsFiniteSet(S), NEW ord, NEW s \in Sorted(S, ord), NEW a, NEW b, Before(s, a, b)
    PROVE  Position(ord, a) < Position(ord, b)
BY DEF Sorted, Before

\* Of two there is a first.
LEMMA BeforeTotal ==
    ASSUME NEW T, NEW s \in Seq(T), NEW a \in Elements(s), NEW b \in Elements(s), a # b
    PROVE  Before(s, a, b) \/ Before(s, b, a)
<1>1. PICK i \in 1..Len(s) : s[i] = a
  BY DEF Elements
<1>2. PICK j \in 1..Len(s) : s[j] = b
  BY DEF Elements
<1>3. i < j \/ j < i
  BY <1>1, <1>2
<1> QED
  BY <1>1, <1>2, <1>3 DEF Before
=============================================================================
