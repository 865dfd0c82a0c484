-------------------------- MODULE SubsequenceProofs --------------------------
(***************************************************************************)
(* Lemmas about Subsequences, and induction over the naturals in the form   *)
(* the other proofs use: on a set, with the members as the induction        *)
(* predicate, since the provers cannot instantiate one given as operator.   *)
(***************************************************************************)
EXTENDS Subsequences, FiniteSetTheorems, SequenceTheorems, TLAPS

\* A nonempty set of naturals has a least member.
LEMMA LeastNatural ==
  ASSUME NEW S, S \subseteq Nat, S # {}
  PROVE  \E x \in S : \A y \in S : x <= y
<1>. DEFINE R == {p \in Nat \X Nat : p[1] < p[2]}
<1>1. IsWellFoundedOn(R, Nat)
  BY NatLessThanWellFounded DEF OpToRel
<1>2. \E x \in S : \A y \in S : <<y, x>> \notin R
  <2>. HIDE DEF R
  <2>. QED
    BY <1>1, WFMin
<1>3. PICK x \in S : \A y \in S : <<y, x>> \notin R
  BY <1>2
<1>4. \A y \in S : ~(y < x)
  BY <1>3
<1>. QED
  BY <1>4

\* Induction: a set with 0 and with n + 1 for each n of it holds every natural.
LEMMA SetInduction ==
  ASSUME NEW S, 0 \in S, \A n \in Nat : n \in S => n + 1 \in S
  PROVE  \A n \in Nat : n \in S
<1>. DEFINE T == {n \in Nat : n \notin S}
<1>1. SUFFICES ASSUME T # {} PROVE FALSE
  OBVIOUS
<1>2. PICK x \in T : \A y \in T : x <= y
  <2>1. T \subseteq Nat
    OBVIOUS
  <2>. HIDE DEF T
  <2>. QED
    BY <1>1, <2>1, LeastNatural
<1>3. x \in Nat \ {0} /\ x \notin S
  BY <1>2
<1>4. x - 1 \in Nat /\ ~(x <= x - 1) /\ x - 1 + 1 = x
  BY <1>3
<1>5. x - 1 \in S
  BY <1>2, <1>4
<1>. QED
  BY <1>3, <1>4, <1>5

-----------------------------------------------------------------------------
\* A set of positions is finite, and so are those of them before any point.
LEMMA Finite ==
  ASSUME NEW m \in Nat, NEW I \in SUBSET (1 .. m)
  PROVE  /\ IsFiniteSet(I) /\ Cardinality(I) \in Nat
         /\ \A p \in Nat : Before(I, p) \in Nat /\ Before(I, p) <= Cardinality(I)
<1>1. IsFiniteSet(1 .. m)
  BY FS_Interval
<1>2. IsFiniteSet(I) /\ Cardinality(I) \in Nat
  BY <1>1, FS_Subset, FS_CardinalityType
<1>3. ASSUME NEW p \in Nat
      PROVE  Before(I, p) \in Nat /\ Before(I, p) <= Cardinality(I)
  <2>1. {q \in I : q < p} \in SUBSET I
    OBVIOUS
  <2>. QED
    BY <1>2, <2>1, FS_Subset, FS_CardinalityType DEF Before
<1>. QED
  BY <1>2, <1>3

\* The later of two positions has more before it.
LEMMA BeforeGrows ==
  ASSUME NEW m \in Nat, NEW I \in SUBSET (1 .. m), NEW p \in I, NEW q \in I, p < q
  PROVE  Before(I, p) < Before(I, q)
<1>. DEFINE P == {x \in I : x < p}
            Q == {x \in I : x < q}
<1>1. IsFiniteSet(P) /\ IsFiniteSet(Q) /\ Cardinality(P) \in Nat /\ Cardinality(Q) \in Nat
  <2>1. P \in SUBSET I /\ Q \in SUBSET I
    OBVIOUS
  <2>. QED
    BY <2>1, Finite, FS_Subset, FS_CardinalityType
<1>2. P \cup {p} \in SUBSET Q /\ p \notin P
  <2>1. \A x \in I : x \in Int
    OBVIOUS
  <2>2. ~(p < p) /\ \A x \in I : x < p => x < q
    BY <2>1
  <2>. QED
    BY <2>2
<1>3. Cardinality(P) + 1 <= Cardinality(Q)
  <2>. HIDE DEF P, Q
  <2>1. IsFiniteSet(P \cup {p}) /\ Cardinality(P \cup {p}) = Cardinality(P) + 1
    BY <1>1, <1>2, FS_AddElement
  <2>. QED
    BY <1>1, <1>2, <2>1, FS_Subset
<1>. QED
  BY <1>1, <1>3 DEF Before

\* Positions before p do not depend on what is at p or after it.
LEMMA BeforeSame ==
  ASSUME NEW I, NEW J, NEW p, \A q : q < p => (q \in I <=> q \in J)
  PROVE  Before(I, p) = Before(J, p)
<1>1. {q \in I : q < p} = {q \in J : q < p}
  OBVIOUS
<1>. QED
  BY <1>1 DEF Before

\* With one position more at the end there is one element more.
LEMMA OneMore ==
  ASSUME NEW m \in Nat, NEW I \in SUBSET (1 .. m), NEW p \in Nat, \A q \in I : q < p
  PROVE  Cardinality(I \cup {p}) = Cardinality(I) + 1 /\ Before(I \cup {p}, p) = Cardinality(I)
<1>0. ~(p < p)
  OBVIOUS
<1>1. IsFiniteSet(I) /\ p \notin I
  BY <1>0, Finite
<1>2. {q \in I \cup {p} : q < p} = I
  BY <1>0
<1>. QED
  BY <1>1, <1>2, FS_AddElement DEF Before

\* Every number of elements that can be before a position is before one.
LEMMA PositionExists ==
  \A m \in Nat : \A I \in SUBSET (1 .. m) : \A n \in 1 .. Cardinality(I) :
    \E p \in I : Before(I, p) = n - 1
<1>. DEFINE Found(I) == \A n \in 1 .. Cardinality(I) : \E p \in I : Before(I, p) = n - 1
            S == {m \in Nat : \A I \in SUBSET (1 .. m) : Found(I)}
<1>1. 0 \in S
  <2>1. \A I \in SUBSET (1 .. 0) : I = {}
    OBVIOUS
  <2>2. Cardinality({}) = 0
    BY FS_EmptySet
  <2>. QED
    BY <2>1, <2>2
<1>2. ASSUME NEW m \in Nat, m \in S
      PROVE  m + 1 \in S
  <2>1. ASSUME NEW I \in SUBSET (1 .. m + 1)
        PROVE  Found(I)
    <3>1. CASE m + 1 \notin I
      <4>1. I \in SUBSET (1 .. m)
        BY <3>1
      <4>. QED
        BY <1>2, <4>1
    <3>2. CASE m + 1 \in I
      <4>. DEFINE J == I \ {m + 1}
      <4>1. J \in SUBSET (1 .. m) /\ (\A q \in J : q < m + 1) /\ I = J \cup {m + 1} /\ m + 1 \in Nat
        BY <3>2
      <4>2. Found(J)
        BY <1>2, <4>1
      <4>. HIDE DEF J
      <4>3. Cardinality(I) = Cardinality(J) + 1 /\ Before(I, m + 1) = Cardinality(J)
        BY <4>1, OneMore
      <4>4. Cardinality(J) \in Nat
        BY <4>1, Finite
      <4>5. \A p \in J : Before(I, p) = Before(J, p)
        BY <4>1, BeforeSame
      <4>6. ASSUME NEW n \in 1 .. Cardinality(I)
            PROVE  \E p \in I : Before(I, p) = n - 1
        <5>1. CASE n = Cardinality(I)
          BY <3>2, <4>3, <4>4, <5>1
        <5>2. CASE n # Cardinality(I)
          <6>1. n \in 1 .. Cardinality(J)
            BY <4>3, <4>4, <5>2
          <6>2. PICK p \in J : Before(J, p) = n - 1
            BY <4>2, <6>1
          <6>. QED
            BY <4>1, <4>5, <6>2
        <5>. QED
          BY <5>1, <5>2
      <4>. QED
        BY <4>6
    <3>. QED
      BY <3>1, <3>2
  <2>. QED
    BY <2>1
<1>. HIDE DEF S
<1>3. \A m \in Nat : m \in S
  BY <1>1, <1>2, SetInduction
<1>. QED
  BY <1>3 DEF S

\* The nth element of the part is the one with n - 1 positions before it.
LEMMA AtPosition ==
  ASSUME NEW s, NEW m \in Nat, NEW I \in SUBSET (1 .. m),
         NEW n \in 1 .. Cardinality(I), NEW p \in I, Before(I, p) = n - 1
  PROVE  At(s, I)[n] = s[p]
<1>. DEFINE c == CHOOSE x \in I : Before(I, x) = n - 1
<1>1. c \in I /\ Before(I, c) = n - 1
  OBVIOUS
<1>2. At(s, I)[n] = s[c]
  BY DEF At
<1>. HIDE DEF c
<1>3. ~(c < p) /\ ~(p < c)
  <2>1. n - 1 \in Int /\ ~(n - 1 < n - 1)
    OBVIOUS
  <2>. QED
    BY <1>1, <2>1, BeforeGrows
<1>4. c = p
  BY <1>1, <1>3
<1>. QED
  BY <1>2, <1>4

\* The part is a sequence, and each of its elements has a position.
LEMMA AtTyped ==
  ASSUME NEW S, NEW s, NEW m \in Nat, NEW I \in SUBSET (1 .. m), \A p \in I : s[p] \in S
  PROVE  /\ At(s, I) \in Seq(S) /\ Len(At(s, I)) = Cardinality(I)
         /\ \A n \in 1 .. Cardinality(I) :
              \E p \in I : Before(I, p) = n - 1 /\ At(s, I)[n] = s[p]
<1>1. Cardinality(I) \in Nat
  BY Finite
<1>2. ASSUME NEW n \in 1 .. Cardinality(I)
      PROVE  \E p \in I : Before(I, p) = n - 1 /\ At(s, I)[n] = s[p]
  <2>1. PICK p \in I : Before(I, p) = n - 1
    BY PositionExists
  <2>2. At(s, I)[n] = s[p]
    BY <2>1, AtPosition
  <2>. QED
    BY <2>1, <2>2
<1>3. At(s, I) \in [1 .. Cardinality(I) -> S]
  <2>1. At(s, I) = [n \in 1 .. Cardinality(I) |-> At(s, I)[n]]
    BY DEF At
  <2>. HIDE DEF At
  <2>. QED
    BY <1>2, <2>1
<1>. QED
  BY <1>1, <1>2, <1>3

\* Every position gives an element.
LEMMA PositionUsed ==
  ASSUME NEW s, NEW m \in Nat, NEW I \in SUBSET (1 .. m), NEW p \in I
  PROVE  Before(I, p) + 1 \in 1 .. Cardinality(I) /\ At(s, I)[Before(I, p) + 1] = s[p]
<1>1. IsFiniteSet(I) /\ Cardinality(I) \in Nat /\ p \in Nat /\ Before(I, p) \in Nat
  BY Finite
<1>2. {q \in I : q < p} \in SUBSET I /\ p \notin {q \in I : q < p}
  BY <1>1
<1>3. Cardinality({q \in I : q < p}) # Cardinality(I) /\ Cardinality({q \in I : q < p}) <= Cardinality(I)
  BY <1>1, <1>2, FS_Subset
<1>. DEFINE n == Before(I, p) + 1
<1>4. n \in 1 .. Cardinality(I) /\ Before(I, p) = n - 1
  BY <1>1, <1>3 DEF Before
<1>. HIDE DEF n
<1>5. At(s, I)[n] = s[p]
  BY <1>4, AtPosition
<1>. QED
  BY <1>4, <1>5 DEF n

\* Sequences that agree on the positions have the same part there.
LEMMA AtAgrees ==
  ASSUME NEW s, NEW t, NEW m \in Nat, NEW I \in SUBSET (1 .. m), \A p \in I : s[p] = t[p]
  PROVE  At(s, I) = At(t, I)
<1>1. ASSUME NEW n \in 1 .. Cardinality(I)
      PROVE  At(s, I)[n] = At(t, I)[n]
  <2>1. PICK p \in I : Before(I, p) = n - 1
    BY PositionExists
  <2>. QED
    BY <2>1, AtPosition
<1>2. /\ At(s, I) = [n \in 1 .. Cardinality(I) |-> At(s, I)[n]]
      /\ At(t, I) = [n \in 1 .. Cardinality(I) |-> At(t, I)[n]]
  BY DEF At
<1>. QED
  BY <1>1, <1>2

\* No position, no element.
LEMMA AtNone == ASSUME NEW s PROVE At(s, {}) = <<>>
<1>1. Cardinality({}) = 0
  BY FS_EmptySet
<1>. QED
  BY <1>1 DEF At

\* A position behind the others appends its element.
LEMMA AtAppend ==
  ASSUME NEW s, NEW p \in Nat \ {0}, NEW I \in SUBSET (1 .. p), p \notin I
  PROVE  At(s, I \cup {p}) = Append(At(s, I), s[p])
<1>. DEFINE J == I \cup {p}
            S == {s[q] : q \in J}
<1>1. /\ J \in SUBSET (1 .. p) /\ I \in SUBSET (1 .. p) /\ p \in Nat
      /\ (\A q \in J : s[q] \in S) /\ \A q \in I : q < p
  OBVIOUS
<1>2. Cardinality(J) = Cardinality(I) + 1 /\ Before(J, p) = Cardinality(I) /\ Cardinality(I) \in Nat
  BY <1>1, OneMore, Finite
<1>3. p \in J /\ I \subseteq J /\ \A q \in I : Before(J, q) = Before(I, q)
  <2>1. \A q \in I : \A r : r < q => r # p
    BY <1>1
  <2>. QED
    BY <2>1, BeforeSame
<1>. HIDE DEF J, S
<1>4. /\ At(s, I) \in Seq(S) /\ Len(At(s, I)) = Cardinality(I)
      /\ At(s, J) \in Seq(S) /\ Len(At(s, J)) = Cardinality(J)
  <2>1. \A q \in I : s[q] \in S
    BY <1>1, <1>3
  <2>. QED
    BY <1>1, <2>1, AtTyped, ZenonT(60)
<1>5. ASSUME NEW n \in 1 .. Cardinality(I)
      PROVE  At(s, J)[n] = At(s, I)[n]
  <2>1. PICK q \in I : Before(I, q) = n - 1
    BY PositionExists
  <2>2. q \in J /\ Before(J, q) = n - 1 /\ n \in 1 .. Cardinality(J)
    BY <1>2, <1>3, <2>1
  <2>3. At(s, I)[n] = s[q]
    BY <2>1, AtPosition, ZenonT(60)
  <2>4. At(s, J)[n] = s[q]
    BY <1>1, <2>2, AtPosition, ZenonT(60)
  <2>. QED
    BY <2>3, <2>4
<1>6. At(s, J)[Cardinality(J)] = s[p]
  <2>. DEFINE n == Cardinality(J)
  <2>1. n \in 1 .. Cardinality(J) /\ Before(J, p) = n - 1
    BY <1>2
  <2>. HIDE DEF n
  <2>2. At(s, J)[n] = s[p]
    BY <1>1, <1>3, <2>1, AtPosition, ZenonT(60)
  <2>. QED
    BY <2>2 DEF n
<1>7. At(s, J) = Append(At(s, I), s[p])
  <2>. DEFINE t == Append(At(s, I), s[p])
  <2>1. /\ t \in Seq(S) /\ Len(t) = Cardinality(I) + 1 /\ t[Cardinality(I) + 1] = s[p]
        /\ \A n \in 1 .. Cardinality(I) : t[n] = At(s, I)[n]
    BY <1>1, <1>3, <1>4
  <2>. HIDE DEF t
  <2>2. \A n \in 1 .. Cardinality(I) + 1 : At(s, J)[n] = t[n]
    BY <1>2, <1>5, <1>6, <2>1
  <2>3. At(s, J) = t
    BY <1>2, <1>4, <2>1, <2>2, SeqEqual
  <2>. QED
    BY <2>3 DEF t
<1>. QED
  BY <1>7 DEF J

\* A sequence at all its positions.
LEMMA AtAll == ASSUME NEW S, NEW s \in Seq(S) PROVE At(s, 1 .. Len(s)) = s
<1>. DEFINE I == 1 .. Len(s)
<1>1. Len(s) \in Nat /\ I \in SUBSET (1 .. Len(s)) /\ \A p \in I : s[p] \in S
  OBVIOUS
<1>2. Cardinality(I) = Len(s)
  <2>1. 1 \in Int /\ Len(s) \in Int
    BY <1>1
  <2>2. Cardinality(1 .. Len(s)) = IF 1 > Len(s) THEN 0 ELSE Len(s) - 1 + 1
    BY <2>1, FS_Interval
  <2>. QED
    BY <1>1, <2>2
<1>3. ASSUME NEW p \in I
      PROVE  Before(I, p) = p - 1
  <2>1. {q \in I : q < p} = 1 .. p - 1
    OBVIOUS
  <2>2. Cardinality(1 .. p - 1) = p - 1
    BY FS_Interval
  <2>. QED
    BY <2>1, <2>2 DEF Before
<1>. HIDE DEF I
<1>4. ASSUME NEW p \in I
      PROVE  At(s, I)[p] = s[p]
  <2>1. p \in 1 .. Cardinality(I) /\ Before(I, p) = p - 1
    BY <1>2, <1>3 DEF I
  <2>. QED
    BY <1>1, <2>1, AtPosition, ZenonT(60)
<1>5. At(s, I) \in Seq(S) /\ Len(At(s, I)) = Len(s)
  BY <1>1, <1>2, AtTyped, ZenonT(60)
<1>. QED
  BY <1>4, <1>5 DEF I

\* Without its first position the part is its own tail.
LEMMA AtTail ==
  ASSUME NEW s, NEW m \in Nat, NEW I \in SUBSET (1 .. m), NEW f \in I, \A p \in I : f <= p
  PROVE  /\ At(s, I) # <<>> /\ Head(At(s, I)) = s[f]
         /\ At(s, I \ {f}) = Tail(At(s, I))
         /\ Cardinality(I) = Cardinality(I \ {f}) + 1
<1>. DEFINE J == I \ {f}
            S == {s[p] : p \in I}
<1>1. /\ J \in SUBSET (1 .. m) /\ f \notin J /\ I = J \cup {f}
      /\ \A p \in I : s[p] \in S
  OBVIOUS
<1>. HIDE DEF J, S
<1>2. Cardinality(I) = Cardinality(J) + 1 /\ Cardinality(J) \in Nat
  BY <1>1, Finite, FS_AddElement
<1>3. Before(I, f) = 0
  <2>1. \A q \in I : ~(q < f)
    OBVIOUS
  <2>2. {q \in I : q < f} = {}
    BY <2>1
  <2>. QED
    BY <2>2, FS_EmptySet DEF Before
<1>4. ASSUME NEW p \in J
      PROVE  Before(I, p) = Before(J, p) + 1 /\ Before(J, p) \in Nat
  <2>1. f < p
    BY <1>1
  <2>2. {q \in I : q < p} = {q \in J : q < p} \cup {f} /\ f \notin {q \in J : q < p}
    BY <1>1, <2>1
  <2>3. {q \in J : q < p} \in SUBSET (1 .. m)
    BY <1>1
  <2>4. IsFiniteSet({q \in J : q < p}) /\ Cardinality({q \in J : q < p}) \in Nat
    BY <2>3, Finite
  <2>. QED
    BY <2>2, <2>4, FS_AddElement DEF Before
<1>5. /\ At(s, I) \in Seq(S) /\ Len(At(s, I)) = Cardinality(I)
      /\ At(s, J) \in Seq(S) /\ Len(At(s, J)) = Cardinality(J)
  BY <1>1, AtTyped
<1>6. At(s, I)[1] = s[f]
  <2>1. 1 \in 1 .. Cardinality(I) /\ Before(I, f) = 1 - 1
    BY <1>2, <1>3
  <2>. QED
    BY <2>1, AtPosition
<1>7. ASSUME NEW n \in 1 .. Cardinality(J)
      PROVE  At(s, J)[n] = At(s, I)[n + 1]
  <2>1. PICK p \in J : Before(J, p) = n - 1
    BY <1>1, PositionExists
  <2>. DEFINE l == n + 1
  <2>2. p \in I /\ Before(I, p) = l - 1 /\ l \in 1 .. Cardinality(I)
    <3>1. Before(I, p) = n - 1 + 1 /\ n \in Nat
      BY <1>2, <1>4, <2>1
    <3>. QED
      BY <1>1, <1>2, <3>1
  <2>3. At(s, J)[n] = s[p]
    BY <1>1, <2>1, AtPosition, ZenonT(60)
  <2>. HIDE DEF l
  <2>4. At(s, I)[l] = s[p]
    BY <2>2, AtPosition
  <2>. QED
    BY <2>3, <2>4 DEF l
<1>8. At(s, J) = Tail(At(s, I))
  BY <1>2, <1>5, <1>7
<1>9. At(s, I) # <<>> /\ Head(At(s, I)) = s[f]
  BY <1>2, <1>5, <1>6
<1>. QED
  BY <1>2, <1>8, <1>9 DEF J

\* A part is no longer than the whole, and without repetition if the whole is.
LEMMA AtDistinct ==
  ASSUME NEW s, NEW m \in Nat, NEW I \in SUBSET (1 .. m),
         \A p, q \in I : s[p] = s[q] => p = q
  PROVE  /\ Len(At(s, I)) <= m
         /\ \A n, k \in 1 .. Len(At(s, I)) : At(s, I)[n] = At(s, I)[k] => n = k
<1>1. IsFiniteSet(1 .. m) /\ Cardinality(1 .. m) = m
  <2>1. 1 \in Int /\ m \in Int
    OBVIOUS
  <2>2. Cardinality(1 .. m) = IF 1 > m THEN 0 ELSE m - 1 + 1
    BY <2>1, FS_Interval
  <2>. QED
    BY <2>1, <2>2, FS_Interval
<1>2. Cardinality(I) <= m /\ Cardinality(I) \in Nat
  <2>. DEFINE D == 1 .. m
  <2>1. IsFiniteSet(D) /\ Cardinality(D) = m /\ I \in SUBSET D
    BY <1>1
  <2>. HIDE DEF D
  <2>. QED
    BY <2>1, FS_Subset, Finite
<1>3. Len(At(s, I)) = Cardinality(I)
  <2>. DEFINE S == {s[p] : p \in I}
  <2>1. \A p \in I : s[p] \in S
    OBVIOUS
  <2>. HIDE DEF S
  <2>2. At(s, I) \in Seq(S)
    BY <2>1, AtTyped
  <2>3. Cardinality(I) \in Nat /\ At(s, I) = [n \in 1 .. Cardinality(I) |-> At(s, I)[n]]
    BY <1>2 DEF At
  <2>. QED
    BY <2>2, <2>3
<1>4. ASSUME NEW n \in 1 .. Cardinality(I), NEW k \in 1 .. Cardinality(I),
             At(s, I)[n] = At(s, I)[k]
      PROVE  n = k
  <2>1. PICK p \in I : Before(I, p) = n - 1
    BY PositionExists
  <2>2. PICK q \in I : Before(I, q) = k - 1
    BY PositionExists
  <2>3. At(s, I)[n] = s[p]
    BY <2>1, AtPosition, ZenonT(60)
  <2>4. At(s, I)[k] = s[q]
    BY <2>2, AtPosition, ZenonT(60)
  <2>5. n - 1 = k - 1
    BY <1>4, <2>1, <2>2, <2>3, <2>4
  <2>. QED
    BY <1>2, <2>5
<1>. QED
  BY <1>2, <1>3, <1>4
=============================================================================
