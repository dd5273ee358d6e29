------------------------------- MODULE Lemmas -------------------------------
(***************************************************************************)
(* Facts about queues, sequences, numbers and finite sets that the proofs  *)
(* about the components share.                                             *)
(***************************************************************************)
EXTENDS Queue, FiniteSetsExt, FiniteSetTheorems, SequenceTheorems, TLAPS

(* Every set of natural numbers that is not empty has a least element: the *)
(* order of the natural numbers is well founded.                           *)
LEMMA LeastNat ==
  ASSUME NEW T \in SUBSET Nat, T # {}
  PROVE  \E n \in T : \A m \in T : n <= m
<1> DEFINE R == {ss \in Nat \X Nat : ss[1] < ss[2]}
<1>1. OpToRel(<, Nat) = R
  BY Zenon DEF OpToRel
<1>2. IsWellFoundedOn(R, Nat)
  BY <1>1, NatLessThanWellFounded, Zenon
<1>3. PICK n \in T : \A m \in T : ~ (<<m, n>> \in R)
  <2> HIDE DEF R
  <2> QED BY <1>2, WFMin
<1>4. ASSUME NEW m \in T PROVE n <= m
  <2>1. m \in Nat /\ n \in Nat
    OBVIOUS
  <2>2. ~ (m < n)
    <3>1. <<m, n>> \in Nat \X Nat
      BY <2>1
    <3> QED BY <1>3, <3>1, Zenon
  <2> QED BY <2>1, <2>2
<1> QED BY <1>4

(* Min takes the least element. *)
LEMMA MinIn ==
  ASSUME NEW T \in SUBSET Nat, T # {}
  PROVE  Min(T) \in T /\ \A m \in T : Min(T) <= m
BY LeastNat DEF Min

(* A set of natural numbers with an upper bound has a greatest element,    *)
(* and Max takes it.                                                       *)
LEMMA MaxIn ==
  ASSUME NEW T \in SUBSET Nat, T # {}, NEW b \in Nat, \A m \in T : m <= b
  PROVE  Max(T) \in T /\ \A m \in T : m <= Max(T)
<1> DEFINE U == {k \in Nat : \A m \in T : m <= k}
<1>1. U \in SUBSET Nat /\ U # {}
  OBVIOUS
<1>2. PICK u \in U : \A k \in U : u <= k
  BY <1>1, LeastNat
<1>3. u \in T
  <2> SUFFICES ASSUME u \notin T PROVE FALSE
    OBVIOUS
  <2>1. PICK x \in T : TRUE
    OBVIOUS
  <2>2. x \in Nat /\ u \in Nat /\ x <= u /\ x # u
    BY <1>2
  <2>3. u - 1 \in U
    BY <1>2, <2>2
  <2> QED BY <1>2, <2>2, <2>3
<1> QED BY <1>2, <1>3 DEF Max

(* A finite set covers no more elements than it has: what f makes of the   *)
(* elements of S.                                                          *)
LEMMA Covers ==
  ASSUME NEW S, IsFiniteSet(S), NEW T, NEW f, \A t \in T : \E s \in S : f[s] = t
  PROVE  /\ IsFiniteSet(T)
         /\ Cardinality(T) <= Cardinality(S)
         /\ Cardinality(T) \in Nat /\ Cardinality(S) \in Nat
<1> DEFINE U == {s \in S : f[s] \in T}
           g == [s \in U |-> f[s]]
<1>1. IsFiniteSet(U) /\ Cardinality(U) <= Cardinality(S)
  BY FS_Subset
<1>2. g \in Surjection(U, T)
  BY DEF Surjection
<1>3. IsFiniteSet(T) /\ Cardinality(T) <= Cardinality(U)
  <2> HIDE DEF U, g
  <2> QED BY <1>1, <1>2, FS_Surjection
<1>4. Cardinality(T) \in Nat /\ Cardinality(U) \in Nat /\ Cardinality(S) \in Nat
  BY <1>1, <1>3, FS_CardinalityType
<1> HIDE DEF U
<1> QED BY <1>1, <1>3, <1>4

-----------------------------------------------------------------------------
(* The queue holds every element of S once, and nothing else. *)
Holds(q, S) ==
  /\ q \in Seq(S)
  /\ \A x \in S : \E n \in 1 .. Len(q) : q[n] = x
  /\ \A m, n \in 1 .. Len(q) : q[m] = q[n] => m = n

(* The empty queue holds nothing, and only that one does. *)
LEMMA HoldsEmpty ==
  /\ Holds(<<>>, {})
  /\ \A q : Holds(q, {}) => q = <<>>
  /\ \A S : Holds(<<>>, S) => S = {}
<1>1. Holds(<<>>, {})
  BY DEF Holds
<1>2. ASSUME NEW q, Holds(q, {}) PROVE q = <<>>
  <2>1. q \in Seq({}) /\ Len(q) \in Nat
    BY <1>2 DEF Holds
  <2>2. Len(q) = 0
    <3> SUFFICES ASSUME Len(q) # 0 PROVE FALSE
      OBVIOUS
    <3>1. 1 \in 1 .. Len(q)
      BY <2>1
    <3> QED BY <2>1, <3>1, ElementOfSeq
  <2> QED BY <2>1, <2>2, EmptySeq
<1>3. ASSUME NEW S, Holds(<<>>, S) PROVE S = {}
  BY <1>3 DEF Holds
<1> QED BY <1>1, <1>2, <1>3

(* An element put at the head. *)
LEMMA HoldsInsert ==
  ASSUME NEW S, NEW q, Holds(q, S), NEW x, x \notin S
  PROVE  Holds(<<x>> \o q, S \cup {x})
<1> DEFINE p == <<x>> \o q
<1>1. q \in Seq(S \cup {x}) /\ <<x>> \in Seq(S \cup {x}) /\ Len(<<x>>) = 1
  <2>1. q \in Seq(S)
    BY DEF Holds
  <2> QED BY <2>1, SeqMonotonic
<1>2. Len(q) \in Nat /\ p \in Seq(S \cup {x}) /\ Len(p) = Len(q) + 1
  BY <1>1, ConcatProperties
<1>3. \A n \in 1 .. Len(p) : p[n] = IF n = 1 THEN x ELSE q[n - 1]
  BY <1>1, <1>2, ConcatProperties
<1>4. \A n \in 1 .. Len(q) : q[n] \in S
  BY ElementOfSeq DEF Holds
<1> HIDE DEF p
<1>5. ASSUME NEW y \in S \cup {x} PROVE \E n \in 1 .. Len(p) : p[n] = y
  <2>1. CASE y = x
    BY <1>2, <1>3, <2>1
  <2>2. CASE y \in S
    <3>1. PICK n \in 1 .. Len(q) : q[n] = y
      BY <2>2 DEF Holds
    <3>2. n + 1 \in 1 .. Len(p) /\ p[n + 1] = y
      BY <1>2, <1>3, <3>1
    <3> QED BY <3>2
  <2> QED BY <2>1, <2>2
<1>6. ASSUME NEW m \in 1 .. Len(p), NEW n \in 1 .. Len(p), p[m] = p[n] PROVE m = n
  <2>1. (m = 1 \/ m - 1 \in 1 .. Len(q)) /\ (n = 1 \/ n - 1 \in 1 .. Len(q))
    BY <1>2
  <2>2. m # 1 /\ n # 1 => q[m - 1] = q[n - 1]
    BY <1>3, <1>6
  <2>3. m # 1 /\ n # 1 => m - 1 = n - 1
    BY <2>1, <2>2 DEF Holds
  <2>4. m = 1 /\ n # 1 => FALSE
    BY <1>3, <1>4, <1>6, <2>1
  <2>5. n = 1 /\ m # 1 => FALSE
    BY <1>3, <1>4, <1>6, <2>1
  <2> QED BY <1>2, <2>3, <2>4, <2>5
<1> QED BY <1>2, <1>5, <1>6 DEF p, Holds

(* A sequence without its element at n. *)
LEMMA RemoveAtElements ==
  ASSUME NEW S, NEW s \in Seq(S), NEW n \in 1 .. Len(s)
  PROVE  /\ RemoveAt(s, n) \in Seq(S)
         /\ Len(RemoveAt(s, n)) = Len(s) - 1
         /\ \A k \in 1 .. Len(s) - 1 : RemoveAt(s, n)[k] = IF k < n THEN s[k] ELSE s[k + 1]
<1> DEFINE a == SubSeq(s, 1, n - 1)
           b == SubSeq(s, n + 1, Len(s))
<1>1. Len(s) \in Nat
  OBVIOUS
<1>2. /\ a \in Seq(S) /\ Len(a) = n - 1
      /\ \A k \in 1 .. n - 1 : a[k] = s[k]
  BY <1>1, SubSeqProperties
<1>3. /\ b \in Seq(S) /\ Len(b) = Len(s) - n
      /\ \A k \in 1 .. Len(s) - n : b[k] = s[n + k]
  BY <1>1, SubSeqProperties
<1> HIDE DEF a, b
<1>4. /\ a \o b \in Seq(S) /\ Len(a \o b) = Len(s) - 1
      /\ \A k \in 1 .. Len(s) - 1 : (a \o b)[k] = IF k <= n - 1 THEN a[k] ELSE b[k - (n - 1)]
  <2>1. /\ a \o b \in Seq(S) /\ Len(a \o b) = Len(a) + Len(b)
        /\ \A k \in 1 .. Len(a) + Len(b) :
             (a \o b)[k] = IF k <= Len(a) THEN a[k] ELSE b[k - Len(a)]
    BY <1>2, <1>3, ConcatProperties
  <2>2. Len(a) + Len(b) = Len(s) - 1
    BY <1>1, <1>2, <1>3
  <2> QED BY <1>2, <2>1, <2>2
<1>5. ASSUME NEW k \in 1 .. Len(s) - 1
      PROVE  (a \o b)[k] = IF k < n THEN s[k] ELSE s[k + 1]
  <2>1. CASE k < n
    BY <1>1, <1>2, <1>4, <2>1
  <2>2. CASE ~(k < n)
    <3>1. k - (n - 1) \in 1 .. Len(s) - n /\ n + (k - (n - 1)) = k + 1
      BY <1>1, <2>2
    <3> QED BY <1>1, <1>3, <1>4, <2>2, <3>1
  <2> QED BY <2>1, <2>2
<1>6. RemoveAt(s, n) = a \o b
  BY DEF RemoveAt, a, b
<1> QED BY <1>4, <1>5, <1>6

(* What is left when the element at n is taken out. *)
LEMMA HoldsRemoveAt ==
  ASSUME NEW S, NEW q, Holds(q, S), NEW n \in 1 .. Len(q)
  PROVE  q[n] \in S /\ Holds(RemoveAt(q, n), S \ {q[n]})
<1> DEFINE p == RemoveAt(q, n)
           T == S \ {q[n]}
<1>1. q \in Seq(S) /\ Len(q) \in Nat
  BY DEF Holds
<1>2. \A k \in 1 .. Len(q) : q[k] \in S
  BY <1>1, ElementOfSeq
<1>3. /\ p \in Seq(S) /\ Len(p) = Len(q) - 1
      /\ \A k \in 1 .. Len(q) - 1 : p[k] = IF k < n THEN q[k] ELSE q[k + 1]
  BY <1>1, RemoveAtElements
<1> HIDE DEF p
<1>4. \A k \in 1 .. Len(p) : p[k] \in T
  <2> SUFFICES ASSUME NEW k \in 1 .. Len(p) PROVE p[k] \in T
    OBVIOUS
  <2>1. PICK m \in 1 .. Len(q) : p[k] = q[m] /\ m # n
    BY <1>1, <1>3
  <2> QED BY <1>2, <2>1 DEF Holds
<1>5. p \in Seq(T)
  BY <1>3, <1>4, LenProperties, SeqDef
<1>6. ASSUME NEW x \in T PROVE \E k \in 1 .. Len(p) : p[k] = x
  <2>1. PICK m \in 1 .. Len(q) : q[m] = x
    BY DEF Holds
  <2>2. m # n
    BY <2>1
  <2>3. CASE m < n
    BY <1>1, <1>3, <2>1, <2>3
  <2>4. CASE m > n
    <3>1. m - 1 \in 1 .. Len(p) /\ ~(m - 1 < n) /\ (m - 1) + 1 = m
      BY <1>1, <1>3, <2>4
    <3> QED BY <1>3, <2>1, <3>1
  <2> QED BY <1>1, <2>2, <2>3, <2>4
<1>7. ASSUME NEW j \in 1 .. Len(p), NEW k \in 1 .. Len(p), p[j] = p[k] PROVE j = k
  <2> DEFINE J == IF j < n THEN j ELSE j + 1
             K == IF k < n THEN k ELSE k + 1
  <2>1. J \in 1 .. Len(q) /\ K \in 1 .. Len(q) /\ q[J] = q[K]
    BY <1>1, <1>3, <1>7
  <2>2. J = K
    BY <2>1 DEF Holds
  <2> QED BY <1>1, <1>3, <2>2
<1> QED BY <1>2, <1>5, <1>6, <1>7 DEF p, Holds

(* An element unlinked, wherever it stands. *)
LEMMA HoldsRemove ==
  ASSUME NEW S, NEW q, Holds(q, S), NEW x \in S
  PROVE  Holds(QueueRemove(q, x), S \ {x})
<1> DEFINE n == CHOOSE n \in DOMAIN q : q[n] = x
<1>1. DOMAIN q = 1 .. Len(q)
  BY DEF Holds
<1>2. \E k \in DOMAIN q : q[k] = x
  BY <1>1 DEF Holds
<1>3. n \in DOMAIN q /\ q[n] = x
  BY <1>2
<1> HIDE DEF n
<1>4. Holds(RemoveAt(q, n), S \ {q[n]})
  BY <1>1, <1>3, HoldsRemoveAt
<1> QED BY <1>3, <1>4 DEF n, QueueRemove

(* An element moved to the head. *)
LEMMA HoldsToHead ==
  ASSUME NEW S, NEW q, Holds(q, S), NEW x \in S
  PROVE  Holds(QueueToHead(q, x), S)
<1>1. Holds(QueueRemove(q, x), S \ {x})
  BY HoldsRemove
<1>2. Holds(<<x>> \o QueueRemove(q, x), (S \ {x}) \cup {x})
  BY <1>1, HoldsInsert
<1>3. (S \ {x}) \cup {x} = S
  OBVIOUS
<1> QED BY <1>2, <1>3 DEF QueueToHead

(* What is left without the last element. *)
LEMMA HoldsFront ==
  ASSUME NEW S, NEW q, Holds(q, S), q # <<>>
  PROVE  Last(q) \in S /\ Holds(Front(q), S \ {Last(q)})
<1> DEFINE p == Front(q)
           x == Last(q)
           T == S \ {x}
<1>1. q \in Seq(S) /\ Len(q) \in Nat /\ Len(q) # 0 /\ x = q[Len(q)]
  BY EmptySeq DEF Holds, Last
<1>2. \A k \in 1 .. Len(q) : q[k] \in S
  BY <1>1, ElementOfSeq
<1>3. x \in S
  BY <1>1, <1>2
<1>4. /\ p \in Seq(S) /\ Len(p) = Len(q) - 1
      /\ \A k \in 1 .. Len(q) - 1 : p[k] = q[k]
  <2>1. PICK l \in Nat : l = Len(q) - 1
    BY <1>1
  <2>2. p = SubSeq(q, 1, l)
    BY <2>1 DEF Front
  <2>3. \A k \in 1 .. l : q[k] \in S /\ 1 + k - 1 = k
    BY <1>1, <1>2, <2>1
  <2>4. /\ p \in Seq(S) /\ Len(p) = (IF 1 <= l THEN l - 1 + 1 ELSE 0)
        /\ \A k \in 1 .. l - 1 + 1 : p[k] = q[1 + k - 1]
    <3> HIDE DEF p
    <3> QED BY <2>2, <2>3, SubSeqProperties
  <2> HIDE DEF p
  <2> QED BY <2>1, <2>3, <2>4
<1> HIDE DEF p, x
<1>5. ASSUME NEW k \in 1 .. Len(p) PROVE p[k] \in T
  <2>1. k \in 1 .. Len(q) /\ k # Len(q) /\ p[k] = q[k] /\ Len(q) \in 1 .. Len(q)
    BY <1>1, <1>4
  <2>2. q[k] # q[Len(q)]
    BY <2>1 DEF Holds
  <2> QED BY <1>1, <1>2, <2>1, <2>2
<1>6. p \in Seq(T)
  BY <1>4, <1>5, IsASeq
<1>7. ASSUME NEW y \in T PROVE \E k \in 1 .. Len(p) : p[k] = y
  <2>1. PICK m \in 1 .. Len(q) : q[m] = y
    BY DEF Holds
  <2>2. m # Len(q)
    BY <1>1, <2>1
  <2> QED BY <1>1, <1>4, <2>1, <2>2
<1>8. ASSUME NEW j \in 1 .. Len(p), NEW k \in 1 .. Len(p), p[j] = p[k] PROVE j = k
  <2>1. j \in 1 .. Len(q) /\ k \in 1 .. Len(q) /\ p[j] = q[j] /\ p[k] = q[k]
    BY <1>1, <1>4
  <2> QED BY <1>8, <2>1 DEF Holds
<1> QED BY <1>3, <1>6, <1>7, <1>8 DEF p, x, Holds

(* The length of a queue is the number of its elements. *)
LEMMA HoldsLen ==
  ASSUME NEW S, NEW q, Holds(q, S)
  PROVE  /\ IsFiniteSet(S)
         /\ Len(q) = Cardinality(S)
         /\ Range(q) = S
         /\ \A x \in S : Cardinality({n \in DOMAIN q : q[n] = x}) = 1
         /\ \A x : x \notin S => Cardinality({n \in DOMAIN q : q[n] = x}) = 0
<1>1. q \in Seq(S) /\ Len(q) \in Nat /\ DOMAIN q = 1 .. Len(q)
  BY DEF Holds
<1>2. \A n \in 1 .. Len(q) : q[n] \in S
  BY <1>1, ElementOfSeq
<1>3. q \in [1 .. Len(q) -> S]
  BY <1>1, LenProperties
<1>4. q \in Bijection(1 .. Len(q), S)
  <2>1. q \in Injection(1 .. Len(q), S)
    BY <1>3 DEF Holds, Injection, IsInjective
  <2>2. q \in Surjection(1 .. Len(q), S)
    BY <1>3 DEF Holds, Surjection
  <2> QED BY <2>1, <2>2 DEF Bijection
<1>5. ExistsBijection(1 .. Len(q), S)
  BY <1>4 DEF ExistsBijection
<1>6. IsFiniteSet(S) /\ Cardinality(S) = Len(q)
  BY <1>1, <1>5, FS_NatBijection, FS_CountingElements
<1>7. Range(q) = S
  BY <1>1, <1>2 DEF Holds, Range
<1>8. ASSUME NEW x \in S PROVE Cardinality({n \in DOMAIN q : q[n] = x}) = 1
  <2>1. PICK m \in 1 .. Len(q) : q[m] = x
    BY DEF Holds
  <2>2. {n \in DOMAIN q : q[n] = x} = {m}
    BY <1>1, <2>1 DEF Holds
  <2> QED BY <2>2, FS_Singleton
<1>9. ASSUME NEW x, x \notin S PROVE Cardinality({n \in DOMAIN q : q[n] = x}) = 0
  <2>1. {n \in DOMAIN q : q[n] = x} = {}
    BY <1>1, <1>2, <1>9
  <2> QED BY <2>1, FS_EmptySet
<1> QED BY <1>6, <1>7, <1>8, <1>9

(* What is left without the first element. *)
LEMMA HoldsTail ==
  ASSUME NEW S, NEW q, Holds(q, S), q # <<>>
  PROVE  Head(q) \in S /\ Holds(Tail(q), S \ {Head(q)})
<1> DEFINE p == Tail(q)
           x == Head(q)
           T == S \ {x}
<1>1. q \in Seq(S) /\ Len(q) \in Nat /\ Len(q) # 0 /\ x = q[1]
  BY EmptySeq DEF Holds
<1>2. \A k \in 1 .. Len(q) : q[k] \in S
  BY <1>1, ElementOfSeq
<1>3. /\ p \in Seq(S) /\ Len(p) = Len(q) - 1
      /\ \A k \in 1 .. Len(q) - 1 : p[k] = q[k + 1]
  BY <1>1, HeadTailProperties
<1>4. x \in S
  BY <1>1, <1>2
<1> HIDE DEF p, x
<1>5. ASSUME NEW k \in 1 .. Len(p) PROVE p[k] \in T
  <2>1. k + 1 \in 1 .. Len(q) /\ k + 1 # 1 /\ p[k] = q[k + 1] /\ 1 \in 1 .. Len(q)
    BY <1>1, <1>3
  <2>2. q[k + 1] # q[1]
    BY <2>1 DEF Holds
  <2> QED BY <1>1, <1>2, <2>1, <2>2
<1>6. p \in Seq(T)
  BY <1>3, <1>5, IsASeq
<1>7. ASSUME NEW y \in T PROVE \E k \in 1 .. Len(p) : p[k] = y
  <2>1. PICK m \in 1 .. Len(q) : q[m] = y
    BY DEF Holds
  <2>2. m # 1
    BY <1>1, <2>1
  <2>3. m - 1 \in 1 .. Len(p) /\ (m - 1) + 1 = m /\ m - 1 \in 1 .. Len(q) - 1
    BY <1>1, <1>3, <2>2
  <2>4. p[m - 1] = q[m]
    BY <1>3, <2>3
  <2> QED BY <2>1, <2>3, <2>4
<1>8. ASSUME NEW j \in 1 .. Len(p), NEW k \in 1 .. Len(p), p[j] = p[k] PROVE j = k
  <2>1. j + 1 \in 1 .. Len(q) /\ k + 1 \in 1 .. Len(q) /\ p[j] = q[j + 1] /\ p[k] = q[k + 1]
    BY <1>1, <1>3
  <2>2. j + 1 = k + 1
    BY <1>8, <2>1 DEF Holds
  <2> QED BY <2>2
<1> QED BY <1>4, <1>6, <1>7, <1>8 DEF p, x, Holds

-----------------------------------------------------------------------------
(* What passes on from each number to the next holds up to N. *)
LEMMA Upto ==
  ASSUME NEW N \in Nat, NEW T, 0 \in T, \A n \in 1 .. N : n - 1 \in T => n \in T
  PROVE  0 .. N \subseteq T
<1> SUFFICES ASSUME NEW k \in 0 .. N, k \notin T PROVE FALSE
  OBVIOUS
<1> DEFINE U == (0 .. N) \ T
<1>1. PICK n \in U : \A m \in U : n <= m
  <2>1. U \in SUBSET Nat /\ k \in U
    OBVIOUS
  <2> QED BY <2>1, LeastNat
<1>2. n # 0 /\ n \in 1 .. N
  OBVIOUS
<1>3. n - 1 \in T
  BY <1>1, <1>2
<1> QED BY <1>1, <1>2, <1>3

(* A step that is defined on a set and stays in it can be repeated. *)
Repeats(f, b, g, N) == f[0] = b /\ \A n \in 1 .. N : f[n] = g[n][f[n - 1]]

LEMMA Iteration ==
  ASSUME NEW S, NEW N \in Nat, NEW b \in S, NEW g \in [1 .. N -> [S -> S]]
  PROVE  \E f \in [0 .. N -> S] : Repeats(f, b, g, N)
<1> DEFINE T == {n \in 0 .. N : \E f \in [0 .. n -> S] : Repeats(f, b, g, n)}
<1>1. 0 \in T
  <2> DEFINE f == [k \in 0 .. 0 |-> b]
  <2>1. f \in [0 .. 0 -> S] /\ Repeats(f, b, g, 0)
    BY DEF Repeats
  <2> HIDE DEF f
  <2> QED BY <2>1
<1>2. ASSUME NEW n \in 1 .. N, n - 1 \in T PROVE n \in T
  <2>1. PICK f \in [0 .. n - 1 -> S] : Repeats(f, b, g, n - 1)
    BY <1>2
  <2> DEFINE v == g[n][f[n - 1]]
             h == [k \in 0 .. n |-> IF k = n THEN v ELSE f[k]]
  <2>2. v \in S
    BY <2>1
  <2>3. h \in [0 .. n -> S] /\ h[n] = v /\ \A k \in 0 .. n - 1 : h[k] = f[k]
    <3> HIDE DEF v
    <3> QED BY <2>1, <2>2
  <2>4. h[0] = b
    BY <2>1, <2>3 DEF Repeats
  <2>5. ASSUME NEW k \in 1 .. n PROVE h[k] = g[k][h[k - 1]]
    <3>1. CASE k = n
      BY <2>3, <3>1
    <3>2. CASE k # n
      <4>1. k \in 1 .. n - 1 /\ k - 1 \in 0 .. n - 1 /\ k \in 0 .. n - 1
        BY <3>2
      <4>2. f[k] = g[k][f[k - 1]]
        BY <2>1, <4>1 DEF Repeats
      <4> HIDE DEF h
      <4> QED BY <2>3, <4>1, <4>2
    <3> QED BY <3>1, <3>2
  <2> HIDE DEF h
  <2>6. Repeats(h, b, g, n)
    BY <2>4, <2>5 DEF Repeats
  <2> QED BY <2>3, <2>6
<1> HIDE DEF T
<1>3. 0 .. N \subseteq T
  BY <1>1, <1>2, Upto
<1>4. N \in T
  BY <1>3
<1> QED BY <1>4 DEF T

(* FlattenSeq puts together what its parts are made of. *)
LEMMA Flattened ==
  ASSUME NEW S, NEW q \in Seq(Seq(S))
  PROVE  FlattenSeq(q) \in Seq(S)
<1>1. CASE Len(q) = 0
  <2>1. q = <<>>
    BY <1>1, EmptySeq
  <2>2. FlattenSeq(q) = q
    BY <1>1 DEF FlattenSeq
  <2>3. <<>> \in Seq(S)
    OBVIOUS
  <2> QED BY <2>1, <2>2, <2>3
<1>2. CASE Len(q) # 0
  <2> DEFINE N == Len(q)
             P(f) == f = [i \in 1 .. N |-> IF i = 1 THEN q[i] ELSE f[i - 1] \o q[i]]
             flatten[i \in 1 .. N] == IF i = 1 THEN q[i] ELSE flatten[i - 1] \o q[i]
             g == [n \in 1 .. N |-> [s \in Seq(S) |-> s \o q[n]]]
  <2>1. N \in Nat /\ N # 0 /\ \A n \in 1 .. N : q[n] \in Seq(S)
    BY <1>2
  <2>2. g \in [1 .. N -> [Seq(S) -> Seq(S)]] /\ <<>> \in Seq(S)
    <3>1. \A n \in 1 .. N : \A s \in Seq(S) : s \o q[n] \in Seq(S)
      BY <2>1
    <3> QED BY <3>1
  <2>3. PICK f \in [0 .. N -> Seq(S)] : Repeats(f, <<>>, g, N)
    <3> HIDE DEF g, N
    <3> QED BY <2>1, <2>2, Iteration
  <2>4. \A n \in 1 .. N : f[n] = f[n - 1] \o q[n]
    <3> SUFFICES ASSUME NEW n \in 1 .. N PROVE f[n] = f[n - 1] \o q[n]
      OBVIOUS
    <3>1. f[n] = g[n][f[n - 1]]
      BY <2>3 DEF Repeats
    <3>2. f[n - 1] \in Seq(S)
      <4> HIDE DEF g
      <4>1. n - 1 \in 0 .. N
        BY <2>1
      <4> QED BY <2>3, <4>1
    <3>3. g[n][f[n - 1]] = f[n - 1] \o q[n]
      <4>1. g[n] = [s \in Seq(S) |-> s \o q[n]]
        OBVIOUS
      <4> HIDE DEF g
      <4> QED BY <3>2, <4>1
    <3> QED BY <3>1, <3>3
  <2> DEFINE h == [n \in 1 .. N |-> f[n]]
  <2>5. P(h)
    <3>1. ASSUME NEW n \in 1 .. N
          PROVE  h[n] = IF n = 1 THEN q[n] ELSE h[n - 1] \o q[n]
      <4>1. CASE n = 1
        <5>1. f[n] = f[n - 1] \o q[n]
          BY <2>4
        <5>2. n - 1 = 0 /\ f[0] = <<>> /\ q[n] \in Seq(S)
          BY <2>1, <2>3, <4>1 DEF Repeats
        <5>3. <<>> \o q[n] = q[n]
          BY <5>2, ConcatEmptySeq
        <5> QED BY <4>1, <5>1, <5>2, <5>3
      <4>2. CASE n # 1
        <5>1. n - 1 \in 1 .. N
          BY <2>1, <4>2
        <5> QED BY <2>4, <4>2, <5>1
      <4> QED BY <4>1, <4>2
    <3> HIDE DEF h
    <3>2. h = [n \in 1 .. N |-> h[n]]
      BY DEF h
    <3> QED BY <3>1, <3>2
  <2>6. flatten = CHOOSE x : P(x)
    BY Zenon
  <2>7. P(CHOOSE x : P(x))
    <3> HIDE DEF P
    <3> QED BY <2>5, Zenon
  <2>8. FlattenSeq(q) = flatten[N]
    BY <1>2, Zenon DEF FlattenSeq
  <2> HIDE DEF flatten
  <2>9. P(flatten)
    BY ZenonT(40), <2>6, <2>7
  <2> DEFINE T == {n \in 0 .. N : n = 0 \/ flatten[n] \in Seq(S)}
  <2>10. ASSUME NEW n \in 1 .. N, n - 1 \in T PROVE n \in T
    <3>1. flatten[n] = IF n = 1 THEN q[n] ELSE flatten[n - 1] \o q[n]
      BY <2>9
    <3>2. CASE n = 1
      <4>1. flatten[n] = q[n] /\ q[n] \in Seq(S)
        BY <2>1, <3>1, <3>2
      <4> QED BY <4>1
    <3>3. CASE n # 1
      <4>1. flatten[n - 1] \in Seq(S)
        BY <2>10, <3>3
      <4>2. flatten[n] = flatten[n - 1] \o q[n] /\ q[n] \in Seq(S)
        BY <2>1, <3>1, <3>3
      <4>3. flatten[n] \in Seq(S)
        BY <4>1, <4>2
      <4> QED BY <2>1, <4>3
    <3> QED BY <3>2, <3>3
  <2>11. N \in T
    <3>1. 0 \in T
      BY <2>1
    <3>2. N \in Nat
      BY <2>1
    <3> HIDE DEF T, N
    <3>3. 0 .. N \subseteq T
      BY <2>10, <3>1, <3>2, Upto
    <3> QED BY <3>2, <3>3
  <2> QED BY <2>1, <2>8, <2>11
<1> QED BY <1>1, <1>2

(* Reversing keeps the elements. *)
LEMMA Reversed ==
  ASSUME NEW S, NEW q \in Seq(S)
  PROVE  Reverse(q) \in Seq(S)
<1>1. Len(q) \in Nat /\ \A i \in 1 .. Len(q) : q[i] \in S
  BY ElementOfSeq
<1>2. \A i \in 1 .. Len(q) : Len(q) - i + 1 \in 1 .. Len(q)
  BY <1>1
<1>3. Reverse(q) \in [1 .. Len(q) -> S]
  BY <1>1, <1>2 DEF Reverse
<1> QED BY <1>1, <1>3, SeqDef

(* Even and odd numbers take turns. *)
LEMMA Parity == \A a \in Nat : (a + 1) % 2 = 0 <=> ~(a % 2 = 0)
<1> SUFFICES ASSUME NEW a \in Nat PROVE (a + 1) % 2 = 0 <=> ~(a % 2 = 0)
  OBVIOUS
<1>1. a % 2 \in 0 .. 1 /\ a = 2 * (a \div 2) + (a % 2) /\ a \div 2 \in Int
  OBVIOUS
<1>2. /\ (a + 1) % 2 \in 0 .. 1 /\ a + 1 = 2 * ((a + 1) \div 2) + ((a + 1) % 2)
      /\ (a + 1) \div 2 \in Int
  OBVIOUS
<1> QED BY <1>1, <1>2

=============================================================================
