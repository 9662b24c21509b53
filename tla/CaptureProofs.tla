---------------------------- MODULE CaptureProofs ----------------------------
(***************************************************************************)
(* Proofs about Capture: what the walk reads, that the ring holds the      *)
(* event, and that the frames recorded are the callers.                    *)
(***************************************************************************)
EXTENDS Capture, SequenceTheorems, FiniteSetTheorems, FunctionTheorems, WellFoundedInduction, TLAPS

-----------------------------------------------------------------------------
(* Arithmetic.                                                             *)

LEMMA Least ==
  ASSUME NEW S \in SUBSET Nat, S # {}
  PROVE  \E m \in S : \A n \in S : m <= n
  <1> DEFINE R == OpToRel(<, Nat)
  <1>1. IsWellFoundedOn(R, Nat)
    BY NatLessThanWellFounded
  <1>2. PICK m \in S : \A n \in S : <<n, m>> \notin R
    <2> HIDE DEF R
    <2> QED BY <1>1, WFMin
  <1>3. \A n \in S : ~(n < m)
    BY <1>2 DEF OpToRel
  <1> QED BY <1>3

LEMMA MultipleIs ==
  ASSUME NEW w \in Nat \ {0}, NEW k \in Int, NEW p \in Int, p = w * k
  PROVE  p % w = 0
  OBVIOUS

LEMMA NextMultiple ==
  ASSUME NEW w \in Nat \ {0}, NEW p \in Int, p % w = 0
  PROVE  (p + w) % w = 0
  <1>1. PICK k \in Int : k = p \div w
    OBVIOUS
  <1>2. p = w * k
    BY <1>1
  <1>3. p + w = w * (k + 1) /\ k + 1 \in Int /\ p + w \in Int
    BY <1>2
  <1> QED BY <1>3, MultipleIs

LEMMA CountTo ==
  ASSUME NEW n \in Nat
  PROVE  IsFiniteSet(1..n) /\ Cardinality(1..n) = n
  <1>1. 1 \in Int /\ n \in Int /\ (IF 1 > n THEN 0 ELSE n - 1 + 1) = n
    OBVIOUS
  <1> QED BY <1>1, FS_Interval

\* A power of two counts the subsets of a set; so much for its laws.
LEMMA PowerType ==
  ASSUME NEW b \in Nat
  PROVE  2^b \in Nat \ {0}
  <1>1. IsFiniteSet(SUBSET (1..b)) /\ Cardinality(SUBSET (1..b)) = 2^b
    BY CountTo, FS_SUBSET
  <1>2. SUBSET (1..b) # {}
    OBVIOUS
  <1> QED BY <1>1, <1>2, FS_EmptySet, FS_CardinalityType

LEMMA PowerDouble ==
  ASSUME NEW b \in Nat
  PROVE  2^(b + 1) = 2 * 2^b
  <1>1. PICK A : A = SUBSET (1..b)
    OBVIOUS
  <1>2. PICK B : B = SUBSET (1..(b + 1))
    OBVIOUS
  <1>3. IsFiniteSet(A) /\ Cardinality(A) = 2^b
    BY <1>1, CountTo, FS_SUBSET
  <1>4. IsFiniteSet(B) /\ Cardinality(B) = 2^(b + 1)
    <2>1. PICK c \in Nat : c = b + 1
      OBVIOUS
    <2>2. IsFiniteSet(1..c) /\ Cardinality(1..c) = c
      BY CountTo
    <2>3. B = SUBSET (1..c)
      BY <1>2, <2>1
    <2>4. Cardinality(B) = 2^c
      BY <2>2, <2>3, FS_SUBSET
    <2> QED BY <2>1, <2>2, <2>3, <2>4, FS_SUBSET
  <1>5. IsFiniteSet({0, 1}) /\ Cardinality({0, 1}) = 2
    <2>1. {0} \cup {1} = {0, 1} /\ 1 \notin {0}
      OBVIOUS
    <2>2. IsFiniteSet({0}) /\ Cardinality({0}) = 1
      BY FS_Singleton
    <2>3. IsFiniteSet({0} \cup {1}) /\ Cardinality({0} \cup {1}) = Cardinality({0}) + 1
      BY <2>1, <2>2, FS_AddElement
    <2> QED BY <2>1, <2>2, <2>3
  <1>6. PICK P : P = A \X {0, 1}
    OBVIOUS
  <1>7. IsFiniteSet(P) /\ Cardinality(P) = Cardinality(A) * 2
    BY <1>3, <1>5, <1>6, FS_Product
  <1>8. PICK f : f = [T \in B |-> <<T \ {b + 1}, IF b + 1 \in T THEN 1 ELSE 0>>]
    OBVIOUS
  <1>9. f \in [B -> P]
    <2>1. ASSUME NEW T \in B PROVE T \ {b + 1} \in A
      <3>1. \A x \in T : x # b + 1 => x \in 1..b
        BY <1>2
      <3> QED BY <1>1, <3>1
    <2> QED BY <1>6, <1>8, <2>1
  <1>10. ASSUME NEW T \in B, NEW U \in B, f[T] = f[U] PROVE T = U
    <2>1. T \ {b + 1} = U \ {b + 1} /\ (b + 1 \in T <=> b + 1 \in U)
      BY <1>8, <1>10
    <2> QED BY <2>1
  <1>11. ASSUME NEW t \in P PROVE \E T \in B : f[T] = t
    <2>1. PICK U \in A, i \in {0, 1} : t = <<U, i>>
      BY <1>6
    <2>2. b + 1 \notin U
      BY <1>1
    <2>3. PICK T : T = IF i = 1 THEN U \cup {b + 1} ELSE U
      OBVIOUS
    <2>4. T \in B
      BY <1>1, <1>2, <2>3
    <2>5. T \ {b + 1} = U /\ (b + 1 \in T <=> i = 1)
      BY <2>2, <2>3
    <2> QED BY <1>8, <2>1, <2>4, <2>5
  <1>12. f \in Bijection(B, P)
    BY <1>9, <1>10, <1>11, Fun_IsBij
  <1>13. Cardinality(P) = Cardinality(B)
    <2>1. ExistsBijection(B, P)
      BY <1>12 DEF ExistsBijection
    <2> QED BY <1>4, <2>1, FS_Bijection
  <1> QED BY <1>3, <1>4, <1>7, <1>13, PowerType

\* Two numbers without a common bit: the greater by one is a power of two.
LEMMA Pow2Is ==
  ASSUME NEW v \in Int, IsPow2(v), v < 2^IntBits
  PROVE  \E k \in 0..IntBits : v = 2^k
  <1>1. IntBits \in Nat /\ v \in Nat \ {0}
    BY SizeAssumption DEF IsPow2
  <1>2. PICK c \in 0..IntBits : v < 2^c /\ \A d \in 0..IntBits : v < 2^d => c <= d
    <2>1. PICK S : S = {d \in 0..IntBits : v < 2^d}
      OBVIOUS
    <2>2. S \in SUBSET Nat /\ IntBits \in S
      BY <1>1, <2>1
    <2>3. PICK c \in S : \A d \in S : c <= d
      BY <2>2, Least
    <2> QED BY <2>1, <2>3
  <1>3. c # 0
    <2>1. 2^0 = 1
      OBVIOUS
    <2>2. ~(v < 1)
      BY <1>1
    <2> QED BY <1>2, <2>1, <2>2
  <1>4. PICK b \in 0..(IntBits - 1) : c = b + 1
    <2>1. c - 1 \in 0..(IntBits - 1) /\ c = (c - 1) + 1
      BY <1>1, <1>3
    <2> QED BY <2>1
  <1>5. b \in Nat /\ b \in 0..IntBits /\ ~(c <= b)
    BY <1>1, <1>4
  <1>6. PICK p \in Nat \ {0} : p = 2^b
    BY <1>5, PowerType
  <1>7. p <= v /\ v < 2 * p
    <2>1. ~(v < p)
      BY <1>2, <1>5, <1>6
    <2>2. 2^c = 2 * p
      BY <1>4, <1>5, <1>6, PowerDouble
    <2> QED BY <1>1, <1>2, <2>1, <2>2
  <1>8. ASSUME v # p PROVE FALSE
    <2>1. v \div p = 1 /\ (v - 1) \div p = 1
      BY <1>1, <1>7, <1>8
    <2>2. Bit(v, b) = 1 /\ Bit(v - 1, b) = 1
      BY <1>6, <2>1 DEF Bit
    <2> QED BY <2>2 DEF IsPow2
  <1> QED BY <1>5, <1>6, <1>8

LEMMA RestIs ==
  ASSUME NEW w \in Nat \ {0}, NEW k \in Int, NEW r \in 0..(w - 1), NEW p \in Int, p = w * k + r
  PROVE  p % w = r
  OBVIOUS

\* Half the number of ints.
LEMMA HalfIs ==
  \E h \in Nat \ {0} : /\ h = 2^(IntBits - 1) /\ 2^IntBits = 2 * h
                       /\ MaxFramesInline < h /\ Cardinality(StackWords) + MaxFramesInline < h
  <1>1. PICK b \in Nat : b = IntBits - 1 /\ IntBits = b + 1
    <2>1. IntBits - 1 \in Nat /\ IntBits = (IntBits - 1) + 1
      BY SizeAssumption
    <2> QED BY <2>1
  <1>2. PICK h \in Nat \ {0} : h = 2^b
    BY PowerType
  <1>3. 2^(b + 1) = 2 * h
    BY <1>2, PowerDouble
  <1>4. Cardinality(StackWords) \in Nat
    <2>1. Lo \in Int /\ Hi - Word \in Int
      BY SizeAssumption
    <2>2. IsFiniteSet(Lo..(Hi - Word))
      BY <2>1, FS_Interval
    <2>3. StackWords \in SUBSET (Lo..(Hi - Word))
      BY DEF StackWords
    <2>4. IsFiniteSet(StackWords)
      BY <2>2, <2>3, FS_Subset
    <2> QED BY <2>4, FS_CardinalityType
  <1>5. Cardinality(StackWords) + MaxFramesInline < h
    BY <1>1, <1>2, CountAssumption
  <1>6. MaxFramesInline < h
    BY <1>4, <1>5, SizeAssumption
  <1> QED BY <1>1, <1>2, <1>3, <1>5, <1>6

LEMMA ToIntIs ==
  ASSUME NEW n \in Int, NEW h \in Nat \ {0}, h = 2^(IntBits - 1)
  PROVE  /\ ToInt(n) \in Ints /\ ToInt(n) \in Int /\ ToInt(n) < 2^IntBits
         /\ n \in Ints => ToInt(n) = n
         /\ h <= n /\ n < 2 * h => ToInt(n) < 0
  <1>1. PICK m \in Nat \ {0} : m = 2 * h /\ m = 2^IntBits
    BY HalfIs
  <1>2. PICK r : r = (n + h) % m
    OBVIOUS
  <1>3. r \in 0..(m - 1) /\ r \in Int
    BY <1>2
  <1>4. ToInt(n) = r - h
    BY <1>1, <1>2 DEF ToInt
  <1>5. Ints = -h..(h - 1)
    BY DEF Ints
  <1>6. ASSUME n \in Ints PROVE ToInt(n) = n
    <2>1. n + h \in 0..(m - 1) /\ n + h \in Int /\ n + h = m * 0 + (n + h) /\ 0 \in Int
      BY <1>1, <1>5, <1>6
    <2>2. r = n + h
      BY ONLY m \in Nat \ {0}, <1>2, <2>1, RestIs
    <2> QED BY <1>4, <2>2
  <1>7. ASSUME h <= n, n < 2 * h PROVE ToInt(n) < 0
    <2>1. n + h - m \in 0..(m - 1) /\ n + h \in Int /\ n + h = m * 1 + (n + h - m) /\ 1 \in Int
      BY <1>1, <1>7
    <2>2. r = n + h - m
      BY ONLY m \in Nat \ {0}, <1>2, <2>1, RestIs
    <2> QED BY <1>1, <1>4, <1>7, <2>2
  <1>8. ToInt(n) \in Ints /\ ToInt(n) \in Int /\ ToInt(n) < m
    <2>1. r - h \in -h..(h - 1) /\ r - h \in Int /\ r - h < m
      BY ONLY <1>1, <1>3, h \in Nat \ {0}
    <2> QED BY <1>4, <1>5, <2>1
  <1> QED BY <1>1, <1>6, <1>7, <1>8
-----------------------------------------------------------------------------
(* Sets of numbers in their order.                                         *)

Ordered(S, s) == s \in [1..Cardinality(S) -> S] /\ \A i, j \in DOMAIN s : i < j => s[i] < s[j]

LEMMA OrderExists ==
  ASSUME NEW h \in Nat, NEW S \in SUBSET (0..h)
  PROVE  \E s : Ordered(S, s)
  <1>1. PICK B : B = {n \in Nat : \E T \in SUBSET (0..h) : Cardinality(T) = n /\ \A s : ~Ordered(T, s)}
    OBVIOUS
  <1>2. IsFiniteSet(0..h)
    BY FS_Interval
  <1>3. ASSUME B # {} PROVE FALSE
    <2>1. PICK n \in B : \A m \in B : n <= m
      BY <1>1, <1>3, Least
    <2>2. PICK T \in SUBSET (0..h) : Cardinality(T) = n /\ \A s : ~Ordered(T, s)
      BY <1>1, <2>1
    <2>3. n \in Nat /\ IsFiniteSet(T)
      BY <1>1, <1>2, <2>1, FS_Subset
    <2>4. CASE n = 0
      <3>1. T = {} /\ 1..0 = {}
        BY <2>2, <2>3, <2>4, FS_EmptySet
      <3>2. PICK s : s = [i \in 1..0 |-> 0]
        OBVIOUS
      <3>3. s \in [1..0 -> T] /\ DOMAIN s = {}
        BY <3>1, <3>2
      <3>4. Ordered(T, s)
        BY <2>2, <2>4, <3>3 DEF Ordered
      <3> QED BY <2>2, <3>4
    <2>5. CASE n # 0
      <3>1. T # {}
        BY <2>2, <2>5, FS_EmptySet
      <3>2. PICK m \in T : \A x \in T : x <= m
        <4>1. PICK D : D = {h - x : x \in T}
          OBVIOUS
        <4>2. D \in SUBSET Nat /\ D # {}
          <5>1. ASSUME NEW x \in T PROVE h - x \in Nat
            <6>1. x \in 0..h
              OBVIOUS
            <6> QED BY <6>1
          <5> QED BY <3>1, <4>1, <5>1
        <4>3. PICK d \in D : \A e \in D : d <= e
          BY <4>2, Least
        <4>4. PICK m \in T : d = h - m
          BY <4>1, <4>3
        <4>5. \A x \in T : d <= h - x
          BY <4>1, <4>3
        <4>6. \A x \in T : x <= m
          BY <4>4, <4>5
        <4> QED BY <4>6
      <3>3. PICK U : U = T \ {m}
        OBVIOUS
      <3>4. PICK k \in Nat : n = k + 1
        <4>1. n - 1 \in Nat /\ n = (n - 1) + 1
          BY <2>3, <2>5
        <4> QED BY <4>1
      <3>5. Cardinality(U) = k /\ U \in SUBSET (0..h)
        <4>1. Cardinality(U) = Cardinality(T) - 1
          BY <2>3, <3>2, <3>3, FS_RemoveElement
        <4> QED BY <2>2, <3>3, <3>4, <4>1
      <3>6. PICK q : Ordered(U, q)
        <4>1. k \notin B
          BY <2>1, <2>3, <3>4
        <4> QED BY <1>1, <3>5, <4>1
      <3>7. q \in [1..k -> U] /\ \A i, j \in 1..k : i < j => q[i] < q[j]
        BY <3>5, <3>6 DEF Ordered
      <3>8. PICK s : s = [i \in 1..n |-> IF i = n THEN m ELSE q[i]]
        OBVIOUS
      <3>9. \A i \in 1..n : i # n => i \in 1..k
        BY <2>3, <3>4
      <3>10. s \in [1..n -> T]
        BY <3>2, <3>3, <3>7, <3>8, <3>9
      <3>11. ASSUME NEW i \in 1..n, NEW j \in 1..n, i < j PROVE s[i] < s[j]
        <4>1. i # n /\ i \in 1..k /\ s[i] = q[i] /\ q[i] \in U
          BY <2>3, <3>7, <3>8, <3>9, <3>11
        <4>2. CASE j = n
          <5>1. q[i] \in Nat /\ m \in Nat /\ q[i] <= m /\ q[i] # m
            <6>1. q[i] \in T /\ q[i] # m /\ m \in T
              BY <3>2, <3>3, <4>1
            <6>2. q[i] \in 0..h /\ m \in 0..h
              BY <6>1
            <6> QED BY <3>2, <6>1, <6>2
          <5> QED BY <3>8, <4>1, <4>2, <5>1
        <4>3. CASE j # n
          BY <3>7, <3>8, <3>9, <3>11, <4>1, <4>3
        <4> QED BY <4>2, <4>3
      <3>12. Ordered(T, s)
        BY <2>2, <3>10, <3>11 DEF Ordered
      <3> QED BY <2>2, <3>12
    <2> QED BY <2>4, <2>5
  <1>4. Cardinality(S) \in Nat
    BY <1>2, FS_Subset, FS_CardinalityType
  <1> QED BY <1>1, <1>3, <1>4

\* InOrder lists the set, every element once.
LEMMA InOrderIs ==
  ASSUME NEW h \in Nat, NEW S \in SUBSET (0..h), NEW n, n = Cardinality(S)
  PROVE  /\ n \in Nat /\ InOrder(S) \in [1..n -> S]
         /\ \A i, j \in 1..n : i < j => InOrder(S)[i] < InOrder(S)[j]
         /\ \A x \in S : \E i \in 1..n : InOrder(S)[i] = x
  <1>1. IsFiniteSet(S) /\ n \in Nat
    <2>1. IsFiniteSet(0..h)
      BY FS_Interval
    <2> QED BY <2>1, FS_Subset, FS_CardinalityType
  <1>2. PICK s : s = InOrder(S)
    OBVIOUS
  <1>3. s \in [1..n -> S] /\ \A i, j \in 1..n : i < j => s[i] < s[j]
    <2>1. PICK q : Ordered(S, q)
      BY OrderExists
    <2>2. q \in [1..Cardinality(S) -> S] /\ \A i, j \in DOMAIN q : i < j => q[i] < q[j]
      BY <2>1 DEF Ordered
    <2>3. s \in [1..Cardinality(S) -> S] /\ \A i, j \in DOMAIN s : i < j => s[i] < s[j]
      BY <1>2, <2>2 DEF InOrder
    <2> QED BY <2>3
  <1>4. ASSUME NEW i \in 1..n, NEW j \in 1..n, s[i] = s[j] PROVE i = j
    <2>1. s[i] \in Nat
      <3>1. s[i] \in 0..h
        <4>1. s[i] \in S
          BY <1>3
        <4> QED BY <4>1
      <3> QED BY <3>1
    <2>2. ~(i < j) /\ ~(j < i)
      BY <1>3, <1>4, <2>1
    <2> QED BY <1>1, <2>2
  <1>5. s \in Injection(1..n, S)
    BY <1>3, <1>4, Fun_IsInj
  <1>6. s \in Surjection(1..n, S)
    <2>1. Cardinality(1..n) = Cardinality(S)
      BY <1>1, CountTo
    <2> QED BY <1>1, <1>5, <2>1, FS_Injection
  <1>7. \A x \in S : \E i \in 1..n : s[i] = x
    BY ONLY <1>6 DEF Surjection
  <1> QED BY <1>1, <1>2, <1>3, <1>7
-----------------------------------------------------------------------------
(* The part of a sequence that is asked for.                               *)

\* w holds what s has after its first a elements.
After(w, s, a) == \A i \in 1..Len(w) : w[i] = s[a + i]

\* Window has the elements after the first k, no more than n.
LEMMA WindowIs ==
  ASSUME NEW D, NEW s \in Seq(D), NEW k \in Int, NEW n \in Int,
         NEW a \in Nat, a = IF k < 0 THEN 0 ELSE k,
         NEW b \in Int, b = IF k + n < Len(s) THEN k + n ELSE Len(s),
         NEW w, w = Window(s, k, n)
  PROVE  /\ w \in Seq(D)
         /\ Len(w) = IF b < a THEN 0 ELSE b - a
         /\ After(w, s, a)
  <1>1. Len(s) \in Nat /\ a \in Nat /\ b \in Int /\ b <= Len(s)
    OBVIOUS
  <1>3. w = SubSeq(s, a + 1, b)
    BY DEF Window
  <1>4. PICK u \in Int : u = a + 1
    BY <1>1
  <1>5. ASSUME NEW i \in u..b PROVE s[i] \in D
    <2>1. i \in 1..Len(s)
      BY <1>1, <1>4
    <2> QED BY <2>1
  <1>6. /\ SubSeq(s, u, b) \in Seq(D)
        /\ Len(SubSeq(s, u, b)) = IF u <= b THEN b - u + 1 ELSE 0
        /\ \A i \in 1..(b - u + 1) : SubSeq(s, u, b)[i] = s[u + i - 1]
    BY ONLY <1>1, <1>4, <1>5, SubSeqProperties
  <1>7. w = SubSeq(s, u, b)
    BY <1>3, <1>4
  <1>8. ASSUME u <= b PROVE Len(w) = b - a /\ a <= b
    <2>1. Len(w) = b - u + 1
      BY <1>6, <1>7, <1>8
    <2> QED BY <1>1, <1>4, <1>8, <2>1
  <1>9. ASSUME ~(u <= b) PROVE Len(w) = 0 /\ b <= a
    BY <1>1, <1>4, <1>6, <1>7, <1>9
  <1>10. ASSUME NEW i \in 1..Len(w) PROVE w[i] = s[a + i]
    <2>1. i \in Int /\ i \in 1..(b - u + 1)
      BY <1>1, <1>4, <1>8, <1>9
    <2>2. u + i - 1 = a + i
      BY <1>1, <1>4, <2>1
    <2>3. w[i] = s[u + i - 1]
      BY <1>6, <1>7, <2>1
    <2> QED BY <2>2, <2>3
  <1>11. CASE b < a
    <2>1. ~(u <= b)
      BY <1>1, <1>4, <1>11
    <2> QED BY <1>6, <1>7, <1>9, <1>10, <1>11, <2>1 DEF After
  <1>12. CASE ~(b < a)
    <2>1. Len(w) = b - a
      BY <1>1, <1>4, <1>8, <1>9, <1>12
    <2> QED BY <1>6, <1>7, <1>10, <1>12, <2>1 DEF After
  <1> QED BY <1>11, <1>12
-----------------------------------------------------------------------------
(* The words of the stack.                                                 *)

LEMMA InputIs ==
  ASSUME in \in Inputs
  PROVE  /\ in.mem \in [StackWords -> 0..(Top - 1)] /\ in.start \in Lo..(Hi - 1)
         /\ in.bounded \in BOOLEAN
         /\ in.depth \in Int \cup {Unset} /\ in.skip \in Int \cup {Unset} /\ in.ring \in Int \cup {Unset}
  BY InputAssumption

LEMMA WordIs ==
  ASSUME NEW p \in StackWords
  PROVE  p \in Nat /\ p \in 0..Hi /\ p % Word = 0 /\ Lo <= p /\ p + Word <= Hi
  BY SizeAssumption DEF StackWords

\* Two words in the stack: the second is a word of it, too.
LEMMA FrameIs ==
  ASSUME NEW p \in Nat, p % Word = 0, Lo <= p, p + 2 * Word <= Hi
  PROVE  p \in StackWords /\ p + Word \in StackWords
  <1>1. Word \in Nat \ {0} /\ Lo \in Nat /\ Hi \in Nat /\ p \in Int
    BY SizeAssumption
  <1>2. (p + Word) % Word = 0
    BY ONLY <1>1, p % Word = 0, NextMultiple
  <1>3. p \in Lo..(Hi - Word) /\ p + Word \in Lo..(Hi - Word)
    BY <1>1
  <1> QED BY <1>2, <1>3 DEF StackWords

\* The sum of fp_in_stack does not wrap where it does not reach the end of the
\* addresses.
LEMMA InStackIs ==
  ASSUME NEW p \in Nat, p % Word = 0, p + 2 * Word < Top, FpInStack(p)
  PROVE  /\ p \in StackWords /\ p + Word \in StackWords /\ p + 2 * Word <= Hi
         /\ Wrap(p + Word) = p + Word
  <1>1. Word \in Nat \ {0} /\ Lo \in Nat /\ Hi \in Nat /\ Top \in Nat
    BY SizeAssumption
  <1>2. p + 2 * Word \in Nat /\ ~(p + 2 * Word >= Top)
    BY <1>1
  <1>3. Wrap(p + 2 * Word) = p + 2 * Word
    BY <1>2 DEF Wrap
  <1>4. p >= Lo /\ p + 2 * Word <= Hi
    BY <1>3 DEF FpInStack
  <1>5. Lo <= p
    BY <1>1, <1>4
  <1>6. ~(p + Word >= Top)
    BY <1>1, <1>2
  <1>7. Wrap(p + Word) = p + Word
    BY <1>6 DEF Wrap
  <1> QED BY <1>4, <1>5, <1>7, FrameIs

\* A word of the stack is not near that end.
LEMMA ReadIs ==
  ASSUME NEW p \in StackWords, FpInStack(p)
  PROVE  /\ p + Word \in StackWords /\ p + 2 * Word <= Hi
         /\ p \in Nat /\ p % Word = 0
  <1>1. Word \in Nat \ {0} /\ Hi \in Nat /\ Top \in Nat /\ Hi + 2 * Word < Top
    BY SizeAssumption
  <1>2. p \in Nat /\ p % Word = 0 /\ p + Word <= Hi
    BY WordIs
  <1>3. p + 2 * Word < Top
    BY <1>1, <1>2
  <1> QED BY <1>2, <1>3, InStackIs

LEMMA FramesAre ==
  ASSUME NEW p \in AllFrames, in \in Inputs
  PROVE  /\ p \in StackWords /\ p + Word \in StackWords /\ p \in Nat
         /\ in.mem[p] \in Nat /\ in.mem[p + Word] \in Nat \ {0}
  <1>1. p \in StackWords /\ p + 2 * Word <= Hi /\ in.mem[p + Word] # 0
    BY DEF AllFrames
  <1>2. p \in Nat /\ p + Word \in StackWords
    BY <1>1, WordIs, FrameIs
  <1>3. in.mem[p] \in 0..(Top - 1) /\ in.mem[p + Word] \in 0..(Top - 1)
    BY <1>1, <1>2, InputIs
  <1> QED BY <1>1, <1>2, <1>3

LEMMA CallersAre ==
  ASSUME in \in Inputs
  PROVE  Callers \in Seq(Nat) /\ Len(Callers) = Cardinality(Frames) /\ Cardinality(Frames) \in Nat
  <1>1. PICK n : n = Cardinality(Frames)
    OBVIOUS
  <1>2. Hi \in Nat /\ Frames \in SUBSET (0..Hi)
    <2>1. ASSUME NEW p \in Frames PROVE p \in 0..Hi
      BY WordIs DEF Frames, AllFrames
    <2> QED BY <2>1, SizeAssumption
  <1>3. n \in Nat /\ InOrder(Frames) \in [1..n -> Frames]
    BY <1>1, <1>2, InOrderIs
  <1>4. ASSUME NEW i \in 1..n PROVE in.mem[InOrder(Frames)[i] + Word] \in Nat
    <2>1. InOrder(Frames)[i] \in AllFrames
      BY <1>3 DEF Frames
    <2> QED BY <2>1, FramesAre
  <1>5. Callers = [i \in 1..n |-> in.mem[InOrder(Frames)[i] + Word]]
    BY <1>1 DEF Callers
  <1>6. Callers \in [1..n -> Nat]
    BY <1>4, <1>5
  <1> QED BY <1>1, <1>3, <1>6
-----------------------------------------------------------------------------
(* The invariant.                                                          *)

TypeInv ==
  /\ in \in Inputs /\ at \in {"config", "log", "walk", "unwind", "done", "fault"}
  /\ depth \in Int /\ skip \in Int /\ fp \in Nat /\ idx \in Nat /\ out \in Seq(Nat)

\* The settings, once they are read.
ConfigInv ==
  at # "config" => /\ depth \in Ints /\ skip \in Ints
                   /\ ring \in Nat /\ RingMin <= ring /\ \E k \in 0..IntBits : ring = 2^k

\* What is recorded never exceeds what was asked for.
StageInv ==
  /\ Len(out) <= MaxFramesInline
  /\ at \in {"config", "log"} => out = <<>> /\ idx = 0 /\ fp = in.start /\ read = {}
  /\ at \in {"walk", "unwind"} => depth \in 1..MaxFramesInline /\ Len(out) < depth
  /\ at = "walk" => in.bounded
  /\ at = "unwind" => ~in.bounded /\ out = <<>>

\* The frame pointer is the first one or a word of the stack.
ReadInv ==
  /\ fp \in Lo..(Hi - 1) \/ \E p \in StackWords : fp = in.mem[p]
  /\ ReadsInStack

LEMMA InitInv == Init => TypeInv /\ ConfigInv /\ StageInv /\ ReadInv
  <1> SUFFICES ASSUME Init PROVE TypeInv /\ ConfigInv /\ StageInv /\ ReadInv
    OBVIOUS
  <1>1. in \in Inputs /\ at = "config" /\ depth = 0 /\ skip = 0 /\ fp = in.start /\ idx = 0
        /\ out = <<>> /\ read = {}
    BY DEF Init
  <1>2. fp \in Lo..(Hi - 1) /\ fp \in Nat
    BY <1>1, InputIs, SizeAssumption
  <1>3. MaxFramesInline \in Nat
    BY SizeAssumption
  <1>4. TypeInv
    BY <1>1, <1>2 DEF TypeInv
  <1>5. StageInv
    BY <1>1, <1>3 DEF StageInv
  <1> QED BY <1>1, <1>2, <1>4, <1>5 DEF ConfigInv, ReadInv, ReadsInStack

\* The settings are ints, and the ring is one that is accepted.
LEMMA ConfigStep ==
  ASSUME TypeInv, StageInv, ReadInv, InitConfigFromEnv
  PROVE  TypeInv' /\ ConfigInv' /\ StageInv' /\ ReadInv'
  <1>1. PICK h \in Nat \ {0} : h = 2^(IntBits - 1)
    BY HalfIs
  <1>2. in \in Inputs /\ {DefaultDepth, DefaultSkip} \subseteq Ints /\ Unset \notin Int
    BY SizeAssumption DEF TypeInv
  <1>3. ASSUME NEW v \in Int \cup {Unset}, NEW d \in Ints PROVE EnvInt(v, d) \in Ints
    <2>1. CASE v = Unset
      BY <2>1 DEF EnvInt
    <2>2. CASE v \in Int
      <3>1. ToInt(v) \in Ints
        BY <1>1, <2>2, ToIntIs
      <3> QED BY <1>2, <2>2, <3>1 DEF EnvInt
    <2> QED BY <2>1, <2>2
  <1>4. depth' \in Ints /\ skip' \in Ints
    BY <1>2, <1>3, InputIs DEF InitConfigFromEnv
  <1>5. ring' \in Nat /\ RingMin <= ring' /\ \E k \in 0..IntBits : ring' = 2^k
    <2>1. PICK v : v = EnvInt(in.ring, RingDefault)
      OBVIOUS
    <2>2. ring' = IF RingOk(v) THEN v ELSE RingDefault
      BY <2>1 DEF InitConfigFromEnv
    <2>3. CASE RingOk(v) /\ in.ring # Unset
      <3>1. in.ring \in Int /\ v = ToInt(in.ring)
        BY <1>2, <2>1, <2>3, InputIs DEF EnvInt
      <3>2. v \in Int /\ v < 2^IntBits
        BY <1>1, <3>1, ToIntIs
      <3>3. IsPow2(v) /\ v >= RingMin /\ v > 0
        BY <2>3 DEF RingOk, IsPow2
      <3>4. \E k \in 0..IntBits : v = 2^k
        BY <3>2, <3>3, Pow2Is
      <3>5. v \in Nat /\ RingMin <= v
        BY <3>2, <3>3, RingAssumption
      <3> QED BY <2>2, <2>3, <3>4, <3>5
    <2>4. CASE ~(RingOk(v) /\ in.ring # Unset)
      <3>1. ring' = RingDefault
        BY <2>1, <2>2, <2>4 DEF EnvInt
      <3> QED BY <3>1, RingAssumption
    <2> QED BY <2>3, <2>4
  <1>6. at' = "log" /\ UNCHANGED <<in, fp, idx, out, read>> /\ at = "config"
    BY DEF InitConfigFromEnv
  <1>7. TypeInv'
    <2>1. depth' \in Int /\ skip' \in Int
      <3>1. \A x \in Ints : x \in Int
        BY DEF Ints
      <3> QED BY <1>4, <3>1
    <2> QED BY <1>6, <2>1 DEF TypeInv
  <1>8. ConfigInv'
    BY <1>4, <1>5 DEF ConfigInv
  <1>9. StageInv'
    BY <1>6 DEF StageInv
  <1>10. ReadInv'
    BY <1>6 DEF ReadInv, ReadsInStack, StageInv
  <1> QED BY <1>7, <1>8, <1>9, <1>10

LEMMA LogStep ==
  ASSUME TypeInv, ConfigInv, StageInv, ReadInv, LogEvent
  PROVE  TypeInv' /\ ConfigInv' /\ StageInv' /\ ReadInv'
  <1>1. at = "log" /\ depth' = (IF depth < MaxFramesInline THEN depth ELSE MaxFramesInline)
        /\ at' = (IF depth' <= 0 THEN "done" ELSE IF in.bounded THEN "walk" ELSE "unwind")
        /\ UNCHANGED <<in, skip, ring, fp, idx, out, read>>
    BY DEF LogEvent
  <1>2. MaxFramesInline \in Nat \ {0} /\ depth \in Int /\ in.bounded \in BOOLEAN /\ out = <<>>
    BY <1>1, SizeAssumption, InputIs DEF TypeInv, StageInv
  <1>3. depth' \in Ints /\ depth' <= MaxFramesInline /\ depth' \in Int
    <2>1. PICK h \in Nat \ {0} : h = 2^(IntBits - 1) /\ MaxFramesInline < h
      BY HalfIs
    <2>2. Ints = -h..(h - 1)
      BY <2>1 DEF Ints
    <2>3. depth \in -h..(h - 1)
      BY <1>1, <2>2 DEF ConfigInv
    <2>4. CASE depth < MaxFramesInline
      BY <1>1, <1>2, <2>2, <2>3, <2>4
    <2>5. CASE ~(depth < MaxFramesInline)
      BY <1>1, <1>2, <2>1, <2>2, <2>5
    <2> QED BY <2>4, <2>5
  <1>4. TypeInv'
    <2>1. at' \in {"done", "walk", "unwind"}
      BY <1>1
    <2> QED BY <1>1, <1>3, <2>1 DEF TypeInv
  <1>5. ConfigInv'
    BY <1>1, <1>3 DEF ConfigInv
  <1>6. StageInv'
    <2>1. at' \in {"walk", "unwind"} => ~(depth' <= 0)
      BY <1>1
    <2>2. at' \in {"walk", "unwind"} => depth' \in 1..MaxFramesInline /\ Len(out') < depth'
      <3>1. Len(out') = 0
        BY <1>1, <1>2
      <3> QED BY <1>2, <1>3, <2>1, <3>1
    <2>3. (at' = "walk" => in'.bounded) /\ (at' = "unwind" => ~in'.bounded /\ out' = <<>>)
          /\ at' \notin {"config", "log"}
      BY <1>1, <1>2
    <2> QED BY <1>1, <2>2, <2>3 DEF StageInv
  <1>7. ReadInv'
    <2>1. read' = {} /\ at' # "fault"
      BY <1>1 DEF StageInv
    <2> QED BY <1>1, <2>1 DEF ReadInv, ReadsInStack
  <1> QED BY <1>4, <1>5, <1>6, <1>7

LEMMA StopStep ==
  ASSUME TypeInv, ConfigInv, StageInv, ReadInv, WalkStop
  PROVE  TypeInv' /\ ConfigInv' /\ StageInv' /\ ReadInv'
  <1>1. at = "walk" /\ at' = "done" /\ UNCHANGED <<in, depth, skip, ring, fp, idx, out, read>>
    BY DEF WalkStop
  <1>2. TypeInv'
    BY <1>1 DEF TypeInv
  <1>3. ConfigInv'
    BY <1>1 DEF ConfigInv
  <1>4. StageInv'
    BY <1>1 DEF StageInv
  <1>5. ReadInv'
    BY <1>1 DEF ReadInv, ReadsInStack
  <1> QED BY <1>2, <1>3, <1>4, <1>5

\* What a step of the walk reads, and what it leaves.
LEMMA WalkIs ==
  ASSUME TypeInv, WalkFrame
  PROVE  /\ at = "walk" /\ idx < ToInt(skip + depth)
         /\ fp \in StackWords /\ fp + Word \in StackWords /\ fp + 2 * Word <= Hi /\ fp \in Nat
         /\ in.mem[fp] \in Nat /\ in.mem[fp + Word] \in Nat
         /\ out' = (IF in.mem[fp + Word] # 0 /\ idx >= skip THEN Append(out, in.mem[fp + Word]) ELSE out)
         /\ \/ /\ in.mem[fp + Word] = 0 \/ Len(out') >= depth \/ in.mem[fp] <= fp
               /\ at' = "done" /\ fp' = fp /\ idx' = idx
            \/ /\ in.mem[fp + Word] # 0 /\ ~(Len(out') >= depth) /\ ~(in.mem[fp] <= fp)
               /\ fp' = in.mem[fp] /\ idx' = idx + 1 /\ at' = at
         /\ read' = read \cup {fp, fp + Word}
         /\ in' = in /\ depth' = depth /\ skip' = skip /\ ring' = ring
  <1>1. PICK next, ra : next = in.mem[fp] /\ ra = in.mem[fp + Word]
    OBVIOUS
  <1>2. /\ at = "walk" /\ idx < ToInt(skip + depth) /\ FpInStack(fp) /\ Readable
        /\ read' = read \cup {fp, fp + Word}
        /\ in' = in /\ depth' = depth /\ skip' = skip /\ ring' = ring
    BY DEF WalkFrame
  <1>3. fp \in StackWords
    BY <1>2 DEF Readable
  <1>4. fp + Word \in StackWords /\ fp + 2 * Word <= Hi /\ fp \in Nat
    BY <1>2, <1>3, ReadIs
  <1>5. next \in Nat /\ ra \in Nat
    <2>1. next \in 0..(Top - 1) /\ ra \in 0..(Top - 1)
      BY <1>1, <1>3, <1>4, InputIs DEF TypeInv
    <2> QED BY <2>1
  <1>6. /\ out' = (IF ra # 0 /\ Wants(idx) THEN Append(out, ra) ELSE out)
        /\ IF ra = 0 \/ Len(out') >= depth \/ next <= fp
           THEN at' = "done" /\ UNCHANGED <<fp, idx>>
           ELSE fp' = next /\ idx' = idx + 1 /\ UNCHANGED at
    BY <1>1 DEF WalkFrame
  <1>7. out' = (IF ra # 0 /\ idx >= skip THEN Append(out, ra) ELSE out)
    BY <1>6 DEF Wants
  <1>8. \/ /\ ra = 0 \/ Len(out') >= depth \/ next <= fp
           /\ at' = "done" /\ fp' = fp /\ idx' = idx
        \/ /\ ra # 0 /\ ~(Len(out') >= depth) /\ ~(next <= fp)
           /\ fp' = next /\ idx' = idx + 1 /\ at' = at
    BY <1>6
  <1> QED BY <1>1, <1>2, <1>3, <1>4, <1>5, <1>7, <1>8

LEMMA WalkStep ==
  ASSUME TypeInv, ConfigInv, StageInv, ReadInv, WalkFrame
  PROVE  TypeInv' /\ ConfigInv' /\ StageInv' /\ ReadInv'
  <1>1. PICK next, ra : next = in.mem[fp] /\ ra = in.mem[fp + Word]
    OBVIOUS
  <1>2. /\ at = "walk" /\ fp \in StackWords /\ fp + Word \in StackWords /\ fp \in Nat
        /\ next \in Nat /\ ra \in Nat
        /\ out' = out \/ out' = Append(out, ra)
        /\ \/ at' = "done" /\ fp' = fp /\ idx' = idx
           \/ /\ ~(Len(out') >= depth) /\ fp' = next /\ idx' = idx + 1 /\ at' = at
        /\ read' = read \cup {fp, fp + Word}
        /\ in' = in /\ depth' = depth /\ skip' = skip /\ ring' = ring
    BY <1>1, WalkIs
  <1>3. /\ out \in Seq(Nat) /\ depth \in 1..MaxFramesInline /\ Len(out) < depth
        /\ in.bounded /\ idx \in Nat /\ MaxFramesInline \in Nat
    BY <1>2, SizeAssumption DEF TypeInv, StageInv
  <1>4. out' \in Seq(Nat) /\ Len(out') <= depth /\ Len(out') \in Nat
    <2>1. Len(out) \in Nat /\ Append(out, ra) \in Seq(Nat) /\ Len(Append(out, ra)) = Len(out) + 1
      BY <1>2, <1>3
    <2>2. Len(out) + 1 <= depth /\ Len(out) <= depth
      BY <1>3, <2>1
    <2>3. CASE out' = out
      BY <1>3, <2>1, <2>2, <2>3
    <2>4. CASE out' = Append(out, ra)
      BY <2>1, <2>2, <2>4
    <2> QED BY <1>2, <2>3, <2>4
  <1>5. fp' \in Nat /\ idx' \in Nat /\ at' \in {"walk", "done"}
    BY <1>2, <1>3
  <1>6. TypeInv'
    BY <1>2, <1>4, <1>5 DEF TypeInv
  <1>7. ConfigInv'
    BY <1>2 DEF ConfigInv
  <1>8. StageInv'
    <2>1. Len(out') <= MaxFramesInline
      BY <1>3, <1>4
    <2>2. at' = "walk" => Len(out') < depth
      BY <1>2, <1>3, <1>4
    <2> QED BY <1>2, <1>3, <1>5, <2>1, <2>2 DEF StageInv
  <1>9. ReadInv'
    <2>1. fp' \in Lo..(Hi - 1) \/ \E p \in StackWords : fp' = in'.mem[p]
      BY <1>1, <1>2 DEF ReadInv
    <2>2. ReadsInStack'
      BY <1>2, <1>5 DEF ReadInv, ReadsInStack
    <2> QED BY <2>1, <2>2 DEF ReadInv
  <1> QED BY <1>6, <1>7, <1>8, <1>9

\* Where no saved frame pointer lies close to the end of the addresses, what
\* passes for a frame in the stack is one.
LEMMA FaultStep ==
  ASSUME TypeInv, ConfigInv, StageInv, ReadInv, WalkFault
  PROVE  TypeInv' /\ ConfigInv' /\ StageInv' /\ ReadInv'
  <1>1. /\ at = "walk" /\ fp % Word = 0 /\ FpInStack(fp) /\ ~Readable /\ at' = "fault"
        /\ UNCHANGED <<in, depth, skip, ring, fp, idx, out>>
    BY DEF WalkFault
  <1>2. TypeInv'
    BY <1>1 DEF TypeInv
  <1>3. ConfigInv'
    BY <1>1 DEF ConfigInv
  <1>4. StageInv'
    BY <1>1 DEF StageInv
  <1>5. ASSUME \A p \in StackWords : in.mem[p] + 2 * Word < Top PROVE FALSE
    <2>1. fp + 2 * Word < Top
      <3>1. CASE fp \in Lo..(Hi - 1)
        BY <3>1, SizeAssumption
      <3>2. CASE \E p \in StackWords : fp = in.mem[p]
        BY <1>5, <3>2
      <3> QED BY <3>1, <3>2 DEF ReadInv
    <2>2. fp \in StackWords /\ Wrap(fp + Word) \in StackWords
      <3>1. fp \in StackWords /\ fp + Word \in StackWords /\ Wrap(fp + Word) = fp + Word
        BY <1>1, <2>1, InStackIs DEF TypeInv
      <3> QED BY <3>1
    <2> QED BY <1>1, <2>2 DEF Readable
  <1>6. ReadInv'
    BY <1>1, <1>5 DEF ReadInv, ReadsInStack, StageInv
  <1> QED BY <1>2, <1>3, <1>4, <1>6

LEMMA UnwindStep ==
  ASSUME TypeInv, ConfigInv, StageInv, ReadInv, Unwind
  PROVE  TypeInv' /\ ConfigInv' /\ StageInv' /\ ReadInv'
  <1>1. /\ at = "unwind" /\ at' = "done" /\ out' = Window(<<Self>> \o Callers, skip, depth)
        /\ UNCHANGED <<in, depth, skip, ring, fp, idx, read>>
    BY DEF Unwind
  <1>2. skip \in Int /\ depth \in 1..MaxFramesInline /\ depth \in Int /\ MaxFramesInline \in Nat
    BY <1>1, SizeAssumption DEF TypeInv, StageInv
  <1>3. PICK s \in Seq(Nat) : s = <<Self>> \o Callers
    <2>1. Callers \in Seq(Nat)
      BY CallersAre DEF TypeInv
    <2>2. <<Self>> \in Seq(Nat)
      BY SizeAssumption DEF Self
    <2>3. <<Self>> \o Callers \in Seq(Nat)
      BY <2>1, <2>2
    <2> QED BY <2>3
  <1>4. PICK a \in Nat : a = IF skip < 0 THEN 0 ELSE skip
    BY <1>2
  <1>5. PICK b \in Int : b = IF skip + depth < Len(s) THEN skip + depth ELSE Len(s)
    <2>1. Len(s) \in Int
      OBVIOUS
    <2> QED BY <1>2, <2>1
  <1>6. out' \in Seq(Nat) /\ Len(out') = IF b < a THEN 0 ELSE b - a
    <2>1. PICK w : w = Window(s, skip, depth)
      OBVIOUS
    <2>2. PICK k \in Int, d \in Int : k = skip /\ d = depth
      BY <1>2
    <2>3. (a = IF k < 0 THEN 0 ELSE k) /\ (b = IF k + d < Len(s) THEN k + d ELSE Len(s))
          /\ w = Window(s, k, d) /\ s \in Seq(Nat) /\ k \in Int /\ d \in Int /\ a \in Nat /\ b \in Int
      BY <1>4, <1>5, <2>1, <2>2
    <2>4. w \in Seq(Nat) /\ Len(w) = IF b < a THEN 0 ELSE b - a
      BY ONLY <2>3, WindowIs
    <2> QED BY <1>1, <1>3, <2>1, <2>4
  <1>7. Len(out') <= MaxFramesInline
    <2>1. Len(s) \in Nat
      OBVIOUS
    <2>2. a \in Int /\ b \in Int /\ b <= skip + depth /\ skip <= a
      BY <1>2, <1>4, <1>5, <2>1
    <2>3. CASE b < a
      BY <1>2, <1>6, <2>3
    <2>4. CASE ~(b < a)
      <3>1. Len(out') = b - a
        BY <1>6, <2>4
      <3> QED BY <1>2, <2>2, <3>1
    <2> QED BY <2>3, <2>4
  <1>8. TypeInv'
    BY <1>1, <1>6 DEF TypeInv
  <1>9. ConfigInv'
    BY <1>1 DEF ConfigInv
  <1>10. StageInv'
    BY <1>1, <1>7 DEF StageInv
  <1>11. ReadInv'
    BY <1>1 DEF ReadInv, ReadsInStack
  <1> QED BY <1>8, <1>9, <1>10, <1>11

\* A number of frames to skip that is not negative, and whose sum with the others an
\* int can hold, leaves an array to read from.
LEMMA UnwindFaultStep ==
  ASSUME TypeInv, ConfigInv, StageInv, ReadInv, UnwindFault
  PROVE  TypeInv' /\ ConfigInv' /\ StageInv' /\ ReadInv'
  <1>1. /\ at = "unwind" /\ ~InArray /\ at' = "fault"
        /\ UNCHANGED <<in, depth, skip, ring, fp, idx, out, read>>
    BY DEF UnwindFault
  <1>2. TypeInv'
    BY <1>1 DEF TypeInv
  <1>3. ConfigInv'
    BY <1>1 DEF ConfigInv
  <1>4. StageInv'
    BY <1>1 DEF StageInv
  <1>5. ~(0 <= skip /\ skip + depth + 2 < 2^(IntBits - 1))
    <2> SUFFICES ASSUME 0 <= skip, skip + depth + 2 < 2^(IntBits - 1) PROVE FALSE
      OBVIOUS
    <2>1. PICK h \in Nat \ {0} : h = 2^(IntBits - 1) /\ MaxFramesInline < h
      BY HalfIs
    <2>2. skip \in Int /\ depth \in Int /\ depth >= 1 /\ skip >= 0
      BY <1>1, SizeAssumption DEF TypeInv, StageInv
    <2>3. PICK n \in Int : n = skip + depth + 2
      BY <2>2
    <2>4. n > 0 /\ n < h /\ -h <= n
      BY <2>1, <2>2, <2>3
    <2>5. ToInt(n) = n
      <3>1. n \in -h..(h - 1)
        BY <2>1, <2>4
      <3>2. n \in Ints
        BY <2>1, <3>1 DEF Ints
      <3> QED BY <2>1, <3>2, ToIntIs
    <2> QED BY <1>1, <2>2, <2>3, <2>4, <2>5 DEF InArray
  <1>6. ReadInv'
    BY <1>1, <1>5 DEF ReadInv, ReadsInStack, StageInv
  <1> QED BY <1>2, <1>3, <1>4, <1>6

IInv == TypeInv /\ ConfigInv /\ StageInv /\ ReadInv

\* The invariant holds in every state of every call.
THEOREM CaptureInv == Spec => []IInv
  <1>1. Init => IInv
    BY InitInv DEF IInv
  <1>2. IInv /\ [Next]_vars => IInv'
    <2> SUFFICES ASSUME TypeInv, ConfigInv, StageInv, ReadInv, [Next]_vars
                 PROVE  TypeInv' /\ ConfigInv' /\ StageInv' /\ ReadInv'
      BY DEF IInv
    <2>1. CASE InitConfigFromEnv
      BY <2>1, ConfigStep
    <2>2. CASE LogEvent
      BY <2>2, LogStep
    <2>3. CASE WalkStop
      BY <2>3, StopStep
    <2>4. CASE WalkFrame
      BY <2>4, WalkStep
    <2>5. CASE WalkFault
      BY <2>5, FaultStep
    <2>6. CASE Unwind
      BY <2>6, UnwindStep
    <2>7. CASE UnwindFault
      BY <2>7, UnwindFaultStep
    <2>8. CASE UNCHANGED vars
      <3>1. TypeInv'
        BY <2>8 DEF TypeInv, vars
      <3>2. ConfigInv'
        BY <2>8 DEF ConfigInv, vars
      <3>3. StageInv'
        BY <2>8 DEF StageInv, vars
      <3>4. ReadInv'
        BY <2>8 DEF ReadInv, ReadsInStack, vars
      <3> QED BY <3>1, <3>2, <3>3, <3>4
    <2> QED BY <2>1, <2>2, <2>3, <2>4, <2>5, <2>6, <2>7, <2>8 DEF Next, Finished
  <1> QED BY <1>1, <1>2, PTL DEF Spec

\* Whatever the words of the stack hold, fp_in_stack keeps the walk in it, but for
\* the addresses its sum wraps at; without the bounds of the stack, a number of frames
\* to skip that is not negative, and in the range of an int with the frames wanted,
\* keeps the fallback in its array.
THEOREM NoReadOutside == Spec => []ReadsInStack
  <1>1. IInv => ReadsInStack
    BY DEF IInv, ReadInv
  <1> QED BY <1>1, CaptureInv, PTL

\* config.cpp and the cut of log_event leave no event the ring cannot hold.
THEOREM RingHolds == Spec => []RingHoldsFrames
  <1>1. IInv => RingHoldsFrames
    <2> SUFFICES ASSUME IInv, at = "done"
                 PROVE  /\ \E k \in 0..IntBits : ring = 2^k
                        /\ 2 * (1 + HdrSize + Word * Len(out)) - 1 <= ring
      BY DEF RingHoldsFrames
    <2>1. ring \in Nat /\ RingMin <= ring /\ \E k \in 0..IntBits : ring = 2^k
      BY DEF IInv, ConfigInv
    <2>2. PICK n \in Nat : n = Len(out) /\ n <= MaxFramesInline
      BY DEF IInv, TypeInv, StageInv
    <2>3. Word \in Nat /\ HdrSize \in Nat /\ MaxFramesInline \in Nat /\ RingMin \in Nat
      BY SizeAssumption, RingAssumption
    <2>4. Word * n <= Word * MaxFramesInline /\ Word * n \in Nat /\ Word * MaxFramesInline \in Nat
      BY ONLY <2>2, <2>3
    <2>5. 2 * (1 + HdrSize + Word * MaxFramesInline) - 1 <= RingMin
      BY RingAssumption
    <2>6. 2 * (1 + HdrSize + Word * n) - 1 <= ring
      BY ONLY <2>1, <2>3, <2>4, <2>5
    <2> QED BY <2>1, <2>2, <2>6
  <1> QED BY <1>1, CaptureInv, PTL
-----------------------------------------------------------------------------
(* The frames of a call: the first one, and after each the one it points   *)
(* to.                                                                     *)

\* The frames are the least set that is followed: each has a reason to be there.
LEMMA FramesFollowed ==
  ASSUME in \in Inputs
  PROVE  /\ Frames \subseteq AllFrames /\ Followed(Frames)
         /\ \A p \in Frames : p = in.start \/ \E q \in Frames : in.mem[q] = p /\ q < p
  <1>1. Frames \subseteq AllFrames
    BY DEF Frames
  <1>2. Followed(Frames)
    <2>1. in.start \in AllFrames => in.start \in Frames
      BY DEF Frames, Followed
    <2>2. ASSUME NEW p \in Frames, in.mem[p] \in AllFrames, p < in.mem[p] PROVE in.mem[p] \in Frames
      <3>1. ASSUME NEW S \in SUBSET AllFrames, Followed(S) PROVE in.mem[p] \in S
        <4>1. p \in S
          BY <3>1 DEF Frames
        <4> QED BY <2>2, <3>1, <4>1 DEF Followed
      <3> QED BY <2>2, <3>1 DEF Frames
    <2> QED BY <2>1, <2>2 DEF Followed
  <1>3. ASSUME NEW p \in Frames, p # in.start, \A q \in Frames : ~(in.mem[q] = p /\ q < p) PROVE FALSE
    <2>1. PICK S : S = Frames \ {p}
      OBVIOUS
    <2>2. S \in SUBSET AllFrames
      BY <1>1, <2>1
    <2>3. in.start \in AllFrames => in.start \in S
      BY <1>2, <1>3, <2>1 DEF Followed
    <2>4. ASSUME NEW q \in S, in.mem[q] \in AllFrames, q < in.mem[q] PROVE in.mem[q] \in S
      <3>1. q \in Frames /\ in.mem[q] \in Frames
        BY <1>2, <2>1, <2>4 DEF Followed
      <3>2. in.mem[q] # p
        BY <1>3, <2>4, <3>1
      <3> QED BY <2>1, <3>1, <3>2
    <2>5. Followed(S)
      BY <2>3, <2>4 DEF Followed
    <2>6. p \in S
      BY <2>2, <2>5 DEF Frames
    <2> QED BY <2>1, <2>6
  <1> QED BY <1>1, <1>2, <1>3

\* In their order each is where the one before it points to, and the last one
\* points to no frame further up.
LEMMA FramesInOrder ==
  ASSUME in \in Inputs, NEW n, n = Cardinality(Frames), NEW s, s = InOrder(Frames)
  PROVE  /\ n \in Nat /\ n <= Cardinality(StackWords) /\ \A i \in 1..n : s[i] \in AllFrames
         /\ n > 0 => s[1] = in.start
         /\ in.start \in AllFrames => n > 0
         /\ \A i \in 1..n : i < n => s[i + 1] = in.mem[s[i]] /\ s[i] < s[i + 1]
         /\ \A i \in 1..n : in.mem[s[i]] \in AllFrames /\ s[i] < in.mem[s[i]] => i < n
  <1>1. /\ Frames \subseteq AllFrames /\ Followed(Frames)
        /\ \A p \in Frames : p = in.start \/ \E q \in Frames : in.mem[q] = p /\ q < p
    BY FramesFollowed
  <1>2. \A p \in Frames : p \in Nat /\ p \in 0..Hi /\ p \in StackWords /\ in.mem[p] \in Nat
    <2>1. \A p \in Frames : p \in StackWords /\ p \in Nat /\ in.mem[p] \in Nat
      BY <1>1, FramesAre
    <2> QED BY <2>1, WordIs
  <1>3. Hi \in Nat /\ Frames \in SUBSET (0..Hi)
    BY <1>2, SizeAssumption
  <1>4. /\ n \in Nat /\ s \in [1..n -> Frames]
        /\ \A i, j \in 1..n : i < j => s[i] < s[j]
        /\ \A x \in Frames : \E i \in 1..n : s[i] = x
    BY <1>3, InOrderIs
  <1>5. \A i \in 1..n : s[i] \in Frames /\ s[i] \in Nat
    BY <1>2, <1>4
  <1>6. n <= Cardinality(StackWords)
    <2>1. IsFiniteSet(StackWords)
      <3>1. StackWords \in SUBSET (0..Hi)
        BY WordIs
      <3>2. IsFiniteSet(0..Hi)
        BY <1>3, FS_Interval
      <3> QED BY <3>1, <3>2, FS_Subset
    <2>2. Frames \in SUBSET StackWords
      BY <1>2
    <2> QED BY <2>1, <2>2, FS_Subset
  \* A frame before another has the lower number.
  <1>7. ASSUME NEW i \in 1..n, NEW j \in 1..n, s[i] < s[j] PROVE i < j
    <2>1. ~(j < i) /\ i # j
      BY <1>4, <1>5, <1>7
    <2> QED BY <1>4, <2>1
  <1>8. n > 0 => s[1] = in.start
    <2> SUFFICES ASSUME n > 0, s[1] # in.start PROVE FALSE
      OBVIOUS
    <2>1. 1 \in 1..n
      BY <1>4
    <2>2. PICK q \in Frames : q < s[1]
      BY <1>1, <1>5, <2>1
    <2>3. PICK j \in 1..n : s[j] = q
      BY <1>4
    <2>4. j < 1
      BY <1>7, <2>1, <2>2, <2>3
    <2> QED BY <1>4, <2>4
  <1>9. in.start \in AllFrames => n > 0
    <2> SUFFICES ASSUME in.start \in AllFrames PROVE n > 0
      OBVIOUS
    <2>1. in.start \in Frames
      BY <1>1 DEF Followed
    <2>2. PICK j \in 1..n : s[j] = in.start
      BY <1>4, <2>1
    <2> QED BY <1>4
  <1>10. \A i \in 1..n : i < n => s[i + 1] = in.mem[s[i]]
    <2>1. PICK B : B = {i \in Nat : i \in 1..n /\ i < n /\ s[i + 1] # in.mem[s[i]]}
      OBVIOUS
    <2>2. ASSUME B # {} PROVE FALSE
      <3>1. PICK i \in B : \A j \in B : i <= j
        <4>1. B \in SUBSET Nat
          BY <2>1
        <4> QED BY <2>2, <4>1, Least
      <3>2. i \in 1..n /\ i \in Nat /\ i < n /\ s[i + 1] # in.mem[s[i]] /\ i + 1 \in 1..n /\ 1 \in 1..n
        BY <1>4, <2>1, <3>1
      <3>3. s[i + 1] # in.start
        <4>1. s[1] < s[i + 1]
          <5>1. 1 < i + 1
            BY <3>2
          <5> QED BY <1>4, <3>2, <5>1
        <4>2. n > 0
          BY <1>4, <3>2
        <4> QED BY <1>5, <1>8, <3>2, <4>1, <4>2
      <3>4. PICK q \in Frames : in.mem[q] = s[i + 1] /\ q < s[i + 1]
        BY <1>1, <1>5, <3>2, <3>3
      <3>5. PICK j \in 1..n : s[j] = q
        BY <1>4
      <3>6. j < i + 1
        BY <1>7, <3>2, <3>4, <3>5
      <3>7. j \in Nat /\ j # i /\ j < i
        BY <1>4, <3>2, <3>4, <3>5, <3>6
      <3>8. j \notin B /\ j < n
        <4>1. j \notin B
          BY <3>1, <3>2, <3>7
        <4>2. j < n
          BY <1>4, <3>2, <3>7
        <4> QED BY <4>1, <4>2
      <3>9. s[j + 1] = s[i + 1]
        BY <2>1, <3>4, <3>5, <3>7, <3>8
      <3>10. s[j + 1] < s[i + 1]
        <4>1. j + 1 \in 1..n /\ j + 1 < i + 1
          BY <1>4, <3>2, <3>7, <3>8
        <4> QED BY <1>4, <3>2, <4>1
      <3> QED BY <1>5, <3>2, <3>9, <3>10
    <2> QED BY <1>4, <2>1, <2>2
  <1>11. ASSUME NEW i \in 1..n, in.mem[s[i]] \in AllFrames, s[i] < in.mem[s[i]] PROVE i < n
    <2>1. in.mem[s[i]] \in Frames
      BY <1>1, <1>5, <1>11 DEF Followed
    <2>2. PICK j \in 1..n : s[j] = in.mem[s[i]]
      BY <1>4, <2>1
    <2>3. i < j
      BY <1>7, <1>11, <2>2
    <2> QED BY <1>4, <2>3
  <1>12. ASSUME NEW i \in 1..n, i < n PROVE s[i] < s[i + 1]
    <2>1. i + 1 \in 1..n /\ i < i + 1
      BY <1>4, <1>12
    <2> QED BY <1>4, <2>1
  <1> QED BY <1>1, <1>4, <1>5, <1>6, <1>8, <1>9, <1>10, <1>11, <1>12
-----------------------------------------------------------------------------
(* The walk goes from frame to frame.                                      *)

\* Before frame i + 1 the frame pointer is that frame's, or no frame's.
OnFrame(i, f) ==
  /\ i <= Cardinality(Frames)
  /\ i < Cardinality(Frames) => f = InOrder(Frames)[i + 1]
  /\ i = Cardinality(Frames) => f \notin AllFrames

Skipped == IF skip < 0 THEN 0 ELSE skip
\* What is recorded of the first i frames.
Recorded(i, o) ==
  /\ Len(o) = IF i < Skipped THEN 0 ELSE i - Skipped
  /\ After(o, Callers, Skipped)

FollowInv ==
  /\ at = "walk" => OnFrame(idx, fp) /\ Recorded(idx, out) /\ (idx = 0 \/ idx <= ToInt(skip + depth))
  /\ FramesAreCallers

\* The first i are what is asked for where i is the last one asked for, or there
\* is no other.
LEMMA WindowRecorded ==
  ASSUME NEW s \in Seq(Nat), NEW k \in Int, NEW d \in Int,
         NEW a \in Nat, a = IF k < 0 THEN 0 ELSE k,
         NEW i \in Nat, i <= Len(s), i <= k + d, i = k + d \/ i = Len(s),
         NEW o \in Seq(Nat), Len(o) = (IF i < a THEN 0 ELSE i - a), After(o, s, a)
  PROVE  o = Window(s, k, d)
  <1>1. Len(s) \in Nat
    OBVIOUS
  <1>2. i = (IF k + d < Len(s) THEN k + d ELSE Len(s)) /\ i \in Int
    BY <1>1
  <1>3. PICK w : w = Window(s, k, d)
    OBVIOUS
  <1>4. w \in Seq(Nat) /\ Len(w) = (IF i < a THEN 0 ELSE i - a)
    BY <1>2, <1>3, WindowIs
  <1>5. After(w, s, a)
    BY <1>2, <1>3, WindowIs
  <1>6. Len(o) = Len(w) /\ \A j \in 1..Len(o) : o[j] = w[j]
    BY <1>4, <1>5 DEF After
  <1>7. o = w
    BY <1>4, <1>6, SeqEqual
  <1> QED BY <1>3, <1>7

\* Nothing is asked for that is there.
LEMMA WindowEmpty ==
  ASSUME NEW s \in Seq(Nat), NEW k \in Int, NEW d \in Int,
         NEW a \in Nat, a = IF k < 0 THEN 0 ELSE k, k + d <= a \/ Len(s) <= a
  PROVE  Window(s, k, d) = <<>>
  <1>1. Len(s) \in Nat
    OBVIOUS
  <1>2. PICK b \in Int : b = IF k + d < Len(s) THEN k + d ELSE Len(s)
    BY <1>1
  <1>3. PICK w : w = Window(s, k, d)
    OBVIOUS
  <1>4. w \in Seq(Nat) /\ Len(w) = (IF b < a THEN 0 ELSE b - a)
    BY <1>2, <1>3, WindowIs
  <1>5. b <= a
    BY <1>1, <1>2
  <1>6. Len(w) = 0
    BY <1>4, <1>5
  <1> QED BY <1>3, <1>4, <1>6

\* With one more frame, one more is recorded, unless it is one to skip.
LEMMA RecordOne ==
  ASSUME NEW s \in Seq(Nat), NEW k \in Int, NEW a \in Nat, a = IF k < 0 THEN 0 ELSE k,
         NEW i \in Nat, i < Len(s),
         NEW o \in Seq(Nat), Len(o) = (IF i < a THEN 0 ELSE i - a), After(o, s, a),
         NEW q, q = IF i >= k THEN Append(o, s[i + 1]) ELSE o
  PROVE  q \in Seq(Nat) /\ Len(q) = (IF i + 1 < a THEN 0 ELSE i + 1 - a) /\ After(q, s, a)
  <1>1. Len(s) \in Nat /\ Len(o) \in Nat
    OBVIOUS
  <1>2. CASE i >= k
    <2>1. a <= i /\ ~(i < a) /\ ~(i + 1 < a)
      BY <1>2
    <2>2. i + 1 \in 1..Len(s)
      BY <1>1
    <2>3. PICK x \in Nat : x = s[i + 1]
      BY <2>2
    <2>4. q = Append(o, x)
      BY <1>2, <2>3
    <2>5. Len(o) = i - a
      BY <2>1
    <2>6. q \in Seq(Nat) /\ Len(q) = i + 1 - a
      <3>1. q \in Seq(Nat) /\ Len(q) = Len(o) + 1
        <4>1. o \in Seq(Nat) /\ x \in Nat
          BY <2>3
        <4> QED BY ONLY <2>4, <4>1
      <3>2. Len(q) = (i - a) + 1
        BY <2>5, <3>1
      <3>3. (i - a) + 1 = i + 1 - a
        OBVIOUS
      <3> QED BY <3>1, <3>2, <3>3
    <2>7. ASSUME NEW j \in 1..Len(q) PROVE q[j] = s[a + j]
      <3>1. CASE j = i + 1 - a
        <4>1. a + j = i + 1 /\ j = Len(o) + 1
          BY <2>1, <2>5, <3>1
        <4>2. q[j] = x
          <5>1. o \in Seq(Nat)
            OBVIOUS
          <5>2. Append(o, x)[Len(o) + 1] = x
            BY ONLY <5>1
          <5> QED BY ONLY <2>4, <4>1, <5>2
        <4> QED BY <2>3, <4>1, <4>2
      <3>2. CASE j # i + 1 - a
        <4>1. j \in 1..Len(o)
          BY <2>1, <2>5, <2>6, <3>2
        <4>2. q[j] = o[j]
          BY <2>4, <4>1
        <4> QED BY <4>1, <4>2 DEF After
      <3> QED BY <3>1, <3>2
    <2>8. After(q, s, a)
      BY <2>7 DEF After
    <2> QED BY <2>1, <2>6, <2>8
  <1>3. CASE ~(i >= k)
    <2>1. a = k /\ i < a /\ i + 1 <= a
      BY <1>3
    <2>2. q = o /\ Len(o) = 0
      BY <1>3, <2>1
    <2>3. Len(q) = IF i + 1 < a THEN 0 ELSE i + 1 - a
      BY <2>1, <2>2
    <2> QED BY <2>2, <2>3
  <1> QED BY <1>2, <1>3

\* How far the walk goes: the sum of the settings, unless it is no int; then no
\* frame is asked for that is there.
LEMMA LimitIs ==
  ASSUME TypeInv, ConfigInv, depth \in 1..MaxFramesInline, at # "config"
  PROVE  /\ ToInt(skip + depth) \in Int
         /\ \/ ToInt(skip + depth) = skip + depth
            \/ ToInt(skip + depth) < 0 /\ Cardinality(Frames) <= Skipped
  <1>1. PICK h \in Nat \ {0} :
          /\ h = 2^(IntBits - 1) /\ MaxFramesInline < h
          /\ Cardinality(StackWords) + MaxFramesInline < h
    BY HalfIs
  <1>2. PICK k \in Int, d \in Int : k = skip /\ d = depth
    BY DEF TypeInv
  <1>3. MaxFramesInline \in Nat /\ d \in 1..MaxFramesInline
    BY <1>2, SizeAssumption
  <1>4. Ints = -h..(h - 1)
    BY <1>1 DEF Ints
  <1>5. k \in -h..(h - 1)
    BY <1>2, <1>4 DEF ConfigInv
  <1>6. ToInt(k + d) \in Int /\ (k + d \in Ints => ToInt(k + d) = k + d)
        /\ (h <= k + d /\ k + d < 2 * h => ToInt(k + d) < 0)
    <2>1. k + d \in Int
      OBVIOUS
    <2> QED BY <1>1, <2>1, ToIntIs
  <1>7. CASE k + d < h
    <2>1. k + d \in -h..(h - 1)
      BY <1>1, <1>3, <1>5, <1>7
    <2> QED BY <1>2, <1>4, <1>6, <2>1
  <1>8. CASE ~(k + d < h)
    <2>1. h <= k + d /\ k + d < 2 * h
      BY <1>1, <1>3, <1>5, <1>8
    <2>2. PICK n \in Nat : n = Cardinality(Frames) /\ n <= Cardinality(StackWords)
      BY FramesInOrder DEF TypeInv
    <2>3. PICK c \in Nat : c = Cardinality(StackWords)
      <3>1. IsFiniteSet(0..Hi) /\ StackWords \in SUBSET (0..Hi)
        BY SizeAssumption, FS_Interval, WordIs
      <3> QED BY <3>1, FS_Subset, FS_CardinalityType
    <2>4. n <= c /\ c + MaxFramesInline < h
      BY <1>1, <2>2, <2>3
    <2>5. n <= k /\ ~(k < 0)
      BY <1>1, <1>3, <2>1, <2>4
    <2>6. Skipped = k
      BY <1>2, <2>5 DEF Skipped
    <2> QED BY <1>2, <1>6, <2>1, <2>2, <2>5, <2>6
  <1> QED BY <1>7, <1>8

\* The frames are a matter of the input.
LEMMA SameFrames ==
  ASSUME in' = in
  PROVE  AllFrames' = AllFrames /\ Frames' = Frames /\ Callers' = Callers
  <1>1. AllFrames' = AllFrames
    BY DEF AllFrames
  <1>2. \A S : Followed(S)' <=> Followed(S)
    BY <1>1 DEF Followed
  <1>3. Frames' = Frames
    BY <1>1, <1>2 DEF Frames
  <1>4. Callers' = Callers
    BY <1>3 DEF Callers
  <1> QED BY <1>1, <1>3, <1>4

\* A frame there is passes the checks of the walk.
LEMMA FrameInStack ==
  ASSUME in \in Inputs, NEW p \in AllFrames
  PROVE  p % Word = 0 /\ FpInStack(p)
  <1>1. p \in StackWords /\ p + 2 * Word <= Hi
    BY DEF AllFrames
  <1>2. p \in Nat /\ p % Word = 0 /\ Lo <= p
    BY <1>1, WordIs
  <1>3. ~(p + 2 * Word >= Top) /\ p >= Lo
    BY <1>1, <1>2, SizeAssumption
  <1> QED BY <1>1, <1>2, <1>3 DEF FpInStack, Wrap

\* Where the walk cannot go on, it is past the last frame.
LEMMA NoFrameLeft ==
  ASSUME TypeInv, OnFrame(idx, fp), fp \notin AllFrames
  PROVE  idx = Cardinality(Frames)
  <1>1. PICK n \in Nat : n = Cardinality(Frames) /\ \A i \in 1..n : InOrder(Frames)[i] \in AllFrames
    BY FramesInOrder DEF TypeInv
  <1>2. idx \in Nat /\ idx <= n
    BY <1>1 DEF TypeInv, OnFrame
  <1>3. ASSUME idx < n PROVE FALSE
    <2>1. idx + 1 \in 1..n
      BY <1>1, <1>2, <1>3
    <2>2. fp = InOrder(Frames)[idx + 1]
      BY <1>1, <1>3 DEF OnFrame
    <2> QED BY <1>1, <2>1, <2>2
  <1> QED BY <1>1, <1>2, <1>3

LEMMA FollowLog ==
  ASSUME TypeInv, ConfigInv, StageInv, FollowInv, LogEvent, TypeInv'
  PROVE  FollowInv'
  <1>1. at = "log" /\ at' = (IF depth' <= 0 THEN "done" ELSE IF in.bounded THEN "walk" ELSE "unwind")
        /\ UNCHANGED <<in, skip, fp, idx, out>>
    BY DEF LogEvent
  <1>2. out = <<>> /\ idx = 0 /\ fp = in.start /\ in \in Inputs
    BY <1>1 DEF StageInv, TypeInv
  <1>3. AllFrames' = AllFrames /\ Frames' = Frames /\ Callers' = Callers
    BY <1>1, SameFrames
  <1>4. PICK k \in Int, d \in Int : k = skip' /\ d = depth'
    BY DEF TypeInv
  <1>5. (at' = "walk" => OnFrame(idx, fp)' /\ Recorded(idx, out)' /\ (idx = 0 \/ idx <= ToInt(skip + depth))')
    <2>1. PICK n \in Nat : /\ n = Cardinality(Frames)
                           /\ n > 0 => InOrder(Frames)[1] = in.start
                           /\ in.start \in AllFrames => n > 0
      BY <1>2, FramesInOrder
    <2>2. 0 <= n /\ (0 < n => fp' = InOrder(Frames')[0 + 1]) /\ (0 = n => fp' \notin AllFrames')
      BY <1>1, <1>2, <1>3, <2>1
    <2>3. OnFrame(idx, fp)'
      BY <1>1, <1>2, <1>3, <2>1, <2>2 DEF OnFrame
    <2>4. PICK a \in Nat : a = Skipped'
      BY <1>4 DEF Skipped
    <2>5. Len(out') = 0 /\ (IF 0 < a THEN 0 ELSE 0 - a) = 0
      <3>1. Len(out') = 0
        BY <1>1, <1>2
      <3>2. CASE 0 < a
        BY <3>1, <3>2
      <3>3. CASE ~(0 < a)
        BY <3>1, <3>3
      <3> QED BY <3>2, <3>3
    <2>6. After(out', Callers', a)
      BY <2>5 DEF After
    <2>7. idx' = 0
      BY <1>1, <1>2
    <2>8. Len(out') = IF idx' < a THEN 0 ELSE idx' - a
      BY <2>5, <2>7
    <2>9. Recorded(idx, out)'
      BY <2>4, <2>6, <2>8 DEF Recorded
    <2> QED BY <2>3, <2>7, <2>9
  <1>6. FramesAreCallers'
    <2> SUFFICES ASSUME at' = "done" PROVE out' = Window(Callers, skip, depth)'
      BY DEF FramesAreCallers
    <2>1. d <= 0
      BY <1>1, <1>4
    <2>2. PICK s \in Seq(Nat) : s = Callers'
      BY <1>2, <1>3, CallersAre
    <2>3. PICK a \in Nat : a = IF k < 0 THEN 0 ELSE k
      OBVIOUS
    <2>4. k + d <= a
      BY <2>1, <2>3
    <2>5. Window(s, k, d) = <<>>
      BY <2>3, <2>4, WindowEmpty
    <2>6. Window(Callers, skip, depth)' = Window(s, k, d)
      BY <1>4, <2>2 DEF Window
    <2> QED BY <1>1, <1>2, <2>5, <2>6
  <1> QED BY <1>5, <1>6 DEF FollowInv

\* Where the walk ends before a frame it has what was asked for.
LEMMA StopIs ==
  ASSUME TypeInv, ConfigInv, StageInv, FollowInv, at = "walk",
         idx >= ToInt(skip + depth) \/ fp \notin AllFrames
  PROVE  out = Window(Callers, skip, depth)
  <1>1. PICK k \in Int, d \in Int : k = skip /\ d = depth
    BY DEF TypeInv
  <1>2. PICK a \in Nat : a = Skipped /\ a = IF k < 0 THEN 0 ELSE k
    BY <1>1 DEF Skipped
  <1>3. PICK s \in Seq(Nat) : s = Callers /\ Len(s) = Cardinality(Frames) /\ Len(s) \in Nat
    BY CallersAre DEF TypeInv
  <1>4. PICK t \in Int : t = ToInt(skip + depth) /\ (t = k + d \/ (t < 0 /\ Len(s) <= a))
    BY <1>1, <1>2, <1>3, LimitIs DEF StageInv
  <1>5. PICK i \in Nat : i = idx /\ i <= Len(s) /\ (i = 0 \/ i <= t)
    BY <1>3, <1>4 DEF TypeInv, FollowInv, OnFrame
  <1>6. PICK o \in Seq(Nat) : o = out /\ Len(o) = (IF i < a THEN 0 ELSE i - a) /\ After(o, s, a)
    BY <1>2, <1>3, <1>5 DEF TypeInv, FollowInv, Recorded
  <1>7. i >= t \/ i = Len(s)
    <2>1. fp \notin AllFrames => i = Len(s)
      BY <1>3, <1>5, NoFrameLeft DEF FollowInv
    <2> QED BY <1>4, <1>5, <2>1
  <1>8. CASE i = 0
    <2>1. Len(o) = 0
      <3>1. CASE i < a
        BY <1>6, <3>1
      <3>2. CASE ~(i < a)
        BY <1>6, <1>8, <3>2
      <3> QED BY <3>1, <3>2
    <2>2. o = <<>>
      BY <2>1
    <2>3. k + d <= a \/ Len(s) <= a
      BY <1>2, <1>3, <1>4, <1>7, <1>8
    <2>4. Window(s, k, d) = <<>>
      BY <1>2, <2>3, WindowEmpty
    <2> QED BY <1>1, <1>3, <1>6, <2>2, <2>4
  <1>9. CASE i # 0
    <2>1. i <= k + d /\ (i = k + d \/ i = Len(s))
      BY <1>4, <1>5, <1>7, <1>9
    <2>2. o = Window(s, k, d)
      BY <1>2, <1>5, <1>6, <2>1, WindowRecorded
    <2> QED BY <1>1, <1>3, <1>6, <2>2
  <1> QED BY <1>8, <1>9

LEMMA FollowStop ==
  ASSUME TypeInv, ConfigInv, StageInv, FollowInv, WalkStop
  PROVE  FollowInv'
  <1>1. /\ at = "walk" /\ at' = "done" /\ UNCHANGED <<in, depth, skip, fp, idx, out>>
        /\ idx >= ToInt(skip + depth) \/ fp % Word # 0 \/ ~FpInStack(fp)
    BY DEF WalkStop
  <1>2. fp % Word # 0 \/ ~FpInStack(fp) => fp \notin AllFrames
    BY FrameInStack DEF TypeInv
  <1>3. out = Window(Callers, skip, depth)
    BY <1>1, <1>2, StopIs
  <1>4. Callers' = Callers
    BY <1>1, SameFrames
  <1>5. FramesAreCallers'
    BY <1>1, <1>3, <1>4 DEF FramesAreCallers, Window
  <1> QED BY <1>1, <1>5 DEF FollowInv

\* A step records a frame there is and goes on to the next one.
LEMMA FollowWalk ==
  ASSUME TypeInv, ConfigInv, StageInv, FollowInv, WalkFrame, TypeInv'
  PROVE  FollowInv'
  <1>1. PICK next \in Nat, ra \in Nat : next = in.mem[fp] /\ ra = in.mem[fp + Word]
    BY WalkIs
  <1>2. /\ at = "walk" /\ idx < ToInt(skip + depth)
        /\ fp \in StackWords /\ fp + 2 * Word <= Hi /\ fp \in Nat
        /\ out' = (IF ra # 0 /\ idx >= skip THEN Append(out, ra) ELSE out)
        /\ \/ /\ ra = 0 \/ Len(out') >= depth \/ next <= fp
              /\ at' = "done" /\ fp' = fp /\ idx' = idx
           \/ /\ ra # 0 /\ ~(Len(out') >= depth) /\ ~(next <= fp)
              /\ fp' = next /\ idx' = idx + 1 /\ at' = at
        /\ in' = in /\ depth' = depth /\ skip' = skip
    BY <1>1, WalkIs
  <1>3. AllFrames' = AllFrames /\ Frames' = Frames /\ Callers' = Callers
    BY <1>2, SameFrames
  <1>4. CASE ra = 0
    <2>1. fp \notin AllFrames
      BY <1>1, <1>4 DEF AllFrames
    <2>2. out' = Window(Callers, skip, depth) /\ at' = "done"
      BY <1>2, <1>4, <2>1, StopIs
    <2>3. FramesAreCallers'
      BY <1>2, <1>3, <2>2 DEF FramesAreCallers, Window
    <2> QED BY <2>2, <2>3 DEF FollowInv
  <1>5. CASE ra # 0
    <2>1. fp \in AllFrames
      BY <1>1, <1>2, <1>5 DEF AllFrames
    <2>2. PICK k \in Int, d \in Int : k = skip /\ d = depth /\ k = skip' /\ d = depth' /\ d \in 1..MaxFramesInline
      BY <1>2 DEF TypeInv, StageInv
    <2>3. PICK a \in Nat : a = Skipped /\ a = Skipped' /\ a = IF k < 0 THEN 0 ELSE k
      BY <2>2 DEF Skipped
    <2>4. PICK s \in Seq(Nat) : s = Callers /\ Len(s) = Cardinality(Frames) /\ Len(s) \in Nat
      BY CallersAre DEF TypeInv
    <2>5. PICK t \in Int : t = ToInt(skip + depth) /\ (t = k + d \/ (t < 0 /\ Len(s) <= a))
      BY <1>2, <2>2, <2>3, <2>4, LimitIs
    <2>6. PICK i \in Nat : i = idx /\ i <= Len(s) /\ i < t
      BY <1>2, <2>4, <2>5 DEF TypeInv, FollowInv, OnFrame
    <2>7. PICK o \in Seq(Nat) : o = out /\ Len(o) = (IF i < a THEN 0 ELSE i - a) /\ After(o, s, a)
      BY <1>2, <2>3, <2>4, <2>6 DEF TypeInv, FollowInv, Recorded
    <2>8. t = k + d /\ i + 1 <= k + d
      BY <2>5, <2>6
    <2>9. PICK f : f = InOrder(Frames)
      OBVIOUS
    <2>10. /\ \A j \in 1..Len(s) : f[j] \in AllFrames
           /\ \A j \in 1..Len(s) : j < Len(s) => f[j + 1] = in.mem[f[j]] /\ f[j] < f[j + 1]
           /\ \A j \in 1..Len(s) : in.mem[f[j]] \in AllFrames /\ f[j] < in.mem[f[j]] => j < Len(s)
      BY <2>4, <2>9, FramesInOrder DEF TypeInv
    <2>11. i < Len(s) /\ fp = f[i + 1] /\ i + 1 \in 1..Len(s)
      <3>1. (i < Len(s) => fp = f[i + 1]) /\ (i = Len(s) => fp \notin AllFrames)
        BY <1>2, <2>4, <2>6, <2>9 DEF FollowInv, OnFrame
      <3>2. i < Len(s)
        BY <2>1, <2>4, <2>6, <3>1
      <3> QED BY <2>4, <3>1, <3>2
    <2>12. s[i + 1] = ra
      <3>1. s = [j \in 1..Len(s) |-> in.mem[f[j] + Word]]
        BY <2>4, <2>9 DEF Callers
      <3>2. s[i + 1] = in.mem[f[i + 1] + Word]
        BY <2>11, <3>1
      <3> QED BY <1>1, <2>11, <3>2
    <2>13. PICK q : q = out' /\ q = IF i >= k THEN Append(o, s[i + 1]) ELSE o
      BY <1>2, <1>5, <2>2, <2>6, <2>7, <2>12
    <2>14. q \in Seq(Nat) /\ Len(q) = (IF i + 1 < a THEN 0 ELSE i + 1 - a) /\ After(q, s, a)
      <3>1. (q = IF i >= k THEN Append(o, s[i + 1]) ELSE o) /\ i < Len(s)
            /\ (a = IF k < 0 THEN 0 ELSE k) /\ (Len(o) = IF i < a THEN 0 ELSE i - a) /\ After(o, s, a)
            /\ s \in Seq(Nat) /\ o \in Seq(Nat) /\ k \in Int /\ a \in Nat /\ i \in Nat
        BY <2>2, <2>3, <2>4, <2>6, <2>7, <2>11, <2>13
      <3>2. q \in Seq(Nat)
        BY ONLY <3>1, RecordOne
      <3>3. Len(q) = IF i + 1 < a THEN 0 ELSE i + 1 - a
        BY ONLY <3>1, RecordOne
      <3>4. After(q, s, a)
        BY ONLY <3>1, RecordOne
      <3> QED BY <3>2, <3>3, <3>4
    <2>15. CASE at' = "done"
      <3>1. Len(q) >= d \/ next <= fp
        BY <1>2, <1>5, <2>2, <2>13, <2>15
      <3>2. i + 1 = k + d \/ i + 1 = Len(s)
        <4>1. CASE Len(q) >= d
          <5>1. ~(i + 1 < a)
            BY <2>2, <2>14, <4>1
          <5>2. i + 1 - a >= d
            BY <2>14, <4>1, <5>1
          <5> QED BY <2>3, <2>8, <5>2
        <4>2. CASE next <= fp
          <5>1. ~(i + 1 < Len(s))
            <6>1. ASSUME i + 1 < Len(s) PROVE FALSE
              <7>1. f[(i + 1) + 1] = next /\ fp < next
                BY <1>1, <2>10, <2>11, <6>1
              <7> QED BY <1>2, <4>2, <7>1
            <6> QED BY <6>1
          <5> QED BY <2>4, <2>11, <5>1
        <4> QED BY <3>1, <4>1, <4>2
      <3>3. q = Window(s, k, d)
        <4>1. PICK m \in Nat : m = i + 1
          OBVIOUS
        <4>2. m <= Len(s) /\ m <= k + d /\ (m = k + d \/ m = Len(s))
          BY <2>4, <2>8, <2>11, <3>2, <4>1
        <4>3. Len(q) = (IF m < a THEN 0 ELSE m - a) /\ a = (IF k < 0 THEN 0 ELSE k)
          BY <2>3, <2>14, <4>1
        <4> QED BY <2>14, <4>2, <4>3, WindowRecorded
      <3>4. FramesAreCallers'
        <4>1. Window(Callers, skip, depth)' = Window(s, k, d)
          BY <1>3, <2>2, <2>4 DEF Window
        <4> QED BY <2>13, <3>3, <4>1 DEF FramesAreCallers
      <3> QED BY <2>15, <3>4 DEF FollowInv
    <2>16. CASE at' # "done"
      <3>1. ~(next <= fp) /\ fp' = next /\ idx' = i + 1 /\ at' = "walk"
        BY <1>2, <2>6, <2>16
      <3>2. i + 1 < Len(s) => next = f[(i + 1) + 1]
        BY <1>1, <2>10, <2>11
      <3>3. i + 1 = Len(s) => next \notin AllFrames
        <4>1. fp < next
          BY <1>2, <3>1
        <4> QED BY <1>1, <2>10, <2>11, <4>1
      <3>4. OnFrame(idx, fp)'
        <4>1. i + 1 <= Len(s)
          BY <2>4, <2>11
        <4> QED BY <1>3, <2>4, <2>9, <3>1, <3>2, <3>3, <4>1 DEF OnFrame
      <3>5. Recorded(idx, out)'
        <4>1. Len(out') = IF idx' < a THEN 0 ELSE idx' - a
          BY <2>13, <2>14, <3>1
        <4>2. After(out', Callers', a)
          BY <1>3, <2>4, <2>13, <2>14
        <4> QED BY <2>3, <4>1, <4>2 DEF Recorded
      <3>6. (idx <= ToInt(skip + depth))'
        <4>1. ToInt(skip + depth)' = t
          BY <1>2, <2>5
        <4>2. i + 1 <= t
          BY <2>6
        <4> QED BY <3>1, <4>1, <4>2
      <3>7. FramesAreCallers'
        BY <3>1 DEF FramesAreCallers
      <3> QED BY <3>4, <3>5, <3>6, <3>7 DEF FollowInv
    <2> QED BY <2>15, <2>16
  <1> QED BY <1>4, <1>5

\* Whatever the stack holds and whatever is asked for, the walk records the
\* callers it was asked for, each of them once, in their order.
THEOREM CallersRecorded == Spec => []FramesAreCallers
  <1>1. Init => FollowInv
    BY DEF Init, FollowInv, FramesAreCallers
  <1>2. IInv /\ IInv' /\ FollowInv /\ [Next]_vars => FollowInv'
    <2> SUFFICES ASSUME TypeInv, ConfigInv, StageInv, FollowInv, [Next]_vars, TypeInv'
                 PROVE  FollowInv'
      BY DEF IInv
    <2>1. CASE InitConfigFromEnv
      BY <2>1 DEF InitConfigFromEnv, FollowInv, FramesAreCallers
    <2>2. CASE LogEvent
      BY <2>2, FollowLog
    <2>3. CASE WalkStop
      BY <2>3, FollowStop
    <2>4. CASE WalkFrame
      BY <2>4, FollowWalk
    <2>5. CASE WalkFault
      BY <2>5 DEF WalkFault, FollowInv, FramesAreCallers
    <2>6. CASE Unwind
      BY <2>6 DEF Unwind, FollowInv, FramesAreCallers, StageInv
    <2>7. CASE UnwindFault
      BY <2>7 DEF UnwindFault, FollowInv, FramesAreCallers
    <2>8. CASE UNCHANGED vars
      <3>1. Callers' = Callers /\ Frames' = Frames /\ AllFrames' = AllFrames
        BY <2>8, SameFrames DEF vars
      <3>2. OnFrame(idx, fp)' = OnFrame(idx, fp)
        BY <2>8, <3>1 DEF OnFrame, vars
      <3>3. Recorded(idx, out)' = Recorded(idx, out)
        BY <2>8, <3>1 DEF Recorded, Skipped, After, vars
      <3>4. FramesAreCallers' = FramesAreCallers
        BY <2>8, <3>1 DEF FramesAreCallers, Window, vars
      <3> QED BY <2>8, <3>2, <3>3, <3>4 DEF FollowInv, vars
    <2> QED BY <2>1, <2>2, <2>3, <2>4, <2>5, <2>6, <2>7, <2>8 DEF Next, Finished
  <1>3. FollowInv => FramesAreCallers
    BY DEF FollowInv
  <1> QED BY <1>1, <1>2, <1>3, CaptureInv, PTL DEF Spec
=============================================================================
