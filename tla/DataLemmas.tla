----------------------------- MODULE DataLemmas -----------------------------
(***************************************************************************)
(* What the other proofs need of data.  Sets of numbers have a least and,  *)
(* when they are bounded, a greatest element; the first is how all proofs  *)
(* reason by induction: they look at the least number of which a claim     *)
(* would be false.  A filter keeps order, and prefixes are pointwise.      *)
(* Fractions add up to Same, and a sum over a finite set takes its terms   *)
(* in any order and is the sum of those of its blocks.                     *)
(***************************************************************************)
EXTENDS Filters, Fractions, FiniteSetsExt, FiniteSetTheorems, WellFoundedInduction, TLAPS

Below == {pair \in Nat \X Nat : pair[1] < pair[2]}

\* A set of natural numbers that is not empty has a least element.
LEMMA LeastElement ==
    ASSUME NEW T, T \subseteq Nat, T # {}
    PROVE  \E x \in T : \A y \in T : x <= y
<1>1. IsWellFoundedOn(Below, Nat)
  BY NatLessThanWellFounded DEF OpToRel, Below
<1>2. PICK x \in T : \A y \in T : ~ (<<y, x>> \in Below)
  BY <1>1, WFMin
<1>3. \A y \in T : ~ (y < x)
  BY <1>2 DEF Below
<1> QED BY <1>3

\* Max finds the greatest element of a bounded set: it is the least one of the
\* set's mirror image.
LEMMA GreatestElement ==
    ASSUME NEW T, NEW n \in Nat, T \subseteq 0 .. n, T # {}
    PROVE  Max(T) \in T /\ \A y \in T : y <= Max(T)
<1> DEFINE Mirror == {n - x : x \in T}
<1>1. Mirror \subseteq Nat
  <2>1. \A x \in T : x \in 0 .. n /\ n - x \in Nat
    OBVIOUS
  <2> QED BY <2>1
<1>2. PICK e : e \in T
  OBVIOUS
<1>3. n - e \in Mirror
  BY <1>2
<1>4. PICK z \in Mirror : \A y \in Mirror : z <= y
  <2> HIDE DEF Mirror
  <2> QED BY <1>1, <1>3, LeastElement
<1>5. PICK x \in T : z = n - x
  BY <1>4
<1>6. \A y \in T : z <= n - y
  BY <1>4
<1>7. \A y \in T : x >= y
  BY <1>5, <1>6
<1> QED BY <1>7 DEF Max

------------------------------------------------------------------------------
(* Filters *)

\* The function that Only reads: its value at i is the filter of the first i.
OnlyUpTo(F, s, S) ==
    /\ F[0] = << >>
    /\ \A i \in 1 .. Len(s) :
          F[i] = IF s[i] \in S THEN Append(F[i - 1], s[i]) ELSE F[i - 1]

\* There is such a function, so Only reads one.
LEMMA OnlyReads ==
    ASSUME NEW E, NEW s \in Seq(E), NEW S
    PROVE  \E F : OnlyUpTo(F, s, S) /\ Only(s, S) = F[Len(s)]
<1> DEFINE Fn(F, m) ==
        F = [i \in 0 .. m |->
                IF i = 0 THEN << >> ELSE IF s[i] \in S THEN Append(F[i - 1], s[i]) ELSE F[i - 1]]
           Bad == {m \in 0 .. Len(s) : ~ \E F : Fn(F, m)}
<1>1. Len(s) \in Nat
  OBVIOUS
<1>2. ASSUME Bad # {} PROVE FALSE
  <2>1. PICK m \in Bad : \A y \in Bad : m <= y
    <3>1. Bad \subseteq Nat
      BY <1>1
    <3> HIDE DEF Bad
    <3> QED BY <1>2, <3>1, LeastElement
  <2>2. CASE m = 0
    <3>1. Fn([i \in 0 .. 0 |-> << >>], 0)
      OBVIOUS
    <3> QED BY <2>1, <2>2, <3>1
  <2>3. CASE m # 0
    <3>1. m - 1 \in 0 .. Len(s) /\ m \in 1 .. Len(s)
      BY <1>1, <2>3
    <3>2. PICK F : Fn(F, m - 1)
      <4>1. m - 1 \notin Bad
        <5> HIDE DEF Bad
        <5> QED BY <2>1, <3>1
      <4> QED BY <3>1, <4>1
    <3> DEFINE G == [i \in 0 .. m |->
                        IF i < m THEN F[i]
                        ELSE IF s[m] \in S THEN Append(F[m - 1], s[m]) ELSE F[m - 1]]
    <3>3. ASSUME NEW i \in 0 .. m
          PROVE  G[i] = IF i = 0 THEN << >>
                        ELSE IF s[i] \in S THEN Append(G[i - 1], s[i]) ELSE G[i - 1]
      <4>1. CASE i = m
        BY <3>1, <4>1
      <4>2. CASE i < m /\ i > 0
        <5>1. i \in 0 .. m - 1 /\ i - 1 \in 0 .. m - 1 /\ i - 1 < m /\ i - 1 \in 0 .. m
          BY <3>1, <4>2
        <5>2. G[i] = F[i] /\ G[i - 1] = F[i - 1]
          BY <4>2, <5>1
        <5> HIDE DEF G
        <5> QED BY <3>2, <4>2, <5>1, <5>2
      <4>3. CASE i = 0
        BY <3>1, <3>2, <4>3
      <4> QED BY <3>1, <4>1, <4>2, <4>3
    <3>4. Fn(G, m)
      <4>1. G = [i \in 0 .. m |-> G[i]]
        OBVIOUS
      <4> HIDE DEF G
      <4> QED BY <3>3, <4>1
    <3> QED BY <2>1, <3>4
  <2> QED BY <2>2, <2>3
<1>3. PICK F : Only(s, S) = F[Len(s)] /\ Fn(F, Len(s))
  <2>1. \E F : Fn(F, Len(s))
    <3>1. Len(s) \in 0 .. Len(s)
      BY <1>1
    <3>2. Len(s) \notin Bad
      <4> HIDE DEF Bad
      <4> QED BY <1>2
    <3> QED BY <3>1, <3>2
  <2> QED BY <2>1 DEF Only
<1>4. F[0] = << >>
  BY <1>1, <1>3
<1>5. ASSUME NEW i \in 1 .. Len(s)
      PROVE  F[i] = IF s[i] \in S THEN Append(F[i - 1], s[i]) ELSE F[i - 1]
  <2>1. i \in 0 .. Len(s) /\ i # 0
    BY <1>1
  <2> QED BY <1>3, <2>1
<1> QED BY <1>3, <1>4, <1>5 DEF OnlyUpTo

\* What a filter returns: some of the elements, all of them in the set.
LEMMA OnlyTyped ==
    ASSUME NEW E, NEW s \in Seq(E), NEW S
    PROVE  /\ Only(s, S) \in Seq(E) /\ Len(Only(s, S)) <= Len(s)
           /\ \A i \in 1 .. Len(Only(s, S)) :
                 Only(s, S)[i] \in S /\ \E j \in 1 .. Len(s) : Only(s, S)[i] = s[j]
<1>1. PICK F : OnlyUpTo(F, s, S) /\ Only(s, S) = F[Len(s)]
  BY OnlyReads
<1> DEFINE Good(m) ==
        /\ F[m] \in Seq(E) /\ Len(F[m]) <= m
        /\ \A i \in 1 .. Len(F[m]) : F[m][i] \in S /\ \E j \in 1 .. Len(s) : F[m][i] = s[j]
           Bad == {m \in 0 .. Len(s) : ~ Good(m)}
<1>2. ASSUME Bad # {} PROVE FALSE
  <2>1. PICK m \in Bad : \A y \in Bad : m <= y
    <3>1. Bad \subseteq Nat
      OBVIOUS
    <3> HIDE DEF Bad
    <3> QED BY <1>2, <3>1, LeastElement
  <2>2. CASE m = 0
    <3>1. F[0] = << >> /\ << >> \in Seq(E) /\ Len(<< >>) = 0
      BY <1>1 DEF OnlyUpTo
    <3>2. Good(0)
      BY <3>1
    <3> QED BY <2>1, <2>2, <3>2
  <2>3. CASE m # 0
    <3>1. m - 1 \in 0 .. Len(s) /\ Good(m - 1) /\ m \in 1 .. Len(s) /\ s[m] \in E
      BY <2>1, <2>3
    <3>2. F[m] = IF s[m] \in S THEN Append(F[m - 1], s[m]) ELSE F[m - 1]
      BY <1>1, <3>1 DEF OnlyUpTo
    <3>3. Good(m)
      <4>1. CASE s[m] \in S
        <5>1. /\ F[m] \in Seq(E) /\ Len(F[m]) = Len(F[m - 1]) + 1
              /\ F[m][Len(F[m])] = s[m]
              /\ \A i \in 1 .. Len(F[m - 1]) : F[m][i] = F[m - 1][i]
          BY <3>1, <3>2, <4>1
        <5>2. ASSUME NEW i \in 1 .. Len(F[m])
              PROVE  F[m][i] \in S /\ \E j \in 1 .. Len(s) : F[m][i] = s[j]
          <6>1. i = Len(F[m]) \/ i \in 1 .. Len(F[m - 1])
            BY <3>1, <5>1
          <6> QED BY <3>1, <4>1, <5>1, <6>1
        <5> QED BY <3>1, <5>1, <5>2
      <4>2. CASE s[m] \notin S
        BY <3>1, <3>2, <4>2
      <4> QED BY <4>1, <4>2
    <3> QED BY <2>1, <3>3
  <2> QED BY <2>2, <2>3
<1>3. Good(Len(s))
  BY <1>2
<1> QED BY <1>1, <1>3

\* Of a sequence whose first m elements, and no others, are in the set, a filter
\* keeps these m.
LEMMA OnlyFirst ==
    ASSUME NEW E, NEW s \in Seq(E), NEW S, NEW m \in 0 .. Len(s),
           \A i \in 1 .. Len(s) : s[i] \in S <=> i <= m
    PROVE  Only(s, S) = SubSeq(s, 1, m)
<1>1. PICK F : OnlyUpTo(F, s, S) /\ Only(s, S) = F[Len(s)]
  BY OnlyReads
<1> DEFINE Good(k) == F[k] = SubSeq(s, 1, IF k < m THEN k ELSE m)
           Bad == {k \in 0 .. Len(s) : ~ Good(k)}
<1>2. ASSUME Bad # {} PROVE FALSE
  <2>1. PICK k \in Bad : \A y \in Bad : k <= y
    <3>1. Bad \subseteq Nat
      OBVIOUS
    <3> HIDE DEF Bad
    <3> QED BY <1>2, <3>1, LeastElement
  <2>2. CASE k = 0
    <3>1. F[0] = << >> /\ SubSeq(s, 1, 0) = << >> /\ (IF k < m THEN k ELSE m) = 0
      BY <1>1, <2>2 DEF OnlyUpTo
    <3>2. Good(k)
      BY <2>2, <3>1
    <3> QED BY <2>1, <3>2
  <2>3. CASE k # 0
    <3>1. k - 1 \in 0 .. Len(s) /\ Good(k - 1) /\ k \in 1 .. Len(s) /\ s[k] \in E
      BY <2>1, <2>3
    <3>2. F[k] = IF s[k] \in S THEN Append(F[k - 1], s[k]) ELSE F[k - 1]
      BY <1>1, <3>1 DEF OnlyUpTo
    <3>3. Good(k)
      <4>1. CASE k <= m
        <5>1. F[k] = Append(SubSeq(s, 1, k - 1), s[k])
          BY <3>1, <3>2, <4>1
        <5>2. Append(SubSeq(s, 1, k - 1), s[k]) = SubSeq(s, 1, k)
          BY <3>1
        <5> QED BY <4>1, <5>1, <5>2
      <4>2. CASE k > m
        BY <3>1, <3>2, <4>2
      <4> QED BY <3>1, <4>1, <4>2
    <3> QED BY <2>1, <3>3
  <2> QED BY <2>2, <2>3
<1>3. Good(Len(s))
  BY <1>2
<1> QED BY <1>1, <1>3

\* And of one whose elements after the first m, and no others, are in the set,
\* the rest.
LEMMA OnlyRest ==
    ASSUME NEW E, NEW s \in Seq(E), NEW S, NEW m \in 0 .. Len(s),
           \A i \in 1 .. Len(s) : s[i] \in S <=> i > m
    PROVE  Only(s, S) = SubSeq(s, m + 1, Len(s))
<1>1. PICK F : OnlyUpTo(F, s, S) /\ Only(s, S) = F[Len(s)]
  BY OnlyReads
<1> DEFINE Good(k) == F[k] = IF k <= m THEN << >> ELSE SubSeq(s, m + 1, k)
           Bad == {k \in 0 .. Len(s) : ~ Good(k)}
<1>2. ASSUME Bad # {} PROVE FALSE
  <2>1. PICK k \in Bad : \A y \in Bad : k <= y
    <3>1. Bad \subseteq Nat
      OBVIOUS
    <3> HIDE DEF Bad
    <3> QED BY <1>2, <3>1, LeastElement
  <2>2. CASE k = 0
    <3>1. F[0] = << >> /\ k <= m /\ ~ (k > m)
      BY <1>1, <2>2 DEF OnlyUpTo
    <3>2. Good(k)
      BY <2>2, <3>1
    <3> QED BY <2>1, <3>2
  <2>3. CASE k # 0
    <3>1. k - 1 \in 0 .. Len(s) /\ Good(k - 1) /\ k \in 1 .. Len(s) /\ s[k] \in E
      BY <2>1, <2>3
    <3>2. F[k] = IF s[k] \in S THEN Append(F[k - 1], s[k]) ELSE F[k - 1]
      BY <1>1, <3>1 DEF OnlyUpTo
    <3>3. Good(k)
      <4>1. CASE k > m + 1
        <5>1. F[k] = Append(SubSeq(s, m + 1, k - 1), s[k])
          BY <3>1, <3>2, <4>1
        <5>2. Append(SubSeq(s, m + 1, k - 1), s[k]) = SubSeq(s, m + 1, k)
          BY <3>1, <4>1
        <5> QED BY <4>1, <5>1, <5>2
      <4>2. CASE k = m + 1
        <5>1. F[k] = Append(<< >>, s[k])
          BY <3>1, <3>2, <4>2
        <5>2. Append(<< >>, s[k]) = SubSeq(s, k, k)
          BY <3>1
        <5>3. ~ (k <= m) /\ m + 1 = k
          BY <4>2
        <5> QED BY <5>1, <5>2, <5>3
      <4>3. CASE k <= m
        BY <3>1, <3>2, <4>3
      <4> QED BY <3>1, <4>1, <4>2, <4>3
    <3> QED BY <2>1, <3>3
  <2> QED BY <2>2, <2>3
<1>3. Good(Len(s))
  BY <1>2
<1>4. CASE m = Len(s)
  <2>1. SubSeq(s, m + 1, Len(s)) = << >>
    BY <1>4
  <2> QED BY <1>1, <1>3, <1>4, <2>1
<1> QED BY <1>1, <1>3, <1>4

------------------------------------------------------------------------------
(* Fractions.  They are not reduced, so equations hold up to Same. *)

Frac == Int \X (Nat \ {0})

\* Denominators stay positive.
LEMMA TimesTyped == ASSUME NEW m \in Nat \ {0}, NEW n \in Nat \ {0} PROVE m * n \in Nat \ {0}
<1>1. m * n \in Nat
  OBVIOUS
<1>2. m * n >= 1
  OBVIOUS
<1> QED BY <1>1, <1>2

\* Fractions are closed under what is done to them.
LEMMA FracOps ==
    ASSUME NEW a \in Frac, NEW b \in Frac, NEW n \in Int
    PROVE  /\ Plus(a, b) \in Frac /\ Minus(a, b) \in Frac /\ Scale(a, n) \in Frac
           /\ Whole(n) \in Frac /\ (n > 0 => Over(a, n) \in Frac)
<1>1. /\ a = <<a[1], a[2]>> /\ a[1] \in Int /\ a[2] \in Nat \ {0}
      /\ b = <<b[1], b[2]>> /\ b[1] \in Int /\ b[2] \in Nat \ {0}
  BY DEF Frac
<1>2. a[2] * b[2] \in Nat \ {0}
  BY <1>1, TimesTyped
<1>3. /\ a[1] + b[1] \in Int /\ a[1] * b[2] + b[1] * a[2] \in Int /\ a[1] * n \in Int
      /\ -b[1] \in Int /\ a[1] + (-b[1]) \in Int /\ a[1] * b[2] + (-b[1]) * a[2] \in Int
  BY <1>1
<1>4. Plus(a, b) \in Frac
  BY <1>1, <1>2, <1>3 DEF Plus, Frac
<1>5. Minus(a, b) \in Frac
  BY <1>1, <1>2, <1>3 DEF Plus, Minus, Frac
<1>6. Scale(a, n) \in Frac /\ Whole(n) \in Frac
  BY <1>1, <1>3 DEF Scale, Whole, Frac
<1>7. ASSUME n > 0 PROVE Over(a, n) \in Frac
  <2>1. a[2] * n \in Nat \ {0}
    BY <1>1, <1>7, TimesTyped
  <2> QED BY <1>1, <2>1 DEF Over, Frac
<1> QED BY <1>4, <1>5, <1>6, <1>7

\* One cancels a factor that is not zero.
LEMMA Cancel ==
    ASSUME NEW x \in Int, NEW y \in Int, NEW n \in Nat \ {0}, x * n = y * n
    PROVE  x = y
<1>1. (x - y) * n = 0
  OBVIOUS
<1> QED BY <1>1

\* Same is an equivalence.
LEMMA SameTrans ==
    ASSUME NEW a \in Frac, NEW b \in Frac, NEW c \in Frac, Same(a, b), Same(b, c)
    PROVE  Same(a, c)
<1> DEFINE p == a[1] q == a[2] r == b[1] s == b[2] t == c[1] u == c[2]
<1>1. /\ p \in Int /\ r \in Int /\ t \in Int
      /\ q \in Nat \ {0} /\ s \in Nat \ {0} /\ u \in Nat \ {0}
      /\ p * s = r * q /\ r * u = t * s
  BY DEF Frac, Same
<1> HIDE DEF p, q, r, s, t, u
<1>2. (p * u) * s = (t * q) * s
  <2>1. (p * u) * s = (p * s) * u /\ (r * q) * u = (r * u) * q /\ (t * s) * q = (t * q) * s
    BY <1>1
  <2> QED BY <1>1, <2>1
<1>3. p * u \in Int /\ t * q \in Int
  BY <1>1
<1>4. p * u = t * q
  BY <1>1, <1>2, <1>3, Cancel
<1> QED BY <1>4 DEF Same, p, q, t, u

LEMMA SameSym ==
    ASSUME NEW a, NEW b, Same(a, b)
    PROVE  Same(b, a)
BY DEF Same

\* The sum as one writes it.
LEMMA PlusIs ==
    ASSUME NEW a \in Frac, NEW b \in Frac
    PROVE  Plus(a, b)[1] * (a[2] * b[2]) = (a[1] * b[2] + b[1] * a[2]) * Plus(a, b)[2]
<1> DEFINE p == a[1] q == a[2] r == b[1] s == b[2]
<1>1. p \in Int /\ r \in Int /\ q \in Nat \ {0} /\ s \in Nat \ {0}
  BY DEF Frac
<1>2. Plus(a, b) = IF q = s THEN <<p + r, q>> ELSE <<p * s + r * q, q * s>>
  BY DEF Plus
<1> HIDE DEF p, q, r, s
<1>3. CASE q = s
  <2>1. (p + r) * (q * q) = (p * q + r * q) * q
    BY <1>1
  <2> QED BY <1>2, <1>3, <2>1 DEF p, q, r, s
<1>4. CASE q # s
  BY <1>2, <1>4 DEF p, q, r, s
<1> QED BY <1>3, <1>4

\* The sum over the product of the denominators.
Cross(a, b) == <<a[1] * b[2] + b[1] * a[2], a[2] * b[2]>>

LEMMA CrossIsPlus ==
    ASSUME NEW a \in Frac, NEW b \in Frac
    PROVE  Cross(a, b) \in Frac /\ Same(Plus(a, b), Cross(a, b))
<1>1. /\ a[1] \in Int /\ a[2] \in Nat \ {0} /\ b[1] \in Int /\ b[2] \in Nat \ {0}
  BY DEF Frac
<1>2. a[2] * b[2] \in Nat \ {0}
  BY <1>1, TimesTyped
<1>3. a[1] * b[2] + b[1] * a[2] \in Int
  BY <1>1
<1>4. Cross(a, b) \in Frac
  BY <1>2, <1>3 DEF Cross, Frac
<1> QED BY <1>4, PlusIs DEF Cross, Same

\* Plus is commutative, respects Same, and is associative.
LEMMA PlusComm ==
    ASSUME NEW a \in Frac, NEW b \in Frac
    PROVE  Same(Plus(a, b), Plus(b, a))
<1>1. /\ a[1] \in Int /\ a[2] \in Nat \ {0} /\ b[1] \in Int /\ b[2] \in Nat \ {0}
  BY DEF Frac
<1>2. Cross(a, b) = Cross(b, a)
  BY <1>1 DEF Cross
<1>3. Plus(a, b) \in Frac /\ Plus(b, a) \in Frac
  BY FracOps, 0 \in Int
<1> QED BY <1>2, <1>3, CrossIsPlus, SameTrans, SameSym

LEMMA CrossSame ==
    ASSUME NEW a \in Frac, NEW b \in Frac, NEW c \in Frac, Same(a, c)
    PROVE  Same(Cross(a, b), Cross(c, b))
<1> DEFINE p == a[1] q == a[2] r == b[1] s == b[2] t == c[1] u == c[2]
<1>1. /\ p \in Int /\ r \in Int /\ t \in Int /\ q \in Int /\ s \in Int /\ u \in Int
      /\ p * u = t * q
  BY DEF Frac, Same
<1> HIDE DEF p, q, r, s, t, u
<1>2. (p * s + r * q) * (u * s) = (t * s + r * u) * (q * s)
  <2>1. (p * s + r * q) * (u * s) = (p * u) * (s * s) + (r * s) * (q * u)
    BY <1>1
  <2>2. (t * s + r * u) * (q * s) = (t * q) * (s * s) + (r * s) * (q * u)
    BY <1>1
  <2> QED BY <1>1, <2>1, <2>2
<1> QED BY <1>2 DEF Cross, Same, p, q, r, s, t, u

LEMMA PlusSame ==
    ASSUME NEW a \in Frac, NEW b \in Frac, NEW c \in Frac, Same(a, c)
    PROVE  Same(Plus(a, b), Plus(c, b)) /\ Same(Plus(b, a), Plus(b, c))
<1>1. /\ Plus(a, b) \in Frac /\ Plus(c, b) \in Frac /\ Plus(b, a) \in Frac /\ Plus(b, c) \in Frac
      /\ Cross(a, b) \in Frac /\ Cross(c, b) \in Frac
  BY FracOps, CrossIsPlus, 0 \in Int
<1>2. Same(Plus(a, b), Cross(a, b)) /\ Same(Cross(a, b), Cross(c, b)) /\ Same(Cross(c, b), Plus(c, b))
  BY CrossIsPlus, CrossSame, SameSym
<1>3. Same(Plus(a, b), Plus(c, b))
  BY <1>1, <1>2, SameTrans
<1>4. Same(Plus(b, a), Plus(a, b)) /\ Same(Plus(c, b), Plus(b, c))
  BY PlusComm
<1> QED BY <1>1, <1>3, <1>4, SameTrans

LEMMA PlusAssoc ==
    ASSUME NEW a \in Frac, NEW b \in Frac, NEW c \in Frac
    PROVE  Same(Plus(a, Plus(b, c)), Plus(Plus(a, b), c))
<1> DEFINE p == a[1] q == a[2] r == b[1] s == b[2] t == c[1] u == c[2]
<1>1. /\ p \in Int /\ r \in Int /\ t \in Int /\ q \in Int /\ s \in Int /\ u \in Int
  BY DEF Frac
<1> HIDE DEF p, q, r, s, t, u
<1>2. Cross(a, Cross(b, c)) = Cross(Cross(a, b), c)
  <2>1. p * (s * u) + (r * u + t * s) * q = (p * s + r * q) * u + t * (q * s)
    BY <1>1
  <2>2. q * (s * u) = (q * s) * u
    BY <1>1
  <2> QED BY <2>1, <2>2 DEF Cross, p, q, r, s, t, u
<1>3. /\ Plus(a, b) \in Frac /\ Plus(b, c) \in Frac /\ Cross(a, b) \in Frac /\ Cross(b, c) \in Frac
      /\ Plus(a, Plus(b, c)) \in Frac /\ Plus(Plus(a, b), c) \in Frac
      /\ Plus(a, Cross(b, c)) \in Frac /\ Plus(Cross(a, b), c) \in Frac
      /\ Cross(a, Cross(b, c)) \in Frac
  BY FracOps, CrossIsPlus, 0 \in Int
<1>4. /\ Same(Plus(a, Plus(b, c)), Plus(a, Cross(b, c)))
      /\ Same(Plus(a, Cross(b, c)), Cross(a, Cross(b, c)))
      /\ Same(Cross(Cross(a, b), c), Plus(Cross(a, b), c))
      /\ Same(Plus(Cross(a, b), c), Plus(Plus(a, b), c))
  BY <1>3, CrossIsPlus, PlusSame, SameSym
<1> QED BY <1>2, <1>3, <1>4, SameTrans

\* Two that are added to a third can change places.
LEMMA PlusSwap ==
    ASSUME NEW a \in Frac, NEW b \in Frac, NEW c \in Frac
    PROVE  Same(Plus(a, Plus(b, c)), Plus(b, Plus(a, c)))
<1>1. /\ Plus(a, b) \in Frac /\ Plus(b, a) \in Frac /\ Plus(b, c) \in Frac /\ Plus(a, c) \in Frac
  BY FracOps, 0 \in Int
<1>2. /\ Plus(a, Plus(b, c)) \in Frac /\ Plus(Plus(a, b), c) \in Frac
      /\ Plus(Plus(b, a), c) \in Frac /\ Plus(b, Plus(a, c)) \in Frac
  BY <1>1, FracOps, 0 \in Int
<1>3. /\ Same(Plus(a, Plus(b, c)), Plus(Plus(a, b), c))
      /\ Same(Plus(Plus(b, a), c), Plus(b, Plus(a, c)))
  BY PlusAssoc, SameSym
<1>4. Same(Plus(Plus(a, b), c), Plus(Plus(b, a), c))
  BY <1>1, PlusComm, PlusSame
<1> QED BY <1>2, <1>3, <1>4, SameTrans

------------------------------------------------------------------------------
(* Sums *)

Some(s) == CHOOSE x \in s : TRUE

\* A function that gives the sum of each subset.
SumsOf(I, f, S) ==
    I = [s \in SUBSET S |-> IF s = {} THEN Whole(0) ELSE Plus(f[Some(s)], I[s \ {Some(s)}])]

\* Among subsets of a finite set some are smallest.
LEMMA SmallestSubset ==
    ASSUME NEW S, IsFiniteSet(S), NEW B, B \subseteq SUBSET S, B # {}
    PROVE  \E s \in B : \A t \in B : t \subseteq s => t = s
<1> DEFINE Sizes == {Cardinality(s) : s \in B}
<1>1. \A s \in B : IsFiniteSet(s) /\ Cardinality(s) \in Nat
  BY FS_Subset, FS_CardinalityType
<1>2. Sizes \subseteq Nat /\ Sizes # {}
  BY <1>1
<1> HIDE DEF Sizes
<1>3. PICK n \in Sizes : \A m \in Sizes : n <= m
  BY <1>2, LeastElement
<1>4. PICK s \in B : n = Cardinality(s)
  BY DEF Sizes
<1>5. ASSUME NEW t \in B, t \subseteq s PROVE t = s
  <2>1. Cardinality(t) >= Cardinality(s) /\ Cardinality(t) \in Nat /\ Cardinality(s) \in Nat
    BY <1>1, <1>3, <1>4 DEF Sizes
  <2>2. IsFiniteSet(s) /\ t \in SUBSET s
    BY <1>1, <1>5
  <2>3. Cardinality(t) <= Cardinality(s) /\ (Cardinality(s) = Cardinality(t) => s = t)
    BY <2>2, FS_Subset
  <2> QED BY <2>1, <2>3
<1> QED BY <1>5

LEMMA RemoveIsSmaller ==
    ASSUME NEW S, IsFiniteSet(S), NEW x \in S
    PROVE  IsFiniteSet(S \ {x}) /\ Cardinality(S \ {x}) = Cardinality(S) - 1
           /\ Cardinality(S) \in Nat /\ Cardinality(S) >= 1
<1>1. IsFiniteSet(S \ {x}) /\ Cardinality(S \ {x}) = Cardinality(S) - 1
  BY FS_RemoveElement
<1>2. Cardinality(S) \in Nat /\ Cardinality(S \ {x}) \in Nat
  BY <1>1, FS_CardinalityType
<1> QED BY <1>1, <1>2

\* There is such a function: one for small subsets gives one for larger ones.
LEMMA SumsExist ==
    ASSUME NEW f, NEW S, IsFiniteSet(S)
    PROVE  \E I : SumsOf(I, f, S)
<1> DEFINE Small(n) == {s \in SUBSET S : Cardinality(s) <= n}
           Fn(I, n) == I = [s \in Small(n) |-> IF s = {} THEN Whole(0)
                                               ELSE Plus(f[Some(s)], I[s \ {Some(s)}])]
           Bad == {n \in Nat : ~ \E I : Fn(I, n)}
<1>1. \A s \in SUBSET S : IsFiniteSet(s) /\ Cardinality(s) \in Nat
  BY FS_Subset, FS_CardinalityType
<1>2. ASSUME Bad # {} PROVE FALSE
  <2>1. PICK n \in Bad : \A m \in Bad : n <= m
    <3>1. Bad \subseteq Nat
      OBVIOUS
    <3> HIDE DEF Bad
    <3> QED BY <1>2, <3>1, LeastElement
  <2>2. n # 0
    <3>1. \A s \in Small(0) : s = {}
      BY <1>1, FS_EmptySet
    <3>2. Fn([s \in Small(0) |-> Whole(0)], 0)
      BY <3>1
    <3> QED BY <3>2
  <2>3. n - 1 \in Nat /\ n \in Nat /\ n - 1 \notin Bad
    <3>1. n \in Nat
      BY <2>1
    <3> HIDE DEF Bad
    <3> QED BY <2>1, <2>2, <3>1
  <2>4. PICK I : Fn(I, n - 1)
    BY <2>3
  <2> DEFINE J == [s \in Small(n) |-> IF s = {} THEN Whole(0)
                                      ELSE Plus(f[Some(s)], I[s \ {Some(s)}])]
  <2>5. \A s \in Small(n) : s # {} => Some(s) \in s /\ s \ {Some(s)} \in Small(n - 1)
                                      /\ s \ {Some(s)} \in Small(n)
    <3> SUFFICES ASSUME NEW s \in Small(n), s # {}
                 PROVE  /\ Some(s) \in s /\ s \ {Some(s)} \in Small(n - 1)
                        /\ s \ {Some(s)} \in Small(n)
      OBVIOUS
    <3>1. Some(s) \in s
      BY DEF Some
    <3>2. Cardinality(s \ {Some(s)}) = Cardinality(s) - 1
      BY <1>1, <3>1, RemoveIsSmaller
    <3> QED BY <1>1, <2>3, <3>1, <3>2
  <2>6. \A s \in Small(n - 1) : J[s] = I[s]
    <3>1. Small(n - 1) \subseteq Small(n)
      BY <1>1, <2>3
    <3> QED BY <2>4, <3>1
  <2>7. Fn(J, n)
    BY <2>5, <2>6
  <2> QED BY <2>1, <2>7
<1>3. Cardinality(S) \in Nat
  BY FS_CardinalityType
<1>4. PICK I : Fn(I, Cardinality(S))
  BY <1>2, <1>3
<1>5. Small(Cardinality(S)) = SUBSET S
  BY FS_Subset
<1>6. SumsOf(I, f, S)
  BY <1>4, <1>5 DEF SumsOf
<1> QED BY <1>6

\* SumOver reads it at S.
LEMMA SumReads ==
    ASSUME NEW f, NEW S, IsFiniteSet(S)
    PROVE  \E I : SumsOf(I, f, S) /\ SumOver(f, S) = I[S]
<1>1. PICK I : SumsOf(I, f, S)
  BY SumsExist
<1> DEFINE J == CHOOSE iter : iter = [s \in SUBSET S |-> IF s = {} THEN Whole(0)
                    ELSE LET x == CHOOSE x \in s : TRUE IN Plus(f[x], iter[s \ {x}])]
<1>2. SumOver(f, S) = J[S]
  BY DEF SumOver, FoldFunctionOnSet, MapThenFoldSet
<1>3. SumsOf(J, f, S)
  BY <1>1 DEF SumsOf, Some
<1> QED BY <1>2, <1>3

\* It does not matter what is elsewhere.
LEMMA SumsAgree ==
    ASSUME NEW f, NEW g, NEW S, IsFiniteSet(S), NEW T, T \subseteq S, \A x \in T : f[x] = g[x],
           NEW I, SumsOf(I, f, S), NEW J, SumsOf(J, g, T)
    PROVE  I[T] = J[T]
<1> DEFINE B == {s \in SUBSET T : I[s] # J[s]}
<1>1. ASSUME B # {} PROVE FALSE
  <2>1. IsFiniteSet(T)
    BY FS_Subset
  <2>2. PICK s \in B : \A t \in B : t \subseteq s => t = s
    <3>1. B \subseteq SUBSET T
      OBVIOUS
    <3> HIDE DEF B
    <3> QED BY <1>1, <2>1, <3>1, SmallestSubset
  <2>3. s # {}
    BY <2>2 DEF SumsOf
  <2>4. Some(s) \in s
    BY <2>3 DEF Some
  <2>5. s \ {Some(s)} \notin B
    BY <2>2, <2>4
  <2>6. /\ I[s] = Plus(f[Some(s)], I[s \ {Some(s)}])
        /\ J[s] = Plus(g[Some(s)], J[s \ {Some(s)}])
    BY <2>2, <2>3 DEF SumsOf
  <2> QED BY <2>2, <2>4, <2>5, <2>6
<1> QED BY <1>1

\* One element and the rest.
LEMMA SumUnfolds ==
    ASSUME NEW f, NEW S, IsFiniteSet(S)
    PROVE  SumOver(f, S) = IF S = {} THEN Whole(0)
                           ELSE Plus(f[Some(S)], SumOver(f, S \ {Some(S)}))
<1> DEFINE T == S \ {Some(S)}
<1>1. IsFiniteSet(T) /\ T \subseteq S
  BY FS_Subset
<1>2. PICK I : SumsOf(I, f, S) /\ SumOver(f, S) = I[S]
  BY SumReads
<1>3. PICK J : SumsOf(J, f, T) /\ SumOver(f, T) = J[T]
  BY <1>1, SumReads
<1>4. I[T] = J[T]
  <2> HIDE DEF T
  <2>1. \A x \in T : f[x] = f[x]
    OBVIOUS
  <2> QED BY <1>1, <1>2, <1>3, <2>1, SumsAgree
<1>5. I[S] = IF S = {} THEN Whole(0) ELSE Plus(f[Some(S)], I[T])
  <2>1. S \in SUBSET S
    OBVIOUS
  <2> QED BY <1>2, <2>1 DEF SumsOf
<1> QED BY <1>2, <1>3, <1>4, <1>5

\* Only the values on S matter.
LEMMA SumAgrees ==
    ASSUME NEW f, NEW g, NEW S, IsFiniteSet(S), \A x \in S : f[x] = g[x]
    PROVE  SumOver(f, S) = SumOver(g, S)
<1>1. PICK I : SumsOf(I, f, S) /\ SumOver(f, S) = I[S]
  BY SumReads
<1>2. PICK J : SumsOf(J, g, S) /\ SumOver(g, S) = J[S]
  BY SumReads
<1> QED BY <1>1, <1>2, SumsAgree

\* A sum of fractions is one.
LEMMA SumTyped ==
    ASSUME NEW f, NEW S, IsFiniteSet(S), \A x \in S : f[x] \in Frac
    PROVE  SumOver(f, S) \in Frac
<1> DEFINE B == {s \in SUBSET S : SumOver(f, s) \notin Frac}
<1>1. ASSUME B # {} PROVE FALSE
  <2>1. PICK s \in B : \A t \in B : t \subseteq s => t = s
    <3>1. B \subseteq SUBSET S
      OBVIOUS
    <3> HIDE DEF B
    <3> QED BY <1>1, <3>1, SmallestSubset
  <2>2. IsFiniteSet(s)
    BY <2>1, FS_Subset
  <2>3. s # {}
    BY <2>1, <2>2, SumUnfolds, FracOps, 0 \in Int, <<0, 1>> \in Frac DEF Whole, Frac
  <2>4. Some(s) \in s
    BY <2>3 DEF Some
  <2>5. SumOver(f, s \ {Some(s)}) \in Frac /\ f[Some(s)] \in Frac
    BY <2>1, <2>4
  <2>6. Plus(f[Some(s)], SumOver(f, s \ {Some(s)})) \in Frac
    BY <2>5, FracOps, 0 \in Int
  <2> QED BY <2>1, <2>2, <2>3, <2>6, SumUnfolds
<1> QED BY <1>1

\* Any element can be taken out first.
LEMMA SumTakes ==
    ASSUME NEW f, NEW S, IsFiniteSet(S), \A x \in S : f[x] \in Frac, NEW c \in S
    PROVE  Same(SumOver(f, S), Plus(f[c], SumOver(f, S \ {c})))
<1> DEFINE Fails(s, x) == ~ Same(SumOver(f, s), Plus(f[x], SumOver(f, s \ {x})))
           B == {s \in SUBSET S : \E x \in s : Fails(s, x)}
<1>1. ASSUME B # {} PROVE FALSE
  <2>1. PICK s \in B : \A t \in B : t \subseteq s => t = s
    <3>1. B \subseteq SUBSET S
      OBVIOUS
    <3> HIDE DEF B
    <3> QED BY <1>1, <3>1, SmallestSubset
  <2>2. PICK x \in s : Fails(s, x)
    BY <2>1
  <2> DEFINE y == Some(s)
             rest == (s \ {x}) \ {y}
  <2>3. y \in s
    BY <2>2 DEF Some
  <2>4. IsFiniteSet(s) /\ s \subseteq S /\ s # {}
    BY <2>1, <2>2, FS_Subset
  <2>5. SumOver(f, s) = Plus(f[y], SumOver(f, s \ {y}))
    BY <2>4, SumUnfolds
  <2>6. /\ f[x] \in Frac /\ f[y] \in Frac /\ SumOver(f, s) \in Frac
        /\ SumOver(f, s \ {x}) \in Frac /\ SumOver(f, s \ {y}) \in Frac
        /\ SumOver(f, rest) \in Frac
    <3>1. \A t \in SUBSET S : IsFiniteSet(t)
      BY FS_Subset
    <3>2. \A t \in SUBSET S : SumOver(f, t) \in Frac
      BY <3>1, SumTyped
    <3> QED BY <2>2, <2>3, <2>4, <3>2
  <2> HIDE DEF y
  <2>7. CASE x = y
    <3>1. Plus(f[x], SumOver(f, s \ {x})) \in Frac
      BY <2>6, FracOps, 0 \in Int
    <3> QED BY <2>2, <2>5, <2>7 DEF Same
  <2>8. CASE x # y
    <3>1. s \ {x} \notin B /\ s \ {y} \notin B
      BY <2>1, <2>2, <2>3
    <3>2. y \in s \ {x} /\ x \in s \ {y} /\ (s \ {y}) \ {x} = rest
      BY <2>2, <2>3, <2>8
    <3>3. Same(SumOver(f, s \ {x}), Plus(f[y], SumOver(f, rest)))
      BY <2>4, <3>1, <3>2
    <3>4. Same(SumOver(f, s \ {y}), Plus(f[x], SumOver(f, rest)))
      BY <2>4, <3>1, <3>2
    <3> HIDE DEF rest, B
    <3>5. /\ Plus(f[x], SumOver(f, rest)) \in Frac /\ Plus(f[y], SumOver(f, rest)) \in Frac
          /\ Plus(f[x], SumOver(f, s \ {x})) \in Frac
      BY <2>6, FracOps, 0 \in Int
    <3>6. /\ Plus(f[y], Plus(f[x], SumOver(f, rest))) \in Frac
          /\ Plus(f[x], Plus(f[y], SumOver(f, rest))) \in Frac
      BY <2>6, <3>5, FracOps, 0 \in Int
    <3>7. Same(SumOver(f, s), Plus(f[y], Plus(f[x], SumOver(f, rest))))
      BY <2>5, <2>6, <3>4, <3>5, PlusSame
    <3>8. Same(Plus(f[y], Plus(f[x], SumOver(f, rest))), Plus(f[x], Plus(f[y], SumOver(f, rest))))
      BY <2>6, PlusSwap
    <3>9. Same(Plus(f[x], Plus(f[y], SumOver(f, rest))), Plus(f[x], SumOver(f, s \ {x})))
      BY <2>6, <3>3, <3>5, PlusSame, SameSym
    <3>10. Same(SumOver(f, s), Plus(f[x], SumOver(f, s \ {x})))
      BY <2>6, <3>5, <3>6, <3>7, <3>8, <3>9, SameTrans
    <3> QED BY <2>2, <3>10
  <2> QED BY <2>7, <2>8
<1> QED BY <1>1

LEMMA SameSelf == ASSUME NEW a \in Frac PROVE Same(a, a)
BY DEF Same

\* Adding nothing.
LEMMA PlusNothing ==
    ASSUME NEW a \in Frac, NEW b \in Frac, a[1] = 0
    PROVE  Same(Plus(a, b), b)
<1>1. /\ a[2] \in Nat \ {0} /\ b[1] \in Int /\ b[2] \in Nat \ {0}
  BY DEF Frac
<1>2. Plus(a, b) \in Frac /\ Cross(a, b) \in Frac
  BY FracOps, CrossIsPlus, 0 \in Int
<1>3. Same(Cross(a, b), b)
  <2> DEFINE q == a[2] r == b[1] s == b[2]
  <2>1. q \in Int /\ r \in Int /\ s \in Int
    BY <1>1
  <2> HIDE DEF q, r, s
  <2>2. (0 * s + r * q) * s = r * (q * s)
    BY <2>1
  <2> QED BY <2>2 DEF Same, Cross, q, r, s
<1> QED BY <1>2, <1>3, CrossIsPlus, SameTrans

\* A change of one value is a change of the sum.
LEMMA SumShifts ==
    ASSUME NEW f, NEW g, NEW S, IsFiniteSet(S), \A x \in S : f[x] \in Frac /\ g[x] \in Frac,
           NEW c \in S, \A x \in S : x # c => g[x] = f[x],
           NEW d \in Frac, Same(g[c], Plus(f[c], d))
    PROVE  Same(SumOver(g, S), Plus(SumOver(f, S), d))
<1> DEFINE R == SumOver(f, S \ {c})
<1>1. IsFiniteSet(S \ {c}) /\ \A x \in S \ {c} : g[x] = f[x]
  BY FS_Subset
<1>2. SumOver(g, S \ {c}) = R
  BY <1>1, SumAgrees
<1>3. R \in Frac /\ SumOver(f, S) \in Frac /\ SumOver(g, S) \in Frac
  BY <1>1, SumTyped
<1>4. Same(SumOver(g, S), Plus(g[c], R)) /\ Same(SumOver(f, S), Plus(f[c], R))
  BY <1>2, SumTakes
<1> DEFINE F == SumOver(f, S)
           G == SumOver(g, S)
           fc == f[c]
           gc == g[c]
<1>5. fc \in Frac /\ gc \in Frac /\ F \in Frac /\ G \in Frac /\ R \in Frac
      /\ Same(G, Plus(gc, R)) /\ Same(F, Plus(fc, R)) /\ Same(gc, Plus(fc, d))
  BY <1>3, <1>4
<1> HIDE DEF F, G, R, fc, gc
<1>6. /\ Plus(gc, R) \in Frac /\ Plus(fc, R) \in Frac /\ Plus(fc, d) \in Frac /\ Plus(d, fc) \in Frac
      /\ Plus(d, F) \in Frac /\ Plus(F, d) \in Frac
  BY <1>5, FracOps, 0 \in Int
<1>7. /\ Plus(Plus(fc, d), R) \in Frac /\ Plus(Plus(d, fc), R) \in Frac /\ Plus(d, Plus(fc, R)) \in Frac
  BY <1>5, <1>6, FracOps, 0 \in Int
<1>8. Same(G, Plus(Plus(fc, d), R))
  BY <1>5, <1>6, <1>7, PlusSame, SameTrans
<1>9. Same(Plus(Plus(fc, d), R), Plus(Plus(d, fc), R))
  BY <1>5, <1>6, PlusComm, PlusSame
<1>10. Same(Plus(Plus(d, fc), R), Plus(d, Plus(fc, R)))
  BY <1>5, PlusAssoc, SameSym
<1>11. Same(Plus(d, Plus(fc, R)), Plus(d, F))
  BY <1>5, <1>6, PlusSame, SameSym
<1>12. Same(Plus(d, F), Plus(F, d))
  BY <1>5, PlusComm
<1>13. Same(G, Plus(d, Plus(fc, R)))
  BY <1>5, <1>7, <1>8, <1>9, <1>10, SameTrans
<1>14. Same(G, Plus(F, d))
  BY <1>5, <1>6, <1>7, <1>11, <1>12, <1>13, SameTrans
<1> QED BY <1>14 DEF F, G

\* What is nothing need not be summed.
LEMMA SumDrops ==
    ASSUME NEW f, NEW S, IsFiniteSet(S), \A x \in S : f[x] \in Frac,
           NEW T, T \subseteq S, \A x \in S : x \notin T => f[x][1] = 0
    PROVE  Same(SumOver(f, S), SumOver(f, T))
<1> DEFINE B == {s \in SUBSET S : ~ Same(SumOver(f, s), SumOver(f, s \cap T))}
<1>1. ASSUME B # {} PROVE FALSE
  <2>1. PICK s \in B : \A t \in B : t \subseteq s => t = s
    <3>1. B \subseteq SUBSET S
      OBVIOUS
    <3> HIDE DEF B
    <3> QED BY <1>1, <3>1, SmallestSubset
  <2>2. \A t \in SUBSET S : IsFiniteSet(t) /\ SumOver(f, t) \in Frac
    <3>1. \A t \in SUBSET S : IsFiniteSet(t)
      BY FS_Subset
    <3> QED BY <3>1, SumTyped
  <2>3. PICK x \in s : x \notin T
    <3>1. CASE s \subseteq T
      <4>1. s \cap T = s
        BY <3>1
      <4> QED BY <2>1, <2>2, <4>1, SameSelf
    <3> QED BY <3>1
  <2>4. s \ {x} \notin B /\ (s \ {x}) \cap T = s \cap T /\ s \subseteq S
    BY <2>1, <2>3
  <2>5. Same(SumOver(f, s \ {x}), SumOver(f, s \cap T))
    BY <2>4
  <2>6. Same(SumOver(f, s), Plus(f[x], SumOver(f, s \ {x})))
    BY <2>2, <2>4, SumTakes
  <2>7. /\ f[x] \in Frac /\ f[x][1] = 0 /\ SumOver(f, s \ {x}) \in Frac
        /\ SumOver(f, s) \in Frac /\ SumOver(f, s \cap T) \in Frac
    BY <2>2, <2>3, <2>4
  <2>8. Same(Plus(f[x], SumOver(f, s \ {x})), SumOver(f, s \ {x}))
        /\ Plus(f[x], SumOver(f, s \ {x})) \in Frac
    BY <2>7, PlusNothing, FracOps, 0 \in Int
  <2>9. Same(SumOver(f, s), SumOver(f, s \cap T))
    BY <2>5, <2>6, <2>7, <2>8, SameTrans
  <2> QED BY <2>1, <2>9
<1>2. S \cap T = T /\ S \notin B
  BY <1>1
<1> QED BY <1>2

\* Sums of whole numbers are those of the fractions that they are.
LEMMA WholeSums ==
    ASSUME NEW f, NEW S, IsFiniteSet(S), \A x \in S : f[x] \in Int,
           NEW g, \A x \in S : g[x] = Whole(f[x])
    PROVE  SumFunctionOnSet(f, S) \in Int /\ SumOver(g, S) = Whole(SumFunctionOnSet(f, S))
<1> DEFINE Sums(K) == K = [s \in SUBSET S |-> IF s = {} THEN 0 ELSE f[Some(s)] + K[s \ {Some(s)}]]
           J == [s \in SUBSET S |-> SumOver(g, s)[1]]
           K == CHOOSE iter : iter = [s \in SUBSET S |-> IF s = {} THEN 0
                     ELSE LET x == CHOOSE x \in s : TRUE IN f[x] + iter[s \ {x}]]
           B == {s \in SUBSET S : ~ (K[s] \in Int /\ SumOver(g, s) = Whole(K[s]))}
           C == {s \in SUBSET S : ~ (SumOver(g, s)[1] \in Int /\ SumOver(g, s)[2] = 1)}
<1>1. \A s \in SUBSET S : IsFiniteSet(s) /\ (s # {} => Some(s) \in s)
  BY FS_Subset DEF Some
<1>2. \A s \in SUBSET S :
         SumOver(g, s) = IF s = {} THEN <<0, 1>>
                         ELSE Plus(<<f[Some(s)], 1>>, SumOver(g, s \ {Some(s)}))
  BY <1>1, SumUnfolds DEF Whole
<1>3. SumOver(g, {}) = <<0, 1>> /\ <<0, 1>>[1] = 0 /\ <<0, 1>>[2] = 1
  BY <1>2, {} \in SUBSET S
<1>4. ASSUME C # {} PROVE FALSE
  <2>1. PICK s \in C : \A t \in C : t \subseteq s => t = s
    <3>1. C \subseteq SUBSET S
      OBVIOUS
    <3> HIDE DEF C
    <3> QED BY <1>4, <3>1, SmallestSubset
  <2>2. s # {}
    <3>1. {} \notin C
      BY <1>3
    <3> HIDE DEF C
    <3> QED BY <2>1, <3>1, Zenon
  <2>3. Some(s) \in s /\ s \ {Some(s)} \notin C /\ s \ {Some(s)} \in SUBSET S
    BY <1>1, <2>1, <2>2
  <2>4. SumOver(g, s) = <<f[Some(s)] + SumOver(g, s \ {Some(s)})[1], 1>>
    BY <1>2, <2>1, <2>2, <2>3 DEF Plus
  <2> QED BY <2>1, <2>3, <2>4
<1>5. \A s \in SUBSET S : s # {} =>
         SumOver(g, s) = <<f[Some(s)] + SumOver(g, s \ {Some(s)})[1], 1>>
  BY <1>1, <1>2, <1>4 DEF Plus
<1>6. Sums(J)
  <2>1. \A s \in SUBSET S : J[s] = IF s = {} THEN 0 ELSE f[Some(s)] + J[s \ {Some(s)}]
    <3> SUFFICES ASSUME NEW s \in SUBSET S
                 PROVE  J[s] = IF s = {} THEN 0 ELSE f[Some(s)] + J[s \ {Some(s)}]
      OBVIOUS
    <3>1. CASE s = {}
      BY <1>3, <3>1
    <3>2. CASE s # {}
      <4>1. s \ {Some(s)} \in SUBSET S
        OBVIOUS
      <4>2. SumOver(g, s) = <<f[Some(s)] + SumOver(g, s \ {Some(s)})[1], 1>>
        BY <1>5, <3>2
      <4> QED BY <3>2, <4>1, <4>2
    <3> QED BY <3>1, <3>2
  <2> QED BY <2>1
<1>7. SumFunctionOnSet(f, S) = K[S]
  BY DEF SumFunctionOnSet, FoldFunctionOnSet, MapThenFoldSet
<1>8. Sums(K)
  BY <1>6 DEF Some
<1> HIDE DEF J, K
<1>9. ASSUME B # {} PROVE FALSE
  <2>1. PICK s \in B : \A t \in B : t \subseteq s => t = s
    <3>1. B \subseteq SUBSET S
      OBVIOUS
    <3> HIDE DEF B
    <3> QED BY <1>9, <3>1, SmallestSubset
  <2>2. s # {}
    <3>1. K[{}] = 0
      BY <1>8
    <3>2. {} \notin B
      BY <1>3, <3>1 DEF Whole
    <3> HIDE DEF B
    <3> QED BY <2>1, <3>2, Zenon
  <2>3. Some(s) \in s /\ s \ {Some(s)} \notin B /\ s \ {Some(s)} \in SUBSET S
    BY <1>1, <2>1, <2>2
  <2>4. K[s] = f[Some(s)] + K[s \ {Some(s)}]
    BY <1>8, <2>1, <2>2
  <2> QED BY <1>5, <2>1, <2>2, <2>3, <2>4 DEF Whole
<1> QED BY <1>7, <1>9

\* A difference is a sum with the opposite.
Opposite(a) == <<-a[1], a[2]>>

LEMMA MinusIs ==
    ASSUME NEW a \in Frac, NEW b \in Frac
    PROVE  /\ Opposite(b) \in Frac /\ Minus(a, b) = Plus(a, Opposite(b))
           /\ Plus(b, Opposite(b)) \in Frac /\ Plus(b, Opposite(b))[1] = 0
<1>1. b[1] \in Int /\ b[2] \in Nat \ {0} /\ -b[1] \in Int
  BY DEF Frac
<1>2. Opposite(b) \in Frac
  BY <1>1 DEF Frac, Opposite
<1>3. Plus(b, Opposite(b)) = <<b[1] + (-b[1]), b[2]>>
  BY DEF Plus, Opposite
<1>4. b[1] + (-b[1]) = 0
  BY <1>1
<1>5. Plus(b, Opposite(b)) \in Frac
  BY <1>2, FracOps, 0 \in Int
<1> QED BY <1>2, <1>3, <1>4, <1>5 DEF Minus, Opposite

LEMMA WholePlus ==
    ASSUME NEW m \in Int, NEW n \in Int
    PROVE  /\ Plus(Whole(m), Whole(n)) = Whole(m + n) /\ Whole(m) \in Frac
           /\ Minus(Whole(m), Whole(n)) = Whole(m - n)
<1>1. m + (-n) = m - n
  OBVIOUS
<1> QED BY <1>1 DEF Plus, Minus, Whole, Frac

\* Four that are added can be paired either way.
LEMMA PlusPairs ==
    ASSUME NEW a \in Frac, NEW b \in Frac, NEW c \in Frac, NEW d \in Frac
    PROVE  Same(Plus(Plus(a, b), Plus(c, d)), Plus(Plus(a, c), Plus(b, d)))
<1>1. /\ Plus(a, b) \in Frac /\ Plus(c, d) \in Frac /\ Plus(a, c) \in Frac /\ Plus(b, d) \in Frac
  BY FracOps, 0 \in Int
<1>2. /\ Plus(b, Plus(c, d)) \in Frac /\ Plus(c, Plus(b, d)) \in Frac
      /\ Plus(Plus(a, b), Plus(c, d)) \in Frac /\ Plus(Plus(a, c), Plus(b, d)) \in Frac
  BY <1>1, FracOps, 0 \in Int
<1>3. /\ Plus(a, Plus(b, Plus(c, d))) \in Frac /\ Plus(a, Plus(c, Plus(b, d))) \in Frac
  BY <1>2, FracOps, 0 \in Int
<1>4. Same(Plus(Plus(a, b), Plus(c, d)), Plus(a, Plus(b, Plus(c, d))))
  BY <1>1, PlusAssoc, SameSym
<1>5. Same(Plus(a, Plus(b, Plus(c, d))), Plus(a, Plus(c, Plus(b, d))))
  BY <1>2, PlusSwap, PlusSame
<1>6. Same(Plus(a, Plus(c, Plus(b, d))), Plus(Plus(a, c), Plus(b, d)))
  BY <1>1, PlusAssoc
<1>7. Same(Plus(Plus(a, b), Plus(c, d)), Plus(a, Plus(c, Plus(b, d))))
  BY <1>2, <1>3, <1>4, <1>5, SameTrans
<1> QED BY <1>2, <1>3, <1>6, <1>7, SameTrans

\* A sum can be taken along a one-to-one map.
ImageOf(m, S) == {m[x] : x \in S}

LEMMA ImageIsAsLarge ==
    ASSUME NEW S, IsFiniteSet(S), NEW m, \A x, y \in S : m[x] = m[y] => x = y
    PROVE  IsFiniteSet(ImageOf(m, S)) /\ Cardinality(ImageOf(m, S)) = Cardinality(S)
<1> DEFINE F == [x \in S |-> m[x]]
<1>1. F \in Bijection(S, ImageOf(m, S))
  BY DEF ImageOf, Bijection, Injection, Surjection, IsInjective
<1> HIDE DEF F
<1>2. ExistsBijection(S, ImageOf(m, S))
  BY <1>1 DEF ExistsBijection
<1> QED BY <1>2, FS_Bijection

LEMMA SumAlong ==
    ASSUME NEW f, NEW S, IsFiniteSet(S), \A x \in S : f[x] \in Frac,
           NEW m, \A x, y \in S : m[x] = m[y] => x = y,
           NEW g, \A x \in S : g[m[x]] = f[x]
    PROVE  Same(SumOver(f, S), SumOver(g, ImageOf(m, S)))
<1> DEFINE B == {s \in SUBSET S : ~ Same(SumOver(f, s), SumOver(g, ImageOf(m, s)))}
<1>0. \A s \in SUBSET S : IsFiniteSet(s) /\ IsFiniteSet(ImageOf(m, s))
  BY FS_Subset, ImageIsAsLarge
<1>1. ASSUME B # {} PROVE FALSE
  <2>1. PICK s \in B : \A t \in B : t \subseteq s => t = s
    <3>1. B \subseteq SUBSET S
      OBVIOUS
    <3> HIDE DEF B
    <3> QED BY <1>1, <3>1, SmallestSubset
  <2>2. s # {}
    <3>1. SumOver(f, {}) = Whole(0) /\ SumOver(g, {}) = Whole(0) /\ ImageOf(m, {}) = {}
      BY <1>0, SumUnfolds DEF ImageOf
    <3>2. {} \notin B
      BY <3>1 DEF Same
    <3> HIDE DEF B
    <3> QED BY <2>1, <3>2, Zenon
  <2>3. PICK x \in s : TRUE
    BY <2>2
  <2> DEFINE r == s \ {x}
             z == m[x]
  <2>4. r \in SUBSET S /\ r \notin B /\ x \in S /\ s \in SUBSET S
    BY <2>1, <2>3
  <2>5. z \in ImageOf(m, s) /\ ImageOf(m, s) \ {z} = ImageOf(m, r)
    BY <2>3, <2>4 DEF ImageOf
  <2>6. Same(SumOver(f, r), SumOver(g, ImageOf(m, r)))
    BY <2>4
  <2>7. \A y \in ImageOf(m, s) : g[y] \in Frac
    BY <2>4 DEF ImageOf
  <2>8. Same(SumOver(f, s), Plus(f[x], SumOver(f, r)))
    BY <1>0, <2>3, <2>4, SumTakes
  <2>9. Same(SumOver(g, ImageOf(m, s)), Plus(f[x], SumOver(g, ImageOf(m, r))))
    <3>1. g[z] = f[x] /\ IsFiniteSet(ImageOf(m, s))
      BY <1>0, <2>4
    <3> HIDE DEF z, r
    <3> QED BY <2>5, <2>7, <3>1, SumTakes
  <2>10. /\ SumOver(f, s) \in Frac /\ SumOver(f, r) \in Frac /\ f[x] \in Frac
         /\ SumOver(g, ImageOf(m, s)) \in Frac /\ SumOver(g, ImageOf(m, r)) \in Frac
    <3>1. \A y \in ImageOf(m, r) : g[y] \in Frac
      BY <2>7 DEF ImageOf
    <3> HIDE DEF r
    <3> QED BY <1>0, <2>4, <2>7, <3>1, SumTyped
  <2> DEFINE p == SumOver(f, s)
             q == SumOver(f, r)
             v == f[x]
             P == SumOver(g, ImageOf(m, s))
             Q == SumOver(g, ImageOf(m, r))
  <2> HIDE DEF B, p, q, P, Q, v, r, z
  <2>11. p \in Frac /\ q \in Frac /\ v \in Frac /\ P \in Frac /\ Q \in Frac
         /\ Same(p, Plus(v, q)) /\ Same(P, Plus(v, Q)) /\ Same(q, Q)
    BY <2>6, <2>8, <2>9, <2>10 DEF p, q, P, Q, v
  <2>12. Plus(v, q) \in Frac /\ Plus(v, Q) \in Frac /\ Same(Plus(v, q), Plus(v, Q))
    BY <2>11, PlusSame, FracOps, 0 \in Int
  <2>13. Same(p, P)
    BY <2>11, <2>12, SameTrans, SameSym
  <2> QED BY <2>1, <2>13 DEF p, P, B
<1> QED BY <1>0, <1>1

\* The sum of what is added is what is added to the sums.
LEMMA SumPlus ==
    ASSUME NEW f, NEW g, NEW h, NEW S, IsFiniteSet(S),
           \A x \in S : f[x] \in Frac /\ g[x] \in Frac /\ h[x] = Plus(f[x], g[x])
    PROVE  Same(SumOver(h, S), Plus(SumOver(f, S), SumOver(g, S)))
<1> DEFINE B == {s \in SUBSET S : ~ Same(SumOver(h, s), Plus(SumOver(f, s), SumOver(g, s)))}
<1>0. \A s \in SUBSET S : /\ IsFiniteSet(s) /\ SumOver(f, s) \in Frac
                          /\ SumOver(g, s) \in Frac /\ SumOver(h, s) \in Frac
  <2>1. \A s \in SUBSET S : IsFiniteSet(s)
    BY FS_Subset
  <2>2. \A x \in S : h[x] \in Frac
    BY FracOps, 0 \in Int
  <2> QED BY <2>1, <2>2, SumTyped
<1>1. ASSUME B # {} PROVE FALSE
  <2>1. PICK s \in B : \A t \in B : t \subseteq s => t = s
    <3>1. B \subseteq SUBSET S
      OBVIOUS
    <3> HIDE DEF B
    <3> QED BY <1>1, <3>1, SmallestSubset
  <2>2. s # {}
    <3>1. SumOver(f, {}) = Whole(0) /\ SumOver(g, {}) = Whole(0) /\ SumOver(h, {}) = Whole(0)
      BY <1>0, SumUnfolds
    <3>2. {} \notin B
      BY <3>1 DEF Same, Plus, Whole
    <3> HIDE DEF B
    <3> QED BY <2>1, <3>2, Zenon
  <2>3. PICK x \in s : TRUE
    BY <2>2
  <2> DEFINE r == s \ {x}
  <2>4. r \in SUBSET S /\ r \notin B /\ x \in S /\ s \in SUBSET S
    BY <2>1, <2>3
  <2>5. Same(SumOver(h, r), Plus(SumOver(f, r), SumOver(g, r)))
    BY <2>4
  <2>6. /\ Same(SumOver(f, s), Plus(f[x], SumOver(f, r)))
        /\ Same(SumOver(g, s), Plus(g[x], SumOver(g, r)))
        /\ Same(SumOver(h, s), Plus(h[x], SumOver(h, r)))
    <3>1. \A y \in s : h[y] \in Frac /\ f[y] \in Frac /\ g[y] \in Frac
      BY <2>4, FracOps, 0 \in Int
    <3> QED BY <1>0, <2>3, <2>4, <3>1, SumTakes
  <2> DEFINE F == SumOver(f, s)
             G == SumOver(g, s)
             H == SumOver(h, s)
             p == SumOver(f, r)
             q == SumOver(g, r)
             o == SumOver(h, r)
             a == f[x]
             b == g[x]
  <2>7. /\ F \in Frac /\ G \in Frac /\ H \in Frac /\ p \in Frac /\ q \in Frac /\ o \in Frac
        /\ a \in Frac /\ b \in Frac /\ h[x] = Plus(a, b)
    BY <1>0, <2>4
  <2> HIDE DEF B, F, G, H, p, q, o, a, b, r
  <2>8. /\ Same(o, Plus(p, q)) /\ Same(F, Plus(a, p)) /\ Same(G, Plus(b, q))
        /\ Same(H, Plus(Plus(a, b), o))
    BY <2>5, <2>6, <2>7 DEF F, G, H, p, q, o, a, b
  <2>9. Same(H, Plus(F, G))
    <3>1. /\ Plus(a, b) \in Frac /\ Plus(p, q) \in Frac /\ Plus(a, p) \in Frac /\ Plus(b, q) \in Frac
          /\ Plus(F, G) \in Frac
      BY <2>7, FracOps, 0 \in Int
    <3>2. /\ Plus(Plus(a, b), o) \in Frac /\ Plus(Plus(a, b), Plus(p, q)) \in Frac
          /\ Plus(Plus(a, p), Plus(b, q)) \in Frac /\ Plus(F, Plus(b, q)) \in Frac
      BY <2>7, <3>1, FracOps, 0 \in Int
    <3>3. Same(Plus(Plus(a, b), o), Plus(Plus(a, b), Plus(p, q)))
      BY <2>7, <2>8, <3>1, PlusSame
    <3>4. Same(Plus(Plus(a, b), Plus(p, q)), Plus(Plus(a, p), Plus(b, q)))
      BY <2>7, PlusPairs
    <3>5. Same(Plus(Plus(a, p), Plus(b, q)), Plus(F, Plus(b, q)))
      BY <2>7, <2>8, <3>1, PlusSame, SameSym
    <3>6. Same(Plus(F, Plus(b, q)), Plus(F, G))
      BY <2>7, <2>8, <3>1, PlusSame, SameSym
    <3>7. Same(H, Plus(Plus(a, b), Plus(p, q)))
      BY <2>7, <2>8, <3>2, <3>3, SameTrans
    <3>8. Same(H, Plus(Plus(a, p), Plus(b, q)))
      BY <2>7, <3>2, <3>4, <3>7, SameTrans
    <3>9. Same(H, Plus(F, Plus(b, q)))
      BY <2>7, <3>2, <3>5, <3>8, SameTrans
    <3> QED BY <2>7, <3>1, <3>2, <3>6, <3>9, SameTrans
  <2> QED BY <2>1, <2>9 DEF F, G, H, B
<1> QED BY <1>0, <1>1

\* A sum of one and the same is so many times it.
LEMMA SumOfSame ==
    ASSUME NEW a \in Frac, NEW f, NEW S, IsFiniteSet(S), \A x \in S : f[x] = a
    PROVE  Same(SumOver(f, S), Scale(a, Cardinality(S))) /\ Scale(a, Cardinality(S)) \in Frac
<1> DEFINE B == {s \in SUBSET S : ~ Same(SumOver(f, s), Scale(a, Cardinality(s)))}
<1>0. \A s \in SUBSET S : /\ IsFiniteSet(s) /\ SumOver(f, s) \in Frac
                          /\ Cardinality(s) \in Nat /\ Scale(a, Cardinality(s)) \in Frac
  <2>1. \A s \in SUBSET S : IsFiniteSet(s) /\ Cardinality(s) \in Nat
    BY FS_Subset, FS_CardinalityType
  <2> QED BY <2>1, SumTyped, FracOps
<1>1. ASSUME B # {} PROVE FALSE
  <2>1. PICK s \in B : \A t \in B : t \subseteq s => t = s
    <3>1. B \subseteq SUBSET S
      OBVIOUS
    <3> HIDE DEF B
    <3> QED BY <1>1, <3>1, SmallestSubset
  <2>2. s # {}
    <3>1. SumOver(f, {}) = Whole(0) /\ Cardinality({}) = 0 /\ a[1] \in Int /\ a[2] \in Int
      BY <1>0, SumUnfolds, FS_EmptySet DEF Frac
    <3>2. {} \notin B
      BY <3>1 DEF Same, Scale, Whole
    <3> HIDE DEF B
    <3> QED BY <2>1, <3>2, Zenon
  <2>3. PICK x \in s : TRUE
    BY <2>2
  <2> DEFINE r == s \ {x}
             n == Cardinality(r)
             F == SumOver(f, s)
             G == SumOver(f, r)
  <2>4. r \in SUBSET S /\ r \notin B /\ x \in S /\ s \in SUBSET S
    BY <2>1, <2>3
  <2>5. Cardinality(s) = n + 1 /\ n \in Nat
    BY <1>0, <2>3, <2>4, RemoveIsSmaller
  <2>6. Same(G, Scale(a, n)) /\ F \in Frac /\ G \in Frac /\ Scale(a, n) \in Frac
        /\ Scale(a, n + 1) \in Frac
    BY <1>0, <2>4, <2>5
  <2>7. Same(F, Plus(a, G))
    <3>1. \A y \in s : f[y] \in Frac
      BY <2>4
    <3> QED BY <1>0, <2>3, <2>4, <3>1, SumTakes
  <2> HIDE DEF B, r, n, F, G
  <2>8. Plus(a, Scale(a, n)) = Scale(a, n + 1)
    <3>1. a[1] \in Int /\ a[2] \in Int
      BY DEF Frac
    <3>2. a[1] + a[1] * n = a[1] * (n + 1)
      BY <2>5, <3>1
    <3> QED BY <3>2 DEF Plus, Scale
  <2>9. Same(F, Scale(a, n + 1))
    <3>1. Plus(a, G) \in Frac /\ Same(Plus(a, G), Plus(a, Scale(a, n)))
      BY <2>6, PlusSame, FracOps, 0 \in Int
    <3> QED BY <2>6, <2>7, <2>8, <3>1, SameTrans
  <2> QED BY <2>1, <2>5, <2>9 DEF F, B
<1>2. S \in SUBSET S
  OBVIOUS
<1> QED BY <1>0, <1>1, <1>2

\* The sum over two sets that have nothing in common.
LEMMA SumSplits ==
    ASSUME NEW f, NEW S, IsFiniteSet(S), \A x \in S : f[x] \in Frac,
           NEW T, T \subseteq S
    PROVE  Same(SumOver(f, S), Plus(SumOver(f, T), SumOver(f, S \ T)))
<1> DEFINE B == {s \in SUBSET T :
                    ~ Same(SumOver(f, s \cup (S \ T)), Plus(SumOver(f, s), SumOver(f, S \ T)))}
<1>0. \A s \in SUBSET S : IsFiniteSet(s) /\ SumOver(f, s) \in Frac
  <2>1. \A s \in SUBSET S : IsFiniteSet(s)
    BY FS_Subset
  <2> QED BY <2>1, SumTyped
<1>1. ASSUME B # {} PROVE FALSE
  <2>1. PICK s \in B : \A t \in B : t \subseteq s => t = s
    <3>1. B \subseteq SUBSET T /\ IsFiniteSet(T)
      BY <1>0
    <3> HIDE DEF B
    <3> QED BY <1>1, <3>1, SmallestSubset
  <2> DEFINE R == S \ T
             V == SumOver(f, R)
  <2>2. s # {}
    <3>1. V \in Frac /\ SumOver(f, {}) = Whole(0) /\ Whole(0) \in Frac /\ Whole(0)[1] = 0
      BY <1>0, SumUnfolds, FracOps, 0 \in Int DEF Whole
    <3>2. Same(V, Plus(Whole(0), V))
      <4> HIDE DEF V
      <4> QED BY <3>1, PlusNothing, SameSym
    <3>3. {} \cup R = R
      OBVIOUS
    <3>4. {} \notin B
      BY <3>1, <3>2, <3>3
    <3> HIDE DEF B
    <3> QED BY <2>1, <3>4, Zenon
  <2>3. PICK x \in s : TRUE
    BY <2>2
  <2> DEFINE r == s \ {x}
  <2>4. r \in SUBSET S /\ r \notin B /\ r \in SUBSET T /\ x \in S /\ s \in SUBSET S
        /\ s \cup R \in SUBSET S /\ r \cup R \in SUBSET S
        /\ x \in s \cup R /\ (s \cup R) \ {x} = r \cup R
    BY <2>1, <2>3
  <2>5. Same(SumOver(f, r \cup R), Plus(SumOver(f, r), V))
    BY <2>4
  <2>6. /\ Same(SumOver(f, s), Plus(f[x], SumOver(f, r)))
        /\ Same(SumOver(f, s \cup R), Plus(f[x], SumOver(f, r \cup R)))
    <3>1. \A A \in SUBSET S : \A y \in A : f[y] \in Frac
      OBVIOUS
    <3>2. Same(SumOver(f, s), Plus(f[x], SumOver(f, r)))
      BY <1>0, <2>3, <2>4, <3>1, SumTakes
    <3>3. Same(SumOver(f, s \cup R), Plus(f[x], SumOver(f, (s \cup R) \ {x})))
      <4> DEFINE A == s \cup R
      <4>1. IsFiniteSet(A) /\ x \in A /\ \A y \in A : f[y] \in Frac
        BY <1>0, <2>4
      <4> HIDE DEF A
      <4>2. Same(SumOver(f, A), Plus(f[x], SumOver(f, A \ {x})))
        BY <4>1, SumTakes
      <4> QED BY <4>2 DEF A
    <3> QED BY <2>4, <3>2, <3>3
  <2> DEFINE F == SumOver(f, s)
             G == SumOver(f, s \cup R)
             p == SumOver(f, r)
             q == SumOver(f, r \cup R)
             a == f[x]
  <2>7. /\ F \in Frac /\ G \in Frac /\ p \in Frac /\ q \in Frac /\ a \in Frac /\ V \in Frac
    BY <1>0, <2>4
  <2> HIDE DEF B, F, G, p, q, a, V, R, r
  <2>8. Same(q, Plus(p, V)) /\ Same(F, Plus(a, p)) /\ Same(G, Plus(a, q))
    BY <2>5, <2>6 DEF F, G, p, q, a
  <2>9. Same(G, Plus(F, V))
    <3>1. /\ Plus(a, q) \in Frac /\ Plus(p, V) \in Frac /\ Plus(a, p) \in Frac /\ Plus(F, V) \in Frac
      BY <2>7, FracOps, 0 \in Int
    <3>2. Plus(a, Plus(p, V)) \in Frac /\ Plus(Plus(a, p), V) \in Frac
      BY <2>7, <3>1, FracOps, 0 \in Int
    <3>3. Same(Plus(a, q), Plus(a, Plus(p, V))) /\ Same(Plus(Plus(a, p), V), Plus(F, V))
      BY <2>7, <2>8, <3>1, PlusSame, SameSym
    <3>4. Same(Plus(a, Plus(p, V)), Plus(Plus(a, p), V))
      BY <2>7, PlusAssoc
    <3>5. Same(G, Plus(a, Plus(p, V)))
      BY <2>7, <2>8, <3>1, <3>2, <3>3, SameTrans
    <3>6. Same(G, Plus(Plus(a, p), V))
      BY <2>7, <3>2, <3>4, <3>5, SameTrans
    <3> QED BY <2>7, <3>1, <3>2, <3>3, <3>6, SameTrans
  <2> QED BY <2>1, <2>9 DEF F, G, B, V, R
<1>2. T \notin B /\ T \cup (S \ T) = S
  BY <1>1
<1> QED BY <1>2

\* A sum is the sum of those of its blocks.
LEMMA SumByBlock ==
    ASSUME NEW f, NEW S, IsFiniteSet(S), \A x \in S : f[x] \in Frac,
           NEW K, IsFiniteSet(K), NEW k, \A x \in S : k[x] \in K,
           NEW g, \A p \in K : g[p] \in Frac /\ Same(g[p], SumOver(f, {x \in S : k[x] = p}))
    PROVE  Same(SumOver(f, S), SumOver(g, K))
<1> DEFINE In(P) == {x \in S : k[x] \in P}
           B == {P \in SUBSET K : ~ Same(SumOver(f, In(P)), SumOver(g, P))}
<1>0. /\ \A s \in SUBSET S : IsFiniteSet(s) /\ SumOver(f, s) \in Frac
      /\ \A P \in SUBSET K : IsFiniteSet(P) /\ SumOver(g, P) \in Frac
  <2>1. \A s \in SUBSET S : IsFiniteSet(s)
    BY FS_Subset
  <2>2. \A P \in SUBSET K : IsFiniteSet(P)
    BY FS_Subset
  <2>3. \A s \in SUBSET S : SumOver(f, s) \in Frac
    BY <2>1, SumTyped
  <2>4. \A P \in SUBSET K : SumOver(g, P) \in Frac
    BY <2>2, SumTyped
  <2> QED BY <2>1, <2>2, <2>3, <2>4
<1>1. ASSUME B # {} PROVE FALSE
  <2>1. PICK P \in B : \A t \in B : t \subseteq P => t = P
    <3>1. B \subseteq SUBSET K
      OBVIOUS
    <3> HIDE DEF B
    <3> QED BY <1>1, <3>1, SmallestSubset
  <2>2. P # {}
    <3>1. In({}) = {} /\ SumOver(f, {}) = Whole(0) /\ SumOver(g, {}) = Whole(0)
      BY <1>0, SumUnfolds
    <3>2. {} \notin B
      BY <3>1 DEF Same
    <3> HIDE DEF B
    <3> QED BY <2>1, <3>2, Zenon
  <2>3. PICK p \in P : TRUE
    BY <2>2
  <2> DEFINE Q == P \ {p}
             block == {x \in S : k[x] = p}
             all == In(P)
             rest == In(Q)
  <2>4. /\ Q \in SUBSET K /\ Q \notin B /\ p \in K /\ P \in SUBSET K
        /\ all \in SUBSET S /\ rest \in SUBSET S /\ block \in SUBSET S
        /\ block \subseteq all /\ all \ block = rest
    BY <2>1, <2>3
  <2>5. Same(SumOver(f, rest), SumOver(g, Q)) /\ Same(g[p], SumOver(f, block)) /\ g[p] \in Frac
    BY <2>4
  <2> DEFINE F == SumOver(f, all)
             b == SumOver(f, block)
             r == SumOver(f, rest)
             G == SumOver(g, P)
             q == SumOver(g, Q)
             a == g[p]
  <2>6. F \in Frac /\ b \in Frac /\ r \in Frac /\ G \in Frac /\ q \in Frac /\ a \in Frac
    <3> HIDE DEF all, block, rest, Q
    <3> QED BY <1>0, <2>4, <2>5
  <2>7. Same(F, Plus(b, r))
    <3>1. IsFiniteSet(all) /\ \A x \in all : f[x] \in Frac
      BY <1>0
    <3>2. rest = all \ block /\ block \subseteq all
      BY <2>4
    <3> HIDE DEF all, block, rest
    <3> QED BY <3>1, <3>2, SumSplits
  <2>8. Same(G, Plus(a, q))
    <3>1. IsFiniteSet(P) /\ \A x \in P : g[x] \in Frac
      BY <1>0, <2>4
    <3> QED BY <2>3, <3>1, SumTakes
  <2>9. Same(F, G)
    <3> HIDE DEF F, b, r, G, q, a
    <3>1. Same(r, q) /\ Same(b, a)
      BY <2>5, SameSym DEF r, q, b, a
    <3>2. Plus(b, r) \in Frac /\ Plus(a, r) \in Frac /\ Plus(a, q) \in Frac
      BY <2>6, FracOps, 0 \in Int
    <3>3. Same(Plus(b, r), Plus(a, r)) /\ Same(Plus(a, r), Plus(a, q)) /\ Same(Plus(a, q), G)
      BY <2>6, <2>8, <3>1, <3>2, PlusSame, SameSym
    <3>4. Same(F, Plus(a, r))
      BY <2>6, <2>7, <3>2, <3>3, SameTrans
    <3>5. Same(F, Plus(a, q))
      BY <2>6, <3>2, <3>3, <3>4, SameTrans
    <3> QED BY <2>6, <3>2, <3>3, <3>5, SameTrans
  <2> QED BY <2>1, <2>9
<1>2. In(K) = S /\ K \notin B
  BY <1>1
<1> QED BY <1>2

\* The elements that a key maps to p.
BlockOf(S, k, p) == {x \in S : k[x] = p}

\* A set has as many elements as its blocks.
LEMMA CountByBlock ==
    ASSUME NEW S, IsFiniteSet(S), NEW K, IsFiniteSet(K), NEW k, \A x \in S : k[x] \in K,
           NEW c, \A p \in K : c[p] = Cardinality(BlockOf(S, k, p))
    PROVE  Cardinality(S) = SumFunctionOnSet(c, K)
<1> DEFINE one == Whole(1)
           f == [x \in S |-> one]
           g == [p \in K |-> Whole(c[p])]
           n == Cardinality(S)
           m == SumFunctionOnSet(c, K)
<1>1. one \in Frac /\ \A x \in S : f[x] = one
  BY WholePlus, 1 \in Int
<1>2. \A s \in SUBSET S : IsFiniteSet(s) /\ Cardinality(s) \in Int
  BY FS_Subset, FS_CardinalityType
<1>3. \A s \in SUBSET S : Same(Whole(Cardinality(s)), SumOver(f, s)) /\ SumOver(f, s) \in Frac
  <2> TAKE s \in SUBSET S
  <2>1. Same(SumOver(f, s), Scale(one, Cardinality(s))) /\ SumOver(f, s) \in Frac
    <3>1. IsFiniteSet(s) /\ \A x \in s : f[x] = one /\ f[x] \in Frac
      BY <1>1, <1>2
    <3> HIDE DEF f, one
    <3> QED BY <1>1, <3>1, SumOfSame, SumTyped
  <2>2. Scale(one, Cardinality(s)) = Whole(Cardinality(s))
    BY <1>2 DEF Scale, Whole
  <2> QED BY <2>1, <2>2, SameSym
<1>4. \A p \in K : c[p] \in Int /\ g[p] = Whole(c[p]) /\ g[p] \in Frac
                   /\ Same(g[p], SumOver(f, {x \in S : k[x] = p}))
  <2> TAKE p \in K
  <2>1. BlockOf(S, k, p) \in SUBSET S /\ BlockOf(S, k, p) = {x \in S : k[x] = p}
    BY DEF BlockOf
  <2>2. c[p] \in Int /\ g[p] = Whole(c[p])
    BY <1>2, <2>1
  <2>3. g[p] \in Frac
    BY <2>2, WholePlus
  <2>4. Same(g[p], SumOver(f, BlockOf(S, k, p)))
    <3> HIDE DEF f, g
    <3> QED BY <1>3, <2>1, <2>2
  <2> QED BY <2>1, <2>2, <2>3, <2>4
<1> HIDE DEF f, g, one
<1>5. Same(SumOver(f, S), SumOver(g, K))
  BY <1>1, <1>4, SumByBlock
<1>6. SumOver(g, K) = Whole(m) /\ m \in Int
  BY <1>4, WholeSums
<1>7. Same(Whole(n), SumOver(f, S)) /\ SumOver(f, S) \in Frac /\ n \in Int
  BY <1>2, <1>3
<1>8. Same(Whole(n), Whole(m))
  <2>1. Whole(n) \in Frac /\ Whole(m) \in Frac
    BY <1>6, <1>7, WholePlus
  <2> QED BY <1>5, <1>6, <1>7, <2>1, SameTrans
<1> HIDE DEF n, m
<1> QED BY <1>6, <1>7, <1>8 DEF Same, Whole, n, m

\* Dividing by a number and multiplying with it again.
LEMMA OverSame ==
    ASSUME NEW a \in Frac, NEW b \in Frac, NEW n \in Nat \ {0}
    PROVE  /\ Same(a, b) => Same(Over(a, n), Over(b, n))
           /\ Same(Scale(Over(a, n), n), a) /\ Scale(Over(a, n), n) \in Frac
<1> DEFINE p == a[1] q == a[2] r == b[1] s == b[2]
<1>1. p \in Int /\ r \in Int /\ q \in Nat \ {0} /\ s \in Nat \ {0}
  BY DEF Frac
<1>2. Over(a, n) = <<p, q * n>> /\ Over(b, n) = <<r, s * n>> /\ Scale(Over(a, n), n) = <<p * n, q * n>>
  BY DEF Over, Scale
<1>3. Same(a, b) <=> p * s = r * q
  BY DEF Same
<1> HIDE DEF p, q, r, s
<1>4. /\ p * (s * n) = (p * s) * n /\ r * (q * n) = (r * q) * n
      /\ (p * n) * q = p * (q * n)
  BY <1>1
<1>5. Over(a, n) \in Frac /\ Scale(Over(a, n), n) \in Frac
  BY FracOps
<1>6. Same(Scale(Over(a, n), n), a)
  BY <1>1, <1>2, <1>4 DEF Same, p, q
<1>7. Same(a, b) => Same(Over(a, n), Over(b, n))
  BY <1>1, <1>2, <1>3, <1>4 DEF Same
<1> QED BY <1>5, <1>6, <1>7

\* The images of finitely many are finitely many.
LEMMA ImageIsFinite ==
    ASSUME NEW S, IsFiniteSet(S), NEW m
    PROVE  IsFiniteSet(ImageOf(m, S))
<1> DEFINE F == [x \in S |-> m[x]]
<1>1. F \in Surjection(S, ImageOf(m, S))
  BY DEF Surjection, ImageOf
<1> HIDE DEF F
<1> QED BY <1>1, FS_Surjection

\* A part of an image under a one-to-one map is as large as what it is the image of.
LEMMA PartIsAsLarge ==
    ASSUME NEW S, IsFiniteSet(S), NEW m, \A x, y \in S : m[x] = m[y] => x = y,
           NEW P, P \subseteq S, NEW Q, Q = ImageOf(m, P)
    PROVE  Cardinality(Q) = Cardinality(P)
<1>1. IsFiniteSet(P) /\ \A x, y \in P : m[x] = m[y] => x = y
  BY FS_Subset
<1> QED BY <1>1, ImageIsAsLarge
=============================================================================
