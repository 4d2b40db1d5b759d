----------------------------- MODULE ListProofs -----------------------------
(***************************************************************************)
(* Recursive functions over lists, and what the parts of a list hold and   *)
(* in which order: lemmas for the modules that extend Lists.               *)
(***************************************************************************)
EXTENDS Lists, SequenceTheorems, FiniteSetTheorems, WellFoundedInduction, TLAPS

\* Induction over the numbers, for one set of them.
LEMMA Induct ==
  ASSUME NEW T, 0 \in T, \A n \in Nat : n \in T => n + 1 \in T
  PROVE  Nat \subseteq T
<1> SUFFICES ASSUME NEW k \in Nat, k \notin T PROVE FALSE
  OBVIOUS
<1> DEFINE R == OpToRel(<, Nat)
           S == {n \in Nat : n \notin T}
<1>1. PICK x \in S : \A y \in S : ~(<<y, x>> \in R)
  <2>1. S \subseteq Nat /\ S # {}
    OBVIOUS
  <2>2. IsWellFoundedOn(R, Nat)
    BY NatLessThanWellFounded
  <2> HIDE DEF R, S
  <2> QED
    BY <2>1, <2>2, WFMin
<1>2. x # 0 /\ x - 1 \in Nat
  OBVIOUS
<1>3. x - 1 \in T
  <2>1. <<x - 1, x>> \in R
    BY <1>2 DEF OpToRel
  <2>2. x - 1 \notin S
    BY <1>1, <2>1
  <2> QED
    BY <1>2, <2>2
<1>4. x - 1 + 1 \in T
  BY <1>2, <1>3
<1>5. x - 1 + 1 = x
  OBVIOUS
<1> QED
  BY <1>4, <1>5

\* f starts with b, and every value follows from the one before.
Iterated(S, n, b, F) ==
  \E f \in [0..n -> S] : f[0] = b /\ \A i \in 1..n : f[i] = F[i][f[i - 1]]

\* A recursive function of the form of upTo in AppsManager has the values that its
\* definition says.
LEMMA Iterates ==
  ASSUME NEW S, NEW n \in Nat, NEW b \in S, NEW F \in [1..n -> [S -> S]]
  PROVE  Iterated(S, n, b, F)
<1> DEFINE From(f, k) == f[0] = b /\ \A i \in 1..k : f[i] = F[i][f[i - 1]]
           T == {k \in Nat : k <= n => \E f \in [0..k -> S] : From(f, k)}
<1>1. 0 \in T
  <2> DEFINE f == [i \in 0..0 |-> b]
  <2>1. f \in [0..0 -> S] /\ From(f, 0)
    OBVIOUS
  <2> QED
    BY <2>1
<1>2. ASSUME NEW k \in Nat, k \in T PROVE k + 1 \in T
  <2> SUFFICES ASSUME k + 1 <= n
               PROVE  \E f \in [0..k + 1 -> S] : From(f, k + 1)
    OBVIOUS
  <2>1. PICK f \in [0..k -> S] : From(f, k)
    BY <1>2
  <2> DEFINE g == [i \in 0..k + 1 |-> IF i <= k THEN f[i] ELSE F[k + 1][f[k]]]
  <2>2. F[k + 1][f[k]] \in S
    OBVIOUS
  <2>3. g \in [0..k + 1 -> S]
    BY <2>2
  <2>4. g[0] = b
    BY <2>1
  <2>5. ASSUME NEW i \in 1..k + 1 PROVE g[i] = F[i][g[i - 1]]
    <3>1. i - 1 \in 0..k /\ g[i - 1] = f[i - 1]
      OBVIOUS
    <3>2. CASE i <= k
      BY <2>1, <3>1, <3>2
    <3>3. CASE i = k + 1
      BY <3>1, <3>3
    <3> QED
      BY <3>2, <3>3
  <2> HIDE DEF g
  <2> QED
    BY <2>3, <2>4, <2>5
<1>3. n \in T
  <2> HIDE DEF T
  <2> QED
    BY <1>1, <1>2, Induct
<1> QED
  BY <1>3 DEF Iterated

\* The function that Keeping is the last value of.
KeptBy(f, names, kept) ==
  /\ f[0] = <<>>
  /\ \A i \in 1..Len(names) :
       f[i] = IF names[i] \in kept THEN Append(f[i - 1], names[i]) ELSE f[i - 1]
  /\ Keeping(names, kept) = f[Len(names)]

LEMMA KeepingSteps ==
  ASSUME NEW A, NEW names \in Seq(A), NEW kept
  PROVE  \E f \in [0..Len(names) -> Seq(A)] : KeptBy(f, names, kept)
<1> DEFINE n == Len(names)
           S == Seq(A)
           Rec(f) == f = [i \in 0..n |->
                            IF i = 0 THEN <<>>
                            ELSE IF names[i] \in kept THEN Append(f[i - 1], names[i])
                            ELSE f[i - 1]]
           upTo == CHOOSE f : Rec(f)
           F == [i \in 1..n |-> [l \in S |->
                   IF names[i] \in kept THEN Append(l, names[i]) ELSE l]]
<1>0. n \in Nat /\ <<>> \in S /\ F \in [1..n -> [S -> S]]
  OBVIOUS
<1>1. Keeping(names, kept) = upTo[n]
  BY DEF Keeping
<1>2. PICK f \in [0..n -> S] :
        f[0] = <<>> /\ \A i \in 1..n : f[i] = F[i][f[i - 1]]
  <2> HIDE DEF F, n, S
  <2>1. Iterated(S, n, <<>>, F)
    BY <1>0, Iterates
  <2> QED
    BY <2>1 DEF Iterated
<1>3. ASSUME NEW i \in 1..n
      PROVE  f[i] = IF names[i] \in kept THEN Append(f[i - 1], names[i]) ELSE f[i - 1]
  <2>1. i - 1 \in 0..n
    BY <1>0
  <2>2. f[i - 1] \in S
    BY <2>1
  <2> QED
    BY <1>2, <2>2
<1>4. Rec(f)
  <2>1. ASSUME NEW i \in 0..n
        PROVE  f[i] = IF i = 0 THEN <<>>
                      ELSE IF names[i] \in kept THEN Append(f[i - 1], names[i])
                      ELSE f[i - 1]
    <3>1. CASE i = 0
      BY <1>2, <3>1
    <3>2. CASE i # 0
      <4>1. i \in 1..n
        BY <1>0, <3>2
      <4> QED
        BY <1>3, <3>2, <4>1, Zenon
    <3> QED
      BY <3>1, <3>2
  <2>2. f = [i \in 0..n |-> f[i]]
    OBVIOUS
  <2> QED
    BY <2>1, <2>2, Zenon
<1>5. Rec(upTo)
  <2> HIDE DEF Rec
  <2> QED
    BY <1>4
<1> HIDE DEF upTo
<1>6. upTo[0] = <<>>
  BY <1>0, <1>5
<1>7. ASSUME NEW i \in 1..n
      PROVE  upTo[i] = IF names[i] \in kept THEN Append(upTo[i - 1], names[i])
                       ELSE upTo[i - 1]
  <2>1. i \in 0..n /\ i # 0
    BY <1>0
  <2> QED
    BY <1>5, <2>1, Zenon
<1>8. \A k \in 0..n : upTo[k] \in S
  <2> DEFINE T == {k \in Nat : k <= n => upTo[k] \in S}
  <2>1. 0 \in T
    BY <1>0, <1>6
  <2>2. ASSUME NEW k \in Nat, k \in T PROVE k + 1 \in T
    <3> SUFFICES ASSUME k + 1 <= n PROVE upTo[k + 1] \in S
      OBVIOUS
    <3>1. k + 1 \in 1..n /\ upTo[k] \in S
      BY <1>0, <2>2
    <3>2. upTo[k + 1] = IF names[k + 1] \in kept THEN Append(upTo[k], names[k + 1])
                        ELSE upTo[k]
      BY <1>7, <3>1
    <3>3. names[k + 1] \in A
      BY <3>1
    <3> QED
      BY <3>1, <3>2, <3>3
  <2>3. Nat \subseteq T
    <3> HIDE DEF T
    <3> QED
      BY <2>1, <2>2, Induct
  <2> QED
    BY <1>0, <2>3
<1>9. upTo \in [0..n -> S]
  BY <1>5, <1>8
<1> QED
  BY <1>1, <1>6, <1>7, <1>9 DEF KeptBy

\* x comes before y in s.
Before(s, x, y) ==
  \E i, j \in DOMAIN s : i < j /\ s[i] = x /\ s[j] = y

LEMMA SeqFacts ==
  ASSUME NEW A, NEW s \in Seq(A)
  PROVE  /\ Len(s) \in Nat
         /\ DOMAIN s = 1..Len(s)
         /\ \A i \in 1..Len(s) : s[i] \in A
         /\ ToSet(s) \subseteq A
         /\ (s = <<>>) <=> (ToSet(s) = {})
         /\ \A x : x \in ToSet(s) <=> \E i \in 1..Len(s) : s[i] = x
<1> DEFINE n == Len(s)
<1>1. n \in Nat /\ DOMAIN s = 1..n /\ \A i \in 1..n : s[i] \in A
  OBVIOUS
<1>2. \A x : x \in ToSet(s) <=> \E i \in 1..n : s[i] = x
  BY <1>1 DEF ToSet
<1>3. ASSUME s # <<>> PROVE s[1] \in ToSet(s)
  <2>1. 1 \in 1..n
    BY <1>1, <1>3
  <2> QED
    BY <1>2, <2>1
<1>4. ToSet(<<>>) = {}
  BY DEF ToSet
<1> QED
  BY <1>1, <1>2, <1>3, <1>4

LEMMA AppendFacts ==
  ASSUME NEW A, NEW s \in Seq(A), NEW e \in A
  PROVE  /\ Append(s, e) \in Seq(A)
         /\ ToSet(Append(s, e)) = ToSet(s) \cup {e}
         /\ \A x, y : Before(Append(s, e), x, y)
                        <=> Before(s, x, y) \/ (x \in ToSet(s) /\ y = e)
<1> DEFINE t == Append(s, e)
           n == Len(s)
<1>1. /\ n \in Nat
      /\ t \in Seq(A)
      /\ DOMAIN s = 1..n
      /\ DOMAIN t = 1..n + 1
      /\ t[n + 1] = e
      /\ \A i \in 1..n : t[i] = s[i]
  OBVIOUS
<1> HIDE DEF t, n
<1>2. ToSet(t) = ToSet(s) \cup {e}
  <2>1. ASSUME NEW x \in ToSet(t) PROVE x \in ToSet(s) \cup {e}
    <3>1. PICK i \in 1..n + 1 : t[i] = x
      BY <1>1, <2>1 DEF ToSet
    <3>2. CASE i = n + 1
      BY <1>1, <3>1, <3>2
    <3>3. CASE i \in 1..n
      BY <1>1, <3>1, <3>3 DEF ToSet
    <3> QED
      BY <1>1, <3>2, <3>3
  <2>2. ASSUME NEW x \in ToSet(s) PROVE x \in ToSet(t)
    <3>1. PICK i \in 1..n : s[i] = x
      BY <1>1, <2>2 DEF ToSet
    <3>2. i \in 1..n + 1
      BY <1>1
    <3> QED
      BY <1>1, <3>1, <3>2 DEF ToSet
  <2>3. n + 1 \in 1..n + 1
    BY <1>1
  <2>4. e \in ToSet(t)
    BY <1>1, <2>3 DEF ToSet
  <2> QED
    BY <2>1, <2>2, <2>4
<1>3. ASSUME NEW x, NEW y
      PROVE  Before(t, x, y) <=> Before(s, x, y) \/ (x \in ToSet(s) /\ y = e)
  <2>1. ASSUME Before(t, x, y)
        PROVE  Before(s, x, y) \/ (x \in ToSet(s) /\ y = e)
    <3>1. PICK i \in 1..n + 1, j \in 1..n + 1 : i < j /\ t[i] = x /\ t[j] = y
      BY <1>1, <2>1 DEF Before
    <3>2. i \in 1..n
      BY <1>1, <3>1
    <3>3. CASE j = n + 1
      BY <1>1, <3>1, <3>2, <3>3 DEF ToSet
    <3>4. CASE j \in 1..n
      BY <1>1, <3>1, <3>2, <3>4 DEF Before
    <3> QED
      BY <1>1, <3>3, <3>4
  <2>2. ASSUME Before(s, x, y) PROVE Before(t, x, y)
    <3>1. PICK i \in 1..n, j \in 1..n : i < j /\ s[i] = x /\ s[j] = y
      BY <1>1, <2>2 DEF Before
    <3>2. i \in 1..n + 1 /\ j \in 1..n + 1
      BY <1>1
    <3> QED
      BY <1>1, <3>1, <3>2 DEF Before
  <2>3. ASSUME x \in ToSet(s), y = e PROVE Before(t, x, y)
    <3>1. PICK i \in 1..n : s[i] = x
      BY <1>1, <2>3 DEF ToSet
    <3>2. i \in 1..n + 1 /\ n + 1 \in 1..n + 1 /\ i < n + 1
      BY <1>1
    <3> QED
      BY <1>1, <2>3, <3>1, <3>2 DEF Before
  <2> QED
    BY <2>1, <2>2, <2>3
<1> QED
  BY <1>1, <1>2, <1>3 DEF t

LEMMA EmptyFacts ==
  ASSUME NEW A
  PROVE  /\ <<>> \in Seq(A)
         /\ ToSet(<<>>) = {}
         /\ \A x, y : ~Before(<<>>, x, y)
BY DEF ToSet, Before

\* Keeping a part of a list keeps its order.
LEMMA KeepingFacts ==
  ASSUME NEW A, NEW names \in Seq(A), NEW kept
  PROVE  /\ Keeping(names, kept) \in Seq(A)
         /\ ToSet(Keeping(names, kept)) = ToSet(names) \cap kept
         /\ \A x, y : Before(Keeping(names, kept), x, y) => Before(names, x, y)
<1> DEFINE n == Len(names)
<1>0. n \in Nat /\ DOMAIN names = 1..n /\ \A i \in 1..n : names[i] \in A
  OBVIOUS
<1>1. PICK f \in [0..n -> Seq(A)] :
        /\ f[0] = <<>>
        /\ \A i \in 1..n : f[i] = IF names[i] \in kept THEN Append(f[i - 1], names[i])
                                  ELSE f[i - 1]
        /\ Keeping(names, kept) = f[n]
  <2>1. \E f \in [0..Len(names) -> Seq(A)] : KeptBy(f, names, kept)
    BY KeepingSteps
  <2> QED
    BY <2>1 DEF KeptBy
<1> HIDE DEF n
<1> DEFINE Right(k) ==
      /\ \A x : x \in ToSet(f[k]) <=> x \in kept /\ \E m \in 1..k : names[m] = x
      /\ \A x, y : Before(f[k], x, y) => Before(names, x, y)
    T == {k \in Nat : k <= n => Right(k)}
<1>2. 0 \in T
  BY <1>0, <1>1, EmptyFacts
<1>3. ASSUME NEW k \in Nat, k \in T PROVE k + 1 \in T
  <2> SUFFICES ASSUME k + 1 <= n PROVE Right(k + 1)
    OBVIOUS
  <2>1. k + 1 \in 1..n /\ k \in 0..n /\ Right(k)
    <3> HIDE DEF Right
    <3> QED
      BY <1>0, <1>3
  <2> DEFINE e == names[k + 1]
             s == f[k]
  <2>2. e \in A /\ s \in Seq(A)
    BY <1>0, <1>1, <2>1
  <2>3. f[k + 1] = IF e \in kept THEN Append(s, e) ELSE s
    BY <1>1, <2>1
  <2>4. \A x : (\E m \in 1..k + 1 : names[m] = x)
                 <=> (\E m \in 1..k : names[m] = x) \/ x = e
    BY <2>1
  <2>5. CASE e \notin kept
    BY <2>1, <2>3, <2>4, <2>5
  <2>6. CASE e \in kept
    <3>1. ToSet(f[k + 1]) = ToSet(s) \cup {e}
      BY <2>2, <2>3, <2>6, AppendFacts
    <3>2. \A x, y : Before(f[k + 1], x, y)
                      <=> Before(s, x, y) \/ (x \in ToSet(s) /\ y = e)
      BY <2>2, <2>3, <2>6, AppendFacts
    <3>3. \A x : x \in ToSet(f[k + 1])
                   <=> x \in kept /\ \E m \in 1..k + 1 : names[m] = x
      <4> HIDE DEF e
      <4> QED
        BY <2>1, <2>4, <2>6, <3>1
    <3>4. ASSUME NEW x, x \in ToSet(s) PROVE Before(names, x, e)
      <4>1. PICK m \in 1..k : names[m] = x
        BY <2>1, <3>4
      <4>2. m \in 1..n /\ m < k + 1
        BY <1>0, <2>1
      <4> QED
        BY <1>0, <2>1, <4>1, <4>2 DEF Before
    <3>5. \A x, y : Before(f[k + 1], x, y) => Before(names, x, y)
      BY <2>1, <3>2, <3>4
    <3> QED
      BY <3>3, <3>5
  <2> QED
    BY <2>5, <2>6
<1>4. n \in T
  <2> HIDE DEF T
  <2> QED
    BY <1>0, <1>2, <1>3, Induct
<1>5. Right(n)
  BY <1>0, <1>4
<1>6. ToSet(f[n]) = ToSet(names) \cap kept
  <2>1. \A x : x \in ToSet(names) <=> \E m \in 1..n : names[m] = x
    BY <1>0 DEF ToSet
  <2> QED
    BY <1>5, <2>1
<1> QED
  BY <1>0, <1>1, <1>5, <1>6

\* A list that keeps everything is the same list.
LEMMA KeepAll ==
  ASSUME NEW A, NEW names \in Seq(A), NEW kept, ToSet(names) \subseteq kept
  PROVE  Keeping(names, kept) = names
<1> DEFINE n == Len(names)
<1>0. /\ n \in Nat
      /\ \A i \in 1..n : names[i] \in A /\ names[i] \in kept
  BY SeqFacts
<1>1. PICK f \in [0..n -> Seq(A)] :
        /\ f[0] = <<>>
        /\ \A i \in 1..n : f[i] = IF names[i] \in kept THEN Append(f[i - 1], names[i])
                                  ELSE f[i - 1]
        /\ Keeping(names, kept) = f[n]
  <2>1. \E f \in [0..Len(names) -> Seq(A)] : KeptBy(f, names, kept)
    BY KeepingSteps
  <2> QED
    BY <2>1 DEF KeptBy
<1> HIDE DEF n
<1> DEFINE Right(k) == Len(f[k]) = k /\ \A m \in 1..k : f[k][m] = names[m]
           T == {k \in Nat : k <= n => Right(k)}
<1>2. 0 \in T
  BY <1>0, <1>1
<1>3. ASSUME NEW k \in Nat, k \in T PROVE k + 1 \in T
  <2> SUFFICES ASSUME k + 1 <= n PROVE Right(k + 1)
    OBVIOUS
  <2>1. k + 1 \in 1..n /\ k \in 0..n /\ Right(k)
    <3> HIDE DEF Right
    <3> QED
      BY <1>0, <1>3
  <2> DEFINE s == f[k]
  <2>2. s \in Seq(A) /\ names[k + 1] \in A /\ f[k + 1] = Append(s, names[k + 1])
    <3>1. s \in Seq(A)
      BY <1>1, <2>1
    <3>2. names[k + 1] \in A /\ names[k + 1] \in kept
      BY <1>0, <2>1
    <3>3. f[k + 1] = IF names[k + 1] \in kept THEN Append(s, names[k + 1]) ELSE s
      BY <1>1, <2>1
    <3> QED
      BY <3>1, <3>2, <3>3
  <2>3. Len(s) = k /\ \A m \in 1..k : s[m] = names[m]
    BY <2>1
  <2> HIDE DEF s
  <2> QED
    BY <2>2, <2>3
<1>4. Right(n)
  <2>1. n \in T
    <3> HIDE DEF T
    <3> QED
      BY <1>0, <1>2, <1>3, Induct
  <2> HIDE DEF Right
  <2> QED
    BY <1>0, <2>1
<1>5. f[n] \in Seq(A)
  BY <1>0, <1>1
<1>6. f[n] = names
  BY <1>4, <1>5, SeqEqual DEF n
<1> QED
  BY <1>1, <1>6

\* Reversing a list reverses its order.
LEMMA ReverseFacts ==
  ASSUME NEW A, NEW s \in Seq(A)
  PROVE  /\ Reverse(s) \in Seq(A)
         /\ ToSet(Reverse(s)) = ToSet(s)
         /\ \A x, y : Before(Reverse(s), x, y) <=> Before(s, y, x)
<1> DEFINE n == Len(s)
           r == Reverse(s)
<1>1. n \in Nat /\ DOMAIN s = 1..n /\ \A i \in 1..n : s[i] \in A
  OBVIOUS
<1> HIDE DEF n
<1>2. ASSUME NEW i \in 1..n PROVE n - i + 1 \in 1..n /\ n - (n - i + 1) + 1 = i
  BY <1>1
<1>3. r = [i \in 1..n |-> s[n - i + 1]]
  BY DEF Reverse, n
<1> HIDE DEF r
<1>4. r \in Seq(A) /\ DOMAIN r = 1..n
  <2>1. r \in [1..n -> A]
    BY <1>1, <1>2, <1>3
  <2> QED
    BY <1>1, <2>1, SeqDef
<1>5. \A i \in 1..n : r[i] = s[n - i + 1] /\ s[i] = r[n - i + 1]
  BY <1>2, <1>3
<1>6. ToSet(r) = ToSet(s)
  BY <1>1, <1>2, <1>4, <1>5 DEF ToSet
<1>7. ASSUME NEW x, NEW y, Before(s, y, x) PROVE Before(r, x, y)
  <2>1. PICK i \in 1..n, j \in 1..n : i < j /\ s[i] = y /\ s[j] = x
    BY <1>1, <1>7 DEF Before
  <2>2. n - j + 1 < n - i + 1
    BY <1>1, <2>1
  <2>3. r[n - j + 1] = x /\ r[n - i + 1] = y
    BY <1>5, <2>1
  <2> QED
    BY <1>2, <1>4, <2>2, <2>3 DEF Before
<1>8. ASSUME NEW x, NEW y, Before(r, x, y) PROVE Before(s, y, x)
  <2>1. PICK i \in 1..n, j \in 1..n : i < j /\ r[i] = x /\ r[j] = y
    BY <1>4, <1>8 DEF Before
  <2>2. n - j + 1 < n - i + 1
    BY <1>1, <2>1
  <2>3. s[n - j + 1] = y /\ s[n - i + 1] = x
    BY <1>5, <2>1
  <2> QED
    BY <1>1, <1>2, <2>2, <2>3 DEF Before
<1> QED
  BY <1>4, <1>6, <1>7, <1>8 DEF r

LEMMA ConcatFacts ==
  ASSUME NEW A, NEW s \in Seq(A), NEW t \in Seq(A)
  PROVE  s \o t \in Seq(A) /\ ToSet(s \o t) = ToSet(s) \cup ToSet(t)
<1> DEFINE r == s \o t
           m == Len(s)
           n == Len(t)
<1>1. /\ m \in Nat /\ n \in Nat
      /\ r \in Seq(A)
      /\ Len(r) = m + n
      /\ \A i \in 1..m + n : r[i] = IF i <= m THEN s[i] ELSE t[i - m]
  BY ConcatProperties
<1>2. /\ \A x : x \in ToSet(s) <=> \E i \in 1..m : s[i] = x
      /\ \A x : x \in ToSet(t) <=> \E i \in 1..n : t[i] = x
      /\ \A x : x \in ToSet(r) <=> \E i \in 1..Len(r) : r[i] = x
  BY <1>1, SeqFacts
<1> HIDE DEF r, m, n
<1>3. ASSUME NEW x \in ToSet(r) PROVE x \in ToSet(s) \cup ToSet(t)
  <2>1. PICK i \in 1..m + n : r[i] = x
    BY <1>1, <1>2
  <2>2. CASE i <= m
    BY <1>1, <1>2, <2>1, <2>2
  <2>3. CASE ~(i <= m)
    <3>1. i - m \in 1..n /\ t[i - m] = x
      BY <1>1, <2>1, <2>3
    <3> QED
      BY <1>2, <3>1
  <2> QED
    BY <2>2, <2>3
<1>4. ASSUME NEW x \in ToSet(s) PROVE x \in ToSet(r)
  <2>1. PICK i \in 1..m : s[i] = x
    BY <1>2
  <2>2. i \in 1..m + n /\ r[i] = x
    BY <1>1, <2>1
  <2> QED
    BY <1>1, <1>2, <2>2
<1>5. ASSUME NEW x \in ToSet(t) PROVE x \in ToSet(r)
  <2>1. PICK i \in 1..n : t[i] = x
    BY <1>2
  <2>2. m + i \in 1..m + n /\ r[m + i] = x
    BY <1>1, <2>1
  <2> QED
    BY <1>1, <1>2, <2>2
<1>6. ToSet(r) = ToSet(s) \cup ToSet(t)
  BY <1>3, <1>4, <1>5
<1> QED
  BY <1>1, <1>6 DEF r

\* What comes before what in two lists, one after the other.
LEMMA ConcatOrder ==
  ASSUME NEW A, NEW s \in Seq(A), NEW t \in Seq(A)
  PROVE  \A x, y : Before(s \o t, x, y)
                     => \/ Before(s, x, y) \/ Before(t, x, y)
                        \/ x \in ToSet(s) /\ y \in ToSet(t)
<1> DEFINE r == s \o t
           m == Len(s)
           n == Len(t)
<1>1. /\ m \in Nat /\ n \in Nat
      /\ r \in Seq(A)
      /\ Len(r) = m + n
      /\ \A i \in 1..m + n : r[i] = IF i <= m THEN s[i] ELSE t[i - m]
  BY ConcatProperties
<1>2. /\ \A i \in 1..m : s[i] \in ToSet(s)
      /\ \A i \in 1..n : t[i] \in ToSet(t)
      /\ DOMAIN s = 1..m /\ DOMAIN t = 1..n /\ DOMAIN r = 1..m + n
  BY <1>1, SeqFacts
<1> SUFFICES ASSUME NEW x, NEW y, Before(r, x, y)
             PROVE  \/ Before(s, x, y) \/ Before(t, x, y)
                    \/ x \in ToSet(s) /\ y \in ToSet(t)
  BY DEF r
<1> HIDE DEF r, m, n
<1>3. PICK i \in 1..m + n, j \in 1..m + n : i < j /\ r[i] = x /\ r[j] = y
  BY <1>2 DEF Before
<1>4. CASE j <= m
  <2>1. i \in 1..m /\ j \in 1..m /\ s[i] = x /\ s[j] = y
    BY <1>1, <1>3, <1>4
  <2> QED
    BY <1>2, <1>3, <2>1 DEF Before
<1>5. CASE i <= m /\ ~(j <= m)
  <2>1. i \in 1..m /\ j - m \in 1..n /\ s[i] = x /\ t[j - m] = y
    BY <1>1, <1>3, <1>5
  <2> QED
    BY <1>2, <2>1
<1>6. CASE ~(i <= m)
  <2>1. i - m \in 1..n /\ j - m \in 1..n /\ i - m < j - m /\ t[i - m] = x /\ t[j - m] = y
    BY <1>1, <1>3, <1>6
  <2> QED
    BY <1>2, <2>1 DEF Before
<1> QED
  BY <1>1, <1>3, <1>4, <1>5, <1>6

LEMMA SingleFacts ==
  ASSUME NEW A, NEW e \in A
  PROVE  /\ <<e>> \in Seq(A)
         /\ ToSet(<<e>>) = {e}
         /\ \A x, y : ~Before(<<e>>, x, y)
<1>1. <<e>> \in Seq(A) /\ DOMAIN <<e>> = 1..1 /\ <<e>>[1] = e
  OBVIOUS
<1>2. ToSet(<<e>>) = {e}
  BY <1>1 DEF ToSet
<1>3. ASSUME NEW x, NEW y PROVE ~Before(<<e>>, x, y)
  BY <1>1 DEF Before
<1> QED
  BY <1>1, <1>2, <1>3

LEMMA HeadFacts ==
  ASSUME NEW A, NEW s \in Seq(A), s # <<>>
  PROVE  /\ Head(s) \in ToSet(s) /\ Head(s) \in A
         /\ \A x \in ToSet(s) : x # Head(s) => Before(s, Head(s), x)
<1> DEFINE n == Len(s)
<1>1. n \in Nat /\ 1 \in 1..n /\ DOMAIN s = 1..n /\ Head(s) = s[1]
  OBVIOUS
<1>2. \A x : x \in ToSet(s) <=> \E i \in 1..n : s[i] = x
  BY SeqFacts
<1>3. ToSet(s) \subseteq A
  BY SeqFacts
<1> HIDE DEF n
<1>4. Head(s) \in ToSet(s)
  BY <1>1, <1>2
<1>5. ASSUME NEW x \in ToSet(s), x # Head(s) PROVE Before(s, Head(s), x)
  <2>1. PICK i \in 1..n : s[i] = x
    BY <1>2
  <2>2. 1 < i
    BY <1>1, <1>5, <2>1
  <2> QED
    BY <1>1, <2>1, <2>2 DEF Before
<1> QED
  BY <1>3, <1>4, <1>5

(***************************************************************************)
(* Sums.                                                                   *)
(***************************************************************************)

\* The function that SumOver is the last value of.
SummedBy(f, list, places) ==
  /\ f[0] = 0
  /\ \A i \in 1..Len(list) : f[i] = f[i - 1] + IF i \in places THEN list[i] ELSE 0
  /\ SumOver(list, places) = f[Len(list)]

LEMMA SumSteps ==
  ASSUME NEW list \in Seq(Int), NEW places
  PROVE  \E f \in [0..Len(list) -> Int] : SummedBy(f, list, places)
<1> DEFINE n == Len(list)
           at(i) == IF i \in places THEN list[i] ELSE 0
           Rec(f) == f = [i \in 0..n |-> IF i = 0 THEN 0
                                         ELSE f[i - 1] + IF i \in places THEN list[i] ELSE 0]
           upTo == CHOOSE f : Rec(f)
           F == [i \in 1..n |-> [x \in Int |-> x + at(i)]]
<1>0. n \in Nat /\ 0 \in Int /\ \A i \in 1..n : list[i] \in Int /\ at(i) \in Int
  OBVIOUS
<1>1. SumOver(list, places) = upTo[n]
  BY DEF SumOver
<1>2. PICK f \in [0..n -> Int] : f[0] = 0 /\ \A i \in 1..n : f[i] = f[i - 1] + at(i)
  <2> HIDE DEF n, at
  <2>1. F \in [1..n -> [Int -> Int]]
    BY <1>0
  <2> HIDE DEF F
  <2>2. Iterated(Int, n, 0, F)
    BY <1>0, <2>1, Iterates
  <2>3. PICK f \in [0..n -> Int] : f[0] = 0 /\ \A i \in 1..n : f[i] = F[i][f[i - 1]]
    BY <2>2 DEF Iterated
  <2>4. ASSUME NEW i \in 1..n PROVE f[i] = f[i - 1] + at(i)
    <3>1. i - 1 \in 0..n
      BY <1>0
    <3>2. f[i - 1] \in Int
      BY <2>3, <3>1
    <3> QED
      BY <2>3, <3>2 DEF F
  <2> QED
    BY <2>3, <2>4
<1>3. Rec(f)
  <2>1. ASSUME NEW i \in 0..n
        PROVE  f[i] = IF i = 0 THEN 0 ELSE f[i - 1] + IF i \in places THEN list[i] ELSE 0
    <3>1. CASE i = 0
      BY <1>2, <3>1
    <3>2. CASE i # 0
      <4>1. i \in 1..n
        BY <1>0, <3>2
      <4> QED
        BY <1>2, <3>2, <4>1, Zenon
    <3> QED
      BY <3>1, <3>2
  <2>2. f = [i \in 0..n |-> f[i]]
    BY <1>2
  <2> QED
    BY <2>1, <2>2, Zenon
<1>4. Rec(upTo)
  <2> HIDE DEF Rec
  <2> QED
    BY <1>3
<1> HIDE DEF upTo
<1>5. upTo[0] = 0
  BY <1>0, <1>4
<1>6. ASSUME NEW i \in 1..n
      PROVE  upTo[i] = upTo[i - 1] + IF i \in places THEN list[i] ELSE 0
  <2>1. i \in 0..n /\ i # 0
    BY <1>0
  <2> QED
    BY <1>4, <2>1, Zenon
<1>7. \A k \in 0..n : upTo[k] \in Int
  <2> DEFINE T == {k \in Nat : k <= n => upTo[k] \in Int}
  <2>1. 0 \in T
    BY <1>0, <1>5
  <2>2. ASSUME NEW k \in Nat, k \in T PROVE k + 1 \in T
    <3> SUFFICES ASSUME k + 1 <= n PROVE upTo[k + 1] \in Int
      OBVIOUS
    <3>1. k + 1 \in 1..n /\ upTo[k] \in Int
      BY <1>0, <2>2
    <3>2. upTo[k + 1] = upTo[k] + at(k + 1)
      <4>1. k + 1 - 1 = k
        OBVIOUS
      <4> QED
        BY <1>6, <3>1, <4>1
    <3>3. at(k + 1) \in Int
      BY <1>0, <3>1
    <3> QED
      BY <3>1, <3>2, <3>3
  <2>3. Nat \subseteq T
    <3> HIDE DEF T
    <3> QED
      BY <2>1, <2>2, Induct
  <2> QED
    BY <1>0, <2>3
<1>8. upTo \in [0..n -> Int]
  BY <1>4, <1>7
<1> QED
  BY <1>1, <1>5, <1>6, <1>8 DEF SummedBy

LEMMA SumType ==
  ASSUME NEW list \in Seq(Int), NEW places
  PROVE  SumOver(list, places) \in Int
<1>1. PICK f \in [0..Len(list) -> Int] : SummedBy(f, list, places)
  BY SumSteps
<1> QED
  BY <1>1 DEF SummedBy

\* What is larger at every place has the larger sum.
LEMMA SumCompare ==
  ASSUME NEW s \in Seq(Int), NEW P, NEW t \in Seq(Int), NEW Q, Len(s) = Len(t),
         \A i \in 1..Len(s) : (IF i \in P THEN s[i] ELSE 0) <= (IF i \in Q THEN t[i] ELSE 0)
  PROVE  SumOver(s, P) <= SumOver(t, Q)
<1> DEFINE n == Len(s)
<1>1. PICK f \in [0..n -> Int] : SummedBy(f, s, P)
  BY SumSteps
<1>2. PICK g \in [0..n -> Int] : SummedBy(g, t, Q)
  BY SumSteps
<1> DEFINE T == {k \in Nat : k <= n => f[k] <= g[k]}
<1>3. n \in Nat /\ \A i \in 1..n : s[i] \in Int /\ t[i] \in Int
  OBVIOUS
<1>4. 0 \in T
  BY <1>1, <1>2 DEF SummedBy
<1>5. ASSUME NEW k \in Nat, k \in T PROVE k + 1 \in T
  <2> SUFFICES ASSUME k + 1 <= n PROVE f[k + 1] <= g[k + 1]
    OBVIOUS
  <2> DEFINE x == IF k + 1 \in P THEN s[k + 1] ELSE 0
             y == IF k + 1 \in Q THEN t[k + 1] ELSE 0
  <2>1. k + 1 \in 1..n /\ k \in 0..n /\ f[k] <= g[k] /\ k + 1 - 1 = k
    BY <1>3, <1>5
  <2>2. f[k + 1] = f[k] + x /\ g[k + 1] = g[k] + y
    BY <1>1, <1>2, <2>1 DEF SummedBy
  <2>3. x \in Int /\ y \in Int /\ x <= y
    BY <1>3, <2>1
  <2>4. f[k] \in Int /\ g[k] \in Int
    BY <2>1
  <2> HIDE DEF x, y
  <2> QED
    BY <2>1, <2>2, <2>3, <2>4
<1>6. n \in T
  <2> HIDE DEF T
  <2> QED
    BY <1>3, <1>4, <1>5, Induct
<1> QED
  BY <1>1, <1>2, <1>3, <1>6 DEF SummedBy

LEMMA SumMonotone ==
  ASSUME NEW s \in Seq(Int), NEW P, NEW Q, P \subseteq Q,
         \A i \in Q : i \in 1..Len(s) /\ i \notin P => s[i] >= 0
  PROVE  SumOver(s, P) <= SumOver(s, Q)
BY SumCompare

LEMMA SumEmpty ==
  ASSUME NEW s \in Seq(Int)
  PROVE  SumOver(s, {}) = 0
<1>1. PICK f \in [0..Len(s) -> Int] : SummedBy(f, s, {})
  BY SumSteps
<1> DEFINE n == Len(s)
           T == {k \in Nat : k <= n => f[k] = 0}
<1>2. 0 \in T
  BY <1>1 DEF SummedBy
<1>3. ASSUME NEW k \in Nat, k \in T PROVE k + 1 \in T
  <2>1. k + 1 <= n => k + 1 \in 1..n
    OBVIOUS
  <2> QED
    BY <1>1, <1>3, <2>1 DEF SummedBy
<1>4. n \in T
  <2>1. n \in Nat
    OBVIOUS
  <2> HIDE DEF T
  <2> QED
    BY <1>2, <1>3, <2>1, Induct
<1> QED
  BY <1>1, <1>4 DEF SummedBy

\* One place more.
LEMMA SumAdd ==
  ASSUME NEW s \in Seq(Int), NEW P, NEW j \in 1..Len(s), j \notin P
  PROVE  SumOver(s, P \cup {j}) = SumOver(s, P) + s[j]
<1> DEFINE n == Len(s)
           Q == P \cup {j}
<1>1. PICK f \in [0..n -> Int] : SummedBy(f, s, P)
  BY SumSteps
<1>2. PICK g \in [0..n -> Int] : SummedBy(g, s, Q)
  BY SumSteps
<1> DEFINE T == {k \in Nat : k <= n => g[k] = f[k] + IF k < j THEN 0 ELSE s[j]}
<1>3. n \in Nat /\ j \in 1..n /\ \A i \in 1..n : s[i] \in Int
  OBVIOUS
<1>4. 0 \in T
  BY <1>1, <1>2, <1>3 DEF SummedBy
<1>5. ASSUME NEW k \in Nat, k \in T PROVE k + 1 \in T
  <2> SUFFICES ASSUME k + 1 <= n
               PROVE  g[k + 1] = f[k + 1] + IF k + 1 < j THEN 0 ELSE s[j]
    OBVIOUS
  <2> DEFINE x == IF k + 1 \in P THEN s[k + 1] ELSE 0
             y == IF k + 1 \in Q THEN s[k + 1] ELSE 0
  <2>1. k + 1 \in 1..n /\ k \in 0..n /\ k + 1 - 1 = k
        /\ g[k] = f[k] + IF k < j THEN 0 ELSE s[j]
    BY <1>3, <1>5
  <2>2. f[k + 1] = f[k] + x /\ g[k + 1] = g[k] + y
    BY <1>1, <1>2, <2>1 DEF SummedBy
  <2>3. x \in Int /\ y \in Int /\ y = x + IF k + 1 = j THEN s[j] ELSE 0
    BY <1>3, <2>1
  <2>4. f[k] \in Int /\ g[k] \in Int
    BY <2>1
  <2> HIDE DEF x, y, Q
  <2> QED
    BY <1>3, <2>1, <2>2, <2>3, <2>4
<1>6. n \in T
  <2> HIDE DEF T
  <2> QED
    BY <1>3, <1>4, <1>5, Induct
<1> QED
  BY <1>1, <1>2, <1>3, <1>6 DEF SummedBy

\* With c taken from every member, a sum is less by c for each place.
LEMMA SumLess ==
  ASSUME NEW s \in Seq(Int), NEW t \in Seq(Int), Len(s) = Len(t), NEW c \in Int,
         \A i \in 1..Len(s) : t[i] = s[i] - c, NEW P \in SUBSET (1..Len(s))
  PROVE  SumOver(t, P) = SumOver(s, P) - c * Cardinality(P)
<1> DEFINE n == Len(s)
           card(k) == Cardinality(P \cap (1..k))
<1>1. PICK f \in [0..n -> Int] : SummedBy(f, s, P)
  BY SumSteps
<1>2. PICK g \in [0..n -> Int] : SummedBy(g, t, P)
  BY SumSteps
<1>3. n \in Nat /\ \A i \in 1..n : s[i] \in Int /\ t[i] \in Int /\ t[i] = s[i] - c
  OBVIOUS
<1> DEFINE T == {k \in Nat : k <= n => card(k) \in Nat /\ g[k] = f[k] - c * card(k)}
<1>4. 0 \in T
  <2>1. P \cap (1..0) = {} /\ card(0) = 0
    BY FS_EmptySet
  <2> QED
    BY <1>1, <1>2, <2>1 DEF SummedBy
<1>5. ASSUME NEW k \in Nat, k \in T PROVE k + 1 \in T
  <2> SUFFICES ASSUME k + 1 <= n
               PROVE  card(k + 1) \in Nat /\ g[k + 1] = f[k + 1] - c * card(k + 1)
    OBVIOUS
  <2> DEFINE x == IF k + 1 \in P THEN s[k + 1] ELSE 0
             y == IF k + 1 \in P THEN t[k + 1] ELSE 0
             one == IF k + 1 \in P THEN 1 ELSE 0
  <2>1. k + 1 \in 1..n /\ k \in 0..n /\ k + 1 - 1 = k
        /\ card(k) \in Nat /\ g[k] = f[k] - c * card(k)
    BY <1>3, <1>5
  <2>2. f[k + 1] = f[k] + x /\ g[k + 1] = g[k] + y
    BY <1>1, <1>2, <2>1 DEF SummedBy
  <2>3. card(k + 1) = card(k) + one
    <3>1. IsFiniteSet(P \cap (1..k))
      <4>1. IsFiniteSet(1..k)
        BY FS_Interval
      <4> QED
        BY <4>1, FS_Intersection
    <3>2. CASE k + 1 \in P
      <4>1. P \cap (1..k + 1) = (P \cap (1..k)) \cup {k + 1} /\ k + 1 \notin P \cap (1..k)
        BY <3>2
      <4> QED
        BY <3>1, <3>2, <4>1, FS_AddElement
    <3>3. CASE k + 1 \notin P
      <4>1. P \cap (1..k + 1) = P \cap (1..k)
        BY <3>3
      <4>2. card(k + 1) = card(k) /\ one = 0
        BY <3>3, <4>1
      <4> QED
        BY <2>1, <4>2
    <3> QED
      BY <3>2, <3>3
  <2>4. x \in Int /\ y \in Int /\ one \in {0, 1} /\ y = x - c * one
    BY <1>3, <2>1
  <2>5. f[k] \in Int /\ g[k] \in Int
    BY <2>1
  <2> HIDE DEF x, y, card
  <2> DEFINE m == card(k)
             cm == c * m
             co == c * one
  <2>6. c * (m + one) = cm + co
    BY <2>1, <2>4
  <2>7. cm \in Int /\ co \in Int
    BY <2>1, <2>4
  <2>8. y = x - co /\ g[k] = f[k] - cm /\ m \in Nat
    BY <2>1, <2>4
  <2>9. card(k + 1) = m + one /\ c * card(k + 1) = cm + co
    BY <2>3, <2>6
  <2> HIDE DEF m, one, cm, co
  <2>10. card(k + 1) \in Nat
    BY <2>4, <2>8, <2>9
  <2>11. g[k + 1] = f[k + 1] - (cm + co)
    BY <2>2, <2>4, <2>5, <2>7, <2>8
  <2> QED
    BY <2>9, <2>10, <2>11
<1>6. n \in T
  <2> HIDE DEF T
  <2> QED
    BY <1>3, <1>4, <1>5, Induct
<1>7. P \cap (1..n) = P /\ card(n) = Cardinality(P)
  OBVIOUS
<1>8. g[n] = f[n] - c * Cardinality(P)
  BY <1>3, <1>6, <1>7
<1> QED
  BY <1>1, <1>2, <1>8 DEF SummedBy

=============================================================================
