----------------------- MODULE EthereumAccountProofs -----------------------
(***************************************************************************)
(* The history of an account is in order and loses nothing, and what the   *)
(* user has sent is always to be seen: for any transactions, any threshold *)
(* and any number of blocks, reorganisations and syncs.                    *)
(***************************************************************************)
EXTENDS EthereumAccount, ListProofs, SequenceTheorems, FiniteSetTheorems, TLAPS

Ops == [hash : Txs, height : Nat]

(***************************************************************************)
(* The order of operations.                                                *)
(***************************************************************************)

\* No transaction is there twice.
Once(s) == \A x, y : Before(s, x, y) => x.hash # y.hash

LEMMA SortedIs ==
  ASSUME NEW A, NEW s \in Seq(A)
  PROVE  SortedOnce(s)
           <=> \A x, y : Before(s, x, y) => x.hash # y.hash /\ x.height >= y.height
<1>1. ASSUME SortedOnce(s), NEW x, NEW y, Before(s, x, y)
      PROVE  x.hash # y.hash /\ x.height >= y.height
  BY <1>1 DEF SortedOnce, Before
<1>2. ASSUME \A x, y : Before(s, x, y) => x.hash # y.hash /\ x.height >= y.height
      PROVE  SortedOnce(s)
  <2> SUFFICES ASSUME NEW i \in DOMAIN s, NEW j \in DOMAIN s, i < j
               PROVE  s[i].hash # s[j].hash /\ s[i].height >= s[j].height
    BY DEF SortedOnce
  <2>1. Before(s, s[i], s[j])
    BY DEF Before
  <2> QED
    BY <1>2, <2>1
<1> QED
  BY <1>1, <1>2

LEMMA OnceIs ==
  ASSUME NEW s \in Seq(Ops), Once(s)
  PROVE  \A x, y \in ToSet(s) : x.hash = y.hash => x = y
<1> SUFFICES ASSUME NEW x \in ToSet(s), NEW y \in ToSet(s), x.hash = y.hash, x # y
             PROVE  FALSE
  OBVIOUS
<1>1. PICK i \in 1..Len(s), j \in 1..Len(s) : s[i] = x /\ s[j] = y
  BY SeqFacts
<1>2. Len(s) \in Nat /\ DOMAIN s = 1..Len(s) /\ i # j
  BY <1>1
<1>3. Before(s, x, y) \/ Before(s, y, x)
  <2>1. CASE i < j
    BY <1>1, <1>2, <2>1 DEF Before
  <2>2. CASE j < i
    BY <1>1, <1>2, <2>2 DEF Before
  <2> QED
    BY <1>2, <2>1, <2>2
<1> QED
  BY <1>3 DEF Once

LEMMA KeepingSorted ==
  ASSUME NEW s \in Seq(Ops), NEW kept
  PROVE  /\ Keeping(s, kept) \in Seq(Ops)
         /\ ToSet(Keeping(s, kept)) = ToSet(s) \cap kept
         /\ SortedOnce(s) => SortedOnce(Keeping(s, kept))
         /\ Once(s) => Once(Keeping(s, kept))
<1> DEFINE r == Keeping(s, kept)
<1>1. /\ r \in Seq(Ops)
      /\ ToSet(r) = ToSet(s) \cap kept
      /\ \A x, y : Before(r, x, y) => Before(s, x, y)
  BY KeepingFacts
<1> HIDE DEF r
<1>2. SortedOnce(s) => SortedOnce(r)
  BY <1>1, SortedIs
<1>3. Once(s) => Once(r)
  BY <1>1 DEF Once
<1> QED
  BY <1>1, <1>2, <1>3 DEF r

LEMMA FromFacts ==
  ASSUME NEW s \in Seq(Ops), NEW h \in Nat
  PROVE  /\ From(s, h) \in Seq(Ops)
         /\ ToSet(From(s, h)) = {o \in ToSet(s) : o.height >= h}
         /\ SortedOnce(s) => SortedOnce(From(s, h))
BY KeepingSorted DEF From

LEMMA BelowFacts ==
  ASSUME NEW s \in Seq(Ops), NEW h \in Nat
  PROVE  /\ Below(s, h) \in Seq(Ops)
         /\ ToSet(Below(s, h)) = {o \in ToSet(s) : o.height < h}
         /\ SortedOnce(s) => SortedOnce(Below(s, h))
BY KeepingSorted DEF Below

\* Two sorted lists of which the second has other and not newer operations.
LEMMA SortedConcat ==
  ASSUME NEW s \in Seq(Ops), NEW t \in Seq(Ops), SortedOnce(s), SortedOnce(t),
         \A x \in ToSet(s), y \in ToSet(t) : x.hash # y.hash /\ x.height >= y.height
  PROVE  s \o t \in Seq(Ops) /\ SortedOnce(s \o t) /\ ToSet(s \o t) = ToSet(s) \cup ToSet(t)
<1> DEFINE r == s \o t
<1>1. r \in Seq(Ops) /\ ToSet(r) = ToSet(s) \cup ToSet(t)
  BY ConcatFacts
<1>2. \A x, y : Before(r, x, y)
                  => \/ Before(s, x, y) \/ Before(t, x, y)
                     \/ x \in ToSet(s) /\ y \in ToSet(t)
  BY ConcatOrder
<1> HIDE DEF r
<1>3. SortedOnce(r)
  BY <1>1, <1>2, SortedIs
<1> QED
  BY <1>1, <1>3 DEF r

LEMMA EmptySorted == <<>> \in Seq(Ops) /\ ToSet(<<>>) = {} /\ SortedOnce(<<>>) /\ Once(<<>>)
BY EmptyFacts DEF SortedOnce, Once

LEMMA SingleSorted ==
  ASSUME NEW o \in Ops
  PROVE  <<o>> \in Seq(Ops) /\ ToSet(<<o>>) = {o} /\ SortedOnce(<<o>>)
<1> DEFINE r == <<o>>
<1>1. r \in Seq(Ops) /\ ToSet(r) = {o} /\ \A x, y : ~Before(r, x, y)
  BY SingleFacts
<1> HIDE DEF r
<1>2. SortedOnce(r)
  BY <1>1, SortedIs
<1> QED
  BY <1>1, <1>2 DEF r

(***************************************************************************)
(* The sort.                                                               *)
(***************************************************************************)

\* An operation goes after those that are not older.
Inserted(sorted, o) == From(sorted, o.height) \o <<o>> \o Below(sorted, o.height)

LEMMA InsertedFacts ==
  ASSUME NEW s \in Seq(Ops), NEW o \in Ops
  PROVE  /\ Inserted(s, o) \in Seq(Ops)
         /\ ToSet(Inserted(s, o)) = ToSet(s) \cup {o}
         /\ SortedOnce(s) /\ (\A x \in ToSet(s) : x.hash # o.hash)
              => SortedOnce(Inserted(s, o))
<1> DEFINE f == From(s, o.height)
           b == Below(s, o.height)
           e == <<o>>
           fe == f \o e
<1>0. o.height \in Nat /\ ToSet(s) \subseteq Ops
  BY SeqFacts DEF Ops
<1>1. /\ f \in Seq(Ops) /\ ToSet(f) = {x \in ToSet(s) : x.height >= o.height}
      /\ SortedOnce(s) => SortedOnce(f)
  BY <1>0, FromFacts
<1>2. /\ b \in Seq(Ops) /\ ToSet(b) = {x \in ToSet(s) : x.height < o.height}
      /\ SortedOnce(s) => SortedOnce(b)
  BY <1>0, BelowFacts
<1>3. e \in Seq(Ops) /\ ToSet(e) = {o} /\ SortedOnce(e)
  BY SingleSorted
<1> HIDE DEF f, b, e
<1>4. fe \in Seq(Ops) /\ ToSet(fe) = ToSet(f) \cup ToSet(e)
  BY <1>1, <1>3, ConcatFacts
<1>5. fe \o b \in Seq(Ops) /\ ToSet(fe \o b) = ToSet(fe) \cup ToSet(b)
  <2> HIDE DEF fe
  <2> QED
    BY <1>2, <1>4, ConcatFacts
<1>6. ToSet(s) = ToSet(f) \cup ToSet(b)
  <2>1. \A x \in ToSet(s) : x.height \in Nat
    BY <1>0 DEF Ops
  <2> QED
    BY <1>0, <1>1, <1>2, <2>1
<1>7. ToSet(fe \o b) = ToSet(s) \cup {o}
  BY <1>3, <1>4, <1>5, <1>6
<1>8. ASSUME SortedOnce(s), \A x \in ToSet(s) : x.hash # o.hash
      PROVE  SortedOnce(fe \o b)
  <2>1. SortedOnce(fe)
    BY <1>1, <1>3, <1>8, SortedConcat
  <2>2. \A x \in ToSet(fe), y \in ToSet(b) : x.hash # y.hash /\ x.height >= y.height
    <3> SUFFICES ASSUME NEW x \in ToSet(fe), NEW y \in ToSet(b)
                 PROVE  x.hash # y.hash /\ x.height >= y.height
      OBVIOUS
    <3>1. y \in ToSet(s) /\ y.height < o.height /\ y.height \in Nat
      BY <1>0, <1>2 DEF Ops
    <3>2. CASE x = o
      BY <1>0, <1>8, <3>1, <3>2
    <3>3. CASE x \in ToSet(f)
      <4>1. x \in ToSet(s) /\ x.height >= o.height /\ x.height \in Nat
        BY <1>0, <1>1, <3>3 DEF Ops
      <4>2. x # y
        BY <1>0, <3>1, <4>1
      <4>3. Once(s)
        BY <1>8, SortedIs DEF Once
      <4> QED
        BY <1>0, <3>1, <4>1, <4>2, <4>3, OnceIs
    <3> QED
      BY <1>3, <1>4, <3>2, <3>3
  <2> HIDE DEF fe
  <2> QED
    BY <1>2, <1>4, <1>8, <2>1, <2>2, SortedConcat
<1>9. Inserted(s, o) = fe \o b
  BY DEF Inserted, f, b, e
<1> QED
  BY <1>5, <1>7, <1>8, <1>9

\* The function that NewestFirst is the last value of.
SortedBy(f, s) ==
  /\ f[0] = <<>>
  /\ \A i \in 1..Len(s) : f[i] = Inserted(f[i - 1], s[i])
  /\ NewestFirst(s) = f[Len(s)]

LEMMA NewestFirstSteps ==
  ASSUME NEW s \in Seq(Ops)
  PROVE  \E f \in [0..Len(s) -> Seq(Ops)] : SortedBy(f, s)
<1> DEFINE n == Len(s)
           S == Seq(Ops)
           Rec(f) == f = [i \in 0..n |->
                            IF i = 0 THEN <<>>
                            ELSE From(f[i - 1], s[i].height) \o <<s[i]>>
                                   \o Below(f[i - 1], s[i].height)]
           upTo == CHOOSE f : Rec(f)
           F == [i \in 1..n |-> [l \in S |-> Inserted(l, s[i])]]
<1>0. n \in Nat /\ <<>> \in S /\ \A i \in 1..n : s[i] \in Ops
  OBVIOUS
<1>1. NewestFirst(s) = upTo[n]
  BY DEF NewestFirst
<1>2. F \in [1..n -> [S -> S]]
  BY <1>0, InsertedFacts
<1>3. PICK f \in [0..n -> S] :
        f[0] = <<>> /\ \A i \in 1..n : f[i] = F[i][f[i - 1]]
  <2> HIDE DEF F, n, S
  <2>1. Iterated(S, n, <<>>, F)
    BY <1>0, <1>2, Iterates
  <2> QED
    BY <2>1 DEF Iterated
<1>4. ASSUME NEW i \in 1..n
      PROVE  f[i] = Inserted(f[i - 1], s[i]) /\ f[i - 1] \in S
  <2>1. i - 1 \in 0..n
    BY <1>0
  <2>2. f[i - 1] \in S
    BY <2>1
  <2> QED
    BY <1>3, <2>2
<1>5. Rec(f)
  <2>1. ASSUME NEW i \in 0..n
        PROVE  f[i] = IF i = 0 THEN <<>>
                      ELSE From(f[i - 1], s[i].height) \o <<s[i]>>
                             \o Below(f[i - 1], s[i].height)
    <3>1. CASE i = 0
      BY <1>3, <3>1
    <3>2. CASE i # 0
      <4>1. i \in 1..n
        BY <1>0, <3>2
      <4>2. f[i] = Inserted(f[i - 1], s[i])
        BY <1>4, <4>1
      <4> QED
        BY <3>2, <4>2, Zenon DEF Inserted
    <3> QED
      BY <3>1, <3>2
  <2>2. f = [i \in 0..n |-> f[i]]
    OBVIOUS
  <2> QED
    BY <2>1, <2>2, Zenon
<1>6. Rec(upTo)
  <2> HIDE DEF Rec
  <2> QED
    BY <1>5
<1> HIDE DEF upTo
<1>7. upTo[0] = <<>>
  BY <1>0, <1>6
<1>8. ASSUME NEW i \in 1..n PROVE upTo[i] = Inserted(upTo[i - 1], s[i])
  <2>1. i \in 0..n /\ i # 0
    BY <1>0
  <2> QED
    BY <1>6, <2>1, Zenon DEF Inserted
<1>9. \A k \in 0..n : upTo[k] \in S
  <2> DEFINE T == {k \in Nat : k <= n => upTo[k] \in S}
  <2>1. 0 \in T
    BY <1>0, <1>7
  <2>2. ASSUME NEW k \in Nat, k \in T PROVE k + 1 \in T
    <3> SUFFICES ASSUME k + 1 <= n PROVE upTo[k + 1] \in S
      OBVIOUS
    <3>1. k + 1 \in 1..n /\ upTo[k] \in S /\ s[k + 1] \in Ops
      BY <1>0, <2>2
    <3>2. upTo[k + 1] = Inserted(upTo[k], s[k + 1])
      BY <1>8, <3>1
    <3> QED
      BY <3>1, <3>2, InsertedFacts
  <2>3. Nat \subseteq T
    <3> HIDE DEF T
    <3> QED
      BY <2>1, <2>2, Induct
  <2> QED
    BY <1>0, <2>3
<1>10. upTo \in [0..n -> S]
  BY <1>6, <1>9
<1> QED
  BY <1>1, <1>7, <1>8, <1>10 DEF SortedBy

\* NewestFirst sorts what holds no transaction twice.
LEMMA NewestFirstFacts ==
  ASSUME NEW s \in Seq(Ops), Once(s)
  PROVE  /\ NewestFirst(s) \in Seq(Ops)
         /\ ToSet(NewestFirst(s)) = ToSet(s)
         /\ SortedOnce(NewestFirst(s))
<1> DEFINE n == Len(s)
<1>1. PICK f \in [0..n -> Seq(Ops)] :
        /\ f[0] = <<>>
        /\ \A i \in 1..n : f[i] = Inserted(f[i - 1], s[i])
        /\ NewestFirst(s) = f[n]
  BY NewestFirstSteps DEF SortedBy
<1>2. n \in Nat /\ DOMAIN s = 1..n /\ \A i \in 1..n : s[i] \in Ops
  OBVIOUS
<1>3. \A x : x \in ToSet(s) <=> \E i \in 1..n : s[i] = x
  BY SeqFacts
<1> HIDE DEF n
<1>4. \A i, j \in 1..n : i < j => s[i].hash # s[j].hash
  BY <1>2 DEF Once, Before
<1> DEFINE Right(k) ==
             /\ SortedOnce(f[k])
             /\ \A x : x \in ToSet(f[k]) <=> \E i \in 1..k : s[i] = x
           T == {k \in Nat : k <= n => Right(k)}
<1>5. 0 \in T
  BY <1>1, EmptySorted
<1>6. ASSUME NEW k \in Nat, k \in T PROVE k + 1 \in T
  <2> SUFFICES ASSUME k + 1 <= n PROVE Right(k + 1)
    OBVIOUS
  <2>1. k + 1 \in 1..n /\ k \in 0..n /\ Right(k)
    <3> HIDE DEF Right
    <3> QED
      BY <1>2, <1>6
  <2> DEFINE l == f[k]
             o == s[k + 1]
  <2>2. l \in Seq(Ops) /\ o \in Ops /\ f[k + 1] = Inserted(l, o)
    BY <1>1, <1>2, <2>1
  <2>3. SortedOnce(l) /\ \A x : x \in ToSet(l) <=> \E i \in 1..k : s[i] = x
    BY <2>1
  <2>4. \A x \in ToSet(l) : x.hash # o.hash
    <3>1. ASSUME NEW i \in 1..k PROVE s[i].hash # o.hash
      <4>1. i \in 1..n /\ i < k + 1
        BY <1>2, <2>1
      <4> QED
        BY <1>4, <2>1, <4>1
    <3> HIDE DEF l, o
    <3> QED
      BY <2>3, <3>1
  <2> HIDE DEF l
  <2>5. SortedOnce(f[k + 1]) /\ ToSet(f[k + 1]) = ToSet(l) \cup {o}
    <3> HIDE DEF o
    <3> QED
      BY <2>2, <2>3, <2>4, InsertedFacts
  <2>6. \A x : (\E i \in 1..k + 1 : s[i] = x) <=> (\E i \in 1..k : s[i] = x) \/ x = o
    BY <1>6
  <2> QED
    BY <2>3, <2>5, <2>6
<1>7. Right(n)
  <2>1. n \in T
    <3> HIDE DEF T
    <3> QED
      BY <1>2, <1>5, <1>6, Induct
  <2> HIDE DEF Right
  <2> QED
    BY <1>2, <2>1
<1>8. NewestFirst(s) \in Seq(Ops)
  BY <1>1, <1>2
<1>9. ToSet(NewestFirst(s)) = ToSet(s)
  BY <1>1, <1>3, <1>7
<1> QED
  BY <1>1, <1>7, <1>8, <1>9

(***************************************************************************)
(* The merge.                                                              *)
(***************************************************************************)

Merges == [all : Seq(Ops), left : Seq(Ops)]

\* The operation stays unless it is among the new ones.
Kept(o, new) == IF o.hash \in Hashes(new) THEN <<>> ELSE <<o>>

\* One pass of the loop.
Merged(m, o, new) ==
  [all |-> m.all \o From(m.left, o.height) \o Kept(o, new),
   left |-> Below(m.left, o.height)]

LEMMA MergedIs ==
  ASSUME NEW m \in Merges, NEW o \in Ops, NEW new
  PROVE  Merged(m, o, new) \in Merges
<1> DEFINE f == From(m.left, o.height)
           b == Below(m.left, o.height)
           k == Kept(o, new)
<1>0. m.all \in Seq(Ops) /\ m.left \in Seq(Ops) /\ o.height \in Nat
  BY DEF Merges, Ops
<1>1. f \in Seq(Ops) /\ b \in Seq(Ops)
  BY <1>0, FromFacts, BelowFacts
<1>2. k \in Seq(Ops)
  BY SingleSorted, EmptySorted DEF Kept
<1> HIDE DEF f, b, k
<1>3. m.all \o f \in Seq(Ops)
  BY <1>0, <1>1, ConcatFacts
<1>4. (m.all \o f) \o k \in Seq(Ops)
  BY <1>2, <1>3, ConcatFacts
<1>5. Merged(m, o, new) = [all |-> (m.all \o f) \o k, left |-> b]
  BY DEF Merged, f, b, k
<1> QED
  BY <1>1, <1>4, <1>5 DEF Merges

\* The function that mergeOps is the last value of.
MergedBy(f, s, new) ==
  /\ f[0] = [all |-> <<>>, left |-> new]
  /\ \A i \in 1..Len(s) : f[i] = Merged(f[i - 1], s[i], new)

LEMMA MergeSteps ==
  ASSUME NEW s \in Seq(Ops), NEW t, NEW new \in Seq(Ops),
         new = NewestFirst(Without(t, ToSet(s))), new # <<>>, s # <<>>
  PROVE  \E f \in [0..Len(s) -> Merges] :
           MergedBy(f, s, new) /\ mergeOps(s, t) = f[Len(s)].all
<1> DEFINE n == Len(s)
           S == Merges
           Step(m, o) == [all |-> m.all \o From(m.left, o.height)
                                    \o IF o.hash \in Hashes(new) THEN <<>> ELSE <<o>>,
                          left |-> Below(m.left, o.height)]
           b == [all |-> <<>>, left |-> new]
           Rec(f) == f = [i \in 0..n |->
                            IF i = 0 THEN b ELSE Step(f[i - 1], s[i])]
           upTo == CHOOSE f : Rec(f)
           F == [i \in 1..n |-> [m \in S |-> Merged(m, s[i], new)]]
<1>0. n \in Nat /\ b \in S /\ \A i \in 1..n : s[i] \in Ops
  BY DEF Merges
<1>1. mergeOps(s, t) = upTo[n].all
  BY DEF mergeOps
<1>2. F \in [1..n -> [S -> S]]
  BY <1>0, MergedIs
<1>3. PICK f \in [0..n -> S] :
        f[0] = b /\ \A i \in 1..n : f[i] = F[i][f[i - 1]]
  <2> HIDE DEF F, n, S, b
  <2>1. Iterated(S, n, b, F)
    BY <1>0, <1>2, Iterates
  <2> QED
    BY <2>1 DEF Iterated
<1>4. ASSUME NEW i \in 1..n
      PROVE  f[i] = Merged(f[i - 1], s[i], new) /\ f[i - 1] \in S
  <2>1. i - 1 \in 0..n
    BY <1>0
  <2>2. f[i - 1] \in S
    BY <2>1
  <2> QED
    BY <1>3, <2>2
<1>5. \A m, o : Step(m, o) = Merged(m, o, new)
  BY DEF Merged, Kept
<1> HIDE DEF Step
<1>6. Rec(f)
  <2>1. ASSUME NEW i \in 0..n
        PROVE  f[i] = IF i = 0 THEN b ELSE Step(f[i - 1], s[i])
    <3>1. CASE i = 0
      BY <1>3, <3>1
    <3>2. CASE i # 0
      <4>1. i \in 1..n
        BY <1>0, <3>2
      <4>2. f[i] = Merged(f[i - 1], s[i], new)
        BY <1>4, <4>1
      <4> QED
        BY <1>5, <3>2, <4>2, Zenon
    <3> QED
      BY <3>1, <3>2
  <2>2. f = [i \in 0..n |-> f[i]]
    OBVIOUS
  <2> QED
    BY <2>1, <2>2, Zenon
<1>7. Rec(upTo)
  <2> HIDE DEF Rec
  <2> QED
    BY <1>6
<1> HIDE DEF upTo
<1>8. upTo[0] = b
  <2> HIDE DEF b
  <2> QED
    BY <1>0, <1>7
<1>9. ASSUME NEW i \in 1..n PROVE upTo[i] = Merged(upTo[i - 1], s[i], new)
  <2>1. i \in 0..n /\ i # 0
    BY <1>0
  <2>2. upTo[i] = Step(upTo[i - 1], s[i])
    <3> HIDE DEF b
    <3> QED
      BY <1>7, <2>1, Zenon
  <2> QED
    BY <1>5, <2>2, Zenon
<1>10. \A k \in 0..n : upTo[k] \in S
  <2> HIDE DEF b, S
  <2> DEFINE T == {k \in Nat : k <= n => upTo[k] \in S}
  <2>1. 0 \in T
    BY <1>0, <1>8
  <2>2. ASSUME NEW k \in Nat, k \in T PROVE k + 1 \in T
    <3> SUFFICES ASSUME k + 1 <= n PROVE upTo[k + 1] \in S
      OBVIOUS
    <3>1. k + 1 \in 1..n /\ upTo[k] \in S /\ s[k + 1] \in Ops
      BY <1>0, <2>2
    <3>2. upTo[k + 1] = Merged(upTo[k], s[k + 1], new)
      BY <1>9, <3>1
    <3> QED
      BY <3>1, <3>2, MergedIs DEF S
  <2>3. Nat \subseteq T
    <3> HIDE DEF T
    <3> QED
      BY <2>1, <2>2, Induct
  <2> QED
    BY <1>0, <2>3
<1>11. upTo \in [0..n -> S]
  <2> HIDE DEF b
  <2> QED
    BY <1>7, <1>10
<1> QED
  BY <1>1, <1>8, <1>9, <1>11 DEF MergedBy

\* What holds after the first k passes.
Passed(m, s, new, k) ==
  /\ SortedOnce(m.all) /\ SortedOnce(m.left)
  /\ ToSet(m.left) \subseteq ToSet(new)
  /\ \A x \in ToSet(m.all), y \in ToSet(m.left) : x.hash # y.hash /\ x.height >= y.height
  /\ \A x \in ToSet(m.all) :
       x \in ToSet(new) \/ (x.hash \notin Hashes(new) /\ \E i \in 1..k : s[i] = x)
  /\ k = 0 => ToSet(m.all) = {}
  /\ k # 0 => \A x \in ToSet(m.all) : x.height >= s[k].height
  /\ \A i \in 1..k : s[i].hash \notin Hashes(new) => s[i] \in ToSet(m.all)
  /\ \A y \in ToSet(new) :
       y \in ToSet(m.all) \/ (y \in ToSet(m.left) /\ \A i \in 1..k : y.height < s[i].height)

LEMMA HashesAre ==
  ASSUME NEW s
  PROVE  \A h : h \in Hashes(s) <=> \E o \in ToSet(s) : o.hash = h
BY DEF Hashes

LEMMA PassFacts ==
  ASSUME NEW s \in Seq(Ops), NEW new \in Seq(Ops), SortedOnce(s), SortedOnce(new),
         NEW k \in Nat, k + 1 <= Len(s), NEW m \in Merges, Passed(m, s, new, k)
  PROVE  Passed(Merged(m, s[k + 1], new), s, new, k + 1)
<1> DEFINE o == s[k + 1]
           a == m.all
           l == m.left
           f == From(l, o.height)
           b == Below(l, o.height)
           e == Kept(o, new)
           af == a \o f
           r == af \o e
<1>1. Len(s) \in Nat /\ DOMAIN s = 1..Len(s) /\ o \in Ops /\ k + 1 \in 1..Len(s)
  OBVIOUS
<1>2. a \in Seq(Ops) /\ l \in Seq(Ops) /\ o.height \in Nat
  BY <1>1 DEF Merges, Ops
<1>3. /\ SortedOnce(a) /\ SortedOnce(l)
      /\ ToSet(l) \subseteq ToSet(new)
      /\ \A x \in ToSet(a), y \in ToSet(l) : x.hash # y.hash /\ x.height >= y.height
      /\ \A x \in ToSet(a) :
           x \in ToSet(new) \/ (x.hash \notin Hashes(new) /\ \E i \in 1..k : s[i] = x)
      /\ k = 0 => ToSet(a) = {}
      /\ k # 0 => \A x \in ToSet(a) : x.height >= s[k].height
      /\ \A i \in 1..k : s[i].hash \notin Hashes(new) => s[i] \in ToSet(a)
      /\ \A y \in ToSet(new) :
           y \in ToSet(a) \/ (y \in ToSet(l) /\ \A i \in 1..k : y.height < s[i].height)
  BY DEF Passed
<1>4. \A i \in 1..k : s[i].hash # o.hash /\ s[i].height >= o.height
  <2> SUFFICES ASSUME NEW i \in 1..k PROVE s[i].hash # o.hash /\ s[i].height >= o.height
    OBVIOUS
  <2>1. i \in 1..Len(s) /\ i < k + 1
    BY <1>1
  <2> QED
    BY <1>1, <2>1 DEF SortedOnce
<1>5. ToSet(a) \subseteq Ops /\ ToSet(l) \subseteq Ops /\ ToSet(new) \subseteq Ops
  BY <1>2, SeqFacts
<1>6. \A x \in Ops : x.height \in Nat
  BY DEF Ops
<1>7. \A i \in 1..k : s[i] \in Ops
  BY <1>1
<1>8. /\ f \in Seq(Ops) /\ SortedOnce(f)
      /\ ToSet(f) = {x \in ToSet(l) : x.height >= o.height}
  BY <1>2, <1>3, FromFacts
<1>9. /\ b \in Seq(Ops) /\ SortedOnce(b)
      /\ ToSet(b) = {x \in ToSet(l) : x.height < o.height}
  BY <1>2, <1>3, BelowFacts
<1>10. /\ e \in Seq(Ops) /\ SortedOnce(e)
       /\ ToSet(e) = IF o.hash \in Hashes(new) THEN {} ELSE {o}
  BY <1>1, SingleSorted, EmptySorted DEF Kept
<1>11. Merged(m, s[k + 1], new) = [all |-> r, left |-> b]
  BY DEF Merged
<1> HIDE DEF o, a, l, f, b, e
<1>12. af \in Seq(Ops) /\ SortedOnce(af) /\ ToSet(af) = ToSet(a) \cup ToSet(f)
  BY <1>2, <1>3, <1>8, SortedConcat
<1>13. \A x \in ToSet(a) : x.height >= o.height
  <2> SUFFICES ASSUME NEW x \in ToSet(a) PROVE x.height >= o.height
    OBVIOUS
  <2>1. k \in 1..k
    BY <1>3
  <2>2. x.height >= s[k].height /\ s[k].height >= o.height
    BY <1>3, <1>4, <2>1
  <2>3. x.height \in Nat /\ s[k].height \in Nat /\ o.height \in Nat
    BY <1>2, <1>5, <1>6, <1>7, <2>1
  <2> QED
    BY <2>2, <2>3
<1>14. \A x \in ToSet(af) : x.height >= o.height
  BY <1>8, <1>12, <1>13
<1>15. /\ r \in Seq(Ops) /\ SortedOnce(r) /\ ToSet(r) = ToSet(af) \cup ToSet(e)
  <2>1. ASSUME o.hash \notin Hashes(new), NEW x \in ToSet(af) PROVE x.hash # o.hash
    <3>1. CASE x \in ToSet(new)
      BY <2>1, <3>1, HashesAre
    <3>2. CASE \E i \in 1..k : s[i] = x
      BY <1>4, <3>2
    <3> QED
      BY <1>3, <1>8, <1>12, <2>1, <3>1, <3>2
  <2>2. \A x \in ToSet(af), y \in ToSet(e) : x.hash # y.hash /\ x.height >= y.height
    BY <1>10, <1>14, <2>1
  <2> HIDE DEF af
  <2> QED
    BY <1>10, <1>12, <2>2, SortedConcat
<1> HIDE DEF af, r
<1>16. ToSet(b) \subseteq ToSet(new)
  BY <1>3, <1>9
<1>17. \A x \in ToSet(r), y \in ToSet(b) : x.hash # y.hash /\ x.height >= y.height
  <2> SUFFICES ASSUME NEW x \in ToSet(r), NEW y \in ToSet(b)
               PROVE  x.hash # y.hash /\ x.height >= y.height
    OBVIOUS
  <2>1. y \in ToSet(l) /\ y.height < o.height /\ y.height \in Nat /\ y \in ToSet(new)
    BY <1>3, <1>5, <1>6, <1>9
  <2>2. CASE x \in ToSet(a)
    BY <1>3, <2>1, <2>2
  <2>3. CASE x \in ToSet(f)
    <3>1. x \in ToSet(l) /\ x.height >= o.height /\ x.height \in Nat /\ x \in ToSet(new)
      BY <1>3, <1>5, <1>6, <1>8, <2>3
    <3>2. x # y
      BY <1>2, <2>1, <3>1
    <3>3. Once(new)
      BY SortedIs DEF Once
    <3> QED
      BY <1>2, <2>1, <3>1, <3>2, <3>3, OnceIs
  <2>4. CASE x = o /\ o.hash \notin Hashes(new)
    BY <1>2, <2>1, <2>4, HashesAre
  <2> QED
    BY <1>10, <1>12, <1>15, <2>2, <2>3, <2>4
<1>18. \A x \in ToSet(r) :
         \/ x \in ToSet(new)
         \/ x.hash \notin Hashes(new) /\ \E i \in 1..k + 1 : s[i] = x
  <2> SUFFICES ASSUME NEW x \in ToSet(r), x \notin ToSet(new)
               PROVE  x.hash \notin Hashes(new) /\ \E i \in 1..k + 1 : s[i] = x
    OBVIOUS
  <2>1. CASE x \in ToSet(a)
    <3>1. x.hash \notin Hashes(new)
      BY <1>3, <2>1
    <3>2. PICK i \in 1..k : s[i] = x
      BY <1>3, <2>1
    <3> QED
      BY <3>1, <3>2
  <2>2. x \notin ToSet(f)
    BY <1>3, <1>8
  <2>3. CASE x = o /\ o.hash \notin Hashes(new)
    BY <2>3 DEF o
  <2> QED
    BY <1>10, <1>12, <1>15, <2>1, <2>2, <2>3
<1>19. \A x \in ToSet(r) : x.height >= s[k + 1].height
  <2>1. o.height >= o.height
    BY <1>2
  <2>2. \A x \in ToSet(r) : x.height >= o.height
    BY <1>10, <1>14, <1>15, <2>1
  <2> QED
    BY <2>2 DEF o
<1>20. ASSUME NEW i \in 1..k + 1, s[i].hash \notin Hashes(new) PROVE s[i] \in ToSet(r)
  <2>1. CASE i \in 1..k
    BY <1>3, <1>12, <1>15, <1>20, <2>1
  <2>2. CASE i = k + 1
    <3>1. s[i] = o
      BY <2>2 DEF o
    <3> QED
      BY <1>10, <1>15, <1>20, <3>1
  <2> QED
    BY <2>1, <2>2
<1>21. \A y \in ToSet(new) :
         \/ y \in ToSet(r)
         \/ y \in ToSet(b) /\ \A i \in 1..k + 1 : y.height < s[i].height
  <2> SUFFICES ASSUME NEW y \in ToSet(new), y \notin ToSet(r)
               PROVE  y \in ToSet(b) /\ \A i \in 1..k + 1 : y.height < s[i].height
    OBVIOUS
  <2>1. y \notin ToSet(a) /\ y \notin ToSet(f)
    BY <1>12, <1>15
  <2>2. y \in ToSet(l) /\ \A i \in 1..k : y.height < s[i].height
    BY <1>3, <2>1
  <2>3. y.height < o.height
    BY <1>2, <1>5, <1>6, <1>8, <2>1, <2>2
  <2>4. y.height < s[k + 1].height
    BY <2>3 DEF o
  <2>5. ASSUME NEW i \in 1..k + 1 PROVE y.height < s[i].height
    <3>1. CASE i = k + 1
      BY <2>4, <3>1
    <3>2. CASE i \in 1..k
      BY <2>2, <3>2
    <3> QED
      BY <3>1, <3>2
  <2> QED
    BY <1>9, <2>2, <2>3, <2>5
<1>22. Passed([all |-> r, left |-> b], s, new, k + 1)
  <2>1. k + 1 # 0
    OBVIOUS
  <2> QED
    BY <1>9, <1>15, <1>16, <1>17, <1>18, <1>19, <1>20, <1>21, <2>1 DEF Passed
<1> QED
  BY <1>11, <1>22

\* What the loop ends with: every operation of s that is not among the new ones, and the
\* new ones that are not older than all of s.
LEMMA LoopFacts ==
  ASSUME NEW s \in Seq(Ops), NEW t, NEW new \in Seq(Ops), SortedOnce(s), SortedOnce(new),
         new = NewestFirst(Without(t, ToSet(s))), new # <<>>, s # <<>>
  PROVE  /\ mergeOps(s, t) \in Seq(Ops)
         /\ SortedOnce(mergeOps(s, t))
         /\ \A x \in ToSet(mergeOps(s, t)) :
              x \in ToSet(new) \/ (x \in ToSet(s) /\ x.hash \notin Hashes(new))
         /\ \A x \in ToSet(s) : x.hash \notin Hashes(new) => x \in ToSet(mergeOps(s, t))
         /\ \A x \in ToSet(s), y \in ToSet(new) :
              y.height >= x.height => y \in ToSet(mergeOps(s, t))
<1> DEFINE n == Len(s)
           r == mergeOps(s, t)
<1>1. PICK f \in [0..n -> Merges] :
        /\ f[0] = [all |-> <<>>, left |-> new]
        /\ \A i \in 1..n : f[i] = Merged(f[i - 1], s[i], new)
        /\ r = f[n].all
  <2>1. \E f \in [0..Len(s) -> Merges] :
          MergedBy(f, s, new) /\ mergeOps(s, t) = f[Len(s)].all
    BY MergeSteps
  <2> QED
    BY <2>1 DEF MergedBy
<1>2. n \in Nat /\ DOMAIN s = 1..n /\ \A i \in 1..n : s[i] \in Ops
  OBVIOUS
<1>3. \A x : x \in ToSet(s) <=> \E i \in 1..n : s[i] = x
  BY SeqFacts
<1> DEFINE T == {k \in Nat : k <= n => Passed(f[k], s, new, k)}
<1>4. 0 \in T
  <2>1. f[0].all = <<>> /\ f[0].left = new
    BY <1>1
  <2>2. Passed(f[0], s, new, 0)
    BY <2>1, EmptySorted DEF Passed
  <2> QED
    BY <2>2
<1>5. ASSUME NEW k \in Nat, k \in T PROVE k + 1 \in T
  <2> SUFFICES ASSUME k + 1 <= n PROVE Passed(f[k + 1], s, new, k + 1)
    OBVIOUS
  <2>1. k \in 0..n /\ k + 1 \in 1..n /\ Passed(f[k], s, new, k)
    BY <1>2, <1>5
  <2>2. f[k] \in Merges /\ f[k + 1] = Merged(f[k], s[k + 1], new)
    BY <1>1, <2>1
  <2>3. Passed(Merged(f[k], s[k + 1], new), s, new, k + 1)
    BY <2>1, <2>2, PassFacts
  <2> QED
    BY <2>2, <2>3
<1>6. Passed(f[n], s, new, n)
  <2>1. n \in T
    <3> HIDE DEF T, n
    <3> QED
      BY <1>2, <1>4, <1>5, Induct
  <2> QED
    BY <1>2, <2>1
<1> HIDE DEF n, r
<1>7. f[n] \in Merges
  BY <1>1, <1>2
<1>8. r \in Seq(Ops) /\ SortedOnce(r)
  BY <1>1, <1>6, <1>7 DEF Merges, Passed
<1>9. \A x \in ToSet(r) :
        x \in ToSet(new) \/ (x \in ToSet(s) /\ x.hash \notin Hashes(new))
  BY <1>1, <1>3, <1>6 DEF Passed
<1>10. \A x \in ToSet(s) : x.hash \notin Hashes(new) => x \in ToSet(r)
  BY <1>1, <1>3, <1>6 DEF Passed
<1>11. ASSUME NEW x \in ToSet(s), NEW y \in ToSet(new), y.height >= x.height
       PROVE  y \in ToSet(r)
  <2>1. x.height \in Nat /\ y.height \in Nat
    <3>1. ToSet(s) \subseteq Ops /\ ToSet(new) \subseteq Ops
      BY SeqFacts
    <3> QED
      BY <3>1 DEF Ops
  <2>2. PICK i \in 1..n : s[i] = x
    BY <1>3
  <2>3. ~(y.height < s[i].height)
    BY <1>11, <2>1, <2>2
  <2> QED
    BY <1>1, <1>6, <2>3 DEF Passed
<1> QED
  BY <1>8, <1>9, <1>10, <1>11 DEF r

\* No new operation is older than all the existing ones.
Covered(s, t) ==
  s = <<>> \/ \E x \in ToSet(s) : \A y \in ToSet(t) : y.height >= x.height

\* mergeOps sorts, takes nothing from elsewhere, and then loses no transaction and no
\* new operation.
LEMMA MergeFacts ==
  ASSUME NEW s \in Seq(Ops), NEW t \in Seq(Ops), SortedOnce(s), Once(t)
  PROVE  /\ mergeOps(s, t) \in Seq(Ops)
         /\ SortedOnce(mergeOps(s, t))
         /\ ToSet(mergeOps(s, t)) \subseteq ToSet(s) \cup ToSet(t)
         /\ Covered(s, t) =>
              /\ ToSet(t) \subseteq ToSet(mergeOps(s, t))
              /\ \A x \in ToSet(s) : x.hash \notin Hashes(t) => x \in ToSet(mergeOps(s, t))
              /\ Hashes(mergeOps(s, t)) = Hashes(s) \cup Hashes(t)
<1> DEFINE u == Without(t, ToSet(s))
           new == NewestFirst(u)
           r == mergeOps(s, t)
<1>1. u \in Seq(Ops) /\ Once(u) /\ ToSet(u) = ToSet(t) \ ToSet(s)
  <2>1. ToSet(t) \cap (ToSet(t) \ ToSet(s)) = ToSet(t) \ ToSet(s)
    OBVIOUS
  <2> QED
    BY <2>1, KeepingSorted DEF Without
<1>2. new \in Seq(Ops) /\ SortedOnce(new) /\ ToSet(new) = ToSet(t) \ ToSet(s)
  <2> HIDE DEF u
  <2> QED
    BY <1>1, NewestFirstFacts
<1>3. CASE new = <<>>
  <2>1. r = s
    BY <1>3 DEF mergeOps
  <2>2. ToSet(t) \subseteq ToSet(s)
    BY <1>2, <1>3, EmptySorted
  <2> HIDE DEF r
  <2>3. Hashes(r) = Hashes(s) \cup Hashes(t)
    BY <2>1, <2>2 DEF Hashes
  <2> QED
    BY <2>1, <2>2, <2>3 DEF r
<1>4. CASE new # <<>> /\ s = <<>>
  <2>1. r = new
    BY <1>4 DEF mergeOps
  <2>2. ToSet(s) = {}
    BY <1>4, EmptySorted
  <2> HIDE DEF r, new
  <2>3. Hashes(r) = Hashes(s) \cup Hashes(t)
    BY <1>2, <2>1, <2>2 DEF Hashes
  <2> QED
    BY <1>2, <2>1, <2>2, <2>3 DEF r
<1>5. CASE new # <<>> /\ s # <<>>
  <2>1. /\ r \in Seq(Ops) /\ SortedOnce(r)
        /\ \A x \in ToSet(r) :
             x \in ToSet(new) \/ (x \in ToSet(s) /\ x.hash \notin Hashes(new))
        /\ \A x \in ToSet(s) : x.hash \notin Hashes(new) => x \in ToSet(r)
        /\ \A x \in ToSet(s), y \in ToSet(new) : y.height >= x.height => y \in ToSet(r)
    <3> DEFINE v == new
    <3>1. v = NewestFirst(Without(t, ToSet(s))) /\ v \in Seq(Ops) /\ SortedOnce(v)
      BY <1>2
    <3>2. v # <<>> /\ s # <<>>
      BY <1>5
    <3> HIDE DEF v
    <3>3. /\ mergeOps(s, t) \in Seq(Ops)
          /\ SortedOnce(mergeOps(s, t))
          /\ \A x \in ToSet(mergeOps(s, t)) :
               x \in ToSet(v) \/ (x \in ToSet(s) /\ x.hash \notin Hashes(v))
          /\ \A x \in ToSet(s) : x.hash \notin Hashes(v) => x \in ToSet(mergeOps(s, t))
          /\ \A x \in ToSet(s), y \in ToSet(v) :
               y.height >= x.height => y \in ToSet(mergeOps(s, t))
      BY <3>1, <3>2, LoopFacts
    <3> QED
      BY <3>3 DEF v
  <2> HIDE DEF r, new, u
  <2>2. ToSet(r) \subseteq ToSet(s) \cup ToSet(t)
    BY <1>2, <2>1
  <2>3. ASSUME Covered(s, t)
        PROVE  /\ ToSet(t) \subseteq ToSet(r)
               /\ \A x \in ToSet(s) : x.hash \notin Hashes(t) => x \in ToSet(r)
               /\ Hashes(r) = Hashes(s) \cup Hashes(t)
    <3>1. ToSet(new) \subseteq ToSet(r)
      <4>1. PICK x \in ToSet(s) : \A y \in ToSet(t) : y.height >= x.height
        BY <1>5, <2>3 DEF Covered
      <4> QED
        BY <1>2, <2>1, <4>1
    <3>2. ASSUME NEW y \in ToSet(t), y \in ToSet(s) PROVE y.hash \notin Hashes(new)
      <4> SUFFICES ASSUME NEW x \in ToSet(new), x.hash = y.hash PROVE FALSE
        BY HashesAre
      <4> QED
        BY <1>2, <3>2, OnceIs
    <3>3. ToSet(t) \subseteq ToSet(r)
      BY <1>2, <2>1, <3>1, <3>2
    <3>4. \A h : h \in Hashes(new) => h \in Hashes(t)
      BY <1>2, HashesAre
    <3>5. \A x \in ToSet(s) : x.hash \notin Hashes(t) => x \in ToSet(r)
      BY <2>1, <3>4
    <3>6. ASSUME NEW h PROVE h \in Hashes(r) <=> h \in Hashes(s) \/ h \in Hashes(t)
      <4>1. h \in Hashes(r) => h \in Hashes(s) \/ h \in Hashes(t)
        BY <2>2, HashesAre
      <4>2. h \in Hashes(t) => h \in Hashes(r)
        BY <3>3, HashesAre
      <4>3. h \in Hashes(s) => h \in Hashes(r)
        BY <3>5, <4>2, HashesAre
      <4> QED
        BY <4>1, <4>2, <4>3
    <3> QED
      BY <3>3, <3>5, <3>6
  <2> QED
    BY <2>1, <2>2, <2>3 DEF r
<1> QED
  BY <1>3, <1>4, <1>5

(***************************************************************************)
(* The operations of a chain.                                              *)
(***************************************************************************)

Chains == Seq(Txs \cup {NoTx})

LEMMA OpsAboveFacts ==
  ASSUME NEW c \in Chains, InBlocks(c), NEW h \in Nat, NEW X \in SUBSET Txs
  PROVE  /\ OpsAbove(c, h, X) \in Seq(Ops)
         /\ Once(OpsAbove(c, h, X))
         /\ \A o : o \in ToSet(OpsAbove(c, h, X))
                     <=> \E i \in DOMAIN c : i > h /\ c[i] \in X /\ o = Op(c, i)
<1> DEFINE s == [i \in DOMAIN c |-> Op(c, i)]
           A == [hash : Txs \cup {NoTx}, height : Nat]
           kept == {o \in ToSet(s) : o.height > h /\ o.hash \in X}
           r == Keeping(s, kept)
           n == Len(c)
<1>1. n \in Nat /\ DOMAIN c = 1..n /\ \A i \in 1..n : c[i] \in Txs \cup {NoTx}
  BY DEF Chains
<1>2. \A i \in 1..n : Op(c, i) \in A /\ Op(c, i).hash = c[i] /\ Op(c, i).height = i
  BY <1>1 DEF Op
<1>3. s \in Seq(A) /\ DOMAIN s = 1..n /\ \A i \in 1..n : s[i] = Op(c, i)
  <2>1. s \in [1..n -> A]
    BY <1>1, <1>2
  <2> QED
    BY <1>1, <2>1, SeqDef
<1> HIDE DEF s, A, n
<1>4. /\ r \in Seq(A)
      /\ ToSet(r) = ToSet(s) \cap kept
      /\ \A x, y : Before(r, x, y) => Before(s, x, y)
  BY <1>3, KeepingFacts
<1> HIDE DEF r
<1>5. \A o : o \in ToSet(s) <=> \E i \in 1..n : o = Op(c, i)
  BY <1>3 DEF ToSet
<1>6. \A o : o \in ToSet(r) <=> \E i \in 1..n : i > h /\ c[i] \in X /\ o = Op(c, i)
  BY <1>2, <1>4, <1>5
<1>7. r \in Seq(Ops)
  <2>1. ToSet(r) \subseteq Ops
    BY <1>1, <1>2, <1>6 DEF Ops, Op
  <2>2. Len(r) \in Nat /\ DOMAIN r = 1..Len(r) /\ \A i \in 1..Len(r) : r[i] \in Ops
    BY <1>4, <2>1, SeqFacts
  <2>3. r = [i \in 1..Len(r) |-> r[i]]
    BY <1>4
  <2>4. r \in [1..Len(r) -> Ops]
    BY <2>2, <2>3
  <2> QED
    BY <2>2, <2>4, SeqDef
<1>8. Once(r)
  <2> SUFFICES ASSUME NEW x, NEW y, Before(r, x, y), x.hash = y.hash PROVE FALSE
    BY DEF Once
  <2>1. PICK i \in 1..n, j \in 1..n : i < j /\ Op(c, i) = x /\ Op(c, j) = y
    <3>1. Before(s, x, y)
      BY <1>4
    <3> QED
      BY <1>3, <3>1 DEF Before
  <2>2. x \in ToSet(r)
    BY <1>4, SeqFacts DEF Before
  <2>3. c[i] = c[j]
    BY <1>2, <2>1
  <2>4. c[i] # NoTx
    BY <1>2, <1>6, <2>1, <2>2, AccountAssumption
  <2> QED
    BY <1>1, <2>1, <2>3, <2>4 DEF InBlocks
<1>9. OpsAbove(c, h, X) = r
  BY DEF OpsAbove, r, s, kept
<1> QED
  BY <1>1, <1>6, <1>7, <1>8, <1>9

(***************************************************************************)
(* Accounts.                                                               *)
(***************************************************************************)

Tokens == [there : BOOLEAN, operations : Seq(Ops), pending : Seq(Here)]

States == [operations : Seq(Ops), pending : Seq(Here), height : Nat, token : Tokens]

Shapes == [operations : Seq(Ops), height : Nat, token : Tokens]

\* Of an account or of what a sync knows of it.
Ordered(x) ==
  /\ SortedOnce(x.operations) /\ SortedOnce(x.token.operations)
  /\ x.token.pending # <<>> => x.token.there

\* What stays pending was pending in the parent too; what does not is in the history, or
\* a nonce that is not below its own is, or its nonce is 0.
LEMMA RetainFacts ==
  ASSUME NEW pending \in Seq(Here), NEW operations, NEW parents, NEW history \in Seq(Ops),
         NEW late
  PROVE  /\ Retain(pending, operations, parents, history, late) \in Seq(Here)
         /\ ToSet(Retain(pending, operations, parents, history, late))
              \subseteq ToSet(pending) \cap parents
         /\ \A t \in ToSet(pending) \cap parents :
              \/ t \in ToSet(Retain(pending, operations, parents, history, late))
              \/ Nonce[t] = 0
              \/ \E o \in ToSet(history) : o.hash \in Sent /\ Nonce[t] <= Nonce[o.hash]
              \/ t \in Hashes(operations)
<1> DEFINE sent == Keeping(history, {o \in ToSet(history) : o.hash \in Sent})
           latestNonce == IF sent = <<>> THEN 0 ELSE Nonce[Head(sent).hash]
           shouldRetain(t) ==
             /\ history # <<>> => LET last == Nonce[Head(history).hash]
                                  IN  last # 0 /\ Nonce[t] # 0 => Nonce[t] > last
             /\ t \notin late
           kept == {t \in parents :
                      /\ Nonce[t] # 0
                      /\ Nonce[t] > latestNonce
                      /\ shouldRetain(t) \/ t \notin Hashes(operations)}
           r == Keeping(pending, kept)
<1>1. Retain(pending, operations, parents, history, late) = r
  BY DEF Retain
<1>2. r \in Seq(Here) /\ ToSet(r) = ToSet(pending) \cap kept
  <2> HIDE DEF kept
  <2> QED
    BY KeepingFacts
<1>3. /\ sent \in Seq(Ops)
      /\ ToSet(sent) \subseteq {o \in ToSet(history) : o.hash \in Sent}
  BY KeepingSorted
<1> HIDE DEF sent, r
<1>4. ASSUME NEW t \in ToSet(pending) \cap parents, t \notin kept
      PROVE  \/ Nonce[t] = 0
             \/ \E o \in ToSet(history) : o.hash \in Sent /\ Nonce[t] <= Nonce[o.hash]
             \/ t \in Hashes(operations)
  <2>1. t \in Txs /\ Nonce[t] \in Nat
    <3>1. ToSet(pending) \subseteq Here
      BY SeqFacts
    <3> QED
      BY <3>1, AccountAssumption
  <2>2. CASE ~(Nonce[t] > latestNonce)
    <3>1. CASE sent = <<>>
      BY <2>1, <2>2, <3>1
    <3>2. CASE sent # <<>>
      <4> DEFINE o == Head(sent)
      <4>1. o \in ToSet(sent)
        BY <1>3, <3>2, HeadFacts
      <4> HIDE DEF o
      <4>2. o \in ToSet(history) /\ o.hash \in Sent
        BY <1>3, <4>1
      <4>3. Nonce[o.hash] \in Nat
        BY <4>2, AccountAssumption
      <4>4. latestNonce = Nonce[o.hash]
        BY <3>2 DEF o
      <4> QED
        BY <2>1, <2>2, <4>2, <4>3, <4>4
    <3> QED
      BY <3>1, <3>2
  <2>3. CASE Nonce[t] > latestNonce
    <3> HIDE DEF latestNonce
    <3> QED
      BY <1>4, <2>3
  <2> QED
    BY <2>2, <2>3
<1>5. ToSet(r) \subseteq ToSet(pending) \cap parents
  BY <1>2
<1> HIDE DEF kept
<1> QED
  BY <1>1, <1>2, <1>4, <1>5

LEMMA UpdatedFacts ==
  ASSUME NEW a \in States, NEW shape \in Shapes, Ordered(a), Ordered(shape), NEW late
  PROVE  Updated(a, shape, late) \in States /\ Ordered(Updated(a, shape, late))
<1> DEFINE operations == mergeOps(a.operations, shape.operations)
           pending == Retain(a.pending, operations, Here, operations, late)
           inToken == Retain(a.token.pending, shape.token.operations,
                             ToSet(pending), operations, late)
           token == IF shape.token.there /\ a.token.there /\ a.token.pending # <<>>
                    THEN [shape.token EXCEPT !.pending = inToken] ELSE shape.token
<1>1. /\ a.operations \in Seq(Ops) /\ a.pending \in Seq(Here) /\ a.token \in Tokens
      /\ a.token.pending \in Seq(Here)
      /\ shape.operations \in Seq(Ops) /\ shape.height \in Nat /\ shape.token \in Tokens
  BY DEF States, Shapes, Tokens
<1>2. SortedOnce(a.operations) /\ SortedOnce(shape.operations) /\ Once(shape.operations)
  BY <1>1, SortedIs DEF Ordered, Once
<1>3. operations \in Seq(Ops) /\ SortedOnce(operations)
  BY <1>1, <1>2, MergeFacts
<1> HIDE DEF operations
<1>4. pending \in Seq(Here)
  BY <1>1, <1>3, RetainFacts
<1> HIDE DEF pending
<1>5. inToken \in Seq(Here)
  BY <1>1, <1>3, RetainFacts
<1> HIDE DEF inToken
<1>6. /\ token \in Tokens
      /\ token.operations = shape.token.operations
      /\ token.pending # <<>> => token.there
  BY <1>1, <1>5 DEF Tokens, Ordered
<1> HIDE DEF token
<1>7. Updated(a, shape, late)
        = [operations |-> operations, pending |-> pending, height |-> shape.height,
           token |-> token]
  BY DEF Updated, operations, pending, inToken, token
<1> QED
  BY <1>1, <1>3, <1>4, <1>6, <1>7 DEF States, Ordered

LEMMA EmptyIs == Empty \in States /\ Ordered(Empty) /\ NoToken \in Tokens
<1>1. NoToken \in Tokens /\ NoToken.operations = <<>> /\ NoToken.pending = <<>>
  BY DEF NoToken, Tokens
<1> QED
  BY <1>1, EmptySorted DEF Empty, States, Ordered

\* The block that an incremental sync begins after.
FromBlock(a) ==
  IF stableOperations(a) = <<>> THEN 0 ELSE Head(stableOperations(a)).height

LEMMA StableFacts ==
  ASSUME NEW a \in States, SortedOnce(a.operations)
  PROVE  /\ stableOperations(a) \in Seq(Ops) /\ SortedOnce(stableOperations(a))
         /\ ToSet(stableOperations(a))
              = {o \in ToSet(a.operations) : a.height > o.height + Threshold}
         /\ FromBlock(a) \in Nat
         /\ FromBlock(a) # 0 => \E o \in ToSet(stableOperations(a)) :
                                  o.height = FromBlock(a)
<1> DEFINE s == stableOperations(a)
<1>1. a.operations \in Seq(Ops)
  BY DEF States
<1>2. /\ s \in Seq(Ops) /\ SortedOnce(s)
      /\ ToSet(s) = {o \in ToSet(a.operations) : a.height > o.height + Threshold}
  BY <1>1, KeepingSorted DEF stableOperations
<1> HIDE DEF s
<1>3. s # <<>> => Head(s) \in ToSet(s) /\ Head(s) \in Ops
  BY <1>2, HeadFacts
<1>4. FromBlock(a) = IF s = <<>> THEN 0 ELSE Head(s).height
  BY DEF FromBlock, s
<1> QED
  BY <1>2, <1>3, <1>4 DEF s, Ops


LEMMA StableHead ==
  ASSUME NEW a \in States, SortedOnce(a.operations), stableOperations(a) # <<>>
  PROVE  \E o \in ToSet(stableOperations(a)) : o.height = FromBlock(a)
<1> DEFINE s == stableOperations(a)
<1>1. s \in Seq(Ops) /\ s # <<>>
  BY StableFacts
<1>2. FromBlock(a) = Head(s).height
  BY <1>1 DEF FromBlock
<1> HIDE DEF s
<1>3. Head(s) \in ToSet(s)
  BY <1>1, HeadFacts
<1> QED
  BY <1>2, <1>3 DEF s

\* What a sync fetches.
NewOps(a, c) == OpsAbove(c, FromBlock(a), Txs)
NewTokenOps(a, c) == OpsAbove(c, FromBlock(a), TokenTxs)

ShapeToken(a, c) ==
  IF FromBlock(a) = 0 /\ NewOps(a, c) = <<>> THEN NoToken
  ELSE IF NewTokenOps(a, c) = <<>> THEN a.token
  ELSE [there |-> TRUE,
        operations |-> mergeOps(a.token.operations, NewTokenOps(a, c)),
        pending |-> a.token.pending]

LEMMA ShapeIs ==
  ASSUME NEW a, NEW c
  PROVE  getAccountShape(a, c)
           = [operations |-> mergeOps(stableOperations(a), NewOps(a, c)),
              height |-> Len(c), token |-> ShapeToken(a, c)]
BY Zenon DEF getAccountShape, FromBlock, NewOps, NewTokenOps, ShapeToken

LEMMA NewOpsFacts ==
  ASSUME NEW a \in States, SortedOnce(a.operations), NEW c \in Chains, InBlocks(c)
  PROVE  /\ NewOps(a, c) \in Seq(Ops) /\ Once(NewOps(a, c))
         /\ \A o : o \in ToSet(NewOps(a, c))
                     <=> \E i \in DOMAIN c : i > FromBlock(a) /\ c[i] \in Txs /\ o = Op(c, i)
         /\ NewTokenOps(a, c) \in Seq(Ops) /\ Once(NewTokenOps(a, c))
         /\ \A o : o \in ToSet(NewTokenOps(a, c))
                     <=> \E i \in DOMAIN c :
                           i > FromBlock(a) /\ c[i] \in TokenTxs /\ o = Op(c, i)
<1>1. FromBlock(a) \in Nat
  BY StableFacts
<1>2. Txs \in SUBSET Txs /\ TokenTxs \in SUBSET Txs
  BY AccountAssumption
<1> QED
  BY <1>1, <1>2, OpsAboveFacts DEF NewOps, NewTokenOps

LEMMA ShapeFacts ==
  ASSUME NEW a \in States, Ordered(a), NEW c \in Chains, InBlocks(c)
  PROVE  /\ getAccountShape(a, c) \in Shapes
         /\ Ordered(getAccountShape(a, c))
         /\ getAccountShape(a, c).height = Len(c)
         /\ ToSet(getAccountShape(a, c).operations)
              \subseteq ToSet(a.operations) \cup ToSet(NewOps(a, c))
<1> DEFINE s == stableOperations(a)
           n == NewOps(a, c)
           t == NewTokenOps(a, c)
           o == mergeOps(s, n)
           to == mergeOps(a.token.operations, t)
           token == ShapeToken(a, c)
<1>1. /\ a.token \in Tokens /\ a.token.operations \in Seq(Ops)
      /\ a.token.pending \in Seq(Here)
      /\ SortedOnce(a.operations) /\ SortedOnce(a.token.operations)
      /\ a.token.pending # <<>> => a.token.there
  BY DEF States, Tokens, Ordered
<1>2. s \in Seq(Ops) /\ SortedOnce(s) /\ ToSet(s) \subseteq ToSet(a.operations)
  BY <1>1, StableFacts
<1>3. n \in Seq(Ops) /\ Once(n) /\ t \in Seq(Ops) /\ Once(t)
  BY <1>1, NewOpsFacts
<1> HIDE DEF s, n, t
<1>4. o \in Seq(Ops) /\ SortedOnce(o) /\ ToSet(o) \subseteq ToSet(s) \cup ToSet(n)
  BY <1>2, <1>3, MergeFacts
<1>5. to \in Seq(Ops) /\ SortedOnce(to)
  BY <1>1, <1>3, MergeFacts
<1>6. token \in Tokens /\ SortedOnce(token.operations)
      /\ (token.pending # <<>> => token.there)
  <2> DEFINE merged == [there |-> TRUE, operations |-> to, pending |-> a.token.pending]
  <2>1. merged \in Tokens /\ merged.operations = to /\ merged.there
    <3> HIDE DEF to
    <3> QED
      BY <1>1, <1>5 DEF Tokens
  <2>2. token \in {NoToken, a.token, merged}
    BY Zenon DEF ShapeToken, t
  <2>3. NoToken \in Tokens /\ SortedOnce(NoToken.operations) /\ NoToken.pending = <<>>
    BY EmptyIs, EmptySorted DEF NoToken
  <2> HIDE DEF merged, token, to
  <2> QED
    BY <1>1, <1>5, <2>1, <2>2, <2>3
<1> HIDE DEF o, token
<1>7. Len(c) \in Nat
  BY DEF Chains
<1>8. getAccountShape(a, c) = [operations |-> o, height |-> Len(c), token |-> token]
  BY ShapeIs DEF o, token, s, n
<1> QED
  BY <1>2, <1>4, <1>6, <1>7, <1>8 DEF Shapes, Ordered, n

LEMMA AppendPending ==
  ASSUME NEW p \in Seq(Here), NEW t \in Here
  PROVE  /\ appendPendingOp(p, t) \in Seq(Here)
         /\ appendPendingOp(p, t) # <<>>
         /\ \A u : u \in ToSet(appendPendingOp(p, t))
                     <=> u = t \/ (u \in ToSet(p) /\ Nonce[u] # Nonce[t])
<1> DEFINE kept == {u \in Here : Nonce[u] # Nonce[t]}
           k == Keeping(p, kept)
           f == <<t>>
<1>1. k \in Seq(Here) /\ ToSet(k) = ToSet(p) \cap kept
  <2> HIDE DEF kept
  <2> QED
    BY KeepingFacts
<1>2. ToSet(p) \subseteq Here
  BY SeqFacts
<1>3. f \in Seq(Here) /\ ToSet(f) = {t} /\ Len(f) = 1
  BY SingleFacts
<1> HIDE DEF k, f
<1>4. f \o k \in Seq(Here) /\ ToSet(f \o k) = {t} \cup ToSet(k)
  BY <1>1, <1>3, ConcatFacts
<1>5. f \o k # <<>>
  BY <1>1, <1>3
<1>6. appendPendingOp(p, t) = f \o k
  BY DEF appendPendingOp, f, k
<1> QED
  BY <1>1, <1>2, <1>4, <1>5, <1>6

LEMMA AddFacts ==
  ASSUME NEW a \in States, Ordered(a), NEW t \in Here
  PROVE  /\ addPendingOperation(a, t) \in States
         /\ Ordered(addPendingOperation(a, t))
         /\ addPendingOperation(a, t).operations = a.operations
         /\ addPendingOperation(a, t).height = a.height
         /\ addPendingOperation(a, t).token.operations = a.token.operations
         /\ a.token.pending # <<>> => addPendingOperation(a, t).token.pending # <<>>
         /\ \A u : u \in ToSet(addPendingOperation(a, t).pending)
                     <=> u = t \/ (u \in ToSet(a.pending) /\ Nonce[u] # Nonce[t])
<1> DEFINE p == appendPendingOp(a.pending, t)
           tp == IF t \in TokenTxs /\ a.token.there
                 THEN appendPendingOp(a.token.pending, t) ELSE a.token.pending
           token == [a.token EXCEPT !.pending = tp]
           r == [a EXCEPT !.pending = p, !.token = token]
<1>1. a.pending \in Seq(Here) /\ a.token \in Tokens /\ a.token.pending \in Seq(Here)
  BY DEF States, Tokens
<1>2. p \in Seq(Here)
      /\ \A u : u \in ToSet(p) <=> u = t \/ (u \in ToSet(a.pending) /\ Nonce[u] # Nonce[t])
  BY <1>1, AppendPending
<1>3. /\ tp \in Seq(Here)
      /\ a.token.pending # <<>> => tp # <<>>
      /\ tp # <<>> => a.token.there
  BY <1>1, AppendPending DEF Ordered
<1> HIDE DEF p, tp
<1>4. /\ token \in Tokens /\ token.operations = a.token.operations
      /\ token.pending = tp /\ token.there = a.token.there
  BY <1>1, <1>3 DEF Tokens
<1> HIDE DEF token
<1>5. /\ r \in States /\ r.operations = a.operations /\ r.pending = p
      /\ r.height = a.height /\ r.token = token
  BY <1>2, <1>4 DEF States
<1> HIDE DEF r
<1>6. addPendingOperation(a, t) = r
  <2>1. addPendingOperation(a, t) = [a EXCEPT !.pending = p, !.token.pending = tp]
    BY DEF addPendingOperation, p, tp
  <2> QED
    BY <1>1, <2>1 DEF r, token, States, Tokens
<1> QED
  BY <1>2, <1>3, <1>4, <1>5, <1>6 DEF Ordered

(***************************************************************************)
(* The chain.                                                              *)
(***************************************************************************)

\* The first k blocks of d are those of c.
Shared(c, d, k) == k <= Len(c) /\ k <= Len(d) /\ \A i \in 1..k : d[i] = c[i]

ChainInv ==
  /\ chain \in Chains /\ InBlocks(chain)
  /\ Shared(Past, chain, Len(Past))

\* What a block or a branch leaves of the chain.
Grown(c, d) ==
  /\ d \in Chains /\ InBlocks(d) /\ Len(d) = Len(c) + 1
  /\ \E k \in Nat : Len(Past) <= k /\ Len(c) - Threshold <= k /\ Shared(c, d, k)

LEMMA ChainSteps ==
  ASSUME ChainInv, NewBlock \/ Reorganise
  PROVE  Grown(chain, chain')
<1> DEFINE B == Txs \cup {NoTx}
           n == Len(chain)
<1>1. /\ chain \in Seq(B) /\ n \in Nat /\ Len(Past) \in Nat /\ Len(Past) <= n
      /\ Threshold \in Nat
  BY AccountAssumption DEF ChainInv, Chains, Shared
<1>2. CASE NewBlock
  <2>1. PICK t \in B : chain' = Append(chain, t) /\ Valid(chain')
    BY <1>2 DEF NewBlock
  <2> DEFINE d == Append(chain, t)
  <2>2. d \in Seq(B) /\ Len(d) = n + 1 /\ \A i \in 1..n : d[i] = chain[i]
    BY <1>1
  <2> HIDE DEF d
  <2>3. Shared(chain, d, n) /\ InBlocks(d)
    BY <1>1, <2>1, <2>2 DEF Shared, Valid, d
  <2>4. Grown(chain, d)
    BY <1>1, <2>2, <2>3 DEF Grown, Chains
  <2> QED
    BY <2>1, <2>4 DEF d
<1>3. CASE Reorganise
  <2>1. PICK depth \in 1..Threshold :
          \E branch \in [1 .. depth + 1 -> B] :
            /\ depth <= n - Len(Past)
            /\ chain' = SubSeq(chain, 1, n - depth) \o branch
            /\ Valid(chain')
    BY <1>3 DEF Reorganise
  <2>2. PICK branch \in [1 .. depth + 1 -> B] :
          /\ depth <= n - Len(Past)
          /\ chain' = SubSeq(chain, 1, n - depth) \o branch
          /\ Valid(chain')
    BY <2>1
  <2> DEFINE k == n - depth
             head == SubSeq(chain, 1, k)
             d == head \o branch
  <2>3. k \in Nat /\ k <= n /\ Len(Past) <= k /\ n - Threshold <= k /\ depth \in Nat
        /\ depth + 1 + k = n + 1
    BY <1>1, <2>2
  <2>4. head \in Seq(B) /\ Len(head) = k /\ \A i \in 1..k : head[i] = chain[i]
    BY <1>1, <2>3
  <2>5. branch \in Seq(B) /\ Len(branch) = depth + 1
    BY <2>3
  <2> HIDE DEF head
  <2>6. d \in Seq(B) /\ Len(d) = n + 1 /\ \A i \in 1..k : d[i] = chain[i]
    <3> HIDE DEF k, B
    <3>1. d \in Seq(B) /\ Len(d) = k + (depth + 1)
      BY <2>3, <2>4, <2>5
    <3>2. \A i \in 1..k : d[i] = head[i]
      BY <2>3, <2>4, <2>5
    <3>3. Len(d) = n + 1
      BY <2>3, <3>1
    <3> QED
      BY <2>4, <3>1, <3>2, <3>3
  <2> HIDE DEF d, k
  <2>7. Shared(chain, d, k) /\ InBlocks(d)
    BY <1>1, <2>2, <2>3, <2>6 DEF Shared, Valid, d, head, k
  <2>8. Grown(chain, d)
    BY <2>3, <2>6, <2>7 DEF Grown, Chains
  <2> QED
    BY <2>2, <2>8 DEF d, head, k
<1> QED
  BY <1>2, <1>3

LEMMA GrownChain ==
  ASSUME ChainInv, Grown(chain, chain')
  PROVE  ChainInv'
<1>1. PICK k \in Nat : Len(Past) <= k /\ Shared(chain, chain', k)
  BY DEF Grown
<1>2. Len(Past) \in Nat /\ Len(chain) \in Nat
  BY AccountAssumption DEF ChainInv, Chains
<1>3. Len(chain') = Len(chain) + 1
  BY DEF Grown
<1>4. Shared(Past, chain', Len(Past))
  BY <1>1, <1>2, <1>3 DEF Shared, ChainInv
<1> QED
  BY <1>4 DEF ChainInv, Grown

(***************************************************************************)
(* Types, and the order of the histories.                                  *)
(***************************************************************************)

Syncs ==
  {Idle} \cup [phase : {"fetching"}, initial : States]
    \cup [phase : {"fetched"}, shape : Shapes]

TypeOK ==
  /\ setting \in Settings
  /\ mempool \subseteq Here /\ unnoted \subseteq Here /\ noted \subseteq Here
  /\ account \in States
  /\ syncs \in [Slots -> Syncs]

OrderInv ==
  /\ TypeOK
  /\ ChainInv
  /\ Ordered(account)
  /\ \A s \in Slots :
       /\ syncs[s].phase = "fetching" => Ordered(syncs[s].initial)
       /\ syncs[s].phase = "fetched" => Ordered(syncs[s].shape)

LEMMA SyncIs ==
  ASSUME TypeOK, NEW s \in Slots
  PROVE  /\ syncs[s].phase = "fetching" => syncs[s].initial \in States
         /\ syncs[s].phase = "fetched" => syncs[s].shape \in Shapes
         /\ syncs[s].phase \in {"fetching", "fetched"} => syncs[s] # Idle
BY DEF TypeOK, Syncs, Idle

LEMMA FirstAccount ==
  ASSUME Init
  PROVE  /\ account \in States /\ Ordered(account)
         /\ getAccountShape(Empty, Past) \in Shapes
         /\ ChainInv
<1>1. Past \in Chains /\ InBlocks(Past) /\ Len(Past) \in Nat
  BY AccountAssumption DEF Chains
<1> DEFINE shape == getAccountShape(Empty, Past)
<1>2. shape \in Shapes /\ Ordered(shape)
  BY <1>1, EmptyIs, ShapeFacts
<1> HIDE DEF shape
<1>3. account = Updated(Empty, shape, {})
  BY DEF Init, shape
<1>4. ChainInv
  BY <1>1 DEF Init, ChainInv, Shared
<1> QED
  BY <1>2, <1>3, <1>4, EmptyIs, UpdatedFacts DEF shape

LEMMA InitOrder == Init => OrderInv
<1> SUFFICES ASSUME Init PROVE OrderInv
  OBVIOUS
<1>1. account \in States /\ Ordered(account) /\ ChainInv
  BY FirstAccount
<1>2. \A s \in Slots : syncs[s] = Idle
  BY DEF Init
<1>3. TypeOK
  BY <1>1 DEF Init, TypeOK, Syncs
<1> QED
  BY <1>1, <1>2, <1>3 DEF OrderInv, Idle

\* What an Update makes of the account.
LEMMA UpdateIs ==
  ASSUME OrderInv, NEW s \in Slots, Update(s)
  PROVE  /\ syncs[s].shape \in Shapes /\ Ordered(syncs[s].shape)
         /\ \E late \in SUBSET noted : account' = Updated(account, syncs[s].shape, late)
         /\ account' \in States /\ Ordered(account')
<1>1. syncs[s].shape \in Shapes /\ Ordered(syncs[s].shape)
  BY SyncIs DEF OrderInv, Update
<1>2. PICK late \in SUBSET noted : account' = Updated(account, syncs[s].shape, late)
  BY DEF Update
<1>3. account \in States /\ Ordered(account)
  BY DEF OrderInv, TypeOK
<1> QED
  BY <1>1, <1>2, <1>3, UpdatedFacts

LEMMA FetchIs ==
  ASSUME OrderInv, NEW s \in Slots, Fetch(s)
  PROVE  /\ syncs[s].initial \in States /\ Ordered(syncs[s].initial)
         /\ chain \in Chains /\ InBlocks(chain)
         /\ getAccountShape(syncs[s].initial, chain) \in Shapes
         /\ Ordered(getAccountShape(syncs[s].initial, chain))
         /\ syncs'[s] = [phase |-> "fetched",
                         shape |-> getAccountShape(syncs[s].initial, chain)]
<1>1. syncs[s].initial \in States /\ Ordered(syncs[s].initial)
  BY SyncIs DEF OrderInv, Fetch
<1>2. chain \in Chains /\ InBlocks(chain)
  BY DEF OrderInv, ChainInv
<1>3. syncs'[s] = [phase |-> "fetched",
                   shape |-> getAccountShape(syncs[s].initial, chain)]
  BY DEF OrderInv, TypeOK, Fetch
<1> QED
  BY <1>1, <1>2, <1>3, ShapeFacts

LEMMA NextOrder ==
  ASSUME OrderInv, [Next]_vars
  PROVE  OrderInv'
<1> DEFINE Parts ==
             \A s \in Slots :
               /\ syncs[s].phase = "fetching" => Ordered(syncs[s].initial)
               /\ syncs[s].phase = "fetched" => Ordered(syncs[s].shape)
<1>0. TypeOK /\ ChainInv /\ Ordered(account) /\ Parts
      /\ account \in States /\ syncs \in [Slots -> Syncs]
  BY DEF OrderInv, TypeOK
<1>1. ASSUME NEW t \in Here, Broadcast(t) PROVE OrderInv'
  BY <1>0, <1>1 DEF Broadcast, OrderInv, TypeOK, ChainInv
<1>2. ASSUME NEW t \in Here, AddPending(t) PROVE OrderInv'
  <2>1. account' \in States /\ Ordered(account')
    BY <1>0, <1>2, AddFacts DEF AddPending
  <2>2. UNCHANGED <<setting, chain, mempool, syncs>>
        /\ unnoted' \subseteq Here /\ noted' \subseteq Here
    BY <1>0, <1>2 DEF AddPending, TypeOK
  <2> QED
    BY <1>0, <2>1, <2>2 DEF OrderInv, TypeOK, ChainInv
<1>3. CASE NewBlock \/ Reorganise
  <2>1. ChainInv'
    BY <1>0, <1>3, ChainSteps, GrownChain
  <2>2. UNCHANGED <<setting, mempool, unnoted, noted, account, syncs>>
    BY <1>3 DEF NewBlock, Reorganise
  <2> QED
    BY <1>0, <2>1, <2>2 DEF OrderInv, TypeOK
<1>4. ASSUME NEW s \in Slots, NEW v \in Syncs, syncs' = [syncs EXCEPT ![s] = v],
             UNCHANGED <<setting, chain, mempool, unnoted, noted>>,
             account' \in States, Ordered(account'),
             v.phase = "fetching" => Ordered(v.initial),
             v.phase = "fetched" => Ordered(v.shape)
      PROVE  OrderInv'
  <2>1. syncs' \in [Slots -> Syncs] /\ \A r \in Slots : syncs'[r] = IF r = s THEN v ELSE syncs[r]
    BY <1>0, <1>4
  <2>2. Parts'
    BY <1>0, <1>4, <2>1
  <2>3. ChainInv'
    BY <1>0, <1>4 DEF ChainInv
  <2> HIDE DEF Parts
  <2>4. TypeOK'
    BY <1>0, <1>4, <2>1 DEF TypeOK
  <2> QED
    BY <1>4, <2>2, <2>3, <2>4 DEF OrderInv, Parts
<1>5. ASSUME NEW s \in Slots, StartSync(s) PROVE OrderInv'
  <2> DEFINE v == [phase |-> "fetching", initial |-> account]
  <2>1. v \in Syncs
    BY <1>0 DEF Syncs
  <2> QED
    BY <1>0, <1>4, <1>5, <2>1 DEF StartSync
<1>6. ASSUME NEW s \in Slots, Fetch(s) PROVE OrderInv'
  <2> DEFINE shape == getAccountShape(syncs[s].initial, chain)
             v == [phase |-> "fetched", shape |-> shape]
  <2>1. shape \in Shapes /\ Ordered(shape)
    BY <1>6, FetchIs
  <2>2. syncs' = [syncs EXCEPT ![s] = v]
        /\ UNCHANGED <<setting, chain, mempool, unnoted, noted, account>>
    BY <1>6 DEF Fetch
  <2> HIDE DEF shape
  <2>3. v \in Syncs
    BY <2>1 DEF Syncs
  <2> QED
    BY <1>0, <1>4, <2>1, <2>2, <2>3
<1>7. Idle \in Syncs /\ Idle.phase = "idle"
  BY DEF Syncs, Idle
<1>8. ASSUME NEW s \in Slots, FetchFails(s) PROVE OrderInv'
  BY <1>0, <1>4, <1>7, <1>8 DEF FetchFails
<1>9. ASSUME NEW s \in Slots, Update(s) PROVE OrderInv'
  <2>1. account' \in States /\ Ordered(account')
    BY <1>9, UpdateIs
  <2> QED
    BY <1>4, <1>7, <1>9, <2>1 DEF Update
<1>10. CASE UNCHANGED vars
  BY <1>0, <1>10 DEF vars, OrderInv, TypeOK, ChainInv
<1> QED
  BY <1>1, <1>2, <1>3, <1>5, <1>6, <1>8, <1>9, <1>10 DEF Next

LEMMA OrderAlways == Spec => []OrderInv
<1>1. OrderInv /\ [Next]_vars => OrderInv'
  BY NextOrder
<1> QED
  BY <1>1, InitOrder, PTL DEF Spec

\* The histories of the account and of the token have every transaction once, newest
\* first.
THEOREM OrderTheorem == Spec => []HistoryInOrder
<1>1. OrderInv => HistoryInOrder
  BY DEF OrderInv, Ordered, HistoryInOrder
<1> QED
  BY <1>1, OrderAlways, PTL

(***************************************************************************)
(* The token account follows its parent.                                   *)
(***************************************************************************)

Patched(a, shape) == shape.token.there /\ a.token.there /\ a.token.pending # <<>>

LEMMA UpdatedIs ==
  ASSUME NEW a \in States, NEW shape \in Shapes, Ordered(a), Ordered(shape), NEW late
  PROVE  LET u == Updated(a, shape, late)
         IN  /\ u.operations = mergeOps(a.operations, shape.operations)
             /\ u.pending = Retain(a.pending, u.operations, Here, u.operations, late)
             /\ u.height = shape.height
             /\ u.token.operations = shape.token.operations
             /\ IF Patched(a, shape) THEN ToSet(u.token.pending) \subseteq ToSet(u.pending)
                ELSE u.token = shape.token
<1> DEFINE operations == mergeOps(a.operations, shape.operations)
           pending == Retain(a.pending, operations, Here, operations, late)
           inToken == Retain(a.token.pending, shape.token.operations,
                             ToSet(pending), operations, late)
           patched == [shape.token EXCEPT !.pending = inToken]
           token == IF Patched(a, shape) THEN patched ELSE shape.token
<1>1. /\ a.token.pending \in Seq(Here) /\ a.operations \in Seq(Ops)
      /\ shape.token \in Tokens /\ shape.operations \in Seq(Ops)
  BY DEF States, Shapes, Tokens
<1>2. operations \in Seq(Ops)
  BY <1>1, MergeFacts, SortedIs DEF Ordered, Once
<1> HIDE DEF operations, pending
<1>3. ToSet(inToken) \subseteq ToSet(pending)
  BY <1>1, <1>2, RetainFacts
<1> HIDE DEF inToken
<1>4. patched.operations = shape.token.operations /\ patched.pending = inToken
  BY <1>1 DEF Tokens
<1>5. Updated(a, shape, late)
        = [operations |-> operations, pending |-> pending, height |-> shape.height,
           token |-> token]
  BY DEF Updated, Patched, operations, pending, inToken, token
<1> HIDE DEF patched
<1> DEFINE u == Updated(a, shape, late)
<1>6. u.operations = operations /\ u.pending = pending /\ u.height = shape.height
      /\ u.token = token
  BY <1>5
<1> HIDE DEF u
<1>7. pending = Retain(a.pending, operations, Here, operations, late)
  BY DEF pending
<1>8. u.token.operations = shape.token.operations
  BY <1>4, <1>6
<1>9. IF Patched(a, shape) THEN ToSet(u.token.pending) \subseteq ToSet(u.pending)
      ELSE u.token = shape.token
  BY <1>3, <1>4, <1>6
<1>10. operations = mergeOps(a.operations, shape.operations)
  BY DEF operations
<1> QED
  BY <1>6, <1>7, <1>8, <1>9, <1>10 DEF u

\* What a sync that is alone knows of the token account.
Alone(s) ==
  /\ syncs[s].phase = "fetching" =>
       /\ syncs[s].initial.token.operations = account.token.operations
       /\ syncs[s].initial.token.pending # <<>> => account.token.pending # <<>>
  /\ syncs[s].phase = "fetched" =>
       (syncs[s].shape.token.pending # <<>> =>
          syncs[s].shape.token.there /\ account.token.pending # <<>>)

AloneInv ==
  ~setting.overlap =>
    /\ \A s, r \in Slots : syncs[s] # Idle /\ syncs[r] # Idle => s = r
    /\ \A s \in Slots : Alone(s)

\* One sync goes on, the others are idle.
LEMMA AloneSteps ==
  ASSUME OrderInv, NEW s \in Slots, NEW v, syncs' = [syncs EXCEPT ![s] = v],
         \A r \in Slots : r # s => syncs[r] = Idle,
         Alone(s)'
  PROVE  AloneInv'
<1>1. \A r \in Slots : syncs'[r] = IF r = s THEN v ELSE syncs[r]
  BY DEF OrderInv, TypeOK
<1>2. ASSUME NEW r \in Slots, r # s PROVE syncs'[r] = Idle /\ Alone(r)'
  <2>1. syncs'[r] = Idle
    BY <1>1, <1>2
  <2> QED
    BY <2>1 DEF Alone, Idle
<1>3. \A r \in Slots : Alone(r)'
  BY <1>2
<1> QED
  BY <1>2, <1>3 DEF AloneInv

\* A sync fetches the token account that the account has.
LEMMA ShapeTokenFacts ==
  ASSUME NEW a \in States, Ordered(a), NEW c \in Chains, InBlocks(c)
  PROVE  LET token == getAccountShape(a, c).token
         IN  token.pending # <<>> => token.there /\ a.token.pending # <<>>
<1> DEFINE token == ShapeToken(a, c)
           merged == [there |-> TRUE,
                      operations |-> mergeOps(a.token.operations, NewTokenOps(a, c)),
                      pending |-> a.token.pending]
<1>1. token \in {NoToken, a.token, merged}
  BY Zenon DEF ShapeToken
<1>2. merged.there /\ merged.pending = a.token.pending
  OBVIOUS
<1>3. NoToken.pending = <<>>
  BY DEF NoToken
<1>4. a.token.pending # <<>> => a.token.there
  BY DEF Ordered
<1>5. getAccountShape(a, c).token = token
  <2> HIDE DEF token
  <2>1. getAccountShape(a, c)
          = [operations |-> mergeOps(stableOperations(a), NewOps(a, c)),
             height |-> Len(c), token |-> token]
    BY ShapeIs DEF token
  <2> QED
    BY <2>1
<1> HIDE DEF token, merged
<1> QED
  BY <1>1, <1>2, <1>3, <1>4, <1>5

LEMMA InitAlone == Init => AloneInv
BY DEF Init, AloneInv, Alone, Idle

LEMMA NextAlone ==
  ASSUME OrderInv, AloneInv, [Next]_vars
  PROVE  AloneInv'
<1> SUFFICES ASSUME ~setting.overlap PROVE AloneInv'
  <2>1. setting' = setting
    BY DEF Next, vars, Broadcast, AddPending, NewBlock, Reorganise, StartSync, Fetch,
           FetchFails, Update
  <2> QED
    BY <2>1 DEF AloneInv
<1>0. /\ \A s, r \in Slots : syncs[s] # Idle /\ syncs[r] # Idle => s = r
      /\ \A s \in Slots : Alone(s)
      /\ account \in States /\ Ordered(account)
      /\ syncs \in [Slots -> Syncs]
  BY DEF AloneInv, OrderInv, TypeOK
<1>1. ASSUME UNCHANGED <<account, syncs, setting>> PROVE AloneInv'
  BY <1>0, <1>1 DEF AloneInv, Alone
<1>2. ASSUME NEW t \in Here, Broadcast(t) PROVE AloneInv'
  BY <1>1, <1>2 DEF Broadcast
<1>3. ASSUME NEW t \in Here, AddPending(t) PROVE AloneInv'
  <2>1. /\ account'.token.operations = account.token.operations
        /\ account.token.pending # <<>> => account'.token.pending # <<>>
    BY <1>0, <1>3, AddFacts DEF AddPending
  <2>2. syncs' = syncs
    BY <1>3 DEF AddPending
  <2> QED
    BY <1>0, <2>1, <2>2 DEF AloneInv, Alone
<1>4. CASE NewBlock \/ Reorganise
  BY <1>1, <1>4 DEF NewBlock, Reorganise
<1>5. ASSUME NEW s \in Slots, StartSync(s) PROVE AloneInv'
  <2> DEFINE v == [phase |-> "fetching", initial |-> account]
  <2>1. syncs' = [syncs EXCEPT ![s] = v] /\ \A r \in Slots : syncs[r] = Idle
        /\ account' = account
    BY <1>5 DEF StartSync
  <2>2. Alone(s)'
    <3>1. syncs'[s] = v
      BY <1>0, <2>1
    <3> QED
      BY <2>1, <3>1 DEF Alone
  <2> HIDE DEF v
  <2> QED
    BY <2>1, <2>2, AloneSteps
<1>6. ASSUME NEW s \in Slots, syncs[s] # Idle, NEW v, syncs' = [syncs EXCEPT ![s] = v],
             Alone(s)'
      PROVE  AloneInv'
  BY <1>0, <1>6, AloneSteps
<1>7. ASSUME NEW s \in Slots, Fetch(s) PROVE AloneInv'
  <2> DEFINE shape == getAccountShape(syncs[s].initial, chain)
             v == [phase |-> "fetched", shape |-> shape]
  <2>1. shape.token.pending # <<>>
          => shape.token.there /\ syncs[s].initial.token.pending # <<>>
    BY <1>7, FetchIs, ShapeTokenFacts
  <2>2. syncs' = [syncs EXCEPT ![s] = v] /\ account' = account
        /\ syncs[s].phase = "fetching"
    BY <1>7 DEF Fetch
  <2>3. syncs[s] # Idle
    BY <2>2 DEF Idle
  <2>4. syncs'[s] = v
    BY <1>7, FetchIs
  <2> HIDE DEF shape
  <2>5. Alone(s)'
    BY <1>0, <2>1, <2>2, <2>4 DEF Alone
  <2> HIDE DEF v
  <2> QED
    BY <1>6, <2>2, <2>3, <2>5
<1>8. ASSUME NEW s \in Slots, FetchFails(s) \/ Update(s) PROVE AloneInv'
  <2>1. syncs' = [syncs EXCEPT ![s] = Idle] /\ syncs[s] # Idle
    BY <1>8 DEF FetchFails, Update, Idle
  <2>2. syncs'[s] = Idle
    BY <1>0, <2>1
  <2>3. Alone(s)'
    BY <2>2 DEF Alone, Idle
  <2> QED
    BY <1>6, <2>1, <2>3
<1>9. CASE UNCHANGED vars
  BY <1>1, <1>9 DEF vars
<1> QED
  BY <1>2, <1>3, <1>4, <1>5, <1>7, <1>8, <1>9 DEF Next

\* After a sync that is alone, what is pending in the token account is in its parent.
THEOREM ChildTheorem == Spec => ChildFollowsParent
<1> DEFINE Follows ==
             ~setting.overlap /\ (\E s \in Slots : Update(s)) =>
               ToSet(account'.token.pending) \subseteq ToSet(account'.pending)
<1>1. OrderInv /\ AloneInv => Follows
  <2> SUFFICES ASSUME OrderInv, AloneInv, ~setting.overlap,
                      NEW s \in Slots, Update(s)
               PROVE  ToSet(account'.token.pending) \subseteq ToSet(account'.pending)
    OBVIOUS
  <2> DEFINE shape == syncs[s].shape
  <2>1. PICK late \in SUBSET noted : account' = Updated(account, shape, late)
    BY UpdateIs
  <2>2. shape \in Shapes /\ Ordered(shape) /\ account \in States /\ Ordered(account)
    BY UpdateIs DEF OrderInv, TypeOK
  <2>3. Alone(s) /\ syncs[s].phase = "fetched"
    BY DEF AloneInv, Update
  <2>4. shape.token.pending # <<>> => shape.token.there /\ account.token.pending # <<>>
    BY <2>3 DEF Alone
  <2> HIDE DEF shape
  <2>5. IF Patched(account, shape)
        THEN ToSet(account'.token.pending) \subseteq ToSet(account'.pending)
        ELSE account'.token = shape.token
    BY <2>1, <2>2, UpdatedIs
  <2>6. CASE Patched(account, shape)
    BY <2>5, <2>6
  <2>7. CASE ~Patched(account, shape)
    <3>1. shape.token.pending = <<>>
      BY <2>2, <2>4, <2>7 DEF Patched, Ordered
    <3> QED
      BY <2>5, <2>7, <3>1, EmptyFacts
  <2> QED
    BY <2>6, <2>7
<1>2. OrderInv /\ AloneInv /\ [Next]_vars => AloneInv'
  BY NextAlone
<1>3. OrderInv /\ AloneInv => [Follows]_vars
  BY <1>1
<1> HIDE DEF Follows
<1>4. Spec => [][Follows]_vars
  BY <1>2, <1>3, InitAlone, OrderAlways, PTL DEF Spec
<1> QED
  BY <1>4 DEF Follows, ChildFollowsParent

(***************************************************************************)
(* The first transaction of the address, which never moves, is in every    *)
(* history, and no operation is older.                                     *)
(***************************************************************************)

IsFirst(k, X) ==
  /\ k \in DOMAIN Past /\ Past[k] \in X
  /\ \A j \in DOMAIN Past : Past[j] \in X => k <= j

Root == CHOOSE k \in DOMAIN Past : IsFirst(k, Txs)
TokenRoot == CHOOSE k \in DOMAIN Past : IsFirst(k, TokenTxs)

LEMMA FirstExists ==
  ASSUME NEW X, NEW i \in DOMAIN Past, Past[i] \in X
  PROVE  \E k \in DOMAIN Past : IsFirst(k, X)
<1>0. Len(Past) \in Nat /\ DOMAIN Past = 1..Len(Past)
  BY AccountAssumption
<1> DEFINE Found == \E k \in DOMAIN Past : IsFirst(k, X)
           T == {n \in Nat : \A j \in DOMAIN Past : j <= n /\ Past[j] \in X => Found}
<1> HIDE DEF Found
<1>1. 0 \in T
  BY <1>0
<1>2. ASSUME NEW n \in Nat, n \in T PROVE n + 1 \in T
  <2> SUFFICES ASSUME NEW j \in DOMAIN Past, j <= n + 1, Past[j] \in X PROVE Found
    OBVIOUS
  <2>1. CASE \E l \in DOMAIN Past : l <= n /\ Past[l] \in X
    BY <1>2, <2>1
  <2>2. CASE \A l \in DOMAIN Past : Past[l] \in X => ~(l <= n)
    <3>1. IsFirst(j, X)
      BY <1>0, <1>2, <2>2 DEF IsFirst
    <3> QED
      BY <3>1 DEF Found
  <2> QED
    BY <2>1, <2>2
<1>3. i \in T
  <2> HIDE DEF T
  <2> QED
    BY <1>0, <1>1, <1>2, Induct
<1> QED
  BY <1>0, <1>3 DEF Found

Above(operations, k) ==
  \A o \in ToSet(operations) : o.height >= k /\ (o.hash = Past[k] => o.height = k)

Rooted(operations, k) == Above(operations, k) /\ Op(Past, k) \in ToSet(operations)

\* Nothing on the chain is older.
LEMMA ChainAbove ==
  ASSUME NEW c \in Chains, InBlocks(c), Shared(Past, c, Len(Past)),
         NEW X \in SUBSET Txs, NEW k, IsFirst(k, X)
  PROVE  /\ k \in DOMAIN c /\ k \in Nat /\ k > 0 /\ Past[k] \in Txs /\ Op(c, k) = Op(Past, k)
         /\ c[k] = Past[k]
         /\ \A i \in DOMAIN c : c[i] \in X =>
              Op(c, i).height >= k /\ (Op(c, i).hash = Past[k] => Op(c, i).height = k)
<1>1. /\ Len(Past) \in Nat /\ DOMAIN Past = 1..Len(Past)
      /\ Len(c) \in Nat /\ DOMAIN c = 1..Len(c) /\ Len(Past) <= Len(c)
      /\ \A i \in 1..Len(Past) : c[i] = Past[i]
  BY AccountAssumption DEF Chains, Shared
<1>2. k \in 1..Len(Past) /\ c[k] = Past[k] /\ Past[k] \in Txs /\ Past[k] # NoTx
  BY <1>1, AccountAssumption DEF IsFirst
<1>3. ASSUME NEW i \in DOMAIN c, c[i] \in X PROVE i >= k /\ (c[i] = Past[k] => i = k)
  <2>1. i >= k
    <3> SUFFICES ASSUME i < k PROVE FALSE
      BY <1>1, <1>2
    <3>1. i \in 1..Len(Past) /\ Past[i] \in X
      BY <1>1, <1>2, <1>3
    <3> QED
      BY <1>1, <3>1 DEF IsFirst
  <2> QED
    BY <1>1, <1>2, <2>1 DEF InBlocks
<1> QED
  BY <1>1, <1>2, <1>3 DEF Op

LEMMA NewOpsAbove ==
  ASSUME NEW a \in States, Ordered(a),
         NEW c \in Chains, InBlocks(c), Shared(Past, c, Len(Past))
  PROVE  /\ \A k : IsFirst(k, Txs) => Above(NewOps(a, c), k)
         /\ \A k : IsFirst(k, TokenTxs) => Above(NewTokenOps(a, c), k)
<1>1. SortedOnce(a.operations)
  BY DEF Ordered
<1>2. ASSUME NEW k, IsFirst(k, Txs) PROVE Above(NewOps(a, c), k)
  <2>1. Txs \in SUBSET Txs
    OBVIOUS
  <2>2. \A i \in DOMAIN c : c[i] \in Txs =>
          Op(c, i).height >= k /\ (Op(c, i).hash = Past[k] => Op(c, i).height = k)
    BY <1>2, <2>1, ChainAbove
  <2> QED
    BY <1>1, <2>2, NewOpsFacts DEF Above
<1>3. ASSUME NEW k, IsFirst(k, TokenTxs) PROVE Above(NewTokenOps(a, c), k)
  <2>1. TokenTxs \in SUBSET Txs
    BY AccountAssumption
  <2>2. \A i \in DOMAIN c : c[i] \in TokenTxs =>
          Op(c, i).height >= k /\ (Op(c, i).hash = Past[k] => Op(c, i).height = k)
    BY <1>3, <2>1, ChainAbove
  <2> QED
    BY <1>1, <2>2, NewOpsFacts DEF Above
<1> QED
  BY <1>2, <1>3

\* A merge into a history with the first transaction loses nothing.
LEMMA RootedMerge ==
  ASSUME NEW s \in Seq(Ops), NEW t \in Seq(Ops), SortedOnce(s), Once(t),
         NEW k \in Nat, Past[k] \in Txs, Rooted(s, k), Above(t, k)
  PROVE  /\ Rooted(mergeOps(s, t), k)
         /\ Hashes(mergeOps(s, t)) = Hashes(s) \cup Hashes(t)
         /\ Covered(s, t)
<1> DEFINE r == mergeOps(s, t)
           o == Op(Past, k)
<1>1. o \in ToSet(s) /\ o.height = k /\ o.hash = Past[k]
  BY DEF Rooted, Op
<1>2. Covered(s, t)
  BY <1>1 DEF Covered, Above
<1>3. /\ ToSet(r) \subseteq ToSet(s) \cup ToSet(t)
      /\ ToSet(t) \subseteq ToSet(r)
      /\ \A x \in ToSet(s) : x.hash \notin Hashes(t) => x \in ToSet(r)
      /\ Hashes(r) = Hashes(s) \cup Hashes(t)
  BY <1>2, MergeFacts
<1> HIDE DEF r
<1>4. Above(r, k)
  BY <1>3 DEF Above, Rooted
<1>5. o \in ToSet(r)
  <2>1. CASE o.hash \in Hashes(t)
    <3>1. PICK y \in ToSet(t) : y.hash = o.hash
      BY <2>1, HashesAre
    <3>2. y.height = k
      BY <1>1, <3>1 DEF Above
    <3>3. y \in Ops
      BY SeqFacts
    <3>4. y = o
      BY <1>1, <3>1, <3>2, <3>3 DEF Ops, Op
    <3> QED
      BY <1>3, <3>4
  <2>2. CASE o.hash \notin Hashes(t)
    BY <1>1, <1>3, <2>2
  <2> QED
    BY <2>1, <2>2
<1> QED
  BY <1>2, <1>3, <1>4, <1>5 DEF Rooted, r

LEMMA MergeAbove ==
  ASSUME NEW s \in Seq(Ops), NEW t \in Seq(Ops), SortedOnce(s), Once(t),
         NEW k, Above(s, k), Above(t, k)
  PROVE  Above(mergeOps(s, t), k)
<1>1. ToSet(mergeOps(s, t)) \subseteq ToSet(s) \cup ToSet(t)
  BY MergeFacts
<1> QED
  BY <1>1 DEF Above

\* What is fetched loses nothing either.
LEMMA ShapeAbove ==
  ASSUME NEW a \in States, Ordered(a), NEW c \in Chains, InBlocks(c),
         Shared(Past, c, Len(Past)), NEW k, IsFirst(k, Txs), Above(a.operations, k)
  PROVE  Above(getAccountShape(a, c).operations, k)
<1>1. ToSet(getAccountShape(a, c).operations) \subseteq ToSet(a.operations) \cup ToSet(NewOps(a, c))
  BY ShapeFacts
<1>2. Above(NewOps(a, c), k)
  BY NewOpsAbove
<1> QED
  BY <1>1, <1>2 DEF Above

LEMMA ShapeTokenRooted ==
  ASSUME NEW a \in States, Ordered(a), NEW c \in Chains, InBlocks(c),
         Shared(Past, c, Len(Past)), NEW k, IsFirst(k, TokenTxs),
         Rooted(a.token.operations, k)
  PROVE  LET token == getAccountShape(a, c).token
         IN  /\ Rooted(token.operations, k)
             /\ Hashes(a.token.operations) \subseteq Hashes(token.operations)
<1> DEFINE token == ShapeToken(a, c)
           t == NewTokenOps(a, c)
           operations == mergeOps(a.token.operations, t)
<1>1. /\ a.token.operations \in Seq(Ops) /\ SortedOnce(a.token.operations)
      /\ SortedOnce(a.operations)
  BY DEF States, Tokens, Ordered
<1>2. t \in Seq(Ops) /\ Once(t) /\ Above(t, k)
  BY <1>1, NewOpsFacts, NewOpsAbove
<1>3. TokenTxs \in SUBSET Txs
  BY AccountAssumption
<1>4. k \in Nat /\ k > 0 /\ Past[k] \in Txs /\ k \in DOMAIN c /\ c[k] = Past[k]
      /\ Op(c, k) = Op(Past, k)
  BY <1>3, ChainAbove
<1> HIDE DEF t
<1>5. Rooted(operations, k)
      /\ Hashes(operations) = Hashes(a.token.operations) \cup Hashes(t)
  BY <1>1, <1>2, <1>4, RootedMerge
<1>6. ~(FromBlock(a) = 0 /\ NewOps(a, c) = <<>>)
  <2> SUFFICES ASSUME FromBlock(a) = 0 PROVE NewOps(a, c) # <<>>
    OBVIOUS
  <2>1. Op(c, k) \in ToSet(NewOps(a, c))
    BY <1>1, <1>4, NewOpsFacts
  <2> QED
    BY <2>1, EmptyFacts
<1>7. token = a.token \/ token.operations = operations
  BY <1>6 DEF ShapeToken, t
<1>8. getAccountShape(a, c).token = token
  <2> HIDE DEF token
  <2>1. getAccountShape(a, c)
          = [operations |-> mergeOps(stableOperations(a), NewOps(a, c)),
             height |-> Len(c), token |-> token]
    BY ShapeIs DEF token
  <2> QED
    BY <2>1
<1> HIDE DEF token, operations
<1> QED
  BY <1>5, <1>7, <1>8

LEMMA FirstMerge ==
  ASSUME NEW t \in Seq(Ops), Once(t)
  PROVE  ToSet(mergeOps(<<>>, t)) = ToSet(t)
<1> DEFINE s == <<>>
<1>1. s \in Seq(Ops) /\ ToSet(s) = {} /\ SortedOnce(s) /\ Covered(s, t)
  BY EmptySorted DEF Covered
<1> HIDE DEF s
<1>2. ToSet(mergeOps(s, t)) \subseteq ToSet(s) \cup ToSet(t)
      /\ ToSet(t) \subseteq ToSet(mergeOps(s, t))
  BY <1>1, MergeFacts
<1> QED
  BY <1>1, <1>2 DEF s

\* The histories when the account is added.
LEMMA FirstHistory ==
  ASSUME Init
  PROVE  /\ \A o : o \in ToSet(account.operations)
                     <=> \E i \in DOMAIN Past : Past[i] \in Txs /\ o = Op(Past, i)
         /\ account.height = Len(Past)
         /\ (\E i \in DOMAIN Past : Past[i] \in TokenTxs) =>
              \A o : o \in ToSet(account.token.operations)
                       <=> \E i \in DOMAIN Past : Past[i] \in TokenTxs /\ o = Op(Past, i)
<1> DEFINE shape == getAccountShape(Empty, Past)
           n == NewOps(Empty, Past)
           t == NewTokenOps(Empty, Past)
           token == ShapeToken(Empty, Past)
           s == stableOperations(Empty)
<1>0. /\ Past \in Chains /\ InBlocks(Past) /\ Len(Past) \in Nat /\ DOMAIN Past = 1..Len(Past)
      /\ Empty \in States /\ Ordered(Empty) /\ SortedOnce(Empty.operations)
      /\ Empty.operations = <<>> /\ Empty.token.operations = <<>> /\ Empty.token = NoToken
      /\ TokenTxs \subseteq Txs
  <2>1. Empty.operations = <<>> /\ Empty.token.operations = <<>> /\ Empty.token = NoToken
    BY DEF Empty, NoToken
  <2> QED
    BY <2>1, AccountAssumption, EmptyIs DEF Chains, Ordered
<1>1. s = <<>> /\ FromBlock(Empty) = 0
  <2>1. ToSet(s) = {}
    <3>1. ToSet(s) \subseteq ToSet(Empty.operations)
      BY <1>0, StableFacts
    <3> QED
      BY <1>0, <3>1, EmptyFacts
  <2>2. s = <<>>
    <3> SUFFICES ASSUME s # <<>> PROVE FALSE
      OBVIOUS
    <3>1. \E o \in ToSet(s) : o.height = FromBlock(Empty)
      BY <1>0, StableHead
    <3> QED
      BY <2>1, <3>1
  <2> QED
    BY <2>2 DEF FromBlock
<1>2. /\ n \in Seq(Ops) /\ Once(n)
      /\ \A o : o \in ToSet(n)
                  <=> \E i \in DOMAIN Past : i > 0 /\ Past[i] \in Txs /\ o = Op(Past, i)
      /\ t \in Seq(Ops) /\ Once(t)
      /\ \A o : o \in ToSet(t)
                  <=> \E i \in DOMAIN Past : i > 0 /\ Past[i] \in TokenTxs /\ o = Op(Past, i)
  BY <1>0, <1>1, NewOpsFacts
<1> HIDE DEF s, n, t
<1>3. \A i \in DOMAIN Past : i > 0
  BY <1>0
<1>4. shape = [operations |-> mergeOps(s, n), height |-> Len(Past), token |-> token]
  BY ShapeIs DEF s, n, token
<1> HIDE DEF shape, token
<1>5. /\ shape.operations = mergeOps(<<>>, n) /\ shape.height = Len(Past)
      /\ shape.token = token
  BY <1>1, <1>4
<1>6. ToSet(shape.operations) = ToSet(n)
  BY <1>2, <1>5, FirstMerge
<1>7. shape \in Shapes /\ Ordered(shape)
  BY <1>0, ShapeFacts DEF shape
<1>8. /\ account.operations = mergeOps(Empty.operations, shape.operations)
      /\ account.height = shape.height
      /\ account.token.operations = shape.token.operations
  <2>1. account = Updated(Empty, shape, {})
    BY DEF Init, shape
  <2> QED
    BY <1>0, <1>7, <2>1, UpdatedIs
<1>9. ToSet(account.operations) = ToSet(n)
  <2>1. shape.operations \in Seq(Ops) /\ Once(shape.operations)
    BY <1>7, SortedIs DEF Shapes, Ordered, Once
  <2> QED
    BY <1>0, <1>6, <1>8, <2>1, FirstMerge
<1>10. ASSUME NEW i \in DOMAIN Past, Past[i] \in TokenTxs
       PROVE  ToSet(account.token.operations) = ToSet(t)
  <2>1. Op(Past, i) \in ToSet(n) /\ Op(Past, i) \in ToSet(t)
    BY <1>0, <1>2, <1>3, <1>10
  <2>2. n # <<>> /\ t # <<>>
    BY <2>1, EmptyFacts
  <2>3. token.operations = mergeOps(<<>>, t)
    BY <1>0, <1>1, <2>2 DEF token, ShapeToken, n, t
  <2> QED
    BY <1>2, <1>5, <1>8, <2>3, FirstMerge
<1> QED
  BY <1>2, <1>3, <1>5, <1>8, <1>9, <1>10

\* The histories that the account and its syncs know go back to the first transaction.
RootInv ==
  /\ Rooted(account.operations, Root)
  /\ \A s \in Slots :
       /\ syncs[s].phase = "fetching" =>
            /\ Above(syncs[s].initial.operations, Root)
            /\ Hashes(syncs[s].initial.operations) \subseteq Hashes(account.operations)
       /\ syncs[s].phase = "fetched" => Above(syncs[s].shape.operations, Root)

TokenInv ==
  /\ Rooted(account.token.operations, TokenRoot)
  /\ \A s \in Slots :
       /\ syncs[s].phase = "fetching" => Rooted(syncs[s].initial.token.operations, TokenRoot)
       /\ syncs[s].phase = "fetched" =>
            /\ Rooted(syncs[s].shape.token.operations, TokenRoot)
            /\ ~setting.overlap => Hashes(account.token.operations)
                                     \subseteq Hashes(syncs[s].shape.token.operations)

LEMMA RootIs ==
  ASSUME \E i \in DOMAIN Past : Past[i] \in Txs
  PROVE  IsFirst(Root, Txs)
BY FirstExists DEF Root

LEMMA TokenRootIs ==
  ASSUME \E i \in DOMAIN Past : Past[i] \in TokenTxs
  PROVE  IsFirst(TokenRoot, TokenTxs)
BY FirstExists DEF TokenRoot

LEMMA InitRoot ==
  ASSUME Init
  PROVE  /\ (\E i \in DOMAIN Past : Past[i] \in Txs) => RootInv
         /\ (\E i \in DOMAIN Past : Past[i] \in TokenTxs) => TokenInv
<1>0. /\ Past \in Chains /\ InBlocks(Past) /\ Shared(Past, Past, Len(Past))
      /\ Txs \in SUBSET Txs /\ TokenTxs \in SUBSET Txs
      /\ \A s \in Slots : syncs[s].phase = "idle"
  BY AccountAssumption DEF Chains, Shared, Init, Idle
<1>1. ASSUME NEW X \in SUBSET Txs, NEW k, IsFirst(k, X), NEW operations,
             \A o : o \in ToSet(operations)
                      <=> \E i \in DOMAIN Past : Past[i] \in X /\ o = Op(Past, i)
      PROVE  Rooted(operations, k)
  <2>1. k \in DOMAIN Past /\ Past[k] \in X
    BY <1>1 DEF IsFirst
  <2>2. \A i \in DOMAIN Past : Past[i] \in X =>
          Op(Past, i).height >= k /\ (Op(Past, i).hash = Past[k] => Op(Past, i).height = k)
    BY <1>0, <1>1, ChainAbove
  <2> QED
    BY <1>1, <2>1, <2>2 DEF Rooted, Above
<1>2. ASSUME \E i \in DOMAIN Past : Past[i] \in Txs PROVE RootInv
  <2>1. Rooted(account.operations, Root)
    BY <1>0, <1>1, <1>2, RootIs, FirstHistory
  <2> QED
    BY <1>0, <2>1 DEF RootInv
<1>3. ASSUME \E i \in DOMAIN Past : Past[i] \in TokenTxs PROVE TokenInv
  <2>1. Rooted(account.token.operations, TokenRoot)
    BY <1>0, <1>1, <1>3, TokenRootIs, FirstHistory
  <2> QED
    BY <1>0, <2>1 DEF TokenInv
<1> QED
  BY <1>2, <1>3

LEMMA UpdateRooted ==
  ASSUME OrderInv, RootInv, \E i \in DOMAIN Past : Past[i] \in Txs,
         NEW s \in Slots, Update(s)
  PROVE  /\ Rooted(account'.operations, Root)
         /\ Hashes(account'.operations)
              = Hashes(account.operations) \cup Hashes(syncs[s].shape.operations)
         /\ Covered(account.operations, syncs[s].shape.operations)
         /\ account'.operations = mergeOps(account.operations, syncs[s].shape.operations)
         /\ account'.height = syncs[s].shape.height
<1> DEFINE shape == syncs[s].shape
<1>1. PICK late \in SUBSET noted : account' = Updated(account, shape, late)
  BY UpdateIs
<1>2. shape \in Shapes /\ Ordered(shape) /\ account \in States /\ Ordered(account)
  BY UpdateIs DEF OrderInv, TypeOK
<1>3. Above(shape.operations, Root) /\ Rooted(account.operations, Root)
  BY DEF RootInv, Update
<1> HIDE DEF shape
<1>4. account'.operations = mergeOps(account.operations, shape.operations)
      /\ account'.height = shape.height
  BY <1>1, <1>2, UpdatedIs
<1>5. /\ account.operations \in Seq(Ops) /\ SortedOnce(account.operations)
      /\ shape.operations \in Seq(Ops) /\ Once(shape.operations)
  BY <1>2, SortedIs DEF States, Shapes, Ordered, Once
<1>6. Root \in Nat /\ Past[Root] \in Txs
  BY RootIs, AccountAssumption DEF IsFirst
<1> QED
  BY <1>3, <1>4, <1>5, <1>6, RootedMerge DEF shape

LEMMA NextRoot ==
  ASSUME OrderInv, RootInv, [Next]_vars, \E i \in DOMAIN Past : Past[i] \in Txs
  PROVE  RootInv' /\ Hashes(account.operations) \subseteq Hashes(account'.operations)
<1> DEFINE Goal == RootInv' /\ Hashes(account.operations) \subseteq Hashes(account'.operations)
           Knows(v) ==
             /\ v.phase = "fetching" =>
                  /\ Above(v.initial.operations, Root)
                  /\ Hashes(v.initial.operations) \subseteq Hashes(account'.operations)
             /\ v.phase = "fetched" => Above(v.shape.operations, Root)
<1>0. /\ account \in States /\ Ordered(account) /\ syncs \in [Slots -> Syncs]
      /\ Rooted(account.operations, Root)
  BY DEF OrderInv, TypeOK, RootInv
<1>1. ASSUME Rooted(account'.operations, Root),
             Hashes(account.operations) \subseteq Hashes(account'.operations),
             \A s \in Slots : syncs'[s] = syncs[s] \/ Knows(syncs'[s])
      PROVE  Goal
  <2>1. \A s \in Slots : Knows(syncs'[s])
    BY <1>1 DEF RootInv
  <2> QED
    BY <1>1, <2>1 DEF RootInv
<1> HIDE DEF Goal
<1>2. ASSUME syncs' = syncs, account'.operations = account.operations PROVE Goal
  BY <1>0, <1>1, <1>2
<1>3. ASSUME NEW t \in Here, Broadcast(t) PROVE Goal
  BY <1>2, <1>3 DEF Broadcast
<1>4. ASSUME NEW t \in Here, AddPending(t) PROVE Goal
  <2>1. account' = addPendingOperation(account, t) /\ syncs' = syncs
    BY <1>4 DEF AddPending
  <2>2. account'.operations = account.operations
    BY <1>0, <2>1, AddFacts
  <2> QED
    BY <1>2, <2>1, <2>2
<1>5. ASSUME NewBlock \/ Reorganise PROVE Goal
  <2>1. syncs' = syncs /\ account' = account
    BY <1>5 DEF NewBlock, Reorganise
  <2>2. account'.operations = account.operations
    BY <2>1
  <2> QED
    BY <1>2, <2>1, <2>2
<1>6. ASSUME NEW s \in Slots, NEW v, syncs' = [syncs EXCEPT ![s] = v],
             Rooted(account'.operations, Root),
             Hashes(account.operations) \subseteq Hashes(account'.operations), Knows(v)
      PROVE  Goal
  <2>1. \A r \in Slots : syncs'[r] = IF r = s THEN v ELSE syncs[r]
    BY <1>0, <1>6
  <2> HIDE DEF Knows
  <2> QED
    BY <1>1, <1>6, <2>1
<1>7. Knows(Idle)
  BY DEF Idle
<1>8. ASSUME NEW s \in Slots, StartSync(s) PROVE Goal
  <2> DEFINE v == [phase |-> "fetching", initial |-> account]
  <2>1. syncs' = [syncs EXCEPT ![s] = v] /\ account' = account
    BY <1>8 DEF StartSync
  <2>2. Knows(v)
    BY <1>0, <2>1 DEF Rooted
  <2> HIDE DEF v, Knows
  <2> QED
    BY <1>0, <1>6, <2>1, <2>2
<1>9. ASSUME NEW s \in Slots, Fetch(s) PROVE Goal
  <2> DEFINE shape == getAccountShape(syncs[s].initial, chain)
             v == [phase |-> "fetched", shape |-> shape]
  <2>1. syncs' = [syncs EXCEPT ![s] = v] /\ account' = account
    BY <1>9 DEF Fetch
  <2>2. Above(syncs[s].initial.operations, Root)
    BY <1>9 DEF RootInv, Fetch
  <2>3. Shared(Past, chain, Len(Past))
    BY DEF OrderInv, ChainInv
  <2>4. Above(shape.operations, Root)
    BY <1>9, <2>2, <2>3, FetchIs, RootIs, ShapeAbove
  <2> HIDE DEF shape
  <2>5. Knows(v)
    BY <2>4
  <2> HIDE DEF v, Knows
  <2> QED
    BY <1>0, <1>6, <2>1, <2>5
<1>10. ASSUME NEW s \in Slots, FetchFails(s) PROVE Goal
  <2>1. syncs' = [syncs EXCEPT ![s] = Idle] /\ account' = account
    BY <1>10 DEF FetchFails
  <2> HIDE DEF Knows
  <2> QED
    BY <1>0, <1>6, <1>7, <2>1
<1>11. ASSUME NEW s \in Slots, Update(s) PROVE Goal
  <2>1. syncs' = [syncs EXCEPT ![s] = Idle]
    BY <1>11 DEF Update
  <2>2. Rooted(account'.operations, Root)
        /\ Hashes(account.operations) \subseteq Hashes(account'.operations)
    BY <1>11, UpdateRooted
  <2> HIDE DEF Knows
  <2> QED
    BY <1>6, <1>7, <2>1, <2>2
<1>12. ASSUME UNCHANGED vars PROVE Goal
  <2>1. syncs' = syncs /\ account' = account
    BY <1>12 DEF vars
  <2>2. account'.operations = account.operations
    BY <2>1
  <2> QED
    BY <1>2, <2>1, <2>2
<1> QED
  BY <1>3, <1>4, <1>5, <1>8, <1>9, <1>10, <1>11, <1>12 DEF Next, Goal

LEMMA NextToken ==
  ASSUME OrderInv, AloneInv, TokenInv, [Next]_vars,
         \E i \in DOMAIN Past : Past[i] \in TokenTxs
  PROVE  /\ TokenInv'
         /\ ~setting.overlap => Hashes(account.token.operations)
                                  \subseteq Hashes(account'.token.operations)
<1> DEFINE Stays == ~setting.overlap => Hashes(account.token.operations)
                                         \subseteq Hashes(account'.token.operations)
           Goal == TokenInv' /\ Stays
           Knows(v) ==
             /\ v.phase = "fetching" => Rooted(v.initial.token.operations, TokenRoot)
             /\ v.phase = "fetched" =>
                  /\ Rooted(v.shape.token.operations, TokenRoot)
                  /\ ~setting.overlap => Hashes(account'.token.operations)
                                           \subseteq Hashes(v.shape.token.operations)
<1>0. /\ account \in States /\ Ordered(account) /\ syncs \in [Slots -> Syncs]
      /\ Rooted(account.token.operations, TokenRoot)
      /\ setting' = setting
  BY DEF OrderInv, TypeOK, TokenInv, Next, vars, Broadcast, AddPending, NewBlock,
         Reorganise, StartSync, Fetch, FetchFails, Update
<1>1. ASSUME Rooted(account'.token.operations, TokenRoot), Stays,
             \A s \in Slots : Knows(syncs'[s])
      PROVE  Goal
  BY <1>0, <1>1 DEF TokenInv
<1>2. ASSUME account'.token.operations = account.token.operations, NEW s \in Slots
      PROVE  Knows(syncs[s])
  BY <1>2 DEF TokenInv
<1>3. account'.token.operations = account.token.operations => Stays
  OBVIOUS
<1> HIDE DEF Goal, Stays
<1>4. ASSUME syncs' = syncs, account'.token.operations = account.token.operations
      PROVE  Goal
  <2> HIDE DEF Knows
  <2> QED
    BY <1>0, <1>1, <1>2, <1>3, <1>4
<1>5. ASSUME NEW t \in Here, Broadcast(t) PROVE Goal
  BY <1>4, <1>5 DEF Broadcast
<1>6. ASSUME NEW t \in Here, AddPending(t) PROVE Goal
  <2>1. account' = addPendingOperation(account, t) /\ syncs' = syncs
    BY <1>6 DEF AddPending
  <2>2. account'.token.operations = account.token.operations
    BY <1>0, <2>1, AddFacts
  <2> QED
    BY <1>4, <2>1, <2>2
<1>7. ASSUME NewBlock \/ Reorganise PROVE Goal
  <2>1. syncs' = syncs /\ account' = account
    BY <1>7 DEF NewBlock, Reorganise
  <2>2. account'.token.operations = account.token.operations
    BY <2>1
  <2> QED
    BY <1>4, <2>1, <2>2
<1>8. ASSUME NEW s \in Slots, NEW v, syncs' = [syncs EXCEPT ![s] = v], Knows(v),
             account' = account
      PROVE  Goal
  <2>1. \A r \in Slots : syncs'[r] = IF r = s THEN v ELSE syncs[r]
    BY <1>0, <1>8
  <2> HIDE DEF Knows
  <2> QED
    BY <1>0, <1>1, <1>2, <1>3, <1>8, <2>1
<1>9. Knows(Idle)
  BY DEF Idle
<1>10. ASSUME NEW s \in Slots, StartSync(s) PROVE Goal
  <2> DEFINE v == [phase |-> "fetching", initial |-> account]
  <2>1. syncs' = [syncs EXCEPT ![s] = v] /\ account' = account
    BY <1>10 DEF StartSync
  <2>2. Knows(v)
    BY <1>0
  <2> HIDE DEF v, Knows
  <2> QED
    BY <1>8, <2>1, <2>2
<1>11. ASSUME NEW s \in Slots, Fetch(s) PROVE Goal
  <2> DEFINE initial == syncs[s].initial
             shape == getAccountShape(initial, chain)
             v == [phase |-> "fetched", shape |-> shape]
  <2>1. syncs' = [syncs EXCEPT ![s] = v] /\ account' = account
        /\ syncs[s].phase = "fetching"
    BY <1>11 DEF Fetch
  <2>2. Rooted(initial.token.operations, TokenRoot)
    BY <2>1 DEF TokenInv
  <2>3. Shared(Past, chain, Len(Past))
    BY DEF OrderInv, ChainInv
  <2>4. initial \in States /\ Ordered(initial) /\ chain \in Chains /\ InBlocks(chain)
    BY <1>11, FetchIs
  <2>5. ~setting.overlap => initial.token.operations = account.token.operations
    BY <2>1 DEF AloneInv, Alone
  <2> HIDE DEF initial
  <2>6. Rooted(shape.token.operations, TokenRoot)
        /\ Hashes(initial.token.operations) \subseteq Hashes(shape.token.operations)
    BY <2>2, <2>3, <2>4, TokenRootIs, ShapeTokenRooted
  <2> HIDE DEF shape
  <2>7. Knows(v)
    BY <2>1, <2>5, <2>6
  <2> HIDE DEF v, Knows
  <2> QED
    BY <1>8, <2>1, <2>7 DEF v, shape, initial
<1>12. ASSUME NEW s \in Slots, FetchFails(s) PROVE Goal
  BY <1>8, <1>9, <1>12 DEF FetchFails
<1>13. ASSUME NEW s \in Slots, Update(s) PROVE Goal
  <2> DEFINE shape == syncs[s].shape
  <2>1. account'.token.operations = shape.token.operations
    <3>1. PICK late \in SUBSET noted : account' = Updated(account, shape, late)
      BY <1>13, UpdateIs
    <3>2. shape \in Shapes /\ Ordered(shape)
      BY <1>13, UpdateIs
    <3> HIDE DEF shape
    <3> QED
      BY <1>0, <3>1, <3>2, UpdatedIs
  <2>2. syncs' = [syncs EXCEPT ![s] = Idle] /\ syncs[s].phase = "fetched"
    BY <1>13 DEF Update
  <2>3. Rooted(shape.token.operations, TokenRoot)
        /\ (~setting.overlap => Hashes(account.token.operations)
                                  \subseteq Hashes(shape.token.operations))
    BY <2>2 DEF TokenInv
  <2>4. Stays /\ Rooted(account'.token.operations, TokenRoot)
    BY <2>1, <2>3 DEF Stays
  <2>5. ASSUME NEW r \in Slots PROVE Knows(syncs'[r])
    <3>1. syncs'[r] = IF r = s THEN Idle ELSE syncs[r]
      BY <1>0, <2>2
    <3>2. CASE r = s
      <4> HIDE DEF Knows
      <4> QED
        BY <1>9, <3>1, <3>2
    <3>3. CASE r # s /\ setting.overlap
      <4>1. syncs'[r] = syncs[r]
        BY <3>1, <3>3
      <4> QED
        BY <3>3, <4>1 DEF TokenInv
    <3>4. CASE r # s /\ ~setting.overlap
      <4>1. syncs[r] = Idle
        BY <2>2, <3>4 DEF AloneInv, Idle
      <4> HIDE DEF Knows
      <4> QED
        BY <1>9, <3>1, <4>1
    <3> QED
      BY <3>2, <3>3, <3>4
  <2> HIDE DEF Knows
  <2> QED
    BY <1>1, <2>4, <2>5
<1>14. ASSUME UNCHANGED vars PROVE Goal
  <2>1. syncs' = syncs /\ account' = account
    BY <1>14 DEF vars
  <2>2. account'.token.operations = account.token.operations
    BY <2>1
  <2> QED
    BY <1>4, <2>1, <2>2
<1> QED
  BY <1>5, <1>6, <1>7, <1>10, <1>11, <1>12, <1>13, <1>14 DEF Next, Goal, Stays

\* With a transfer of the token that is older than what moves, no transaction leaves the
\* history, and none leaves that of the token if syncs do not overlap.
THEOREM HistoryTheorem ==
  ASSUME \E i \in DOMAIN Past : Past[i] \in TokenTxs
  PROVE  Spec => HistoryKept
<1> DEFINE Keeps ==
             /\ Hashes(account.operations) \subseteq Hashes(account'.operations)
             /\ ~setting.overlap => Hashes(account.token.operations)
                                      \subseteq Hashes(account'.token.operations)
           Inv == OrderInv /\ AloneInv /\ RootInv /\ TokenInv
<1>0. \E i \in DOMAIN Past : Past[i] \in Txs
  BY AccountAssumption
<1>1. Init => Inv
  BY <1>0, InitOrder, InitAlone, InitRoot
<1>2. Inv /\ [Next]_vars => Inv' /\ Keeps
  <2> SUFFICES ASSUME Inv, [Next]_vars PROVE Inv' /\ Keeps
    OBVIOUS
  <2>1. OrderInv' /\ AloneInv'
    BY NextOrder, NextAlone
  <2>2. RootInv' /\ Hashes(account.operations) \subseteq Hashes(account'.operations)
    BY <1>0, NextRoot
  <2>3. TokenInv'
        /\ (~setting.overlap => Hashes(account.token.operations)
                                  \subseteq Hashes(account'.token.operations))
    BY NextToken
  <2> QED
    BY <2>1, <2>2, <2>3
<1> HIDE DEF Inv, Keeps
<1>3. Spec => [][Keeps]_vars
  BY <1>1, <1>2, PTL DEF Spec
<1> QED
  BY <1>3 DEF Keeps, HistoryKept

(***************************************************************************)
(* The nonces in a history have no gaps.                                   *)
(***************************************************************************)

\* Below the nonce of a transaction that the address sent, every nonce is there.
GapFree(H) ==
  \A t \in H \cap Sent : \A n \in 0..Nonce[t] - 1 : \E u \in H \cap Sent : Nonce[u] = n

LEMMA GapFreeUnion ==
  ASSUME NEW G, NEW H, GapFree(G), GapFree(H)
  PROVE  GapFree(G \cup H)
BY DEF GapFree

LEMMA SentBeforeSteps ==
  ASSUME NEW c \in Chains
  PROVE  /\ SentBefore(c, 0) = 0
         /\ \A i \in Nat :
              /\ SentBefore(c, i) \in Nat
              /\ SentBefore(c, i + 1) = IF i \in DOMAIN c /\ c[i] \in Sent
                                        THEN SentBefore(c, i) + 1 ELSE SentBefore(c, i)
<1> DEFINE D(i) == {j \in DOMAIN c : j < i /\ c[j] \in Sent}
<1>1. Len(c) \in Nat /\ DOMAIN c = 1..Len(c)
  BY DEF Chains
<1>2. IsFiniteSet(DOMAIN c)
  BY <1>1, FS_Interval
<1>3. ASSUME NEW i \in Nat PROVE IsFiniteSet(D(i)) /\ Cardinality(D(i)) \in Nat
  <2>1. D(i) \subseteq DOMAIN c
    OBVIOUS
  <2> HIDE DEF D
  <2> QED
    BY <1>2, <2>1, FS_Subset, FS_CardinalityType
<1>4. D(0) = {}
  BY <1>1
<1>5. ASSUME NEW i \in Nat
      PROVE  Cardinality(D(i + 1)) = IF i \in DOMAIN c /\ c[i] \in Sent
                                     THEN Cardinality(D(i)) + 1 ELSE Cardinality(D(i))
  <2>1. CASE i \in DOMAIN c /\ c[i] \in Sent
    <3>1. D(i + 1) = D(i) \cup {i} /\ i \notin D(i)
      BY <1>1, <2>1
    <3> HIDE DEF D
    <3> QED
      BY <1>3, <2>1, <3>1, FS_AddElement
  <2>2. CASE ~(i \in DOMAIN c /\ c[i] \in Sent)
    <3>1. D(i + 1) = D(i)
      BY <1>1, <2>2
    <3> HIDE DEF D
    <3> QED
      BY <2>2, <3>1
  <2> QED
    BY <2>1, <2>2
<1>6. \A i : SentBefore(c, i) = Cardinality(D(i))
  BY DEF SentBefore
<1>7. Cardinality(D(0)) = 0
  <2> HIDE DEF D
  <2> QED
    BY <1>4, FS_EmptySet
<1> HIDE DEF D
<1> QED
  BY <1>3, <1>5, <1>6, <1>7

\* The nonces of a chain have none.
LEMMA ChainGapFree ==
  ASSUME NEW c \in Chains, InBlocks(c)
  PROVE  GapFree(ToSet(c) \cap Txs)
<1> DEFINE Filled(m) ==
             \A n \in Nat : n < SentBefore(c, m) =>
               \E j \in DOMAIN c : c[j] \in Sent /\ SentBefore(c, j) = n
           T == {m \in Nat : Filled(m)}
<1>0. /\ Len(c) \in Nat /\ DOMAIN c = 1..Len(c)
      /\ NoTx \notin Sent /\ Sent \subseteq Txs /\ \A t \in Txs : Nonce[t] \in Nat
  BY AccountAssumption DEF Chains
<1>1. 0 \in T
  BY SentBeforeSteps
<1>2. ASSUME NEW m \in Nat, m \in T PROVE m + 1 \in T
  <2> SUFFICES ASSUME NEW n \in Nat, n < SentBefore(c, m + 1)
               PROVE  \E j \in DOMAIN c : c[j] \in Sent /\ SentBefore(c, j) = n
    OBVIOUS
  <2>1. SentBefore(c, m) \in Nat
        /\ SentBefore(c, m + 1) = IF m \in DOMAIN c /\ c[m] \in Sent
                                  THEN SentBefore(c, m) + 1 ELSE SentBefore(c, m)
    BY SentBeforeSteps
  <2>2. CASE n < SentBefore(c, m)
    BY <1>2, <2>2
  <2>3. CASE ~(n < SentBefore(c, m))
    <3>1. m \in DOMAIN c /\ c[m] \in Sent /\ n = SentBefore(c, m)
      BY <2>1, <2>3
    <3> QED
      BY <3>1
  <2> QED
    BY <2>2, <2>3
<1>3. \A m \in Nat : Filled(m)
  <2>1. Nat \subseteq T
    <3> HIDE DEF T
    <3> QED
      BY <1>1, <1>2, Induct
  <2> HIDE DEF Filled
  <2> QED
    BY <2>1
<1>4. \A x : x \in ToSet(c) <=> \E i \in DOMAIN c : c[i] = x
  BY DEF ToSet
<1>5. SUFFICES ASSUME NEW t \in ToSet(c) \cap Txs, t \in Sent, NEW n \in 0..Nonce[t] - 1
               PROVE  \E u \in (ToSet(c) \cap Txs) \cap Sent : Nonce[u] = n
  BY DEF GapFree
<1>6. PICK i \in DOMAIN c : c[i] = t
  BY <1>4
<1>7. Nonce[t] = SentBefore(c, i) /\ Nonce[t] \in Nat
  BY <1>0, <1>5, <1>6 DEF InBlocks
<1>8. PICK j \in DOMAIN c : c[j] \in Sent /\ SentBefore(c, j) = n
  <2>1. i \in Nat /\ n \in Nat /\ n < SentBefore(c, i)
    BY <1>0, <1>7
  <2> QED
    BY <1>3, <2>1
<1>9. Nonce[c[j]] = n
  BY <1>0, <1>8 DEF InBlocks
<1> QED
  BY <1>0, <1>4, <1>8, <1>9

(***************************************************************************)
(* What is below the threshold is in the history.                          *)
(***************************************************************************)

Complete(x) ==
  /\ x.height <= Len(chain)
  /\ \A i \in DOMAIN chain :
       i + Threshold < x.height /\ chain[i] \in Txs => Op(chain, i) \in ToSet(x.operations)

\* An incremental sync that begins after what is stable misses nothing of the chain.
LEMMA ShapeComplete ==
  ASSUME NEW a \in States, Ordered(a), chain \in Chains, InBlocks(chain), Complete(a)
  PROVE  LET shape == getAccountShape(a, chain)
         IN  /\ \A i \in DOMAIN chain :
                  chain[i] \in Txs => Op(chain, i) \in ToSet(shape.operations)
             /\ Complete(shape)
             /\ \A h \in Hashes(shape.operations) :
                  h \in Hashes(a.operations) \/ h \in ToSet(chain) \cap Txs
             /\ \A h \in ToSet(chain) \cap Txs : h \in Hashes(shape.operations)
<1> DEFINE s == stableOperations(a)
           n == NewOps(a, chain)
           from == FromBlock(a)
           operations == mergeOps(s, n)
           shape == getAccountShape(a, chain)
<1>0. /\ Len(chain) \in Nat /\ DOMAIN chain = 1..Len(chain) /\ NoTx \notin Txs
      /\ Threshold \in Nat /\ a.height \in Nat
      /\ a.operations \in Seq(Ops) /\ SortedOnce(a.operations)
      /\ \A x : x \in ToSet(chain) <=> \E i \in DOMAIN chain : chain[i] = x
  BY AccountAssumption DEF Chains, States, Ordered, ToSet
<1>1. /\ s \in Seq(Ops) /\ SortedOnce(s)
      /\ ToSet(s) = {o \in ToSet(a.operations) : a.height > o.height + Threshold}
      /\ from \in Nat
      /\ s # <<>> => \E o \in ToSet(s) : o.height = from
      /\ s = <<>> => from = 0
  <2>1. s = <<>> => from = 0
    BY DEF FromBlock
  <2> QED
    BY <1>0, <2>1, StableFacts, StableHead
<1>2. /\ n \in Seq(Ops) /\ Once(n)
      /\ \A o : o \in ToSet(n)
                  <=> \E i \in DOMAIN chain : i > from /\ chain[i] \in Txs /\ o = Op(chain, i)
  BY <1>0, NewOpsFacts
<1>3. shape.operations = operations /\ shape.height = Len(chain)
  <2>1. shape = [operations |-> operations, height |-> Len(chain),
                 token |-> ShapeToken(a, chain)]
    BY ShapeIs
  <2> HIDE DEF shape, operations
  <2> QED
    BY <2>1
<1>4. Covered(s, n)
  <2> SUFFICES ASSUME s # <<>>
               PROVE  \E x \in ToSet(s) : \A y \in ToSet(n) : y.height >= x.height
    BY DEF Covered
  <2>1. PICK x \in ToSet(s) : x.height = from
    BY <1>1
  <2>2. \A y \in ToSet(n) : y.height >= from
    BY <1>0, <1>1, <1>2 DEF Op
  <2> QED
    BY <2>1, <2>2
<1> HIDE DEF s, n, from, shape
<1>5. /\ ToSet(n) \subseteq ToSet(operations)
      /\ \A x \in ToSet(s) : x.hash \notin Hashes(n) => x \in ToSet(operations)
      /\ Hashes(operations) = Hashes(s) \cup Hashes(n)
  BY <1>1, <1>2, <1>4, MergeFacts
<1> HIDE DEF operations
<1>6. ASSUME NEW i \in DOMAIN chain, chain[i] \in Txs
      PROVE  Op(chain, i) \in ToSet(operations)
  <2> DEFINE o == Op(chain, i)
  <2>1. o.height = i /\ o.hash = chain[i] /\ i \in Nat
    BY <1>0 DEF Op
  <2>2. CASE i > from
    BY <1>2, <1>5, <1>6, <2>2
  <2>3. CASE ~(i > from)
    <3>1. s # <<>>
      BY <1>0, <1>1, <2>3
    <3>2. PICK x \in ToSet(s) : x.height = from
      BY <1>1, <3>1
    <3>3. a.height > from + Threshold
      BY <1>1, <3>2
    <3>4. i + Threshold < a.height
      BY <1>0, <1>1, <2>3, <3>3
    <3>5. o \in ToSet(a.operations)
      BY <1>6, <3>4 DEF Complete
    <3> HIDE DEF o
    <3>6. o \in ToSet(s)
      BY <1>0, <1>1, <2>1, <3>4, <3>5
    <3>7. o.hash \notin Hashes(n)
      <4> SUFFICES ASSUME NEW y \in ToSet(n), y.hash = o.hash PROVE FALSE
        BY HashesAre
      <4>1. PICK j \in DOMAIN chain : j > from /\ chain[j] \in Txs /\ y = Op(chain, j)
        BY <1>2
      <4>2. chain[j] = chain[i]
        BY <2>1, <4>1 DEF Op
      <4>3. chain[i] # NoTx
        BY <1>0, <1>6
      <4> QED
        BY <1>0, <1>1, <2>1, <2>3, <4>1, <4>2, <4>3 DEF InBlocks
    <3> QED
      BY <1>5, <3>6, <3>7 DEF o
  <2> QED
    BY <2>2, <2>3
<1>7. ASSUME NEW h \in Hashes(operations)
      PROVE  h \in Hashes(a.operations) \/ h \in ToSet(chain) \cap Txs
  <2>1. CASE h \in Hashes(s)
    BY <1>1, <2>1, HashesAre
  <2>2. CASE h \in Hashes(n)
    <3>1. PICK o \in ToSet(n) : o.hash = h
      BY <2>2, HashesAre
    <3> QED
      BY <1>0, <1>2, <3>1 DEF Op
  <2> QED
    BY <1>5, <2>1, <2>2
<1>8. ASSUME NEW h \in ToSet(chain) \cap Txs PROVE h \in Hashes(operations)
  <2>1. PICK i \in DOMAIN chain : chain[i] = h
    BY <1>0
  <2>2. Op(chain, i) \in ToSet(operations) /\ Op(chain, i).hash = h
    BY <1>6, <2>1 DEF Op
  <2> QED
    BY <2>2, HashesAre
<1>9. Complete(shape)
  BY <1>0, <1>3, <1>6 DEF Complete
<1> QED
  BY <1>3, <1>6, <1>7, <1>8, <1>9 DEF shape

(***************************************************************************)
(* What the user has sent is to be seen.                                   *)
(***************************************************************************)

SentInv ==
  /\ Complete(account) /\ GapFree(Hashes(account.operations))
  /\ \E t \in Sent : t \in Hashes(account.operations)
  /\ \A s \in Slots :
       /\ syncs[s].phase = "fetching" => Complete(syncs[s].initial)
       /\ syncs[s].phase = "fetched" =>
            /\ Complete(syncs[s].shape)
            /\ GapFree(Hashes(account.operations) \cup Hashes(syncs[s].shape.operations))

LEMMA InitSent ==
  ASSUME Init, \E i \in DOMAIN Past : Past[i] \in Sent
  PROVE  SentInv
<1>0. /\ Past \in Chains /\ InBlocks(Past) /\ Len(Past) \in Nat /\ DOMAIN Past = 1..Len(Past)
      /\ chain = Past /\ Sent \subseteq Txs
      /\ \A s \in Slots : syncs[s].phase = "idle"
      /\ \A x : x \in ToSet(Past) <=> \E i \in DOMAIN Past : Past[i] = x
  BY AccountAssumption DEF Chains, Init, Idle, ToSet
<1>1. /\ \A o : o \in ToSet(account.operations)
                  <=> \E i \in DOMAIN Past : Past[i] \in Txs /\ o = Op(Past, i)
      /\ account.height = Len(Past)
  BY FirstHistory
<1>2. ASSUME NEW h PROVE h \in Hashes(account.operations) <=> h \in ToSet(Past) \cap Txs
  <2>1. ASSUME h \in Hashes(account.operations) PROVE h \in ToSet(Past) \cap Txs
    <3>1. PICK o \in ToSet(account.operations) : o.hash = h
      BY <2>1, HashesAre
    <3> QED
      BY <1>0, <1>1, <3>1 DEF Op
  <2>2. ASSUME h \in ToSet(Past) \cap Txs PROVE h \in Hashes(account.operations)
    <3>1. PICK i \in DOMAIN Past : Past[i] = h
      BY <1>0, <2>2
    <3>2. Op(Past, i) \in ToSet(account.operations) /\ Op(Past, i).hash = h
      BY <1>1, <2>2, <3>1 DEF Op
    <3> QED
      BY <3>2, HashesAre
  <2> QED
    BY <2>1, <2>2
<1>3. Hashes(account.operations) = ToSet(Past) \cap Txs
  BY <1>2
<1>4. Complete(account)
  BY <1>0, <1>1 DEF Complete
<1>5. GapFree(Hashes(account.operations))
  BY <1>0, <1>3, ChainGapFree
<1>6. \E t \in Sent : t \in Hashes(account.operations)
  BY <1>0, <1>3
<1> QED
  BY <1>0, <1>4, <1>5, <1>6 DEF SentInv

\* The chain grows or leaves a branch: what is known stays complete.
LEMMA CompleteStays ==
  ASSUME ChainInv, Grown(chain, chain'), NEW x, NEW y,
         x.height \in Nat, y.height = x.height, y.operations = x.operations, Complete(x)
  PROVE  /\ y.height <= Len(chain')
         /\ \A i \in DOMAIN chain' :
              i + Threshold < y.height /\ chain'[i] \in Txs
                => Op(chain', i) \in ToSet(y.operations)
<1>1. PICK k \in Nat : Len(chain) - Threshold <= k /\ Shared(chain, chain', k)
  BY DEF Grown
<1>2. /\ Len(chain) \in Nat /\ DOMAIN chain = 1..Len(chain) /\ Threshold \in Nat
      /\ DOMAIN chain' = 1..Len(chain') /\ Len(chain') = Len(chain) + 1
      /\ x.height <= Len(chain)
  BY AccountAssumption DEF ChainInv, Chains, Grown, Complete
<1>3. ASSUME NEW i \in DOMAIN chain', i + Threshold < y.height, chain'[i] \in Txs
      PROVE  Op(chain', i) \in ToSet(y.operations)
  <2>1. i \in 1..k /\ i \in DOMAIN chain
    BY <1>1, <1>2, <1>3 DEF Shared
  <2>2. chain'[i] = chain[i]
    BY <1>1, <2>1 DEF Shared
  <2> QED
    BY <1>3, <2>1, <2>2 DEF Complete, Op
<1> QED
  BY <1>2, <1>3

LEMMA UpdateSent ==
  ASSUME OrderInv, RootInv, SentInv, \E i \in DOMAIN Past : Past[i] \in Txs,
         NEW s \in Slots, Update(s)
  PROVE  /\ Complete(account)' /\ GapFree(Hashes(account'.operations))
         /\ \E t \in Sent : t \in Hashes(account'.operations)
         /\ \A H : GapFree(Hashes(account.operations) \cup H)
                     => GapFree(Hashes(account'.operations) \cup H)
<1> DEFINE shape == syncs[s].shape
<1>1. /\ account'.operations = mergeOps(account.operations, shape.operations)
      /\ account'.height = shape.height
      /\ Hashes(account'.operations) = Hashes(account.operations) \cup Hashes(shape.operations)
      /\ Covered(account.operations, shape.operations)
  BY UpdateRooted
<1>2. shape \in Shapes /\ Ordered(shape) /\ account \in States /\ Ordered(account)
  BY UpdateIs DEF OrderInv, TypeOK
<1>3. /\ Complete(shape)
      /\ GapFree(Hashes(account.operations) \cup Hashes(shape.operations))
      /\ \E t \in Sent : t \in Hashes(account.operations)
  BY DEF SentInv, Update
<1>4. chain' = chain
  BY DEF Update
<1> HIDE DEF shape
<1>5. ToSet(shape.operations) \subseteq ToSet(account'.operations)
  <2>1. /\ account.operations \in Seq(Ops) /\ SortedOnce(account.operations)
        /\ shape.operations \in Seq(Ops) /\ Once(shape.operations)
    BY <1>2, SortedIs DEF States, Shapes, Ordered, Once
  <2> QED
    BY <1>1, <2>1, MergeFacts
<1>6. Complete(account)'
  BY <1>1, <1>3, <1>4, <1>5 DEF Complete
<1>7. ASSUME NEW H, GapFree(Hashes(account.operations) \cup H)
      PROVE  GapFree(Hashes(account'.operations) \cup H)
  <2>1. Hashes(account'.operations) \cup H
          = (Hashes(account.operations) \cup Hashes(shape.operations))
              \cup (Hashes(account.operations) \cup H)
    BY <1>1
  <2> QED
    BY <1>3, <1>7, <2>1, GapFreeUnion
<1> QED
  BY <1>1, <1>3, <1>6, <1>7

\* What a sync fetches has the nonces of the chain.
LEMMA FetchSent ==
  ASSUME OrderInv, RootInv, SentInv, NEW s \in Slots, Fetch(s)
  PROVE  LET shape == getAccountShape(syncs[s].initial, chain)
         IN  /\ Complete(shape)
             /\ GapFree(Hashes(account.operations) \cup Hashes(shape.operations))
<1> DEFINE initial == syncs[s].initial
           shape == getAccountShape(initial, chain)
           G == Hashes(account.operations)
           H == ToSet(chain) \cap Txs
<1>1. /\ initial \in States /\ Ordered(initial) /\ chain \in Chains /\ InBlocks(chain)
  BY FetchIs
<1>2. Complete(initial) /\ Hashes(initial.operations) \subseteq G /\ GapFree(G)
  BY DEF SentInv, RootInv, Fetch
<1> HIDE DEF initial, G
<1>3. /\ Complete(shape)
      /\ \A h \in Hashes(shape.operations) : h \in Hashes(initial.operations) \/ h \in H
      /\ \A h \in H : h \in Hashes(shape.operations)
  BY <1>1, <1>2, ShapeComplete
<1>4. GapFree(H)
  BY <1>1, ChainGapFree
<1> HIDE DEF shape, H
<1>5. G \cup Hashes(shape.operations) = G \cup H
  BY <1>2, <1>3
<1>6. GapFree(G \cup Hashes(shape.operations))
  BY <1>2, <1>4, <1>5, GapFreeUnion
<1> QED
  BY <1>3, <1>6 DEF shape, G, initial

LEMMA NextSent ==
  ASSUME OrderInv, RootInv, SentInv, [Next]_vars, \E i \in DOMAIN Past : Past[i] \in Sent
  PROVE  SentInv'
<1> DEFINE CompleteNow(x) ==
             /\ x.height <= Len(chain')
             /\ \A i \in DOMAIN chain' :
                  i + Threshold < x.height /\ chain'[i] \in Txs
                    => Op(chain', i) \in ToSet(x.operations)
           GapFreeWith(x) ==
             GapFree(Hashes(account'.operations) \cup Hashes(x.operations))
           Knows(v) ==
             /\ v.phase = "fetching" => CompleteNow(v.initial)
             /\ v.phase = "fetched" => CompleteNow(v.shape) /\ GapFreeWith(v.shape)
           Mine == /\ CompleteNow(account') /\ GapFree(Hashes(account'.operations))
                   /\ \E t \in Sent : t \in Hashes(account'.operations)
<1>0. /\ account \in States /\ Ordered(account) /\ syncs \in [Slots -> Syncs]
      /\ account.height \in Nat /\ ChainInv
  BY DEF OrderInv, TypeOK, States
<1>1. ASSUME Mine, \A s \in Slots : Knows(syncs'[s]) PROVE SentInv'
  BY <1>1 DEF SentInv, Complete
<1>2. ASSUME chain' = chain, account'.operations = account.operations,
             account'.height = account.height
      PROVE  Mine /\ \A s \in Slots : Knows(syncs[s])
  BY <1>2 DEF SentInv, Complete
<1>3. Knows(Idle)
  BY DEF Idle
<1>4. ASSUME syncs' = syncs, chain' = chain, account'.operations = account.operations,
             account'.height = account.height
      PROVE  SentInv'
  <2> HIDE DEF Knows, Mine
  <2> QED
    BY <1>1, <1>2, <1>4
<1>5. ASSUME NEW t \in Here, Broadcast(t) PROVE SentInv'
  BY <1>4, <1>5 DEF Broadcast
<1>6. ASSUME NEW t \in Here, AddPending(t) PROVE SentInv'
  <2>1. account' = addPendingOperation(account, t) /\ syncs' = syncs /\ chain' = chain
    BY <1>6 DEF AddPending
  <2>2. account'.operations = account.operations /\ account'.height = account.height
    BY <1>0, <2>1, AddFacts
  <2> QED
    BY <1>4, <2>1, <2>2
<1>7. CASE NewBlock \/ Reorganise
  <2>1. syncs' = syncs /\ account' = account
    BY <1>7 DEF NewBlock, Reorganise
  <2>2. Grown(chain, chain')
    BY <1>0, <1>7, ChainSteps
  <2>3. ASSUME NEW x, x.height \in Nat, Complete(x) PROVE CompleteNow(x)
    BY <1>0, <2>2, <2>3, CompleteStays
  <2> HIDE DEF CompleteNow
  <2>4. CompleteNow(account')
    BY <1>0, <2>1, <2>3 DEF SentInv
  <2>5. ASSUME NEW s \in Slots PROVE Knows(syncs'[s])
    <3>1. /\ syncs[s].phase = "fetching" => syncs[s].initial.height \in Nat
          /\ syncs[s].phase = "fetched" => syncs[s].shape.height \in Nat
      BY SyncIs DEF OrderInv, States, Shapes
    <3> QED
      BY <2>1, <2>3, <3>1 DEF SentInv
  <2> HIDE DEF Knows
  <2>6. Mine
    BY <2>1, <2>4 DEF SentInv
  <2> HIDE DEF Mine
  <2> QED
    BY <1>1, <2>5, <2>6
<1>8. ASSUME NEW s \in Slots, NEW v, syncs' = [syncs EXCEPT ![s] = v], Knows(v),
             chain' = chain, account' = account
      PROVE  SentInv'
  <2>1. \A r \in Slots : syncs'[r] = IF r = s THEN v ELSE syncs[r]
    BY <1>0, <1>8
  <2>2. account'.operations = account.operations /\ account'.height = account.height
    BY <1>8
  <2> HIDE DEF Knows, Mine
  <2> QED
    BY <1>1, <1>2, <1>8, <2>1, <2>2
<1>9. ASSUME NEW s \in Slots, StartSync(s) PROVE SentInv'
  <2> DEFINE v == [phase |-> "fetching", initial |-> account]
  <2>1. syncs' = [syncs EXCEPT ![s] = v] /\ account' = account /\ chain' = chain
    BY <1>9 DEF StartSync
  <2>2. Knows(v)
    BY <2>1 DEF SentInv, Complete
  <2> HIDE DEF v, Knows
  <2> QED
    BY <1>8, <2>1, <2>2
<1>10. ASSUME NEW s \in Slots, Fetch(s) PROVE SentInv'
  <2> DEFINE shape == getAccountShape(syncs[s].initial, chain)
             v == [phase |-> "fetched", shape |-> shape]
  <2>1. syncs' = [syncs EXCEPT ![s] = v] /\ account' = account /\ chain' = chain
    BY <1>10 DEF Fetch
  <2>2. Complete(shape)
        /\ GapFree(Hashes(account.operations) \cup Hashes(shape.operations))
    BY <1>10, FetchSent
  <2> HIDE DEF shape
  <2>3. Knows(v)
    BY <2>1, <2>2 DEF Complete
  <2> HIDE DEF v, Knows
  <2> QED
    BY <1>8, <2>1, <2>3
<1>11. ASSUME NEW s \in Slots, FetchFails(s) PROVE SentInv'
  <2>1. syncs' = [syncs EXCEPT ![s] = Idle] /\ account' = account /\ chain' = chain
    BY <1>11 DEF FetchFails
  <2> HIDE DEF Knows
  <2> QED
    BY <1>3, <1>8, <2>1
<1>12. ASSUME NEW s \in Slots, Update(s) PROVE SentInv'
  <2>1. /\ Complete(account)' /\ GapFree(Hashes(account'.operations))
        /\ \E t \in Sent : t \in Hashes(account'.operations)
        /\ \A H : GapFree(Hashes(account.operations) \cup H)
                    => GapFree(Hashes(account'.operations) \cup H)
    BY <1>12, UpdateSent, AccountAssumption
  <2>2. /\ \A r \in Slots : syncs'[r] = IF r = s THEN Idle ELSE syncs[r]
        /\ chain' = chain
    BY <1>0, <1>12 DEF Update
  <2>3. Mine
    BY <2>1 DEF Complete
  <2>4. ASSUME NEW r \in Slots PROVE Knows(syncs'[r])
    <3>1. CASE r = s
      <4> HIDE DEF Knows
      <4> QED
        BY <1>3, <2>2, <3>1
    <3>2. CASE r # s
      BY <2>1, <2>2, <3>2 DEF SentInv, Complete
    <3> QED
      BY <3>1, <3>2
  <2> HIDE DEF Knows, Mine
  <2> QED
    BY <1>1, <2>3, <2>4
<1>13. CASE UNCHANGED vars
  <2>1. syncs' = syncs /\ account' = account /\ chain' = chain
    BY <1>13 DEF vars
  <2>2. account'.operations = account.operations /\ account'.height = account.height
    BY <2>1
  <2> QED
    BY <1>4, <2>1, <2>2
<1> QED
  BY <1>5, <1>6, <1>7, <1>9, <1>10, <1>11, <1>12, <1>13 DEF Next

\* A sync drops what is pending only for a transaction with its nonce.
LEMMA UpdateVisible ==
  ASSUME OrderInv, RootInv, SentInv, \E i \in DOMAIN Past : Past[i] \in Sent,
         NEW s \in Slots, Update(s), NEW t, Visible(t, account.pending, account.operations)
  PROVE  Visible(t, account'.pending, account'.operations)
<1> DEFINE history == account'.operations
           pending == account'.pending
           H == Hashes(history)
<1>0. account \in States /\ Ordered(account) /\ account' \in States
  BY UpdateIs DEF OrderInv, TypeOK
<1>1. \E i \in DOMAIN Past : Past[i] \in Txs
  BY AccountAssumption
<1>2. /\ Hashes(account.operations) \subseteq H /\ GapFree(H)
      /\ \E first \in Sent : first \in H
  BY <1>1, UpdateRooted, UpdateSent
<1>3. PICK late \in SUBSET noted :
        pending = Retain(account.pending, history, Here, history, late)
  <2>1. PICK late \in SUBSET noted : account' = Updated(account, syncs[s].shape, late)
    BY UpdateIs
  <2>2. syncs[s].shape \in Shapes /\ Ordered(syncs[s].shape)
    BY UpdateIs
  <2> QED
    BY <1>0, <2>1, <2>2, UpdatedIs
<1>4. account.pending \in Seq(Here) /\ history \in Seq(Ops)
  BY <1>0 DEF States
<1>5. ToSet(account.pending) \subseteq Here /\ Here \subseteq Sent /\ Sent \subseteq Txs
      /\ \A u \in Txs : Nonce[u] \in Nat
  BY <1>4, SeqFacts, AccountAssumption
<1> HIDE DEF history, pending
<1>6. \A u \in ToSet(account.pending) \cap Here :
        \/ u \in ToSet(pending)
        \/ Nonce[u] = 0
        \/ \E o \in ToSet(history) : o.hash \in Sent /\ Nonce[u] <= Nonce[o.hash]
        \/ u \in H
  BY <1>3, <1>4, RetainFacts
<1>7. \A o \in ToSet(history) : o.hash \in H
  BY HashesAre
<1> HIDE DEF H
<1>8. ASSUME NEW o \in H \cap Sent, NEW n \in Nat, n <= Nonce[o]
      PROVE  \E v \in H \cap Sent : Nonce[v] = n
  <2>1. CASE n = Nonce[o]
    BY <1>8, <2>1
  <2>2. CASE n # Nonce[o]
    <3>1. n \in 0..Nonce[o] - 1
      BY <1>5, <1>8, <2>2
    <3> QED
      BY <1>2, <3>1 DEF GapFree
  <2> QED
    BY <2>1, <2>2
<1>9. PICK u \in (ToSet(account.pending) \cup Hashes(account.operations)) \cap Sent :
        Nonce[u] = Nonce[t]
  BY DEF Visible, Shown
<1>10. Nonce[u] \in Nat
  BY <1>5, <1>9
<1>11. SUFFICES \E v \in (ToSet(pending) \cup H) \cap Sent : Nonce[v] = Nonce[u]
  BY <1>9 DEF Visible, Shown, H, history, pending
<1>12. CASE u \in H \/ u \in ToSet(pending)
  BY <1>9, <1>12
<1>13. CASE Nonce[u] = 0
  <2>1. PICK first \in Sent : first \in H
    BY <1>2
  <2>2. 0 <= Nonce[first]
    BY <1>5, <2>1
  <2> QED
    BY <1>8, <1>10, <1>13, <2>1, <2>2
<1>14. CASE \E o \in ToSet(history) : o.hash \in Sent /\ Nonce[u] <= Nonce[o.hash]
  <2>1. PICK o \in ToSet(history) : o.hash \in Sent /\ Nonce[u] <= Nonce[o.hash]
    BY <1>14
  <2>2. o.hash \in H \cap Sent
    BY <1>7, <2>1
  <2> QED
    BY <1>8, <1>10, <2>1, <2>2
<1> QED
  BY <1>2, <1>5, <1>6, <1>9, <1>12, <1>13, <1>14

LEMMA NextVisible ==
  ASSUME OrderInv, RootInv, SentInv, SentIsVisible, [Next]_vars,
         \E i \in DOMAIN Past : Past[i] \in Sent
  PROVE  SentIsVisible'
<1>0. /\ account \in States /\ Ordered(account) /\ noted \subseteq Here
      /\ Here \subseteq Sent
  BY AccountAssumption DEF OrderInv, TypeOK
<1>1. ASSUME account' = account, noted' = noted PROVE SentIsVisible'
  BY <1>1 DEF SentIsVisible
<1>2. ASSUME NEW t \in Here, AddPending(t) PROVE SentIsVisible'
  <2> DEFINE P == ToSet(account.pending)
             Q == ToSet(account'.pending)
             H == Hashes(account.operations)
  <2>1. account' = addPendingOperation(account, t) /\ noted' = noted \cup {t}
    BY <1>2 DEF AddPending
  <2>2. /\ account'.operations = account.operations
        /\ \A u : u \in Q <=> u = t \/ (u \in P /\ Nonce[u] # Nonce[t])
    BY <1>0, <2>1, AddFacts
  <2>3. Hashes(account'.operations) = H
    BY <2>2
  <2> HIDE DEF P, Q, H
  <2>4. \A r \in noted : \E u \in (P \cup H) \cap Sent : Nonce[u] = Nonce[r]
    BY DEF SentIsVisible, Visible, Shown, P, H
  <2>5. ASSUME NEW r \in noted \cup {t}
        PROVE  \E u \in (Q \cup H) \cap Sent : Nonce[u] = Nonce[r]
    <3>1. t \in Q /\ t \in Sent
      BY <1>0, <2>2
    <3>2. CASE Nonce[r] = Nonce[t]
      BY <3>1, <3>2
    <3>3. CASE Nonce[r] # Nonce[t]
      <4>1. r \in noted
        BY <2>5, <3>3
      <4>2. PICK u \in (P \cup H) \cap Sent : Nonce[u] = Nonce[r]
        BY <2>4, <4>1
      <4> QED
        BY <2>2, <3>3, <4>2
    <3> QED
      BY <3>2, <3>3
  <2> QED
    BY <2>1, <2>3, <2>5 DEF SentIsVisible, Visible, Shown, Q
<1>3. ASSUME NEW s \in Slots, Update(s) PROVE SentIsVisible'
  <2>1. noted' = noted
    BY <1>3 DEF Update
  <2>2. \A t \in noted : Visible(t, account'.pending, account'.operations)
    BY <1>3, UpdateVisible DEF SentIsVisible
  <2> QED
    BY <2>1, <2>2 DEF SentIsVisible
<1>4. ASSUME NEW t \in Here, Broadcast(t) PROVE SentIsVisible'
  BY <1>1, <1>4 DEF Broadcast
<1>5. CASE NewBlock \/ Reorganise
  <2>1. account' = account /\ noted' = noted
    BY <1>5 DEF NewBlock, Reorganise
  <2> QED
    BY <1>1, <2>1
<1>6. ASSUME NEW s \in Slots, StartSync(s) \/ Fetch(s) \/ FetchFails(s)
      PROVE  SentIsVisible'
  BY <1>1, <1>6 DEF StartSync, Fetch, FetchFails
<1>7. CASE UNCHANGED vars
  BY <1>1, <1>7 DEF vars
<1> QED
  BY <1>2, <1>3, <1>4, <1>5, <1>6, <1>7 DEF Next

\* Once the address has sent a transaction that is older than what moves, what the user
\* sends is always to be seen, or a transaction with its nonce.
THEOREM VisibleTheorem ==
  ASSUME \E i \in DOMAIN Past : Past[i] \in Sent
  PROVE  Spec => []SentIsVisible
<1> DEFINE Inv == OrderInv /\ RootInv /\ SentInv /\ SentIsVisible
<1>0. \E i \in DOMAIN Past : Past[i] \in Txs
  BY AccountAssumption
<1>1. Init => Inv
  <2>1. Init => SentIsVisible
    BY DEF Init, SentIsVisible
  <2> QED
    BY <1>0, <2>1, InitOrder, InitRoot, InitSent
<1>2. Inv /\ [Next]_vars => Inv'
  <2> SUFFICES ASSUME Inv, [Next]_vars PROVE Inv'
    OBVIOUS
  <2>1. OrderInv'
    BY NextOrder
  <2>2. RootInv'
    BY <1>0, NextRoot
  <2>3. SentInv'
    BY NextSent
  <2>4. SentIsVisible'
    BY NextVisible
  <2> QED
    BY <2>1, <2>2, <2>3, <2>4
<1>3. Inv => SentIsVisible
  OBVIOUS
<1> HIDE DEF Inv
<1> QED
  BY <1>1, <1>2, <1>3, PTL DEF Spec
=============================================================================
