---------------------------- MODULE BitcoinProofs ----------------------------
(***************************************************************************)
(* What a transaction costs, for any unspent outputs, rates, amounts and   *)
(* kinds of addresses.  A picked set of outputs pays for a transaction     *)
(* (Pays) in whatever order it was picked, and what is built of it fits    *)
(* (Fits).  The search of CoinSelect knows what its selection is worth     *)
(* (Inv), comes to the target before it runs out of tries (Reaching), and  *)
(* has no better selection behind it than the best one (Searched).         *)
(***************************************************************************)
EXTENDS BitcoinSpending, ListProofs, FiniteSetTheorems, SequenceTheorems, TLAPS

(***************************************************************************)
(* Orders.                                                                 *)
(***************************************************************************)

\* An order holds every member of the set once.
IsOrder(order, S) ==
  /\ order \in Seq(S) /\ ToSet(order) = S /\ Len(order) = Cardinality(S)
  /\ \A k, l \in 1..Len(order) : k # l => order[k] # order[l]

LEMMA SortFacts ==
  ASSUME NEW n \in Nat, NEW S \in SUBSET (1..n), NEW key \in [1..n -> Int]
  PROVE  IsOrder(SortBy(key, S), S) /\ IsFiniteSet(S)
<1> DEFINE before(i) == Preceding(key, S, i)
           rank(i) == Cardinality(before(i))
           c == Cardinality(S)
           f == [i \in S |-> rank(i) + 1]
<1>1. IsFiniteSet(S) /\ c \in Nat
  <2>1. IsFiniteSet(1..n)
    BY FS_Interval
  <2> QED
    BY <2>1, FS_Subset, FS_CardinalityType
<1>2. \A i \in S : i \in Int /\ key[i] \in Int
  OBVIOUS
<1>3. ASSUME NEW i \in S PROVE rank(i) \in Nat /\ rank(i) < c
  <2>1. before(i) \subseteq S \ {i}
    BY <1>2 DEF Preceding
  <2>2. IsFiniteSet(S \ {i}) /\ Cardinality(S \ {i}) = c - 1
    BY <1>1, FS_RemoveElement
  <2>3. IsFiniteSet(before(i)) /\ Cardinality(before(i)) <= Cardinality(S \ {i})
    BY <2>1, <2>2, FS_Subset
  <2>4. rank(i) \in Nat
    BY <2>3, FS_CardinalityType
  <2> QED
    BY <1>1, <2>2, <2>3, <2>4
<1>4. ASSUME NEW i \in S, NEW j \in S, i # j PROVE rank(i) # rank(j)
  <2>1. ASSUME NEW x \in S, NEW y \in S, x \in before(y) PROVE rank(x) < rank(y)
    <3>1. before(x) \subseteq before(y) /\ before(x) # before(y)
      <4>1. ASSUME NEW z \in before(x) PROVE z \in before(y)
        <5>1. /\ z \in S /\ z \in Int /\ x \in Int /\ y \in Int
              /\ key[z] \in Int /\ key[x] \in Int /\ key[y] \in Int
          BY <1>2, <4>1 DEF Preceding
        <5>2. key[z] < key[x] \/ (key[z] = key[x] /\ z < x)
          BY <4>1 DEF Preceding
        <5>3. key[x] < key[y] \/ (key[x] = key[y] /\ x < y)
          BY <2>1 DEF Preceding
        <5>4. key[z] < key[y] \/ (key[z] = key[y] /\ z < y)
          BY <5>1, <5>2, <5>3
        <5> QED
          BY <5>1, <5>4 DEF Preceding
      <4>2. x \notin before(x)
        BY <1>2 DEF Preceding
      <4> QED
        BY <2>1, <4>1, <4>2
    <3>2. IsFiniteSet(before(y))
      BY <1>1, FS_Subset DEF Preceding
    <3>3. rank(x) <= rank(y) /\ rank(x) # rank(y)
      BY <3>1, <3>2, FS_Subset
    <3> QED
      BY <1>3, <3>3
  <2>2. i \in before(j) \/ j \in before(i)
    BY <1>2, <1>4 DEF Preceding
  <2> QED
    BY <1>3, <2>1, <2>2
<1> HIDE DEF before, rank
<1>5. f \in Injection(S, 1..c)
  <2>1. f \in [S -> 1..c]
    BY <1>1, <1>3
  <2>2. \A i, j \in S : f[i] = f[j] => i = j
    BY <1>3, <1>4
  <2> HIDE DEF f
  <2> QED
    BY <2>1, <2>2 DEF Injection, IsInjective
<1>6. f \in Surjection(S, 1..c)
  <2>1. IsFiniteSet(1..c) /\ Cardinality(1..c) = c
    BY <1>1, FS_Interval
  <2> HIDE DEF f
  <2> QED
    BY <1>1, <1>5, <2>1, FS_Injection
<1>7. \A k \in 1..c : \E i \in S : rank(i) = k - 1
  <2>1. \A k \in 1..c : \E i \in S : f[i] = k
    <3> HIDE DEF f
    <3> QED
      BY <1>6 DEF Surjection
  <2>2. SUFFICES ASSUME NEW k \in 1..c PROVE \E i \in S : rank(i) = k - 1
    OBVIOUS
  <2>3. PICK i \in S : f[i] = k
    BY <2>1
  <2>4. rank(i) + 1 = k /\ rank(i) \in Nat
    BY <1>3, <2>3
  <2> QED
    BY <2>4
<1> DEFINE order == SortBy(key, S)
<1>8. order = [k \in 1..c |-> CHOOSE i \in S : rank(i) = k - 1]
  BY DEF SortBy, rank, before
<1>9. \A k \in 1..c : order[k] \in S /\ rank(order[k]) = k - 1
  BY <1>7, <1>8
<1> HIDE DEF order, c
<1>10. order \in [1..c -> S]
  BY <1>8, <1>9
<1>11. order \in Seq(S) /\ Len(order) = c
  BY <1>1, <1>10
<1>12. \A k, l \in 1..c : k # l => order[k] # order[l]
  BY <1>1, <1>9
<1>13. ASSUME NEW i \in S PROVE \E k \in 1..c : order[k] = i
  <2> DEFINE k == rank(i) + 1
  <2>1. k \in 1..c
    BY <1>1, <1>3
  <2>2. rank(order[k]) = rank(i) /\ order[k] \in S
    BY <1>3, <1>9, <2>1
  <2> QED
    BY <1>4, <2>1, <2>2
<1>14. ToSet(order) = S
  BY <1>9, <1>10, <1>13 DEF ToSet
<1> QED
  BY <1>1, <1>11, <1>12, <1>14 DEF IsOrder, order, c

LEMMA ReverseOrder ==
  ASSUME NEW S, NEW order, IsOrder(order, S)
  PROVE  IsOrder(Reverse(order), S)
<1> DEFINE n == Len(order)
           r == Reverse(order)
<1>1. order \in Seq(S) /\ n \in Nat /\ ToSet(order) = S /\ n = Cardinality(S)
      /\ (\A k, l \in 1..n : k # l => order[k] # order[l])
  BY DEF IsOrder
<1>2. r = [k \in 1..n |-> order[n - k + 1]]
  BY DEF Reverse
<1>3. \A k \in 1..n : n - k + 1 \in 1..n
  BY <1>1
<1>4. r \in [1..n -> S]
  BY <1>1, <1>2, <1>3
<1>5. r \in Seq(S) /\ Len(r) = n
  BY <1>1, <1>4
<1>6. \A k, l \in 1..n : k # l => r[k] # r[l]
  BY <1>1, <1>2, <1>3
<1>7. ToSet(r) = ToSet(order)
  <2>1. \A x : x \in ToSet(r) => x \in ToSet(order)
    BY <1>1, <1>2, <1>3, <1>4 DEF ToSet
  <2>2. ASSUME NEW k \in 1..n PROVE order[k] \in ToSet(r)
    <3>1. n - k + 1 \in 1..n /\ r[n - k + 1] = order[n - (n - k + 1) + 1]
      BY <1>2, <1>3
    <3>2. n - (n - k + 1) + 1 = k
      BY <1>1
    <3> QED
      BY <1>4, <3>1, <3>2 DEF ToSet
  <2>3. \A x : x \in ToSet(order) => x \in ToSet(r)
    BY <1>1, <2>2 DEF ToSet
  <2> QED
    BY <2>1, <2>3
<1> QED
  BY <1>1, <1>5, <1>6, <1>7 DEF IsOrder

\* The members of an order at some of its places.
Image(order, K) == {order[k] : k \in K}

LEMMA ImageFacts ==
  ASSUME NEW S, NEW order, IsOrder(order, S), NEW K \in SUBSET (1..Len(order))
  PROVE  /\ Image(order, K) \subseteq S
         /\ IsFiniteSet(K) /\ IsFiniteSet(Image(order, K))
         /\ Cardinality(Image(order, K)) = Cardinality(K)
<1>1. order \in Seq(S) /\ (\A k, l \in 1..Len(order) : k # l => order[k] # order[l])
  BY DEF IsOrder
<1>2. IsFiniteSet(K)
  <2>1. Len(order) \in Nat
    BY <1>1
  <2>2. IsFiniteSet(1..Len(order))
    BY <2>1, FS_Interval
  <2> QED
    BY <2>2, FS_Subset
<1>3. Image(order, K) \subseteq S
  BY <1>1 DEF Image
<1> DEFINE f == [k \in K |-> order[k]]
           T == Image(order, K)
<1>4. f \in [K -> T] /\ (\A k, l \in K : f[k] = f[l] => k = l)
      /\ (\A x \in T : \E k \in K : f[k] = x)
  BY <1>1 DEF Image
<1>5. f \in Bijection(K, T)
  <2> HIDE DEF f, T
  <2> QED
    BY <1>4 DEF Bijection, Injection, Surjection, IsInjective
<1>6. IsFiniteSet(T) /\ Cardinality(T) = Cardinality(K)
  <2> HIDE DEF f, T
  <2> QED
    BY <1>2, <1>5, FS_Bijection DEF ExistsBijection
<1> QED
  BY <1>2, <1>3, <1>6

(***************************************************************************)
(* Sizes and fees.                                                         *)
(***************************************************************************)

LEMMA RequestIs ==
  ASSUME request \in Requests
  PROVE  /\ request.kind.mode \in Modes /\ request.kind.recipient \in Modes
         /\ request.kind.dustPolicy \in {"PER_KBYTE", "FIXED"}
         /\ request.kind.dustThreshold \in Nat
         /\ request.utxos \in Seq([value : Nat, confirmed : BOOLEAN, height : Nat, rbf : BOOLEAN])
         /\ request.strategy \in {"DeepFirst", "Merge", "CoinSelect"}
         /\ request.feePerByte \in Nat /\ request.TOTAL_TRIES \in Nat
         /\ request.amount = UseAll \/ request.amount \in Nat
BY SpendingAssumption

\* The weights of an output to the recipient and of a change.
Out == outputWeight(request.kind.recipient)
Chg == outputWeight(request.kind.mode)

LEMMA WeightFacts ==
  ASSUME NEW mode \in Modes
  PROVE  /\ inputWeight(mode) \in Nat /\ inputWeight(mode) >= 231
         /\ outputWeight(mode) \in Nat /\ outputWeight(mode) >= 124 /\ outputWeight(mode) <= 172
<1>1. CASE mode = "legacy"
  BY <1>1 DEF inputWeight, outputWeight
<1>2. CASE mode = "segwit"
  BY <1>2 DEF inputWeight, outputWeight
<1>3. CASE mode = "native"
  BY <1>3 DEF inputWeight, outputWeight
<1>4. CASE mode = "taproot"
  BY <1>4 DEF inputWeight, outputWeight
<1> QED
  BY <1>1, <1>2, <1>3, <1>4 DEF Modes

\* The bytes that count the inputs or the outputs beyond the first grow with their number.
LEMMA CountsFacts ==
  /\ \A n \in Nat : Counts(n) \in Nat
  /\ \A n, m \in Nat : n <= m => Counts(n) <= Counts(m)
  /\ Counts(0) = 0 /\ Counts(1) = 0
BY DEF Counts, byteSize

LEMMA CountsIs ==
  ASSUME NEW n \in Nat PROVE Counts(n) \in Nat /\ 4 * byteSize(n) = 4 + Counts(n)
BY DEF Counts, byteSize

LEMMA SizeFacts ==
  ASSUME request \in Requests
  PROVE  /\ fixedSize \in Nat /\ fixedSize >= 8
         /\ oneInputSize \in Nat /\ oneInputSize >= 231
         /\ Out \in Nat /\ Out >= 124 /\ Out <= 172
         /\ Chg \in Nat /\ Chg >= 124 /\ Chg <= 172
         /\ \A n, o \in Nat : \A change \in BOOLEAN :
              maxTxSize(n, o, change)
                = fixedSize + n * oneInputSize + o * Out + Counts(n) + Counts(o)
                    + IF change THEN Chg ELSE 0
         /\ \A o \in Nat, e \in Int :
              OutputSize(o, e) = fixedSize - e + IF o > 0 THEN Out ELSE Chg
<1> DEFINE W == fixedWeight(request.kind)
           I == inputWeight(request.kind.mode)
<1>1. /\ W \in Nat /\ I \in Nat /\ I >= 231
      /\ Out \in Nat /\ Out >= 124 /\ Out <= 172
      /\ Chg \in Nat /\ Chg >= 124 /\ Chg <= 172
  BY RequestIs, WeightFacts DEF Out, Chg, fixedWeight
<1>2. ASSUME NEW n \in Nat, NEW o \in Nat, NEW change \in BOOLEAN
      PROVE  maxTxSize(n, o, change)
               = W + (4 + Counts(n)) + I * n + (4 + Counts(o)) + Out * o + IF change THEN Chg ELSE 0
  BY CountsIs DEF maxTxSize, Out, Chg
<1> HIDE DEF W, I
<1> DEFINE none == maxTxSize(0, 0, FALSE)
           input == maxTxSize(1, 0, FALSE)
           output == maxTxSize(0, 1, FALSE)
           rest == maxTxSize(0, 0, TRUE)
<1>3. fixedSize = W + 8 /\ none = W + 8 /\ input = W + 8 + I
      /\ output = W + 8 + Out /\ rest = W + 8 + Chg
  <2>1. I * 0 = 0 /\ I * 1 = I /\ Out * 0 = 0 /\ Out * 1 = Out
        /\ Counts(0) = 0 /\ Counts(1) = 0
    BY <1>1, CountsFacts
  <2>2. none = W + (4 + Counts(0)) + I * 0 + (4 + Counts(0)) + Out * 0 + 0
    BY <1>2
  <2>3. input = W + (4 + Counts(1)) + I * 1 + (4 + Counts(0)) + Out * 0 + 0
    BY <1>2
  <2>4. output = W + (4 + Counts(0)) + I * 0 + (4 + Counts(1)) + Out * 1 + 0
    BY <1>2
  <2>5. rest = W + (4 + Counts(0)) + I * 0 + (4 + Counts(0)) + Out * 0 + Chg
    BY <1>2
  <2>6. fixedSize = none
    BY DEF fixedSize
  <2> HIDE DEF none, input, output, rest
  <2> QED
    BY <1>1, <2>1, <2>2, <2>3, <2>4, <2>5, <2>6
<1>4. oneInputSize = I
  <2>1. oneInputSize = input - fixedSize
    BY DEF oneInputSize
  <2> HIDE DEF input
  <2> QED
    BY <1>1, <1>3, <2>1
<1>5. ASSUME NEW n \in Nat, NEW o \in Nat, NEW change \in BOOLEAN
      PROVE  maxTxSize(n, o, change)
               = fixedSize + n * oneInputSize + o * Out + Counts(n) + Counts(o)
                   + IF change THEN Chg ELSE 0
  <2>1. I * n = n * I /\ Out * o = o * Out /\ I * n \in Int /\ Out * o \in Int
        /\ Counts(n) \in Nat /\ Counts(o) \in Nat
    BY <1>1, CountsFacts
  <2> QED
    BY <1>1, <1>2, <1>3, <1>4, <2>1
<1>6. ASSUME NEW o \in Nat, NEW e \in Int
      PROVE  OutputSize(o, e) = fixedSize - e + IF o > 0 THEN Out ELSE Chg
  <2>1. OutputSize(o, e)
          = (IF o > 0 THEN output ELSE rest) - e
    BY DEF OutputSize
  <2> HIDE DEF output, rest
  <2> QED
    BY <1>1, <1>3, <2>1
<1> QED
  BY <1>1, <1>3, <1>4, <1>5, <1>6

LEMMA Weights ==
  ASSUME request \in Requests
  PROVE  /\ fixedSize \in Nat /\ fixedSize >= 8
         /\ oneInputSize \in Nat /\ oneInputSize >= 231
         /\ Out \in Nat /\ Out >= 124 /\ Out <= 172
         /\ Chg \in Nat /\ Chg >= 124 /\ Chg <= 172
BY SizeFacts

\* The size that DeepFirst, Merge and CoinSelect count with.
Plain(n, o) == fixedSize + n * oneInputSize + o * Out

LEMMA PlainIs ==
  ASSUME request \in Requests, NEW n \in Nat, NEW o \in Nat
  PROVE  Plain(n, o) \in Nat /\ Plain(n, o) >= 8
<1> DEFINE x == n * oneInputSize
           y == o * Out
<1>1. x \in Nat /\ y \in Nat
  BY Weights
<1> HIDE DEF x, y
<1>2. fixedSize + x + y \in Nat /\ fixedSize + x + y >= 8
  BY <1>1, Weights
<1> QED
  BY <1>2 DEF Plain, x, y

LEMMA MaxSizeIs ==
  ASSUME request \in Requests, NEW n \in Nat, NEW o \in Nat, NEW change \in BOOLEAN
  PROVE  /\ maxTxSize(n, o, change)
              = Plain(n, o) + Counts(n) + Counts(o) + IF change THEN Chg ELSE 0
         /\ maxTxSize(n, o, change) \in Nat
<1>1. maxTxSize(n, o, change) = Plain(n, o) + Counts(n) + Counts(o) + IF change THEN Chg ELSE 0
  BY SizeFacts DEF Plain
<1> DEFINE x == Plain(n, o)
           y == Counts(n)
           z == Counts(o)
<1>2. x \in Nat /\ y \in Nat /\ z \in Nat
  BY PlainIs, CountsIs
<1> HIDE DEF x, y, z
<1>3. x + y + z + (IF change THEN Chg ELSE 0) \in Nat
  BY <1>2, Weights
<1> QED
  BY <1>1, <1>3 DEF x, y, z

LEMMA SizeNoChange ==
  ASSUME request \in Requests, NEW n \in Nat, NEW o \in Nat
  PROVE  /\ maxTxSize(n, o, FALSE) = Plain(n, o) + Counts(n) + Counts(o)
         /\ maxTxSize(n, o, FALSE) \in Nat
<1> DEFINE x == Plain(n, o)
           y == Counts(n)
           z == Counts(o)
           s == maxTxSize(n, o, FALSE)
<1>1. s = x + y + z + 0
  BY MaxSizeIs
<1>2. x \in Nat /\ y \in Nat /\ z \in Nat
  BY PlainIs, CountsIs
<1> HIDE DEF x, y, z, s
<1>3. s = x + y + z /\ s \in Nat
  BY <1>1, <1>2
<1> QED
  BY <1>3 DEF x, y, z, s

LEMMA OutputSizeIs ==
  ASSUME request \in Requests, NEW o \in Nat, NEW e \in Int
  PROVE  OutputSize(o, e) = fixedSize - e + IF o > 0 THEN Out ELSE Chg
BY SizeFacts

LEMMA FeeFacts ==
  ASSUME request \in Requests
  PROVE  /\ \A x \in Int : Fee(x) \in Int
         /\ \A x, y \in Int : Fee(x + y) = Fee(x) + Fee(y)
         /\ \A x, y \in Int : Fee(x - y) = Fee(x) - Fee(y)
         /\ \A x, y \in Int : x <= y => Fee(x) <= Fee(y)
         /\ \A n, x \in Int : Fee(n * x) = n * Fee(x)
         /\ \A x \in Nat : Fee(x) \in Nat
<1>1. request.feePerByte \in Nat
  BY RequestIs
<1> DEFINE r == request.feePerByte
<1> HIDE DEF r
<1>2. r \in Nat /\ \A x : Fee(x) = r * x
  BY <1>1 DEF r, Fee
<1>3. ASSUME NEW x \in Int, NEW y \in Int
      PROVE  /\ Fee(x) \in Int /\ Fee(x + y) = Fee(x) + Fee(y) /\ Fee(x - y) = Fee(x) - Fee(y)
             /\ Fee(x * y) = x * Fee(y)
  BY <1>2
<1>4. ASSUME NEW x \in Nat PROVE Fee(x) \in Nat
  BY <1>2
<1>5. ASSUME NEW x \in Int, NEW y \in Int, x <= y PROVE Fee(x) <= Fee(y)
  <2>1. y - x \in Nat
    BY <1>5
  <2>2. Fee(y - x) \in Nat /\ Fee(y - x) = Fee(y) - Fee(x) /\ Fee(x) \in Int /\ Fee(y) \in Int
    BY <1>3, <1>4, <2>1
  <2> QED
    BY <2>2
<1> QED
  BY <1>3, <1>4, <1>5

LEMMA FeeIs ==
  ASSUME request \in Requests, NEW x \in Int, NEW y \in Int
  PROVE  /\ Fee(x) \in Int /\ (x \in Nat => Fee(x) \in Nat)
         /\ Fee(x + y) = Fee(x) + Fee(y)
         /\ Fee(x - y) = Fee(x) - Fee(y)
         /\ x <= y => Fee(x) <= Fee(y)
         /\ Fee(x * y) = x * Fee(y)
BY FeeFacts

LEMMA FeeType ==
  ASSUME request \in Requests, NEW x \in Int
  PROVE  Fee(x) \in Int /\ (x \in Nat => Fee(x) \in Nat)
BY FeeFacts

LEMMA CeilFacts ==
  /\ \A x \in Int : Ceil(x) \in Int /\ x <= Ceil(x) /\ Ceil(x) <= x + 3
  /\ \A x, y \in Int : x <= y => Ceil(x) <= Ceil(y)
  /\ \A x, q \in Int : x <= 4 * q => Ceil(x) <= 4 * q
  /\ \A x \in Int : \E q \in Int : Ceil(x) = 4 * q
  /\ \A x \in Nat : Ceil(x) \in Nat
BY DEF Ceil

LEMMA CeilIs ==
  ASSUME NEW x \in Int
  PROVE  Ceil(x) \in Int /\ x <= Ceil(x) /\ Ceil(x) <= x + 3 /\ (x \in Nat => Ceil(x) \in Nat)
BY CeilFacts

\* Whole bytes make a whole fee.
LEMMA CeilFee ==
  ASSUME request \in Requests, NEW x \in Int
  PROVE  Ceil(Fee(x)) <= Fee(Ceil(x))
<1>1. PICK q \in Int : Ceil(x) = 4 * q
  BY CeilFacts
<1>2. Fee(4 * q) = 4 * Fee(q) /\ Fee(q) \in Int /\ Fee(x) \in Int
  BY RequestIs DEF Fee
<1>3. Fee(x) <= Fee(Ceil(x))
  BY FeeFacts, CeilFacts
<1> QED
  BY <1>1, <1>2, <1>3, CeilFacts

LEMMA DustFacts ==
  ASSUME request \in Requests, NEW x \in Nat
  PROVE  computeDustAmount(x) \in Nat
<1> DEFINE t == request.kind.dustThreshold
<1>1. t \in Nat /\ request.kind.dustPolicy \in {"PER_KBYTE", "FIXED"}
  BY RequestIs
<1>2. t * x \in Nat
  BY <1>1
<1>3. CASE request.kind.dustPolicy = "PER_KBYTE"
  BY <1>2, <1>3 DEF computeDustAmount
<1>4. CASE request.kind.dustPolicy = "FIXED"
  BY <1>1, <1>4 DEF computeDustAmount
<1> QED
  BY <1>1, <1>3, <1>4

(***************************************************************************)
(* The outputs to the recipient.                                           *)
(***************************************************************************)

LEMMA DivFacts ==
  ASSUME NEW a \in Nat, NEW b \in Nat \ {0}
  PROVE  \E q \in Nat : q = a \div b /\ q * b <= a /\ a < (q + 1) * b
OBVIOUS

LEMMA OutputsFacts ==
  ASSUME amount \in Nat
  PROVE  /\ Outputs \in Seq(Int) /\ Len(Outputs) \in Nat
         /\ Paid(Outputs) = amount
         /\ amount > 0 /\ amount <= OUTPUT_VALUE_MAX => Len(Outputs) = 1
<1> DEFINE M == OUTPUT_VALUE_MAX
           n == (amount + M - 1) \div M
<1>1. M \in Nat \ {0}
  BY SpendingAssumption
<1>2. n \in Nat /\ n * M <= amount + M - 1 /\ amount + M - 1 < (n + 1) * M
  BY <1>1, DivFacts
<1>3. Outputs = [k \in 1..n |-> IF k < n THEN M ELSE amount - (n - 1) * M]
  BY DEF Outputs
<1> DEFINE m == n * M
<1>4. m \in Int /\ (n - 1) * M = m - M /\ (n + 1) * M = m + M
  BY <1>1, <1>2
<1> HIDE DEF n, M
<1>5. m <= amount + M - 1 /\ amount <= m
  <2> HIDE DEF m
  <2> QED
    BY <1>1, <1>2, <1>4
<1>6. Outputs = [k \in 1..n |-> IF k < n THEN M ELSE amount - (m - M)]
  BY <1>3, <1>4
<1>7. Outputs \in Seq(Int) /\ Len(Outputs) = n /\ DOMAIN Outputs = 1..n
  BY <1>1, <1>2, <1>4, <1>6
<1>8. Paid(Outputs) = amount
  <2>1. PICK f \in [0..n -> Int] : SummedBy(f, Outputs, 1..n)
    BY <1>7, SumSteps
  <2>2. f[0] = 0 /\ Paid(Outputs) = f[n]
        /\ \A i \in 1..n : f[i] = f[i - 1] + Outputs[i]
    BY <1>7, <2>1 DEF SummedBy, Paid
  <2> DEFINE T == {k \in Nat : k < n => f[k] = k * M}
  <2>3. 0 \in T
    BY <1>1, <2>2
  <2>4. ASSUME NEW k \in Nat, k \in T PROVE k + 1 \in T
    <3> SUFFICES ASSUME k + 1 < n PROVE f[k + 1] = (k + 1) * M
      OBVIOUS
    <3>1. k + 1 \in 1..n /\ k + 1 - 1 = k /\ f[k] = k * M
      BY <1>2, <2>4
    <3>2. f[k + 1] = f[k] + M
      BY <1>6, <2>2, <3>1
    <3> QED
      BY <1>1, <3>1, <3>2
  <2>5. CASE n = 0
    <3>1. m = 0
      BY <1>1, <2>5
    <3> QED
      BY <1>5, <2>2, <2>5, <3>1
  <2>6. CASE n > 0
    <3>1. n - 1 \in Nat /\ n - 1 < n
      BY <1>2, <2>6
    <3>2. n - 1 \in T
      <4> HIDE DEF T
      <4> QED
        BY <2>3, <2>4, <3>1, Induct
    <3>3. f[n - 1] = m - M
      BY <1>4, <3>1, <3>2
    <3>4. f[n] = f[n - 1] + (amount - (m - M))
      BY <1>2, <1>6, <2>2, <2>6
    <3> QED
      BY <1>1, <1>4, <2>2, <3>3, <3>4
  <2> QED
    BY <1>2, <2>5, <2>6
<1>9. ASSUME amount > 0, amount <= M PROVE n = 1
  <2>1. n # 0
    <3>1. n = 0 => m = 0
      BY <1>1
    <3> QED
      BY <1>5, <1>9, <3>1
  <2>2. ~(n >= 2)
    <3>1. SUFFICES ASSUME n >= 2 PROVE FALSE
      OBVIOUS
    <3>2. (n - 2) * M \in Nat /\ (n - 2) * M = m - 2 * M
      BY <1>1, <1>2, <3>1
    <3> HIDE DEF m
    <3> QED
      BY <1>1, <1>4, <1>5, <1>9, <3>2
  <2> QED
    BY <1>2, <2>1, <2>2
<1> QED
  BY <1>2, <1>7, <1>8, <1>9 DEF M

(***************************************************************************)
(* Unspent outputs.                                                        *)
(***************************************************************************)

LEMMA MoneyFacts ==
  ASSUME request \in Requests
  PROVE  /\ Len(request.utxos) \in Nat /\ Utxos = 1..Len(request.utxos)
         /\ values \in Seq(Int) /\ Len(values) = Len(request.utxos)
         /\ \A i \in Utxos : values[i] \in Nat
         /\ heights \in [Utxos -> Int] /\ values \in [Utxos -> Int]
         /\ effectiveValues \in [Utxos -> Int]
         /\ effectiveValues \in Seq(Int) /\ Len(effectiveValues) = Len(request.utxos)
         /\ \A i \in Utxos : effectiveValues[i] = values[i] - Fee(oneInputSize)
         /\ Pickable \subseteq Utxos /\ Usable \subseteq Pickable
<1> DEFINE n == Len(request.utxos)
           cost == Fee(oneInputSize)
<1>1. n \in Nat /\ Utxos = 1..n
      /\ \A i \in 1..n : request.utxos[i].value \in Nat /\ request.utxos[i].height \in Nat
                         /\ request.utxos[i].confirmed \in BOOLEAN
  <2> DEFINE U == [value : Nat, confirmed : BOOLEAN, height : Nat, rbf : BOOLEAN]
  <2>1. request.utxos \in Seq(U)
    BY RequestIs
  <2>2. n \in Nat /\ Utxos = 1..n
    BY <2>1 DEF Utxos
  <2>3. ASSUME NEW i \in 1..n
        PROVE  request.utxos[i].value \in Nat /\ request.utxos[i].height \in Nat
                 /\ request.utxos[i].confirmed \in BOOLEAN
    <3> HIDE DEF U
    <3>1. request.utxos[i] \in U
      BY <2>1, <2>2
    <3> USE DEF U
    <3> QED
      BY <3>1
  <2> QED
    BY <2>2, <2>3
<1>2. cost \in Int
  BY Weights, FeeType
<1> HIDE DEF n, cost
<1>3. values \in [1..n -> Int] /\ \A i \in 1..n : values[i] \in Nat
  BY <1>1 DEF values
<1>4. heights \in [1..n -> Int]
  BY <1>1 DEF heights
<1>5. effectiveValues = [i \in 1..n |-> values[i] - cost]
  BY <1>1 DEF effectiveValues, cost
<1>6. effectiveValues \in [1..n -> Int] /\ \A i \in 1..n : effectiveValues[i] = values[i] - cost
  BY <1>2, <1>3, <1>5
<1>7. values \in Seq(Int) /\ Len(values) = n
  BY <1>1, <1>3
<1>8. effectiveValues \in Seq(Int) /\ Len(effectiveValues) = n
  BY <1>1, <1>6
<1>9. Pickable \subseteq Utxos /\ Usable \subseteq Pickable
  BY DEF Pickable, Usable
<1> QED
  BY <1>1, <1>3, <1>4, <1>6, <1>7, <1>8, <1>9 DEF n, cost

LEMMA FiniteUtxos ==
  ASSUME request \in Requests, NEW S \in SUBSET Utxos
  PROVE  IsFiniteSet(S) /\ Cardinality(S) \in Nat
<1>1. Len(request.utxos) \in Nat /\ Utxos = 1..Len(request.utxos)
  BY MoneyFacts
<1>2. IsFiniteSet(Utxos)
  BY <1>1, FS_Interval
<1> QED
  BY <1>2, FS_Subset, FS_CardinalityType

LEMMA TotalFacts ==
  ASSUME request \in Requests, NEW S \in SUBSET Utxos
  PROVE  /\ Total(S) \in Nat /\ Worth(S) \in Int
         /\ Worth(S) = Total(S) - Cardinality(S) * Fee(oneInputSize)
<1> DEFINE cost == Fee(oneInputSize)
           c == Cardinality(S)
<1>1. /\ values \in Seq(Int) /\ effectiveValues \in Seq(Int)
      /\ Len(values) = Len(effectiveValues) /\ Utxos = 1..Len(values)
      /\ \A i \in 1..Len(values) : values[i] \in Nat /\ effectiveValues[i] = values[i] - cost
  BY MoneyFacts
<1>2. cost \in Int /\ c \in Nat
  <2>1. cost \in Int
    BY Weights, FeeType
  <2>2. c \in Nat
    BY FiniteUtxos
  <2> QED
    BY <2>1, <2>2
<1> HIDE DEF cost
<1>3. Total(S) \in Int /\ Worth(S) \in Int
  BY <1>1, SumType DEF Total, Worth
<1>4. SumOver(values, {}) <= SumOver(values, S) /\ SumOver(values, {}) = 0
  <2>1. \A i \in S : i \in 1..Len(values) /\ i \notin {} => values[i] >= 0
    BY <1>1
  <2> QED
    BY <1>1, <2>1, SumMonotone, SumEmpty
<1>5. SumOver(effectiveValues, S) = SumOver(values, S) - cost * c
  BY <1>1, <1>2, SumLess
<1>6. cost * c = c * cost
  BY <1>2
<1> QED
  BY <1>3, <1>4, <1>5, <1>6 DEF Total, Worth, cost

LEMMA EstimateFacts ==
  ASSUME request \in Requests
  PROVE  /\ estimateAccountMaxSpendable \in Nat
         /\ estimateAccountMaxSpendable > 0 =>
              estimateAccountMaxSpendable
                = Total(Usable) - Fee(Ceil(maxTxSize(Cardinality(Usable), 1, FALSE)))
<1> DEFINE size == Ceil(maxTxSize(Cardinality(Usable), 1, FALSE))
           rest == Total(Usable) - Fee(size)
<1>1. Usable \subseteq Utxos
  BY MoneyFacts
<1>2. Total(Usable) \in Nat /\ Cardinality(Usable) \in Nat
  BY <1>1, TotalFacts, FiniteUtxos
<1>3. maxTxSize(Cardinality(Usable), 1, FALSE) \in Int
  <2> DEFINE c == Cardinality(Usable)
             x == maxTxSize(c, 1, FALSE)
  <2>1. c \in Nat /\ 1 \in Nat
    BY <1>2
  <2> HIDE DEF c
  <2>2. x \in Nat
    BY <2>1, SizeNoChange
  <2> HIDE DEF x
  <2>3. x \in Int
    BY <2>2
  <2> QED
    BY <2>3 DEF c, x
<1>4. Fee(size) \in Int
  <2> DEFINE x == maxTxSize(Cardinality(Usable), 1, FALSE)
  <2>1. x \in Int
    BY <1>3
  <2> HIDE DEF x
  <2>2. Fee(Ceil(x)) \in Int
    BY <2>1, CeilIs, FeeType
  <2> QED
    BY <2>2 DEF x
<1>5. estimateAccountMaxSpendable = IF rest < 0 THEN 0 ELSE rest
  BY DEF estimateAccountMaxSpendable
<1>6. rest \in Int
  <2> DEFINE fee == Fee(size)
  <2>1. fee \in Int /\ rest = Total(Usable) - fee
    BY <1>4
  <2> HIDE DEF fee, rest
  <2> QED
    BY <1>2, <2>1
<1> HIDE DEF rest
<1>7. /\ estimateAccountMaxSpendable \in Nat
      /\ estimateAccountMaxSpendable > 0 => estimateAccountMaxSpendable = rest
  BY <1>5, <1>6
<1> QED
  BY <1>7 DEF rest

LEMMA OrdersAre ==
  ASSUME request \in Requests
  PROVE  /\ IsOrder(SortBy(heights, Pickable), Pickable)
         /\ IsOrder(SortBy(values, Pickable), Pickable)
         /\ IsOrder(effectiveUtxos, {i \in Pickable : effectiveValues[i] > 0})
<1> DEFINE n == Len(request.utxos)
           E == {i \in Pickable : effectiveValues[i] > 0}
<1>1. /\ n \in Nat /\ Pickable \in SUBSET (1..n) /\ E \in SUBSET (1..n)
      /\ heights \in [1..n -> Int] /\ values \in [1..n -> Int] /\ effectiveValues \in [1..n -> Int]
  BY MoneyFacts
<1>2. effectiveUtxos = Reverse(SortBy(effectiveValues, E))
  BY DEF effectiveUtxos
<1> HIDE DEF n, E
<1>3. IsOrder(SortBy(effectiveValues, E), E)
  BY <1>1, SortFacts
<1>4. IsOrder(effectiveUtxos, E)
  BY <1>2, <1>3, ReverseOrder
<1> QED
  BY <1>1, <1>4, SortFacts DEF E

(***************************************************************************)
(* What was picked pays for the transaction.                               *)
(***************************************************************************)

\* What is lost of the size, see Lost, for n inputs.
LostOf(n, change) ==
  LET larger == Chg - Out
  IN  IF request.strategy = "CoinSelect" /\ best.selection # <<>>
      THEN IF change THEN 0 ELSE Counts(n) + Counts(Len(Outputs))
      ELSE (Ceil(fixedSize) - fixedSize) * (n + 1) + Counts(n)
             + IF change /\ larger > 0 THEN larger ELSE 0

Size(p, change) == maxTxSize(Cardinality(p.utxos), Len(Outputs), change)

\* The picked outputs pay without a change, and with it if there is to be one, and there
\* is one unless little is given up.
Pays(p) ==
  /\ p.utxos \subseteq Pickable /\ p.fee \in Int
  /\ Total(p.utxos) - amount >= Fee(Size(p, FALSE) - LostOf(Cardinality(p.utxos), FALSE))
  /\ p.fee <= Fee(Ceil(Size(p, TRUE))) + Fee(oneOutputSize)
  /\ p.needChangeoutput =>
       p.fee >= Fee(Size(p, TRUE) - LostOf(Cardinality(p.utxos), TRUE))
  /\ ~p.needChangeoutput =>
       Total(p.utxos) - amount <= Fee(Ceil(Size(p, TRUE))) + Fee(oneOutputSize)

\* FeeFits of a transaction.
Fits(t) ==
  /\ Paid(t.outputs) = amount
  /\ t.fee + t.change + amount = Total(t.inputs)
  /\ t.fee >= Fee(maxTxSize(Cardinality(t.inputs), Len(t.outputs), t.change > 0)
                    - LostOf(Cardinality(t.inputs), t.change > 0))
  /\ t.fee <= Fee(Ceil(maxTxSize(Cardinality(t.inputs), Len(t.outputs), TRUE)))
                + Fee(oneOutputSize)
                + computeDustAmount(Ceil(maxTxSize(Cardinality(t.inputs), Len(t.outputs), TRUE)))

LEMMA SizeTypes ==
  ASSUME request \in Requests, amount \in Nat, NEW p, p.utxos \subseteq Pickable
  PROVE  /\ Cardinality(p.utxos) \in Nat /\ Total(p.utxos) \in Nat
         /\ \A change \in BOOLEAN :
              /\ Size(p, change) = Plain(Cardinality(p.utxos), Len(Outputs))
                                     + Counts(Cardinality(p.utxos)) + Counts(Len(Outputs))
                                     + IF change THEN Chg ELSE 0
              /\ Size(p, change) \in Nat
              /\ LostOf(Cardinality(p.utxos), change) \in Nat
         /\ oneOutputSize = IF Len(Outputs) > 0 THEN Out ELSE Chg
         /\ oneOutputSize \in Nat /\ Fee(oneOutputSize) \in Nat
<1> DEFINE n == Cardinality(p.utxos)
           o == Len(Outputs)
           d == Ceil(fixedSize) - fixedSize
<1>1. p.utxos \subseteq Utxos
  BY MoneyFacts
<1>2. n \in Nat /\ Total(p.utxos) \in Nat
  BY <1>1, FiniteUtxos, TotalFacts
<1>3. o \in Nat
  BY OutputsFacts
<1>4. ASSUME NEW change \in BOOLEAN
      PROVE  /\ Size(p, change) = Plain(n, o) + Counts(n) + Counts(o) + IF change THEN Chg ELSE 0
             /\ Size(p, change) \in Nat
  BY <1>2, <1>3, MaxSizeIs DEF Size
<1>5. ASSUME NEW change \in BOOLEAN PROVE LostOf(n, change) \in Nat
  <2>1. d \in Nat
    <3>1. fixedSize \in Nat
      BY Weights
    <3>2. Ceil(fixedSize) \in Int /\ fixedSize <= Ceil(fixedSize)
      BY <3>1, CeilIs
    <3> QED
      BY <3>1, <3>2
  <2>2. d * (n + 1) \in Nat
    BY <1>2, <2>1
  <2> DEFINE x == d * (n + 1)
             y == Counts(n)
             z == Counts(o)
  <2>3. LostOf(n, change) = IF request.strategy = "CoinSelect" /\ best.selection # <<>>
                            THEN IF change THEN 0 ELSE y + z
                            ELSE x + y + IF change /\ Chg - Out > 0 THEN Chg - Out ELSE 0
    BY DEF LostOf
  <2>4. x \in Nat /\ y \in Nat /\ z \in Nat
    BY <1>2, <1>3, <2>2, CountsIs
  <2> HIDE DEF x, y, z
  <2> QED
    BY <2>3, <2>4, Weights
<1>6. oneOutputSize = OutputSize(o, fixedSize)
  BY DEF oneOutputSize
<1> HIDE DEF o
<1>7. oneOutputSize = fixedSize - fixedSize + IF o > 0 THEN Out ELSE Chg
  BY <1>3, <1>6, Weights, OutputSizeIs
<1>8. oneOutputSize = (IF o > 0 THEN Out ELSE Chg) /\ oneOutputSize \in Nat
  BY <1>7, Weights
<1>9. Fee(oneOutputSize) \in Nat
  BY <1>8, FeeType
<1> QED
  BY <1>2, <1>4, <1>5, <1>8, <1>9 DEF o

LEMMA BuiltFits ==
  ASSUME request \in Requests, amount \in Nat, NEW p, Pays(p)
  PROVE  Fits(Built(p))
<1> DEFINE n == Cardinality(p.utxos)
           total == Total(p.utxos)
           rest == total - amount - p.fee
           size == Ceil(Size(p, TRUE))
           dust == computeDustAmount(size)
           change == IF p.needChangeoutput /\ rest > dust THEN rest ELSE 0
           t == Built(p)
           given == Fee(oneOutputSize)
           max == Fee(size)
           low(c) == Fee(Size(p, c) - LostOf(n, c))
<1>1. t = [inputs |-> p.utxos, outputs |-> Outputs, change |-> change,
           fee |-> total - Paid(Outputs) - change]
  BY DEF Built, Size
<1>2. total \in Nat /\ given \in Nat /\ Size(p, TRUE) \in Nat
  <2>1. p.utxos \subseteq Pickable
    BY DEF Pays
  <2> QED
    BY <2>1, SizeTypes
<1>3. size \in Nat /\ dust \in Nat /\ max \in Int
  <2>1. size \in Nat
    <3> DEFINE x == Size(p, TRUE)
    <3>1. x \in Nat
      BY <1>2
    <3> HIDE DEF x
    <3>2. Ceil(x) \in Nat
      BY <3>1, CeilIs
    <3> QED
      BY <3>2 DEF x
  <2> HIDE DEF size
  <2> QED
    BY <2>1, DustFacts, FeeType
<1>4. /\ p.fee \in Int /\ total - amount >= low(FALSE) /\ p.fee <= max + given
      /\ p.needChangeoutput => p.fee >= low(TRUE)
      /\ ~p.needChangeoutput => total - amount <= max + given
  BY DEF Pays
<1>5. Paid(Outputs) = amount
  BY OutputsFacts
<1> DEFINE fee == total - amount - change
<1>6. t.inputs = p.utxos /\ t.outputs = Outputs /\ t.change = change /\ t.fee = fee
  BY <1>1, <1>5
<1> DEFINE positive == change > 0
<1>7. low(positive) = IF positive THEN low(TRUE) ELSE low(FALSE)
  <2>1. positive \in BOOLEAN
    OBVIOUS
  <2> HIDE DEF positive
  <2> QED
    BY <2>1, Zenon
<1>71. low(FALSE) \in Int /\ low(TRUE) \in Int
  <2>1. p.utxos \subseteq Pickable
    BY DEF Pays
  <2>2. ASSUME NEW c \in BOOLEAN PROVE low(c) \in Int
    <3>1. Size(p, c) - LostOf(n, c) \in Int
      BY <2>1, SizeTypes
    <3> QED
      BY <3>1, FeeType
  <2> QED
    BY <2>2
<1> DEFINE lower == low(positive)
           none == low(FALSE)
           some == low(TRUE)
<1> HIDE DEF low, max, given, dust, total
<1>8. /\ fee + change + amount = total
      /\ fee >= lower
      /\ fee <= max + given + dust
  <2>1. lower = IF change > 0 THEN some ELSE none
    BY <1>7
  <2>2. none \in Int /\ some \in Int
    BY <1>71
  <2>3. /\ total - amount >= none
        /\ p.needChangeoutput => p.fee >= some
    BY <1>4
  <2> HIDE DEF lower, none, some
  <2> QED
    BY <1>2, <1>3, <1>4, <2>1, <2>2, <2>3
<1> HIDE DEF change, fee, t
<1>9. /\ Paid(t.outputs) = amount /\ t.fee + t.change + amount = Total(t.inputs)
  BY <1>5, <1>6, <1>8 DEF total
<1>10. t.fee >= Fee(maxTxSize(Cardinality(t.inputs), Len(t.outputs), t.change > 0)
                    - LostOf(Cardinality(t.inputs), t.change > 0))
  BY <1>6, <1>8 DEF low, Size, lower, positive
<1>11. t.fee <= Fee(Ceil(maxTxSize(Cardinality(t.inputs), Len(t.outputs), TRUE)))
                + Fee(oneOutputSize)
                + computeDustAmount(Ceil(maxTxSize(Cardinality(t.inputs), Len(t.outputs), TRUE)))
  BY <1>6, <1>8 DEF max, given, dust, Size
<1> QED
  BY <1>9, <1>10, <1>11 DEF Fits, t

(***************************************************************************)
(* DeepFirst and Merge.                                                    *)
(***************************************************************************)

LEMMA LeastOf ==
  ASSUME NEW S \in SUBSET Nat, S # {}
  PROVE  \E n \in S : \A m \in S : n <= m
<1> DEFINE R == OpToRel(<, Nat)
<1>1. PICK n \in S : \A m \in S : ~(<<m, n>> \in R)
  <2>1. IsWellFoundedOn(R, Nat)
    BY NatLessThanWellFounded
  <2> HIDE DEF R
  <2> QED
    BY <2>1, WFMin
<1>2. \A m \in S : ~(m < n)
  BY <1>1 DEF OpToRel
<1> QED
  BY <1>2

\* The code's estimate of the fee for n inputs is that of a size without d for each.
Short == Ceil(fixedSize) - fixedSize
FeeOf(n) == Fee(maxTxSize(0, Len(Outputs), FALSE)) + n * Fee(oneInputSize - Short)
Enough(order, n) == Total(Image(order, 1..n)) >= amount + FeeOf(n)
Changes(order, n) ==
  Total(Image(order, 1..n)) - amount - FeeOf(n) >= Fee(oneOutputSize - Short)
Taken(order, n) ==
  [utxos |-> Image(order, 1..n),
   fee |-> Ceil(FeeOf(n) + IF Changes(order, n) THEN Fee(oneOutputSize - Short) ELSE 0),
   needChangeoutput |-> Changes(order, n)]

LEMMA ShortFacts ==
  ASSUME request \in Requests, amount \in Nat
  PROVE  /\ Short \in 0..3
         /\ maxTxSize(1, 0, FALSE) - Ceil(maxTxSize(0, 0, FALSE)) = oneInputSize - Short
         /\ OutputSize(Len(Outputs), Ceil(maxTxSize(0, 0, FALSE))) = oneOutputSize - Short
<1>1. fixedSize \in Nat /\ oneInputSize \in Nat
  BY Weights
<1>2. Ceil(fixedSize) \in Nat /\ fixedSize <= Ceil(fixedSize) /\ Ceil(fixedSize) <= fixedSize + 3
  BY <1>1, CeilIs
<1>3. Short \in 0..3
  BY <1>1, <1>2 DEF Short
<1> DEFINE none == maxTxSize(0, 0, FALSE)
           one == maxTxSize(1, 0, FALSE)
           o == Len(Outputs)
           e == Ceil(none)
<1>4. none = fixedSize /\ oneInputSize = one - fixedSize
  BY DEF fixedSize, oneInputSize
<1>5. one \in Nat
  BY SizeNoChange
<1> HIDE DEF none, one
<1>6. one - e = oneInputSize - Short /\ e = Ceil(fixedSize)
  BY <1>1, <1>2, <1>4, <1>5 DEF Short
<1>7. o \in Nat
  BY OutputsFacts
<1>8. oneOutputSize = OutputSize(o, fixedSize)
  BY DEF oneOutputSize
<1> HIDE DEF o
<1>9. OutputSize(o, fixedSize) = fixedSize - fixedSize + IF o > 0 THEN Out ELSE Chg
  BY <1>1, <1>7, OutputSizeIs
<1>10. OutputSize(o, e) = fixedSize - e + IF o > 0 THEN Out ELSE Chg
  BY <1>2, <1>6, <1>7, OutputSizeIs
<1>11. OutputSize(o, e) = oneOutputSize - Short
  BY <1>1, <1>2, <1>6, <1>8, <1>9, <1>10, Weights DEF Short
<1> QED
  BY <1>3, <1>6, <1>11 DEF none, one, o

\* The first outputs of the order that are enough, as few as possible.
LEMMA TakeIs ==
  ASSUME request \in Requests, amount \in Nat, NEW order, Len(order) \in Nat
  PROVE  IF \E n \in 0..Len(order) : Enough(order, n)
         THEN \E n \in 0..Len(order) :
                /\ Enough(order, n) /\ Take(order) = Taken(order, n)
                /\ \A m \in 0..Len(order) : Enough(order, m) => n <= m
         ELSE Take(order) = NotEnoughBalance
<1> DEFINE enough == {n \in 0..Len(order) : Enough(order, n)}
           taken == CHOOSE n \in enough : \A m \in enough : n <= m
<1>1. Take(order) = IF enough = {} THEN NotEnoughBalance ELSE Taken(order, taken)
  <2> DEFINE outputs == Len(Outputs)
             emptyTxSize == Ceil(maxTxSize(0, 0, FALSE))
             sizePerInput == maxTxSize(1, 0, FALSE) - emptyTxSize
             sizePerOutput == OutputSize(outputs, emptyTxSize)
             fee(n) == Fee(maxTxSize(0, outputs, FALSE)) + n * Fee(sizePerInput)
             total(n) == Total({order[k] : k \in 1..n})
             e == {n \in 0..Len(order) : total(n) >= amount + fee(n)}
             t == CHOOSE n \in e : \A m \in e : n <= m
             change == total(t) - amount - fee(t) >= Fee(sizePerOutput)
  <2>1. Take(order) = IF e = {} THEN NotEnoughBalance
                      ELSE [utxos |-> {order[k] : k \in 1..t},
                            fee |-> Ceil(fee(t) + IF change THEN Fee(sizePerOutput) ELSE 0),
                            needChangeoutput |-> change]
    BY DEF Take
  <2>2. sizePerInput = oneInputSize - Short /\ sizePerOutput = oneOutputSize - Short
    BY ShortFacts
  <2>3. \A n : fee(n) = FeeOf(n)
    BY <2>2 DEF FeeOf
  <2>4. \A n : total(n) = Total(Image(order, 1..n)) /\ {order[k] : k \in 1..n} = Image(order, 1..n)
    BY DEF Image
  <2> HIDE DEF sizePerInput, sizePerOutput, fee, total
  <2>5. e = enough
    BY <2>3, <2>4 DEF Enough
  <2>6. t = taken
    BY <2>5
  <2> HIDE DEF t, taken, e, enough
  <2>7. change <=> Changes(order, taken)
    BY <2>2, <2>3, <2>4, <2>6 DEF Changes
  <2>8. [utxos |-> {order[k] : k \in 1..t},
         fee |-> Ceil(fee(t) + IF change THEN Fee(sizePerOutput) ELSE 0),
         needChangeoutput |-> change] = Taken(order, taken)
    <3>1. {order[k] : k \in 1..t} = Image(order, 1..taken) /\ fee(t) = FeeOf(taken)
      BY <2>3, <2>4, <2>6
    <3>2. change = Changes(order, taken)
      BY <2>7 DEF Changes
    <3> HIDE DEF change
    <3> QED
      BY <2>2, <3>1, <3>2 DEF Taken
  <2> QED
    BY <2>1, <2>5, <2>8
<1>2. CASE \E n \in 0..Len(order) : Enough(order, n)
  <2>1. enough # {} /\ enough \in SUBSET Nat
    BY <1>2
  <2>2. taken \in enough /\ \A m \in enough : taken <= m
    <3> HIDE DEF enough
    <3>1. \E n \in enough : \A m \in enough : n <= m
      BY <2>1, LeastOf
    <3> QED
      BY <3>1
  <2> HIDE DEF taken
  <2> QED
    BY <1>1, <1>2, <2>1, <2>2
<1>3. CASE ~\E n \in 0..Len(order) : Enough(order, n)
  BY <1>1, <1>3
<1> QED
  BY <1>2, <1>3

\* The estimate is the fee of a size.
LEMMA FeeOfIs ==
  ASSUME request \in Requests, amount \in Nat, NEW n \in Nat
  PROVE  /\ maxTxSize(n, Len(Outputs), FALSE) \in Nat
         /\ n * Short + Counts(n) \in Nat
         /\ FeeOf(n) = Fee(maxTxSize(n, Len(Outputs), FALSE) - (n * Short + Counts(n)))
         /\ FeeOf(n) \in Int
<1> DEFINE o == Len(Outputs)
           s == maxTxSize(n, o, FALSE)
           s0 == maxTxSize(0, o, FALSE)
           x == n * oneInputSize
           y == o * Out
           z == n * Short + Counts(n)
           w == oneInputSize - Short
<1>1. o \in Nat /\ 0 \in Nat
  BY OutputsFacts
<1>2. Short \in Nat /\ w \in Int
  BY ShortFacts, Weights
<1> DEFINE cn == Counts(n)
           co == Counts(o)
<1>3. /\ x \in Nat /\ y \in Nat /\ z \in Nat /\ n * w = x - n * Short /\ n * w \in Int
      /\ n * Short \in Nat /\ cn \in Nat /\ co \in Nat
  <2>1. x \in Nat /\ y \in Nat /\ n * w = x - n * Short /\ n * w \in Int /\ n * Short \in Nat
    BY <1>1, <1>2, Weights
  <2>2. cn \in Nat /\ co \in Nat
    BY <1>1, CountsIs
  <2> QED
    BY <2>1, <2>2
<1>4. s = fixedSize + x + y + cn + co /\ s \in Nat
  BY <1>1, SizeNoChange DEF Plain
<1>5. s0 = fixedSize + y + co /\ s0 \in Nat
  <2>1. s0 = fixedSize + 0 * oneInputSize + y + Counts(0) + co /\ s0 \in Nat
    BY <1>1, SizeNoChange DEF Plain
  <2>2. 0 * oneInputSize = 0 /\ Counts(0) = 0
    BY Weights, CountsFacts
  <2> HIDE DEF s0, y, co
  <2> QED
    BY <1>3, <2>1, <2>2, Weights
<1>6. FeeOf(n) = Fee(s0) + n * Fee(w)
  BY DEF FeeOf
<1>7. Fee(n * w) = n * Fee(w)
  BY <1>2, FeeIs
<1> DEFINE v == n * w
<1>8. Fee(s0 + v) = Fee(s0) + Fee(v)
  <2> HIDE DEF s0, v
  <2>1. s0 \in Int /\ v \in Int
    BY <1>3, <1>5 DEF v
  <2> QED
    BY <2>1, FeeIs
<1>9. s0 + v = s - z
  <2> DEFINE u == n * Short
  <2>1. v = x - u /\ z = u + cn /\ u \in Nat
    BY <1>3
  <2> HIDE DEF s0, s, x, y, z, v, u, cn, co
  <2> QED
    BY <1>3, <1>4, <1>5, <2>1, Weights
<1>10. FeeOf(n) = Fee(s - z)
  BY <1>6, <1>7, <1>8, <1>9
<1>11. Fee(s - z) \in Int
  <2> HIDE DEF s, z
  <2>1. s - z \in Int
    BY <1>3, <1>4
  <2> QED
    BY <2>1, FeeType
<1> QED
  BY <1>3, <1>4, <1>10, <1>11

LEMMA TakenPays ==
  ASSUME request \in Requests, amount \in Nat, NEW order, IsOrder(order, Pickable),
         request.strategy # "CoinSelect" \/ best.selection = <<>>,
         NEW n \in 0..Len(order), Enough(order, n)
  PROVE  Pays(Taken(order, n))
<1> DEFINE p == Taken(order, n)
           o == Len(Outputs)
           total == Total(p.utxos)
           low == Size(p, FALSE)
           high == Size(p, TRUE)
           z == n * Short + Counts(n)
           P == oneOutputSize
           part == Fee(P - Short)
           larger == Chg - Out
           more == IF larger > 0 THEN larger ELSE 0
           lost == LostOf(n, FALSE)
           lostMore == LostOf(n, TRUE)
<1>1. p.utxos = Image(order, 1..n) /\ p.needChangeoutput = Changes(order, n)
      /\ p.fee = Ceil(FeeOf(n) + IF Changes(order, n) THEN part ELSE 0)
  BY DEF Taken
<1>2. n \in Nat /\ 1..n \in SUBSET (1..Len(order)) /\ Cardinality(1..n) = n
  <2>1. Len(order) \in Nat
    BY DEF IsOrder
  <2>2. n \in Nat /\ 1..n \in SUBSET (1..Len(order))
    BY <2>1
  <2>3. Cardinality(1..n) = IF 1 > n THEN 0 ELSE n - 1 + 1
    BY <2>2, FS_Interval
  <2> QED
    BY <2>2, <2>3
<1>3. p.utxos \subseteq Pickable /\ Cardinality(p.utxos) = n
  <2>1. Image(order, 1..n) \subseteq Pickable /\ Cardinality(Image(order, 1..n)) = n
    BY <1>2, ImageFacts
  <2> HIDE DEF p
  <2> QED
    BY <1>1, <2>1
<1>4. Short \in 0..3 /\ z \in Nat
  BY <1>2, ShortFacts, FeeOfIs
<1> HIDE DEF p
<1>5. /\ total \in Nat /\ low \in Nat /\ high = low + Chg
      /\ P = (IF o > 0 THEN Out ELSE Chg) /\ P \in Nat
  <2>1. total \in Nat /\ P = (IF o > 0 THEN Out ELSE Chg) /\ P \in Nat
    BY <1>3, SizeTypes
  <2> DEFINE rest == Plain(n, o) + Counts(n) + Counts(o)
  <2>2. low = rest + 0 /\ low \in Nat
    BY <1>3, SizeTypes
  <2>3. high = rest + Chg
    BY <1>3, SizeTypes
  <2>5. rest \in Int
    <3> DEFINE x == Plain(n, o)
               y == Counts(n)
               w == Counts(o)
    <3>1. x \in Nat /\ y \in Nat /\ w \in Nat
      BY <1>2, OutputsFacts, PlainIs, CountsIs
    <3> HIDE DEF x, y, w
    <3>2. x + y + w \in Int
      BY <3>1
    <3> QED
      BY <3>2 DEF x, y, w
  <2>6. low = rest + 0 /\ high = rest + Chg
    BY <2>2, <2>3
  <2> HIDE DEF rest, low, high
  <2>7. high = low + Chg
    BY <2>5, <2>6, Weights
  <2> QED
    BY <2>1, <2>2, <2>7 DEF low, high
<1>6. FeeOf(n) = Fee(low - z) /\ FeeOf(n) \in Int
  <2>1. FeeOf(n) = Fee(maxTxSize(n, o, FALSE) - z) /\ FeeOf(n) \in Int
    BY <1>2, FeeOfIs
  <2>2. low = maxTxSize(n, o, FALSE)
    BY <1>3 DEF Size
  <2> QED
    BY <2>1, <2>2
<1>7. lost = z + Short /\ lostMore = z + Short + more
  <2> DEFINE x == Short * (n + 1)
             y == Counts(n)
  <2>1. x + y = z + Short /\ x \in Nat /\ y \in Nat
    <3> DEFINE w == n * Short
    <3>1. x = w + Short /\ w \in Nat /\ y \in Nat /\ z = w + y
      BY <1>2, <1>4, CountsIs
    <3> HIDE DEF x, y, w, z
    <3> QED
      BY <1>4, <3>1
  <2>2. lost = x + y + 0
    BY DEF LostOf, Short
  <2>3. lostMore = x + y + more
    BY DEF LostOf, Short
  <2> HIDE DEF x, y
  <2> HIDE DEF z, lost, lostMore
  <2>4. larger \in Int /\ more \in Int
    BY Weights
  <2> HIDE DEF more
  <2> QED
    BY <1>4, <2>1, <2>2, <2>3, <2>4
<1>8. total >= amount + FeeOf(n)
  BY <1>1 DEF Enough
<1>9. Changes(order, n) <=> total - amount - FeeOf(n) >= part
  BY <1>1 DEF Changes
<1> HIDE DEF low, high, total, z, P, lost, lostMore
<1>10. more \in Nat /\ P >= Chg - more /\ P <= 172 /\ P >= 124
  BY <1>5, Weights
<1> HIDE DEF more
<1>11. part \in Int /\ Fee(low - z) + part = Fee(low - z + (P - Short))
  <2>1. low - z \in Int /\ P - Short \in Int
    BY <1>4, <1>5
  <2> QED
    BY <2>1, FeeIs
<1> HIDE DEF part
<1>12. total - amount >= Fee(low - lost)
  <2>1. low - lost <= low - z /\ low - lost \in Int /\ low - z \in Int
    BY <1>4, <1>5, <1>7
  <2>2. Fee(low - lost) <= Fee(low - z) /\ Fee(low - lost) \in Int
    BY <2>1, FeeIs
  <2> QED
    BY <1>5, <1>6, <1>8, <2>2
<1> DEFINE w == low - z + (P - Short)
           given == Fee(P)
           size == Ceil(high)
           top == Fee(size)
<1>13. w \in Int /\ low - z \in Int /\ high \in Int /\ size \in Int /\ high <= size
  <2>1. high \in Int
    BY <1>5, Weights
  <2>2. size \in Int /\ high <= size
    BY <2>1, CeilIs
  <2> HIDE DEF size
  <2> QED
    BY <1>4, <1>5, <2>1, <2>2
<1> HIDE DEF size
<1>14. given \in Nat /\ top \in Int /\ Fee(size + P) = top + given
  <2>1. P \in Int /\ size \in Int
    BY <1>5, <1>13
  <2>2. given \in Nat /\ top \in Int
    BY <1>5, <2>1, FeeType
  <2>3. Fee(size + P) = Fee(size) + Fee(P)
    BY <2>1, FeeIs
  <2> QED
    BY <2>2, <2>3
<1>15. ASSUME NEW x \in Int, x <= w \/ x <= low - z PROVE Ceil(Fee(x)) <= top + given
  <2>1. x <= low + P
    BY <1>4, <1>5, <1>10, <1>15
  <2>2. Ceil(x) \in Int /\ Ceil(x) <= x + 3
    BY CeilIs
  <2> DEFINE y == Ceil(x)
  <2>5. Ceil(Fee(x)) <= Fee(y)
    BY CeilFee
  <2> HIDE DEF y
  <2>3. y <= size + P /\ y \in Int /\ size + P \in Int
    <3>1. y \in Int /\ y <= x + 3
      BY <2>2 DEF y
    <3>2. low + 3 <= size
      BY <1>5, <1>13, Weights
    <3> QED
      BY <1>5, <1>13, <2>1, <3>1, <3>2
  <2>4. Fee(y) <= Fee(size + P) /\ Fee(y) \in Int
    BY <2>3, FeeIs
  <2>6. Ceil(Fee(x)) \in Int
    BY FeeType, CeilIs
  <2> HIDE DEF top, given
  <2> QED
    BY <1>14, <2>4, <2>5, <2>6
<1>16. ASSUME Changes(order, n) PROVE p.fee = Ceil(Fee(w))
  BY <1>1, <1>6, <1>11, <1>16 DEF part
<1>161. ASSUME ~Changes(order, n) PROVE p.fee = Ceil(Fee(low - z))
  <2>1. p.fee = Ceil(FeeOf(n) + 0)
    BY <1>1, <1>161
  <2>2. FeeOf(n) + 0 = FeeOf(n)
    BY <1>6
  <2> QED
    BY <1>6, <2>1, <2>2
<1> HIDE DEF top, given
<1>17. p.fee \in Int /\ p.fee <= top + given
  <2>1. ASSUME NEW x \in Int PROVE Ceil(Fee(x)) \in Int
    BY FeeType, CeilIs
  <2>2. Ceil(Fee(w)) \in Int /\ Ceil(Fee(w)) <= top + given
    <3> HIDE DEF w
    <3> QED
      BY <1>13, <1>15, <2>1
  <2>3. Ceil(Fee(low - z)) \in Int /\ Ceil(Fee(low - z)) <= top + given
    <3> DEFINE v == low - z
    <3>1. v \in Int /\ v <= low - z
      BY <1>13
    <3> HIDE DEF v
    <3>2. Ceil(Fee(v)) \in Int /\ Ceil(Fee(v)) <= top + given
      BY <1>15, <2>1, <3>1
    <3> QED
      BY <3>2 DEF v
  <2> QED
    <3>1. CASE Changes(order, n)
      <4>1. p.fee = Ceil(Fee(w))
        BY <1>16, <3>1
      <4> HIDE DEF w
      <4> QED
        BY <2>2, <4>1
    <3>2. CASE ~Changes(order, n)
      <4>1. p.fee = Ceil(Fee(low - z))
        BY <1>161, <3>2
      <4> QED
        BY <2>3, <4>1
    <3> QED
      BY <3>1, <3>2
<1>18. ASSUME Changes(order, n) PROVE p.fee >= Fee(high - lostMore)
  <2> DEFINE v == high - lostMore
  <2>1. v <= w /\ v \in Int
    <3>1. Chg \in Int
      BY Weights
    <3>2. high = low + Chg
      BY <1>5
    <3>4. lostMore = z + Short + more
      BY <1>7
    <3>5. high \in Int /\ lostMore \in Int /\ high - lostMore <= low - z + (P - Short)
      BY <1>4, <1>5, <1>10, <3>1, <3>2, <3>4
    <3>3. w = low - z + (P - Short)
      OBVIOUS
    <3> QED
      BY <1>4, <1>5, <1>10, <3>1, <3>2, <3>3, <3>5
  <2> HIDE DEF v, w
  <2>2. Fee(v) <= Fee(w) /\ Fee(v) \in Int /\ Fee(w) \in Int
    BY <1>13, <2>1, FeeIs
  <2>3. Fee(w) <= Ceil(Fee(w)) /\ Ceil(Fee(w)) \in Int
    BY <2>2, CeilIs
  <2>4. p.fee = Ceil(Fee(w))
    BY <1>16, <1>18
  <2>5. p.fee >= Fee(v)
    BY <2>2, <2>3, <2>4
  <2> QED
    BY <2>5 DEF v
<1>19. ASSUME ~Changes(order, n) PROVE total - amount <= top + given
  <2>1. total - amount <= Fee(w) /\ Fee(w) \in Int
    <3>1. Fee(w) = Fee(low - z) + part /\ Fee(w) \in Int
      BY <1>11, <1>13, FeeType
    <3> HIDE DEF w
    <3> QED
      BY <1>5, <1>6, <1>9, <1>11, <1>19, <3>1
  <2> HIDE DEF w
  <2>2. Ceil(Fee(w)) <= top + given
    BY <1>13, <1>15
  <2>3. Fee(w) <= Ceil(Fee(w)) /\ Ceil(Fee(w)) \in Int
    BY <2>1, CeilIs
  <2> QED
    BY <1>5, <1>14, <2>1, <2>2, <2>3 DEF top, given
<1>20. Pays(p)
  BY <1>1, <1>3, <1>12, <1>17, <1>18, <1>19 DEF Pays, low, high, total, P, lost, lostMore, top,
       given, size
<1> QED
  BY <1>20 DEF p

LEMMA TakePays ==
  ASSUME request \in Requests, amount \in Nat, NEW order, IsOrder(order, Pickable),
         request.strategy # "CoinSelect" \/ best.selection = <<>>,
         Take(order) # NotEnoughBalance
  PROVE  Pays(Take(order))
<1>1. Len(order) \in Nat
  BY DEF IsOrder
<1>2. PICK n \in 0..Len(order) : Enough(order, n) /\ Take(order) = Taken(order, n)
  BY <1>1, TakeIs
<1> QED
  BY <1>2, TakenPays

(***************************************************************************)
(* The search.                                                             *)
(***************************************************************************)

Effective == {i \in Pickable : effectiveValues[i] > 0}

\* A selection, or the beginning of one.
IsSelection(s) == s \in Seq(BOOLEAN) /\ Len(s) <= Len(effectiveUtxos)

Picks(s) == Image(effectiveUtxos, Chosen(s))

LEMMA EffectiveOrder ==
  ASSUME request \in Requests
  PROVE  /\ IsOrder(effectiveUtxos, Effective)
         /\ Effective \subseteq Pickable /\ Pickable \subseteq Utxos
         /\ Len(effectiveUtxos) \in Nat /\ ToSet(effectiveUtxos) = Effective
<1>1. IsOrder(effectiveUtxos, Effective)
  BY OrdersAre DEF Effective
<1>2. Effective \subseteq Pickable /\ Pickable \subseteq Utxos
  BY MoneyFacts DEF Effective
<1>3. Len(effectiveUtxos) \in Nat /\ ToSet(effectiveUtxos) = Effective
  BY <1>1 DEF IsOrder
<1> QED
  BY <1>1, <1>2, <1>3

LEMMA SelectionFacts ==
  ASSUME request \in Requests, NEW s, IsSelection(s)
  PROVE  /\ Chosen(s) \subseteq 1..Len(effectiveUtxos)
         /\ Picks(s) \subseteq Effective /\ Picks(s) \subseteq Pickable /\ Picks(s) \subseteq Utxos
         /\ Cardinality(Picks(s)) = Cardinality(Chosen(s)) /\ Cardinality(Chosen(s)) \in Nat
         /\ Worth(Picks(s)) \in Int
<1>1. Len(effectiveUtxos) \in Nat
  BY EffectiveOrder
<1>2. Chosen(s) \subseteq 1..Len(effectiveUtxos)
  BY <1>1 DEF IsSelection, Chosen
<1>3. Picks(s) \subseteq Effective /\ Cardinality(Picks(s)) = Cardinality(Chosen(s))
  BY <1>2, EffectiveOrder, ImageFacts DEF Picks
<1>4. Picks(s) \subseteq Pickable /\ Picks(s) \subseteq Utxos
  BY <1>3, EffectiveOrder
<1>5. Cardinality(Picks(s)) \in Nat /\ Worth(Picks(s)) \in Int
  BY <1>4, FiniteUtxos, TotalFacts
<1> QED
  BY <1>2, <1>3, <1>4, <1>5

LEMMA TargetIs ==
  ASSUME request \in Requests, amount \in Nat
  PROVE  /\ actualTarget = Fee(Plain(0, Len(Outputs))) + amount
         /\ actualTarget \in Nat
<1> DEFINE o == Len(Outputs)
           s == Plain(0, o)
<1>1. o \in Nat /\ 0 \in Nat
  BY OutputsFacts
<1>2. oneOutputSize = (IF o > 0 THEN Out ELSE Chg) /\ oneOutputSize \in Nat
  <2>1. oneOutputSize = OutputSize(o, fixedSize)
    BY DEF oneOutputSize
  <2>2. fixedSize \in Nat
    BY Weights
  <2> HIDE DEF o
  <2>3. oneOutputSize = fixedSize - fixedSize + IF o > 0 THEN Out ELSE Chg
    BY <1>1, <2>1, <2>2, OutputSizeIs
  <2> QED
    BY <2>2, <2>3, Weights
<1>3. s = fixedSize + 0 * oneInputSize + o * Out /\ s \in Nat
  BY <1>1, PlainIs DEF Plain
<1>4. 0 * oneInputSize = 0 /\ oneOutputSize * o = o * Out /\ o * Out \in Nat
  BY <1>1, <1>2, Weights
<1>5. fixedSize + oneOutputSize * o = s
  <2> DEFINE y == o * Out
             x == oneOutputSize * o
  <2>1. x = y /\ y \in Nat /\ s = fixedSize + 0 + y
    BY <1>3, <1>4
  <2> HIDE DEF x, y, s
  <2>2. fixedSize + x = s
    BY <2>1, Weights
  <2> QED
    BY <2>2 DEF x
<1>6. actualTarget = Fee(s) + amount
  BY <1>5 DEF actualTarget
<1>7. Fee(s) \in Nat
  <2> HIDE DEF s
  <2> QED
    BY <1>3, FeeType
<1> DEFINE fee == Fee(s)
<1>8. actualTarget = fee + amount /\ fee \in Nat
  BY <1>6, <1>7
<1>9. actualTarget \in Nat
  <2> HIDE DEF fee
  <2> QED
    BY <1>8
<1> QED
  BY <1>6, <1>9

\* What a selection costs without a change.
LEMMA PicksPay ==
  ASSUME request \in Requests, amount \in Nat, NEW U \in SUBSET Utxos
  PROVE  /\ Plain(Cardinality(U), Len(Outputs)) \in Nat
         /\ Total(U) - amount = Worth(U) - actualTarget
                                  + Fee(Plain(Cardinality(U), Len(Outputs)))
<1> DEFINE n == Cardinality(U)
           o == Len(Outputs)
           s == Plain(n, o)
           s0 == Plain(0, o)
           x == n * oneInputSize
           cost == n * Fee(oneInputSize)
<1>1. o \in Nat /\ n \in Nat /\ 0 \in Nat
  BY OutputsFacts, FiniteUtxos
<1>2. s = fixedSize + x + o * Out /\ s \in Nat
  BY <1>1, PlainIs DEF Plain
<1>3. s0 = fixedSize + 0 * oneInputSize + o * Out /\ s0 \in Nat
  BY <1>1, PlainIs DEF Plain
<1>4. 0 * oneInputSize = 0 /\ o * Out \in Nat /\ x \in Nat
  BY <1>1, Weights
<1>5. s = s0 + x
  <2> DEFINE y == o * Out
  <2>1. y \in Nat /\ s = fixedSize + x + y /\ s0 = fixedSize + 0 + y
    BY <1>2, <1>3, <1>4
  <2> HIDE DEF y, s, s0, x
  <2> QED
    BY <1>4, <2>1, Weights
<1>6. Fee(x) = cost /\ Fee(x) \in Int
  <2>1. n \in Int /\ oneInputSize \in Int
    BY <1>1, Weights
  <2>2. Fee(x) = cost
    <3> HIDE DEF n
    <3> QED
      BY <2>1, FeeIs
  <2> HIDE DEF x
  <2>3. x \in Int
    BY <1>4
  <2>4. Fee(x) \in Int
    BY <2>3, FeeType
  <2> QED
    BY <2>2, <2>4
<1> HIDE DEF s, s0, x, cost
<1>7. Fee(s) = Fee(s0) + cost /\ Fee(s0) \in Int
  BY <1>3, <1>4, <1>5, <1>6, FeeIs, FeeType
<1>8. actualTarget = Fee(s0) + amount
  BY TargetIs DEF s0
<1>9. Worth(U) = Total(U) - cost /\ Total(U) \in Nat /\ Worth(U) \in Int
  BY TotalFacts DEF cost
<1>10. Total(U) - amount = Worth(U) - actualTarget + Fee(s)
  <2> DEFINE f0 == Fee(s0)
             f == Fee(s)
  <2>1. f = f0 + cost /\ f0 \in Int /\ actualTarget = f0 + amount /\ cost \in Int
    BY <1>6, <1>7, <1>8
  <2> HIDE DEF f, f0
  <2>2. Total(U) - amount = Worth(U) - actualTarget + f
    BY <1>9, <2>1
  <2> QED
    BY <2>2 DEF f
<1> QED
  BY <1>2, <1>10 DEF s

\* The best selection so far reaches the target, and its waste and its change are known.
BestKnown ==
  /\ IsSelection(best.selection)
  /\ best.selection # <<>> =>
       LET U == Picks(best.selection)
       IN  /\ Worth(U) >= actualTarget
           /\ best.waste = Waste(Cardinality(U), Worth(U))
           /\ best.change = NeedsChange(Worth(U))

LEMMA CoinSelectPays ==
  ASSUME request \in Requests, amount \in Nat, request.strategy = "CoinSelect",
         BestKnown, best.selection # <<>>
  PROVE  Pays(CoinSelected)
<1> DEFINE U == Picks(best.selection)
           p == CoinSelected
           n == Cardinality(U)
           o == Len(Outputs)
           plain == Plain(n, o)
           low == maxTxSize(n, o, FALSE)
           high == maxTxSize(n, o, TRUE)
           value == Worth(U)
           given == Fee(oneOutputSize)
           change == NeedsChange(value)
           fee == Fee(Ceil(maxTxSize(n, o, change)))
<1>1. U \subseteq Pickable /\ U \subseteq Utxos /\ n \in Nat /\ o \in Nat
  BY SelectionFacts, OutputsFacts DEF BestKnown
<1>2. value \in Int /\ value >= actualTarget /\ best.change = change
  BY SelectionFacts DEF BestKnown
<1>3. p = [utxos |-> U, fee |-> fee, needChangeoutput |-> change]
  BY <1>2 DEF CoinSelected, Picks, Image
<1> DEFINE total == Total(U)
<1>4. total \in Nat /\ plain \in Nat /\ Fee(plain) \in Int
      /\ total - amount = value - actualTarget + Fee(plain)
  <2>1. total \in Nat
    BY <1>1, TotalFacts
  <2>2. plain \in Nat /\ total - amount = value - actualTarget + Fee(plain)
    BY <1>1, PicksPay
  <2> HIDE DEF plain
  <2>3. Fee(plain) \in Int
    BY <2>2, FeeType
  <2> QED
    BY <2>1, <2>2, <2>3
<1> DEFINE extra == Counts(n) + Counts(o)
<1>5. low = plain + extra /\ extra \in Nat /\ low \in Nat /\ high \in Nat /\ high >= low
  <2> DEFINE x == Counts(n)
             y == Counts(o)
  <2>1. low = plain + x + y
    BY <1>1, SizeNoChange
  <2>2. high = plain + x + y + Chg /\ high \in Nat
    BY <1>1, MaxSizeIs
  <2>3. x \in Nat /\ y \in Nat /\ extra = x + y
    BY <1>1, CountsIs
  <2> HIDE DEF plain, low, high, x, y, extra
  <2> QED
    BY <1>4, <2>1, <2>2, <2>3, Weights
<1> DEFINE lowFee == Fee(plain)
           top == Fee(Ceil(high))
           base == Fee(Ceil(low))
           highFee == Fee(high)
<1>6. base \in Int /\ top \in Int /\ lowFee \in Int /\ highFee \in Int
      /\ lowFee <= base /\ base <= top /\ highFee <= top
  <2> HIDE DEF low, high, plain, extra
  <2> DEFINE a == Ceil(low)
             b == Ceil(high)
  <2>1. a \in Int /\ plain <= a
    <3>1. a \in Int /\ low <= a
      BY <1>5, CeilIs
    <3> HIDE DEF a
    <3> QED
      BY <1>4, <1>5, <3>1
  <2>5. b \in Int /\ high <= b
    BY <1>5, CeilIs
  <2>6. a <= b
    BY <1>5, CeilFacts
  <2> HIDE DEF a, b
  <2>2. Fee(plain) \in Int /\ Fee(a) \in Int /\ Fee(plain) <= Fee(a)
    <3>1. plain \in Int
      BY <1>4
    <3> QED
      BY <2>1, <3>1, FeeIs
  <2>3. Fee(high) \in Int /\ Fee(b) \in Int /\ Fee(high) <= Fee(b)
    <3>1. high \in Int
      BY <1>5
    <3> QED
      BY <2>5, <3>1, FeeIs
  <2>4. Fee(a) <= Fee(b)
    BY <2>1, <2>5, <2>6, FeeIs
  <2> QED
    BY <2>2, <2>3, <2>4 DEF a, b
<1>7. /\ change => fee = top
      /\ ~change => fee = base
  <2>1. change \in BOOLEAN
    BY DEF NeedsChange
  <2>2. CASE change
    <3>1. change = TRUE
      BY <2>1, <2>2
    <3> QED
      BY <2>2, <3>1
  <2>3. CASE ~change
    <3>1. change = FALSE
      BY <2>1, <2>3
    <3> QED
      BY <2>3, <3>1
  <2> QED
    BY <2>2, <2>3
<1>8. change <=> value - actualTarget > given
  BY DEF NeedsChange
<1>9. given \in Nat
  <2>1. p.utxos \subseteq Pickable
    BY <1>1, <1>3
  <2> HIDE DEF p
  <2> QED
    BY <2>1, SizeTypes
<1>10. LostOf(n, FALSE) = extra /\ LostOf(n, TRUE) = 0
  BY DEF LostOf
<1>11. actualTarget \in Nat
  BY TargetIs
<1>12. p.utxos = U /\ p.fee = fee /\ p.needChangeoutput = change
  BY <1>3
<1> HIDE DEF value, change, fee, p, total, given
<1>13. total - amount >= Fee(Size(p, FALSE) - LostOf(Cardinality(p.utxos), FALSE))
  <2>1. Size(p, FALSE) = low
    BY <1>12 DEF Size
  <2>2. LostOf(Cardinality(p.utxos), FALSE) = extra
    BY <1>10, <1>12
  <2> HIDE DEF low, plain, extra
  <2>3. low - extra = plain
    BY <1>4, <1>5
  <2>4. total - amount = value - actualTarget + lowFee /\ lowFee \in Int /\ total \in Nat
    BY <1>4
  <2>5. total - amount >= lowFee
    <3> HIDE DEF lowFee
    <3> QED
      BY <1>2, <1>11, <2>4
  <2> QED
    BY <2>1, <2>2, <2>3, <2>5
<1>14. p.fee \in Int /\ p.fee <= Fee(Ceil(Size(p, TRUE))) + given
  <2>1. Size(p, TRUE) = high
    BY <1>12 DEF Size
  <2> HIDE DEF low, high, plain, base, top
  <2>2. p.fee \in Int /\ p.fee <= top + given
    BY <1>6, <1>7, <1>9, <1>12
  <2> QED
    BY <2>1, <2>2 DEF top
<1>15. ASSUME p.needChangeoutput
       PROVE  p.fee >= Fee(Size(p, TRUE) - LostOf(Cardinality(p.utxos), TRUE))
  <2>1. Size(p, TRUE) = high
    BY <1>12 DEF Size
  <2>2. LostOf(Cardinality(p.utxos), TRUE) = 0
    BY <1>10, <1>12
  <2> HIDE DEF high
  <2>3. high - 0 = high
    BY <1>5
  <2>4. p.fee = top /\ highFee <= top
    BY <1>6, <1>7, <1>12, <1>15
  <2> HIDE DEF top
  <2> QED
    BY <1>6, <2>1, <2>2, <2>3, <2>4
<1>16. ASSUME ~p.needChangeoutput
       PROVE  total - amount <= Fee(Ceil(Size(p, TRUE))) + given
  <2>1. Size(p, TRUE) = high
    BY <1>12 DEF Size
  <2> HIDE DEF low, high, plain, base, top, lowFee
  <2>2. value - actualTarget <= given
    BY <1>2, <1>8, <1>9, <1>11, <1>12, <1>16
  <2>3. total - amount = value - actualTarget + lowFee
    BY <1>4 DEF lowFee
  <2>4. total - amount <= top + given
    BY <1>2, <1>4, <1>6, <1>9, <1>11, <2>2, <2>3
  <2> QED
    BY <2>1, <2>4 DEF top
<1>17. Pays(p)
  BY <1>1, <1>12, <1>13, <1>14, <1>15, <1>16 DEF Pays, total, given
<1> QED
  BY <1>17 DEF p

(***************************************************************************)
(* Steps.                                                                  *)
(***************************************************************************)

\* What a request determines stays.
LEMMA Frame ==
  ASSUME UNCHANGED <<request, amount>>
  PROVE  /\ effectiveUtxos' = effectiveUtxos /\ effectiveValues' = effectiveValues
         /\ actualTarget' = actualTarget
         /\ \A n, v : Waste(n, v)' = Waste(n, v)
         /\ \A v : NeedsChange(v)' = NeedsChange(v)
         /\ \A S : Worth(S)' = Worth(S)
         /\ \A s : Picks(s)' = Picks(s)
         /\ \A s : IsSelection(s)' = IsSelection(s)
<1>1. request' = request /\ amount' = amount
  OBVIOUS
<1>2. Outputs' = Outputs /\ \A x : Fee(x)' = Fee(x)
  BY <1>1 DEF Outputs, Fee
<1>3. \A n, o, c : maxTxSize(n, o, c)' = maxTxSize(n, o, c)
  BY <1>1 DEF maxTxSize
<1>4. fixedSize' = fixedSize /\ oneInputSize' = oneInputSize
  BY <1>3 DEF fixedSize, oneInputSize
<1>5. oneOutputSize' = oneOutputSize
  BY <1>2, <1>3, <1>4 DEF oneOutputSize, OutputSize
<1>6. Utxos' = Utxos /\ Pickable' = Pickable
  BY <1>1 DEF Utxos, Pickable
<1>7. values' = values
  BY <1>1, <1>6 DEF values
<1>8. effectiveValues' = effectiveValues
  BY <1>2, <1>4, <1>6, <1>7 DEF effectiveValues
<1>9. effectiveUtxos' = effectiveUtxos
  BY <1>6, <1>8 DEF effectiveUtxos
<1>10. actualTarget' = actualTarget
  BY <1>1, <1>2, <1>4, <1>5 DEF actualTarget
<1>11. \A v : NeedsChange(v)' = NeedsChange(v)
  BY <1>2, <1>5, <1>10 DEF NeedsChange
<1>12. \A n, v : Waste(n, v)' = Waste(n, v)
  BY <1>2, <1>3, <1>10, <1>11 DEF Waste
<1>13. \A S : Worth(S)' = Worth(S)
  BY <1>8 DEF Worth
<1>14. /\ \A s : Picks(s)' = Picks(s)
       /\ \A s : IsSelection(s)' = IsSelection(s)
  BY <1>9 DEF Picks, IsSelection
<1> QED
  BY <1>8, <1>9, <1>10, <1>11, <1>12, <1>13, <1>14

LEMMA FitsFrame ==
  ASSUME UNCHANGED <<request, amount, best>>, NEW STATE t, Fits(t), tx' = t
  PROVE  Fits(tx)'
<1>1. request' = request /\ amount' = amount /\ best' = best
  OBVIOUS
<1>2. Outputs' = Outputs /\ (\A x : Fee(x)' = Fee(x)) /\ values' = values
  BY <1>1 DEF Outputs, Fee, values, Utxos
<1>3. \A n, o, c : maxTxSize(n, o, c)' = maxTxSize(n, o, c)
  BY <1>1 DEF maxTxSize
<1>4. fixedSize' = fixedSize
  BY <1>3 DEF fixedSize
<1>5. oneOutputSize' = oneOutputSize
  BY <1>2, <1>3, <1>4 DEF oneOutputSize, OutputSize
<1>6. \A n, c : LostOf(n, c)' = LostOf(n, c)
  BY <1>1, <1>2, <1>4 DEF LostOf, Chg, Out
<1>7. \A x : computeDustAmount(x)' = computeDustAmount(x)
  BY <1>1 DEF computeDustAmount
<1>8. \A S : Total(S)' = Total(S)
  BY <1>2 DEF Total
<1> QED
  BY <1>1, <1>2, <1>3, <1>5, <1>6, <1>7, <1>8 DEF Fits

LEMMA AppendIs ==
  ASSUME NEW u \in Seq(BOOLEAN), NEW b \in BOOLEAN
  PROVE  /\ Append(u, b) \in Seq(BOOLEAN) /\ Len(Append(u, b)) = Len(u) + 1
         /\ Append(u, b)[Len(u) + 1] = b
         /\ \A i \in 1..Len(u) : Append(u, b)[i] = u[i]
OBVIOUS

LEMMA GreatestOf ==
  ASSUME NEW n \in Nat, NEW S \in SUBSET (1..n), S # {}
  PROVE  Max(S) \in S /\ \A m \in S : m <= Max(S)
<1> DEFINE T == {n - m : m \in S}
<1>1. T \in SUBSET Nat /\ T # {}
  OBVIOUS
<1>2. PICK t \in T : \A m \in T : t <= m
  BY <1>1, LeastOf
<1>3. PICK x \in S : t = n - x
  BY <1>2
<1>4. \A m \in S : x >= m
  <2> SUFFICES ASSUME NEW m \in S PROVE x >= m
    OBVIOUS
  <2>1. n - x <= n - m /\ m \in Int /\ x \in Int
    BY <1>2, <1>3
  <2> QED
    BY <2>1
<1> DEFINE max == CHOOSE y \in S : \A m \in S : y >= m
<1>5. max \in S /\ \A m \in S : max >= m
  BY <1>3, <1>4
<1>6. Max(S) = max
  BY DEF Max
<1> HIDE DEF max
<1> QED
  BY <1>5, <1>6

\* The place of the last TRUE of a selection.
LEMMA LastChosen ==
  ASSUME NEW s \in Seq(BOOLEAN)
  PROVE  LET k == SelectLastInSeq(s, LAMBDA b : b)
         IN  IF k = 0 THEN Chosen(s) = {}
             ELSE /\ k \in Chosen(s) /\ k \in 1..Len(s)
                  /\ \A j \in Chosen(s) : j <= k
<1> DEFINE I == {i \in 1..Len(s) : s[i]}
<1>1. Len(s) \in Nat /\ I = Chosen(s) /\ I \in SUBSET (1..Len(s))
  BY DEF Chosen
<1>2. SelectLastInSeq(s, LAMBDA b : b) = IF I # {} THEN Max(I) ELSE 0
  BY DEF SelectLastInSeq
<1> HIDE DEF I
<1>3. CASE I = {}
  BY <1>1, <1>2, <1>3
<1>4. CASE I # {}
  <2>1. Max(I) \in I /\ \A m \in I : m <= Max(I)
    BY <1>1, <1>4, GreatestOf
  <2>2. Max(I) \in 1..Len(s) /\ Max(I) # 0
    BY <1>1, <2>1
  <2> QED
    BY <1>1, <1>2, <1>4, <2>1, <2>2
<1> QED
  BY <1>3, <1>4

LEMMA WorthAdds ==
  ASSUME request \in Requests, NEW K \in SUBSET (1..Len(effectiveUtxos)),
         NEW k \in 1..Len(effectiveUtxos), k \notin K
  PROVE  /\ effectiveUtxos[k] \in Effective
         /\ effectiveValues[effectiveUtxos[k]] \in Int
         /\ effectiveValues[effectiveUtxos[k]] > 0
         /\ Worth(Image(effectiveUtxos, K \cup {k}))
              = Worth(Image(effectiveUtxos, K)) + effectiveValues[effectiveUtxos[k]]
<1> DEFINE n == Len(effectiveValues)
<1>1. n \in Nat /\ effectiveValues \in Seq(Int) /\ Utxos = 1..n
  BY MoneyFacts
<1>2. IsOrder(effectiveUtxos, Effective) /\ Effective \in SUBSET (1..n)
  BY <1>1, EffectiveOrder
<1>3. effectiveUtxos[k] \in Effective
  BY <1>2 DEF IsOrder
<1>4. Worth(Image(effectiveUtxos, K \cup {k}))
        = Worth(Image(effectiveUtxos, K)) + effectiveValues[effectiveUtxos[k]]
  <2>1. n = Len(effectiveValues)
    OBVIOUS
  <2> HIDE DEF n
  <2>2. SumOver(effectiveValues, Image(effectiveUtxos, K \cup {k}))
          = SumOver(effectiveValues, Image(effectiveUtxos, K)) + effectiveValues[effectiveUtxos[k]]
    <3> DEFINE x == effectiveUtxos[k]
               A == Image(effectiveUtxos, K)
               B == Image(effectiveUtxos, K \cup {k})
    <3>1. B = A \cup {x}
      BY DEF Image
    <3>2. x \notin A /\ x \in 1..Len(effectiveValues)
      BY <1>2, <1>3, <2>1 DEF IsOrder, Image
    <3> HIDE DEF x, A, B
    <3>3. SumOver(effectiveValues, A \cup {x}) = SumOver(effectiveValues, A) + effectiveValues[x]
      BY <1>1, <3>2, SumAdd
    <3> QED
      BY <3>1, <3>3 DEF x, A, B
  <2> QED
    BY <2>2 DEF Worth
<1>5. effectiveUtxos[k] \in 1..n
  BY <1>2, <1>3
<1>6. effectiveValues[effectiveUtxos[k]] \in Int
  BY <1>1, <1>5
<1> QED
  BY <1>3, <1>4, <1>6 DEF Effective

LEMMA MoreChosen ==
  ASSUME request \in Requests, NEW s, IsSelection(s), Len(s) < Len(effectiveUtxos)
  PROVE  /\ IsSelection(Append(s, TRUE)) /\ Len(Append(s, TRUE)) = Len(s) + 1
         /\ Chosen(Append(s, TRUE)) = Chosen(s) \cup {Len(s) + 1}
         /\ Worth(Picks(Append(s, TRUE)))
              = Worth(Picks(s)) + effectiveValues[effectiveUtxos[Len(s) + 1]]
<1> DEFINE t == Append(s, TRUE)
           k == Len(s) + 1
<1>1. s \in Seq(BOOLEAN) /\ Len(s) \in Nat /\ Len(effectiveUtxos) \in Nat
  BY EffectiveOrder DEF IsSelection
<1>2. t \in Seq(BOOLEAN) /\ Len(t) = k /\ t[k] = TRUE /\ \A i \in 1..Len(s) : t[i] = s[i]
  BY <1>1
<1>3. Chosen(t) = Chosen(s) \cup {k}
  BY <1>1, <1>2 DEF Chosen
<1>4. k \in 1..Len(effectiveUtxos) /\ k \notin Chosen(s)
      /\ Chosen(s) \in SUBSET (1..Len(effectiveUtxos))
  BY <1>1 DEF Chosen
<1>5. Worth(Picks(t)) = Worth(Picks(s)) + effectiveValues[effectiveUtxos[k]]
  BY <1>3, <1>4, WorthAdds DEF Picks
<1>6. IsSelection(t)
  BY <1>1, <1>2 DEF IsSelection
<1> QED
  BY <1>2, <1>3, <1>5, <1>6

LEMMA LastDropped ==
  ASSUME request \in Requests, NEW s, IsSelection(s), NEW k \in Chosen(s), k \in 1..Len(s),
         \A j \in Chosen(s) : j <= k
  PROVE  LET t == Append(SubSeq(s, 1, k - 1), FALSE)
         IN  /\ IsSelection(t) /\ Len(t) = k /\ t[k] = FALSE
             /\ \A i \in 1..(k - 1) : t[i] = s[i]
             /\ Chosen(t) = Chosen(s) \ {k}
             /\ Worth(Picks(s)) = Worth(Picks(t)) + effectiveValues[effectiveUtxos[k]]
             /\ Worth(Picks(t)) \in Int /\ effectiveValues[effectiveUtxos[k]] \in Int
<1> DEFINE u == SubSeq(s, 1, k - 1)
           t == Append(u, FALSE)
<1>1. s \in Seq(BOOLEAN) /\ Len(s) \in Nat /\ Len(effectiveUtxos) \in Nat
      /\ Len(s) <= Len(effectiveUtxos)
  BY EffectiveOrder DEF IsSelection
<1>2. u \in Seq(BOOLEAN) /\ Len(u) = k - 1 /\ \A i \in 1..(k - 1) : u[i] = s[i]
  BY <1>1
<1> HIDE DEF u
<1>3. t \in Seq(BOOLEAN) /\ Len(t) = k /\ t[k] = FALSE /\ \A i \in 1..(k - 1) : t[i] = s[i]
  <2>1. k - 1 \in Nat
    BY <1>1
  <2>2. t \in Seq(BOOLEAN) /\ Len(t) = Len(u) + 1 /\ t[Len(u) + 1] = FALSE
        /\ \A i \in 1..Len(u) : t[i] = u[i]
    BY <1>2, AppendIs
  <2>3. k - 1 + 1 = k
    BY <1>1
  <2> HIDE DEF t
  <2> QED
    BY <1>2, <2>2, <2>3
<1> HIDE DEF t
<1>4. Chosen(t) = Chosen(s) \ {k}
  BY <1>1, <1>3 DEF Chosen
<1>5. k \in 1..Len(effectiveUtxos) /\ k \notin Chosen(t)
      /\ Chosen(t) \in SUBSET (1..Len(effectiveUtxos)) /\ Chosen(s) = Chosen(t) \cup {k}
  BY <1>1, <1>4 DEF Chosen
<1>6. Worth(Picks(s)) = Worth(Picks(t)) + effectiveValues[effectiveUtxos[k]]
      /\ effectiveValues[effectiveUtxos[k]] \in Int
  BY <1>5, WorthAdds DEF Picks
<1>7. IsSelection(t)
  BY <1>1, <1>3 DEF IsSelection
<1>8. Worth(Picks(t)) \in Int
  BY <1>7, SelectionFacts
<1> QED
  BY <1>3, <1>4, <1>6, <1>7, <1>8 DEF t, u

(***************************************************************************)
(* The fee.                                                                *)
(***************************************************************************)

\* Holds at every step; the selection of the search and its value belong together.
Inv ==
  /\ request \in Requests /\ amount \in Nat /\ tries \in Nat
  /\ phase \in {"build", "search", "found", "sent", "refused"}
  /\ request.strategy # "CoinSelect" =>
       best.selection = <<>> /\ phase \notin {"search", "found"}
  /\ IsSelection(currentSelection) /\ currentValue = Worth(Picks(currentSelection))
  /\ BestKnown
  /\ phase = "sent" => Fits(tx)

LEMMA NothingChosen ==
  ASSUME request \in Requests
  PROVE  IsSelection(<<>>) /\ Chosen(<<>>) = {} /\ Worth(Picks(<<>>)) = 0
<1>1. effectiveValues \in Seq(Int) /\ Len(effectiveUtxos) \in Nat
  BY MoneyFacts, EffectiveOrder
<1>2. IsSelection(<<>>) /\ Chosen(<<>>) = {}
  BY <1>1 DEF IsSelection, Chosen
<1>3. Picks(<<>>) = {}
  BY <1>2 DEF Picks, Image
<1>4. SumOver(effectiveValues, {}) = 0
  BY <1>1, SumEmpty
<1> QED
  BY <1>2, <1>3, <1>4 DEF Worth

LEMMA InitInv ==
  ASSUME Init
  PROVE  Inv
<1>1. request \in Requests /\ phase = "build" /\ tries = 0 /\ best.selection = <<>>
      /\ currentSelection = <<>> /\ currentValue = 0
  BY DEF Init
<1>2. amount \in Nat
  <2>1. estimateAccountMaxSpendable \in Nat
    BY <1>1, EstimateFacts
  <2>2. request.amount = UseAll \/ request.amount \in Nat
    BY <1>1, RequestIs
  <2>3. amount = IF request.amount = UseAll THEN estimateAccountMaxSpendable
                 ELSE request.amount * 4
    BY DEF Init
  <2> QED
    BY <2>1, <2>2, <2>3
<1>3. IsSelection(currentSelection) /\ currentValue = Worth(Picks(currentSelection))
      /\ BestKnown
  BY <1>1, NothingChosen DEF BestKnown
<1> QED
  BY <1>1, <1>2, <1>3 DEF Inv

\* What the steps leave of the invariant.
LEMMA Kept ==
  ASSUME Inv, UNCHANGED <<request, amount>>
  PROVE  /\ UNCHANGED <<currentSelection, currentValue>> =>
              /\ IsSelection(currentSelection)'
              /\ currentValue' = Worth(Picks(currentSelection))'
         /\ UNCHANGED best => BestKnown'
<1>1. /\ IsSelection(currentSelection) /\ currentValue = Worth(Picks(currentSelection))
      /\ BestKnown
  BY DEF Inv
<1>2. ASSUME UNCHANGED <<currentSelection, currentValue>>
      PROVE  /\ IsSelection(currentSelection)'
             /\ currentValue' = Worth(Picks(currentSelection))'
  BY <1>1, <1>2, Frame DEF IsSelection, Picks, Worth, Chosen
<1>3. ASSUME UNCHANGED best PROVE BestKnown'
  BY <1>1, <1>3, Frame DEF BestKnown, IsSelection, Picks, Worth
<1> QED
  BY <1>2, <1>3

\* What the search counts as better reaches the target.
LEMMA BetterKnown ==
  ASSUME Inv
  PROVE  /\ Better \in {best, [selection |-> currentSelection,
                               waste |-> Waste(Cardinality(Chosen(currentSelection)), currentValue),
                               change |-> NeedsChange(currentValue)]}
         /\ Better # best => currentValue >= actualTarget
BY DEF Better, Reached

LEMMA AnswerInv ==
  ASSUME Inv, NEW STATE p, Answer(p), p # NotEnoughBalance => Pays(p)
  PROVE  Inv'
<1>1. request \in Requests /\ amount \in Nat /\ tries \in Nat
      /\ UNCHANGED <<request, amount, currentSelection, currentValue, best, tries>>
      /\ phase' \in {"sent", "refused"}
  BY DEF Inv, Answer, search
<1>2. IsSelection(currentSelection)' /\ currentValue' = Worth(Picks(currentSelection))'
      /\ BestKnown'
  BY <1>1, Kept
<1>3. ASSUME phase' = "sent" PROVE Fits(tx)'
  <2>1. p # NotEnoughBalance /\ tx' = Built(p)
    BY <1>3 DEF Answer
  <2>2. Fits(Built(p))
    BY <1>1, <2>1, BuiltFits
  <2> QED
    BY <1>1, <2>1, <2>2, FitsFrame
<1>4. (request.strategy # "CoinSelect" =>
         best.selection = <<>> /\ phase \notin {"search", "found"})'
  BY <1>1 DEF Inv
<1> QED
  BY <1>1, <1>2, <1>3, <1>4 DEF Inv

LEMMA PickInOrderInv ==
  ASSUME Inv, PickInOrder
  PROVE  Inv'
<1>1. request \in Requests /\ amount \in Nat
      /\ (request.strategy # "CoinSelect" => best.selection = <<>>)
  BY DEF Inv
<1>2. CASE request.strategy = "DeepFirst" /\ Answer(DeepFirst)
  <2>1. DeepFirst # NotEnoughBalance => Pays(DeepFirst)
    BY <1>1, <1>2, OrdersAre, TakePays DEF DeepFirst
  <2> QED
    BY <1>2, <2>1, AnswerInv
<1>3. CASE request.strategy = "Merge" /\ Answer(Merge)
  <2>1. Merge # NotEnoughBalance => Pays(Merge)
    BY <1>1, <1>3, OrdersAre, TakePays DEF Merge
  <2> QED
    BY <1>3, <2>1, AnswerInv
<1> QED
  BY <1>2, <1>3 DEF PickInOrder

LEMMA SearchBeginsInv ==
  ASSUME Inv, SearchBegins
  PROVE  Inv'
<1>1. CASE Worth(ToSet(effectiveUtxos)) < actualTarget
  <2>1. Answer(NotEnoughBalance)
    BY <1>1 DEF SearchBegins
  <2> QED
    BY <2>1, AnswerInv
<1>2. CASE ~(Worth(ToSet(effectiveUtxos)) < actualTarget)
  <2>1. phase' = "search" /\ request.strategy = "CoinSelect"
        /\ UNCHANGED <<request, amount, currentSelection, currentValue, best, tries, tx>>
    BY <1>2 DEF SearchBegins, search
  <2>2. IsSelection(currentSelection)' /\ currentValue' = Worth(Picks(currentSelection))'
        /\ BestKnown'
    BY <2>1, Kept
  <2> QED
    BY <2>1, <2>2 DEF Inv
<1> QED
  BY <1>1, <1>2

LEMMA ForwardInv ==
  ASSUME Inv, Forward
  PROVE  Inv'
<1>1. /\ request \in Requests /\ amount \in Nat /\ tries \in Nat /\ tries' = tries + 1
      /\ IsSelection(currentSelection) /\ currentValue = Worth(Picks(currentSelection))
      /\ Len(currentSelection) < Len(effectiveUtxos)
      /\ currentSelection' = Append(currentSelection, TRUE)
      /\ currentValue' = currentValue + effectiveValues[effectiveUtxos[Len(currentSelection')]]
      /\ UNCHANGED <<request, amount, phase, best, tx>> /\ phase = "search"
  BY DEF Inv, Forward, Searching
<1>2. BestKnown'
  BY <1>1, Kept
<1> DEFINE s == Append(currentSelection, TRUE)
<1>3. IsSelection(s) /\ Len(s) = Len(currentSelection) + 1
      /\ Worth(Picks(s)) = Worth(Picks(currentSelection))
                             + effectiveValues[effectiveUtxos[Len(currentSelection) + 1]]
  BY <1>1, MoreChosen
<1>4. currentSelection' = s /\ currentValue' = Worth(Picks(s))
  BY <1>1, <1>3
<1> HIDE DEF s
<1>5. IsSelection(currentSelection)' /\ currentValue' = Worth(Picks(currentSelection))'
  BY <1>1, <1>3, <1>4, Frame DEF IsSelection, Picks, Worth, Chosen
<1>6. request.strategy = "CoinSelect" /\ phase' = "search" /\ tries' \in Nat
  BY <1>1 DEF Inv
<1> QED
  BY <1>1, <1>2, <1>5, <1>6 DEF Inv

LEMMA BacktrackInv ==
  ASSUME Inv, Backtrack
  PROVE  Inv'
<1> DEFINE k == SelectLastInSeq(currentSelection, LAMBDA b : b)
           s == currentSelection
           t == Append(SubSeq(s, 1, k - 1), FALSE)
<1>1. /\ request \in Requests /\ amount \in Nat /\ tries \in Nat /\ tries' = tries + 1
      /\ IsSelection(s) /\ currentValue = Worth(Picks(s)) /\ BestKnown
      /\ best' = Better /\ UNCHANGED <<request, amount, tx>> /\ phase = "search"
      /\ request.strategy = "CoinSelect"
  BY DEF Inv, Backtrack, Searching
<1>2. IF k = 0
      THEN currentSelection' = <<>> /\ phase' = "found" /\ UNCHANGED currentValue
      ELSE /\ currentSelection' = t
           /\ currentValue' = currentValue - effectiveValues[effectiveUtxos[k]]
           /\ UNCHANGED phase
  BY DEF Backtrack
<1>3. IF k = 0 THEN Chosen(s) = {}
      ELSE k \in Chosen(s) /\ k \in 1..Len(s) /\ \A j \in Chosen(s) : j <= k
  BY <1>1, LastChosen DEF IsSelection
<1> HIDE DEF k
<1>4. phase' \in {"search", "found"} /\ IsSelection(currentSelection')
      /\ currentValue' = Worth(Picks(currentSelection'))
  <2>1. CASE k = 0
    <3>1. Picks(s) = Picks(<<>>)
      BY <1>1, <1>3, <2>1, NothingChosen DEF Picks
    <3> QED
      BY <1>1, <1>2, <2>1, <3>1, NothingChosen
  <2>2. CASE k # 0
    <3>1. /\ IsSelection(t) /\ Worth(Picks(t)) \in Int
          /\ effectiveValues[effectiveUtxos[k]] \in Int
          /\ Worth(Picks(s)) = Worth(Picks(t)) + effectiveValues[effectiveUtxos[k]]
      BY <1>1, <1>3, <2>2, LastDropped
    <3> HIDE DEF t
    <3> QED
      BY <1>1, <1>2, <2>2, <3>1
  <2> QED
    BY <2>1, <2>2
<1>5. IsSelection(currentSelection)' /\ currentValue' = Worth(Picks(currentSelection))'
  BY <1>1, <1>4, Frame DEF IsSelection, Picks, Worth, Chosen
<1>6. BestKnown'
  <2>1. CASE Better = best
    BY <1>1, <2>1, Kept
  <2>2. CASE Better # best
    <3> DEFINE U == Picks(s)
    <3>1. best' = [selection |-> s, waste |-> Waste(Cardinality(Chosen(s)), currentValue),
                   change |-> NeedsChange(currentValue)]
          /\ currentValue >= actualTarget
      BY <1>1, <2>2, BetterKnown
    <3>2. Cardinality(Chosen(s)) = Cardinality(U)
      BY <1>1, SelectionFacts
    <3>3. /\ best'.selection = s /\ Worth(U) >= actualTarget
          /\ best'.waste = Waste(Cardinality(U), Worth(U)) /\ best'.change = NeedsChange(Worth(U))
      BY <1>1, <3>1, <3>2
    <3> QED
      BY <1>1, <3>3, Frame DEF BestKnown, IsSelection, Picks, Worth, Chosen
  <2> QED
    BY <2>1, <2>2
<1> QED
  BY <1>1, <1>4, <1>5, <1>6 DEF Inv

LEMMA SearchEndsInv ==
  ASSUME Inv, SearchEnds
  PROVE  Inv'
<1>1. request \in Requests /\ amount \in Nat /\ BestKnown /\ request.strategy = "CoinSelect"
      /\ Answer(CoinSelected)
  BY DEF Inv, SearchEnds
<1>2. CASE best.selection = <<>>
  <2>1. CoinSelected = DeepFirst
    BY <1>2 DEF CoinSelected
  <2>2. CoinSelected # NotEnoughBalance => Pays(CoinSelected)
    BY <1>1, <1>2, <2>1, OrdersAre, TakePays DEF DeepFirst
  <2> QED
    BY <1>1, <2>2, AnswerInv
<1>3. CASE best.selection # <<>>
  <2>1. Pays(CoinSelected)
    BY <1>1, <1>3, CoinSelectPays
  <2> QED
    BY <1>1, <2>1, AnswerInv
<1> QED
  BY <1>2, <1>3

LEMMA StepInv ==
  ASSUME Inv, [Next]_vars
  PROVE  Inv'
<1>1. CASE SearchStops
  <2>1. UNCHANGED <<request, amount, currentSelection, currentValue, best, tries, tx>>
        /\ phase = "search" /\ phase' = "found"
    BY <1>1 DEF SearchStops, search
  <2>2. IsSelection(currentSelection)' /\ currentValue' = Worth(Picks(currentSelection))'
        /\ BestKnown'
    BY <2>1, Kept
  <2> QED
    BY <2>1, <2>2 DEF Inv
<1>2. CASE UNCHANGED vars
  <2>1. UNCHANGED <<request, amount, phase, currentSelection, currentValue, best, tries, tx>>
    BY <1>2 DEF vars, search
  <2>2. IsSelection(currentSelection)' /\ currentValue' = Worth(Picks(currentSelection))'
        /\ BestKnown'
    BY <2>1, Kept
  <2>3. ASSUME phase = "sent" PROVE Fits(tx)'
    <3>1. Fits(tx) /\ tx' = tx
      BY <2>1, <2>3 DEF Inv
    <3> QED
      BY <2>1, <3>1, FitsFrame
  <2> QED
    BY <2>1, <2>2, <2>3 DEF Inv
<1> QED
  BY <1>1, <1>2, PickInOrderInv, SearchBeginsInv, ForwardInv, BacktrackInv, SearchEndsInv DEF Next

LEMMA Invariance == Spec => []Inv
<1> QED
  BY InitInv, StepInv, PTL DEF Spec

\* The fee of a transaction is that of its size at the rate asked for, with what is given up
\* for a change that is not worth it, whatever the outputs, the rate and the strategy.
THEOREM FeeTheorem == Spec => []FeeFits
<1>1. ASSUME Inv PROVE FeeFits
  <2> SUFFICES ASSUME phase = "sent" PROVE FeeFits
    BY DEF FeeFits
  <2>1. Fits(tx)
    BY <1>1 DEF Inv
  <2>2. Lost = LostOf(Cardinality(tx.inputs), tx.change > 0)
    BY DEF Lost, LostOf, Chg, Out
  <2> QED
    BY <2>1, <2>2 DEF Fits, FeeFits, TxSize
<1> QED
  BY <1>1, Invariance, PTL

(***************************************************************************)
(* What can be paid.                                                       *)
(***************************************************************************)

\* The amounts that MaxSpends is about.
Affordable ==
  /\ amount <= estimateAccountMaxSpendable
  /\ amount > 0 /\ amount <= OUTPUT_VALUE_MAX
  /\ request.strategy # "CoinSelect" => \A i \in Pickable \ Usable : effectiveValues[i] > 0

\* The usable outputs are worth an affordable amount, and so is a set W that counts all that
\* is worth something.
LEMMA WorthEnough ==
  ASSUME request \in Requests, amount \in Nat, amount <= estimateAccountMaxSpendable,
         amount > 0, amount <= OUTPUT_VALUE_MAX, NEW W \in SUBSET Utxos,
         \A i \in Usable \ W : effectiveValues[i] <= 0,
         \A i \in W \ Usable : effectiveValues[i] >= 0
  PROVE  Worth(W) >= actualTarget
<1> DEFINE c == Cardinality(Usable)
           s == maxTxSize(c, 1, FALSE)
           plain == Plain(c, 1)
           total == Total(Usable)
           value == Worth(Usable)
<1>1. Usable \in SUBSET Utxos
  BY MoneyFacts
<1>2. c \in Nat /\ total \in Nat /\ value \in Int /\ Worth(W) \in Int /\ actualTarget \in Nat
  BY <1>1, FiniteUtxos, TotalFacts, TargetIs
<1>3. Len(Outputs) = 1
  BY OutputsFacts
<1>4. /\ s \in Nat /\ plain \in Nat /\ plain <= s
      /\ total - amount = value - actualTarget + Fee(plain)
  <2>1. /\ Plain(c, Len(Outputs)) \in Nat
        /\ total - amount = value - actualTarget + Fee(Plain(c, Len(Outputs)))
    BY <1>1, PicksPay
  <2> DEFINE x == Counts(c)
             y == Counts(1)
  <2>2. s = plain + x + y /\ s \in Nat /\ x \in Nat /\ y \in Nat
    BY <1>2, SizeNoChange, CountsIs
  <2>3. plain \in Nat /\ total - amount = value - actualTarget + Fee(plain)
    BY <1>3, <2>1
  <2>4. plain <= s
    <3> HIDE DEF s, plain, x, y
    <3> QED
      BY <2>2, <2>3
  <2> QED
    BY <2>2, <2>3, <2>4
<1>5. amount <= total - Fee(Ceil(s))
  <2> DEFINE est == estimateAccountMaxSpendable
  <2>1. est \in Nat /\ (est > 0 => est = total - Fee(Ceil(s)))
    BY EstimateFacts
  <2>2. est > 0
    <3> HIDE DEF est
    <3> QED
      BY <2>1 DEF est
  <2> QED
    BY <2>1, <2>2
<1> HIDE DEF s, plain
<1>6. plain \in Int /\ Ceil(s) \in Int /\ plain <= Ceil(s)
  <2>1. Ceil(s) \in Int /\ s <= Ceil(s)
    BY <1>4, CeilIs
  <2> QED
    BY <1>4, <2>1
<1> DEFINE low == Fee(plain)
           high == Fee(Ceil(s))
<1>7. low <= high /\ low \in Int /\ high \in Int
  BY <1>6, FeeIs
<1> HIDE DEF low, high, total, value, c
<1>8. value >= actualTarget
  <2>1. total - amount = value - actualTarget + low /\ amount <= total - high
    BY <1>4, <1>5 DEF low, high
  <2> QED
    BY <1>2, <1>7, <2>1
<1>9. value <= Worth(W)
  <2> DEFINE e == effectiveValues
  <2>1. e \in Seq(Int) /\ \A i \in 1..Len(e) : e[i] \in Int
    BY MoneyFacts
  <2>2. Utxos = 1..Len(e)
    BY MoneyFacts
  <2>3. \A i \in 1..Len(e) : (IF i \in Usable THEN e[i] ELSE 0) <= (IF i \in W THEN e[i] ELSE 0)
    BY <2>1
  <2>4. SumOver(e, Usable) <= SumOver(e, W)
    <3> HIDE DEF e
    <3> QED
      BY <2>1, <2>3, SumCompare
  <2> QED
    BY <2>4 DEF Worth, value
<1> QED
  BY <1>2, <1>8, <1>9

LEMMA TakeFinds ==
  ASSUME request \in Requests, amount \in Nat, Affordable, request.strategy # "CoinSelect",
         NEW order, IsOrder(order, Pickable)
  PROVE  Take(order) # NotEnoughBalance
<1> DEFINE N == Len(order)
           o == Len(Outputs)
<1>1. N \in Nat /\ order \in Seq(Pickable) /\ ToSet(order) = Pickable
  BY DEF IsOrder
<1>2. Pickable \in SUBSET Utxos /\ Usable \subseteq Pickable
  BY MoneyFacts
<1>3. Worth(Pickable) >= actualTarget
  <2>1. \A i \in Pickable \ Usable : effectiveValues[i] >= 0
    <3>1. \A i \in Pickable \ Usable : effectiveValues[i] > 0 /\ effectiveValues[i] \in Int
      BY <1>2, MoneyFacts DEF Affordable
    <3> QED
      BY <3>1
  <2>2. \A i \in Usable \ Pickable : effectiveValues[i] <= 0
    BY <1>2
  <2> QED
    BY <1>2, <2>1, <2>2, WorthEnough DEF Affordable
<1>4. Image(order, 1..N) = Pickable /\ Cardinality(Pickable) = N
  BY <1>1 DEF Image, ToSet, IsOrder
<1>5. Enough(order, N)
  <2> DEFINE s == Plain(N, o)
             z == N * Short
             low == Fee(s - z)
             high == Fee(s)
             total == Total(Pickable)
             value == Worth(Pickable)
  <2>1. s \in Nat /\ total - amount = value - actualTarget + high
    BY <1>2, <1>4, PicksPay
  <2>2. z \in Nat /\ FeeOf(N) = low
    <3> DEFINE x == Counts(N)
               y == Counts(o)
               max == maxTxSize(N, o, FALSE)
    <3>1. o = 1
      BY OutputsFacts DEF Affordable
    <3>2. FeeOf(N) = Fee(max - (z + x))
      BY <1>1, FeeOfIs
    <3>3. z \in Nat
      <4>1. Short \in Nat
        BY ShortFacts
      <4> QED
        BY <1>1, <4>1
    <3>4. max = s + x + y /\ y = 0 /\ x \in Nat
      <4>1. o \in Nat /\ y = 0
        BY <3>1, CountsFacts
      <4> HIDE DEF o
      <4>2. max = s + x + y
        BY <1>1, <4>1, SizeNoChange
      <4>3. x \in Nat
        BY <1>1, CountsIs
      <4> QED
        BY <4>1, <4>2, <4>3
    <3> HIDE DEF max, s, x, y, z
    <3>5. max - (z + x) = s - z
      BY <2>1, <3>3, <3>4
    <3> QED
      BY <3>2, <3>3, <3>5
  <2>3. actualTarget \in Nat /\ total \in Nat /\ value \in Int
    BY <1>2, TargetIs, TotalFacts
  <2> HIDE DEF s, z
  <2>4. s - z \in Int /\ s \in Int /\ s - z <= s
    BY <2>1, <2>2
  <2>5. low \in Int /\ high \in Int /\ low <= high
    BY <2>4, FeeIs
  <2> HIDE DEF low, high, total
  <2>6. value >= actualTarget
    BY <1>3
  <2> HIDE DEF value
  <2>7. total >= amount + low
    BY <2>1, <2>3, <2>5, <2>6
  <2> QED
    BY <1>4, <2>2, <2>7 DEF Enough, total
<1>6. PICK n \in 0..N : Enough(order, n) /\ Take(order) = Taken(order, n)
  BY <1>1, <1>5, TakeIs
<1>7. n # 0
  <2> SUFFICES ASSUME n = 0 PROVE FALSE
    OBVIOUS
  <2>1. Image(order, 1..0) = {}
    BY DEF Image
  <2>2. Total({}) = 0
    BY MoneyFacts, SumEmpty DEF Total
  <2>3. FeeOf(0) \in Nat
    <3> DEFINE s == maxTxSize(0, o, FALSE)
               w == oneInputSize - Short
               x == Fee(s)
               y == Fee(w)
    <3>1. s \in Nat
      BY OutputsFacts, SizeNoChange
    <3>2. FeeOf(0) = x + 0 * y
      BY DEF FeeOf
    <3>3. w \in Int
      BY ShortFacts, Weights
    <3> HIDE DEF s, w
    <3>4. x \in Nat /\ y \in Int
      BY <3>1, <3>3, FeeType
    <3> HIDE DEF x, y
    <3> QED
      BY <3>2, <3>4
  <2>4. 0 >= amount + FeeOf(0)
    BY <1>6, <2>1, <2>2 DEF Enough
  <2>5. amount > 0
    BY DEF Affordable
  <2> DEFINE fee == FeeOf(0)
  <2>6. fee \in Nat /\ 0 >= amount + fee
    BY <2>3, <2>4
  <2> HIDE DEF fee
  <2> QED
    BY <2>5, <2>6
<1>8. order[1] \in Image(order, 1..n)
  BY <1>7 DEF Image
<1>9. Taken(order, n).utxos = Image(order, 1..n)
  BY DEF Taken
<1> QED
  BY <1>6, <1>8, <1>9 DEF NotEnoughBalance

\* Until something is found the search takes all the outputs one by one, and with more tries
\* than outputs it arrives at the target; what is affordable is not refused.
Reaching ==
  /\ phase = "build" => currentSelection = <<>> /\ tries = 0 /\ best.selection = <<>>
  /\ phase \in {"search", "found"} => Worth(Effective) >= actualTarget
  /\ phase = "search" /\ best.selection = <<>> /\ actualTarget > 0 =>
       Len(currentSelection) = tries /\ Chosen(currentSelection) = 1..tries
  /\ phase = "found" /\ actualTarget > 0 => best.selection # <<>>
  /\ phase = "refused" => ~Affordable

LEMMA InitReaching ==
  ASSUME Init
  PROVE  Reaching
BY DEF Init, Reaching

LEMMA ReachFrame ==
  ASSUME UNCHANGED <<request, amount>>
  PROVE  /\ Affordable' = Affordable
         /\ Worth(Effective)' = Worth(Effective)
<1>1. request' = request /\ amount' = amount
  OBVIOUS
<1>2. \A x : Fee(x)' = Fee(x)
  BY <1>1 DEF Fee
<1>3. \A n, o, c : maxTxSize(n, o, c)' = maxTxSize(n, o, c)
  BY <1>1 DEF maxTxSize
<1>4. values' = values /\ Pickable' = Pickable /\ Usable' = Usable
  BY <1>1 DEF values, Utxos, Pickable, Usable
<1>5. \A S : Total(S)' = Total(S)
  BY <1>4 DEF Total
<1>6. estimateAccountMaxSpendable' = estimateAccountMaxSpendable
  BY <1>2, <1>3, <1>4, <1>5 DEF estimateAccountMaxSpendable
<1>7. effectiveValues' = effectiveValues
  BY Frame
<1>8. Affordable' = Affordable
  BY <1>1, <1>4, <1>6, <1>7 DEF Affordable
<1>9. Worth(Effective)' = Worth(Effective)
  BY <1>4, <1>7 DEF Worth, Effective
<1> QED
  BY <1>8, <1>9

LEMMA FeeOfTarget ==
  ASSUME request \in Requests, amount \in Nat, Affordable
  PROVE  actualTarget > 0
<1> DEFINE s == Plain(0, Len(Outputs))
           fee == Fee(s)
<1>1. actualTarget = fee + amount /\ amount > 0
  BY TargetIs DEF Affordable
<1>2. s \in Nat
  BY OutputsFacts, PlainIs
<1> HIDE DEF s
<1>3. fee \in Nat
  BY <1>2, FeeType
<1> HIDE DEF fee
<1> QED
  BY <1>1, <1>3

\* All the outputs that are worth something reach an affordable amount.
LEMMA EffectiveEnough ==
  ASSUME request \in Requests, amount \in Nat, Affordable
  PROVE  Worth(Effective) >= actualTarget
<1>1. /\ Effective \in SUBSET Utxos /\ Usable \subseteq Pickable /\ Pickable \subseteq Utxos
      /\ \A i \in Utxos : effectiveValues[i] \in Int
  BY MoneyFacts DEF Effective
<1>2. \A i \in Usable \ Effective : effectiveValues[i] <= 0
  <2> SUFFICES ASSUME NEW i \in Usable \ Effective PROVE effectiveValues[i] <= 0
    OBVIOUS
  <2>1. i \in Pickable /\ effectiveValues[i] \in Int /\ ~(effectiveValues[i] > 0)
    BY <1>1 DEF Effective
  <2> QED
    BY <2>1
<1>3. \A i \in Effective \ Usable : effectiveValues[i] >= 0
  <2> SUFFICES ASSUME NEW i \in Effective \ Usable PROVE effectiveValues[i] >= 0
    OBVIOUS
  <2>1. effectiveValues[i] \in Int /\ effectiveValues[i] > 0
    BY <1>1 DEF Effective
  <2> QED
    BY <2>1
<1> QED
  BY <1>1, <1>2, <1>3, WorthEnough DEF Affordable

\* What reaches the target is not empty.
LEMMA SomeChosen ==
  ASSUME request \in Requests, amount \in Nat, actualTarget > 0, NEW s, IsSelection(s),
         Worth(Picks(s)) >= actualTarget
  PROVE  s # <<>> /\ Chosen(s) # {} /\ Picks(s) # {}
<1>1. Worth(Picks(<<>>)) = 0 /\ actualTarget \in Nat /\ Chosen(<<>>) = {}
  BY NothingChosen, TargetIs
<1>2. Picks(s) # Picks(<<>>)
  BY <1>1
<1>3. Chosen(s) # {}
  BY <1>1, <1>2 DEF Picks
<1>4. Picks(<<>>) = {}
  BY <1>1 DEF Picks, Image
<1> QED
  BY <1>1, <1>2, <1>3, <1>4

LEMMA AnswerReaching ==
  ASSUME Inv, Reaching, NEW STATE p, Answer(p), p = NotEnoughBalance => ~Affordable
  PROVE  Reaching'
<1>1. UNCHANGED <<request, amount>>
      /\ (phase' = "sent" \/ (phase' = "refused" /\ p = NotEnoughBalance))
  BY DEF Answer
<1>2. Affordable' = Affordable
  BY <1>1, ReachFrame
<1> QED
  BY <1>1, <1>2 DEF Reaching

LEMMA PickReaching ==
  ASSUME Inv, Reaching, PickInOrder
  PROVE  Reaching'
<1>1. request \in Requests /\ amount \in Nat
  BY DEF Inv
<1>2. CASE request.strategy = "DeepFirst" /\ Answer(DeepFirst)
  <2>1. DeepFirst = NotEnoughBalance => ~Affordable
    BY <1>1, <1>2, OrdersAre, TakeFinds DEF DeepFirst
  <2> QED
    BY <1>2, <2>1, AnswerReaching
<1>3. CASE request.strategy = "Merge" /\ Answer(Merge)
  <2>1. Merge = NotEnoughBalance => ~Affordable
    BY <1>1, <1>3, OrdersAre, TakeFinds DEF Merge
  <2> QED
    BY <1>3, <2>1, AnswerReaching
<1> QED
  BY <1>2, <1>3 DEF PickInOrder

LEMMA BeginsReaching ==
  ASSUME Inv, Reaching, SearchBegins
  PROVE  Reaching'
<1>1. request \in Requests /\ amount \in Nat /\ ToSet(effectiveUtxos) = Effective
      /\ Worth(Effective) \in Int /\ actualTarget \in Nat
  <2>1. request \in Requests /\ amount \in Nat
    BY DEF Inv
  <2>2. Effective \in SUBSET Utxos
    BY <2>1, EffectiveOrder
  <2> QED
    BY <2>1, <2>2, EffectiveOrder, TotalFacts, TargetIs
<1>2. CASE Worth(Effective) < actualTarget
  <2>1. Answer(NotEnoughBalance)
    BY <1>1, <1>2 DEF SearchBegins
  <2>2. ~Affordable
    <3> DEFINE value == Worth(Effective)
               target == actualTarget
    <3>1. Affordable => value >= target
      BY <1>1, EffectiveEnough
    <3>2. value \in Int /\ target \in Nat /\ value < target
      BY <1>1, <1>2
    <3> HIDE DEF value, target
    <3> QED
      BY <3>1, <3>2
  <2> QED
    BY <2>1, <2>2, AnswerReaching
<1>3. CASE ~(Worth(Effective) < actualTarget)
  <2>1. phase = "build" /\ phase' = "search"
        /\ UNCHANGED <<request, amount, currentSelection, currentValue, best, tries>>
    BY <1>1, <1>3 DEF SearchBegins, search
  <2>2. currentSelection = <<>> /\ tries = 0
    BY <2>1 DEF Reaching
  <2>3. Worth(Effective)' = Worth(Effective) /\ actualTarget' = actualTarget
    BY <2>1, ReachFrame, Frame
  <2>4. Worth(Effective) >= actualTarget
    BY <1>1, <1>3
  <2>5. Len(currentSelection)' = tries' /\ Chosen(currentSelection)' = 1..tries'
    BY <2>1, <2>2 DEF Chosen
  <2> QED
    BY <2>1, <2>3, <2>4, <2>5 DEF Reaching
<1> QED
  BY <1>2, <1>3

LEMMA ForwardReaching ==
  ASSUME Inv, Reaching, Forward
  PROVE  Reaching'
<1>1. /\ request \in Requests /\ tries \in Nat /\ tries' = tries + 1
      /\ IsSelection(currentSelection) /\ Len(currentSelection) < Len(effectiveUtxos)
      /\ currentSelection' = Append(currentSelection, TRUE)
      /\ UNCHANGED <<request, amount, phase, best>> /\ phase = "search"
  BY DEF Inv, Forward, Searching
<1>2. Worth(Effective)' = Worth(Effective) /\ actualTarget' = actualTarget
  BY <1>1, ReachFrame, Frame
<1> DEFINE s == currentSelection
           t == Append(s, TRUE)
<1>3. Len(t) = Len(s) + 1 /\ Chosen(t) = Chosen(s) \cup {Len(s) + 1}
  BY <1>1, MoreChosen
<1>4. Chosen(currentSelection)' = Chosen(t) /\ Len(currentSelection)' = Len(t)
  BY <1>1 DEF Chosen
<1> HIDE DEF t
<1>5. ASSUME Len(s) = tries, Chosen(s) = 1..tries
      PROVE  (Len(currentSelection) = tries /\ Chosen(currentSelection) = 1..tries)'
  <2>1. 1..(tries + 1) = (1..tries) \cup {tries + 1}
    BY <1>1
  <2> QED
    BY <1>1, <1>3, <1>4, <1>5, <2>1
<1> QED
  BY <1>1, <1>2, <1>5 DEF Reaching

LEMMA BacktrackReaching ==
  ASSUME Inv, Reaching, Backtrack
  PROVE  Reaching'
<1> DEFINE s == currentSelection
           N == Len(effectiveUtxos)
<1>1. /\ request \in Requests /\ amount \in Nat /\ IsSelection(s) /\ currentValue = Worth(Picks(s))
      /\ phase = "search" /\ phase' \in {"search", "found"} /\ best' = Better
      /\ UNCHANGED <<request, amount>>
      /\ (currentValue >= actualTarget \/ Len(s) >= N)
  BY DEF Inv, Backtrack, Searching, Reached
<1>2. Worth(Effective)' = Worth(Effective) /\ actualTarget' = actualTarget
  BY <1>1, ReachFrame, Frame
<1>3. Worth(Effective) >= actualTarget
  BY <1>1 DEF Reaching
<1>4. ASSUME actualTarget > 0 PROVE best'.selection # <<>>
  <2>1. CASE currentValue >= actualTarget
    <3>1. s # <<>>
      BY <1>1, <1>4, <2>1, SomeChosen
    <3> QED
      BY <1>1, <2>1, <3>1 DEF Better, Reached
  <2>2. CASE ~(currentValue >= actualTarget)
    <3>1. best' = best
      BY <1>1, <2>2 DEF Better, Reached
    <3>2. ASSUME best.selection = <<>> PROVE FALSE
      <4>1. Len(s) = tries /\ Chosen(s) = 1..tries
        BY <1>1, <1>4, <3>2 DEF Reaching
      <4>2. Len(s) = N /\ N \in Nat
        BY <1>1, <2>2, EffectiveOrder DEF IsSelection
      <4>3. Picks(s) = Effective
        <5>1. effectiveUtxos \in Seq(Effective) /\ ToSet(effectiveUtxos) = Effective
          BY <1>1, EffectiveOrder DEF IsOrder
        <5> QED
          BY <4>1, <4>2, <5>1 DEF Picks, Image, ToSet
      <4> QED
        BY <1>1, <1>3, <2>2, <4>3
    <3> QED
      BY <3>1, <3>2
  <2> QED
    BY <2>1, <2>2
<1>5. actualTarget' > 0 => best'.selection # <<>>
  BY <1>2, <1>4
<1> QED
  BY <1>1, <1>2, <1>3, <1>5 DEF Reaching

LEMMA StopsReaching ==
  ASSUME Inv, Reaching, SearchStops, request.TOTAL_TRIES > Len(request.utxos)
  PROVE  Reaching'
<1>1. /\ request \in Requests /\ IsSelection(currentSelection) /\ phase = "search"
      /\ phase' = "found" /\ tries = request.TOTAL_TRIES
      /\ UNCHANGED <<request, amount, currentSelection, best, tries>>
  BY DEF Inv, SearchStops, search
<1>2. Worth(Effective)' = Worth(Effective) /\ actualTarget' = actualTarget
  BY <1>1, ReachFrame, Frame
<1>3. Len(effectiveUtxos) <= Len(request.utxos)
  <2>1. IsOrder(effectiveUtxos, Effective) /\ Effective \subseteq Utxos
    BY <1>1, EffectiveOrder
  <2>2. Utxos = 1..Len(request.utxos) /\ Len(request.utxos) \in Nat
    BY <1>1, MoneyFacts
  <2>3. IsFiniteSet(Utxos) /\ Cardinality(Utxos) = Len(request.utxos)
    BY <2>2, FS_Interval
  <2>4. Cardinality(Effective) <= Cardinality(Utxos)
    BY <2>1, <2>3, FS_Subset
  <2> QED
    BY <2>1, <2>3, <2>4 DEF IsOrder
<1>4. Len(currentSelection) # tries
  <2>1. Len(currentSelection) <= Len(effectiveUtxos) /\ Len(currentSelection) \in Nat
        /\ Len(effectiveUtxos) \in Nat /\ Len(request.utxos) \in Nat
        /\ request.TOTAL_TRIES \in Nat
    BY <1>1, EffectiveOrder, MoneyFacts, RequestIs DEF IsSelection
  <2> QED
    BY <1>1, <1>3, <2>1
<1>5. actualTarget > 0 => best.selection # <<>>
  BY <1>1, <1>4 DEF Reaching
<1>6. Worth(Effective) >= actualTarget
  BY <1>1 DEF Reaching
<1> QED
  BY <1>1, <1>2, <1>5, <1>6 DEF Reaching

LEMMA EndsReaching ==
  ASSUME Inv, Reaching, SearchEnds
  PROVE  Reaching'
<1>1. request \in Requests /\ amount \in Nat /\ BestKnown /\ phase = "found"
      /\ Answer(CoinSelected)
  BY DEF Inv, SearchEnds
<1>2. ASSUME Affordable PROVE CoinSelected # NotEnoughBalance
  <2>1. best.selection # <<>> /\ actualTarget > 0
    BY <1>1, <1>2, FeeOfTarget DEF Reaching
  <2>2. Picks(best.selection) # {}
    BY <1>1, <2>1, SomeChosen DEF BestKnown
  <2>3. CoinSelected.utxos = Picks(best.selection)
    BY <2>1 DEF CoinSelected, Picks, Image
  <2> QED
    BY <2>2, <2>3 DEF NotEnoughBalance
<1> QED
  BY <1>1, <1>2, AnswerReaching

LEMMA StepReaching ==
  ASSUME Inv, Reaching, [Next]_vars,
         \A r \in Requests : r.strategy = "CoinSelect" => r.TOTAL_TRIES > Len(r.utxos)
  PROVE  Reaching'
<1>1. CASE SearchStops
  <2>1. request.strategy = "CoinSelect" /\ request \in Requests
    BY <1>1 DEF Inv, SearchStops
  <2> QED
    BY <1>1, <2>1, StopsReaching
<1>2. CASE UNCHANGED vars
  <2>1. UNCHANGED <<request, amount, phase, currentSelection, currentValue, best, tries, tx>>
    BY <1>2 DEF vars, search
  <2>2. Worth(Effective)' = Worth(Effective) /\ actualTarget' = actualTarget
        /\ Affordable' = Affordable
    BY <2>1, ReachFrame, Frame
  <2> QED
    BY <2>1, <2>2 DEF Reaching, Chosen
<1> QED
  BY <1>1, <1>2, PickReaching, BeginsReaching, ForwardReaching, BacktrackReaching, EndsReaching
     DEF Next

\* An amount up to the estimate is never refused, if the search may try more often than there
\* are outputs: the code's limit is 100000 tries.
THEOREM MaxTheorem ==
  ASSUME \A r \in Requests : r.strategy = "CoinSelect" => r.TOTAL_TRIES > Len(r.utxos)
  PROVE  Spec => []MaxSpends
<1>1. Init => Reaching
  BY InitReaching
<1>2. Inv /\ Reaching /\ [Next]_vars => Reaching'
  BY StepReaching
<1>3. Reaching => MaxSpends
  BY DEF Reaching, MaxSpends, Affordable
<1> QED
  BY <1>1, <1>2, <1>3, Invariance, PTL DEF Spec

(***************************************************************************)
(* The least waste.                                                        *)
(***************************************************************************)

\* The search has yet to come by the places K: it took what they take so far, or it took
\* more and will drop it.
Open(K, s) ==
  \/ K \cap (1..Len(s)) = Chosen(s)
  \/ \E m \in Chosen(s) : m \notin K /\ K \cap (1..(m - 1)) = Chosen(s) \cap (1..(m - 1))

At(K) == Image(effectiveUtxos, K)

\* What was found is as good as K.
Settled(K) == best.selection # <<>> /\ best.waste <= Waste(Cardinality(K), Worth(At(K)))

Searched ==
  /\ phase = "build" => currentSelection = <<>> /\ best.selection = <<>>
  /\ actualTarget = 0 /\ phase \in {"search", "found"} =>
       currentSelection = <<>> /\ best.selection = <<>>
  /\ actualTarget > 0 =>
       \A K \in SUBSET (1..Len(effectiveUtxos)) :
         Worth(At(K)) >= actualTarget =>
           /\ phase = "search" => Open(K, currentSelection) \/ Settled(K)
           /\ phase = "found" /\ tries < request.TOTAL_TRIES => Settled(K)

\* The waste with and without a change.
LEMMA WasteIs ==
  ASSUME request \in Requests, amount \in Nat, NEW n \in Nat, NEW v \in Int
  PROVE  Waste(n, v) \in Int
         /\ IF v - actualTarget > Fee(oneOutputSize)
            THEN Waste(n, v) = Fee(Ceil(maxTxSize(n, Len(Outputs), TRUE)))
            ELSE Waste(n, v) = Fee(Ceil(maxTxSize(n, Len(Outputs), FALSE))) + (v - actualTarget)
<1> DEFINE o == Len(Outputs)
           low == maxTxSize(n, o, FALSE)
           high == maxTxSize(n, o, TRUE)
           base == Fee(Ceil(low))
           top == Fee(Ceil(high))
           excess == v - actualTarget
           change == NeedsChange(v)
<1>1. o \in Nat /\ excess \in Int
  <2>1. o \in Nat /\ actualTarget \in Nat
    BY OutputsFacts, TargetIs
  <2> HIDE DEF o
  <2> QED
    BY <2>1
<1>2. change \in BOOLEAN /\ (change <=> excess > Fee(oneOutputSize))
  BY DEF NeedsChange
<1>3. base \in Int
  <2>1. low \in Nat
    BY <1>1, SizeNoChange
  <2> HIDE DEF low
  <2> QED
    BY <2>1, CeilIs, FeeType
<1>4. top \in Int
  <2>1. high \in Nat
    BY <1>1, MaxSizeIs
  <2> HIDE DEF high
  <2> QED
    BY <2>1, CeilIs, FeeType
<1>5. CASE change
  <2>1. change = TRUE
    BY <1>2, <1>5
  <2>2. Waste(n, v) = top + 0
    BY <2>1 DEF Waste
  <2>3. Waste(n, v) = top /\ Waste(n, v) \in Int
    <3> HIDE DEF top
    <3> QED
      BY <1>4, <2>2
  <2> QED
    BY <1>2, <1>5, <2>3
<1>6. CASE ~change
  <2>1. change = FALSE
    BY <1>2, <1>6
  <2>2. Waste(n, v) = base + excess
    BY <2>1 DEF Waste
  <2>3. base + excess \in Int
    <3> HIDE DEF base, excess
    <3> QED
      BY <1>1, <1>3
  <2> QED
    BY <1>2, <1>6, <2>2, <2>3
<1> QED
  BY <1>5, <1>6

\* More outputs that are worth more waste more.
LEMMA WasteGrows ==
  ASSUME request \in Requests, amount \in Nat, NEW n \in Nat, NEW m \in Nat, n < m,
         NEW v \in Int, NEW w \in Int, v <= w
  PROVE  Waste(n, v) <= Waste(m, w)
<1> DEFINE o == Len(Outputs)
           lowN == maxTxSize(n, o, FALSE)
           highN == maxTxSize(n, o, TRUE)
           lowM == maxTxSize(m, o, FALSE)
           highM == maxTxSize(m, o, TRUE)
           P == oneOutputSize
<1>1. o \in Nat /\ P \in Nat /\ P <= 172
  <2>1. P = (IF o > 0 THEN Out ELSE Chg) /\ P \in Nat
    <3> DEFINE p == [utxos |-> {}]
    <3>1. p.utxos \subseteq Pickable
      OBVIOUS
    <3> HIDE DEF p
    <3> QED
      BY <3>1, SizeTypes
  <2>2. o \in Nat
    BY OutputsFacts
  <2> HIDE DEF P, o
  <2> QED
    BY <2>1, <2>2, Weights
<1>2. /\ lowN \in Nat /\ highN = lowN + Chg /\ lowM \in Nat /\ highM = lowM + Chg
      /\ lowM >= lowN + 231
  <2> DEFINE x == n * oneInputSize
             y == m * oneInputSize
             z == o * Out
             cn == Counts(n)
             cm == Counts(m)
             co == Counts(o)
  <2>1. lowN = fixedSize + x + z + cn + co /\ lowN \in Nat
    BY <1>1, SizeNoChange DEF Plain
  <2>2. lowM = fixedSize + y + z + cm + co /\ lowM \in Nat
    BY <1>1, SizeNoChange DEF Plain
  <2>3. highN = fixedSize + x + z + cn + co + Chg
    BY <1>1, MaxSizeIs DEF Plain
  <2>4. highM = fixedSize + y + z + cm + co + Chg
    BY <1>1, MaxSizeIs DEF Plain
  <2>6. cn \in Nat /\ cm \in Nat /\ co \in Nat /\ cn <= cm
    BY <1>1, CountsFacts
  <2>5. x \in Nat /\ y \in Nat /\ z \in Nat /\ y >= x + 231
    <3> DEFINE I == oneInputSize
    <3>1. I \in Nat /\ I >= 231 /\ Out \in Nat
      BY Weights
    <3> HIDE DEF I
    <3>2. (m - n) * I >= I
      <4>1. m - n - 1 \in Nat
        OBVIOUS
      <4>2. (m - n - 1) * I \in Nat
        BY <3>1, <4>1
      <4>3. (m - n) * I = (m - n - 1) * I + I
        BY <3>1
      <4> QED
        BY <3>1, <4>2, <4>3
    <3>3. (m - n) * I = m * I - n * I /\ m * I \in Nat /\ n * I \in Nat /\ o * Out \in Nat
      BY <1>1, <3>1
    <3> QED
      BY <3>1, <3>2, <3>3 DEF I
  <2> HIDE DEF x, y, z, cn, cm, co, lowN, highN, lowM, highM
  <2> QED
    BY <2>1, <2>2, <2>3, <2>4, <2>5, <2>6, Weights
<1> HIDE DEF lowN, highN, lowM, highM, P
<1> DEFINE a == Ceil(lowN)
           b == Ceil(lowM)
           c == Ceil(highN)
           d == Ceil(highM)
           fa == Fee(a)
           fb == Fee(b)
           fc == Fee(c)
           fd == Fee(d)
           given == Fee(P)
           t == actualTarget
<1>3. /\ a \in Int /\ b \in Int /\ c \in Int /\ d \in Int
      /\ a <= lowN + 3 /\ lowM <= b /\ c <= highN + 3 /\ highM <= d
  <2>1. highN \in Int /\ highM \in Int
    BY <1>2, Weights
  <2>2. a \in Int /\ a <= lowN + 3
    BY <1>2, CeilIs
  <2>3. b \in Int /\ lowM <= b
    BY <1>2, CeilIs
  <2>4. c \in Int /\ c <= highN + 3
    BY <2>1, CeilIs
  <2>5. d \in Int /\ highM <= d
    BY <2>1, CeilIs
  <2> QED
    BY <2>2, <2>3, <2>4, <2>5
<1> HIDE DEF a, b, c, d
<1>4. a <= b /\ c <= d /\ a + P <= d
  BY <1>1, <1>2, <1>3, Weights
<1>5. /\ fa \in Int /\ fb \in Int /\ fc \in Int /\ fd \in Int /\ given \in Int
      /\ fa <= fb /\ fc <= fd /\ fa + given <= fd
  <2>1. fa \in Int /\ fb \in Int /\ fa <= fb
    BY <1>3, <1>4, FeeIs
  <2>2. fc \in Int /\ fd \in Int /\ fc <= fd
    BY <1>3, <1>4, FeeIs
  <2>3. a + P \in Int /\ P \in Int
    BY <1>1, <1>3
  <2>4. Fee(a + P) <= fd
    BY <1>3, <1>4, <2>3, FeeIs
  <2>5. Fee(a + P) = fa + given /\ given \in Int
    BY <1>3, <2>3, FeeIs
  <2> QED
    BY <2>1, <2>2, <2>4, <2>5
<1> HIDE DEF fa, fb, fc, fd, given, t
<1>6. t \in Nat
  BY TargetIs DEF t
<1>7. IF v - t > given THEN Waste(n, v) = fc ELSE Waste(n, v) = fa + (v - t)
  BY WasteIs DEF fa, fc, a, c, lowN, highN, given, P, t
<1>8. IF w - t > given THEN Waste(m, w) = fd ELSE Waste(m, w) = fb + (w - t)
  BY WasteIs DEF fb, fd, b, d, lowM, highM, given, P, t
<1> DEFINE x == Waste(n, v)
           y == Waste(m, w)
<1>9. /\ IF v - t > given THEN x = fc ELSE x = fa + (v - t)
      /\ IF w - t > given THEN y = fd ELSE y = fb + (w - t)
  BY <1>7, <1>8
<1> HIDE DEF x, y
<1>10. x <= y
  BY <1>5, <1>6, <1>9
<1> QED
  BY <1>10 DEF x, y

\* A selection wastes no more than one that takes more.
LEMMA CoverWaste ==
  ASSUME request \in Requests, amount \in Nat, NEW s, IsSelection(s),
         NEW K \in SUBSET (1..Len(effectiveUtxos)), Chosen(s) \subseteq K
  PROVE  /\ Waste(Cardinality(Chosen(s)), Worth(Picks(s))) \in Int
         /\ Waste(Cardinality(K), Worth(At(K))) \in Int
         /\ Worth(Picks(s)) <= Worth(At(K))
         /\ Waste(Cardinality(Chosen(s)), Worth(Picks(s))) <= Waste(Cardinality(K), Worth(At(K)))
<1> DEFINE C == Chosen(s)
           n == Cardinality(C)
           m == Cardinality(K)
           v == Worth(Picks(s))
           w == Worth(At(K))
<1>1. C \subseteq 1..Len(effectiveUtxos) /\ n \in Nat /\ v \in Int
  BY SelectionFacts
<1>2. IsOrder(effectiveUtxos, Effective) /\ Effective \in SUBSET Utxos
  BY EffectiveOrder
<1>3. At(K) \subseteq Effective /\ IsFiniteSet(K)
  BY <1>2, ImageFacts DEF At
<1>4. m \in Nat /\ w \in Int
  <2>1. At(K) \in SUBSET Utxos
    BY <1>2, <1>3
  <2> QED
    BY <1>3, <2>1, FS_CardinalityType, TotalFacts
<1>5. v <= w
  <2>1. effectiveValues \in Seq(Int)
    BY MoneyFacts
  <2>2. Picks(s) \subseteq At(K)
    BY DEF Picks, At, Image
  <2>3. Effective \subseteq 1..Len(effectiveValues) /\ \A i \in Effective : effectiveValues[i] >= 0
    <3>1. Utxos = 1..Len(effectiveValues) /\ \A i \in Utxos : effectiveValues[i] \in Int
      BY MoneyFacts
    <3> QED
      BY <1>2, <3>1 DEF Effective
  <2>4. \A i \in At(K) : i \in 1..Len(effectiveValues) /\ i \notin Picks(s)
                            => effectiveValues[i] >= 0
    BY <1>3, <2>3
  <2> DEFINE A == Picks(s)
             B == At(K)
  <2>5. A \subseteq B
        /\ \A i \in B : i \in 1..Len(effectiveValues) /\ i \notin A => effectiveValues[i] >= 0
    BY <2>2, <2>4
  <2> HIDE DEF A, B
  <2>6. SumOver(effectiveValues, A) <= SumOver(effectiveValues, B)
    BY <2>1, <2>5, SumMonotone
  <2> QED
    BY <2>6 DEF A, B, Worth
<1>6. CASE C = K
  <2>1. n = m /\ v = w
    BY <1>6 DEF Picks, At
  <2>2. Waste(n, v) \in Int
    <3> HIDE DEF n, v
    <3> QED
      BY <1>1, WasteIs
  <2> DEFINE x == Waste(n, v)
  <2>3. x \in Int /\ Waste(m, w) = x
    BY <2>1, <2>2
  <2> HIDE DEF x
  <2>4. x <= x
    BY <2>3
  <2> QED
    BY <1>5, <2>3, <2>4 DEF x
<1>7. CASE C # K
  <2>1. n <= m /\ n # m
    BY <1>3, <1>7, FS_Subset
  <2> HIDE DEF n, m, v, w
  <2>2. n < m
    BY <1>1, <1>4, <2>1
  <2>3. Waste(n, v) \in Int
    BY <1>1, WasteIs
  <2>4. Waste(m, w) \in Int
    BY <1>4, WasteIs
  <2>5. Waste(n, v) <= Waste(m, w)
    BY <1>1, <1>4, <1>5, <2>2, WasteGrows
  <2> QED
    BY <1>5, <2>3, <2>4, <2>5 DEF n, m, v, w
<1> QED
  BY <1>6, <1>7

LEMMA SettledFrame ==
  ASSUME UNCHANGED <<request, amount>>
  PROVE  /\ \A K : Worth(At(K))' = Worth(At(K))
         /\ \A K : Settled(K)' <=> /\ best'.selection # <<>>
                                   /\ best'.waste <= Waste(Cardinality(K), Worth(At(K)))
<1>1. effectiveUtxos' = effectiveUtxos /\ effectiveValues' = effectiveValues
      /\ \A n, v : Waste(n, v)' = Waste(n, v)
  BY Frame
<1>2. \A K : Worth(At(K))' = Worth(At(K))
  BY <1>1 DEF Worth, At
<1> QED
  BY <1>1, <1>2 DEF Settled

\* What is settled stays so, and a selection that reaches the target settles all that take more.
LEMMA BetterSettles ==
  ASSUME Inv, actualTarget > 0, UNCHANGED <<request, amount>>, best' = Better,
         NEW K \in SUBSET (1..Len(effectiveUtxos))
  PROVE  /\ Settled(K) => Settled(K)'
         /\ Reached /\ Chosen(currentSelection) \subseteq K => Settled(K)'
<1> DEFINE s == currentSelection
           own == Waste(Cardinality(Chosen(s)), currentValue)
           all == Waste(Cardinality(K), Worth(At(K)))
<1>1. /\ request \in Requests /\ amount \in Nat /\ IsSelection(s)
      /\ currentValue = Worth(Picks(s)) /\ BestKnown
  BY DEF Inv
<1>2. Settled(K)' <=> best'.selection # <<>> /\ best'.waste <= all
  BY SettledFrame
<1>3. all \in Int /\ own \in Int
  <2>1. own \in Int
    BY <1>1, SelectionFacts, WasteIs
  <2>2. Cardinality(K) \in Nat /\ Worth(At(K)) \in Int
    <3>1. At(K) \subseteq Effective /\ IsFiniteSet(K) /\ Effective \subseteq Utxos
      BY <1>1, EffectiveOrder, ImageFacts DEF At
    <3>2. At(K) \in SUBSET Utxos
      BY <3>1
    <3> QED
      BY <1>1, <3>1, <3>2, FS_CardinalityType, TotalFacts
  <2>3. all \in Int
    BY <1>1, <2>2, WasteIs
  <2> QED
    BY <2>1, <2>3
<1>4. best.selection # <<>> => best.waste \in Int
  <2> SUFFICES ASSUME best.selection # <<>> PROVE best.waste \in Int
    OBVIOUS
  <2> DEFINE U == Picks(best.selection)
  <2>1. IsSelection(best.selection) /\ best.waste = Waste(Cardinality(U), Worth(U))
    BY <1>1 DEF BestKnown
  <2>2. Cardinality(U) \in Nat /\ Worth(U) \in Int
    BY <1>1, <2>1, SelectionFacts
  <2> HIDE DEF U
  <2>3. Waste(Cardinality(U), Worth(U)) \in Int
    BY <1>1, <2>2, WasteIs
  <2> QED
    BY <2>1, <2>3
<1>5. Reached => s # <<>>
  BY <1>1, SomeChosen DEF Reached
<1>6. best' = IF Reached /\ (best.selection = <<>> \/ own <= best.waste)
              THEN [selection |-> s, waste |-> own, change |-> NeedsChange(currentValue)]
              ELSE best
  BY DEF Better
<1>7. Chosen(s) \subseteq K => own <= all
  BY <1>1, CoverWaste
<1> HIDE DEF own, all
<1>8. IF Reached /\ (best.selection = <<>> \/ own <= best.waste)
      THEN best'.selection # <<>> /\ best'.waste = own
      ELSE best'.selection = best.selection /\ best'.waste = best.waste
  BY <1>5, <1>6
<1>9. ASSUME Settled(K) PROVE Settled(K)'
  <2>1. best.selection # <<>> /\ best.waste <= all
    BY <1>9 DEF Settled, all
  <2> QED
    BY <1>2, <1>3, <1>4, <1>8, <2>1
<1>10. ASSUME Reached, Chosen(s) \subseteq K PROVE Settled(K)'
  BY <1>2, <1>3, <1>4, <1>7, <1>8, <1>10
<1> QED
  BY <1>9, <1>10

\* The last place that was taken is dropped.
LEMMA OpenDropped ==
  ASSUME NEW s \in Seq(BOOLEAN), NEW k \in Chosen(s), k \in Nat, \A j \in Chosen(s) : j <= k,
         NEW t, Len(t) = k, Chosen(t) = Chosen(s) \ {k},
         NEW K, Open(K, s), K \cap (1..Len(s)) # Chosen(s)
  PROVE  Open(K, t)
<1>1. PICK m \in Chosen(s) : m \notin K /\ K \cap (1..(m - 1)) = Chosen(s) \cap (1..(m - 1))
  BY DEF Open
<1>2. \A j \in Chosen(s) : j \in 1..k
  BY DEF Chosen
<1>3. CASE m = k
  <2>1. 1..k = (1..(k - 1)) \cup {k}
    BY <1>2
  <2>2. Chosen(s) \ {k} = Chosen(s) \cap (1..(k - 1))
    <3>1. \A j \in Chosen(s) : j # k <=> j \in 1..(k - 1)
      BY <1>2
    <3> QED
      BY <3>1
  <2>3. K \cap (1..k) = Chosen(t)
    BY <1>1, <1>3, <2>1, <2>2
  <2> QED
    BY <2>3 DEF Open
<1>4. CASE m # k
  <2>1. m < k
    BY <1>2, <1>4
  <2>2. m \in Chosen(t) /\ Chosen(t) \cap (1..(m - 1)) = Chosen(s) \cap (1..(m - 1))
    BY <1>1, <1>2, <1>4, <2>1
  <2> QED
    BY <1>1, <2>2 DEF Open
<1> QED
  BY <1>3, <1>4

LEMMA OpenTaken ==
  ASSUME NEW s, Len(s) \in Nat, NEW t, Len(t) = Len(s) + 1, Chosen(s) \subseteq 1..Len(s),
         Chosen(t) = Chosen(s) \cup {Len(s) + 1}, NEW K, Open(K, s)
  PROVE  Open(K, t)
<1> DEFINE n == Len(s) + 1
<1>1. 1..n = (1..Len(s)) \cup {n} /\ 1..(n - 1) = 1..Len(s) /\ n \notin Chosen(s)
  OBVIOUS
<1>2. CASE K \cap (1..Len(s)) = Chosen(s)
  <2>1. CASE n \in K
    <3>1. K \cap (1..n) = Chosen(t)
      BY <1>1, <1>2, <2>1
    <3> QED
      BY <3>1 DEF Open
  <2>2. CASE n \notin K
    <3>1. n \in Chosen(t) /\ Chosen(t) \cap (1..(n - 1)) = Chosen(s)
      BY <1>1
    <3>2. K \cap (1..(n - 1)) = Chosen(s)
      BY <1>1, <1>2
    <3> HIDE DEF n
    <3> QED
      BY <2>2, <3>1, <3>2 DEF Open
  <2> QED
    BY <2>1, <2>2
<1>3. CASE \E m \in Chosen(s) :
             m \notin K /\ K \cap (1..(m - 1)) = Chosen(s) \cap (1..(m - 1))
  <2>1. PICK m \in Chosen(s) :
             m \notin K /\ K \cap (1..(m - 1)) = Chosen(s) \cap (1..(m - 1))
    BY <1>3
  <2>2. n \notin 1..(m - 1) /\ m \in Chosen(t)
    OBVIOUS
  <2>3. Chosen(t) \cap (1..(m - 1)) = Chosen(s) \cap (1..(m - 1))
    BY <2>2
  <2> QED
    BY <2>1, <2>2, <2>3 DEF Open
<1> QED
  BY <1>2, <1>3 DEF Open

LEMMA AnswerSearched ==
  ASSUME NEW STATE p, Answer(p)
  PROVE  Searched'
BY DEF Answer, Searched

LEMMA BeginsSearched ==
  ASSUME Inv, Searched, SearchBegins
  PROVE  Searched'
<1>1. CASE Worth(ToSet(effectiveUtxos)) < actualTarget
  <2>1. Answer(NotEnoughBalance)
    BY <1>1 DEF SearchBegins
  <2> QED
    BY <2>1, AnswerSearched
<1>2. CASE ~(Worth(ToSet(effectiveUtxos)) < actualTarget)
  <2>1. phase = "build" /\ phase' = "search"
        /\ UNCHANGED <<request, amount, currentSelection, best, tries>>
    BY <1>2 DEF SearchBegins, search
  <2>2. currentSelection' = <<>> /\ best'.selection = <<>>
    BY <2>1 DEF Searched
  <2>3. \A K : Open(K, currentSelection)'
    <3>1. Chosen(<<>>) = {} /\ Len(<<>>) = 0
      BY DEF Chosen
    <3>2. \A K : K \cap (1..0) = {}
      OBVIOUS
    <3>3. \A K : Open(K, <<>>)
      BY <3>1, <3>2 DEF Open
    <3>4. \A K : Open(K, currentSelection')
      BY <2>2, <3>3
    <3> QED
      BY <3>4 DEF Open, Chosen
  <2> QED
    BY <2>1, <2>2, <2>3 DEF Searched
<1> QED
  BY <1>1, <1>2

LEMMA ForwardSearched ==
  ASSUME Inv, Searched, Forward
  PROVE  Searched'
<1> DEFINE s == currentSelection
           t == Append(s, TRUE)
<1>1. /\ request \in Requests /\ amount \in Nat /\ IsSelection(s)
      /\ Len(s) < Len(effectiveUtxos) /\ s' = t /\ phase = "search"
      /\ UNCHANGED <<request, amount, phase, best>>
      /\ currentValue = Worth(Picks(s)) /\ ~(currentValue >= actualTarget)
  BY DEF Inv, Forward, Searching, Reached
<1>2. actualTarget > 0
  <2>1. actualTarget \in Nat
    BY <1>1, TargetIs
  <2>2. ASSUME actualTarget = 0 PROVE FALSE
    <3>1. s = <<>>
      BY <1>1, <2>2 DEF Searched
    <3>2. currentValue = 0
      BY <1>1, <3>1, NothingChosen
    <3> QED
      BY <1>1, <2>2, <3>2
  <2> QED
    BY <2>1, <2>2
<1>3. Len(t) = Len(s) + 1 /\ Chosen(t) = Chosen(s) \cup {Len(s) + 1}
  BY <1>1, MoreChosen
<1>4. Len(s) \in Nat /\ Chosen(s) \subseteq 1..Len(s)
  BY <1>1 DEF IsSelection, Chosen
<1>5. effectiveUtxos' = effectiveUtxos /\ actualTarget' = actualTarget
      /\ (\A K : Worth(At(K))' = Worth(At(K)))
      /\ (\A K : Settled(K)' <=> Settled(K))
  BY <1>1, Frame, SettledFrame DEF Settled
<1> HIDE DEF t
<1>6. ASSUME NEW K, Open(K, s) PROVE Open(K, currentSelection)'
  <2>1. Open(K, t)
    BY <1>3, <1>4, <1>6, OpenTaken
  <2>2. Open(K, currentSelection')
    BY <1>1, <2>1
  <2> QED
    BY <2>2 DEF Open, Chosen
<1>7. ASSUME NEW K \in SUBSET (1..Len(effectiveUtxos)), Worth(At(K)) >= actualTarget
      PROVE  Open(K, currentSelection)' \/ Settled(K)'
  BY <1>1, <1>2, <1>5, <1>6, <1>7 DEF Searched
<1> QED
  BY <1>1, <1>2, <1>5, <1>7 DEF Searched

\* The search for a target: what a Backtrack leaves open, it has left open before.
LEMMA BacktrackSearched ==
  ASSUME Inv, Searched, Backtrack
  PROVE  Searched'
<1> DEFINE s == currentSelection
           k == SelectLastInSeq(s, LAMBDA b : b)
           t == Append(SubSeq(s, 1, k - 1), FALSE)
           N == Len(effectiveUtxos)
<1>1. /\ request \in Requests /\ amount \in Nat /\ IsSelection(s)
      /\ currentValue = Worth(Picks(s)) /\ phase = "search"
      /\ best' = Better /\ UNCHANGED <<request, amount>>
      /\ (Reached \/ Len(s) >= N)
  BY DEF Inv, Backtrack, Searching
<1>2. IF k = 0 THEN currentSelection' = <<>> /\ phase' = "found"
      ELSE currentSelection' = t /\ UNCHANGED phase
  BY DEF Backtrack
<1>3. IF k = 0 THEN Chosen(s) = {}
      ELSE k \in Chosen(s) /\ k \in 1..Len(s) /\ \A j \in Chosen(s) : j <= k
  BY <1>1, LastChosen DEF IsSelection
<1> HIDE DEF k
<1>4. /\ effectiveUtxos' = effectiveUtxos /\ actualTarget' = actualTarget
      /\ \A K : Worth(At(K))' = Worth(At(K))
  BY <1>1, Frame, SettledFrame
<1>5. N \in Nat /\ Len(s) \in Nat /\ Len(s) <= N /\ s \in Seq(BOOLEAN) /\ actualTarget \in Nat
  <2>1. s \in Seq(BOOLEAN) /\ Len(s) <= N
    BY <1>1 DEF IsSelection
  <2>2. N \in Nat /\ actualTarget \in Nat
    BY <1>1, EffectiveOrder, TargetIs
  <2> QED
    BY <2>1, <2>2
<1>6. phase' # "build"
  BY <1>1, <1>2
<1>7. CASE actualTarget = 0
  <2>1. s = <<>> /\ best.selection = <<>>
    BY <1>1, <1>7 DEF Searched
  <2>2. k = 0
    BY <1>3, <2>1
  <2>3. best'.selection = <<>>
    BY <1>1, <2>1 DEF Better
  <2> QED
    BY <1>2, <1>4, <1>7, <2>2, <2>3 DEF Searched
<1>8. CASE actualTarget > 0
  <2>1. ASSUME NEW K \in SUBSET (1..N), Worth(At(K)) >= actualTarget,
               K \cap (1..Len(s)) = Chosen(s)
        PROVE  Settled(K)'
    <3>1. Chosen(s) \subseteq K
      BY <2>1
    <3>2. Reached
      <4> SUFFICES ASSUME ~Reached PROVE FALSE
        OBVIOUS
      <4>1. Len(s) = N
        BY <1>1, <1>5
      <4>2. K = Chosen(s)
        BY <2>1, <4>1
      <4>3. At(K) = Picks(s)
        BY <4>2 DEF At, Picks
      <4> QED
        BY <1>1, <2>1, <4>3 DEF Reached
    <3> QED
      BY <1>1, <1>8, <3>1, <3>2, BetterSettles
  <2>2. ASSUME NEW K \in SUBSET (1..N), Settled(K) PROVE Settled(K)'
    BY <1>1, <1>8, <2>2, BetterSettles
  <2>3. ASSUME NEW K \in SUBSET (1..N), Worth(At(K)) >= actualTarget
        PROVE  Settled(K)' \/ (Open(K, s) /\ K \cap (1..Len(s)) # Chosen(s))
    BY <1>1, <1>8, <2>1, <2>2, <2>3 DEF Searched
  <2>4. CASE k = 0
    <3>1. ASSUME NEW K \in SUBSET (1..N), Worth(At(K)) >= actualTarget PROVE Settled(K)'
      BY <1>3, <2>3, <2>4, <3>1 DEF Open
    <3> QED
      BY <1>2, <1>4, <1>6, <1>8, <2>4, <3>1 DEF Searched
  <2>5. CASE k # 0
    <3>1. Len(t) = k /\ Chosen(t) = Chosen(s) \ {k}
      BY <1>1, <1>3, <2>5, LastDropped
    <3> HIDE DEF t
    <3>2. currentSelection' = t /\ phase' = "search" /\ k \in Nat
      <4>1. k \in Nat
        BY <1>3, <2>5
      <4>2. currentSelection' = t /\ phase' = phase
        BY <1>2, <2>5
      <4> QED
        BY <1>1, <4>1, <4>2
    <3>3. ASSUME NEW K \in SUBSET (1..N), Worth(At(K)) >= actualTarget
          PROVE  Open(K, currentSelection)' \/ Settled(K)'
      <4>1. CASE Settled(K)'
        BY <4>1
      <4>2. CASE Open(K, s) /\ K \cap (1..Len(s)) # Chosen(s)
        <5>1. Open(K, t)
          BY <1>3, <1>5, <2>5, <3>1, <3>2, <4>2, OpenDropped
        <5>2. Open(K, currentSelection')
          BY <3>2, <5>1
        <5> QED
          BY <5>2 DEF Open, Chosen
      <4> QED
        BY <2>3, <3>3, <4>1, <4>2
    <3> QED
      BY <1>4, <1>6, <1>8, <3>2, <3>3 DEF Searched
  <2> QED
    BY <2>4, <2>5
<1> QED
  BY <1>5, <1>7, <1>8

LEMMA StepSearched ==
  ASSUME Inv, Searched, [Next]_vars
  PROVE  Searched'
<1>1. CASE PickInOrder
  BY <1>1, AnswerSearched DEF PickInOrder
<1>2. CASE SearchEnds
  BY <1>2, AnswerSearched DEF SearchEnds
<1>3. CASE SearchStops \/ UNCHANGED vars
  <2>1. UNCHANGED <<request, amount, currentSelection, best, tries>>
        /\ (phase' = phase
              \/ (phase = "search" /\ phase' = "found" /\ tries = request.TOTAL_TRIES))
    BY <1>3 DEF SearchStops, vars, search
  <2>2. effectiveUtxos' = effectiveUtxos /\ actualTarget' = actualTarget
        /\ (\A K : Worth(At(K))' = Worth(At(K)))
        /\ (\A K : Settled(K)' <=> Settled(K))
    BY <2>1, Frame, SettledFrame DEF Settled
  <2>3. \A K : Open(K, currentSelection)' <=> Open(K, currentSelection)
    BY <2>1 DEF Open, Chosen
  <2>4. ~(tries < tries)
    BY DEF Inv
  <2> QED
    BY <2>1, <2>2, <2>3, <2>4 DEF Searched
<1> QED
  BY <1>1, <1>2, <1>3, BeginsSearched, ForwardSearched, BacktrackSearched DEF Next

\* Without a rate nothing costs anything.
LEMMA FreeWaste ==
  ASSUME request \in Requests, amount \in Nat, actualTarget = 0, NEW n \in Nat, NEW v \in Int,
         v >= 0
  PROVE  Waste(0, 0) <= Waste(n, v)
<1> DEFINE s == Plain(0, Len(Outputs))
           r == request.feePerByte
           P == oneOutputSize
<1>1. actualTarget = Fee(s) + amount /\ s \in Nat /\ r \in Nat
  BY TargetIs, OutputsFacts, PlainIs, RequestIs
<1>2. s >= 1
  <2>1. s \in Nat /\ s >= 8
    BY OutputsFacts, PlainIs
  <2> HIDE DEF s
  <2> QED
    BY <2>1
<1> HIDE DEF s
<1>3. r = 0
  <2>1. Fee(s) = r * s
    BY DEF Fee
  <2>2. r * s + amount = 0 /\ r * s \in Nat
    BY <1>1, <2>1
  <2>3. r * s = 0
    BY <2>2
  <2>4. r # 0 => r * s >= 1
    <3> SUFFICES ASSUME r # 0 PROVE r * s >= 1
      OBVIOUS
    <3> HIDE DEF r
    <3>1. (r - 1) * s \in Nat /\ r * s = (r - 1) * s + s
      BY <1>1
    <3> QED
      BY <1>1, <1>2, <3>1
  <2> QED
    BY <1>1, <2>3, <2>4
<1>4. \A x \in Int : Fee(x) = 0
  BY <1>3 DEF Fee
<1>5. ASSUME NEW m \in Nat, NEW w \in Int, w >= 0
      PROVE  /\ Waste(m, w) = IF w > 0 THEN 0 ELSE w
  <2> DEFINE low == maxTxSize(m, Len(Outputs), FALSE)
             high == maxTxSize(m, Len(Outputs), TRUE)
  <2>1. low \in Nat
    BY OutputsFacts, SizeNoChange
  <2>2. high \in Nat
    BY OutputsFacts, MaxSizeIs
  <2>3. IF w - actualTarget > Fee(P)
        THEN Waste(m, w) = Fee(Ceil(high)) ELSE Waste(m, w) = Fee(Ceil(low)) + (w - actualTarget)
    BY WasteIs
  <2> HIDE DEF low, high
  <2>4. Ceil(low) \in Int /\ Ceil(high) \in Int
    BY <2>1, <2>2, CeilIs
  <2>5. Fee(Ceil(low)) = 0 /\ Fee(Ceil(high)) = 0
    BY <1>4, <2>4
  <2>6. P \in Int
    <3> DEFINE p == [utxos |-> {}]
    <3>1. p.utxos \subseteq Pickable
      OBVIOUS
    <3> HIDE DEF p
    <3>2. P \in Nat
      BY <3>1, SizeTypes
    <3> QED
      BY <3>2
  <2>7. Fee(P) = 0
    BY <1>4, <2>6
  <2> QED
    BY <1>5, <2>3, <2>5, <2>7
<1>6. Waste(0, 0) = 0 /\ Waste(n, v) = IF v > 0 THEN 0 ELSE v
  BY <1>5
<1> QED
  BY <1>6

\* A search that is not stopped finds, of all selections of outputs that reach the target, one
\* with the least waste: the branches that are cut hold no better one.
THEOREM LeastTheorem == Spec => []LeastWaste
<1>1. Init => Searched
  BY DEF Init, Searched
<1>2. Inv /\ Searched /\ [Next]_vars => Searched'
  BY StepSearched
<1>3. ASSUME Inv, Searched PROVE LeastWaste
  <2> SUFFICES ASSUME phase = "found", tries < request.TOTAL_TRIES,
                      NEW S \in SUBSET ToSet(effectiveUtxos), Worth(S) >= actualTarget
               PROVE  Wasted <= Waste(Cardinality(S), Worth(S))
    BY DEF LeastWaste
  <2> DEFINE U == Picks(best.selection)
             N == Len(effectiveUtxos)
  <2>1. /\ request \in Requests /\ amount \in Nat /\ BestKnown /\ IsSelection(best.selection)
        /\ actualTarget \in Nat
    BY <1>3, TargetIs DEF Inv, BestKnown
  <2>2. Wasted = Waste(Cardinality(U), Worth(U))
    BY DEF Wasted, Picks, Image
  <2> DEFINE K == {k \in 1..N : effectiveUtxos[k] \in S}
  <2>3. IsOrder(effectiveUtxos, Effective) /\ ToSet(effectiveUtxos) = Effective
        /\ Effective \subseteq Utxos
    BY <2>1, EffectiveOrder
  <2>4. At(K) = S
    <3>1. effectiveUtxos \in Seq(Effective)
      BY <2>3 DEF IsOrder
    <3> QED
      BY <3>1 DEF At, Image, ToSet
  <2>5. K \in SUBSET (1..N) /\ Cardinality(S) = Cardinality(K)
    <3>1. K \in SUBSET (1..N)
      OBVIOUS
    <3> HIDE DEF K
    <3> QED
      BY <2>3, <2>4, <3>1, ImageFacts DEF At
  <2>6. CASE actualTarget > 0
    <3>1. Settled(K)
      <4>1. Worth(At(K)) >= actualTarget
        BY <2>4
      <4> HIDE DEF K
      <4> QED
        BY <1>3, <2>5, <2>6, <4>1 DEF Searched
    <3> HIDE DEF K
    <3>2. best.selection # <<>> /\ best.waste <= Waste(Cardinality(S), Worth(S))
      BY <2>4, <2>5, <3>1 DEF Settled
    <3> QED
      BY <2>1, <2>2, <3>2 DEF BestKnown
  <2>7. CASE actualTarget = 0
    <3>1. best.selection = <<>>
      BY <1>3, <2>7 DEF Searched
    <3>2. Worth(U) = 0 /\ Cardinality(U) = 0
      <4>1. Chosen(<<>>) = {} /\ Worth(Picks(<<>>)) = 0
        BY <2>1, NothingChosen
      <4>2. U = {}
        BY <3>1, <4>1 DEF Picks, Image
      <4> QED
        BY <3>1, <4>1, <4>2, FS_EmptySet
    <3>3. Cardinality(S) \in Nat /\ Worth(S) \in Int
      <4>1. S \in SUBSET Utxos
        BY <2>3
      <4> QED
        BY <2>1, <4>1, FiniteUtxos, TotalFacts
    <3>4. Waste(0, 0) <= Waste(Cardinality(S), Worth(S))
      BY <2>1, <2>7, <3>3, FreeWaste
    <3> QED
      BY <2>2, <3>2, <3>4
  <2> QED
    BY <2>1, <2>6, <2>7
<1> QED
  BY <1>1, <1>2, <1>3, Invariance, PTL DEF Spec
=============================================================================
