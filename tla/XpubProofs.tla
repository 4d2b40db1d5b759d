---------------------------- MODULE XpubProofs ----------------------------
(***************************************************************************)
(* The bitcoin wallet, for any transactions, blocks, addresses and gap.    *)
(*                                                                         *)
(* Each call of sync() is at one place (CallOK), and of two calls one runs *)
(* at a time (TwoOK): so nobody is forgotten.  An address is in the hands  *)
(* of one task, which knows its last block, and up to that block has       *)
(* stored all that the chain has (StoreIn, TaskOK): so the outputs are     *)
(* right, and a sync that is alone comes to what the chain has (Along).    *)
(* What is stored is below the fresh index or in a block that the call     *)
(* that goes on will look at (FreshIn): so the address to receive on is    *)
(* not used.                                                               *)
(***************************************************************************)
EXTENDS XpubSync, ListProofs, FiniteSetTheorems, SequenceTheorems, TLAPS

(***************************************************************************)
(* The storage of an address.                                              *)
(***************************************************************************)

Blocks == [height : Nat, id : Nat]
Entries == [tx : Txs, block : Blocks]
Stores == [txs : Seq(Entries), unspent : SUBSET Txs, spent : SUBSET Txs]

TxsOf(s) == {e.tx : e \in ToSet(s.txs)}
In(S, x) == UNION {Received(t, x) : t \in S}
Out(S, x) == UNION {SpentBy(t, x) : t \in S}

\* A transaction is stored once.
Once(s) == \A i, j \in DOMAIN s.txs : s.txs[i].tx = s.txs[j].tx => i = j

\* The outputs that nobody spends, and the inputs whose outputs have not come.
Right(s, x) == Once(s) /\ s.unspent = In(TxsOf(s), x) \ Out(TxsOf(s), x)
Exact(s, x) ==
  Out(TxsOf(s), x) \ In(TxsOf(s), x) \subseteq s.spent /\ s.spent \subseteq Out(TxsOf(s), x)

LEMMA StoreFacts ==
  ASSUME NEW s \in Stores
  PROVE  /\ s.txs \in Seq(Entries) /\ ToSet(s.txs) \subseteq Entries
         /\ Len(s.txs) \in Nat /\ DOMAIN s.txs = 1..Len(s.txs)
         /\ \A i \in 1..Len(s.txs) : s.txs[i] \in Entries
         /\ TxsOf(s) \subseteq Txs
         /\ \A t : t \in TxsOf(s) <=> \E e \in ToSet(s.txs) : e.tx = t
         /\ s.unspent \subseteq Txs /\ s.spent \subseteq Txs
         /\ (s.txs = <<>>) <=> (ToSet(s.txs) = {})
<1>1. s.txs \in Seq(Entries) /\ s.unspent \subseteq Txs /\ s.spent \subseteq Txs
  BY DEF Stores
<1>2. /\ Len(s.txs) \in Nat /\ DOMAIN s.txs = 1..Len(s.txs)
      /\ \A i \in 1..Len(s.txs) : s.txs[i] \in Entries
      /\ ToSet(s.txs) \subseteq Entries
      /\ (s.txs = <<>>) <=> (ToSet(s.txs) = {})
  BY <1>1, SeqFacts
<1>3. \A t : t \in TxsOf(s) <=> \E e \in ToSet(s.txs) : e.tx = t
  BY DEF TxsOf
<1>4. TxsOf(s) \subseteq Txs
  BY <1>2, <1>3 DEF Entries
<1> QED
  BY <1>1, <1>2, <1>3, <1>4

LEMMA EmptyStore ==
  ASSUME NEW x
  PROVE  /\ Empty \in Stores /\ TxsOf(Empty) = {} /\ ToSet(Empty.txs) = {}
         /\ Right(Empty, x) /\ Exact(Empty, x)
<1>1. <<>> \in Seq(Entries) /\ ToSet(<<>>) = {} /\ DOMAIN <<>> = {}
  BY EmptyFacts
<1>2. Empty \in Stores /\ ToSet(Empty.txs) = {} /\ DOMAIN Empty.txs = {}
  BY <1>1 DEF Empty, Stores
<1>3. TxsOf(Empty) = {}
  BY <1>2 DEF TxsOf
<1>4. Empty.unspent = {} /\ Empty.spent = {}
  BY DEF Empty
<1> QED
  BY <1>2, <1>3, <1>4 DEF Right, Exact, Once, In, Out

\* One transaction more, if it was not stored before.
LEMMA AppendTxFacts ==
  ASSUME NEW s \in Stores, NEW x, NEW e \in Entries
  PROVE  LET r == AppendTx(s, x, e)
         IN  /\ r \in Stores
             /\ e.tx \in TxsOf(s) => r = s
             /\ e.tx \notin TxsOf(s) => r.txs = Append(s.txs, e)
             /\ TxsOf(r) = TxsOf(s) \cup {e.tx}
<1> DEFINE r == AppendTx(s, x, e)
<1>1. Seen(s, e.tx) <=> e.tx \in TxsOf(s)
  BY DEF Seen, TxsOf
<1>2. CASE e.tx \in TxsOf(s)
  BY <1>1, <1>2 DEF AppendTx
<1>3. CASE e.tx \notin TxsOf(s)
  <2>1. r = [txs |-> Append(s.txs, e),
             unspent |-> (s.unspent \cup Received(e.tx, x)) \ (s.spent \cup SpentBy(e.tx, x)),
             spent |-> (s.spent \cup SpentBy(e.tx, x)) \ (s.unspent \cup Received(e.tx, x))]
    BY <1>1, <1>3 DEF AppendTx
  <2>2. s.txs \in Seq(Entries) /\ s.unspent \subseteq Txs /\ s.spent \subseteq Txs
    BY StoreFacts
  <2>3. Received(e.tx, x) \subseteq Txs /\ SpentBy(e.tx, x) \subseteq Txs
    BY DEF Received, SpentBy, Entries
  <2>4. Append(s.txs, e) \in Seq(Entries) /\ ToSet(Append(s.txs, e)) = ToSet(s.txs) \cup {e}
    BY <2>2, AppendFacts
  <2>5. r \in Stores /\ r.txs = Append(s.txs, e)
    BY <2>1, <2>2, <2>3, <2>4 DEF Stores
  <2>6. TxsOf(r) = TxsOf(s) \cup {e.tx}
    <3> HIDE DEF r
    <3> QED
      BY <2>4, <2>5 DEF TxsOf
  <2> QED
    BY <1>3, <2>5, <2>6
<1> QED
  BY <1>2, <1>3

LEMMA AppendTxRight ==
  ASSUME NEW s \in Stores, NEW x, NEW e \in Entries, Right(s, x), Exact(s, x)
  PROVE  Right(AppendTx(s, x, e), x) /\ Exact(AppendTx(s, x, e), x)
<1> DEFINE r == AppendTx(s, x, e)
           t == e.tx
           S == TxsOf(s)
           R == Received(t, x)
           P == SpentBy(t, x)
<1>1. CASE t \in S
  BY <1>1, AppendTxFacts
<1>2. CASE t \notin S
  <2>1. /\ r.txs = Append(s.txs, e) /\ TxsOf(r) = S \cup {t}
    BY <1>2, AppendTxFacts
  <2>2. /\ r.unspent = (s.unspent \cup R) \ (s.spent \cup P)
        /\ r.spent = (s.spent \cup P) \ (s.unspent \cup R)
    BY <1>2 DEF AppendTx, Seen, TxsOf
  <2>3. Once(r)
    <3>1. s.txs \in Seq(Entries) /\ Len(s.txs) \in Nat /\ DOMAIN s.txs = 1..Len(s.txs)
      BY StoreFacts
    <3>2. /\ DOMAIN r.txs = 1..(Len(s.txs) + 1)
          /\ \A i \in 1..Len(s.txs) : r.txs[i] = s.txs[i]
          /\ r.txs[Len(s.txs) + 1] = e
      BY <2>1, <3>1
    <3>3. \A i \in 1..Len(s.txs) : s.txs[i].tx # t
      BY <1>2, <3>1 DEF TxsOf, ToSet
    <3>4. \A i, j \in 1..Len(s.txs) : s.txs[i].tx = s.txs[j].tx => i = j
      BY <3>1 DEF Right, Once
    <3> DEFINE n == Len(s.txs)
    <3> HIDE DEF n, r
    <3>5. \A i \in 1..(n + 1) : i \in 1..n \/ i = n + 1
      BY <3>1 DEF n
    <3> QED
      BY <3>2, <3>3, <3>4, <3>5 DEF Once, n
  <2> HIDE DEF r, R, P, S, t
  <2>4. In(S \cup {t}, x) = In(S, x) \cup R /\ Out(S \cup {t}, x) = Out(S, x) \cup P
    BY DEF In, Out, R, P
  <2>5. /\ s.unspent = In(S, x) \ Out(S, x)
        /\ Out(S, x) \ In(S, x) \subseteq s.spent /\ s.spent \subseteq Out(S, x)
    BY DEF Right, Exact, S
  <2>6. R \cap In(S, x) = {}
    BY <1>2 DEF In, R, Received
  <2>7. /\ r.unspent = (In(S, x) \cup R) \ (Out(S, x) \cup P)
        /\ (Out(S, x) \cup P) \ (In(S, x) \cup R) \subseteq r.spent
        /\ r.spent \subseteq Out(S, x) \cup P
    BY <2>2, <2>5, <2>6, Zenon
  <2>8. Right(r, x) /\ Exact(r, x)
    BY <2>1, <2>3, <2>4, <2>7 DEF Right, Exact
  <2> QED
    BY <2>8 DEF r
<1> QED
  BY <1>1, <1>2

\* What appendTxs is the last value of.
StoredBy(f, s, x, txs) ==
  /\ f[0] = s
  /\ \A i \in 1..Len(txs) : f[i] = AppendTx(f[i - 1], x, txs[i])
  /\ appendTxs(s, x, txs) = f[Len(txs)]

LEMMA AppendSteps ==
  ASSUME NEW s \in Stores, NEW x, NEW txs \in Seq(Entries)
  PROVE  \E f \in [0..Len(txs) -> Stores] : StoredBy(f, s, x, txs)
<1> DEFINE n == Len(txs)
           Rec(f) == f = [i \in 0..n |-> IF i = 0 THEN s ELSE AppendTx(f[i - 1], x, txs[i])]
           upTo == CHOOSE f : Rec(f)
           F == [i \in 1..n |-> [r \in Stores |-> AppendTx(r, x, txs[i])]]
<1>0. n \in Nat /\ \A i \in 1..n : txs[i] \in Entries
  OBVIOUS
<1>1. appendTxs(s, x, txs) = upTo[n]
  BY DEF appendTxs
<1> HIDE DEF n
<1>2. ASSUME NEW i \in 1..n, NEW r \in Stores PROVE AppendTx(r, x, txs[i]) \in Stores
  BY <1>0, AppendTxFacts
<1>3. F \in [1..n -> [Stores -> Stores]]
  BY <1>2
<1>4. PICK f \in [0..n -> Stores] : f[0] = s /\ \A i \in 1..n : f[i] = F[i][f[i - 1]]
  <2> HIDE DEF F
  <2>1. Iterated(Stores, n, s, F)
    BY <1>0, <1>3, Iterates
  <2> QED
    BY <2>1 DEF Iterated
<1>5. ASSUME NEW i \in 1..n PROVE f[i] = AppendTx(f[i - 1], x, txs[i])
  <2>1. i - 1 \in 0..n
    BY <1>0
  <2>2. f[i - 1] \in Stores
    BY <2>1
  <2> QED
    BY <1>4, <2>2
<1>6. Rec(f)
  <2>1. ASSUME NEW i \in 0..n
        PROVE  f[i] = IF i = 0 THEN s ELSE AppendTx(f[i - 1], x, txs[i])
    <3>1. i = 0 \/ i \in 1..n
      BY <1>0
    <3> QED
      BY <1>4, <1>5, <3>1
  <2> QED
    BY <2>1
<1>7. Rec(upTo)
  <2> HIDE DEF Rec
  <2> QED
    BY <1>6
<1> HIDE DEF upTo
<1>10. \A i \in 0..n : upTo[i] = IF i = 0 THEN s ELSE AppendTx(upTo[i - 1], x, txs[i])
  BY <1>7, Zenon
<1>8. \A k \in 0..n : upTo[k] = f[k]
  <2> DEFINE T == {k \in Nat : k <= n => upTo[k] = f[k]}
  <2>1. 0 \in T
    BY <1>0, <1>4, <1>7
  <2>2. ASSUME NEW k \in Nat, k \in T PROVE k + 1 \in T
    <3> SUFFICES ASSUME k + 1 <= n PROVE upTo[k + 1] = f[k + 1]
      OBVIOUS
    <3>1. k + 1 \in 1..n /\ k + 1 \in 0..n /\ k + 1 # 0 /\ k + 1 - 1 = k
      BY <1>0
    <3>2. upTo[k] = f[k]
      BY <1>0, <2>2
    <3>3. upTo[k + 1] = AppendTx(upTo[k], x, txs[k + 1])
      BY <1>10, <3>1
    <3>4. f[k + 1] = AppendTx(f[k], x, txs[k + 1])
      BY <1>5, <3>1
    <3> QED
      BY <3>2, <3>3, <3>4
  <2>3. Nat \subseteq T
    <3> HIDE DEF T
    <3> QED
      BY <2>1, <2>2, Induct
  <2> QED
    BY <1>0, <2>3
<1>9. upTo[n] = f[n]
  BY <1>0, <1>8
<1> QED
  BY <1>1, <1>4, <1>5, <1>9 DEF StoredBy, n

\* r is s after the first k of txs.
GrownBy(r, s, x, txs, k) ==
  /\ ToSet(s.txs) \subseteq ToSet(r.txs)
  /\ \A e \in ToSet(r.txs) : e \in ToSet(s.txs) \/ \E i \in 1..k : txs[i] = e
  /\ \A t : t \in TxsOf(r) <=> t \in TxsOf(s) \/ \E i \in 1..k : txs[i].tx = t
  /\ \A a, b : Before(r.txs, a, b) =>
       \/ Before(s.txs, a, b)
       \/ a \in ToSet(s.txs) /\ \E i \in 1..k : txs[i] = b /\ b.tx \notin TxsOf(s)
       \/ \E i, j \in 1..k : i < j /\ txs[i] = a /\ txs[j] = b
  /\ Right(s, x) /\ Exact(s, x) => Right(r, x) /\ Exact(r, x)

LEMMA AppendTxsFacts ==
  ASSUME NEW s \in Stores, NEW x, NEW txs \in Seq(Entries)
  PROVE  appendTxs(s, x, txs) \in Stores /\ GrownBy(appendTxs(s, x, txs), s, x, txs, Len(txs))
<1> DEFINE n == Len(txs)
<1>0. n \in Nat /\ \A i \in 1..n : txs[i] \in Entries
  OBVIOUS
<1>1. PICK f \in [0..n -> Stores] : StoredBy(f, s, x, txs)
  BY AppendSteps
<1>2. /\ f[0] = s /\ appendTxs(s, x, txs) = f[n]
      /\ \A i \in 1..n : f[i] = AppendTx(f[i - 1], x, txs[i])
  BY <1>1 DEF StoredBy
<1> HIDE DEF n
<1> DEFINE T == {k \in Nat : k <= n => GrownBy(f[k], s, x, txs, k)}
<1>3. 0 \in T
  <2>1. \A i : i \notin 1..0
    OBVIOUS
  <2> QED
    BY <1>2, <2>1 DEF GrownBy
<1>4. ASSUME NEW k \in Nat, k \in T PROVE k + 1 \in T
  <2> SUFFICES ASSUME k + 1 <= n PROVE GrownBy(f[k + 1], s, x, txs, k + 1)
    OBVIOUS
  <2>1. k + 1 \in 1..n /\ k \in 0..n /\ k <= n /\ k + 1 - 1 = k
    BY <1>0
  <2>2. GrownBy(f[k], s, x, txs, k)
    BY <1>4, <2>1
  <2> DEFINE p == f[k]
             e == txs[k + 1]
             r == f[k + 1]
  <2>3. p \in Stores /\ e \in Entries /\ r = AppendTx(p, x, e)
    <3>1. f[k + 1] = AppendTx(f[k + 1 - 1], x, txs[k + 1])
      BY <1>2, <2>1
    <3> QED
      BY <1>0, <2>1, <3>1
  <2>4. p.txs \in Seq(Entries)
    BY <2>3, StoreFacts
  <2>5. /\ e.tx \in TxsOf(p) => r = p
        /\ e.tx \notin TxsOf(p) => r.txs = Append(p.txs, e)
        /\ TxsOf(r) = TxsOf(p) \cup {e.tx}
    BY <2>3, AppendTxFacts
  <2>6. Right(p, x) /\ Exact(p, x) => Right(r, x) /\ Exact(r, x)
    BY <2>3, AppendTxRight
  <2>7. \A i : i \in 1..(k + 1) <=> i \in 1..k \/ i = k + 1
    BY <1>0
  <2>8. \A i \in 1..k : i < k + 1
    BY <1>0
  <2> HIDE DEF p, e, r
  <2>9. txs[k + 1] = e /\ f[k] = p /\ f[k + 1] = r
    BY DEF p, e, r
  <2>10. \A t : t \in TxsOf(r) <=> t \in TxsOf(s) \/ \E i \in 1..(k + 1) : txs[i].tx = t
    BY <2>2, <2>5, <2>7, <2>9 DEF GrownBy
  <2>11. CASE e.tx \in TxsOf(p)
    BY <2>2, <2>5, <2>6, <2>7, <2>9, <2>10, <2>11 DEF GrownBy
  <2>12. CASE e.tx \notin TxsOf(p)
    <3>1. /\ ToSet(r.txs) = ToSet(p.txs) \cup {e}
          /\ \A a, b : Before(r.txs, a, b) <=> Before(p.txs, a, b) \/ (a \in ToSet(p.txs) /\ b = e)
      <4> DEFINE l == p.txs
      <4>1. l \in Seq(Entries) /\ e \in Entries /\ r.txs = Append(l, e)
        BY <2>3, <2>4, <2>5, <2>12
      <4> HIDE DEF l
      <4>2. /\ ToSet(Append(l, e)) = ToSet(l) \cup {e}
            /\ \A a, b : Before(Append(l, e), a, b) <=> Before(l, a, b) \/ (a \in ToSet(l) /\ b = e)
        BY <4>1, AppendFacts
      <4> QED
        BY <4>1, <4>2 DEF l
    <3>2. e.tx \notin TxsOf(s)
      BY <2>2, <2>9, <2>12 DEF GrownBy
    <3>3. ASSUME NEW a, NEW b, Before(r.txs, a, b)
          PROVE  \/ Before(s.txs, a, b)
                 \/ a \in ToSet(s.txs) /\ \E i \in 1..(k + 1) : txs[i] = b /\ b.tx \notin TxsOf(s)
                 \/ \E i, j \in 1..(k + 1) : i < j /\ txs[i] = a /\ txs[j] = b
      <4>1. CASE Before(p.txs, a, b)
        BY <2>2, <2>7, <2>9, <4>1 DEF GrownBy
      <4>2. CASE a \in ToSet(p.txs) /\ b = e
        <5>1. CASE a \in ToSet(s.txs)
          BY <2>7, <2>9, <3>2, <4>2, <5>1
        <5>2. CASE \E i \in 1..k : txs[i] = a
          BY <2>7, <2>8, <2>9, <4>2, <5>2
        <5> QED
          BY <2>2, <2>9, <4>2, <5>1, <5>2 DEF GrownBy
      <4> QED
        BY <3>1, <3>3, <4>1, <4>2
    <3>4. /\ ToSet(s.txs) \subseteq ToSet(r.txs)
          /\ \A d \in ToSet(r.txs) : d \in ToSet(s.txs) \/ \E i \in 1..(k + 1) : txs[i] = d
          /\ Right(s, x) /\ Exact(s, x) => Right(r, x) /\ Exact(r, x)
      BY <2>2, <2>6, <2>7, <2>9, <3>1 DEF GrownBy
    <3> QED
      BY <2>9, <2>10, <3>3, <3>4 DEF GrownBy
  <2> QED
    BY <2>11, <2>12
<1>5. n \in T
  <2> HIDE DEF T
  <2> QED
    BY <1>0, <1>3, <1>4, Induct
<1>6. GrownBy(f[n], s, x, txs, n) /\ f[n] \in Stores
  BY <1>0, <1>5
<1> QED
  BY <1>2, <1>6 DEF n

\* Nothing is lost of what was right, whatever is appended.
LEMMA AppendTxsRight ==
  ASSUME NEW s \in Stores, NEW x, NEW txs \in Seq(Entries), Right(s, x), Exact(s, x)
  PROVE  Right(appendTxs(s, x, txs), x) /\ Exact(appendTxs(s, x, txs), x)
BY AppendTxsFacts DEF GrownBy

\* What is in a block.
Sure(s) == {e \in ToSet(s.txs) : e.block # NoBlock}

\* What is in a block is stored in the order of the blocks.
Rising(s) ==
  \A a, b : Before(s.txs, a, b) /\ a.block # NoBlock /\ b.block # NoBlock =>
    a.block.height < b.block.height

LEMMA OnceEntry ==
  ASSUME NEW s \in Stores, Once(s), NEW d \in ToSet(s.txs), NEW e \in ToSet(s.txs), d.tx = e.tx
  PROVE  d = e
<1>1. s.txs \in Seq(Entries) /\ DOMAIN s.txs = 1..Len(s.txs)
  BY StoreFacts
<1>2. PICK i \in DOMAIN s.txs : s.txs[i] = d
  BY <1>1, SeqFacts
<1>3. PICK j \in DOMAIN s.txs : s.txs[j] = e
  BY <1>1, SeqFacts
<1> QED
  BY <1>2, <1>3 DEF Once

\* As many transactions as entries.
LEMMA OnceCounts ==
  ASSUME NEW s \in Stores, Once(s)
  PROVE  Cardinality(TxsOf(s)) = Len(s.txs) /\ IsFiniteSet(TxsOf(s))
<1> DEFINE n == Len(s.txs)
           f == [i \in 1..n |-> s.txs[i].tx]
<1>1. s.txs \in Seq(Entries) /\ n \in Nat /\ DOMAIN s.txs = 1..n
  BY StoreFacts
<1>2. \A t : t \in TxsOf(s) <=> \E i \in 1..n : s.txs[i].tx = t
  <2>1. \A e : e \in ToSet(s.txs) <=> \E i \in 1..n : s.txs[i] = e
    BY <1>1, SeqFacts
  <2> QED
    BY <2>1 DEF TxsOf
<1> HIDE DEF n
<1>3. f \in [1..n -> TxsOf(s)]
  BY <1>2
<1>4. \A i, j \in 1..n : f[i] = f[j] => i = j
  BY <1>1 DEF Once
<1>5. \A t \in TxsOf(s) : \E i \in 1..n : f[i] = t
  BY <1>2
<1> HIDE DEF f
<1>6. f \in Bijection(1..n, TxsOf(s))
  BY <1>3, <1>4, <1>5 DEF Bijection, Injection, IsInjective, Surjection
<1>7. IsFiniteSet(1..n) /\ Cardinality(1..n) = n
  BY <1>1, FS_Interval
<1>8. IsFiniteSet(TxsOf(s)) /\ Cardinality(TxsOf(s)) = Cardinality(1..n)
  BY <1>6, <1>7, FS_Bijection DEF ExistsBijection
<1> QED
  BY <1>7, <1>8 DEF n

LEMMA ConfirmedFacts ==
  ASSUME NEW s \in Stores
  PROVE  /\ Confirmed(s.txs) \in Seq(Entries)
         /\ ToSet(Confirmed(s.txs)) = Sure(s)
         /\ \A a, b : Before(Confirmed(s.txs), a, b) => Before(s.txs, a, b)
<1> DEFINE l == s.txs
           K == {e \in ToSet(l) : e.block # NoBlock}
<1>1. l \in Seq(Entries)
  BY StoreFacts
<1>2. Confirmed(l) = Keeping(l, K)
  BY DEF Confirmed
<1>3. ToSet(l) \cap K = Sure(s)
  BY DEF Sure
<1> HIDE DEF l, K
<1>4. /\ Keeping(l, K) \in Seq(Entries)
      /\ ToSet(Keeping(l, K)) = ToSet(l) \cap K
      /\ \A x, y : Before(Keeping(l, K), x, y) => Before(l, x, y)
  BY <1>1, KeepingFacts
<1> QED
  BY <1>2, <1>3, <1>4 DEF l

LEMMA LastFacts ==
  ASSUME NEW s \in Stores
  PROVE  /\ LastConfirmed(s) \in Entries \cup {NoTx}
         /\ LastConfirmed(s) = NoTx <=> Sure(s) = {}
         /\ Sure(s) # {} => LastConfirmed(s) \in Sure(s)
         /\ Rising(s) => \A e \in Sure(s) : e = LastConfirmed(s)
                           \/ e.block.height < LastConfirmed(s).block.height
<1> DEFINE c == Confirmed(s.txs)
           l == Last(c)
<1>1. /\ c \in Seq(Entries) /\ ToSet(c) = Sure(s)
      /\ \A a, b : Before(c, a, b) => Before(s.txs, a, b)
  BY ConfirmedFacts
<1>2. LastConfirmed(s) = IF c = <<>> THEN NoTx ELSE l
  BY DEF LastConfirmed
<1>3. Sure(s) \subseteq Entries /\ \A e \in Sure(s) : e.block # NoBlock
  BY StoreFacts DEF Sure
<1>4. NoTx \notin Sure(s)
  BY <1>3 DEF NoTx
<1> HIDE DEF c
<1>5. /\ Len(c) \in Nat /\ DOMAIN c = 1..Len(c)
      /\ c = <<>> <=> Sure(s) = {}
      /\ \A e : e \in Sure(s) <=> \E i \in 1..Len(c) : c[i] = e
  BY <1>1, SeqFacts
<1>6. CASE c = <<>>
  BY <1>2, <1>5, <1>6
<1>7. CASE c # <<>>
  <2>1. Len(c) \in 1..Len(c) /\ l = c[Len(c)]
    BY <1>1, <1>5, <1>7 DEF Last
  <2>2. l \in Sure(s)
    BY <1>5, <2>1
  <2>3. ASSUME Rising(s), NEW e \in Sure(s), e # l PROVE e.block.height < l.block.height
    <3>1. PICK i \in 1..Len(c) : c[i] = e
      BY <1>5
    <3>2. i < Len(c)
      BY <1>5, <2>1, <2>3, <3>1
    <3>3. Before(c, e, l)
      BY <1>5, <2>1, <3>1, <3>2 DEF Before
    <3>4. Before(s.txs, e, l) /\ e.block # NoBlock /\ l.block # NoBlock
      BY <1>1, <1>3, <2>2, <3>3
    <3> QED
      BY <2>3, <3>4 DEF Rising
  <2> QED
    BY <1>2, <1>3, <1>4, <1>5, <1>7, <2>2, <2>3
<1> QED
  BY <1>6, <1>7

\* The same blocks have the same last one.
LEMMA LastIs ==
  ASSUME NEW s \in Stores, NEW r \in Stores, Rising(s), Rising(r), Sure(r) = Sure(s)
  PROVE  LastConfirmed(r) = LastConfirmed(s)
<1>1. CASE Sure(s) = {}
  BY <1>1, LastFacts
<1>2. CASE Sure(s) # {}
  <2> DEFINE a == LastConfirmed(s)
             b == LastConfirmed(r)
  <2>1. a \in Sure(s) /\ b \in Sure(s)
    BY <1>2, LastFacts
  <2>2. a.block.height \in Int /\ b.block.height \in Int
    BY <2>1, StoreFacts DEF Sure, Entries, Blocks
  <2>3. (b = a \/ b.block.height < a.block.height) /\ (a = b \/ a.block.height < b.block.height)
    BY <2>1, LastFacts
  <2> QED
    BY <2>2, <2>3
<1> QED
  BY <1>1, <1>2

LEMMA CleanFacts ==
  ASSUME NEW s \in Stores, NEW x, Right(s, x)
  PROVE  LET r == CleanPendings(s, x)
         IN  /\ r \in Stores /\ ToSet(r.txs) = Sure(s) /\ Sure(r) = Sure(s)
             /\ Right(r, x) /\ (Exact(s, x) \/ HasPendings(s) => Exact(r, x))
             /\ r = s \/ Exact(r, x)
             /\ Rising(s) => Rising(r) /\ LastConfirmed(r) = LastConfirmed(s)
<1> DEFINE c == Confirmed(s.txs)
           r == appendTxs(Empty, x, c)
<1>1. CASE ~HasPendings(s)
  <2>1. CleanPendings(s, x) = s
    BY <1>1 DEF CleanPendings
  <2>2. ToSet(s.txs) = Sure(s)
    BY <1>1 DEF HasPendings, Sure
  <2> QED
    BY <1>1, <2>1, <2>2
<1>2. CASE HasPendings(s)
  <2>1. CleanPendings(s, x) = r
    BY <1>2 DEF CleanPendings, removePendingTxs
  <2>2. c \in Seq(Entries) /\ ToSet(c) = Sure(s) /\ \A a, b : Before(c, a, b) => Before(s.txs, a, b)
    BY ConfirmedFacts
  <2>3. /\ Empty \in Stores /\ TxsOf(Empty) = {} /\ ToSet(Empty.txs) = {}
        /\ Right(Empty, x) /\ Exact(Empty, x)
    BY EmptyStore
  <2> HIDE DEF c
  <2>4. r \in Stores /\ GrownBy(r, Empty, x, c, Len(c))
    BY <2>2, <2>3, AppendTxsFacts
  <2> HIDE DEF r
  <2>5. Right(r, x) /\ Exact(r, x)
    BY <2>3, <2>4 DEF GrownBy
  <2>6. /\ DOMAIN c = 1..Len(c)
        /\ \A e : e \in Sure(s) <=> \E i \in 1..Len(c) : c[i] = e
    BY <2>2, SeqFacts
  <2>7. ToSet(r.txs) \subseteq Sure(s)
    BY <2>3, <2>4, <2>6 DEF GrownBy
  <2>8. ASSUME NEW e \in Sure(s) PROVE e \in ToSet(r.txs)
    <3>1. e.tx \in TxsOf(r)
      BY <2>4, <2>6 DEF GrownBy
    <3>2. PICK d \in ToSet(r.txs) : d.tx = e.tx
      BY <3>1 DEF TxsOf
    <3>3. d \in ToSet(s.txs) /\ e \in ToSet(s.txs)
      BY <2>7 DEF Sure
    <3> QED
      BY <3>2, <3>3, OnceEntry DEF Right
  <2>9. ToSet(r.txs) = Sure(s) /\ Sure(r) = Sure(s)
    BY <2>7, <2>8 DEF Sure
  <2>10. ASSUME Rising(s) PROVE Rising(r)
    <3>1. ASSUME NEW a, NEW b, Before(r.txs, a, b) PROVE Before(s.txs, a, b)
      <4>1. ~Before(Empty.txs, a, b)
        BY <2>3, SeqFacts DEF Before, ToSet
      <4>2. \E i, j \in 1..Len(c) : i < j /\ c[i] = a /\ c[j] = b
        BY <2>3, <2>4, <3>1, <4>1 DEF GrownBy
      <4>3. Before(c, a, b)
        BY <2>6, <4>2 DEF Before
      <4> QED
        BY <2>2, <4>3
    <3> QED
      BY <2>10, <3>1 DEF Rising
  <2> QED
    BY <2>1, <2>4, <2>5, <2>9, <2>10, LastIs
<1> QED
  BY <1>1, <1>2

(***************************************************************************)
(* What the explorer answers.                                              *)
(***************************************************************************)

ChainType ==
  /\ chain \in Seq([id : Nat \ {0}, tx : Txs \cup {"none"}])
  /\ pool \subseteq Txs /\ IsFiniteSet(pool)

LEMMA ChainFacts ==
  ASSUME ChainType
  PROVE  /\ Len(chain) \in Nat /\ DOMAIN chain = 1..Len(chain)
         /\ \A h \in 1..Len(chain) : /\ chain[h].id \in Nat \ {0}
                                     /\ chain[h].tx \in Txs \cup {"none"}
         /\ \A x : Heights(x) \subseteq 1..Len(chain)
         /\ \A x : \A h \in Heights(x) : /\ Entry(h) \in Entries /\ Entry(h).block # NoBlock
                                         /\ Entry(h).block.height = h
                                         /\ Entry(h).block.id = chain[h].id
                                         /\ Entry(h).tx = chain[h].tx
<1>1. /\ Len(chain) \in Nat /\ DOMAIN chain = 1..Len(chain)
      /\ \A h \in 1..Len(chain) : /\ chain[h].id \in Nat \ {0}
                                  /\ chain[h].tx \in Txs \cup {"none"}
  <2> DEFINE B == [id : Nat \ {0}, tx : Txs \cup {"none"}]
  <2>1. chain \in Seq(B)
    BY DEF ChainType
  <2>2. Len(chain) \in Nat /\ DOMAIN chain = 1..Len(chain) /\ \A h \in 1..Len(chain) : chain[h] \in B
    <3> HIDE DEF B
    <3> QED
      BY <2>1
  <2> QED
    BY <2>2
<1>2. \A x : Heights(x) \subseteq 1..Len(chain) /\ \A h \in Heights(x) : chain[h].tx \in Txs
  BY DEF Heights
<1>3. ASSUME NEW x, NEW h \in Heights(x)
      PROVE  /\ Entry(h) \in Entries /\ Entry(h).block # NoBlock
             /\ Entry(h).block.height = h
             /\ Entry(h).block.id = chain[h].id
             /\ Entry(h).tx = chain[h].tx
  <2>1. h \in 1..Len(chain) /\ h \in Nat /\ chain[h].tx \in Txs /\ chain[h].id \in Nat
        /\ chain[h].id # 0
    BY <1>1, <1>2
  <2>2. Entry(h) = [tx |-> chain[h].tx, block |-> [height |-> h, id |-> chain[h].id]]
    BY DEF Entry
  <2> QED
    BY <2>1, <2>2 DEF Entries, Blocks, NoBlock
<1> QED
  BY <1>1, <1>2, <1>3

LEMMA CutFacts ==
  ASSUME NEW A, NEW s \in Seq(A), NEW n \in Nat
  PROVE  /\ Cut(s, n) \in Seq(A)
         /\ Len(Cut(s, n)) = IF Len(s) < n THEN Len(s) ELSE n
         /\ \A i \in 1..Len(Cut(s, n)) : i \in 1..Len(s) /\ Cut(s, n)[i] = s[i]
<1> DEFINE m == IF Len(s) < n THEN Len(s) ELSE n
<1>1. Len(s) \in Nat /\ m \in Nat /\ m <= Len(s)
  OBVIOUS
<1>2. Cut(s, n) = SubSeq(s, 1, m)
  BY DEF Cut
<1> HIDE DEF m
<1>3. SubSeq(s, 1, m) \in Seq(A) /\ Len(SubSeq(s, 1, m)) = m
      /\ \A i \in 1..m : SubSeq(s, 1, m)[i] = s[i]
  BY <1>1
<1> QED
  BY <1>1, <1>2, <1>3 DEF m

\* An order of a finite set holds each of its members once.
LEMMA OrderFacts ==
  ASSUME NEW S, IsFiniteSet(S), NEW s \in SetToSeqs(S)
  PROVE  /\ s \in Seq(S) /\ ToSet(s) = S
         /\ \A i, j \in 1..Len(s) : s[i] = s[j] => i = j
<1> DEFINE n == Cardinality(S)
<1>2. n \in Nat
  BY FS_CardinalityType
<1>3. s \in [1..n -> S] /\ \A i, j \in 1..n : i # j => s[i] # s[j]
  BY DEF SetToSeqs
<1> HIDE DEF n
<1>4. s \in Seq(S) /\ DOMAIN s = 1..n /\ Len(s) = n
  BY <1>2, <1>3, SeqDef
<1>5. ToSet(s) = S
  <2>1. ToSet(s) \subseteq S
    BY <1>3 DEF ToSet
  <2>2. s \in Injection(1..n, ToSet(s))
    BY <1>3, <1>4, Zenon DEF Injection, IsInjective, ToSet
  <2>3. Cardinality(1..n) = n /\ IsFiniteSet(1..n)
    BY <1>2, FS_Interval
  <2>4. IsFiniteSet(ToSet(s))
    BY <2>1, FS_Subset
  <2>5. n <= Cardinality(ToSet(s))
    BY <2>2, <2>3, <2>4, FS_Injection
  <2>6. Cardinality(ToSet(s)) <= n /\ (Cardinality(ToSet(s)) = n => ToSet(s) = S)
    BY <2>1, FS_Subset DEF n
  <2>7. Cardinality(ToSet(s)) \in Nat
    BY <2>4, FS_CardinalityType
  <2> QED
    BY <1>2, <2>5, <2>6, <2>7
<1> QED
  BY <1>3, <1>4, <1>5

\* The heights of the blocks of a page.
ConfirmedPart(page, x, from, hs) ==
  /\ page.confirmed \in Seq(Entries)
  /\ hs \in Seq(Nat) /\ Len(hs) = Len(page.confirmed) /\ Len(hs) <= PageSize
  /\ \A i \in 1..Len(hs) : page.confirmed[i] = Entry(hs[i]) /\ hs[i] \in Heights(x) /\ hs[i] >= from
  /\ \A i, j \in 1..Len(hs) : i < j => hs[i] < hs[j]
  /\ \A h \in Heights(x) : h >= from =>
       (\E i \in 1..Len(hs) : hs[i] = h) \/ (Len(hs) = PageSize /\ hs[PageSize] < h)

\* What waits, as far as it fits.
PendingPart(page, x) ==
  /\ page.pending \in Seq(Entries)
  /\ \A i \in 1..Len(page.pending) : \E t \in Waiting(x) : page.pending[i] = Unconfirmed(t)
  /\ \A i, j \in 1..Len(page.pending) : page.pending[i].tx = page.pending[j].tx => i = j
  /\ Len(page.confirmed) + Len(page.pending) <= PageSize
  /\ \/ \A t \in Waiting(x) : \E i \in 1..Len(page.pending) : page.pending[i] = Unconfirmed(t)
     \/ Len(page.confirmed) + Len(page.pending) = PageSize

From(last) == IF last = NoTx THEN 1 ELSE last.block.height

\* The heights of a page are the first ones of the chain.
PageHeights(x, from) ==
  Cut(Keeping([h \in 1..Len(chain) |-> h], Heights(x) \cap (from..Len(chain))), PageSize)

LEMMA HeightsFacts ==
  ASSUME ChainType, NEW x, NEW from \in Nat
  PROVE  LET hs == PageHeights(x, from)
         IN  /\ hs \in Seq(Nat) /\ Len(hs) \in Nat /\ Len(hs) <= PageSize
             /\ \A i \in 1..Len(hs) : hs[i] \in Heights(x) /\ hs[i] >= from
             /\ \A i, j \in 1..Len(hs) : i < j => hs[i] < hs[j]
             /\ \A h \in Heights(x) : h >= from =>
                  (\E i \in 1..Len(hs) : hs[i] = h) \/ (Len(hs) = PageSize /\ hs[PageSize] < h)
<1> DEFINE n == Len(chain)
           id == [h \in 1..n |-> h]
           K == Heights(x) \cap (from..n)
           all == Keeping(id, K)
           hs == Cut(all, PageSize)
           N == PageSize
<1>1. n \in Nat /\ Heights(x) \subseteq 1..n /\ N \in Nat
  BY ChainFacts, XpubAssumption
<1>2. id \in Seq(Nat) /\ Len(id) = n /\ DOMAIN id = 1..n /\ \A i \in 1..n : id[i] = i
  <2> HIDE DEF n
  <2> QED
    BY <1>1
<1>3. PageHeights(x, from) = hs
  BY DEF PageHeights
<1> HIDE DEF id, N, n
<1>4. /\ all \in Seq(Nat) /\ ToSet(all) = ToSet(id) \cap K
      /\ \A a, b : Before(all, a, b) => Before(id, a, b)
  BY <1>2, KeepingFacts
<1>5. ToSet(id) = 1..n
  BY <1>2 DEF ToSet
<1>6. \A h : h \in K <=> h \in Heights(x) /\ h >= from
  BY <1>1
<1> HIDE DEF K, all
<1>7. /\ Len(all) \in Nat /\ DOMAIN all = 1..Len(all)
      /\ \A h : h \in Heights(x) /\ h >= from <=> \E i \in 1..Len(all) : all[i] = h
  <2>1. \A h : h \in ToSet(all) <=> h \in Heights(x) /\ h >= from
    BY <1>1, <1>4, <1>5, <1>6
  <2> QED
    BY <1>4, <2>1, SeqFacts
<1>8. ASSUME NEW i \in 1..Len(all), NEW j \in 1..Len(all), i < j PROVE all[i] < all[j]
  <2>1. Before(all, all[i], all[j])
    BY <1>7, <1>8 DEF Before
  <2>2. Before(id, all[i], all[j])
    BY <1>4, <2>1
  <2> QED
    BY <1>1, <1>2, <2>2 DEF Before
<1>9. /\ hs \in Seq(Nat) /\ Len(hs) = IF Len(all) < N THEN Len(all) ELSE N
      /\ \A i \in 1..Len(hs) : i \in 1..Len(all) /\ hs[i] = all[i]
  BY <1>1, <1>4, CutFacts DEF N
<1> HIDE DEF hs
<1>10. /\ Len(hs) \in Nat /\ Len(hs) <= N
       /\ \A i \in 1..Len(hs) : hs[i] \in Heights(x) /\ hs[i] >= from
       /\ \A i, j \in 1..Len(hs) : i < j => hs[i] < hs[j]
  BY <1>1, <1>7, <1>8, <1>9
<1>11. ASSUME NEW h \in Heights(x), h >= from
       PROVE  (\E i \in 1..Len(hs) : hs[i] = h) \/ (Len(hs) = N /\ hs[N] < h)
  <2>1. PICK i \in 1..Len(all) : all[i] = h
    BY <1>7, <1>11
  <2>2. CASE i \in 1..Len(hs)
    BY <1>9, <2>1, <2>2
  <2>3. CASE i \notin 1..Len(hs)
    <3>1. Len(hs) = N /\ i > N
      <4> DEFINE m == Len(hs)
                 k == Len(all)
      <4>1. m = (IF k < N THEN k ELSE N) /\ k \in Nat /\ i \in 1..k /\ i \notin 1..m
        BY <1>7, <1>9, <2>3
      <4> HIDE DEF m, k
      <4>2. m = N /\ i > N
        BY <1>1, <4>1
      <4> QED
        BY <4>2 DEF m
    <3>2. N # 0
      BY XpubAssumption DEF N
    <3>3. N \in 1..Len(hs) /\ N \in 1..Len(all)
      BY <1>1, <1>7, <3>1, <3>2
    <3>4. hs[N] = all[N] /\ all[N] < all[i]
      BY <1>8, <1>9, <3>1, <3>3
    <3> QED
      BY <2>1, <3>1, <3>4
  <2> QED
    BY <2>2, <2>3
<1> QED
  BY <1>3, <1>9, <1>10, <1>11 DEF N

LEMMA PageFacts ==
  ASSUME ChainType, NEW x, NEW last \in Entries \cup {NoTx}, NEW page \in Pages(x, last)
  PROVE  /\ ConfirmedPart(page, x, From(last), PageHeights(x, From(last)))
         /\ PendingPart(page, x)
<1> DEFINE from == From(last)
           hs == PageHeights(x, from)
           W == Waiting(x)
           rest == PageSize - Len(hs)
<1>1. from \in Nat
  BY DEF From, Entries, Blocks
<1>2. /\ hs \in Seq(Nat) /\ Len(hs) \in Nat /\ Len(hs) <= PageSize
      /\ \A i \in 1..Len(hs) : hs[i] \in Heights(x) /\ hs[i] >= from
      /\ \A i, j \in 1..Len(hs) : i < j => hs[i] < hs[j]
      /\ \A h \in Heights(x) : h >= from =>
           (\E i \in 1..Len(hs) : hs[i] = h) \/ (Len(hs) = PageSize /\ hs[PageSize] < h)
  BY <1>1, HeightsFacts
<1>3. PICK order \in SetToSeqs(W) :
        page = [confirmed |-> [i \in 1..Len(hs) |-> Entry(hs[i])],
                pending |-> [i \in 1..Len(Cut(order, rest)) |-> Unconfirmed(Cut(order, rest)[i])]]
  BY DEF Pages, PageHeights, From
<1> DEFINE p == Cut(order, rest)
<1> HIDE DEF hs, from
<1>4. rest \in Nat
  BY <1>2, XpubAssumption
<1>5. W \subseteq Txs /\ IsFiniteSet(W)
  <2>1. W \subseteq pool
    BY DEF Waiting
  <2> QED
    BY <2>1, FS_Subset DEF ChainType
<1> HIDE DEF W, rest
<1>6. /\ order \in Seq(W) /\ ToSet(order) = W
      /\ \A i, j \in 1..Len(order) : order[i] = order[j] => i = j
  BY <1>3, <1>5, OrderFacts
<1>7. /\ p \in Seq(W) /\ Len(p) = IF Len(order) < rest THEN Len(order) ELSE rest
      /\ \A i \in 1..Len(p) : i \in 1..Len(order) /\ p[i] = order[i]
  BY <1>4, <1>6, CutFacts
<1> HIDE DEF p
<1>8. page.confirmed = [i \in 1..Len(hs) |-> Entry(hs[i])]
      /\ page.pending = [i \in 1..Len(p) |-> Unconfirmed(p[i])]
  BY <1>3 DEF p
<1>9. Len(p) \in Nat /\ \A i \in 1..Len(p) : p[i] \in W
  BY <1>7
<1>10. /\ page.confirmed \in Seq(Entries) /\ Len(page.confirmed) = Len(hs)
       /\ \A i \in 1..Len(hs) : page.confirmed[i] = Entry(hs[i])
  <2>1. \A i \in 1..Len(hs) : Entry(hs[i]) \in Entries
    BY <1>2, ChainFacts
  <2> QED
    BY <1>2, <1>8, <2>1
<1>11. /\ page.pending \in Seq(Entries) /\ Len(page.pending) = Len(p)
       /\ \A i \in 1..Len(p) : page.pending[i] = Unconfirmed(p[i])
  <2>1. \A i \in 1..Len(p) : Unconfirmed(p[i]) \in Entries
    BY <1>5, <1>9 DEF Unconfirmed, Entries, Blocks, NoBlock
  <2> QED
    BY <1>8, <1>9, <2>1
<1>12. \A t : Unconfirmed(t).tx = t
  BY DEF Unconfirmed
<1>13. ConfirmedPart(page, x, from, hs)
  BY <1>2, <1>10 DEF ConfirmedPart
<1>14. \/ \A t \in W : \E i \in 1..Len(p) : p[i] = t
       \/ Len(hs) + Len(p) = PageSize
  <2>1. CASE Len(order) < rest
    <3>1. Len(p) = Len(order)
      BY <1>7, <2>1
    <3>2. \A t \in W : \E i \in 1..Len(order) : order[i] = t
      BY <1>6, SeqFacts
    <3> QED
      BY <1>7, <3>1, <3>2
  <2>2. CASE ~(Len(order) < rest)
    <3>1. Len(p) = rest
      BY <1>7, <2>2
    <3>2. Len(hs) + rest = PageSize
      BY <1>2, XpubAssumption DEF rest
    <3> QED
      BY <3>1, <3>2
  <2> QED
    BY <2>1, <2>2
<1>16. Len(page.confirmed) + Len(page.pending) <= PageSize
  <2> DEFINE m == Len(hs)
             k == Len(p)
             o == Len(order)
  <2>1. m \in Nat /\ m <= PageSize /\ k = (IF o < rest THEN o ELSE rest) /\ o \in Nat
    BY <1>2, <1>6, <1>7
  <2> HIDE DEF m, k, o
  <2>2. m + k <= PageSize
    BY <2>1, XpubAssumption DEF rest, m
  <2> QED
    BY <1>10, <1>11, <2>2 DEF m, k
<1>15. PendingPart(page, x)
  <2>1. \A i \in 1..Len(p) : page.pending[i].tx = p[i]
    BY <1>11, <1>12
  <2>2. \A i, j \in 1..Len(p) : p[i] = p[j] => i = j
    BY <1>6, <1>7
  <2>3. \A i, j \in 1..Len(p) : page.pending[i].tx = page.pending[j].tx => i = j
    BY <2>1, <2>2
  <2>4. \A i \in 1..Len(p) : \E t \in W : page.pending[i] = Unconfirmed(t)
    BY <1>9, <1>11
  <2>5. \/ \A t \in W : \E i \in 1..Len(p) : page.pending[i] = Unconfirmed(t)
        \/ Len(page.confirmed) + Len(page.pending) = PageSize
    BY <1>10, <1>11, <1>14
  <2> QED
    BY <1>11, <1>16, <2>3, <2>4, <2>5 DEF PendingPart, W
<1> QED
  BY <1>13, <1>15 DEF from, hs

(***************************************************************************)
(* What the wallet holds.                                                  *)
(***************************************************************************)

Resting == {"none", "used", "unused", "failed"}
Held == {"starts", "check", "fetch"}

Tasks ==
  [phase : {"waits"} \cup Resting \cup Held, last : Entries \cup {NoTx}, pending : {<<>>}]

Phases == {"idle", "waitsForAll", "waitsForAccount", "running", "done", "failed"}

CallStates ==
  [phase : Phases, account : Accounts, index : Nat, tasks : [Addresses -> Tasks]]

Gates == {All} \cup {Account(a) : a \in Accounts} \cup {Address(x) : x \in Addresses}

Items == [call : Calls, gate : Gates]

Wallets ==
  [syncing : SUBSET Gates, micro : Seq(Items),
   freshAddressIndex : Nat, freshAddress : Int, calls : [Calls -> CallStates]]

Phase(w, c) == w.calls[c].phase
AccountOf(w, c) == w.calls[c].account
IndexOf(w, c) == w.calls[c].index
Task(w, c, x) == w.calls[c].tasks[x]
At(w, c, x) == w.calls[c].tasks[x].phase
Has(w, c, gate) == [call |-> c, gate |-> gate] \in ToSet(w.micro)

Apart(s) == \A i, j \in DOMAIN s : s[i] = s[j] => i = j

LEMMA GateFacts ==
  /\ All \in Gates /\ (\A a \in Accounts : Account(a) \in Gates)
  /\ \A x \in Addresses : Address(x) \in Gates
  /\ \A a, b : Account(a) = Account(b) => a = b
  /\ \A x, y : Address(x) = Address(y) => x = y
  /\ \A a : Account(a) # All
  /\ \A x : Address(x) # All
  /\ \A a, x : Account(a) # Address(x)
  /\ \A g \in Gates : g = All \/ (\E a \in Accounts : g = Account(a))
                              \/ \E x \in Addresses : g = Address(x)
<1>1. \A a, b : Account(a) = Account(b) => a = b
  <2> SUFFICES ASSUME NEW a, NEW b, Account(a) = Account(b) PROVE a = b
    OBVIOUS
  <2>1. Account(a).key = <<a>> /\ Account(b).key = <<b>>
    BY DEF Account
  <2> QED
    BY <2>1
<1>2. \A x, y : Address(x) = Address(y) => x = y
  BY DEF Address
<1>3. All.type = "all" /\ (\A a : Account(a).type = "account") /\ \A x : Address(x).type = "address"
  BY DEF All, Account, Address
<1>4. /\ (\A a : Account(a) # All)
      /\ (\A x : Address(x) # All)
      /\ \A a, x : Account(a) # Address(x)
  <2>1. ASSUME NEW a PROVE Account(a) # All
    BY <1>3
  <2>2. ASSUME NEW x PROVE Address(x) # All
    BY <1>3
  <2>3. ASSUME NEW a, NEW x PROVE Account(a) # Address(x)
    BY <1>3
  <2> QED
    BY <2>1, <2>2, <2>3
<1> QED
  BY <1>1, <1>2, <1>4 DEF Gates

LEMMA WalletFacts ==
  ASSUME NEW w \in Wallets
  PROVE  /\ w.syncing \subseteq Gates /\ w.micro \in Seq(Items)
         /\ w.freshAddressIndex \in Nat /\ w.freshAddress \in Int
         /\ w.calls \in [Calls -> CallStates]
         /\ \A c \in Calls : /\ w.calls[c] \in CallStates
                             /\ Phase(w, c) \in Phases /\ AccountOf(w, c) \in Accounts
                             /\ IndexOf(w, c) \in Nat
                             /\ \A x \in Addresses : Task(w, c, x) \in Tasks
<1>1. /\ w.syncing \subseteq Gates /\ w.micro \in Seq(Items)
      /\ w.freshAddressIndex \in Nat /\ w.freshAddress \in Int
      /\ w.calls \in [Calls -> CallStates]
  BY DEF Wallets
<1>2. ASSUME NEW c \in Calls
      PROVE  /\ w.calls[c] \in CallStates
             /\ Phase(w, c) \in Phases /\ AccountOf(w, c) \in Accounts
             /\ IndexOf(w, c) \in Nat
             /\ \A x \in Addresses : Task(w, c, x) \in Tasks
  <2>1. w.calls[c] \in CallStates
    BY <1>1
  <2> QED
    BY <2>1 DEF CallStates, Phase, AccountOf, IndexOf, Task
<1> QED
  BY <1>1, <1>2

\* The calls are at the same places.
Placed(v, w) ==
  \A d \in Calls : AccountOf(v, d) = AccountOf(w, d) /\ IndexOf(v, d) = IndexOf(w, d)

SamePhases(v, w) == \A d \in Calls : Phase(v, d) = Phase(w, d)
SameTasks(v, w) == \A d \in Calls : \A x \in Addresses : Task(v, d, x) = Task(w, d, x)
SameMicro(v, w) == v.micro = w.micro
SameFresh(v, w) ==
  v.freshAddressIndex = w.freshAddressIndex /\ v.freshAddress = w.freshAddress
SameCalls(v, w) == Placed(v, w) /\ SamePhases(v, w) /\ SameTasks(v, w)

LEMMA SetPhaseFacts ==
  ASSUME NEW w \in Wallets, NEW c \in Calls, NEW p \in Phases
  PROVE  LET v == SetPhase(w, c, p)
         IN  /\ v \in Wallets /\ v.syncing = w.syncing /\ SameMicro(v, w) /\ SameFresh(v, w)
             /\ Placed(v, w) /\ SameTasks(v, w)
             /\ \A d \in Calls : Phase(v, d) = IF d = c THEN p ELSE Phase(w, d)
<1> DEFINE v == SetPhase(w, c, p)
           k == [w.calls[c] EXCEPT !.phase = p]
<1>1. w.calls \in [Calls -> CallStates] /\ w.calls[c] \in CallStates
  BY WalletFacts
<1>2. v = [w EXCEPT !.calls = [w.calls EXCEPT ![c] = k]]
  BY <1>1 DEF SetPhase, Wallets
<1>3. /\ k \in CallStates /\ k.phase = p /\ k.account = w.calls[c].account
      /\ k.index = w.calls[c].index /\ k.tasks = w.calls[c].tasks
  BY <1>1 DEF CallStates
<1> HIDE DEF v, k
<1>4. v.calls = [w.calls EXCEPT ![c] = k] /\ v.syncing = w.syncing /\ v.micro = w.micro
      /\ v.freshAddressIndex = w.freshAddressIndex /\ v.freshAddress = w.freshAddress
  BY <1>2 DEF Wallets
<1>5. v \in Wallets
  BY <1>1, <1>2, <1>3 DEF Wallets
<1>6. \A d \in Calls : v.calls[d] = IF d = c THEN k ELSE w.calls[d]
  BY <1>1, <1>4
<1>7. /\ Placed(v, w) /\ SameTasks(v, w)
      /\ \A d \in Calls : Phase(v, d) = IF d = c THEN p ELSE Phase(w, d)
  BY <1>3, <1>6 DEF Placed, SameTasks, Phase, AccountOf, IndexOf, Task
<1> QED
  BY <1>4, <1>5, <1>7 DEF SameMicro, SameFresh, v

LEMMA SetTaskFacts ==
  ASSUME NEW w \in Wallets, NEW c \in Calls, NEW x \in Addresses, NEW t \in Tasks
  PROVE  LET v == SetTask(w, c, x, t)
         IN  /\ v \in Wallets /\ v.syncing = w.syncing /\ SameMicro(v, w) /\ SameFresh(v, w)
             /\ Placed(v, w) /\ SamePhases(v, w)
             /\ \A d \in Calls : \A y \in Addresses :
                  Task(v, d, y) = IF d = c /\ y = x THEN t ELSE Task(w, d, y)
<1> DEFINE v == SetTask(w, c, x, t)
           k == [w.calls[c] EXCEPT !.tasks = [w.calls[c].tasks EXCEPT ![x] = t]]
<1>1. w.calls \in [Calls -> CallStates] /\ w.calls[c] \in CallStates
  BY WalletFacts
<1>2. w.calls[c].tasks \in [Addresses -> Tasks]
  BY <1>1 DEF CallStates
<1>3. v = [w EXCEPT !.calls = [w.calls EXCEPT ![c] = k]]
  BY <1>1 DEF SetTask, Wallets
<1>4. /\ k \in CallStates /\ k.phase = w.calls[c].phase /\ k.account = w.calls[c].account
      /\ k.index = w.calls[c].index
      /\ \A y \in Addresses : k.tasks[y] = IF y = x THEN t ELSE w.calls[c].tasks[y]
  BY <1>1, <1>2 DEF CallStates
<1> HIDE DEF v, k
<1>5. v.calls = [w.calls EXCEPT ![c] = k] /\ v.syncing = w.syncing /\ v.micro = w.micro
      /\ v.freshAddressIndex = w.freshAddressIndex /\ v.freshAddress = w.freshAddress
  BY <1>3 DEF Wallets
<1>6. v \in Wallets
  BY <1>1, <1>3, <1>4 DEF Wallets
<1>7. \A d \in Calls : v.calls[d] = IF d = c THEN k ELSE w.calls[d]
  BY <1>1, <1>5
<1>8. /\ Placed(v, w) /\ SamePhases(v, w)
      /\ \A d \in Calls : \A y \in Addresses :
           Task(v, d, y) = IF d = c /\ y = x THEN t ELSE Task(w, d, y)
  BY <1>4, <1>7 DEF Placed, SamePhases, Phase, AccountOf, IndexOf, Task
<1> QED
  BY <1>5, <1>6, <1>8 DEF SameMicro, SameFresh, v

\* Gates open and shut.
LEMMA SyncingFacts ==
  ASSUME NEW w \in Wallets, NEW S \in SUBSET Gates
  PROVE  LET v == [w EXCEPT !.syncing = S]
         IN  /\ v \in Wallets /\ v.syncing = S /\ SameMicro(v, w) /\ SameFresh(v, w)
             /\ SameCalls(v, w)
<1> DEFINE v == [w EXCEPT !.syncing = S]
<1>1. /\ v.calls = w.calls /\ v.syncing = S /\ v.micro = w.micro
      /\ v.freshAddressIndex = w.freshAddressIndex /\ v.freshAddress = w.freshAddress
  BY DEF Wallets
<1>2. v \in Wallets
  BY DEF Wallets
<1> HIDE DEF v
<1>3. SameMicro(v, w) /\ SameFresh(v, w) /\ SameCalls(v, w)
  BY <1>1 DEF SameMicro, SameFresh, SameCalls, Placed, SamePhases, SameTasks,
              Phase, AccountOf, IndexOf, Task
<1> QED
  BY <1>1, <1>2, <1>3 DEF v

\* A call comes to another account or to other indexes.
LEMMA SetPlaceFacts ==
  ASSUME NEW w \in Wallets, NEW c \in Calls, NEW a \in Accounts, NEW i \in Nat, NEW v,
         \/ v = [w EXCEPT !.calls[c].index = i] /\ a = AccountOf(w, c)
         \/ v = [w EXCEPT !.calls[c].account = a] /\ i = IndexOf(w, c)
  PROVE  /\ v \in Wallets /\ v.syncing = w.syncing /\ SameMicro(v, w) /\ SameFresh(v, w)
         /\ SamePhases(v, w) /\ SameTasks(v, w)
         /\ AccountOf(v, c) = a /\ IndexOf(v, c) = i
         /\ \A d \in Calls \ {c} : AccountOf(v, d) = AccountOf(w, d) /\ IndexOf(v, d) = IndexOf(w, d)
<1> DEFINE j == [w.calls[c] EXCEPT !.index = i]
           b == [w.calls[c] EXCEPT !.account = a]
<1>1. w.calls \in [Calls -> CallStates] /\ w.calls[c] \in CallStates
  BY WalletFacts
<1>2. /\ j \in CallStates /\ j.phase = w.calls[c].phase /\ j.account = w.calls[c].account
      /\ j.index = i /\ j.tasks = w.calls[c].tasks
  BY <1>1 DEF CallStates
<1>3. /\ b \in CallStates /\ b.phase = w.calls[c].phase /\ b.account = a
      /\ b.index = w.calls[c].index /\ b.tasks = w.calls[c].tasks
  BY <1>1 DEF CallStates
<1>4. \/ v = [w EXCEPT !.calls = [w.calls EXCEPT ![c] = j]] /\ a = AccountOf(w, c)
      \/ v = [w EXCEPT !.calls = [w.calls EXCEPT ![c] = b]] /\ i = IndexOf(w, c)
  BY <1>1 DEF Wallets
<1> HIDE DEF j, b
<1>5. PICK k \in CallStates :
        /\ v = [w EXCEPT !.calls = [w.calls EXCEPT ![c] = k]]
        /\ k.phase = w.calls[c].phase /\ k.account = a /\ k.index = i /\ k.tasks = w.calls[c].tasks
  BY <1>2, <1>3, <1>4 DEF AccountOf, IndexOf
<1>6. v.calls = [w.calls EXCEPT ![c] = k] /\ v.syncing = w.syncing /\ v.micro = w.micro
      /\ v.freshAddressIndex = w.freshAddressIndex /\ v.freshAddress = w.freshAddress
  BY <1>5 DEF Wallets
<1>7. v \in Wallets
  BY <1>1, <1>5 DEF Wallets
<1>8. \A d \in Calls : v.calls[d] = IF d = c THEN k ELSE w.calls[d]
  BY <1>1, <1>6
<1> QED
  BY <1>5, <1>6, <1>7, <1>8 DEF SameMicro, SameFresh, SamePhases, SameTasks,
                    Phase, AccountOf, IndexOf, Task

\* More microtasks.
LEMMA MoreMicro ==
  ASSUME NEW w \in Wallets, NEW tail \in Seq(Items)
  PROVE  LET v == [w EXCEPT !.micro = @ \o tail]
         IN  /\ v \in Wallets /\ v.syncing = w.syncing /\ SameFresh(v, w) /\ SameCalls(v, w)
             /\ ToSet(v.micro) = ToSet(w.micro) \cup ToSet(tail)
             /\ Apart(w.micro) /\ Apart(tail) /\ ToSet(w.micro) \cap ToSet(tail) = {}
                  => Apart(v.micro)
<1> DEFINE v == [w EXCEPT !.micro = @ \o tail]
           m == w.micro
           r == m \o tail
<1>1. m \in Seq(Items)
  BY WalletFacts
<1>2. r \in Seq(Items) /\ ToSet(r) = ToSet(m) \cup ToSet(tail)
  BY <1>1, ConcatFacts
<1>3. /\ v.calls = w.calls /\ v.syncing = w.syncing /\ v.micro = r
      /\ v.freshAddressIndex = w.freshAddressIndex /\ v.freshAddress = w.freshAddress
  BY DEF Wallets
<1>4. v \in Wallets
  BY <1>2 DEF Wallets
<1>5. ASSUME Apart(m), Apart(tail), ToSet(m) \cap ToSet(tail) = {} PROVE Apart(r)
  <2>1. /\ Len(m) \in Nat /\ Len(tail) \in Nat /\ DOMAIN m = 1..Len(m)
        /\ DOMAIN tail = 1..Len(tail)
    BY <1>1, SeqFacts
  <2>2. /\ DOMAIN r = 1..(Len(m) + Len(tail))
        /\ \A i \in 1..Len(m) : r[i] = m[i]
        /\ \A i \in 1..(Len(m) + Len(tail)) : i > Len(m) =>
             r[i] = tail[i - Len(m)] /\ i - Len(m) \in 1..Len(tail)
    <3>1. DOMAIN r = 1..(Len(m) + Len(tail))
      BY <1>1, <2>1
    <3>2. \A i \in 1..Len(m) : r[i] = m[i]
      BY <1>1, <2>1
    <3>3. \A i \in 1..(Len(m) + Len(tail)) : i > Len(m) =>
             r[i] = tail[i - Len(m)] /\ i - Len(m) \in 1..Len(tail)
      BY <1>1, <2>1
    <3> QED
      BY <3>1, <3>2, <3>3
  <2>3. (\A i \in 1..Len(m) : m[i] \in ToSet(m)) /\ \A i \in 1..Len(tail) : tail[i] \in ToSet(tail)
    BY <1>1, SeqFacts
  <2> DEFINE p == Len(m)
             q == Len(tail)
  <2> HIDE DEF m, r, p, q
  <2> SUFFICES ASSUME NEW i \in 1..(p + q), NEW j \in 1..(p + q), r[i] = r[j] PROVE i = j
    BY <2>2 DEF Apart, p, q
  <2>4. CASE i <= p /\ j <= p
    <3>1. i \in 1..p /\ j \in 1..p
      BY <2>1, <2>4 DEF p, q
    <3> QED
      BY <1>5, <2>1, <2>2, <3>1 DEF Apart, p
  <2>5. CASE i > p /\ j > p
    <3>1. i - p \in 1..q /\ j - p \in 1..q /\ tail[i - p] = tail[j - p]
      BY <2>2, <2>5 DEF p, q
    <3>2. i - p = j - p
      BY <1>5, <2>1, <3>1 DEF Apart, q
    <3> QED
      BY <2>1, <3>2 DEF p, q
  <2>6. CASE i <= p /\ j > p
    <3>1. i \in 1..p
      BY <2>1, <2>6 DEF p, q
    <3>2. r[i] \in ToSet(m) /\ r[j] \in ToSet(tail)
      BY <2>2, <2>3, <2>6, <3>1 DEF p, q
    <3> QED
      BY <1>5, <3>2
  <2>7. CASE i > p /\ j <= p
    <3>1. j \in 1..p
      BY <2>1, <2>7 DEF p, q
    <3>2. r[j] \in ToSet(m) /\ r[i] \in ToSet(tail)
      BY <2>2, <2>3, <2>7, <3>1 DEF p, q
    <3> QED
      BY <1>5, <3>2
  <2> QED
    BY <2>1, <2>4, <2>5, <2>6, <2>7 DEF p, q
<1> HIDE DEF v
<1> QED
  BY <1>2, <1>3, <1>4, <1>5 DEF SameFresh, SameCalls, Placed, SamePhases, SameTasks,
                    Phase, AccountOf, IndexOf, Task, v

\* The calls in order have one microtask more.
LEMMA LaterFacts ==
  ASSUME NEW w \in Wallets, NEW order \in Seq(Calls), NEW gate \in Gates
  PROVE  LET v == Later(w, order, gate)
         IN  /\ v \in Wallets /\ v.syncing = w.syncing /\ SameFresh(v, w) /\ SameCalls(v, w)
             /\ \A d, g : Has(v, d, g) <=> Has(w, d, g) \/ (d \in ToSet(order) /\ g = gate)
             /\ Apart(w.micro) /\ Apart(order) /\ (\A d \in ToSet(order) : ~Has(w, d, gate))
                  => Apart(v.micro)
<1> DEFINE tail == [i \in 1..Len(order) |-> [call |-> order[i], gate |-> gate]]
           v == Later(w, order, gate)
<1>1. v = [w EXCEPT !.micro = @ \o tail]
  BY DEF Later
<1>2. /\ Len(order) \in Nat /\ DOMAIN order = 1..Len(order)
      /\ \A i \in 1..Len(order) : order[i] \in Calls
      /\ \A d : d \in ToSet(order) <=> \E i \in 1..Len(order) : order[i] = d
  BY SeqFacts
<1>3. tail \in Seq(Items) /\ Len(tail) = Len(order) /\ DOMAIN tail = 1..Len(order)
  BY <1>2 DEF Items
<1>4. \A i \in 1..Len(order) : tail[i] = [call |-> order[i], gate |-> gate]
  OBVIOUS
<1> HIDE DEF tail
<1>5. \A m : m \in ToSet(tail) <=> \E d \in ToSet(order) : m = [call |-> d, gate |-> gate]
  <2>1. \A m : m \in ToSet(tail) <=> \E i \in 1..Len(order) : tail[i] = m
    BY <1>3, SeqFacts
  <2>2. ASSUME NEW m, NEW i \in 1..Len(order), tail[i] = m
        PROVE  \E d \in ToSet(order) : m = [call |-> d, gate |-> gate]
    BY <1>2, <1>4, <2>2
  <2>3. ASSUME NEW m, NEW d \in ToSet(order), m = [call |-> d, gate |-> gate]
        PROVE  \E i \in 1..Len(order) : tail[i] = m
    BY <1>2, <1>4, <2>3
  <2> QED
    BY <2>1, <2>2, <2>3
<1>6. /\ v \in Wallets /\ v.syncing = w.syncing /\ SameFresh(v, w) /\ SameCalls(v, w)
      /\ ToSet(v.micro) = ToSet(w.micro) \cup ToSet(tail)
      /\ Apart(w.micro) /\ Apart(tail) /\ ToSet(w.micro) \cap ToSet(tail) = {}
           => Apart(v.micro)
  BY <1>1, <1>3, MoreMicro
<1> HIDE DEF v
<1>7. ASSUME NEW d, NEW g
      PROVE  Has(v, d, g) <=> Has(w, d, g) \/ (d \in ToSet(order) /\ g = gate)
  <2>1. [call |-> d, gate |-> g] \in ToSet(tail) <=> d \in ToSet(order) /\ g = gate
    <3>1. \A e : [call |-> d, gate |-> g] = [call |-> e, gate |-> gate] <=> d = e /\ g = gate
      OBVIOUS
    <3> QED
      BY <1>5, <3>1
  <2> QED
    BY <1>6, <2>1 DEF Has
<1>8. ASSUME Apart(order) PROVE Apart(tail)
  <2>1. ASSUME NEW i \in 1..Len(order), NEW j \in 1..Len(order), tail[i] = tail[j]
        PROVE  order[i] = order[j]
    <3>1. [call |-> order[i], gate |-> gate] = [call |-> order[j], gate |-> gate]
      BY <1>4, <2>1, Zenon
    <3> QED
      BY <3>1
  <2> QED
    BY <1>2, <1>3, <1>8, <2>1 DEF Apart
<1>9. ASSUME \A d \in ToSet(order) : ~Has(w, d, gate)
      PROVE  ToSet(w.micro) \cap ToSet(tail) = {}
  BY <1>5, <1>9 DEF Has
<1> QED
  BY <1>6, <1>7, <1>8, <1>9 DEF v

LEMMA SetToSeqFacts ==
  ASSUME NEW S, IsFiniteSet(S)
  PROVE  SetToSeq(S) \in Seq(S) /\ ToSet(SetToSeq(S)) = S /\ Apart(SetToSeq(S))
<1> DEFINE n == Cardinality(S)
           s == SetToSeq(S)
<1>1. PICK f \in Bijection(1..n, S) : TRUE
  BY FS_CardinalityType DEF ExistsBijection
<1>2. f \in [1..n -> S] /\ IsInjective(f)
  BY <1>1 DEF Bijection, Injection
<1>3. s \in [1..n -> S] /\ IsInjective(s)
  BY <1>2 DEF SetToSeq
<1>4. s \in SetToSeqs(S)
  BY <1>3 DEF SetToSeqs, IsInjective
<1> HIDE DEF s
<1>5. /\ s \in Seq(S) /\ ToSet(s) = S
      /\ \A i, j \in 1..Len(s) : s[i] = s[j] => i = j
  BY <1>4, OrderFacts
<1> QED
  BY <1>5, SeqFacts DEF Apart, s

LEMMA BlockFacts ==
  ASSUME NEW w \in Wallets, NEW c \in Calls
  PROVE  /\ \A x : x \in Block(w, c) <=>
              \E i \in IndexOf(w, c)..(IndexOf(w, c) + GAP - 1) : x = <<AccountOf(w, c), i>>
         /\ <<AccountOf(w, c), IndexOf(w, c)>> \in Block(w, c)
         /\ IndexOf(w, c) + GAP <= MaxIndex + 1 => Block(w, c) \subseteq Addresses
<1>1. IndexOf(w, c) \in Nat /\ AccountOf(w, c) \in Accounts /\ GAP \in Nat \ {0} /\ MaxIndex \in Nat
  BY WalletFacts, XpubAssumption
<1>2. \A x : x \in Block(w, c) <=>
        \E i \in IndexOf(w, c)..(IndexOf(w, c) + GAP - 1) : x = <<AccountOf(w, c), i>>
  BY DEF Block, IndexOf, AccountOf
<1>3. IndexOf(w, c) \in IndexOf(w, c)..(IndexOf(w, c) + GAP - 1)
  BY <1>1
<1>4. ASSUME IndexOf(w, c) + GAP <= MaxIndex + 1, NEW x \in Block(w, c) PROVE x \in Addresses
  <2>1. PICK i \in IndexOf(w, c)..(IndexOf(w, c) + GAP - 1) : x = <<AccountOf(w, c), i>>
    BY <1>2
  <2>2. i \in 0..MaxIndex
    BY <1>1, <1>4
  <2> QED
    BY <1>1, <2>1, <2>2 DEF Addresses
<1> QED
  BY <1>2, <1>3, <1>4

\* The task of an address when a block begins.
Starting(w, x) == [NoTask EXCEPT !.phase = IF Address(x) \in w.syncing THEN "waits" ELSE "starts"]

LEMMA StartingFacts ==
  ASSUME NEW w, NEW x
  PROVE  /\ Starting(w, x) \in Tasks
         /\ Starting(w, x).phase = IF Address(x) \in w.syncing THEN "waits" ELSE "starts"
<1> DEFINE p == IF Address(x) \in w.syncing THEN "waits" ELSE "starts"
<1>1. p \in {"waits"} \cup Held
  BY DEF Held
<1>2. Starting(w, x) = [NoTask EXCEPT !.phase = p]
  BY DEF Starting
<1> HIDE DEF p
<1>3. Starting(w, x) = [phase |-> p, last |-> NoTx, pending |-> <<>>]
  BY <1>2 DEF NoTask
<1>4. Starting(w, x) \in Tasks /\ Starting(w, x).phase = p
  BY <1>1, <1>3 DEF Tasks
<1> QED
  BY <1>4 DEF p

\* A sequence of different keys.
LEMMA KeysFacts ==
  ASSUME NEW w \in Wallets, NEW c \in Calls, IndexOf(w, c) + GAP <= MaxIndex + 1
  PROVE  LET keys == [k \in 1..GAP |-> <<w.calls[c].account, w.calls[c].index + k - 1>>]
         IN  keys \in Seq(Addresses) /\ ToSet(keys) = Block(w, c) /\ Apart(keys)
<1> DEFINE a == AccountOf(w, c)
           n == IndexOf(w, c)
           keys == [k \in 1..GAP |-> <<w.calls[c].account, w.calls[c].index + k - 1>>]
<1>1. n \in Nat /\ a \in Accounts /\ GAP \in Nat \ {0} /\ MaxIndex \in Nat
  BY WalletFacts, XpubAssumption
<1>2. keys = [k \in 1..GAP |-> <<a, n + k - 1>>]
  BY DEF AccountOf, IndexOf
<1>3. \A x : x \in Block(w, c) <=> \E i \in n..(n + GAP - 1) : x = <<a, i>>
  BY BlockFacts
<1>4. Block(w, c) \subseteq Addresses
  BY BlockFacts
<1> HIDE DEF keys, a, n
<1>5. \A k \in 1..GAP : keys[k] = <<a, n + k - 1>> /\ n + k - 1 \in n..(n + GAP - 1)
  BY <1>1, <1>2
<1>6. \A k \in 1..GAP : keys[k] \in Addresses
  BY <1>3, <1>4, <1>5
<1>7. keys \in Seq(Addresses) /\ DOMAIN keys = 1..GAP /\ Len(keys) = GAP
  <2>1. keys \in [1..GAP -> Addresses]
    BY <1>2, <1>6
  <2> QED
    BY <1>1, <2>1
<1>8. \A x : x \in ToSet(keys) <=> \E k \in 1..GAP : keys[k] = x
  BY <1>7, SeqFacts
<1>9. ASSUME NEW x PROVE x \in ToSet(keys) <=> x \in Block(w, c)
  <2>1. ASSUME NEW i \in n..(n + GAP - 1), x = <<a, i>> PROVE x \in ToSet(keys)
    <3>1. i - n + 1 \in 1..GAP /\ n + (i - n + 1) - 1 = i
      BY <1>1
    <3>2. keys[i - n + 1] = <<a, i>>
      BY <1>5, <3>1
    <3> QED
      BY <1>8, <2>1, <3>1, <3>2
  <2>2. ASSUME NEW k \in 1..GAP, keys[k] = x PROVE \E i \in n..(n + GAP - 1) : x = <<a, i>>
    BY <1>5, <2>2
  <2> QED
    BY <1>3, <1>8, <2>1, <2>2
<1>10. ASSUME NEW i \in 1..GAP, NEW j \in 1..GAP, keys[i] = keys[j] PROVE i = j
  <2>1. <<a, n + i - 1>> = <<a, n + j - 1>>
    BY <1>5, <1>10
  <2>2. n + i - 1 = n + j - 1
    BY <2>1
  <2> QED
    BY <1>1, <2>2
<1>11. ToSet(keys) = Block(w, c)
  BY <1>9
<1> QED
  BY <1>7, <1>10, <1>11 DEF Apart, keys

\* What is kept of different keys are different keys.
LEMMA KeepingApart ==
  ASSUME NEW A, NEW s \in Seq(A), NEW kept, Apart(s)
  PROVE  Apart(Keeping(s, kept))
<1> DEFINE k == Keeping(s, kept)
<1>1. k \in Seq(A) /\ \A x, y : Before(k, x, y) => Before(s, x, y)
  BY KeepingFacts
<1>2. /\ DOMAIN k = 1..Len(k) /\ Len(k) \in Nat
      /\ DOMAIN s = 1..Len(s) /\ Len(s) \in Nat
  BY <1>1, SeqFacts
<1>3. \A x : ~Before(s, x, x)
  BY <1>2 DEF Before, Apart
<1> HIDE DEF k
<1>4. ASSUME NEW i \in DOMAIN k, NEW j \in DOMAIN k, k[i] = k[j], i < j PROVE FALSE
  <2>1. Before(k, k[i], k[i])
    BY <1>4 DEF Before
  <2> QED
    BY <1>1, <1>3, <2>1
<1>5. ASSUME NEW i \in DOMAIN k, NEW j \in DOMAIN k, k[i] = k[j] PROVE i = j
  <2>1. i \in Int /\ j \in Int
    BY <1>2
  <2>2. ~(i < j) /\ ~(j < i)
    BY <1>4, <1>5
  <2> QED
    BY <2>1, <2>2
<1> QED
  BY <1>5 DEF Apart, k

LEMMA StartFacts ==
  ASSUME NEW w \in Wallets, NEW c \in Calls, IndexOf(w, c) + GAP <= MaxIndex + 1
  PROVE  LET v == StartBlock(w, c)
         IN  /\ v \in Wallets /\ v.syncing = w.syncing /\ SameFresh(v, w)
             /\ Placed(v, w) /\ SamePhases(v, w)
             /\ \A d \in Calls : \A x \in Addresses :
                  Task(v, d, x) = IF d = c /\ x \in Block(w, c) THEN Starting(w, x) ELSE Task(w, d, x)
             /\ \A d, g : Has(v, d, g) <=>
                  \/ Has(w, d, g)
                  \/ d = c /\ \E x \in Block(w, c) : g = Address(x) /\ Address(x) \notin w.syncing
             /\ Apart(w.micro) /\ (\A x \in Block(w, c) : ~Has(w, c, Address(x))) => Apart(v.micro)
<1> DEFINE B == Block(w, c)
           keys == [k \in 1..GAP |-> <<w.calls[c].account, w.calls[c].index + k - 1>>]
           idle == {x \in B : Address(x) \notin w.syncing}
           open == Keeping(keys, idle)
           new == [x \in B |-> Starting(w, x)]
           tail == [i \in 1..Len(open) |-> [call |-> c, gate |-> Address(open[i])]]
           old == w.calls[c].tasks
           k == [w.calls[c] EXCEPT !.tasks = Updated(old, new)]
           u == [w EXCEPT !.calls = [w.calls EXCEPT ![c] = k]]
           v == StartBlock(w, c)
<1>1. w.calls \in [Calls -> CallStates] /\ w.calls[c] \in CallStates
  BY WalletFacts
<1>2. old \in [Addresses -> Tasks]
  BY <1>1 DEF CallStates
<1>3. v = [w EXCEPT !.calls[c].tasks = Updated(old, new), !.micro = @ \o tail]
  BY DEF StartBlock, Starting
<1>4. B \subseteq Addresses /\ keys \in Seq(Addresses) /\ ToSet(keys) = B /\ Apart(keys)
  BY BlockFacts, KeysFacts
<1> HIDE DEF keys, B
<1>5. open \in Seq(Addresses) /\ ToSet(open) = idle /\ Apart(open)
  <2>1. idle \subseteq B
    OBVIOUS
  <2> HIDE DEF idle
  <2> QED
    <3>1. Keeping(keys, idle) \in Seq(Addresses) /\ ToSet(Keeping(keys, idle)) = ToSet(keys) \cap idle
      BY <1>4, KeepingFacts
    <3>2. Apart(Keeping(keys, idle))
      BY <1>4, KeepingApart
    <3> QED
      BY <1>4, <2>1, <3>1, <3>2
<1> HIDE DEF open
<1>6. /\ Len(open) \in Nat /\ DOMAIN open = 1..Len(open)
      /\ \A i \in 1..Len(open) : open[i] \in Addresses
      /\ \A x : x \in ToSet(open) <=> \E i \in 1..Len(open) : open[i] = x
  BY <1>5, SeqFacts
<1>7. tail \in Seq(Items) /\ Len(tail) = Len(open) /\ DOMAIN tail = 1..Len(open)
  BY <1>6, GateFacts DEF Items
<1>8. \A i \in 1..Len(open) : tail[i] = [call |-> c, gate |-> Address(open[i])]
  OBVIOUS
<1> HIDE DEF tail
<1>9. \A x \in Addresses : Updated(old, new)[x] = IF x \in B THEN Starting(w, x) ELSE old[x]
  BY <1>2 DEF Updated
<1>10. Updated(old, new) \in [Addresses -> Tasks]
  <2>1. DOMAIN old = Addresses
    BY <1>2
  <2>2. \A x \in Addresses : (IF x \in DOMAIN new THEN new[x] ELSE old[x]) \in Tasks
    BY <1>2, StartingFacts
  <2> HIDE DEF new
  <2> QED
    BY <2>1, <2>2 DEF Updated
<1> HIDE DEF new
<1>11. /\ k \in CallStates /\ k.phase = w.calls[c].phase /\ k.account = w.calls[c].account
       /\ k.index = w.calls[c].index
       /\ \A x \in Addresses : k.tasks[x] = IF x \in B THEN Starting(w, x) ELSE old[x]
  BY <1>1, <1>9, <1>10 DEF CallStates
<1>12. v = [u EXCEPT !.micro = @ \o tail]
  BY <1>1, <1>3 DEF Wallets
<1> HIDE DEF k, v
<1>13. u \in Wallets
  BY <1>1, <1>11 DEF Wallets
<1>14. /\ u.calls = [w.calls EXCEPT ![c] = k] /\ u.syncing = w.syncing /\ u.micro = w.micro
       /\ u.freshAddressIndex = w.freshAddressIndex /\ u.freshAddress = w.freshAddress
  BY DEF Wallets
<1>15. \A d \in Calls : u.calls[d] = IF d = c THEN k ELSE w.calls[d]
  BY <1>1, <1>14
<1> HIDE DEF u
<1>16. /\ v \in Wallets /\ v.syncing = u.syncing /\ SameFresh(v, u) /\ SameCalls(v, u)
       /\ ToSet(v.micro) = ToSet(u.micro) \cup ToSet(tail)
       /\ Apart(u.micro) /\ Apart(tail) /\ ToSet(u.micro) \cap ToSet(tail) = {} => Apart(v.micro)
  BY <1>7, <1>12, <1>13, MoreMicro
<1>17. Placed(v, w) /\ SamePhases(v, w) /\ SameFresh(v, w)
  BY <1>11, <1>14, <1>15, <1>16
  DEF SameCalls, Placed, SamePhases, SameFresh, Phase, AccountOf, IndexOf
<1>18. \A d \in Calls : \A x \in Addresses :
         Task(v, d, x) = IF d = c /\ x \in B THEN Starting(w, x) ELSE Task(w, d, x)
  BY <1>11, <1>15, <1>16 DEF SameCalls, SameTasks, Task
<1>19. \A m : m \in ToSet(tail) <=> \E x \in idle : m = [call |-> c, gate |-> Address(x)]
  <2>1. \A m : m \in ToSet(tail) <=> \E i \in 1..Len(open) : tail[i] = m
    BY <1>7, SeqFacts
  <2>2. ASSUME NEW m, NEW i \in 1..Len(open), tail[i] = m
        PROVE  \E x \in idle : m = [call |-> c, gate |-> Address(x)]
    BY <1>5, <1>6, <1>8, <2>2
  <2>3. ASSUME NEW m, NEW x \in idle, m = [call |-> c, gate |-> Address(x)]
        PROVE  \E i \in 1..Len(open) : tail[i] = m
    BY <1>5, <1>6, <1>8, <2>3
  <2> QED
    BY <2>1, <2>2, <2>3
<1>20. ASSUME NEW d, NEW g
       PROVE  Has(v, d, g) <=>
                \/ Has(w, d, g)
                \/ d = c /\ \E x \in B : g = Address(x) /\ Address(x) \notin w.syncing
  <2>1. [call |-> d, gate |-> g] \in ToSet(tail)
          <=> d = c /\ \E x \in idle : g = Address(x)
    <3>1. \A x : [call |-> d, gate |-> g] = [call |-> c, gate |-> Address(x)]
                   <=> d = c /\ g = Address(x)
      OBVIOUS
    <3> QED
      BY <1>19, <3>1
  <2> QED
    BY <1>14, <1>16, <2>1 DEF Has
<1>21. Apart(tail)
  <2>1. ASSUME NEW i \in 1..Len(open), NEW j \in 1..Len(open), tail[i] = tail[j] PROVE i = j
    <3>1. [call |-> c, gate |-> Address(open[i])] = [call |-> c, gate |-> Address(open[j])]
      BY <1>8, <2>1, Zenon
    <3>2. Address(open[i]) = Address(open[j])
      BY <3>1
    <3>3. open[i] = open[j]
      BY <3>2, GateFacts
    <3> QED
      BY <1>5, <1>6, <3>3 DEF Apart
  <2> QED
    BY <1>7, <2>1 DEF Apart
<1>22. ASSUME \A x \in B : ~Has(w, c, Address(x)) PROVE ToSet(u.micro) \cap ToSet(tail) = {}
  BY <1>14, <1>19, <1>22 DEF Has
<1> QED
  BY <1>14, <1>16, <1>17, <1>18, <1>20, <1>21, <1>22 DEF v, B

\* Some calls change.
LEMMA UpdatedFacts ==
  ASSUME NEW w \in Wallets, NEW D \in SUBSET Calls, NEW f \in [D -> CallStates]
  PROVE  LET v == [w EXCEPT !.calls = Updated(w.calls, f)]
         IN  /\ v \in Wallets /\ v.syncing = w.syncing /\ SameMicro(v, w) /\ SameFresh(v, w)
             /\ \A d \in Calls : v.calls[d] = IF d \in D THEN f[d] ELSE w.calls[d]
<1> DEFINE u == Updated(w.calls, f)
           v == [w EXCEPT !.calls = Updated(w.calls, f)]
<1>1. w.calls \in [Calls -> CallStates]
  BY WalletFacts
<1>2. u = [d \in Calls |-> IF d \in D THEN f[d] ELSE w.calls[d]]
  BY <1>1 DEF Updated
<1>3. u \in [Calls -> CallStates] /\ \A d \in Calls : u[d] = IF d \in D THEN f[d] ELSE w.calls[d]
  <2>1. \A d \in Calls : (IF d \in D THEN f[d] ELSE w.calls[d]) \in CallStates
    BY <1>1
  <2> QED
    BY <1>2, <2>1
<1>4. v = [w EXCEPT !.calls = u]
  OBVIOUS
<1> HIDE DEF u, v
<1>5. /\ v.calls = u /\ v.syncing = w.syncing /\ v.micro = w.micro
      /\ v.freshAddressIndex = w.freshAddressIndex /\ v.freshAddress = w.freshAddress
  BY <1>4 DEF Wallets
<1>6. v \in Wallets
  BY <1>3, <1>4 DEF Wallets
<1> QED
  BY <1>3, <1>5, <1>6 DEF SameMicro, SameFresh, v

\* The fresh address is told.
LEMMA SetFreshFacts ==
  ASSUME NEW w \in Wallets, NEW n \in Nat, NEW a \in Int
  PROVE  LET v == [w EXCEPT !.freshAddressIndex = n, !.freshAddress = a]
         IN  /\ v \in Wallets /\ v.syncing = w.syncing /\ v.micro = w.micro /\ v.calls = w.calls
             /\ v.freshAddressIndex = n /\ v.freshAddress = a
<1> DEFINE v == [w EXCEPT !.freshAddressIndex = n, !.freshAddress = a]
<1>1. /\ v.syncing = w.syncing /\ v.micro = w.micro /\ v.calls = w.calls
      /\ v.freshAddressIndex = n /\ v.freshAddress = a
  BY DEF Wallets
<1>2. v \in Wallets
  BY DEF Wallets
<1> QED
  BY <1>1, <1>2

LEMMA CallOrder ==
  ASSUME NEW D \in SUBSET Calls
  PROVE  /\ SetToSeq(D) \in Seq(Calls) /\ ToSet(SetToSeq(D)) = D /\ Apart(SetToSeq(D))
<1>1. IsFiniteSet(D)
  BY XpubAssumption, FS_Subset
<1>2. SetToSeq(D) \in Seq(D) /\ ToSet(SetToSeq(D)) = D /\ Apart(SetToSeq(D))
  BY <1>1, SetToSeqFacts
<1>3. SetToSeq(D) \in Seq(Calls)
  <2> DEFINE s == SetToSeq(D)
  <2>1. s \in Seq(D)
    BY <1>2
  <2> HIDE DEF s
  <2>2. s \in Seq(Calls)
    BY <2>1
  <2> QED
    BY <2>2 DEF s
<1> QED
  BY <1>2, <1>3

LEMMA WakeFacts ==
  ASSUME NEW w \in Wallets, NEW x \in Addresses
  PROVE  LET v == WakeAddress(w, x)
         IN  /\ v \in Wallets /\ v.syncing = w.syncing /\ SameFresh(v, w)
             /\ Placed(v, w) /\ SamePhases(v, w)
             /\ \A d \in Calls : \A y \in Addresses :
                  IF y = x /\ At(w, d, x) = "waits" THEN At(v, d, y) = "starts"
                  ELSE Task(v, d, y) = Task(w, d, y)
             /\ \A d \in Calls : \A g : Has(v, d, g) <=>
                  Has(w, d, g) \/ (g = Address(x) /\ At(w, d, x) = "waits")
             /\ Apart(w.micro)
                  /\ (\A d \in Calls : At(w, d, x) = "waits" => ~Has(w, d, Address(x)))
                  => Apart(v.micro)
<1> DEFINE D == {d \in Calls : w.calls[d].tasks[x].phase = "waits"}
           f == [d \in D |-> [w.calls[d] EXCEPT !.tasks[x].phase = "starts"]]
           u == [w EXCEPT !.calls = Updated(w.calls, f)]
           order == SetToSeq(D)
           v == WakeAddress(w, x)
<1>1. v = Later(u, order, Address(x))
  BY DEF WakeAddress
<1>2. D \in SUBSET Calls
  OBVIOUS
<1>3. \A d \in Calls : d \in D <=> At(w, d, x) = "waits"
  BY DEF At
<1>4. ASSUME NEW d \in D
      PROVE  /\ f[d] \in CallStates /\ f[d].phase = w.calls[d].phase
             /\ f[d].account = w.calls[d].account /\ f[d].index = w.calls[d].index
             /\ f[d].tasks[x].phase = "starts"
             /\ \A y \in Addresses : y # x => f[d].tasks[y] = w.calls[d].tasks[y]
  <2> DEFINE k == w.calls[d]
             t == [k.tasks[x] EXCEPT !.phase = "starts"]
             l == [k EXCEPT !.tasks = [k.tasks EXCEPT ![x] = t]]
  <2>1. k \in CallStates
    BY WalletFacts
  <2>2. k.tasks \in [Addresses -> Tasks]
    BY <2>1 DEF CallStates
  <2>3. t \in Tasks /\ t.phase = "starts"
    BY <2>2 DEF Tasks, Held
  <2>4. f[d] = l
    BY <2>1, <2>2 DEF CallStates
  <2> HIDE DEF t, f, k
  <2>5. l \in CallStates /\ l.phase = k.phase /\ l.account = k.account /\ l.index = k.index
        /\ l.tasks = [k.tasks EXCEPT ![x] = t]
    BY <2>1, <2>2, <2>3 DEF CallStates
  <2> HIDE DEF l
  <2> QED
    BY <2>2, <2>3, <2>4, <2>5 DEF k
<1>5. f \in [D -> CallStates]
  BY <1>4
<1> HIDE DEF f, D
<1>6. /\ u \in Wallets /\ u.syncing = w.syncing /\ SameMicro(u, w) /\ SameFresh(u, w)
      /\ \A d \in Calls : u.calls[d] = IF d \in D THEN f[d] ELSE w.calls[d]
  BY <1>2, <1>5, UpdatedFacts
<1> HIDE DEF u
<1>7. order \in Seq(Calls) /\ ToSet(order) = D /\ Apart(order)
  BY <1>2, CallOrder
<1>8. Address(x) \in Gates
  BY GateFacts
<1> HIDE DEF order, v
<1>9. /\ v \in Wallets /\ v.syncing = u.syncing /\ SameFresh(v, u) /\ SameCalls(v, u)
      /\ \A d, g : Has(v, d, g) <=> Has(u, d, g) \/ (d \in ToSet(order) /\ g = Address(x))
      /\ Apart(u.micro) /\ Apart(order) /\ (\A d \in ToSet(order) : ~Has(u, d, Address(x)))
           => Apart(v.micro)
  BY <1>1, <1>6, <1>7, <1>8, LaterFacts
<1>10. u.micro = w.micro /\ \A d, g : Has(u, d, g) <=> Has(w, d, g)
  BY <1>6 DEF SameMicro, Has
<1>11. SameFresh(v, w) /\ v.syncing = w.syncing
  BY <1>6, <1>9 DEF SameFresh
<1>12. Placed(v, w) /\ SamePhases(v, w)
  BY <1>4, <1>6, <1>9 DEF SameCalls, Placed, SamePhases, Phase, AccountOf, IndexOf
<1>13. ASSUME NEW d \in Calls, NEW y \in Addresses
       PROVE  IF y = x /\ At(w, d, x) = "waits" THEN At(v, d, y) = "starts"
              ELSE Task(v, d, y) = Task(w, d, y)
  <2>1. Task(v, d, y) = u.calls[d].tasks[y]
    BY <1>9 DEF SameCalls, SameTasks, Task
  <2> QED
    BY <1>3, <1>4, <1>6, <2>1 DEF Task, At
<1>14. \A d \in Calls : \A g : Has(v, d, g) <=>
         Has(w, d, g) \/ (g = Address(x) /\ At(w, d, x) = "waits")
  BY <1>3, <1>7, <1>9, <1>10
<1>15. ASSUME Apart(w.micro), \A d \in Calls : At(w, d, x) = "waits" => ~Has(w, d, Address(x))
       PROVE  Apart(v.micro)
  BY <1>2, <1>3, <1>7, <1>9, <1>10, <1>15
<1> QED
  BY <1>9, <1>11, <1>12, <1>13, <1>14, <1>15 DEF v

LEMMA EndAllFacts ==
  ASSUME NEW w \in Wallets, NEW c \in Calls, Phase(w, c) # "waitsForAll"
  PROVE  LET v == EndAll(w, c)
         IN  /\ v \in Wallets /\ v.syncing = w.syncing \ {All}
             /\ v.freshAddressIndex = w.freshAddressIndex /\ v.freshAddress = w.freshAddressIndex
             /\ Placed(v, w) /\ SameTasks(v, w)
             /\ \A d \in Calls : Phase(v, d) =
                  IF d = c THEN "done"
                  ELSE IF Phase(w, d) = "waitsForAll" THEN "running" ELSE Phase(w, d)
             /\ \A d \in Calls : \A g : Has(v, d, g) <=>
                  Has(w, d, g) \/ (g = All /\ Phase(w, d) = "waitsForAll")
             /\ Apart(w.micro)
                  /\ (\A d \in Calls : Phase(w, d) = "waitsForAll" => ~Has(w, d, All))
                  => Apart(v.micro)
<1> DEFINE D == {d \in Calls : w.calls[d].phase = "waitsForAll"}
           f == [d \in D |-> [w.calls[d] EXCEPT !.phase = "running"]]
           e == SetPhase(w, c, "done")
           s == [e EXCEPT !.syncing = @ \ {All}]
           u == [s EXCEPT !.calls = Updated(s.calls, f)]
           order == SetToSeq(D)
           l == Later(u, order, All)
           v == EndAll(w, c)
<1>1. "done" \in Phases /\ "running" \in Phases
  BY DEF Phases
<1>2. D \in SUBSET Calls
  OBVIOUS
<1>3. \A d \in Calls : d \in D <=> Phase(w, d) = "waitsForAll"
  BY DEF Phase
<1>4. /\ e \in Wallets /\ e.syncing = w.syncing /\ SameMicro(e, w) /\ SameFresh(e, w)
      /\ Placed(e, w) /\ SameTasks(e, w)
      /\ \A d \in Calls : Phase(e, d) = IF d = c THEN "done" ELSE Phase(w, d)
  BY <1>1, SetPhaseFacts
<1>5. v = [l EXCEPT !.freshAddress = w.freshAddressIndex]
  <2>1. [e EXCEPT !.syncing = @ \ {All}, !.calls = Updated(e.calls, f)] = u
    BY <1>4 DEF Wallets
  <2> QED
    BY <2>1 DEF EndAll
<1> HIDE DEF e, v
<1>6. /\ s \in Wallets /\ s.syncing = w.syncing \ {All} /\ SameMicro(s, e) /\ SameFresh(s, e)
      /\ SameCalls(s, e)
  <2>1. w.syncing \ {All} \in SUBSET Gates /\ s = [e EXCEPT !.syncing = w.syncing \ {All}]
    BY <1>4, WalletFacts
  <2> HIDE DEF s
  <2> QED
    BY <1>4, <2>1, SyncingFacts
<1> HIDE DEF s
<1>7. ASSUME NEW d \in D
      PROVE  /\ f[d] \in CallStates /\ f[d].phase = "running"
             /\ f[d].account = w.calls[d].account /\ f[d].index = w.calls[d].index
             /\ f[d].tasks = w.calls[d].tasks
  BY <1>1, WalletFacts DEF CallStates
<1>8. f \in [D -> CallStates]
  BY <1>7
<1> HIDE DEF f, D
<1>9. /\ u \in Wallets /\ u.syncing = s.syncing /\ SameMicro(u, s) /\ SameFresh(u, s)
      /\ \A d \in Calls : u.calls[d] = IF d \in D THEN f[d] ELSE s.calls[d]
  <2>1. u = [s EXCEPT !.calls = Updated(s.calls, f)]
    OBVIOUS
  <2>2. s \in Wallets
    BY <1>6
  <2> HIDE DEF u
  <2> QED
    BY <1>2, <1>8, <2>1, <2>2, UpdatedFacts
<1> HIDE DEF u
<1>10. order \in Seq(Calls) /\ ToSet(order) = D /\ Apart(order)
  BY <1>2, CallOrder
<1> HIDE DEF order
<1>11. /\ l \in Wallets /\ l.syncing = u.syncing /\ SameFresh(l, u) /\ SameCalls(l, u)
       /\ \A d, g : Has(l, d, g) <=> Has(u, d, g) \/ (d \in ToSet(order) /\ g = All)
       /\ Apart(u.micro) /\ Apart(order) /\ (\A d \in ToSet(order) : ~Has(u, d, All))
            => Apart(l.micro)
  BY <1>9, <1>10, GateFacts, LaterFacts
<1> HIDE DEF l
<1>12. /\ v \in Wallets /\ v.syncing = l.syncing /\ v.micro = l.micro /\ v.calls = l.calls
       /\ v.freshAddressIndex = l.freshAddressIndex /\ v.freshAddress = w.freshAddressIndex
  <2>1. l \in Wallets /\ w.freshAddressIndex \in Int
    BY <1>11, WalletFacts
  <2> QED
    BY <1>5, <2>1 DEF Wallets
<1>13. /\ u.syncing = w.syncing \ {All} /\ u.micro = w.micro
       /\ u.freshAddressIndex = w.freshAddressIndex
  BY <1>4, <1>6, <1>9 DEF SameMicro, SameFresh
<1>14. ASSUME NEW d \in Calls
       PROVE  /\ Phase(u, d) = IF d = c THEN "done"
                               ELSE IF Phase(w, d) = "waitsForAll" THEN "running" ELSE Phase(w, d)
              /\ AccountOf(u, d) = AccountOf(w, d) /\ IndexOf(u, d) = IndexOf(w, d)
              /\ \A x \in Addresses : Task(u, d, x) = Task(w, d, x)
  <2>1. /\ Phase(s, d) = (IF d = c THEN "done" ELSE Phase(w, d))
        /\ AccountOf(s, d) = AccountOf(w, d) /\ IndexOf(s, d) = IndexOf(w, d)
        /\ \A x \in Addresses : Task(s, d, x) = Task(w, d, x)
    BY <1>4, <1>6 DEF SameCalls, Placed, SameTasks, SamePhases
  <2>2. CASE d \in D
    BY <1>3, <1>7, <1>9, <2>2 DEF Phase, AccountOf, IndexOf, Task
  <2>3. CASE d \notin D
    <3>1. u.calls[d] = s.calls[d]
      BY <1>9, <2>3
    <3>2. /\ Phase(u, d) = Phase(s, d)
          /\ AccountOf(u, d) = AccountOf(s, d) /\ IndexOf(u, d) = IndexOf(s, d)
          /\ \A x \in Addresses : Task(u, d, x) = Task(s, d, x)
      BY <3>1 DEF Phase, AccountOf, IndexOf, Task
    <3> QED
      BY <1>3, <2>1, <2>3, <3>2
  <2> QED
    BY <2>2, <2>3
<1>15. ASSUME NEW d \in Calls
       PROVE  /\ Phase(v, d) = Phase(u, d)
              /\ AccountOf(v, d) = AccountOf(u, d) /\ IndexOf(v, d) = IndexOf(u, d)
              /\ \A x \in Addresses : Task(v, d, x) = Task(u, d, x)
  BY <1>11, <1>12
  DEF SameCalls, Placed, SameTasks, SamePhases, Phase, AccountOf, IndexOf, Task
<1>16. Placed(v, w) /\ SameTasks(v, w)
  BY <1>14, <1>15 DEF Placed, SameTasks
<1>17. \A d \in Calls : Phase(v, d) =
         IF d = c THEN "done"
         ELSE IF Phase(w, d) = "waitsForAll" THEN "running" ELSE Phase(w, d)
  BY <1>14, <1>15
<1>18. v.syncing = w.syncing \ {All} /\ v.freshAddressIndex = w.freshAddressIndex
  BY <1>11, <1>12, <1>13 DEF SameFresh
<1>19. (\A d, g : Has(u, d, g) <=> Has(w, d, g)) /\ \A d, g : Has(v, d, g) <=> Has(l, d, g)
  BY <1>12, <1>13 DEF Has
<1>20. \A d \in Calls : \A g : Has(v, d, g) <=>
         Has(w, d, g) \/ (g = All /\ Phase(w, d) = "waitsForAll")
  BY <1>3, <1>10, <1>11, <1>19
<1>21. ASSUME Apart(w.micro), \A d \in Calls : Phase(w, d) = "waitsForAll" => ~Has(w, d, All)
       PROVE  Apart(v.micro)
  BY <1>2, <1>3, <1>10, <1>11, <1>12, <1>13, <1>19, <1>21
<1> QED
  BY <1>12, <1>16, <1>17, <1>18, <1>20, <1>21 DEF v

(***************************************************************************)
(* Where a call is.                                                        *)
(***************************************************************************)

\* A call has yet to pass a gate.
Between(w, c) == Has(w, c, All) \/ \E a \in Accounts : Has(w, c, Account(a))

\* A call looks at the addresses of one block, and its microtasks are those of the
\* gate that it comes to.
CallOK(w, c) ==
  /\ Has(w, c, All) => Phase(w, c) = "running" /\ \A a \in Accounts : ~Has(w, c, Account(a))
  /\ \A a \in Accounts : Has(w, c, Account(a)) => Phase(w, c) = "running" /\ AccountOf(w, c) = a
  /\ Has(w, c, All) \/ Phase(w, c) \in {"idle", "waitsForAll"} =>
       AccountOf(w, c) = 0 /\ \A x \in Addresses : At(w, c, x) = "none"
  /\ Between(w, c) \/ Phase(w, c) \in {"done", "waitsForAccount"} =>
       \A x \in Addresses : At(w, c, x) \in Resting
  /\ Phase(w, c) = "running" /\ ~Between(w, c) =>
       \A x \in Addresses : IF x \in Block(w, c) THEN At(w, c, x) # "none"
                            ELSE At(w, c, x) \in Resting
  /\ Phase(w, c) \in {"running", "done", "waitsForAccount"} =>
       \A x \in Addresses : At(w, c, x) # "failed"
  /\ Phase(w, c) = "failed" =>
       (\E x \in Addresses : At(w, c, x) = "failed") \/ \A x \in Addresses : At(w, c, x) = "none"
  /\ \A x \in Addresses : Has(w, c, Address(x)) <=> At(w, c, x) = "starts"
  /\ IndexOf(w, c) + GAP <= MaxIndex + 1

CallsOK(w) == w \in Wallets /\ Apart(w.micro) /\ \A c \in Calls : CallOK(w, c)

\* A call that goes on has an address that does not rest.
BusyAt(w, c) ==
  Phase(w, c) = "running" /\ ~Between(w, c) => \E x \in Block(w, c) : At(w, c, x) \notin Ended

Busy(w) == \A c \in Calls : BusyAt(w, c)

\* A call that has come through a gate, or to the end of a block.
Ready(w, c) ==
  /\ w \in Wallets /\ Apart(w.micro) /\ \A d \in Calls \ {c} : CallOK(w, d) /\ BusyAt(w, d)
  /\ Phase(w, c) = "running" /\ ~Between(w, c)
  /\ \A x \in Addresses : At(w, c, x) \in {"none", "used", "unused"} /\ ~Has(w, c, Address(x))
  /\ IndexOf(w, c) + GAP <= MaxIndex + 1

\* Nothing of a call has changed that matters here.
SameCall(v, w, c) ==
  /\ Phase(v, c) = Phase(w, c) /\ AccountOf(v, c) = AccountOf(w, c)
  /\ IndexOf(v, c) = IndexOf(w, c)
  /\ \A x \in Addresses : At(v, c, x) = At(w, c, x)
  /\ \A g \in Gates : Has(v, c, g) <=> Has(w, c, g)

LEMMA BetweenFrame ==
  ASSUME NEW v, NEW w, NEW c, \A g \in Gates : Has(v, c, g) <=> Has(w, c, g)
  PROVE  Between(v, c) <=> Between(w, c)
BY GateFacts DEF Between

LEMMA BlockFrame ==
  ASSUME NEW v, NEW w, NEW c, AccountOf(v, c) = AccountOf(w, c), IndexOf(v, c) = IndexOf(w, c)
  PROVE  Block(v, c) = Block(w, c)
BY DEF Block, AccountOf, IndexOf

LEMMA CallFrame ==
  ASSUME NEW v, NEW w, NEW c, SameCall(v, w, c), CallOK(w, c)
  PROVE  CallOK(v, c)
<1>1. /\ Phase(v, c) = Phase(w, c) /\ AccountOf(v, c) = AccountOf(w, c)
      /\ IndexOf(v, c) = IndexOf(w, c)
      /\ \A x \in Addresses : At(v, c, x) = At(w, c, x)
      /\ \A g \in Gates : Has(v, c, g) <=> Has(w, c, g)
  BY DEF SameCall
<1>2. /\ Block(v, c) = Block(w, c) /\ (Between(v, c) <=> Between(w, c))
      /\ Has(v, c, All) <=> Has(w, c, All)
      /\ \A a \in Accounts : Has(v, c, Account(a)) <=> Has(w, c, Account(a))
      /\ \A x \in Addresses : Has(v, c, Address(x)) <=> Has(w, c, Address(x))
  BY <1>1, BetweenFrame, BlockFrame, GateFacts
<1> QED
  BY <1>1, <1>2 DEF CallOK

LEMMA BusyFrame ==
  ASSUME NEW v, NEW w, NEW c \in Calls, SameCall(v, w, c), w \in Wallets,
         CallOK(w, c), BusyAt(w, c)
  PROVE  BusyAt(v, c)
<1>1. /\ Phase(v, c) = Phase(w, c) /\ Block(v, c) = Block(w, c)
      /\ \A x \in Addresses : At(v, c, x) = At(w, c, x)
  BY BlockFrame DEF SameCall
<1>2. Between(v, c) <=> Between(w, c)
  BY BetweenFrame DEF SameCall
<1>3. Block(w, c) \subseteq Addresses
  BY BlockFacts DEF CallOK
<1> QED
  BY <1>1, <1>2, <1>3 DEF BusyAt

\* One call changes.
LEMMA OneChanges ==
  ASSUME NEW v \in Wallets, NEW w \in Wallets, NEW c \in Calls, Apart(v.micro),
         \A d \in Calls \ {c} : CallOK(w, d) /\ BusyAt(w, d) /\ SameCall(v, w, d),
         CallOK(v, c), BusyAt(v, c)
  PROVE  CallsOK(v) /\ Busy(v)
<1>1. ASSUME NEW d \in Calls \ {c} PROVE CallOK(v, d) /\ BusyAt(v, d)
  BY <1>1, CallFrame, BusyFrame
<1> QED
  BY <1>1 DEF CallsOK, Busy

LEMMA TaskAt ==
  ASSUME NEW v, NEW w, NEW c, NEW d, NEW x, Task(v, c, x) = Task(w, d, x)
  PROVE  At(v, c, x) = At(w, d, x)
BY DEF Task, At

LEMMA AtType ==
  ASSUME NEW w \in Wallets, NEW c \in Calls, NEW x \in Addresses
  PROVE  At(w, c, x) \in {"waits"} \cup Resting \cup Held
<1>1. Task(w, c, x) \in Tasks
  BY WalletFacts
<1> QED
  BY <1>1 DEF Tasks, Task, At

\* A call that comes to a gate waits or has a microtask more.
LEMMA PhaseIs ==
  ASSUME NEW w \in Wallets, NEW c \in Calls, NEW p \in Phases
  PROVE  LET v == SetPhase(w, c, p)
         IN  /\ v \in Wallets /\ v.syncing = w.syncing /\ v.micro = w.micro /\ SameFresh(v, w)
             /\ Placed(v, w) /\ SameTasks(v, w)
             /\ (\A d \in Calls : Phase(v, d) = IF d = c THEN p ELSE Phase(w, d))
             /\ \A d, g : Has(v, d, g) <=> Has(w, d, g)
BY SetPhaseFacts DEF SameMicro, Has

LEMMA ComesTo ==
  ASSUME NEW w \in Wallets, NEW c \in Calls, NEW gate \in Gates, Apart(w.micro),
         ~Has(w, c, gate), NEW p \in Phases
  PROVE  LET v == Later(SetPhase(w, c, p), <<c>>, gate)
         IN  /\ v \in Wallets /\ v.syncing = w.syncing /\ Apart(v.micro) /\ SameFresh(v, w)
             /\ Placed(v, w) /\ SameTasks(v, w)
             /\ (\A d \in Calls : Phase(v, d) = IF d = c THEN p ELSE Phase(w, d))
             /\ \A d, g : Has(v, d, g) <=> Has(w, d, g) \/ (d = c /\ g = gate)
<1> DEFINE u == SetPhase(w, c, p)
           v == Later(u, <<c>>, gate)
           order == <<c>>
<1>1. /\ u \in Wallets /\ u.syncing = w.syncing /\ SameMicro(u, w) /\ SameFresh(u, w)
      /\ Placed(u, w) /\ SameTasks(u, w)
      /\ \A d \in Calls : Phase(u, d) = IF d = c THEN p ELSE Phase(w, d)
  BY SetPhaseFacts
<1>2. order \in Seq(Calls) /\ ToSet(order) = {c}
  BY SingleFacts
<1>3. Apart(order)
  BY DEF Apart
<1> HIDE DEF u, order
<1>4. u.micro = w.micro /\ \A d, g : Has(u, d, g) <=> Has(w, d, g)
  BY <1>1 DEF SameMicro, Has
<1> DEFINE z == Later(u, order, gate)
<1>5. /\ z \in Wallets /\ z.syncing = u.syncing /\ SameFresh(z, u) /\ SameCalls(z, u)
      /\ \A d, g : Has(z, d, g) <=> Has(u, d, g) \/ (d \in ToSet(order) /\ g = gate)
      /\ Apart(u.micro) /\ Apart(order) /\ (\A d \in ToSet(order) : ~Has(u, d, gate))
           => Apart(z.micro)
  BY <1>1, <1>2, LaterFacts
<1>6. v = z
  BY DEF order
<1> HIDE DEF z, v
<1>7. Placed(z, w) /\ SameTasks(z, w) /\ SameFresh(z, w)
  BY <1>1, <1>5 DEF SameCalls, Placed, SameTasks, SameFresh
<1>8. \A d \in Calls : Phase(z, d) = IF d = c THEN p ELSE Phase(w, d)
  BY <1>1, <1>5 DEF SameCalls, SamePhases
<1>9. (\A d, g : Has(z, d, g) <=> Has(w, d, g) \/ (d = c /\ g = gate)) /\ Apart(z.micro)
  BY <1>2, <1>3, <1>4, <1>5
<1> QED
  BY <1>5, <1>6, <1>1, <1>7, <1>8, <1>9 DEF u, v

LEMMA JoinsOK ==
  ASSUME NEW w, CallsOK(w), Busy(w), NEW c \in Calls, Phase(w, c) = "idle"
  PROVE  CallsOK(whenSyncedAll(w, c)) /\ Busy(whenSyncedAll(w, c))
<1> DEFINE v == whenSyncedAll(w, c)
<1>1. w \in Wallets /\ Apart(w.micro) /\ \A d \in Calls : CallOK(w, d) /\ BusyAt(w, d)
  BY DEF CallsOK, Busy
<1>2. CallOK(w, c)
  BY <1>1
<1>3. /\ ~Has(w, c, All) /\ ~Between(w, c) /\ AccountOf(w, c) = 0
      /\ \A x \in Addresses : At(w, c, x) = "none" /\ ~Has(w, c, Address(x))
      /\ \A a \in Accounts : ~Has(w, c, Account(a))
      /\ IndexOf(w, c) + GAP <= MaxIndex + 1
  BY <1>2 DEF CallOK, Between
<1> DEFINE p == IF All \in w.syncing THEN "waitsForAll" ELSE "running"
<1>4. p \in Phases
  BY DEF Phases
<1>5. /\ v \in Wallets /\ Apart(v.micro) /\ Placed(v, w) /\ SameTasks(v, w)
      /\ \A d \in Calls : Phase(v, d) = IF d = c THEN p ELSE Phase(w, d)
      /\ \A d, g : Has(v, d, g) <=>
           Has(w, d, g) \/ (d = c /\ g = All /\ p = "running")
  <2>1. CASE All \in w.syncing
    <3>1. v = SetPhase(w, c, p) /\ p # "running"
      BY <2>1 DEF whenSyncedAll
    <3> HIDE DEF p, v
    <3> QED
      BY <1>1, <1>3, <1>4, <3>1, PhaseIs
  <2>2. CASE All \notin w.syncing
    <3>1. v = Later(SetPhase(w, c, p), <<c>>, All) /\ p = "running"
      BY <2>2 DEF whenSyncedAll
    <3> HIDE DEF p, v
    <3> QED
      BY <1>1, <1>3, <1>4, <3>1, ComesTo, GateFacts
  <2> QED
    BY <2>1, <2>2
<1>6. p \in {"waitsForAll", "running"}
  OBVIOUS
<1> HIDE DEF v, p
<1>7. /\ Phase(v, c) = p /\ AccountOf(v, c) = 0 /\ IndexOf(v, c) = IndexOf(w, c)
      /\ Has(v, c, All) <=> p = "running"
      /\ \A x \in Addresses : At(v, c, x) = "none" /\ ~Has(v, c, Address(x))
      /\ \A a \in Accounts : ~Has(v, c, Account(a))
      /\ Between(v, c) <=> p = "running"
  BY <1>3, <1>5, GateFacts, TaskAt DEF Placed, SameTasks, Between
<1>8. CallOK(v, c) /\ BusyAt(v, c)
  BY <1>3, <1>6, <1>7 DEF CallOK, BusyAt, Resting
<1>9. ASSUME NEW d \in Calls \ {c} PROVE SameCall(v, w, d)
  BY <1>5, TaskAt DEF SameCall, Placed, SameTasks
<1>10. CallsOK(v) /\ Busy(v)
  BY <1>1, <1>5, <1>8, <1>9, OneChanges
<1> QED
  BY <1>10 DEF v

\* The end of an account, and the gate of all.
LEMMA ReadyAccountOK ==
  ASSUME NEW w, NEW c \in Calls, Ready(w, c)
  PROVE  CallsOK(whenSyncedAccount(w, c)) /\ Busy(whenSyncedAccount(w, c))
<1> DEFINE v == whenSyncedAccount(w, c)
           a == AccountOf(w, c)
<1>1. /\ w \in Wallets /\ Apart(w.micro)
      /\ \A d \in Calls \ {c} : CallOK(w, d) /\ BusyAt(w, d)
  BY DEF Ready
<1>3. /\ ~Has(w, c, All) /\ ~Between(w, c)
      /\ \A x \in Addresses : At(w, c, x) \in {"none", "used", "unused"} /\ ~Has(w, c, Address(x))
      /\ \A b \in Accounts : ~Has(w, c, Account(b))
      /\ IndexOf(w, c) + GAP <= MaxIndex + 1
      /\ a \in Accounts
  BY WalletFacts DEF Ready, Between
<1> DEFINE p == IF Account(a) \in w.syncing THEN "waitsForAccount" ELSE "running"
<1>4. p \in Phases /\ Account(a) \in Gates
  BY <1>3, GateFacts DEF Phases
<1>5. /\ v \in Wallets /\ Apart(v.micro) /\ Placed(v, w) /\ SameTasks(v, w)
      /\ \A d \in Calls : Phase(v, d) = IF d = c THEN p ELSE Phase(w, d)
      /\ \A d, g : Has(v, d, g) <=>
           Has(w, d, g) \/ (d = c /\ g = Account(a) /\ p = "running")
  <2>1. CASE Account(a) \in w.syncing
    <3>1. v = SetPhase(w, c, p) /\ p # "running"
      BY <2>1 DEF whenSyncedAccount, AccountOf
    <3> HIDE DEF p, v, a
    <3> QED
      BY <1>1, <1>3, <1>4, <3>1, PhaseIs
  <2>2. CASE Account(a) \notin w.syncing
    <3>1. v = Later(SetPhase(w, c, p), <<c>>, Account(a)) /\ p = "running"
      BY <2>2 DEF whenSyncedAccount, AccountOf
    <3> HIDE DEF p, v, a
    <3> QED
      BY <1>1, <1>3, <1>4, <3>1, ComesTo
  <2> QED
    BY <2>1, <2>2
<1>6. p \in {"waitsForAccount", "running"}
  OBVIOUS
<1> HIDE DEF v, p
<1>7. /\ Phase(v, c) = p /\ AccountOf(v, c) = a /\ IndexOf(v, c) = IndexOf(w, c)
      /\ ~Has(v, c, All)
      /\ \A x \in Addresses : At(v, c, x) \in {"none", "used", "unused"} /\ ~Has(v, c, Address(x))
      /\ \A b \in Accounts : Has(v, c, Account(b)) <=> b = a /\ p = "running"
      /\ Between(v, c) <=> p = "running"
  <2> HIDE DEF a
  <2>1. \A x \in Addresses : At(v, c, x) = At(w, c, x)
    BY <1>5, TaskAt DEF SameTasks
  <2> QED
    BY <1>3, <1>5, <2>1, GateFacts DEF Placed, Between, a
<1>8. CallOK(v, c) /\ BusyAt(v, c)
  BY <1>3, <1>6, <1>7 DEF CallOK, BusyAt, Resting
<1>9. ASSUME NEW d \in Calls \ {c} PROVE SameCall(v, w, d)
  BY <1>5, TaskAt DEF SameCall, Placed, SameTasks
<1>10. CallsOK(v) /\ Busy(v)
  BY <1>1, <1>5, <1>8, <1>9, OneChanges
<1> QED
  BY <1>10 DEF v

\* What is ready stays so when gates open, and when the call comes to another place.
LEMMA ReadyFrame ==
  ASSUME NEW w, NEW c \in Calls, Ready(w, c), NEW v \in Wallets, Apart(v.micro),
         \A d \in Calls \ {c} : SameCall(v, w, d),
         Phase(v, c) = "running", IndexOf(v, c) + GAP <= MaxIndex + 1,
         \A x \in Addresses : At(v, c, x) = At(w, c, x),
         \A g \in Gates : Has(v, c, g) <=> Has(w, c, g)
  PROVE  Ready(v, c)
<1>1. \A d \in Calls \ {c} : CallOK(w, d) /\ BusyAt(w, d)
  BY DEF Ready
<1>2. ASSUME NEW d \in Calls \ {c} PROVE CallOK(v, d) /\ BusyAt(v, d)
  BY <1>1, <1>2, CallFrame, BusyFrame DEF Ready
<1>3. Between(v, c) <=> Between(w, c)
  BY BetweenFrame
<1>4. \A x \in Addresses : Has(v, c, Address(x)) <=> Has(w, c, Address(x))
  BY GateFacts
<1> QED
  BY <1>2, <1>3, <1>4 DEF Ready

\* A block begins.
LEMMA ReadyStartOK ==
  ASSUME NEW w, NEW c \in Calls, Ready(w, c)
  PROVE  CallsOK(StartBlock(w, c)) /\ Busy(StartBlock(w, c))
<1> DEFINE v == StartBlock(w, c)
           B == Block(w, c)
<1>1. /\ w \in Wallets /\ Apart(w.micro)
      /\ \A d \in Calls \ {c} : CallOK(w, d) /\ BusyAt(w, d)
      /\ Phase(w, c) = "running" /\ ~Between(w, c)
      /\ \A x \in Addresses : At(w, c, x) \in {"none", "used", "unused"} /\ ~Has(w, c, Address(x))
      /\ IndexOf(w, c) + GAP <= MaxIndex + 1
  BY DEF Ready
<1>2. B \subseteq Addresses /\ \E x \in Addresses : x \in B
  BY <1>1, BlockFacts
<1>3. /\ v \in Wallets /\ Placed(v, w) /\ SamePhases(v, w)
      /\ \A d \in Calls : \A x \in Addresses :
           Task(v, d, x) = IF d = c /\ x \in B THEN Starting(w, x) ELSE Task(w, d, x)
      /\ \A d, g : Has(v, d, g) <=>
           \/ Has(w, d, g)
           \/ d = c /\ \E x \in B : g = Address(x) /\ Address(x) \notin w.syncing
      /\ Apart(v.micro)
  BY <1>1, <1>2, StartFacts
<1>4. \A x \in Addresses :
        At(v, c, x) = IF x \in B THEN IF Address(x) \in w.syncing THEN "waits" ELSE "starts"
                      ELSE At(w, c, x)
  BY <1>3, StartingFacts DEF Task, At
<1>5. Block(v, c) = B
  BY <1>3, BlockFrame DEF Placed
<1> HIDE DEF v, B
<1>6. /\ Has(v, c, All) <=> Has(w, c, All)
      /\ \A a \in Accounts : Has(v, c, Account(a)) <=> Has(w, c, Account(a))
      /\ \A x \in Addresses : Has(v, c, Address(x)) <=> x \in B /\ Address(x) \notin w.syncing
  <2>1. Has(v, c, All) <=> Has(w, c, All)
    BY <1>3, GateFacts
  <2>2. \A a \in Accounts : Has(v, c, Account(a)) <=> Has(w, c, Account(a))
    BY <1>3, GateFacts
  <2>3. ASSUME NEW x \in Addresses
        PROVE  Has(v, c, Address(x)) <=> x \in B /\ Address(x) \notin w.syncing
    BY <1>1, <1>3, GateFacts
  <2> QED
    BY <2>1, <2>2, <2>3
<1>7. ~Between(v, c) /\ ~Has(v, c, All) /\ \A a \in Accounts : ~Has(v, c, Account(a))
  BY <1>1, <1>6 DEF Between
<1>8. Phase(v, c) = "running" /\ IndexOf(v, c) + GAP <= MaxIndex + 1
  BY <1>1, <1>3 DEF Placed, SamePhases
<1>9. CallOK(v, c)
  BY <1>1, <1>4, <1>5, <1>6, <1>7, <1>8 DEF CallOK, Resting
<1>10. BusyAt(v, c)
  BY <1>2, <1>4, <1>5 DEF BusyAt, Ended
<1>11. ASSUME NEW d \in Calls \ {c} PROVE SameCall(v, w, d)
  BY <1>3, TaskAt DEF SameCall, Placed, SamePhases
<1>12. CallsOK(v) /\ Busy(v)
  BY <1>1, <1>3, <1>9, <1>10, <1>11, OneChanges
<1> QED
  BY <1>12 DEF v

\* The end of a call, and what waited for it.
LEMMA ReadyEndOK ==
  ASSUME NEW w, NEW c \in Calls, Ready(w, c)
  PROVE  CallsOK(EndAll(w, c)) /\ Busy(EndAll(w, c))
<1> DEFINE v == EndAll(w, c)
<1>1. /\ w \in Wallets /\ Apart(w.micro)
      /\ \A d \in Calls \ {c} : CallOK(w, d) /\ BusyAt(w, d)
      /\ Phase(w, c) = "running" /\ ~Between(w, c)
      /\ \A x \in Addresses : At(w, c, x) \in {"none", "used", "unused"} /\ ~Has(w, c, Address(x))
      /\ IndexOf(w, c) + GAP <= MaxIndex + 1
  BY DEF Ready
<1>2. \A d \in Calls : Phase(w, d) = "waitsForAll" => d # c /\ ~Has(w, d, All)
  BY <1>1 DEF CallOK
<1>3. /\ v \in Wallets /\ Placed(v, w) /\ SameTasks(v, w)
      /\ \A d \in Calls : Phase(v, d) =
           IF d = c THEN "done"
           ELSE IF Phase(w, d) = "waitsForAll" THEN "running" ELSE Phase(w, d)
      /\ \A d \in Calls : \A g : Has(v, d, g) <=>
           Has(w, d, g) \/ (g = All /\ Phase(w, d) = "waitsForAll")
      /\ Apart(v.micro)
  BY <1>1, <1>2, EndAllFacts
<1> HIDE DEF v
<1>4. \A d \in Calls : /\ AccountOf(v, d) = AccountOf(w, d) /\ IndexOf(v, d) = IndexOf(w, d)
                       /\ \A x \in Addresses : At(v, d, x) = At(w, d, x)
  BY <1>3, TaskAt DEF Placed, SameTasks
<1>5. ASSUME NEW d \in Calls \ {c} PROVE CallOK(v, d) /\ BusyAt(v, d)
  <2>1. CASE Phase(w, d) = "waitsForAll"
    <3>1. /\ Phase(v, d) = "running" /\ Has(v, d, All) /\ Between(v, d)
          /\ \A a \in Accounts : Has(v, d, Account(a)) <=> Has(w, d, Account(a))
          /\ \A x \in Addresses : Has(v, d, Address(x)) <=> Has(w, d, Address(x))
      BY <1>3, <2>1, GateFacts DEF Between
    <3>2. /\ AccountOf(w, d) = 0 /\ \A x \in Addresses : At(w, d, x) = "none" /\ ~Has(w, d, Address(x))
          /\ \A a \in Accounts : ~Has(w, d, Account(a))
          /\ IndexOf(w, d) + GAP <= MaxIndex + 1
      BY <1>1, <2>1 DEF CallOK
    <3> QED
      BY <1>4, <3>1, <3>2 DEF CallOK, BusyAt, Resting
  <2>2. CASE Phase(w, d) # "waitsForAll"
    <3>1. SameCall(v, w, d)
      BY <1>3, <1>4, <2>2 DEF SameCall
    <3> QED
      BY <1>1, <3>1, CallFrame, BusyFrame
  <2> QED
    BY <2>1, <2>2
<1>6. /\ Phase(v, c) = "done" /\ ~Has(v, c, All)
      /\ \A a \in Accounts : ~Has(v, c, Account(a))
      /\ \A x \in Addresses : At(v, c, x) \in {"none", "used", "unused"} /\ ~Has(v, c, Address(x))
      /\ IndexOf(v, c) + GAP <= MaxIndex + 1
  BY <1>1, <1>3, <1>4, GateFacts DEF Between
<1>7. CallOK(v, c) /\ BusyAt(v, c)
  BY <1>6 DEF CallOK, BusyAt, Resting, Between
<1>8. CallsOK(v) /\ Busy(v)
  BY <1>3, <1>5, <1>7 DEF CallsOK, Busy
<1> QED
  BY <1>8 DEF v

\* An address has ended, and the block of its call is looked at next.
BeforeBlock(w, c, x, found) ==
  LET w1 == WakeAddress([w EXCEPT !.syncing = @ \ {Address(x)}], x)
      w2 == IF x[1] = 0 /\ found = "used"
            THEN [w1 EXCEPT !.freshAddressIndex = Max({@, x[2] + 1})] ELSE w1
  IN  SetTask(w2, c, x, [NoTask EXCEPT !.phase = found])

LEMMA MaxIs ==
  ASSUME NEW a \in Nat, NEW b \in Nat
  PROVE  Max({a, b}) = IF a >= b THEN a ELSE b
<1> DEFINE m == IF a >= b THEN a ELSE b
<1>1. m \in {a, b} /\ \A y \in {a, b} : m >= y
  OBVIOUS
<1>2. \A z \in {a, b} : (\A y \in {a, b} : z >= y) => z = m
  OBVIOUS
<1> QED
  BY <1>1, <1>2 DEF Max

LEMMA FreshIndexFacts ==
  ASSUME NEW w \in Wallets, NEW n \in Nat
  PROVE  LET v == [w EXCEPT !.freshAddressIndex = n]
         IN  /\ v \in Wallets /\ v.syncing = w.syncing /\ v.micro = w.micro /\ v.calls = w.calls
             /\ v.freshAddressIndex = n /\ v.freshAddress = w.freshAddress
<1> DEFINE v == [w EXCEPT !.freshAddressIndex = n]
<1>1. /\ v.syncing = w.syncing /\ v.micro = w.micro /\ v.calls = w.calls
      /\ v.freshAddressIndex = n /\ v.freshAddress = w.freshAddress
  BY DEF Wallets
<1>2. v \in Wallets
  BY DEF Wallets
<1> QED
  BY <1>1, <1>2

LEMMA SameState ==
  ASSUME NEW v, NEW w, v.micro = w.micro, v.calls = w.calls
  PROVE  SameCalls(v, w) /\ \A d, g : Has(v, d, g) <=> Has(w, d, g)
BY DEF SameCalls, Placed, SamePhases, SameTasks, Phase, AccountOf, IndexOf, Task, Has

RestTask(p) == [NoTask EXCEPT !.phase = p]

LEMMA RestFacts ==
  ASSUME NEW p \in Resting
  PROVE  RestTask(p) \in Tasks /\ RestTask(p).phase = p /\ RestTask(p).pending = <<>>
<1>1. RestTask(p) = [phase |-> p, last |-> NoTx, pending |-> <<>>]
  BY DEF RestTask, NoTask
<1> QED
  BY <1>1 DEF Tasks

LEMMA BeforeBlockFacts ==
  ASSUME NEW w \in Wallets, NEW c \in Calls, NEW x \in Addresses, NEW found \in {"used", "unused"},
         At(w, c, x) # "waits"
  PROVE  LET v == BeforeBlock(w, c, x, found)
         IN  /\ v \in Wallets /\ v.syncing = w.syncing \ {Address(x)}
             /\ v.freshAddressIndex =
                  IF x[1] = 0 /\ found = "used" /\ w.freshAddressIndex < x[2] + 1
                  THEN x[2] + 1 ELSE w.freshAddressIndex
             /\ v.freshAddress = w.freshAddress
             /\ Placed(v, w) /\ SamePhases(v, w)
             /\ Task(v, c, x) = RestTask(found)
             /\ \A d \in Calls : \A y \in Addresses :
                  (d # c \/ y # x) =>
                    IF y = x /\ At(w, d, x) = "waits" THEN At(v, d, y) = "starts"
                    ELSE Task(v, d, y) = Task(w, d, y)
             /\ \A d \in Calls : \A g : Has(v, d, g) <=>
                  Has(w, d, g) \/ (g = Address(x) /\ At(w, d, x) = "waits")
             /\ Apart(w.micro)
                  /\ (\A d \in Calls : At(w, d, x) = "waits" => ~Has(w, d, Address(x)))
                  => Apart(v.micro)
<1> DEFINE o == [w EXCEPT !.syncing = @ \ {Address(x)}]
           w1 == WakeAddress(o, x)
           n == Max({w1.freshAddressIndex, x[2] + 1})
           w2 == IF x[1] = 0 /\ found = "used" THEN [w1 EXCEPT !.freshAddressIndex = n] ELSE w1
           t == RestTask(found)
           v == SetTask(w2, c, x, t)
<1>1. /\ o \in Wallets /\ o.syncing = w.syncing \ {Address(x)} /\ SameMicro(o, w)
      /\ SameFresh(o, w) /\ SameCalls(o, w)
  <2>1. w.syncing \ {Address(x)} \in SUBSET Gates
        /\ o = [w EXCEPT !.syncing = w.syncing \ {Address(x)}]
    BY WalletFacts
  <2> HIDE DEF o
  <2> QED
    BY <2>1, SyncingFacts
<1> HIDE DEF o
<1>2. /\ w1 \in Wallets /\ w1.syncing = o.syncing /\ SameFresh(w1, o)
      /\ Placed(w1, o) /\ SamePhases(w1, o)
      /\ \A d \in Calls : \A y \in Addresses :
           IF y = x /\ At(o, d, x) = "waits" THEN At(w1, d, y) = "starts"
           ELSE Task(w1, d, y) = Task(o, d, y)
      /\ \A d \in Calls : \A g : Has(w1, d, g) <=>
           Has(o, d, g) \/ (g = Address(x) /\ At(o, d, x) = "waits")
      /\ Apart(o.micro)
           /\ (\A d \in Calls : At(o, d, x) = "waits" => ~Has(o, d, Address(x)))
           => Apart(w1.micro)
  BY <1>1, WakeFacts
<1> HIDE DEF w1
<1>3. /\ w1.freshAddressIndex \in Nat /\ x[1] \in Accounts /\ x[2] \in Nat
      /\ w1.freshAddressIndex = w.freshAddressIndex /\ w1.freshAddress = w.freshAddress
  BY <1>1, <1>2, WalletFacts DEF SameFresh, Addresses
<1>4. n = IF w1.freshAddressIndex >= x[2] + 1 THEN w1.freshAddressIndex ELSE x[2] + 1
  BY <1>3, MaxIs
<1>5. n \in Nat
  BY <1>3, <1>4
<1> HIDE DEF n
<1>6. /\ w2 \in Wallets /\ w2.syncing = w1.syncing /\ w2.micro = w1.micro /\ w2.calls = w1.calls
      /\ w2.freshAddress = w1.freshAddress
      /\ w2.freshAddressIndex = IF x[1] = 0 /\ found = "used" THEN n ELSE w1.freshAddressIndex
  <2>1. CASE x[1] = 0 /\ found = "used"
    <3>1. w2 = [w1 EXCEPT !.freshAddressIndex = n]
      BY <2>1
    <3> HIDE DEF w2
    <3> QED
      BY <1>2, <1>5, <2>1, <3>1, FreshIndexFacts
  <2>2. CASE ~(x[1] = 0 /\ found = "used")
    BY <1>2, <2>2
  <2> QED
    BY <2>1, <2>2
<1> HIDE DEF w2
<1>7. t \in Tasks /\ found \in Resting
  BY RestFacts DEF Resting
<1> HIDE DEF t
<1>8. /\ v \in Wallets /\ v.syncing = w2.syncing /\ SameMicro(v, w2) /\ SameFresh(v, w2)
      /\ Placed(v, w2) /\ SamePhases(v, w2)
      /\ \A d \in Calls : \A y \in Addresses :
           Task(v, d, y) = IF d = c /\ y = x THEN t ELSE Task(w2, d, y)
  BY <1>6, <1>7, SetTaskFacts
<1>9. SameCalls(w2, w1) /\ \A d, g : Has(w2, d, g) <=> Has(w1, d, g)
  BY <1>6, SameState
<1>10. BeforeBlock(w, c, x, found) = v
  <2>1. [NoTask EXCEPT !.phase = found] = t
    BY DEF t, RestTask
  <2> QED
    BY <2>1 DEF BeforeBlock, o, w1, w2, n
<1> HIDE DEF v
<1>11. /\ v.syncing = w.syncing \ {Address(x)} /\ v.freshAddress = w.freshAddress
       /\ v.freshAddressIndex = w2.freshAddressIndex /\ v.micro = w2.micro
  BY <1>1, <1>2, <1>3, <1>6, <1>8 DEF SameFresh, SameMicro
<1>12. v.freshAddressIndex =
         IF x[1] = 0 /\ found = "used" /\ w.freshAddressIndex < x[2] + 1
         THEN x[2] + 1 ELSE w.freshAddressIndex
  BY <1>3, <1>4, <1>6, <1>11
<1>13. Placed(v, w) /\ SamePhases(v, w)
  BY <1>1, <1>2, <1>8, <1>9 DEF SameCalls, Placed, SamePhases
<1>14. Task(v, c, x) = t
  BY <1>8
<1>15. (\A d, g : Has(o, d, g) <=> Has(w, d, g)) /\ \A d, g : Has(v, d, g) <=> Has(w2, d, g)
  BY <1>1, <1>11 DEF Has, SameMicro
<1>16. \A d \in Calls : \A y \in Addresses : Task(o, d, y) = Task(w, d, y) /\ At(o, d, y) = At(w, d, y)
  BY <1>1, TaskAt DEF SameCalls, SameTasks
<1>17. ASSUME NEW d \in Calls, NEW y \in Addresses, d # c \/ y # x
       PROVE  IF y = x /\ At(w, d, x) = "waits" THEN At(v, d, y) = "starts"
              ELSE Task(v, d, y) = Task(w, d, y)
  <2>1. Task(v, d, y) = Task(w1, d, y) /\ At(v, d, y) = At(w1, d, y)
    BY <1>8, <1>9, <1>17, TaskAt DEF SameCalls, SameTasks
  <2> QED
    BY <1>2, <1>16, <2>1
<1>18. \A d \in Calls : \A g : Has(v, d, g) <=>
         Has(w, d, g) \/ (g = Address(x) /\ At(w, d, x) = "waits")
  BY <1>2, <1>9, <1>15, <1>16
<1>19. ASSUME Apart(w.micro), \A d \in Calls : At(w, d, x) = "waits" => ~Has(w, d, Address(x))
       PROVE  Apart(v.micro)
  BY <1>1, <1>2, <1>6, <1>11, <1>15, <1>16, <1>19 DEF SameMicro
<1> QED
  BY <1>8, <1>10, <1>11, <1>12, <1>13, <1>14, <1>17, <1>18, <1>19 DEF t

LEMMA FetchPhase ==
  ASSUME NEW w \in Wallets, NEW c \in Calls, CallOK(w, c), NEW x \in Addresses,
         At(w, c, x) \in {"waits"} \cup Held
  PROVE  Phase(w, c) \in {"running", "failed"} /\ ~Between(w, c)
<1>1. Phase(w, c) \in Phases /\ At(w, c, x) \notin Resting /\ At(w, c, x) # "none"
  BY WalletFacts DEF Resting, Held
<1>2. /\ ~(Has(w, c, All) \/ Phase(w, c) \in {"idle", "waitsForAll"})
      /\ ~(Between(w, c) \/ Phase(w, c) \in {"done", "waitsForAccount"})
  BY <1>1 DEF CallOK
<1> QED
  BY <1>1, <1>2 DEF Phases

\* A call that looks at addresses, or has failed then.
LEMMA ActiveOK ==
  ASSUME NEW v, NEW d, Phase(v, d) \in {"running", "failed"}, ~Between(v, d),
         IndexOf(v, d) + GAP <= MaxIndex + 1,
         \A y \in Addresses : Has(v, d, Address(y)) <=> At(v, d, y) = "starts",
         Phase(v, d) = "running" =>
           \A y \in Addresses :
             IF y \in Block(v, d) THEN At(v, d, y) # "none" ELSE At(v, d, y) \in Resting,
         Phase(v, d) = "running" => \A y \in Addresses : At(v, d, y) # "failed",
         Phase(v, d) = "failed" =>
           (\E y \in Addresses : At(v, d, y) = "failed") \/ \A y \in Addresses : At(v, d, y) = "none"
  PROVE  CallOK(v, d)
<1>1. ~Has(v, d, All) /\ \A a \in Accounts : ~Has(v, d, Account(a))
  BY DEF Between
<1>2. CASE Phase(v, d) = "running"
  BY <1>1, <1>2 DEF CallOK
<1>3. CASE Phase(v, d) = "failed"
  BY <1>1, <1>3 DEF CallOK
<1> QED
  BY <1>2, <1>3

LEMMA BeforeBlockOK ==
  ASSUME NEW w, CallsOK(w), Busy(w), NEW c \in Calls, NEW x \in Addresses, At(w, c, x) = "fetch",
         NEW found \in {"used", "unused"}
  PROVE  LET v == BeforeBlock(w, c, x, found)
         IN  CallsOK(v) /\ \A d \in Calls \ {c} : BusyAt(v, d)
<1> DEFINE v == BeforeBlock(w, c, x, found)
<1>1. w \in Wallets /\ Apart(w.micro) /\ \A d \in Calls : CallOK(w, d) /\ BusyAt(w, d)
  BY DEF CallsOK, Busy
<1>2. \A d \in Calls : At(w, d, x) = "waits" => ~Has(w, d, Address(x))
  BY <1>1 DEF CallOK
<1>3. /\ v \in Wallets /\ Apart(v.micro) /\ Placed(v, w) /\ SamePhases(v, w)
      /\ Task(v, c, x) = RestTask(found)
      /\ \A d \in Calls : \A y \in Addresses :
           (d # c \/ y # x) =>
             IF y = x /\ At(w, d, x) = "waits" THEN At(v, d, y) = "starts"
             ELSE Task(v, d, y) = Task(w, d, y)
      /\ \A d \in Calls : \A g : Has(v, d, g) <=>
           Has(w, d, g) \/ (g = Address(x) /\ At(w, d, x) = "waits")
  BY <1>1, <1>2, BeforeBlockFacts
<1> HIDE DEF v
<1>4. At(v, c, x) = found
  BY <1>3, RestFacts DEF At, Task, Resting
<1>5. \A d \in Calls : \A y \in Addresses :
        (d # c \/ y # x) =>
          At(v, d, y) = IF y = x /\ At(w, d, x) = "waits" THEN "starts" ELSE At(w, d, y)
  BY <1>3, TaskAt
<1>6. ASSUME NEW d \in Calls
      PROVE  /\ Phase(v, d) = Phase(w, d) /\ AccountOf(v, d) = AccountOf(w, d)
             /\ IndexOf(v, d) = IndexOf(w, d) /\ Block(v, d) = Block(w, d)
             /\ Has(v, d, All) <=> Has(w, d, All)
             /\ \A a \in Accounts : Has(v, d, Account(a)) <=> Has(w, d, Account(a))
             /\ \A y \in Addresses : Has(v, d, Address(y)) <=>
                  Has(w, d, Address(y)) \/ (y = x /\ At(w, d, x) = "waits")
             /\ Between(v, d) <=> Between(w, d)
  <2>1. /\ Phase(v, d) = Phase(w, d) /\ AccountOf(v, d) = AccountOf(w, d)
        /\ IndexOf(v, d) = IndexOf(w, d) /\ Block(v, d) = Block(w, d)
    BY <1>3, BlockFrame DEF Placed, SamePhases
  <2>2. /\ Has(v, d, All) <=> Has(w, d, All)
        /\ \A a \in Accounts : Has(v, d, Account(a)) <=> Has(w, d, Account(a))
    BY <1>3, GateFacts
  <2>3. \A y \in Addresses : Has(v, d, Address(y)) <=>
          Has(w, d, Address(y)) \/ (y = x /\ At(w, d, x) = "waits")
    BY <1>3, GateFacts
  <2> QED
    BY <2>1, <2>2, <2>3 DEF Between
<1>7. ASSUME NEW d \in Calls \ {c} PROVE CallOK(v, d) /\ BusyAt(v, d)
  <2>1. CASE At(w, d, x) = "waits"
    <3>1. Phase(w, d) \in {"running", "failed"} /\ ~Between(w, d)
      BY <1>1, <2>1, FetchPhase
    <3>2. /\ At(v, d, x) = "starts" /\ Has(v, d, Address(x))
          /\ \A y \in Addresses : y # x => At(v, d, y) = At(w, d, y)
      BY <1>5, <1>6, <2>1
    <3>3. ~Between(v, d) /\ ~Has(v, d, All) /\ \A a \in Accounts : ~Has(v, d, Account(a))
      BY <1>6, <3>1 DEF Between
    <3>4. CallOK(w, d) /\ BusyAt(w, d)
      BY <1>1
    <3>5. x \in Addresses /\ (Phase(w, d) = "running" => x \in Block(w, d))
      BY <2>1, <3>1, <3>4 DEF CallOK, Resting
    <3>6. Phase(w, d) = "failed" => \E y \in Addresses : y # x /\ At(w, d, y) = "failed"
      BY <2>1, <3>4 DEF CallOK
    <3>7. IndexOf(w, d) + GAP <= MaxIndex + 1
      BY <3>4 DEF CallOK
    <3>8. BusyAt(v, d)
      BY <1>6, <3>2, <3>5 DEF BusyAt, Ended
    <3>9. \A y \in Addresses : Has(v, d, Address(y)) <=> At(v, d, y) = "starts"
      BY <1>6, <2>1, <3>2, <3>4 DEF CallOK
    <3>10. Phase(v, d) = "running" =>
             \A y \in Addresses :
               IF y \in Block(v, d) THEN At(v, d, y) # "none" ELSE At(v, d, y) \in Resting
      BY <1>6, <3>1, <3>2, <3>4, <3>5 DEF CallOK
    <3>13. Phase(v, d) = "running" => \A y \in Addresses : At(v, d, y) # "failed"
      BY <1>6, <3>2, <3>4 DEF CallOK
    <3>11. Phase(v, d) = "failed" => \E y \in Addresses : At(v, d, y) = "failed"
      BY <1>6, <3>2, <3>6
    <3>12. CallOK(v, d)
      BY <1>6, <3>1, <3>3, <3>7, <3>9, <3>10, <3>11, <3>13, ActiveOK
    <3> QED
      BY <3>8, <3>12
  <2>2. CASE At(w, d, x) # "waits"
    <3>1. \A y \in Addresses : At(v, d, y) = At(w, d, y)
      BY <1>5, <2>2
    <3>2. SameCall(v, w, d)
      BY <1>3, <1>6, <2>2, <3>1 DEF SameCall
    <3> QED
      BY <1>1, <3>2, CallFrame, BusyFrame
  <2> QED
    BY <2>1, <2>2
<1>8. CallOK(v, c)
  <2>1. Phase(w, c) \in {"running", "failed"} /\ ~Between(w, c) /\ CallOK(w, c)
    BY <1>1, FetchPhase DEF Held
  <2>2. ~Between(v, c) /\ ~Has(v, c, All) /\ \A a \in Accounts : ~Has(v, c, Account(a))
    BY <1>6, <2>1 DEF Between
  <2>3. \A y \in Addresses : At(v, c, y) = IF y = x THEN found ELSE At(w, c, y)
    BY <1>4, <1>5
  <2>4. \A y \in Addresses : Has(v, c, Address(y)) <=> Has(w, c, Address(y))
    BY <1>6
  <2>5. Phase(w, c) = "failed" => \E y \in Addresses : y # x /\ At(w, c, y) = "failed"
    BY <2>1 DEF CallOK
  <2>6. \A y \in Addresses : Has(v, c, Address(y)) <=> At(v, c, y) = "starts"
    BY <2>1, <2>3, <2>4 DEF CallOK
  <2>7. Phase(v, c) = "running" =>
          \A y \in Addresses :
            IF y \in Block(v, c) THEN At(v, c, y) # "none" ELSE At(v, c, y) \in Resting
    BY <1>6, <2>1, <2>3 DEF CallOK, Resting
  <2>10. Phase(v, c) = "running" => \A y \in Addresses : At(v, c, y) # "failed"
    BY <1>6, <2>1, <2>3 DEF CallOK
  <2>8. Phase(v, c) = "failed" => \E y \in Addresses : At(v, c, y) = "failed"
    BY <1>6, <2>3, <2>5
  <2>9. IndexOf(v, c) + GAP <= MaxIndex + 1 /\ Phase(v, c) \in {"running", "failed"}
    BY <1>6, <2>1 DEF CallOK
  <2> QED
    BY <2>2, <2>6, <2>7, <2>8, <2>9, <2>10, ActiveOK
<1>9. CallsOK(v) /\ \A d \in Calls \ {c} : BusyAt(v, d)
  BY <1>3, <1>7, <1>8 DEF CallsOK
<1> QED
  BY <1>9 DEF v

NextBlock(w, c) == [w EXCEPT !.calls[c].index = @ + GAP]
Opens(w, c) == [w EXCEPT !.syncing = @ \ {Account(AccountOf(w, c))}]
NextAccount(w, c) == [Opens(w, c) EXCEPT !.calls[c].account = 1]

AllEnded(w, c) == \A x \in Block(w, c) : At(w, c, x) \in Ended
SomeUsed(w, c) == \E x \in Block(w, c) : At(w, c, x) = "used"

\* What comes when an address has ended.
LEMMA EndBlockCases ==
  ASSUME NEW w, CallsOK(w), NEW c \in Calls, \A d \in Calls \ {c} : BusyAt(w, d),
         ~Between(w, c)
  PROVE  \/ EndBlock(w, c) = w /\ BusyAt(w, c)
         \/ /\ Ready(w, c) /\ AllEnded(w, c) /\ SomeUsed(w, c)
            /\ EndBlock(w, c) = StartBlock(NextBlock(w, c), c)
         \/ /\ Ready(w, c) /\ AllEnded(w, c) /\ ~SomeUsed(w, c)
            /\ AccountOf(w, c) = 0 /\ IndexOf(w, c) # 0
            /\ EndBlock(w, c) = whenSyncedAccount(NextAccount(w, c), c)
         \/ /\ Ready(w, c) /\ AllEnded(w, c) /\ ~SomeUsed(w, c)
            /\ AccountOf(w, c) # 0 \/ IndexOf(w, c) = 0
            /\ EndBlock(w, c) = EndAll(Opens(w, c), c)
<1>1. w \in Wallets /\ Apart(w.micro) /\ \A d \in Calls : CallOK(w, d)
  BY DEF CallsOK
<1>2. CallOK(w, c)
  BY <1>1
<1>3. Block(w, c) \subseteq Addresses
  BY <1>1, <1>2, BlockFacts DEF CallOK
<1>4. ASSUME Phase(w, c) # "running" \/ ~AllEnded(w, c)
      PROVE  EndBlock(w, c) = w /\ BusyAt(w, c)
  <2>1. EndBlock(w, c) = w
    BY <1>4 DEF EndBlock, AllEnded, Phase, At
  <2> QED
    BY <1>4, <2>1 DEF BusyAt, AllEnded
<1>5. ASSUME Phase(w, c) = "running", AllEnded(w, c)
      PROVE  /\ Ready(w, c)
             /\ EndBlock(w, c) = IF SomeUsed(w, c) THEN StartBlock(NextBlock(w, c), c)
                                 ELSE EndAccount(w, c)
  <2>1. \A x \in Addresses : At(w, c, x) \in {"none", "used", "unused"}
    BY <1>2, <1>3, <1>5 DEF AllEnded, CallOK, Ended, Resting
  <2>2. \A x \in Addresses : ~Has(w, c, Address(x))
    BY <1>2, <2>1 DEF CallOK
  <2>3. Ready(w, c)
    BY <1>1, <1>2, <1>5, <2>1, <2>2 DEF Ready, CallOK
  <2>4. EndBlock(w, c) = IF SomeUsed(w, c) THEN StartBlock(NextBlock(w, c), c)
                         ELSE EndAccount(w, c)
    BY <1>5 DEF EndBlock, AllEnded, SomeUsed, NextBlock, Phase, At
  <2> QED
    BY <2>3, <2>4
<1>6. EndAccount(w, c) = IF AccountOf(w, c) = 0 /\ IndexOf(w, c) # 0
                         THEN whenSyncedAccount(NextAccount(w, c), c)
                         ELSE EndAll(Opens(w, c), c)
  BY DEF EndAccount, AccountOf, IndexOf, NextAccount, Opens
<1> QED
  BY <1>4, <1>5, <1>6

LEMMA OpensFacts ==
  ASSUME NEW w \in Wallets, NEW c \in Calls
  PROVE  LET v == Opens(w, c)
         IN  /\ v \in Wallets /\ v.syncing = w.syncing \ {Account(AccountOf(w, c))}
             /\ v.micro = w.micro /\ SameFresh(v, w) /\ SameCalls(v, w)
             /\ \A d, g : Has(v, d, g) <=> Has(w, d, g)
<1> DEFINE S == w.syncing \ {Account(AccountOf(w, c))}
           v == Opens(w, c)
<1>1. S \in SUBSET Gates /\ v = [w EXCEPT !.syncing = S]
  BY WalletFacts DEF Opens
<1> HIDE DEF S, v
<1>2. /\ v \in Wallets /\ v.syncing = S /\ SameMicro(v, w) /\ SameFresh(v, w)
      /\ SameCalls(v, w)
  BY <1>1, SyncingFacts
<1> QED
  BY <1>2 DEF S, v, SameMicro, Has

LEMMA NextBlockFacts ==
  ASSUME NEW w \in Wallets, NEW c \in Calls
  PROVE  LET v == NextBlock(w, c)
         IN  /\ v \in Wallets /\ v.syncing = w.syncing /\ v.micro = w.micro /\ SameFresh(v, w)
             /\ SamePhases(v, w) /\ SameTasks(v, w)
             /\ \A d \in Calls : AccountOf(v, d) = AccountOf(w, d)
             /\ IndexOf(v, c) = IndexOf(w, c) + GAP
             /\ \A d \in Calls \ {c} : IndexOf(v, d) = IndexOf(w, d)
             /\ \A d, g : Has(v, d, g) <=> Has(w, d, g)
<1> DEFINE i == IndexOf(w, c) + GAP
           a == AccountOf(w, c)
           v == NextBlock(w, c)
<1>1. /\ i \in Nat /\ a \in Accounts /\ v = [w EXCEPT !.calls[c].index = i]
  BY WalletFacts, XpubAssumption DEF NextBlock, IndexOf
<1> HIDE DEF i, v
<1>2. /\ v \in Wallets /\ v.syncing = w.syncing /\ SameMicro(v, w) /\ SameFresh(v, w)
      /\ SamePhases(v, w) /\ SameTasks(v, w)
      /\ AccountOf(v, c) = a /\ IndexOf(v, c) = i
      /\ \A d \in Calls \ {c} : AccountOf(v, d) = AccountOf(w, d) /\ IndexOf(v, d) = IndexOf(w, d)
  BY <1>1, SetPlaceFacts
<1>3. v.micro = w.micro /\ \A d, g : Has(v, d, g) <=> Has(w, d, g)
  BY <1>2 DEF SameMicro, Has
<1> QED
  BY <1>2, <1>3 DEF i, v

LEMMA NextAccountFacts ==
  ASSUME NEW w \in Wallets, NEW c \in Calls
  PROVE  LET v == NextAccount(w, c)
         IN  /\ v \in Wallets /\ v.syncing = w.syncing \ {Account(AccountOf(w, c))}
             /\ v.micro = w.micro /\ SameFresh(v, w)
             /\ SamePhases(v, w) /\ SameTasks(v, w)
             /\ \A d \in Calls : IndexOf(v, d) = IndexOf(w, d)
             /\ AccountOf(v, c) = 1
             /\ \A d \in Calls \ {c} : AccountOf(v, d) = AccountOf(w, d)
             /\ \A d, g : Has(v, d, g) <=> Has(w, d, g)
<1> DEFINE o == Opens(w, c)
           i == IndexOf(o, c)
           a == 1
           v == NextAccount(w, c)
<1>1. /\ o \in Wallets /\ o.syncing = w.syncing \ {Account(AccountOf(w, c))}
      /\ o.micro = w.micro /\ SameFresh(o, w) /\ SameCalls(o, w)
  BY OpensFacts
<1>2. /\ i \in Nat /\ a \in Accounts /\ v = [o EXCEPT !.calls[c].account = a]
  BY <1>1, WalletFacts DEF NextAccount, Accounts
<1> HIDE DEF o, v, a
<1>3. /\ v \in Wallets /\ v.syncing = o.syncing /\ SameMicro(v, o) /\ SameFresh(v, o)
      /\ SamePhases(v, o) /\ SameTasks(v, o)
      /\ AccountOf(v, c) = a /\ IndexOf(v, c) = i
      /\ \A d \in Calls \ {c} : AccountOf(v, d) = AccountOf(o, d) /\ IndexOf(v, d) = IndexOf(o, d)
  BY <1>1, <1>2, SetPlaceFacts
<1>4. v.micro = w.micro /\ \A d, g : Has(v, d, g) <=> Has(w, d, g)
  BY <1>1, <1>3 DEF SameMicro, Has
<1>5. SamePhases(v, w) /\ SameTasks(v, w) /\ SameFresh(v, w)
  BY <1>1, <1>3 DEF SameCalls, SamePhases, SameTasks, SameFresh
<1>6. /\ \A d \in Calls : IndexOf(v, d) = IndexOf(w, d)
      /\ \A d \in Calls \ {c} : AccountOf(v, d) = AccountOf(w, d)
  BY <1>1, <1>3 DEF SameCalls, Placed
<1> QED
  BY <1>1, <1>3, <1>4, <1>5, <1>6 DEF v, a

LEMMA OpensReady ==
  ASSUME NEW w, NEW c \in Calls, Ready(w, c)
  PROVE  Ready(Opens(w, c), c)
<1> DEFINE v == Opens(w, c)
<1>1. w \in Wallets /\ Apart(w.micro) /\ Phase(w, c) = "running" /\ IndexOf(w, c) + GAP <= MaxIndex + 1
  BY DEF Ready
<1>2. /\ v \in Wallets /\ v.micro = w.micro /\ SameCalls(v, w)
      /\ \A d, g : Has(v, d, g) <=> Has(w, d, g)
  BY <1>1, OpensFacts
<1> HIDE DEF v
<1>3. \A d \in Calls : SameCall(v, w, d)
  BY <1>2, TaskAt DEF SameCall, SameCalls, Placed, SamePhases, SameTasks
<1>4. Ready(v, c)
  BY <1>1, <1>2, <1>3, ReadyFrame DEF SameCall
<1> QED
  BY <1>4 DEF v

LEMMA NextBlockReady ==
  ASSUME NEW w, NEW c \in Calls, Ready(w, c), IndexOf(w, c) + GAP + GAP <= MaxIndex + 1
  PROVE  Ready(NextBlock(w, c), c)
<1> DEFINE v == NextBlock(w, c)
<1>1. w \in Wallets /\ Apart(w.micro) /\ Phase(w, c) = "running"
  BY DEF Ready
<1>2. /\ v \in Wallets /\ v.micro = w.micro /\ SamePhases(v, w) /\ SameTasks(v, w)
      /\ \A d \in Calls : AccountOf(v, d) = AccountOf(w, d)
      /\ IndexOf(v, c) = IndexOf(w, c) + GAP
      /\ \A d \in Calls \ {c} : IndexOf(v, d) = IndexOf(w, d)
      /\ \A d, g : Has(v, d, g) <=> Has(w, d, g)
  BY <1>1, NextBlockFacts
<1> HIDE DEF v
<1>3. \A d \in Calls \ {c} : SameCall(v, w, d)
  BY <1>2, TaskAt DEF SameCall, SamePhases, SameTasks
<1>4. Phase(v, c) = "running" /\ \A x \in Addresses : At(v, c, x) = At(w, c, x)
  BY <1>1, <1>2, TaskAt DEF SamePhases, SameTasks
<1>5. Ready(v, c)
  BY <1>1, <1>2, <1>3, <1>4, ReadyFrame
<1> QED
  BY <1>5 DEF v

LEMMA NextAccountReady ==
  ASSUME NEW w, NEW c \in Calls, Ready(w, c)
  PROVE  Ready(NextAccount(w, c), c)
<1> DEFINE v == NextAccount(w, c)
<1>1. w \in Wallets /\ Apart(w.micro) /\ Phase(w, c) = "running" /\ IndexOf(w, c) + GAP <= MaxIndex + 1
  BY DEF Ready
<1>2. /\ v \in Wallets /\ v.micro = w.micro /\ SamePhases(v, w) /\ SameTasks(v, w)
      /\ \A d \in Calls : IndexOf(v, d) = IndexOf(w, d)
      /\ \A d \in Calls \ {c} : AccountOf(v, d) = AccountOf(w, d)
      /\ \A d, g : Has(v, d, g) <=> Has(w, d, g)
  BY <1>1, NextAccountFacts
<1> HIDE DEF v
<1>3. \A d \in Calls \ {c} : SameCall(v, w, d)
  BY <1>2, TaskAt DEF SameCall, SamePhases, SameTasks
<1>4. Phase(v, c) = "running" /\ \A x \in Addresses : At(v, c, x) = At(w, c, x)
  BY <1>1, <1>2, TaskAt DEF SamePhases, SameTasks
<1>5. Ready(v, c)
  BY <1>1, <1>2, <1>3, <1>4, ReadyFrame
<1> QED
  BY <1>5 DEF v

LEMMA EndIs ==
  ASSUME NEW w, NEW c, NEW x, NEW found
  PROVE  EndAddress(w, c, x, found) = EndBlock(BeforeBlock(w, c, x, found), c)
BY DEF EndAddress, BeforeBlock

LEMMA StartIndex ==
  ASSUME NEW w, NEW c \in Calls, Ready(w, c), IndexOf(StartBlock(NextBlock(w, c), c), c) + GAP <= MaxIndex + 1
  PROVE  IndexOf(w, c) + GAP + GAP <= MaxIndex + 1
<1> DEFINE n == NextBlock(w, c)
           tasks == [x \in Block(n, c) |->
                       [NoTask EXCEPT !.phase = IF Address(x) \in n.syncing THEN "waits" ELSE "starts"]]
           u == Updated(n.calls[c].tasks, tasks)
           k == [n.calls[c] EXCEPT !.tasks = u]
           v == StartBlock(n, c)
<1>1. w \in Wallets
  BY DEF Ready
<1>2. n \in Wallets /\ IndexOf(n, c) = IndexOf(w, c) + GAP
  BY <1>1, NextBlockFacts
<1>3. n.calls \in [Calls -> CallStates] /\ n.calls[c] \in CallStates
  BY <1>2, WalletFacts
<1> HIDE DEF n
<1>4. PICK m : v = [n EXCEPT !.calls[c].tasks = u, !.micro = m]
  BY DEF StartBlock
<1> HIDE DEF v, u, tasks
<1>5. v.calls = [n.calls EXCEPT ![c] = k]
  BY <1>2, <1>3, <1>4 DEF Wallets
<1>6. v.calls[c].index = n.calls[c].index
  BY <1>3, <1>5 DEF CallStates
<1> QED
  BY <1>2, <1>6 DEF IndexOf, v, n

LEMMA EndAddressOK ==
  ASSUME NEW w, CallsOK(w), Busy(w), NEW c \in Calls, NEW x \in Addresses, At(w, c, x) = "fetch",
         NEW found \in {"used", "unused"},
         IndexOf(EndAddress(w, c, x, found), c) + GAP <= MaxIndex + 1
  PROVE  CallsOK(EndAddress(w, c, x, found)) /\ Busy(EndAddress(w, c, x, found))
<1> DEFINE b == BeforeBlock(w, c, x, found)
           v == EndBlock(b, c)
<1>1. EndAddress(w, c, x, found) = v
  BY EndIs
<1>2. CallsOK(b) /\ \A d \in Calls \ {c} : BusyAt(b, d)
  BY BeforeBlockOK
<1>3. ~Between(b, c)
  <2>1. w \in Wallets /\ CallOK(w, c) /\ At(w, c, x) # "waits"
    BY DEF CallsOK
  <2>2. ~Between(w, c)
    BY <2>1, FetchPhase DEF Held
  <2>3. \A d \in Calls : \A g : Has(b, d, g) <=>
          Has(w, d, g) \/ (g = Address(x) /\ At(w, d, x) = "waits")
    BY <2>1, BeforeBlockFacts
  <2> HIDE DEF b
  <2> QED
    BY <2>1, <2>2, <2>3 DEF Between
<1> HIDE DEF b
<1>4. CASE v = b /\ BusyAt(b, c)
  BY <1>1, <1>2, <1>4 DEF Busy
<1>5. CASE Ready(b, c) /\ v = StartBlock(NextBlock(b, c), c)
  <2>1. Ready(NextBlock(b, c), c)
    BY <1>1, <1>5, StartIndex, NextBlockReady
  <2> QED
    BY <1>1, <1>5, <2>1, ReadyStartOK
<1>6. CASE Ready(b, c) /\ v = whenSyncedAccount(NextAccount(b, c), c)
  BY <1>1, <1>6, NextAccountReady, ReadyAccountOK
<1>7. CASE Ready(b, c) /\ v = EndAll(Opens(b, c), c)
  BY <1>1, <1>7, OpensReady, ReadyEndOK
<1> QED
  BY <1>2, <1>3, <1>4, <1>5, <1>6, <1>7, EndBlockCases

(***************************************************************************)
(* The other steps.                                                        *)
(***************************************************************************)

\* The next microtask comes through its gate.
LEMMA PassedFacts ==
  ASSUME CallsOK(wallet), wallet.micro # <<>>
  PROVE  LET c == Head(wallet.micro).call
             g == Head(wallet.micro).gate
         IN  /\ c \in Calls /\ g \in Gates /\ Has(wallet, c, g)
             /\ Passed \in Wallets /\ Passed.syncing = wallet.syncing \cup {g}
             /\ Apart(Passed.micro) /\ SameFresh(Passed, wallet) /\ SameCalls(Passed, wallet)
             /\ \A d, h : Has(Passed, d, h) <=> Has(wallet, d, h) /\ ~(d = c /\ h = g)
<1> DEFINE m == wallet.micro
           r == Tail(m)
           i == Head(m)
           c == i.call
           g == i.gate
           u == [wallet EXCEPT !.micro = r]
           v == Passed
<1>1. wallet \in Wallets /\ Apart(m) /\ m \in Seq(Items) /\ m # <<>>
  BY WalletFacts DEF CallsOK
<1>2. /\ Len(m) \in Nat \ {0} /\ i = m[1] /\ r \in Seq(Items) /\ Len(r) = Len(m) - 1
      /\ \A j \in 1..Len(r) : r[j] = m[j + 1]
  BY <1>1
<1>3. i \in Items /\ i \in ToSet(m)
  BY <1>1, <1>2, SeqFacts
<1>4. c \in Calls /\ g \in Gates /\ i = [call |-> c, gate |-> g]
  BY <1>3 DEF Items
<1>5. ToSet(r) = ToSet(m) \ {i} /\ Apart(r)
  <2>1. DOMAIN m = 1..Len(m) /\ DOMAIN r = 1..Len(r)
    BY <1>1, <1>2
  <2>2. /\ \A e : e \in ToSet(m) <=> \E j \in 1..Len(m) : m[j] = e
        /\ \A e : e \in ToSet(r) <=> \E j \in 1..Len(r) : r[j] = e
    BY <1>1, <1>2, SeqFacts
  <2> HIDE DEF r, m, i
  <2>3. ASSUME NEW e, e \in ToSet(r) PROVE e \in ToSet(m) \ {i}
    <3>1. PICK j \in 1..Len(r) : r[j] = e
      BY <2>2, <2>3
    <3>2. j + 1 \in 1..Len(m) /\ m[j + 1] = e /\ j + 1 # 1 /\ 1 \in 1..Len(m)
      BY <1>2, <3>1
    <3>3. m[j + 1] # m[1]
      BY <1>1, <2>1, <3>2 DEF Apart
    <3> QED
      BY <1>2, <2>2, <3>2, <3>3
  <2>4. ASSUME NEW e, e \in ToSet(m) \ {i} PROVE e \in ToSet(r)
    <3>1. PICK j \in 1..Len(m) : m[j] = e
      BY <2>2, <2>4
    <3>2. j # 1
      BY <1>2, <2>4, <3>1
    <3>3. j - 1 \in 1..Len(r) /\ r[j - 1] = m[(j - 1) + 1] /\ (j - 1) + 1 = j
      BY <1>2, <3>1, <3>2
    <3> QED
      BY <2>2, <3>1, <3>3
  <2>5. ASSUME NEW j \in 1..Len(r), NEW k \in 1..Len(r), r[j] = r[k] PROVE j = k
    <3>1. j + 1 \in 1..Len(m) /\ k + 1 \in 1..Len(m) /\ m[j + 1] = m[k + 1]
      BY <1>2, <2>5
    <3>2. j + 1 = k + 1
      BY <1>1, <2>1, <3>1 DEF Apart
    <3> QED
      BY <3>2
  <2> QED
    BY <2>1, <2>3, <2>4, <2>5 DEF Apart
<1>6. v = [wallet EXCEPT !.micro = r, !.syncing = @ \cup {g}]
  BY DEF Passed
<1> HIDE DEF v, r, i
<1>7. /\ v.calls = wallet.calls /\ v.micro = r /\ v.syncing = wallet.syncing \cup {g}
      /\ v.freshAddressIndex = wallet.freshAddressIndex /\ v.freshAddress = wallet.freshAddress
  BY <1>1, <1>6 DEF Wallets
<1>8. v \in Wallets
  <2>1. wallet.syncing \cup {g} \in SUBSET Gates
    BY <1>1, <1>4, WalletFacts
  <2> HIDE DEF g
  <2> QED
    BY <1>1, <1>2, <1>6, <2>1 DEF Wallets
<1>9. SameCalls(v, wallet) /\ SameFresh(v, wallet)
  BY <1>7 DEF SameFresh, SameCalls, Placed, SamePhases, SameTasks, Phase, AccountOf, IndexOf, Task
<1>10. ASSUME NEW d, NEW h
       PROVE  Has(v, d, h) <=> Has(wallet, d, h) /\ ~(d = c /\ h = g)
  <2>1. [call |-> d, gate |-> h] = i <=> d = c /\ h = g
    BY <1>4
  <2> QED
    BY <1>5, <1>7, <2>1 DEF Has
<1>11. Has(wallet, c, g)
  BY <1>3, <1>4 DEF Has
<1> QED
  BY <1>4, <1>5, <1>7, <1>8, <1>9, <1>10, <1>11 DEF v, i

\* Which gate a microtask comes through tells its type.
LEMMA GateTypes ==
  /\ All.type = "all" /\ \A a : Account(a).type = "account" /\ Account(a).key = <<a>>
  /\ \A x : Address(x).type = "address" /\ Address(x).key = x
BY DEF All, Account, Address

LEMMA TypeGates ==
  ASSUME NEW g \in Gates
  PROVE  /\ g.type = "all" => g = All
         /\ g.type = "account" => \E a \in Accounts : g = Account(a)
         /\ g.type = "address" => g.key \in Addresses /\ g = Address(g.key)
<1>1. CASE g = All
  BY <1>1, GateTypes
<1>2. CASE \E a \in Accounts : g = Account(a)
  <2>1. PICK a \in Accounts : g = Account(a)
    BY <1>2
  <2>2. g.type = "account"
    BY <2>1, GateTypes
  <2> QED
    BY <1>2, <2>2
<1>3. CASE \E x \in Addresses : g = Address(x)
  <2>1. PICK x \in Addresses : g = Address(x)
    BY <1>3
  <2>2. g.type = "address" /\ g.key = x
    BY <2>1, GateTypes
  <2> QED
    BY <2>1, <2>2
<1> QED
  BY <1>1, <1>2, <1>3, GateFacts

\* A call that comes through the gate of all or of an account is ready.
LEMMA PassReady ==
  ASSUME CallsOK(wallet), Busy(wallet), wallet.micro # <<>>,
         \/ Head(wallet.micro).gate = All
         \/ \E a \in Accounts : Head(wallet.micro).gate = Account(a)
  PROVE  Ready(Passed, Head(wallet.micro).call)
<1> DEFINE c == Head(wallet.micro).call
           g == Head(wallet.micro).gate
           w == wallet
           v == Passed
<1>1. /\ c \in Calls /\ g \in Gates /\ Has(w, c, g)
      /\ v \in Wallets /\ Apart(v.micro) /\ SameCalls(v, w)
      /\ \A d, h : Has(v, d, h) <=> Has(w, d, h) /\ ~(d = c /\ h = g)
      /\ g = All \/ \E a \in Accounts : g = Account(a)
  BY PassedFacts
<1> HIDE DEF v, c, g
<1>2. w \in Wallets /\ \A d \in Calls : CallOK(w, d) /\ BusyAt(w, d)
  BY DEF CallsOK, Busy
<1>3. CallOK(w, c)
  BY <1>1, <1>2
<1>4. Phase(w, c) = "running" /\ Between(w, c)
  BY <1>1, <1>3 DEF CallOK, Between
<1>5. \A x \in Addresses : At(w, c, x) \in {"none", "used", "unused"} /\ ~Has(w, c, Address(x))
  BY <1>3, <1>4 DEF CallOK, Resting
<1>6. \A x \in Addresses : At(v, c, x) \in {"none", "used", "unused"} /\ ~Has(v, c, Address(x))
  BY <1>1, <1>5, TaskAt DEF SameCalls, SameTasks
<1>7. ~Between(v, c)
  <2>1. ~Has(v, c, All)
    BY <1>1, <1>3 DEF CallOK
  <2>2. ASSUME NEW a \in Accounts PROVE ~Has(v, c, Account(a))
    BY <1>1, <1>3, <2>2 DEF CallOK
  <2> QED
    BY <2>1, <2>2 DEF Between
<1>8. ASSUME NEW d \in Calls \ {c} PROVE SameCall(v, w, d)
  BY <1>1, <1>8, TaskAt DEF SameCall, SameCalls, Placed, SamePhases, SameTasks
<1>9. ASSUME NEW d \in Calls \ {c} PROVE CallOK(v, d) /\ BusyAt(v, d)
  BY <1>1, <1>2, <1>8, <1>9, CallFrame, BusyFrame
<1>10. Phase(v, c) = "running" /\ IndexOf(v, c) + GAP <= MaxIndex + 1
  BY <1>1, <1>3, <1>4 DEF SameCalls, Placed, SamePhases, CallOK
<1>11. Ready(v, c)
  BY <1>1, <1>6, <1>7, <1>9, <1>10 DEF Ready
<1> QED
  BY <1>11 DEF v, c

\* A request is made for an address in hand.
LEMMA AsksOK ==
  ASSUME NEW w, NEW v \in Wallets, CallsOK(w), Busy(w), NEW c \in Calls, NEW x \in Addresses,
         At(w, c, x) \in Held, Apart(v.micro), Placed(v, w), SamePhases(v, w),
         At(v, c, x) \in Fetching,
         \A d \in Calls : \A y \in Addresses : (d # c \/ y # x) => At(v, d, y) = At(w, d, y),
         \A d \in Calls, g \in Gates : Has(v, d, g) <=> Has(w, d, g) /\ ~(d = c /\ g = Address(x))
  PROVE  CallsOK(v) /\ Busy(v)
<1>1. w \in Wallets /\ \A d \in Calls : CallOK(w, d) /\ BusyAt(w, d)
  BY DEF CallsOK, Busy
<1>2. ASSUME NEW d \in Calls \ {c} PROVE SameCall(v, w, d)
  BY <1>2 DEF SameCall, Placed, SamePhases
<1>3. CallOK(w, c) /\ Phase(w, c) \in {"running", "failed"} /\ ~Between(w, c)
  BY <1>1, FetchPhase
<1>4. Phase(v, c) = Phase(w, c) /\ Block(v, c) = Block(w, c) /\ IndexOf(v, c) = IndexOf(w, c)
  BY BlockFrame DEF Placed, SamePhases
<1>5. ~Between(v, c)
  BY <1>3, GateFacts DEF Between
<1>6. /\ \A y \in Addresses : y # x => At(v, c, y) = At(w, c, y)
      /\ At(v, c, x) \notin Resting \cup Ended \cup {"none", "starts", "failed"}
      /\ At(w, c, x) \notin Resting \cup Ended \cup {"none", "failed"}
  BY DEF Fetching, Resting, Ended, Held
<1>7. \A y \in Addresses : Has(v, c, Address(y)) <=> At(v, c, y) = "starts"
  BY <1>3, <1>6, GateFacts DEF CallOK
<1>8. Phase(v, c) = "running" => x \in Block(w, c)
  BY <1>3, <1>4, <1>6 DEF CallOK
<1>9. Phase(v, c) = "running" =>
        \A y \in Addresses :
          IF y \in Block(v, c) THEN At(v, c, y) # "none" ELSE At(v, c, y) \in Resting
  BY <1>3, <1>4, <1>6, <1>8 DEF CallOK
<1>10. Phase(v, c) = "running" => \A y \in Addresses : At(v, c, y) # "failed"
  BY <1>3, <1>4, <1>6 DEF CallOK
<1>11. Phase(v, c) = "failed" => \E y \in Addresses : At(v, c, y) = "failed"
  BY <1>3, <1>4, <1>6 DEF CallOK
<1>12. IndexOf(v, c) + GAP <= MaxIndex + 1
  BY <1>3, <1>4 DEF CallOK
<1>13. CallOK(v, c)
  BY <1>3, <1>4, <1>5, <1>7, <1>9, <1>10, <1>11, <1>12, ActiveOK
<1>14. BusyAt(v, c)
  BY <1>4, <1>6, <1>8 DEF BusyAt
<1> QED
  BY <1>1, <1>2, <1>13, <1>14, OneChanges

Fails1(w, c, x) == SetTask([w EXCEPT !.syncing = @ \ {Address(x)}], c, x, RestTask("failed"))

LEMMA Fails1Facts ==
  ASSUME NEW w \in Wallets, NEW c \in Calls, NEW x \in Addresses
  PROVE  LET v == Fails1(w, c, x)
         IN  /\ v \in Wallets /\ v.syncing = w.syncing \ {Address(x)} /\ v.micro = w.micro
             /\ SameFresh(v, w) /\ Placed(v, w) /\ SamePhases(v, w)
             /\ At(v, c, x) = "failed"
             /\ \A d \in Calls : \A y \in Addresses :
                  (d # c \/ y # x) => Task(v, d, y) = Task(w, d, y)
<1> DEFINE S == w.syncing \ {Address(x)}
           o == [w EXCEPT !.syncing = S]
           t == RestTask("failed")
           v == SetTask(o, c, x, t)
<1>1. S \in SUBSET Gates /\ v = Fails1(w, c, x)
  BY WalletFacts DEF Fails1
<1>2. t \in Tasks /\ t.phase = "failed"
  BY RestFacts DEF Resting
<1> HIDE DEF S, t
<1>3. o \in Wallets /\ o.syncing = S /\ SameMicro(o, w) /\ SameFresh(o, w) /\ SameCalls(o, w)
  BY <1>1, SyncingFacts
<1> HIDE DEF o
<1>4. /\ v \in Wallets /\ v.syncing = o.syncing /\ SameMicro(v, o) /\ SameFresh(v, o)
      /\ Placed(v, o) /\ SamePhases(v, o)
      /\ \A d \in Calls : \A y \in Addresses :
           Task(v, d, y) = IF d = c /\ y = x THEN t ELSE Task(o, d, y)
  BY <1>2, <1>3, SetTaskFacts
<1> HIDE DEF v
<1>5. SameFresh(v, w) /\ Placed(v, w) /\ SamePhases(v, w) /\ v.micro = w.micro
  BY <1>3, <1>4 DEF SameFresh, SameCalls, Placed, SamePhases, SameMicro
<1>6. \A d \in Calls : \A y \in Addresses : (d # c \/ y # x) => Task(v, d, y) = Task(w, d, y)
  BY <1>3, <1>4 DEF SameCalls, SameTasks
<1>7. At(v, c, x) = "failed"
  BY <1>2, <1>4 DEF At, Task
<1> QED
  BY <1>1, <1>3, <1>4, <1>5, <1>6, <1>7 DEF S

Failed(w, c) ==
  SetPhase([w EXCEPT !.syncing = @ \ {Account(AccountOf(w, c)), All}], c, "failed")

LEMMA FailIs ==
  ASSUME NEW w \in Wallets, NEW c \in Calls, NEW x \in Addresses
  PROVE  FailAddress(w, c, x) =
           IF Phase(w, c) = "running" THEN Failed(Fails1(w, c, x), c) ELSE Fails1(w, c, x)
<1>1. AccountOf(Fails1(w, c, x), c) = w.calls[c].account
  BY Fails1Facts DEF Placed, AccountOf
<1> QED
  BY <1>1 DEF FailAddress, Fails1, Failed, RestTask, Phase

LEMMA FailFacts ==
  ASSUME NEW w \in Wallets, NEW c \in Calls, NEW x \in Addresses
  PROVE  LET v == FailAddress(w, c, x)
         IN  /\ v \in Wallets /\ v.micro = w.micro /\ SameFresh(v, w) /\ Placed(v, w)
             /\ v.syncing = w.syncing \
                  IF Phase(w, c) = "running"
                  THEN {Address(x), Account(AccountOf(w, c)), All} ELSE {Address(x)}
             /\ \A d \in Calls : Phase(v, d) =
                  IF d = c /\ Phase(w, c) = "running" THEN "failed" ELSE Phase(w, d)
             /\ At(v, c, x) = "failed"
             /\ \A d \in Calls : \A y \in Addresses :
                  (d # c \/ y # x) => Task(v, d, y) = Task(w, d, y)
             /\ \A d, g : Has(v, d, g) <=> Has(w, d, g)
<1> DEFINE b == Fails1(w, c, x)
           S == b.syncing \ {Account(AccountOf(b, c)), All}
           o == [b EXCEPT !.syncing = S]
           p == "failed"
           f == SetPhase(o, c, p)
           v == FailAddress(w, c, x)
<1>1. /\ b \in Wallets /\ b.syncing = w.syncing \ {Address(x)} /\ b.micro = w.micro
      /\ SameFresh(b, w) /\ Placed(b, w) /\ SamePhases(b, w)
      /\ At(b, c, x) = "failed"
      /\ \A d \in Calls : \A y \in Addresses :
           (d # c \/ y # x) => Task(b, d, y) = Task(w, d, y)
  BY Fails1Facts
<1>2. v = IF Phase(w, c) = "running" THEN f ELSE b
  BY FailIs DEF Failed
<1> HIDE DEF b, v
<1>3. S \in SUBSET Gates /\ p \in Phases
  BY <1>1, WalletFacts DEF Phases
<1> HIDE DEF S, p
<1>4. o \in Wallets /\ o.syncing = S /\ SameMicro(o, b) /\ SameFresh(o, b) /\ SameCalls(o, b)
  BY <1>1, <1>3, SyncingFacts
<1> HIDE DEF o
<1>5. /\ f \in Wallets /\ f.syncing = o.syncing /\ SameMicro(f, o) /\ SameFresh(f, o)
      /\ Placed(f, o) /\ SameTasks(f, o)
      /\ \A d \in Calls : Phase(f, d) = IF d = c THEN p ELSE Phase(o, d)
  BY <1>3, <1>4, SetPhaseFacts
<1> HIDE DEF f
<1>6. CASE Phase(w, c) = "running"
  <2>1. v.syncing = w.syncing \ {Address(x), Account(AccountOf(w, c)), All}
    BY <1>1, <1>2, <1>4, <1>5, <1>6 DEF S, Placed
  <2>2. v.micro = w.micro /\ SameFresh(v, w) /\ Placed(v, w)
    BY <1>1, <1>2, <1>4, <1>5, <1>6 DEF SameFresh, SameCalls, Placed, SameMicro
  <2>3. \A d \in Calls : Phase(v, d) = IF d = c THEN "failed" ELSE Phase(w, d)
    BY <1>1, <1>2, <1>4, <1>5, <1>6 DEF SameCalls, SamePhases, p
  <2>4. \A d \in Calls : \A y \in Addresses : Task(v, d, y) = Task(b, d, y) /\ At(v, d, y) = At(b, d, y)
    BY <1>2, <1>4, <1>5, <1>6, TaskAt DEF SameCalls, SameTasks
  <2>5. \A d, g : Has(v, d, g) <=> Has(w, d, g)
    BY <2>2 DEF Has
  <2> QED
    BY <1>1, <1>2, <1>5, <1>6, <2>1, <2>2, <2>3, <2>4, <2>5 DEF v
<1>7. CASE Phase(w, c) # "running"
  <2>1. \A d, g : Has(b, d, g) <=> Has(w, d, g)
    BY <1>1 DEF Has
  <2>2. v = b
    BY <1>2, <1>7
  <2> QED
    BY <1>1, <1>7, <2>1, <2>2 DEF v, SamePhases
<1> QED
  BY <1>6, <1>7

LEMMA FailOK ==
  ASSUME NEW w, CallsOK(w), Busy(w), NEW c \in Calls, NEW x \in Addresses, At(w, c, x) \in Fetching
  PROVE  CallsOK(FailAddress(w, c, x)) /\ Busy(FailAddress(w, c, x))
<1> DEFINE v == FailAddress(w, c, x)
<1>1. w \in Wallets /\ Apart(w.micro) /\ \A d \in Calls : CallOK(w, d) /\ BusyAt(w, d)
  BY DEF CallsOK, Busy
<1>2. /\ v \in Wallets /\ v.micro = w.micro /\ Placed(v, w)
      /\ \A d \in Calls : Phase(v, d) =
           IF d = c /\ Phase(w, c) = "running" THEN "failed" ELSE Phase(w, d)
      /\ At(v, c, x) = "failed"
      /\ \A d \in Calls : \A y \in Addresses :
           (d # c \/ y # x) => Task(v, d, y) = Task(w, d, y)
      /\ \A d, g : Has(v, d, g) <=> Has(w, d, g)
  BY <1>1, FailFacts
<1> HIDE DEF v
<1>3. CallOK(w, c) /\ Phase(w, c) \in {"running", "failed"} /\ ~Between(w, c)
  BY <1>1, FetchPhase DEF Fetching, Held
<1>4. ASSUME NEW d \in Calls \ {c} PROVE SameCall(v, w, d)
  BY <1>2, <1>4, TaskAt DEF SameCall, Placed
<1>5. Phase(v, c) = "failed" /\ IndexOf(v, c) + GAP <= MaxIndex + 1
  BY <1>2, <1>3 DEF Placed, CallOK
<1>6. ~Between(v, c)
  BY <1>2, <1>3 DEF Between
<1>7. \A y \in Addresses : Has(v, c, Address(y)) <=> At(v, c, y) = "starts"
  <2>1. \A y \in Addresses : y # x => At(v, c, y) = At(w, c, y)
    BY <1>2, TaskAt
  <2>2. At(w, c, x) # "starts"
    BY DEF Fetching
  <2> QED
    BY <1>2, <1>3, <2>1, <2>2 DEF CallOK
<1>8. CallOK(v, c)
  BY <1>2, <1>5, <1>6, <1>7, ActiveOK
<1>9. BusyAt(v, c)
  BY <1>5 DEF BusyAt
<1> QED
  BY <1>1, <1>2, <1>4, <1>8, <1>9, OneChanges DEF v

(***************************************************************************)
(* Of two calls one runs at a time, and an address has one task.           *)
(***************************************************************************)

OneHolder(w) ==
  \A c, d \in Calls : \A x \in Addresses :
    At(w, c, x) \in Held /\ At(w, d, x) \in Held => c = d

GatesShut(w) ==
  \A x \in Addresses :
    Address(x) \in w.syncing <=> \E c \in Calls : At(w, c, x) \in Fetching

OneRuns(w) ==
  \A c, d \in Calls :
    Phase(w, c) = "running" /\ c # d =>
      /\ Phase(w, d) # "running"
      /\ \A x \in Addresses : At(w, d, x) \in Resting \cup Fetching

HasFailed(w, c) == Phase(w, c) = "failed" /\ \E x \in Addresses : At(w, c, x) = "failed"

\* Who waits, does so for one that runs or has failed.
Waits(w) ==
  /\ \A d \in Calls : \A x \in Addresses :
       At(w, d, x) = "waits" => \E c \in Calls \ {d} : HasFailed(w, c)
  /\ \A d \in Calls : Phase(w, d) = "waitsForAll" =>
       \E c \in Calls \ {d} : Phase(w, c) = "running" \/ HasFailed(w, c)
  /\ \A d \in Calls : Phase(w, d) # "waitsForAccount"

\* No account is synchronised.
NoAccount(w) == \A a \in Accounts : Account(a) \notin w.syncing

GatesOf(w) ==
  /\ \A c \in Calls : Phase(w, c) = "running" => All \in w.syncing \/ Has(w, c, All)
  /\ All \in w.syncing => \E c \in Calls : Phase(w, c) = "running" /\ ~Has(w, c, All)
  /\ \A a \in Accounts : Account(a) \in w.syncing =>
       \E c \in Calls : Phase(w, c) = "running" /\ AccountOf(w, c) = a /\ ~Between(w, c)

\* Of three calls one has not begun.
Few(w) ==
  \A c, d, e \in Calls :
    c # d /\ c # e /\ d # e => "idle" \in {Phase(w, c), Phase(w, d), Phase(w, e)}

TwoOK(w) == Few(w) /\ OneHolder(w) /\ GatesShut(w) /\ OneRuns(w) /\ Waits(w) /\ GatesOf(w)

\* What is the same of two wallets that differ in the gates of accounts.
LEMMA TwoFrame ==
  ASSUME NEW w \in Wallets, NEW v \in Wallets, TwoOK(w),
         All \in v.syncing <=> All \in w.syncing,
         \A x \in Addresses : Address(x) \in v.syncing <=> Address(x) \in w.syncing,
         \A a \in Accounts : Account(a) \in v.syncing => Account(a) \in w.syncing,
         NoAccount(v) \/ \A d \in Calls : AccountOf(v, d) = AccountOf(w, d),
         \A d \in Calls : Phase(v, d) = Phase(w, d),
         \A d \in Calls : \A x \in Addresses : At(v, d, x) = At(w, d, x),
         \A d, g : Has(v, d, g) <=> Has(w, d, g)
  PROVE  TwoOK(v)
<1>1. Few(w) /\ OneHolder(w) /\ GatesShut(w) /\ OneRuns(w) /\ Waits(w) /\ GatesOf(w)
  BY DEF TwoOK
<1>2. Few(v)
  BY <1>1 DEF Few
<1>3. OneHolder(v)
  BY <1>1 DEF OneHolder
<1>4. GatesShut(v)
  BY <1>1 DEF GatesShut
<1>5. OneRuns(v)
  BY <1>1 DEF OneRuns
<1>6. \A d \in Calls : HasFailed(w, d) => HasFailed(v, d)
  BY DEF HasFailed
<1>7. Waits(v)
  BY <1>1, <1>6 DEF Waits
<1>8. \A d : Between(v, d) <=> Between(w, d)
  BY DEF Between
<1>9. GatesOf(v)
  BY <1>1, <1>8 DEF GatesOf, NoAccount
<1> QED
  BY <1>2, <1>3, <1>4, <1>5, <1>7, <1>9 DEF TwoOK

\* A block begins.
LEMMA ReadyStartTwo ==
  ASSUME NEW w, NEW c \in Calls, Ready(w, c), TwoOK(w)
  PROVE  TwoOK(StartBlock(w, c))
<1> DEFINE v == StartBlock(w, c)
           B == Block(w, c)
<1>1. /\ w \in Wallets /\ Apart(w.micro)
      /\ \A d \in Calls \ {c} : CallOK(w, d)
      /\ Phase(w, c) = "running" /\ ~Between(w, c)
      /\ \A x \in Addresses : At(w, c, x) \in {"none", "used", "unused"}
      /\ IndexOf(w, c) + GAP <= MaxIndex + 1
  BY DEF Ready
<1>2. /\ v.syncing = w.syncing /\ Placed(v, w) /\ SamePhases(v, w)
      /\ \A d \in Calls : \A x \in Addresses :
           Task(v, d, x) = IF d = c /\ x \in B THEN Starting(w, x) ELSE Task(w, d, x)
      /\ \A d, g : Has(v, d, g) <=>
           \/ Has(w, d, g)
           \/ d = c /\ \E x \in B : g = Address(x) /\ Address(x) \notin w.syncing
  BY <1>1, StartFacts
<1>3. \A x \in Addresses :
        At(v, c, x) = IF x \in B THEN IF Address(x) \in w.syncing THEN "waits" ELSE "starts"
                      ELSE At(w, c, x)
  BY <1>2, StartingFacts DEF Task, At
<1>4. \A d \in Calls \ {c} : \A x \in Addresses : At(v, d, x) = At(w, d, x)
  BY <1>2, TaskAt
<1>5. \A d \in Calls : Phase(v, d) = Phase(w, d) /\ AccountOf(v, d) = AccountOf(w, d)
  BY <1>2 DEF Placed, SamePhases
<1> HIDE DEF v, B
<1>6. \A d : /\ Has(v, d, All) <=> Has(w, d, All)
             /\ \A a \in Accounts : Has(v, d, Account(a)) <=> Has(w, d, Account(a))
             /\ Between(v, d) <=> Between(w, d)
  <2>1. \A d : Has(v, d, All) <=> Has(w, d, All)
    BY <1>2, GateFacts
  <2>2. \A d : \A a \in Accounts : Has(v, d, Account(a)) <=> Has(w, d, Account(a))
    BY <1>2, GateFacts
  <2> QED
    BY <2>1, <2>2 DEF Between
<1>7. Few(w) /\ OneHolder(w) /\ GatesShut(w) /\ OneRuns(w) /\ Waits(w) /\ GatesOf(w)
  BY DEF TwoOK
<1>8. \A d \in Calls \ {c} : /\ Phase(w, d) # "running"
                             /\ \A x \in Addresses : At(w, d, x) \in Resting \cup Fetching
  BY <1>1, <1>7 DEF OneRuns
<1>9. \A x \in Addresses : At(w, c, x) \notin Held /\ At(w, c, x) \notin Fetching
  BY <1>1 DEF Held, Fetching
<1>10. \A x \in Addresses : At(v, c, x) \in Fetching => FALSE
  BY <1>3, <1>9 DEF Fetching
<1>11. \A x \in Addresses : At(v, c, x) \in Held => Address(x) \notin w.syncing
  BY <1>3, <1>9 DEF Held
<1>12. Few(v)
  BY <1>5, <1>7 DEF Few
<1>13. OneHolder(v)
  <2>1. ASSUME NEW d \in Calls \ {c}, NEW x \in Addresses, At(v, d, x) \in Held
        PROVE  Address(x) \in w.syncing
    <3>1. At(w, d, x) \in Fetching
      BY <1>4, <1>8, <2>1 DEF Held, Resting
    <3> QED
      BY <1>7, <3>1 DEF GatesShut
  <2>2. ASSUME NEW d \in Calls \ {c}, NEW e \in Calls \ {c}, NEW x \in Addresses,
               At(v, d, x) \in Held, At(v, e, x) \in Held
        PROVE  d = e
    BY <1>4, <1>7, <2>2 DEF OneHolder
  <2> QED
    BY <1>11, <2>1, <2>2 DEF OneHolder
<1>14. GatesShut(v)
  <2>1. ASSUME NEW x \in Addresses
        PROVE  (\E d \in Calls : At(v, d, x) \in Fetching) <=> \E d \in Calls : At(w, d, x) \in Fetching
    BY <1>4, <1>9, <1>10
  <2> QED
    BY <1>2, <1>7, <2>1 DEF GatesShut
<1>15. OneRuns(v)
  BY <1>4, <1>5, <1>8 DEF OneRuns
<1>16. \A d \in Calls \ {c} : HasFailed(w, d) => HasFailed(v, d)
  BY <1>4, <1>5 DEF HasFailed
<1>17. ~HasFailed(w, c)
  BY <1>1 DEF HasFailed
<1>18. Waits(v)
  <2>1. ASSUME NEW x \in Addresses, At(v, c, x) = "waits"
        PROVE  \E d \in Calls \ {c} : HasFailed(v, d)
    <3>1. Address(x) \in w.syncing
      BY <1>1, <1>3, <2>1
    <3>2. PICK d \in Calls : At(w, d, x) \in Fetching
      BY <1>7, <3>1 DEF GatesShut
    <3>3. d # c
      BY <1>9, <3>2
    <3>4. Phase(w, d) = "failed" /\ CallOK(w, d) /\ At(w, d, x) # "none"
      BY <1>1, <1>8, <3>2, <3>3, FetchPhase DEF Fetching, Held
    <3>5. HasFailed(w, d)
      BY <3>4 DEF CallOK, HasFailed
    <3> QED
      BY <1>16, <3>3, <3>5
  <2>2. ASSUME NEW d \in Calls \ {c}, NEW x \in Addresses, At(v, d, x) = "waits"
        PROVE  \E e \in Calls \ {d} : HasFailed(v, e)
    BY <1>4, <1>7, <1>16, <1>17, <2>2 DEF Waits
  <2>3. ASSUME NEW d \in Calls, Phase(v, d) = "waitsForAll"
        PROVE  \E e \in Calls \ {d} : Phase(v, e) = "running" \/ HasFailed(v, e)
    BY <1>1, <1>5, <2>3
  <2>4. \A d \in Calls : Phase(v, d) # "waitsForAccount"
    BY <1>5, <1>7 DEF Waits
  <2> QED
    BY <2>1, <2>2, <2>3, <2>4 DEF Waits
<1>19. GatesOf(v)
  BY <1>2, <1>5, <1>6, <1>7 DEF GatesOf
<1>20. TwoOK(v)
  BY <1>12, <1>13, <1>14, <1>15, <1>18, <1>19 DEF TwoOK
<1> QED
  BY <1>20 DEF v

\* The only one that runs has left its account: no gate of an account is shut.
LEMMA ReadyAccountTwo ==
  ASSUME NEW w, NEW c \in Calls, Ready(w, c), TwoOK(w), NoAccount(w)
  PROVE  TwoOK(whenSyncedAccount(w, c))
<1> DEFINE v == whenSyncedAccount(w, c)
           a == AccountOf(w, c)
           p == "running"
           z == Later(SetPhase(w, c, p), <<c>>, Account(a))
<1>1. /\ w \in Wallets /\ Apart(w.micro) /\ Phase(w, c) = p /\ ~Between(w, c)
      /\ \A x \in Addresses : At(w, c, x) \in {"none", "used", "unused"}
  BY DEF Ready
<1>2. a \in Accounts /\ Account(a) \in Gates /\ ~Has(w, c, Account(a)) /\ p \in Phases
  BY <1>1, WalletFacts, GateFacts DEF Between, Phases
<1>3. v = z
  BY <1>2 DEF NoAccount, whenSyncedAccount, AccountOf
<1>4. /\ z \in Wallets /\ z.syncing = w.syncing /\ Placed(z, w) /\ SameTasks(z, w)
      /\ (\A d \in Calls : Phase(z, d) = IF d = c THEN p ELSE Phase(w, d))
      /\ \A d, g : Has(z, d, g) <=> Has(w, d, g) \/ (d = c /\ g = Account(a))
  <2> HIDE DEF a, p
  <2> QED
    BY <1>1, <1>2, ComesTo
<1> HIDE DEF z, v
<1>5. /\ \A d \in Calls : Phase(z, d) = Phase(w, d)
      /\ \A d \in Calls : \A x \in Addresses : At(z, d, x) = At(w, d, x)
  BY <1>1, <1>4, TaskAt DEF SameTasks
<1>6. \A d : Has(z, d, All) <=> Has(w, d, All)
  BY <1>4, GateFacts
<1>7. Few(w) /\ OneHolder(w) /\ GatesShut(w) /\ OneRuns(w) /\ Waits(w) /\ GatesOf(w)
  BY DEF TwoOK
<1>8. Few(z)
  BY <1>5, <1>7 DEF Few
<1>9. OneHolder(z)
  BY <1>5, <1>7 DEF OneHolder
<1>10. GatesShut(z)
  BY <1>4, <1>5, <1>7 DEF GatesShut
<1>11. OneRuns(z)
  BY <1>5, <1>7 DEF OneRuns
<1>12. \A d \in Calls : HasFailed(z, d) <=> HasFailed(w, d)
  BY <1>5 DEF HasFailed
<1>13. Waits(z)
  BY <1>5, <1>7, <1>12 DEF Waits
<1>14. GatesOf(z)
  BY <1>4, <1>5, <1>6, <1>7 DEF GatesOf, NoAccount
<1> QED
  BY <1>3, <1>8, <1>9, <1>10, <1>11, <1>13, <1>14 DEF TwoOK, v

\* The end of a call: at most one waits for it, and begins.
LEMMA ReadyEndTwo ==
  ASSUME NEW w, NEW c \in Calls, Ready(w, c), TwoOK(w), NoAccount(w)
  PROVE  TwoOK(EndAll(w, c))
<1> DEFINE v == EndAll(w, c)
<1>1. /\ w \in Wallets /\ Apart(w.micro)
      /\ \A d \in Calls \ {c} : CallOK(w, d)
      /\ Phase(w, c) = "running" /\ ~Between(w, c)
      /\ \A x \in Addresses : At(w, c, x) \in {"none", "used", "unused"}
  BY DEF Ready
<1>2. /\ v.syncing = w.syncing \ {All} /\ Placed(v, w) /\ SameTasks(v, w)
      /\ \A d \in Calls : Phase(v, d) =
           IF d = c THEN "done"
           ELSE IF Phase(w, d) = "waitsForAll" THEN "running" ELSE Phase(w, d)
      /\ \A d \in Calls : \A g : Has(v, d, g) <=>
           Has(w, d, g) \/ (g = All /\ Phase(w, d) = "waitsForAll")
  BY <1>1, EndAllFacts
<1> HIDE DEF v
<1>3. \A d \in Calls : \A x \in Addresses : At(v, d, x) = At(w, d, x)
  BY <1>2, TaskAt DEF SameTasks
<1>4. Few(w) /\ OneHolder(w) /\ GatesShut(w) /\ OneRuns(w) /\ Waits(w) /\ GatesOf(w)
  BY DEF TwoOK
<1>5. \A d \in Calls \ {c} : Phase(w, d) # "running"
  BY <1>1, <1>4 DEF OneRuns
<1>6. \A d \in Calls : Phase(v, d) = "idle" <=> Phase(w, d) = "idle"
  BY <1>1, <1>2
<1>7. Few(v)
  BY <1>4, <1>6 DEF Few
<1>8. OneHolder(v)
  BY <1>3, <1>4 DEF OneHolder
<1>9. GatesShut(v)
  BY <1>2, <1>3, <1>4, GateFacts DEF GatesShut
<1>10. \A d \in Calls : Phase(v, d) = "running" => d # c /\ Phase(w, d) = "waitsForAll" /\ Has(v, d, All)
  BY <1>2, <1>5
<1>11. OneRuns(v)
  <2>1. ASSUME NEW d \in Calls, NEW e \in Calls, Phase(v, d) = "running", d # e
        PROVE  /\ Phase(v, e) # "running"
               /\ \A x \in Addresses : At(v, e, x) \in Resting \cup Fetching
    <3>1. d # c /\ Phase(w, d) = "waitsForAll"
      BY <1>10, <2>1
    <3>2. CASE e = c
      BY <1>1, <1>2, <1>3, <3>2 DEF Resting
    <3>3. CASE e # c
      <4>1. Phase(w, e) = "idle"
        BY <1>1, <1>4, <2>1, <3>1, <3>3 DEF Few
      <4>2. CallOK(w, e)
        BY <1>1, <3>3
      <4>3. \A x \in Addresses : At(w, e, x) = "none"
        BY <4>1, <4>2 DEF CallOK
      <4> QED
        BY <1>2, <1>3, <3>3, <4>1, <4>3 DEF Resting
    <3> QED
      BY <3>2, <3>3
  <2> QED
    BY <2>1 DEF OneRuns
<1>12. \A d \in Calls : HasFailed(w, d) => HasFailed(v, d)
  BY <1>1, <1>2, <1>3 DEF HasFailed
<1>13. Waits(v)
  <2>1. \A d \in Calls : Phase(v, d) # "waitsForAll" /\ Phase(v, d) # "waitsForAccount"
    BY <1>2, <1>4 DEF Waits
  <2>2. \A d \in Calls : \A x \in Addresses :
          At(v, d, x) = "waits" => \E e \in Calls \ {d} : HasFailed(v, e)
    BY <1>3, <1>4, <1>12 DEF Waits
  <2> QED
    BY <2>1, <2>2 DEF Waits
<1>14. GatesOf(v)
  BY <1>2, <1>10 DEF GatesOf, NoAccount
<1>15. TwoOK(v)
  BY <1>7, <1>8, <1>9, <1>11, <1>13, <1>14 DEF TwoOK
<1> QED
  BY <1>15 DEF v

\* Only the call that runs shuts the gate of an account.
LEMMA NoAccountIf ==
  ASSUME NEW w, NEW v, NEW c \in Calls, TwoOK(w), Phase(w, c) = "running",
         v.syncing \subseteq w.syncing,
         Account(AccountOf(w, c)) \notin v.syncing \/ Between(w, c)
  PROVE  NoAccount(v)
<1>1. OneRuns(w) /\ GatesOf(w)
  BY DEF TwoOK
<1>2. ASSUME NEW a \in Accounts, Account(a) \in v.syncing PROVE FALSE
  <2>1. PICK d \in Calls : Phase(w, d) = "running" /\ AccountOf(w, d) = a /\ ~Between(w, d)
    BY <1>1, <1>2 DEF GatesOf
  <2>2. d = c
    BY <1>1, <2>1 DEF OneRuns
  <2> QED
    BY <1>2, <2>1, <2>2
<1> QED
  BY <1>2 DEF NoAccount

LEMMA BeforeBlockTwo ==
  ASSUME NEW w, CallsOK(w), TwoOK(w), NEW c \in Calls, NEW x \in Addresses,
         At(w, c, x) = "fetch", NEW found \in {"used", "unused"}
  PROVE  TwoOK(BeforeBlock(w, c, x, found))
<1> DEFINE v == BeforeBlock(w, c, x, found)
<1>1. w \in Wallets /\ \A d \in Calls : CallOK(w, d)
  BY DEF CallsOK
<1>2. /\ v.syncing = w.syncing \ {Address(x)} /\ Placed(v, w) /\ SamePhases(v, w)
      /\ Task(v, c, x) = RestTask(found)
      /\ \A d \in Calls : \A y \in Addresses :
           (d # c \/ y # x) =>
             IF y = x /\ At(w, d, x) = "waits" THEN At(v, d, y) = "starts"
             ELSE Task(v, d, y) = Task(w, d, y)
      /\ \A d \in Calls : \A g : Has(v, d, g) <=>
           Has(w, d, g) \/ (g = Address(x) /\ At(w, d, x) = "waits")
  BY <1>1, BeforeBlockFacts
<1> HIDE DEF v
<1>3. At(v, c, x) = found
  BY <1>2, RestFacts DEF At, Task, Resting
<1>4. \A d \in Calls : \A y \in Addresses :
        At(v, d, y) = IF d = c /\ y = x THEN found
                      ELSE IF y = x /\ At(w, d, x) = "waits" THEN "starts" ELSE At(w, d, y)
  BY <1>2, <1>3, TaskAt
<1>5. \A d \in Calls : Phase(v, d) = Phase(w, d) /\ AccountOf(v, d) = AccountOf(w, d)
  BY <1>2 DEF Placed, SamePhases
<1>6. \A d \in Calls : /\ Has(v, d, All) <=> Has(w, d, All)
                       /\ Between(v, d) <=> Between(w, d)
  <2>1. \A d \in Calls : Has(v, d, All) <=> Has(w, d, All)
    BY <1>2, GateFacts
  <2>2. \A d \in Calls : \A a \in Accounts : Has(v, d, Account(a)) <=> Has(w, d, Account(a))
    BY <1>2, GateFacts
  <2> QED
    BY <2>1, <2>2 DEF Between
<1>7. Few(w) /\ OneHolder(w) /\ GatesShut(w) /\ OneRuns(w) /\ Waits(w) /\ GatesOf(w)
  BY DEF TwoOK
<1>8. Phase(w, c) \in {"running", "failed"}
  BY <1>1, FetchPhase DEF Held
<1>9. ASSUME NEW d \in Calls, At(w, d, x) = "waits"
      PROVE  d # c /\ Phase(w, d) \in {"running", "failed"} /\ Phase(w, c) # "running"
  <2>1. d # c
    BY <1>9
  <2>2. Phase(w, d) \in {"running", "failed"}
    BY <1>1, <1>9, FetchPhase
  <2>3. Phase(w, c) # "running"
    BY <1>7, <1>9, <2>1 DEF OneRuns, Resting, Fetching
  <2> QED
    BY <2>1, <2>2, <2>3
<1>10. \A d, e \in Calls : At(w, d, x) = "waits" /\ At(w, e, x) = "waits" => d = e
  BY <1>7, <1>8, <1>9 DEF Few
<1>11. Few(v)
  BY <1>5, <1>7 DEF Few
<1>12. found \notin Held /\ found \notin Fetching /\ found \in Resting /\ found # "waits" /\ found # "failed"
  BY DEF Held, Fetching, Resting
<1>13. \A d \in Calls \ {c} : At(w, d, x) \notin Held
  BY <1>7 DEF OneHolder, Held
<1>14. OneHolder(v)
  <2>1. ASSUME NEW d \in Calls, NEW e \in Calls, NEW y \in Addresses,
               At(v, d, y) \in Held, At(v, e, y) \in Held
        PROVE  d = e
    <3>1. CASE y = x
      BY <1>4, <1>10, <1>12, <1>13, <2>1, <3>1
    <3>2. CASE y # x
      BY <1>4, <1>7, <2>1, <3>2 DEF OneHolder
    <3> QED
      BY <3>1, <3>2
  <2> QED
    BY <2>1 DEF OneHolder
<1>15. GatesShut(v)
  <2>1. ASSUME NEW d \in Calls PROVE At(v, d, x) \notin Fetching
    <3>1. CASE d = c
      BY <1>3, <1>12, <3>1
    <3>2. CASE d # c
      BY <1>4, <1>13, <3>2 DEF Fetching, Held
    <3> QED
      BY <3>1, <3>2
  <2>2. \A d \in Calls : \A y \in Addresses : y # x => At(v, d, y) = At(w, d, y)
    BY <1>4
  <2> QED
    BY <1>2, <1>7, <2>1, <2>2, GateFacts DEF GatesShut
<1>16. OneRuns(v)
  <2>1. ASSUME NEW d \in Calls, NEW e \in Calls, Phase(v, d) = "running", d # e
        PROVE  /\ Phase(v, e) # "running"
               /\ \A y \in Addresses : At(v, e, y) \in Resting \cup Fetching
    <3>1. /\ Phase(w, d) = "running" /\ Phase(w, e) # "running"
          /\ \A y \in Addresses : At(w, e, y) \in Resting \cup Fetching
      BY <1>5, <1>7, <2>1 DEF OneRuns
    <3>2. At(w, e, x) # "waits"
      BY <3>1 DEF Resting, Fetching
    <3> QED
      BY <1>4, <1>5, <1>12, <3>1, <3>2
  <2> QED
    BY <2>1 DEF OneRuns
<1>17. \A d \in Calls : HasFailed(w, d) => HasFailed(v, d)
  <2>1. ASSUME NEW d \in Calls, HasFailed(w, d) PROVE HasFailed(v, d)
    <3>1. PICK y \in Addresses : At(w, d, y) = "failed"
      BY <2>1 DEF HasFailed
    <3>2. At(v, d, y) = "failed"
      BY <1>4, <3>1
    <3> QED
      BY <1>5, <2>1, <3>2 DEF HasFailed
  <2> QED
    BY <2>1
<1>18. Waits(v)
  <2>1. \A d \in Calls : \A y \in Addresses : At(v, d, y) = "waits" => At(w, d, y) = "waits"
    BY <1>4, <1>12
  <2> QED
    BY <1>5, <1>7, <1>17, <2>1 DEF Waits
<1>19. GatesOf(v)
  BY <1>2, <1>5, <1>6, <1>7, GateFacts DEF GatesOf
<1>20. TwoOK(v)
  BY <1>11, <1>14, <1>15, <1>16, <1>18, <1>19 DEF TwoOK
<1> QED
  BY <1>20 DEF v

LEMMA EndAddressTwo ==
  ASSUME NEW w, CallsOK(w), Busy(w), TwoOK(w), NEW c \in Calls, NEW x \in Addresses,
         At(w, c, x) = "fetch", NEW found \in {"used", "unused"},
         IndexOf(EndAddress(w, c, x, found), c) + GAP <= MaxIndex + 1
  PROVE  TwoOK(EndAddress(w, c, x, found))
<1> DEFINE b == BeforeBlock(w, c, x, found)
           v == EndBlock(b, c)
<1>1. EndAddress(w, c, x, found) = v
  BY EndIs
<1>2. CallsOK(b) /\ (\A d \in Calls \ {c} : BusyAt(b, d)) /\ TwoOK(b)
  BY BeforeBlockOK, BeforeBlockTwo
<1>3. ~Between(b, c)
  <2>1. w \in Wallets /\ CallOK(w, c) /\ At(w, c, x) # "waits"
    BY DEF CallsOK
  <2>2. ~Between(w, c)
    BY <2>1, FetchPhase DEF Held
  <2>3. \A d \in Calls : \A g : Has(b, d, g) <=>
          Has(w, d, g) \/ (g = Address(x) /\ At(w, d, x) = "waits")
    BY <2>1, BeforeBlockFacts
  <2> HIDE DEF b
  <2> QED
    BY <2>1, <2>2, <2>3 DEF Between
<1> HIDE DEF b
<1>4. CASE v = b
  BY <1>1, <1>2, <1>4
<1>5. CASE Ready(b, c) /\ v = StartBlock(NextBlock(b, c), c)
  <2> DEFINE n == NextBlock(b, c)
  <2>1. Ready(n, c)
    BY <1>1, <1>5, StartIndex, NextBlockReady
  <2>2. b \in Wallets
    BY <1>2 DEF CallsOK
  <2>3. /\ n \in Wallets /\ n.syncing = b.syncing /\ SamePhases(n, b) /\ SameTasks(n, b)
        /\ \A d \in Calls : AccountOf(n, d) = AccountOf(b, d)
        /\ \A d, g : Has(n, d, g) <=> Has(b, d, g)
    BY <2>2, NextBlockFacts
  <2> HIDE DEF n
  <2>4. TwoOK(n)
    BY <1>2, <2>2, <2>3, TaskAt, TwoFrame DEF SamePhases, SameTasks
  <2> QED
    BY <1>1, <1>5, <2>1, <2>4, ReadyStartTwo DEF n
<1>6. CASE Ready(b, c) /\ v = whenSyncedAccount(NextAccount(b, c), c)
  <2> DEFINE n == NextAccount(b, c)
  <2>1. Ready(n, c)
    BY <1>6, NextAccountReady
  <2>2. b \in Wallets /\ Phase(b, c) = "running"
    BY <1>6 DEF Ready
  <2>3. /\ n \in Wallets /\ n.syncing = b.syncing \ {Account(AccountOf(b, c))}
        /\ SamePhases(n, b) /\ SameTasks(n, b)
        /\ \A d, g : Has(n, d, g) <=> Has(b, d, g)
    BY <2>2, NextAccountFacts
  <2> HIDE DEF n
  <2>4. NoAccount(n)
    BY <1>2, <2>2, <2>3, NoAccountIf
  <2>5. TwoOK(n)
    BY <1>2, <2>2, <2>3, <2>4, TaskAt, TwoFrame, GateFacts DEF SamePhases, SameTasks
  <2> QED
    BY <1>1, <1>6, <2>1, <2>4, <2>5, ReadyAccountTwo DEF n
<1>7. CASE Ready(b, c) /\ v = EndAll(Opens(b, c), c)
  <2> DEFINE n == Opens(b, c)
  <2>1. Ready(n, c)
    BY <1>7, OpensReady
  <2>2. b \in Wallets /\ Phase(b, c) = "running"
    BY <1>7 DEF Ready
  <2>3. /\ n \in Wallets /\ n.syncing = b.syncing \ {Account(AccountOf(b, c))}
        /\ SameCalls(n, b)
        /\ \A d, g : Has(n, d, g) <=> Has(b, d, g)
    BY <2>2, OpensFacts
  <2> HIDE DEF n
  <2>4. NoAccount(n)
    BY <1>2, <2>2, <2>3, NoAccountIf
  <2>5. TwoOK(n)
    BY <1>2, <2>2, <2>3, <2>4, TaskAt, TwoFrame, GateFacts DEF SameCalls, SamePhases, SameTasks
  <2> QED
    BY <1>1, <1>7, <2>1, <2>4, <2>5, ReadyEndTwo DEF n
<1> QED
  BY <1>2, <1>3, <1>4, <1>5, <1>6, <1>7, EndBlockCases

\* A call comes through the gate of all or of an account.
LEMMA PassTwo ==
  ASSUME CallsOK(wallet), TwoOK(wallet), wallet.micro # <<>>,
         \/ Head(wallet.micro).gate = All
         \/ \E a \in Accounts : Head(wallet.micro).gate = Account(a)
  PROVE  TwoOK(Passed) /\ (Head(wallet.micro).gate = All => NoAccount(Passed))
<1> DEFINE c == Head(wallet.micro).call
           g == Head(wallet.micro).gate
           w == wallet
           v == Passed
<1>1. /\ c \in Calls /\ g \in Gates /\ Has(w, c, g)
      /\ v.syncing = w.syncing \cup {g} /\ SameCalls(v, w)
      /\ \A d, h : Has(v, d, h) <=> Has(w, d, h) /\ ~(d = c /\ h = g)
      /\ g = All \/ \E a \in Accounts : g = Account(a)
  BY PassedFacts
<1> HIDE DEF v, c, g
<1>2. w \in Wallets /\ CallOK(w, c)
  BY <1>1 DEF CallsOK
<1>3. Phase(w, c) = "running" /\ Between(w, c)
  BY <1>1, <1>2 DEF CallOK, Between
<1>4. Few(w) /\ OneHolder(w) /\ GatesShut(w) /\ OneRuns(w) /\ Waits(w) /\ GatesOf(w)
  BY DEF TwoOK
<1>5. /\ \A d \in Calls : Phase(v, d) = Phase(w, d) /\ AccountOf(v, d) = AccountOf(w, d)
      /\ \A d \in Calls : \A x \in Addresses : At(v, d, x) = At(w, d, x)
  BY <1>1, TaskAt DEF SameCalls, Placed, SamePhases, SameTasks
<1>6. NoAccount(w)
  BY <1>1, <1>3, NoAccountIf
<1>7. \A d \in Calls : Phase(w, d) = "running" => d = c
  BY <1>1, <1>3, <1>4 DEF OneRuns
<1>8. ~Between(v, c)
  <2>1. ~Has(v, c, All)
    BY <1>1, <1>2 DEF CallOK
  <2>2. ASSUME NEW a \in Accounts PROVE ~Has(v, c, Account(a))
    BY <1>1, <1>2, <2>2 DEF CallOK
  <2> QED
    BY <2>1, <2>2 DEF Between
<1>9. Few(v)
  BY <1>4, <1>5 DEF Few
<1>10. OneHolder(v)
  BY <1>4, <1>5 DEF OneHolder
<1>11. GatesShut(v)
  <2>1. \A x \in Addresses : Address(x) \in v.syncing <=> Address(x) \in w.syncing
    BY <1>1, GateFacts
  <2> QED
    BY <1>4, <1>5, <2>1 DEF GatesShut
<1>12. OneRuns(v)
  BY <1>4, <1>5 DEF OneRuns
<1>13. \A d \in Calls : HasFailed(v, d) <=> HasFailed(w, d)
  BY <1>5 DEF HasFailed
<1>14. Waits(v)
  BY <1>4, <1>5, <1>13 DEF Waits
<1>15. All \in v.syncing
  <2>1. CASE g = All
    BY <1>1, <2>1
  <2>2. CASE g # All
    <3>1. ~Has(w, c, All)
      BY <1>1, <1>2, <2>2 DEF CallOK
    <3> QED
      BY <1>1, <1>3, <1>4, <3>1 DEF GatesOf
  <2> QED
    BY <2>1, <2>2
<1>16. Phase(v, c) = "running" /\ ~Has(v, c, All)
  BY <1>3, <1>5, <1>8, <1>1 DEF Between
<1>17. GatesOf(v)
  <2>1. ASSUME NEW a \in Accounts, Account(a) \in v.syncing PROVE AccountOf(v, c) = a
    <3>1. Has(w, c, Account(a))
      BY <1>1, <1>6, <2>1 DEF NoAccount
    <3> QED
      BY <1>1, <1>2, <1>5, <3>1 DEF CallOK
  <2> QED
    BY <1>1, <1>8, <1>15, <1>16, <2>1 DEF GatesOf
<1>18. g = All => NoAccount(v)
  BY <1>1, <1>6, GateFacts DEF NoAccount
<1>19. TwoOK(v)
  BY <1>9, <1>10, <1>11, <1>12, <1>14, <1>17 DEF TwoOK
<1> QED
  BY <1>18, <1>19 DEF v, g

\* A request is made for an address in hand, and its gate is shut.
LEMMA AsksTwo ==
  ASSUME NEW w \in Wallets, NEW v, TwoOK(w), NEW c \in Calls, NEW x \in Addresses,
         At(w, c, x) \in Held, Placed(v, w), SamePhases(v, w),
         At(v, c, x) \in Fetching,
         v.syncing = w.syncing \cup {Address(x)},
         \A d \in Calls : \A y \in Addresses : (d # c \/ y # x) => At(v, d, y) = At(w, d, y),
         \A d \in Calls, g \in Gates : Has(v, d, g) <=> Has(w, d, g) /\ ~(d = c /\ g = Address(x))
  PROVE  TwoOK(v)
<1>1. Few(w) /\ OneHolder(w) /\ GatesShut(w) /\ OneRuns(w) /\ Waits(w) /\ GatesOf(w)
  BY DEF TwoOK
<1>2. \A d \in Calls : Phase(v, d) = Phase(w, d) /\ AccountOf(v, d) = AccountOf(w, d)
  BY DEF Placed, SamePhases
<1>3. \A d \in Calls : (Has(v, d, All) <=> Has(w, d, All)) /\ (Between(v, d) <=> Between(w, d))
  BY GateFacts DEF Between
<1>4. Fetching \subseteq Held /\ "failed" \notin Held /\ "waits" \notin Held
  BY DEF Fetching, Held
<1>5. Few(v)
  BY <1>1, <1>2 DEF Few
<1>6. OneHolder(v)
  <2>1. \A d \in Calls : \A y \in Addresses : At(v, d, y) \in Held => At(w, d, y) \in Held
    OBVIOUS
  <2> QED
    BY <1>1, <2>1 DEF OneHolder
<1>7. GatesShut(v)
  <2>1. ASSUME NEW y \in Addresses, y # x
        PROVE  Address(y) \in v.syncing <=> \E d \in Calls : At(v, d, y) \in Fetching
    <3>1. Address(y) \in v.syncing <=> Address(y) \in w.syncing
      BY <2>1, GateFacts
    <3>2. \A d \in Calls : At(v, d, y) = At(w, d, y)
      BY <2>1
    <3> QED
      BY <1>1, <3>1, <3>2 DEF GatesShut
  <2> QED
    BY <2>1 DEF GatesShut
<1>8. OneRuns(v)
  <2>1. \A d \in Calls : \A y \in Addresses :
          At(w, d, y) \in Resting \cup Fetching => At(v, d, y) \in Resting \cup Fetching
    OBVIOUS
  <2> QED
    BY <1>1, <1>2, <2>1 DEF OneRuns
<1>9. \A d \in Calls : HasFailed(w, d) => HasFailed(v, d)
  <2>1. ASSUME NEW d \in Calls, HasFailed(w, d) PROVE HasFailed(v, d)
    <3>1. PICK y \in Addresses : At(w, d, y) = "failed"
      BY <2>1 DEF HasFailed
    <3>2. At(v, d, y) = "failed"
      BY <1>4, <3>1
    <3> QED
      BY <1>2, <2>1, <3>2 DEF HasFailed
  <2> QED
    BY <2>1
<1>10. Waits(v)
  <2>1. \A d \in Calls : \A y \in Addresses : At(v, d, y) = "waits" => At(w, d, y) = "waits"
    BY <1>4
  <2> QED
    BY <1>1, <1>2, <1>9, <2>1 DEF Waits
<1>11. GatesOf(v)
  <2>1. (All \in v.syncing <=> All \in w.syncing)
        /\ \A a \in Accounts : Account(a) \in v.syncing <=> Account(a) \in w.syncing
    BY GateFacts
  <2> QED
    BY <1>1, <1>2, <1>3, <2>1 DEF GatesOf
<1> QED
  BY <1>5, <1>6, <1>7, <1>8, <1>10, <1>11 DEF TwoOK

LEMMA FailTwo ==
  ASSUME NEW w, CallsOK(w), TwoOK(w), NEW c \in Calls, NEW x \in Addresses, At(w, c, x) \in Fetching
  PROVE  TwoOK(FailAddress(w, c, x))
<1> DEFINE v == FailAddress(w, c, x)
           O == IF Phase(w, c) = "running" THEN {Address(x), Account(AccountOf(w, c)), All}
                ELSE {Address(x)}
<1>1. w \in Wallets /\ CallOK(w, c)
  BY DEF CallsOK
<1>2. /\ v.syncing = w.syncing \ O /\ Placed(v, w)
      /\ \A d \in Calls : Phase(v, d) =
           IF d = c /\ Phase(w, c) = "running" THEN "failed" ELSE Phase(w, d)
      /\ At(v, c, x) = "failed"
      /\ \A d \in Calls : \A y \in Addresses :
           (d # c \/ y # x) => Task(v, d, y) = Task(w, d, y)
      /\ \A d, g : Has(v, d, g) <=> Has(w, d, g)
  BY <1>1, FailFacts
<1> HIDE DEF v
<1>3. \A d \in Calls : \A y \in Addresses : (d # c \/ y # x) => At(v, d, y) = At(w, d, y)
  BY <1>2, TaskAt
<1>4. Phase(w, c) \in {"running", "failed"} /\ ~Between(w, c) /\ Phase(v, c) = "failed"
  BY <1>1, <1>2, FetchPhase DEF Fetching, Held
<1>5. Few(w) /\ OneHolder(w) /\ GatesShut(w) /\ OneRuns(w) /\ Waits(w) /\ GatesOf(w)
  BY DEF TwoOK
<1>6. \A y \in Addresses : y # x => Address(y) \notin O
  BY <1>1, GateFacts, WalletFacts
<1>7. Address(x) \in O /\ (Phase(w, c) # "running" =>
        All \notin O /\ \A a \in Accounts : Account(a) \notin O)
  BY GateFacts
<1>8. Few(v)
  BY <1>2, <1>4, <1>5 DEF Few
<1>9. "failed" \notin Held /\ "failed" \notin Fetching /\ "failed" \in Resting /\ Fetching \subseteq Held
  BY DEF Held, Fetching, Resting
<1>10. OneHolder(v)
  <2>1. \A d \in Calls : \A y \in Addresses : At(v, d, y) \in Held => At(w, d, y) \in Held
    BY <1>2, <1>3, <1>9
  <2> QED
    BY <1>5, <2>1 DEF OneHolder
<1>11. GatesShut(v)
  <2>1. ASSUME NEW d \in Calls PROVE At(v, d, x) \notin Fetching
    BY <1>2, <1>3, <1>5, <1>9 DEF OneHolder
  <2>2. ASSUME NEW y \in Addresses, y # x
        PROVE  Address(y) \in v.syncing <=> \E d \in Calls : At(v, d, y) \in Fetching
    <3>1. Address(y) \in v.syncing <=> Address(y) \in w.syncing
      BY <1>2, <1>6, <2>2
    <3>2. \A d \in Calls : At(v, d, y) = At(w, d, y)
      BY <1>3, <2>2
    <3> QED
      BY <1>5, <3>1, <3>2 DEF GatesShut
  <2>3. Address(x) \notin v.syncing
    BY <1>2, <1>7
  <2> QED
    BY <2>1, <2>2, <2>3 DEF GatesShut
<1>12. OneRuns(v)
  <2>1. \A d \in Calls : Phase(v, d) = "running" <=> Phase(w, d) = "running" /\ d # c
    BY <1>2, <1>4
  <2>2. \A d \in Calls : \A y \in Addresses :
          At(w, d, y) \in Resting \cup Fetching => At(v, d, y) \in Resting \cup Fetching
    BY <1>2, <1>3, <1>9
  <2> QED
    BY <1>5, <2>1, <2>2 DEF OneRuns
<1>13. HasFailed(v, c)
  BY <1>2, <1>4 DEF HasFailed
<1>14. \A d \in Calls : HasFailed(w, d) => HasFailed(v, d)
  <2>1. ASSUME NEW d \in Calls, HasFailed(w, d), d # c PROVE HasFailed(v, d)
    BY <1>2, <1>3, <2>1 DEF HasFailed
  <2> QED
    BY <1>13, <2>1
<1>15. Waits(v)
  <2>1. \A d \in Calls : \A y \in Addresses : At(v, d, y) = "waits" => At(w, d, y) = "waits"
    BY <1>2, <1>3
  <2>2. ASSUME NEW d \in Calls, Phase(v, d) = "waitsForAll"
        PROVE  \E e \in Calls \ {d} : Phase(v, e) = "running" \/ HasFailed(v, e)
    <3>1. d # c /\ Phase(w, d) = "waitsForAll"
      BY <1>2, <1>4, <2>2
    <3> QED
      BY <1>13, <3>1
  <2>3. \A d \in Calls : Phase(v, d) # "waitsForAccount"
    BY <1>2, <1>5 DEF Waits
  <2> QED
    BY <1>5, <1>14, <2>1, <2>2, <2>3 DEF Waits
<1>16. GatesOf(v)
  <2>1. CASE Phase(w, c) = "running"
    <3>1. \A d \in Calls : Phase(v, d) # "running"
      BY <1>2, <1>4, <1>5, <2>1 DEF OneRuns
    <3>2. All \notin v.syncing
      BY <1>2, <2>1
    <3>3. \A a \in Accounts : Account(a) \notin v.syncing
      <4>1. v.syncing \subseteq w.syncing /\ Account(AccountOf(w, c)) \notin v.syncing
        BY <1>2, <2>1
      <4> QED
        BY <2>1, <4>1, NoAccountIf DEF NoAccount
    <3> QED
      BY <3>1, <3>2, <3>3 DEF GatesOf
  <2>2. CASE Phase(w, c) # "running"
    <3>1. \A d \in Calls : Phase(v, d) = Phase(w, d) /\ AccountOf(v, d) = AccountOf(w, d)
      BY <1>2, <2>2 DEF Placed
    <3>2. (All \in v.syncing <=> All \in w.syncing)
          /\ \A a \in Accounts : Account(a) \in v.syncing <=> Account(a) \in w.syncing
      BY <1>2, <1>7, <2>2
    <3>3. \A d : (Has(v, d, All) <=> Has(w, d, All)) /\ (Between(v, d) <=> Between(w, d))
      BY <1>2 DEF Between
    <3> QED
      BY <1>5, <3>1, <3>2, <3>3 DEF GatesOf
  <2> QED
    BY <2>1, <2>2
<1>17. TwoOK(v)
  BY <1>8, <1>10, <1>11, <1>12, <1>15, <1>16 DEF TwoOK
<1> QED
  BY <1>17 DEF v

\* The second call joins while no microtask is left.
LEMMA JoinsTwo ==
  ASSUME NEW w, CallsOK(w), TwoOK(w), NEW c \in Calls, Phase(w, c) = "idle", w.micro = <<>>,
         \A d, e \in Calls \ {c} : Phase(w, d) # "idle" /\ Phase(w, e) # "idle" => d = e
  PROVE  TwoOK(whenSyncedAll(w, c))
<1> DEFINE v == whenSyncedAll(w, c)
           p == IF All \in w.syncing THEN "waitsForAll" ELSE "running"
<1>1. w \in Wallets /\ Apart(w.micro) /\ \A d \in Calls : CallOK(w, d)
  BY DEF CallsOK
<1>2. \A d, g : ~Has(w, d, g)
  BY EmptyFacts DEF Has
<1>3. \A x \in Addresses : At(w, c, x) = "none"
  BY <1>1 DEF CallOK
<1>4. p \in Phases
  BY DEF Phases
<1>5. /\ v.syncing = w.syncing /\ Placed(v, w) /\ SameTasks(v, w)
      /\ \A d \in Calls : Phase(v, d) = IF d = c THEN p ELSE Phase(w, d)
      /\ p = "running" => Has(v, c, All)
      /\ \A d \in Calls \ {c} : \A g : ~Has(v, d, g)
  <2>1. CASE All \in w.syncing
    <3>1. v = SetPhase(w, c, p) /\ p # "running"
      BY <2>1 DEF whenSyncedAll
    <3> HIDE DEF p, v
    <3> QED
      BY <1>1, <1>2, <1>4, <3>1, PhaseIs
  <2>2. CASE All \notin w.syncing
    <3>1. v = Later(SetPhase(w, c, p), <<c>>, All) /\ p = "running"
      BY <2>2 DEF whenSyncedAll
    <3> HIDE DEF p, v
    <3> QED
      BY <1>1, <1>2, <1>4, <3>1, ComesTo, GateFacts
  <2> QED
    BY <2>1, <2>2
<1>6. p \in {"waitsForAll", "running"} /\ (p = "running" <=> All \notin w.syncing)
  OBVIOUS
<1> HIDE DEF v, p
<1>7. \A d \in Calls : \A x \in Addresses : At(v, d, x) = At(w, d, x)
  BY <1>5, TaskAt DEF SameTasks
<1>8. Few(w) /\ OneHolder(w) /\ GatesShut(w) /\ OneRuns(w) /\ Waits(w) /\ GatesOf(w)
  BY DEF TwoOK
<1>9. Few(v)
  BY <1>5 DEF Few
<1>10. OneHolder(v)
  BY <1>7, <1>8 DEF OneHolder
<1>11. GatesShut(v)
  BY <1>5, <1>7, <1>8 DEF GatesShut
<1>12. ASSUME NEW d \in Calls, NEW x \in Addresses, At(w, d, x) = "waits" PROVE FALSE
  <2>1. PICK e \in Calls \ {d} : HasFailed(w, e)
    BY <1>8, <1>12 DEF Waits
  <2>2. Phase(w, d) \in {"running", "failed"}
    BY <1>1, <1>12, FetchPhase
  <2> QED
    BY <1>12, <2>1, <2>2 DEF HasFailed
<1>13. \A d \in Calls : Phase(w, d) = "running" => p # "running"
  BY <1>2, <1>6, <1>8 DEF GatesOf
<1>14. \A d \in Calls : \A x \in Addresses : At(w, d, x) \in Resting \cup Fetching
  <2>1. ASSUME NEW d \in Calls, NEW x \in Addresses PROVE At(w, d, x) \in Resting \cup Fetching
    <3>1. At(w, d, x) # "starts"
      BY <1>1, <1>2 DEF CallOK
    <3>2. At(w, d, x) # "waits"
      BY <1>12
    <3>3. At(w, d, x) \in {"waits"} \cup Resting \cup Held
      BY <1>1, AtType
    <3> QED
      BY <3>1, <3>2, <3>3 DEF Held, Fetching
  <2> QED
    BY <2>1
<1>15. OneRuns(v)
  BY <1>5, <1>7, <1>8, <1>13, <1>14 DEF OneRuns
<1>16. \A d \in Calls \ {c} : HasFailed(w, d) => HasFailed(v, d)
  BY <1>5, <1>7 DEF HasFailed
<1>17. Waits(v)
  <2>1. \A d \in Calls : \A x \in Addresses : At(v, d, x) # "waits"
    BY <1>7, <1>12
  <2>2. ASSUME NEW d \in Calls, Phase(v, d) = "waitsForAll"
        PROVE  \E e \in Calls \ {d} : Phase(v, e) = "running" \/ HasFailed(v, e)
    <3>1. CASE d = c
      <4>1. All \in w.syncing
        BY <1>5, <1>6, <2>2, <3>1
      <4>2. PICK e \in Calls : Phase(w, e) = "running"
        BY <1>8, <4>1 DEF GatesOf
      <4> QED
        BY <1>5, <3>1, <4>2
    <3>2. CASE d # c
      <4>1. PICK e \in Calls \ {d} : Phase(w, e) = "running" \/ HasFailed(w, e)
        BY <1>5, <1>8, <2>2, <3>2 DEF Waits
      <4>2. e # c
        BY <4>1 DEF HasFailed
      <4> QED
        BY <1>5, <1>16, <4>1, <4>2
    <3> QED
      BY <3>1, <3>2
  <2>3. \A d \in Calls : Phase(v, d) # "waitsForAccount"
    BY <1>5, <1>6, <1>8 DEF Waits
  <2> QED
    BY <2>1, <2>2, <2>3 DEF Waits
<1>18. GatesOf(v)
  <2>1. \A d \in Calls : Phase(v, d) = "running" => All \in v.syncing \/ Has(v, d, All)
    BY <1>2, <1>5, <1>8 DEF GatesOf
  <2>2. All \in v.syncing => \E d \in Calls : Phase(v, d) = "running" /\ ~Has(v, d, All)
    BY <1>5, <1>6, <1>8 DEF GatesOf
  <2>3. ASSUME NEW a \in Accounts, Account(a) \in v.syncing
        PROVE  \E d \in Calls : Phase(v, d) = "running" /\ AccountOf(v, d) = a /\ ~Between(v, d)
    <3>1. PICK d \in Calls : Phase(w, d) = "running" /\ AccountOf(w, d) = a
      BY <1>5, <1>8, <2>3 DEF GatesOf
    <3>2. d # c
      BY <3>1
    <3>3. ~Between(v, d)
      BY <1>5, <3>2 DEF Between
    <3> QED
      BY <1>5, <3>1, <3>2, <3>3 DEF Placed
  <2> QED
    BY <2>1, <2>2, <2>3 DEF GatesOf
<1>19. TwoOK(v)
  BY <1>9, <1>10, <1>11, <1>15, <1>17, <1>18 DEF TwoOK
<1> QED
  BY <1>19 DEF v

\* No call begins, and no request is made that was not.
SameIdle(v, w) == \A d \in Calls : Phase(v, d) = "idle" <=> Phase(w, d) = "idle"

NoNew(v, w) ==
  \A d \in Calls : \A y \in Addresses : At(v, d, y) \in Fetching => Task(v, d, y) = Task(w, d, y)

LEMMA StartFrame ==
  ASSUME NEW w, NEW c \in Calls, Ready(w, c)
  PROVE  SameIdle(StartBlock(w, c), w) /\ NoNew(StartBlock(w, c), w)
<1> DEFINE v == StartBlock(w, c)
           B == Block(w, c)
<1>1. w \in Wallets /\ IndexOf(w, c) + GAP <= MaxIndex + 1
  BY DEF Ready
<1>2. /\ SamePhases(v, w)
      /\ \A d \in Calls : \A x \in Addresses :
           Task(v, d, x) = IF d = c /\ x \in B THEN Starting(w, x) ELSE Task(w, d, x)
  BY <1>1, StartFacts
<1> HIDE DEF v, B
<1>3. ASSUME NEW x PROVE Starting(w, x).phase \notin Fetching
  BY StartingFacts DEF Fetching
<1>4. NoNew(v, w)
  BY <1>2, <1>3 DEF NoNew, At, Task
<1>5. SameIdle(v, w)
  BY <1>2 DEF SameIdle, SamePhases
<1> QED
  BY <1>4, <1>5 DEF v

LEMMA AccountFrame ==
  ASSUME NEW w, NEW c \in Calls, Ready(w, c)
  PROVE  /\ SameIdle(whenSyncedAccount(w, c), w) /\ SameTasks(whenSyncedAccount(w, c), w)
         /\ whenSyncedAccount(w, c).syncing = w.syncing
         /\ SameFresh(whenSyncedAccount(w, c), w) /\ Placed(whenSyncedAccount(w, c), w)
         /\ \A d \in Calls \ {c} : Phase(whenSyncedAccount(w, c), d) = Phase(w, d)
         /\ Phase(whenSyncedAccount(w, c), c) \in {"running", "waitsForAccount"}
         /\ \A d : Has(whenSyncedAccount(w, c), d, All) <=> Has(w, d, All)
         /\ Phase(whenSyncedAccount(w, c), c) = "running" => Between(whenSyncedAccount(w, c), c)
<1> DEFINE v == whenSyncedAccount(w, c)
           a == AccountOf(w, c)
<1>1. /\ w \in Wallets /\ Apart(w.micro) /\ Phase(w, c) = "running" /\ ~Between(w, c)
  BY DEF Ready
<1>2. a \in Accounts /\ Account(a) \in Gates /\ ~Has(w, c, Account(a))
  BY <1>1, WalletFacts, GateFacts DEF Between
<1>3. /\ v.syncing = w.syncing /\ SameFresh(v, w) /\ Placed(v, w) /\ SameTasks(v, w)
      /\ \A d \in Calls \ {c} : Phase(v, d) = Phase(w, d)
      /\ Phase(v, c) \in {"running", "waitsForAccount"}
      /\ \A d : Has(v, d, All) <=> Has(w, d, All)
      /\ Phase(v, c) = "running" => Has(v, c, Account(a))
  <2>1. CASE Account(a) \in w.syncing
    <3> DEFINE p == "waitsForAccount"
    <3>1. v = SetPhase(w, c, p) /\ p \in Phases
      BY <2>1 DEF whenSyncedAccount, AccountOf, Phases
    <3> HIDE DEF v, a, p
    <3>2. /\ v.syncing = w.syncing /\ SameFresh(v, w) /\ Placed(v, w) /\ SameTasks(v, w)
          /\ \A d \in Calls : Phase(v, d) = IF d = c THEN p ELSE Phase(w, d)
          /\ \A d, g : Has(v, d, g) <=> Has(w, d, g)
      BY <1>1, <3>1, PhaseIs
    <3> QED
      BY <3>2 DEF p
  <2>2. CASE Account(a) \notin w.syncing
    <3> DEFINE p == "running"
    <3>1. v = Later(SetPhase(w, c, p), <<c>>, Account(a)) /\ p \in Phases
      BY <2>2 DEF whenSyncedAccount, AccountOf, Phases
    <3> HIDE DEF v, a, p
    <3>2. /\ v.syncing = w.syncing /\ SameFresh(v, w) /\ Placed(v, w) /\ SameTasks(v, w)
          /\ \A d \in Calls : Phase(v, d) = IF d = c THEN p ELSE Phase(w, d)
          /\ \A d, g : Has(v, d, g) <=> Has(w, d, g) \/ (d = c /\ g = Account(a))
      BY <1>1, <1>2, <3>1, ComesTo
    <3> QED
      BY <3>2, GateFacts DEF p
  <2> QED
    BY <2>1, <2>2
<1> HIDE DEF v
<1>4. SameIdle(v, w)
  BY <1>1, <1>3 DEF SameIdle
<1>5. Phase(v, c) = "running" => Between(v, c)
  BY <1>2, <1>3 DEF Between
<1> QED
  BY <1>3, <1>4, <1>5 DEF v

LEMMA EndFrame ==
  ASSUME NEW w, NEW c \in Calls, Ready(w, c)
  PROVE  SameIdle(EndAll(w, c), w) /\ SameTasks(EndAll(w, c), w)
<1> DEFINE v == EndAll(w, c)
<1>1. w \in Wallets /\ Phase(w, c) = "running"
  BY DEF Ready
<1>2. /\ SameTasks(v, w)
      /\ \A d \in Calls : Phase(v, d) =
           IF d = c THEN "done"
           ELSE IF Phase(w, d) = "waitsForAll" THEN "running" ELSE Phase(w, d)
  BY <1>1, EndAllFacts
<1> HIDE DEF v
<1>3. SameIdle(v, w)
  BY <1>1, <1>2 DEF SameIdle
<1> QED
  BY <1>2, <1>3 DEF v

LEMMA TasksNoNew ==
  ASSUME NEW v, NEW w, SameTasks(v, w)
  PROVE  NoNew(v, w)
BY DEF NoNew, SameTasks

LEMMA FrameChain ==
  ASSUME NEW u, NEW v, NEW w, SameIdle(u, v), SameIdle(v, w), NoNew(u, v), NoNew(v, w)
  PROVE  SameIdle(u, w) /\ NoNew(u, w)
<1>1. SameIdle(u, w)
  BY DEF SameIdle
<1>2. ASSUME NEW d \in Calls, NEW y \in Addresses, At(u, d, y) \in Fetching
      PROVE  Task(u, d, y) = Task(w, d, y)
  <2>1. Task(u, d, y) = Task(v, d, y)
    BY <1>2 DEF NoNew
  <2>2. At(v, d, y) \in Fetching
    BY <1>2, <2>1, TaskAt
  <2> QED
    BY <2>1, <2>2 DEF NoNew
<1> QED
  BY <1>1, <1>2 DEF NoNew

\* The end of an address makes no request, and its own has ended.
LEMMA EndAddressFrame ==
  ASSUME NEW w, CallsOK(w), Busy(w), NEW c \in Calls, NEW x \in Addresses, At(w, c, x) = "fetch",
         NEW found \in {"used", "unused"},
         IndexOf(EndAddress(w, c, x, found), c) + GAP <= MaxIndex + 1
  PROVE  LET v == EndAddress(w, c, x, found)
         IN  SameIdle(v, w) /\ NoNew(v, w) /\ At(v, c, x) \notin Fetching
<1> DEFINE b == BeforeBlock(w, c, x, found)
           v == EndBlock(b, c)
<1>1. EndAddress(w, c, x, found) = v
  BY EndIs
<1>2. CallsOK(b) /\ \A d \in Calls \ {c} : BusyAt(b, d)
  BY BeforeBlockOK
<1>3. w \in Wallets /\ CallOK(w, c) /\ At(w, c, x) # "waits" /\ ~Between(w, c)
  BY FetchPhase DEF CallsOK, Held
<1>4. /\ Placed(b, w) /\ SamePhases(b, w)
      /\ Task(b, c, x) = RestTask(found)
      /\ \A d \in Calls : \A y \in Addresses :
           (d # c \/ y # x) =>
             IF y = x /\ At(w, d, x) = "waits" THEN At(b, d, y) = "starts"
             ELSE Task(b, d, y) = Task(w, d, y)
      /\ \A d \in Calls : \A g : Has(b, d, g) <=>
           Has(w, d, g) \/ (g = Address(x) /\ At(w, d, x) = "waits")
  BY <1>3, BeforeBlockFacts
<1> HIDE DEF b
<1>5. ~Between(b, c)
  BY <1>3, <1>4 DEF Between
<1>6. At(b, c, x) \notin Fetching
  BY <1>4, RestFacts DEF At, Task, Fetching, Resting
<1>7. SameIdle(b, w) /\ NoNew(b, w)
  <2>1. SameIdle(b, w)
    BY <1>4 DEF SameIdle, SamePhases
  <2>2. "starts" \notin Fetching
    BY DEF Fetching
  <2> QED
    BY <1>4, <1>6, <2>1, <2>2 DEF NoNew
<1>8. SameIdle(v, b) /\ NoNew(v, b)
  <2>1. CASE v = b
    BY <2>1 DEF SameIdle, NoNew
  <2>2. CASE Ready(b, c) /\ v = StartBlock(NextBlock(b, c), c)
    <3> DEFINE n == NextBlock(b, c)
    <3>1. Ready(n, c)
      BY <1>1, <2>2, StartIndex, NextBlockReady
    <3>2. SamePhases(n, b) /\ SameTasks(n, b)
      BY <1>2, NextBlockFacts DEF CallsOK
    <3> HIDE DEF n
    <3>3. SameIdle(n, b) /\ NoNew(n, b)
      BY <3>2, TasksNoNew DEF SameIdle, SamePhases
    <3>4. SameIdle(v, n) /\ NoNew(v, n)
      BY <2>2, <3>1, StartFrame DEF n
    <3> QED
      BY <3>3, <3>4, FrameChain
  <2>3. CASE Ready(b, c) /\ v = whenSyncedAccount(NextAccount(b, c), c)
    <3> DEFINE n == NextAccount(b, c)
    <3>1. Ready(n, c)
      BY <2>3, NextAccountReady
    <3>2. SamePhases(n, b) /\ SameTasks(n, b)
      BY <1>2, NextAccountFacts DEF CallsOK
    <3> HIDE DEF n
    <3>3. SameIdle(n, b) /\ NoNew(n, b)
      BY <3>2, TasksNoNew DEF SameIdle, SamePhases
    <3>4. SameIdle(v, n) /\ NoNew(v, n)
      BY <2>3, <3>1, AccountFrame, TasksNoNew DEF n
    <3> QED
      BY <3>3, <3>4, FrameChain
  <2>4. CASE Ready(b, c) /\ v = EndAll(Opens(b, c), c)
    <3> DEFINE n == Opens(b, c)
    <3>1. Ready(n, c)
      BY <2>4, OpensReady
    <3>2. SamePhases(n, b) /\ SameTasks(n, b)
      BY <1>2, OpensFacts DEF CallsOK, SameCalls
    <3> HIDE DEF n
    <3>3. SameIdle(n, b) /\ NoNew(n, b)
      BY <3>2, TasksNoNew DEF SameIdle, SamePhases
    <3>4. SameIdle(v, n) /\ NoNew(v, n)
      BY <2>4, <3>1, EndFrame, TasksNoNew DEF n
    <3> QED
      BY <3>3, <3>4, FrameChain
  <2> QED
    BY <1>2, <1>5, <2>1, <2>2, <2>3, <2>4, EndBlockCases
<1>9. SameIdle(v, w) /\ NoNew(v, w)
  BY <1>7, <1>8, FrameChain
<1>10. At(v, c, x) \notin Fetching
  <2>1. ASSUME At(v, c, x) \in Fetching PROVE FALSE
    <3>1. Task(v, c, x) = Task(b, c, x)
      BY <1>8, <2>1 DEF NoNew
    <3>2. At(v, c, x) = At(b, c, x)
      BY <3>1, TaskAt
    <3> QED
      BY <1>6, <2>1, <3>2
  <2> QED
    BY <2>1
<1> QED
  BY <1>1, <1>9, <1>10

(***************************************************************************)
(* The invariant of the wallet.                                            *)
(***************************************************************************)

OneOnly(w) == \A c, d \in Calls : Phase(w, c) # "idle" /\ Phase(w, d) # "idle" => c = d

WalletOK(w, n) ==
  /\ CallsOK(w) /\ Busy(w)
  /\ n <= 2 => TwoOK(w)
  /\ n <= 1 => OneOnly(w)

LEMMA OneFrame ==
  ASSUME NEW v, NEW w, SameIdle(v, w), OneOnly(w)
  PROVE  OneOnly(v)
BY DEF SameIdle, OneOnly

\* An address in hand asks the explorer.
Asks(v, w, c, x, t) ==
  /\ Task(v, c, x) = t
  /\ \A d \in Calls : \A y \in Addresses : (d # c \/ y # x) => Task(v, d, y) = Task(w, d, y)
  /\ Placed(v, w) /\ SamePhases(v, w) /\ SameFresh(v, w)
  /\ \A d : (Has(v, d, All) <=> Has(w, d, All)) /\ (Between(v, d) <=> Between(w, d))

LEMMA AsksAgain ==
  ASSUME NEW w, NEW n, WalletOK(w, n), NEW c \in Calls, NEW x \in Addresses,
         At(w, c, x) \in Fetching, NEW t \in Tasks, t.phase \in Fetching
  PROVE  WalletOK(SetTask(w, c, x, t), n) /\ Asks(SetTask(w, c, x, t), w, c, x, t)
<1> DEFINE v == SetTask(w, c, x, t)
<1>1. w \in Wallets /\ Apart(w.micro) /\ CallsOK(w) /\ Busy(w) /\ CallOK(w, c)
  BY DEF WalletOK, CallsOK
<1>2. /\ v \in Wallets /\ v.syncing = w.syncing /\ SameMicro(v, w) /\ SameFresh(v, w)
      /\ Placed(v, w) /\ SamePhases(v, w)
      /\ \A d \in Calls : \A y \in Addresses :
           Task(v, d, y) = IF d = c /\ y = x THEN t ELSE Task(w, d, y)
  BY <1>1, SetTaskFacts
<1> HIDE DEF v
<1>3. \A d, g : Has(v, d, g) <=> Has(w, d, g)
  BY <1>2 DEF SameMicro, Has
<1>4. At(v, c, x) \in Fetching /\ Apart(v.micro)
  BY <1>1, <1>2 DEF At, Task, SameMicro
<1>5. \A d \in Calls : \A y \in Addresses : (d # c \/ y # x) => At(v, d, y) = At(w, d, y)
  BY <1>2, TaskAt
<1>6. ~Has(w, c, Address(x)) /\ At(w, c, x) \in Held
  BY <1>1 DEF CallOK, Fetching, Held
<1>7. \A d \in Calls, g \in Gates : Has(v, d, g) <=> Has(w, d, g) /\ ~(d = c /\ g = Address(x))
  BY <1>3, <1>6
<1>8. CallsOK(v) /\ Busy(v)
  BY <1>1, <1>2, <1>4, <1>5, <1>6, <1>7, AsksOK
<1>9. ASSUME TwoOK(w) PROVE TwoOK(v)
  <2>1. v.syncing = w.syncing \cup {Address(x)}
    BY <1>2, <1>9 DEF TwoOK, GatesShut
  <2> QED
    BY <1>1, <1>2, <1>4, <1>5, <1>6, <1>7, <1>9, <2>1, AsksTwo
<1>10. SameIdle(v, w)
  BY <1>2 DEF SamePhases, SameIdle
<1>11. WalletOK(v, n)
  BY <1>8, <1>9, <1>10, OneFrame DEF WalletOK
<1>12. Asks(v, w, c, x, t)
  <2>1. \A d : (Has(v, d, All) <=> Has(w, d, All)) /\ (Between(v, d) <=> Between(w, d))
    BY <1>3 DEF Between
  <2> QED
    BY <1>2, <2>1 DEF Asks
<1> QED
  BY <1>11, <1>12 DEF v

\* The next microtask comes through the gate of an address.
LEMMA PassAddressFacts ==
  ASSUME NEW n, WalletOK(wallet, n), Passes("address"), NEW t \in Tasks, t.phase \in Fetching
  PROVE  LET c == Head(wallet.micro).call
             x == Head(wallet.micro).gate.key
             v == SetTask(Passed, c, x, t)
         IN  /\ c \in Calls /\ x \in Addresses /\ At(wallet, c, x) = "starts"
             /\ WalletOK(v, n) /\ Asks(v, wallet, c, x, t)
<1> DEFINE w == wallet
           c == Head(w.micro).call
           g == Head(w.micro).gate
           x == g.key
           u == Passed
           v == SetTask(u, c, x, t)
<1>1. w \in Wallets /\ CallsOK(w) /\ Busy(w) /\ w.micro # <<>> /\ g.type = "address"
  BY DEF WalletOK, CallsOK, Passes
<1>2. /\ c \in Calls /\ g \in Gates /\ Has(w, c, g)
      /\ u \in Wallets /\ u.syncing = w.syncing \cup {g}
      /\ Apart(u.micro) /\ SameFresh(u, w) /\ SameCalls(u, w)
      /\ \A d, h : Has(u, d, h) <=> Has(w, d, h) /\ ~(d = c /\ h = g)
  BY <1>1, PassedFacts
<1>3. x \in Addresses /\ g = Address(x)
  BY <1>1, <1>2, TypeGates
<1> HIDE DEF w, c, g, x, u
<1>4. /\ v \in Wallets /\ v.syncing = u.syncing /\ SameMicro(v, u) /\ SameFresh(v, u)
      /\ Placed(v, u) /\ SamePhases(v, u)
      /\ \A d \in Calls : \A y \in Addresses :
           Task(v, d, y) = IF d = c /\ y = x THEN t ELSE Task(u, d, y)
  BY <1>2, <1>3, SetTaskFacts
<1> HIDE DEF v
<1>5. At(w, c, x) = "starts"
  BY <1>1, <1>2, <1>3 DEF CallsOK, CallOK
<1>6. \A d, h : Has(v, d, h) <=> Has(w, d, h) /\ ~(d = c /\ h = Address(x))
  BY <1>2, <1>3, <1>4 DEF SameMicro, Has
<1>7. Placed(v, w) /\ SamePhases(v, w) /\ SameFresh(v, w)
  BY <1>2, <1>4 DEF SameCalls, Placed, SamePhases, SameFresh
<1>8. /\ Task(v, c, x) = t
      /\ \A d \in Calls : \A y \in Addresses : (d # c \/ y # x) => Task(v, d, y) = Task(w, d, y)
  BY <1>2, <1>3, <1>4 DEF SameCalls, SameTasks
<1>9. At(v, c, x) \in Fetching /\ Apart(v.micro)
  BY <1>2, <1>4, <1>8 DEF At, Task, SameMicro
<1>10. \A d \in Calls : \A y \in Addresses : (d # c \/ y # x) => At(v, d, y) = At(w, d, y)
  BY <1>8, TaskAt
<1>11. At(w, c, x) \in Held
  BY <1>5 DEF Held
<1>12. CallsOK(v) /\ Busy(v)
  BY <1>1, <1>2, <1>3, <1>4, <1>6, <1>7, <1>9, <1>10, <1>11, AsksOK
<1>13. ASSUME TwoOK(w) PROVE TwoOK(v)
  <2>1. v.syncing = w.syncing \cup {Address(x)}
    BY <1>2, <1>3, <1>4
  <2> QED
    BY <1>1, <1>2, <1>3, <1>6, <1>7, <1>9, <1>10, <1>11, <1>13, <2>1, AsksTwo
<1>14. SameIdle(v, w)
  BY <1>7 DEF SamePhases, SameIdle
<1>15. WalletOK(v, n)
  BY <1>12, <1>13, <1>14, OneFrame DEF WalletOK, w
<1>16. Asks(v, w, c, x, t)
  <2>1. \A d : (Has(v, d, All) <=> Has(w, d, All)) /\ (Between(v, d) <=> Between(w, d))
    BY <1>6, GateFacts DEF Between
  <2> QED
    BY <1>7, <1>8, <2>1 DEF Asks
<1> QED
  BY <1>2, <1>3, <1>5, <1>15, <1>16 DEF v, w, c, g, x, u

LEMMA PassAllFacts ==
  ASSUME NEW n, WalletOK(wallet, n), Passes("all")
  PROVE  LET c == Head(wallet.micro).call
             u == [Passed EXCEPT !.freshAddressIndex = 0]
             v == whenSyncedAccount(u, c)
         IN  /\ c \in Calls /\ Has(wallet, c, All) /\ Ready(u, c)
             /\ SameCalls(u, wallet) /\ u.freshAddressIndex = 0
             /\ \A d, h : Has(u, d, h) <=> Has(wallet, d, h) /\ ~(d = c /\ h = All)
             /\ WalletOK(v, n) /\ SameIdle(v, wallet) /\ SameTasks(v, wallet)
<1> DEFINE w == wallet
           c == Head(w.micro).call
           g == Head(w.micro).gate
           p == Passed
           u == [p EXCEPT !.freshAddressIndex = 0]
           v == whenSyncedAccount(u, c)
<1>1. w \in Wallets /\ CallsOK(w) /\ Busy(w) /\ w.micro # <<>> /\ g.type = "all"
  BY DEF WalletOK, CallsOK, Passes
<1>2. /\ c \in Calls /\ g \in Gates /\ Has(w, c, g)
      /\ p \in Wallets /\ Apart(p.micro) /\ SameCalls(p, w)
      /\ \A d, h : Has(p, d, h) <=> Has(w, d, h) /\ ~(d = c /\ h = g)
  BY <1>1, PassedFacts
<1>3. g = All
  BY <1>1, <1>2, TypeGates
<1>4. Ready(p, c)
  BY <1>1, <1>3, PassReady
<1>5. n <= 2 => TwoOK(p) /\ NoAccount(p)
  BY <1>1, <1>3, PassTwo DEF WalletOK
<1> HIDE DEF p, c, g
<1>6. /\ u \in Wallets /\ u.syncing = p.syncing /\ u.micro = p.micro /\ u.calls = p.calls
      /\ u.freshAddressIndex = 0 /\ u.freshAddress = p.freshAddress
  <2> DEFINE z == 0
  <2>1. z \in Nat /\ u = [p EXCEPT !.freshAddressIndex = z]
    OBVIOUS
  <2> HIDE DEF z, u
  <2> QED
    BY <1>2, <2>1, FreshIndexFacts DEF z
<1> HIDE DEF u
<1>7. SameCalls(u, p) /\ \A d, h : Has(u, d, h) <=> Has(p, d, h)
  BY <1>6, SameState
<1>8. \A d \in Calls : SameCall(u, p, d)
  BY <1>7, TaskAt DEF SameCall, SameCalls, Placed, SamePhases, SameTasks
<1>9. Ready(u, c)
  <2>1. Phase(p, c) = "running" /\ IndexOf(p, c) + GAP <= MaxIndex + 1
    BY <1>4 DEF Ready
  <2> QED
    BY <1>2, <1>4, <1>6, <1>8, <2>1, ReadyFrame DEF SameCall
<1>10. ASSUME n <= 2 PROVE TwoOK(u) /\ NoAccount(u)
  <2>1. NoAccount(u)
    BY <1>5, <1>6, <1>10 DEF NoAccount
  <2>2. TwoOK(u)
    BY <1>2, <1>5, <1>6, <1>7, <1>10, <2>1, TaskAt, TwoFrame DEF SameCalls, SamePhases, SameTasks
  <2> QED
    BY <2>1, <2>2
<1>11. CallsOK(v) /\ Busy(v) /\ (n <= 2 => TwoOK(v))
  BY <1>2, <1>9, <1>10, ReadyAccountOK, ReadyAccountTwo
<1>12. SameIdle(v, u) /\ SameTasks(v, u)
  BY <1>2, <1>9, AccountFrame
<1> HIDE DEF v
<1>13. SameCalls(u, w)
  BY <1>2, <1>7 DEF SameCalls, Placed, SamePhases, SameTasks
<1>14. SameIdle(v, w) /\ SameTasks(v, w)
  BY <1>12, <1>13 DEF SameIdle, SameCalls, SamePhases, SameTasks
<1>15. WalletOK(v, n)
  BY <1>11, <1>14, OneFrame DEF WalletOK, w
<1> QED
  BY <1>2, <1>3, <1>6, <1>7, <1>9, <1>13, <1>14, <1>15 DEF v, w, c, g, u, p

LEMMA PassAccountFacts ==
  ASSUME NEW n, WalletOK(wallet, n), Passes("account")
  PROVE  LET c == Head(wallet.micro).call
             u == [Passed EXCEPT !.calls[c].index = 0]
             v == StartBlock(u, c)
         IN  /\ c \in Calls /\ Ready(u, c) /\ Between(wallet, c)
             /\ u.freshAddressIndex = wallet.freshAddressIndex
             /\ SamePhases(u, wallet) /\ SameTasks(u, wallet)
             /\ \A d \in Calls : AccountOf(u, d) = AccountOf(wallet, d)
             /\ IndexOf(u, c) = 0 /\ \A d \in Calls \ {c} : IndexOf(u, d) = IndexOf(wallet, d)
             /\ \A d \in Calls \ {c} : \A h : Has(u, d, h) <=> Has(wallet, d, h)
             /\ \A d : Has(u, d, All) <=> Has(wallet, d, All)
             /\ WalletOK(v, n) /\ SameIdle(v, wallet) /\ NoNew(v, wallet)
<1> DEFINE w == wallet
           c == Head(w.micro).call
           g == Head(w.micro).gate
           p == Passed
           i == 0
           u == [p EXCEPT !.calls[c].index = i]
           v == StartBlock(u, c)
<1>1. w \in Wallets /\ CallsOK(w) /\ Busy(w) /\ w.micro # <<>> /\ g.type = "account"
  BY DEF WalletOK, CallsOK, Passes
<1>2. /\ c \in Calls /\ g \in Gates /\ Has(w, c, g)
      /\ p \in Wallets /\ Apart(p.micro) /\ SameCalls(p, w) /\ SameFresh(p, w)
      /\ \A d, h : Has(p, d, h) <=> Has(w, d, h) /\ ~(d = c /\ h = g)
  BY <1>1, PassedFacts
<1>3. \E a \in Accounts : g = Account(a)
  BY <1>1, <1>2, TypeGates
<1>4. Ready(p, c)
  BY <1>1, <1>3, PassReady
<1>5. n <= 2 => TwoOK(p)
  BY <1>1, <1>3, PassTwo DEF WalletOK
<1> DEFINE a == AccountOf(p, c)
<1>6. a \in Accounts /\ i \in Nat
  BY <1>2, WalletFacts
<1>7. u = [p EXCEPT !.calls[c].index = i]
  OBVIOUS
<1> HIDE DEF p, c, g, u, i, a
<1>8. /\ u \in Wallets /\ u.syncing = p.syncing /\ SameMicro(u, p) /\ SameFresh(u, p)
      /\ SamePhases(u, p) /\ SameTasks(u, p)
      /\ AccountOf(u, c) = a /\ IndexOf(u, c) = i
      /\ \A d \in Calls \ {c} : AccountOf(u, d) = AccountOf(p, d) /\ IndexOf(u, d) = IndexOf(p, d)
  BY <1>2, <1>6, <1>7, SetPlaceFacts DEF a
<1>9. \A d, h : Has(u, d, h) <=> Has(p, d, h)
  BY <1>8 DEF SameMicro, Has
<1>10. \A d \in Calls \ {c} : SameCall(u, p, d)
  BY <1>8, <1>9, TaskAt DEF SameCall, SamePhases, SameTasks
<1>11. Ready(u, c)
  <2>1. Phase(p, c) = "running"
    BY <1>4 DEF Ready
  <2>2. IndexOf(u, c) + GAP <= MaxIndex + 1
    BY <1>8, XpubAssumption DEF i
  <2>3. Apart(u.micro) /\ Phase(u, c) = "running" /\ \A y \in Addresses : At(u, c, y) = At(p, c, y)
    BY <1>2, <1>8, <2>1, TaskAt DEF SameMicro, SamePhases, SameTasks
  <2> QED
    BY <1>2, <1>4, <1>8, <1>9, <1>10, <2>2, <2>3, ReadyFrame
<1>12. \A d \in Calls : AccountOf(u, d) = AccountOf(p, d)
  BY <1>8 DEF a
<1>13. n <= 2 => TwoOK(u)
  BY <1>2, <1>5, <1>8, <1>9, <1>12, TaskAt, TwoFrame DEF SamePhases, SameTasks
<1>14. CallsOK(v) /\ Busy(v) /\ (n <= 2 => TwoOK(v)) /\ SameIdle(v, u) /\ NoNew(v, u)
  BY <1>2, <1>11, <1>13, ReadyStartOK, ReadyStartTwo, StartFrame
<1> HIDE DEF v
<1>15. SamePhases(u, w) /\ SameTasks(u, w) /\ SameFresh(u, w)
  BY <1>2, <1>8 DEF SameCalls, SamePhases, SameTasks, SameFresh
<1>16. SameIdle(v, w) /\ NoNew(v, w)
  <2>1. SameIdle(u, w) /\ NoNew(u, w)
    BY <1>15, TasksNoNew DEF SameIdle, SamePhases
  <2> QED
    BY <1>14, <2>1, FrameChain
<1>17. WalletOK(v, n)
  BY <1>14, <1>16, OneFrame DEF WalletOK, w
<1>18. Between(w, c)
  BY <1>2, <1>3 DEF Between
<1>19. /\ \A d \in Calls \ {c} : \A h : Has(u, d, h) <=> Has(w, d, h)
       /\ \A d : Has(u, d, All) <=> Has(w, d, All)
  BY <1>2, <1>3, <1>9, GateFacts
<1>20. /\ \A d \in Calls : AccountOf(u, d) = AccountOf(w, d)
       /\ \A d \in Calls \ {c} : IndexOf(u, d) = IndexOf(w, d)
  BY <1>2, <1>8, <1>12 DEF SameCalls, Placed
<1>21. u.freshAddressIndex = w.freshAddressIndex /\ IndexOf(u, c) = 0
  BY <1>8, <1>15 DEF SameFresh, i
<1> QED
  BY <1>2, <1>11, <1>15, <1>16, <1>17, <1>18, <1>19, <1>20, <1>21 DEF v, w, c, g, u, p, i

LEMMA EndWallet ==
  ASSUME NEW w, NEW n, WalletOK(w, n), NEW c \in Calls, NEW x \in Addresses, At(w, c, x) = "fetch",
         NEW found \in {"used", "unused"},
         IndexOf(EndAddress(w, c, x, found), c) + GAP <= MaxIndex + 1
  PROVE  LET v == EndAddress(w, c, x, found)
         IN  WalletOK(v, n) /\ SameIdle(v, w) /\ NoNew(v, w) /\ At(v, c, x) \notin Fetching
<1> DEFINE v == EndAddress(w, c, x, found)
<1>1. CallsOK(w) /\ Busy(w)
  BY DEF WalletOK
<1>2. CallsOK(v) /\ Busy(v) /\ (TwoOK(w) => TwoOK(v))
  BY <1>1, EndAddressOK, EndAddressTwo
<1>3. SameIdle(v, w) /\ NoNew(v, w) /\ At(v, c, x) \notin Fetching
  BY <1>1, EndAddressFrame
<1> HIDE DEF v
<1>4. WalletOK(v, n)
  BY <1>2, <1>3, OneFrame DEF WalletOK
<1> QED
  BY <1>3, <1>4 DEF v

LEMMA FailWallet ==
  ASSUME NEW w, NEW n, WalletOK(w, n), NEW c \in Calls, NEW x \in Addresses, At(w, c, x) \in Fetching
  PROVE  LET v == FailAddress(w, c, x)
         IN  WalletOK(v, n) /\ SameIdle(v, w) /\ NoNew(v, w)
<1> DEFINE v == FailAddress(w, c, x)
<1>1. w \in Wallets /\ CallsOK(w) /\ Busy(w)
  BY DEF WalletOK, CallsOK
<1>2. CallsOK(v) /\ Busy(v) /\ (TwoOK(w) => TwoOK(v))
  BY <1>1, FailOK, FailTwo
<1>3. /\ \A d \in Calls : Phase(v, d) =
           IF d = c /\ Phase(w, c) = "running" THEN "failed" ELSE Phase(w, d)
      /\ At(v, c, x) = "failed"
      /\ \A d \in Calls : \A y \in Addresses :
           (d # c \/ y # x) => Task(v, d, y) = Task(w, d, y)
  BY <1>1, FailFacts
<1> HIDE DEF v
<1>4. SameIdle(v, w)
  BY <1>3 DEF SameIdle
<1>5. NoNew(v, w)
  BY <1>3 DEF NoNew, Fetching
<1>6. WalletOK(v, n)
  BY <1>2, <1>4, OneFrame DEF WalletOK
<1> QED
  BY <1>4, <1>5, <1>6 DEF v

LEMMA JoinWallet ==
  ASSUME NEW w, NEW n \in Nat, WalletOK(w, n), NEW c \in Calls, Phase(w, c) = "idle", w.micro = <<>>,
         n <= 2 => \A d, e \in Calls \ {c} : Phase(w, d) # "idle" /\ Phase(w, e) # "idle" => d = e,
         n <= 1 => \A d \in Calls \ {c} : Phase(w, d) = "idle"
  PROVE  LET v == whenSyncedAll(w, c)
         IN  /\ WalletOK(v, n) /\ SameTasks(v, w)
             /\ \A d \in Calls \ {c} : Phase(v, d) = Phase(w, d)
             /\ AccountOf(w, c) = 0
             /\ Phase(v, c) = "waitsForAll" \/ (Phase(v, c) = "running" /\ Has(v, c, All))
             /\ Placed(v, w) /\ SameFresh(v, w)
             /\ \A d \in Calls \ {c} : \A g : Has(v, d, g) <=> Has(w, d, g)
<1> DEFINE v == whenSyncedAll(w, c)
           p == IF All \in w.syncing THEN "waitsForAll" ELSE "running"
<1>1. w \in Wallets /\ CallsOK(w) /\ Busy(w) /\ Apart(w.micro) /\ CallOK(w, c)
  BY DEF WalletOK, CallsOK
<1>2. ~Has(w, c, All) /\ AccountOf(w, c) = 0
  BY <1>1 DEF CallOK
<1>3. CallsOK(v) /\ Busy(v)
  BY <1>1, JoinsOK
<1>4. n <= 2 => TwoOK(v)
  BY <1>1, JoinsTwo DEF WalletOK
<1>5. p \in Phases /\ p \in {"waitsForAll", "running"}
  BY DEF Phases
<1>6. /\ SameTasks(v, w) /\ Placed(v, w) /\ SameFresh(v, w)
      /\ \A d \in Calls : Phase(v, d) = IF d = c THEN p ELSE Phase(w, d)
      /\ p = "running" => Has(v, c, All)
      /\ \A d \in Calls \ {c} : \A g : Has(v, d, g) <=> Has(w, d, g)
  <2>1. CASE All \in w.syncing
    <3>1. v = SetPhase(w, c, p) /\ p # "running"
      BY <2>1 DEF whenSyncedAll
    <3> HIDE DEF p, v
    <3> QED
      BY <1>1, <1>5, <3>1, PhaseIs
  <2>2. CASE All \notin w.syncing
    <3>1. v = Later(SetPhase(w, c, p), <<c>>, All) /\ p = "running"
      BY <2>2 DEF whenSyncedAll
    <3> HIDE DEF p, v
    <3> QED
      BY <1>1, <1>2, <1>5, <3>1, ComesTo, GateFacts
  <2> QED
    BY <2>1, <2>2
<1> HIDE DEF v, p
<1>7. n <= 1 => OneOnly(v)
  BY <1>6 DEF OneOnly
<1>8. WalletOK(v, n)
  BY <1>3, <1>4, <1>7 DEF WalletOK
<1>9. Phase(v, c) = "waitsForAll" \/ (Phase(v, c) = "running" /\ Has(v, c, All))
  BY <1>5, <1>6
<1> QED
  BY <1>2, <1>6, <1>8, <1>9 DEF v

\* A wallet in which calls are new or have failed.
Renewed(v, C) ==
  /\ v.syncing = {} /\ v.freshAddressIndex = 0
  /\ \A c \in Calls : /\ Phase(v, c) = IF c \in C THEN "failed" ELSE "idle"
                      /\ AccountOf(v, c) = 0 /\ IndexOf(v, c) = 0
                      /\ (\A x \in Addresses : At(v, c, x) = "none")
                      /\ \A g : ~Has(v, c, g)

LEMMA FreshWallet ==
  ASSUME NEW n, NEW C \in SUBSET Calls,
         n <= 2 => \A c, d, e \in C : c # d /\ c # e => d = e,
         n <= 1 => \A c, d \in C : c = d,
         NEW w, w = [Start EXCEPT !.calls = [c \in Calls |->
                       IF c \in C THEN [NewCall EXCEPT !.phase = "failed"] ELSE NewCall]]
  PROVE  WalletOK(w, n) /\ Renewed(w, C)
<1> DEFINE p(c) == IF c \in C THEN "failed" ELSE "idle"
           k(c) == [phase |-> p(c), account |-> 0, index |-> 0, tasks |-> [x \in Addresses |-> NoTask]]
           calls == [c \in Calls |-> k(c)]
           m == <<>>
           v == [syncing |-> {}, micro |-> m, freshAddressIndex |-> 0, freshAddress |-> -1, calls |-> calls]
           u == [Start EXCEPT !.calls = [c \in Calls |->
                   IF c \in C THEN [NewCall EXCEPT !.phase = "failed"] ELSE NewCall]]
<1>1. \A c \in Calls : (IF c \in C THEN [NewCall EXCEPT !.phase = "failed"] ELSE NewCall) = k(c)
  BY DEF NewCall
<1>2. u = v
  <2> DEFINE X == [c \in Calls |-> IF c \in C THEN [NewCall EXCEPT !.phase = "failed"] ELSE NewCall]
  <2>1. X = calls
    BY <1>1
  <2>2. u = [Start EXCEPT !.calls = X]
    OBVIOUS
  <2> HIDE DEF X, u, calls
  <2>3. u = [Start EXCEPT !.calls = calls]
    BY <2>1, <2>2
  <2> QED
    BY <2>3 DEF Start
<1>3. NoTask \in Tasks /\ NoTask.phase = "none"
  BY DEF NoTask, Tasks, Resting
<1>4. \A c \in Calls : k(c) \in CallStates
  BY <1>3 DEF CallStates, Phases, Accounts
<1>5. m \in Seq(Items) /\ ToSet(m) = {} /\ Apart(m)
  BY EmptyFacts DEF Apart
<1>6. calls \in [Calls -> CallStates] /\ \A c \in Calls : calls[c] = k(c)
  BY <1>4
<1> HIDE DEF calls, m, u
<1>7. /\ v \in Wallets /\ v.syncing = {} /\ v.micro = m /\ v.calls = calls /\ v.freshAddressIndex = 0
  BY <1>5, <1>6 DEF Wallets
<1> HIDE DEF v
<1>8. \A c \in Calls : /\ Phase(v, c) = p(c) /\ AccountOf(v, c) = 0 /\ IndexOf(v, c) = 0
                       /\ \A x \in Addresses : At(v, c, x) = "none"
  BY <1>3, <1>6, <1>7 DEF Phase, AccountOf, IndexOf, At
<1>9. \A c, g : ~Has(v, c, g)
  BY <1>5, <1>7 DEF Has
<1>10. \A c : ~Between(v, c)
  BY <1>9 DEF Between
<1>11. \A c \in Calls : p(c) \in {"failed", "idle"}
  OBVIOUS
<1>12. ASSUME NEW c \in Calls PROVE CallOK(v, c) /\ BusyAt(v, c)
  <2>1. 0 + GAP <= MaxIndex + 1
    BY XpubAssumption
  <2>2. Phase(v, c) \in {"failed", "idle"}
    BY <1>8, <1>11
  <2>3. CallOK(v, c)
    BY <1>8, <1>9, <1>10, <2>1, <2>2 DEF CallOK, Resting
  <2>4. BusyAt(v, c)
    BY <2>2 DEF BusyAt
  <2> QED
    BY <2>3, <2>4
<1>13. CallsOK(v) /\ Busy(v)
  BY <1>5, <1>7, <1>12 DEF CallsOK, Busy
<1>14. \A c \in Calls : Phase(v, c) = "failed" \/ Phase(v, c) = "idle"
  BY <1>8, <1>11
<1>15. ASSUME n <= 2 PROVE TwoOK(v)
  <2>1. Few(v)
    <3>1. ASSUME NEW c \in Calls, NEW d \in Calls, NEW e \in Calls, c # d, c # e, d # e
          PROVE  "idle" \in {Phase(v, c), Phase(v, d), Phase(v, e)}
      <4>1. ~(c \in C /\ d \in C /\ e \in C)
        BY <1>15, <3>1
      <4> QED
        BY <1>8, <4>1
    <3> QED
      BY <3>1 DEF Few
  <2>2. OneHolder(v)
    BY <1>8 DEF OneHolder, Held
  <2>3. GatesShut(v)
    BY <1>7, <1>8 DEF GatesShut, Fetching
  <2>4. OneRuns(v)
    BY <1>14 DEF OneRuns
  <2>5. Waits(v)
    BY <1>8, <1>14 DEF Waits
  <2>6. GatesOf(v)
    BY <1>7, <1>14 DEF GatesOf
  <2> QED
    BY <2>1, <2>2, <2>3, <2>4, <2>5, <2>6 DEF TwoOK
<1>16. ASSUME n <= 1 PROVE OneOnly(v)
  BY <1>8, <1>16 DEF OneOnly
<1>17. WalletOK(v, n)
  BY <1>13, <1>15, <1>16 DEF WalletOK
<1> QED
  BY <1>2, <1>7, <1>8, <1>9, <1>17 DEF u, Renewed

(***************************************************************************)
(* The chain.                                                              *)
(***************************************************************************)

ChainBlocks == [id : Nat \ {0}, tx : Txs \cup {"none"}]

\* A transaction is in one block, after those that it spends from, and no more pending.
ChainOK(c, p, n) ==
  /\ c \in Seq(ChainBlocks) /\ p \subseteq Txs /\ IsFiniteSet(p) /\ n \in Nat
  /\ \A h \in 1..Len(c) : c[h].id <= n /\ c[h].tx \notin p
  /\ \A g, h \in 1..Len(c) : c[g].tx = c[h].tx /\ c[g].tx \in Txs => g = h
  /\ \A h \in 1..Len(c) : c[h].tx \in Txs =>
       \A u \in Spends[c[h].tx] : \E g \in 1..Len(c) : g < h /\ c[g].tx = u[1]

LEMMA ExtendOK ==
  ASSUME NEW c, NEW p, NEW n, ChainOK(c, p, n), NEW t \in p \cup {"none"},
         t \in Txs => \A u \in Spends[t] : \E g \in 1..Len(c) : c[g].tx = u[1]
  PROVE  LET d == Append(c, [id |-> n + 1, tx |-> t])
         IN  /\ ChainOK(d, p \ {t}, n + 1)
             /\ Len(d) = Len(c) + 1 /\ d[Len(d)] = [id |-> n + 1, tx |-> t]
             /\ \A h \in 1..Len(c) : d[h] = c[h]
<1> DEFINE b == [id |-> n + 1, tx |-> t]
           d == Append(c, b)
           q == p \ {t}
<1>1. /\ c \in Seq(ChainBlocks) /\ p \subseteq Txs /\ IsFiniteSet(p) /\ n \in Nat
      /\ \A h \in 1..Len(c) : c[h].id <= n /\ c[h].tx \notin p
      /\ \A g, h \in 1..Len(c) : c[g].tx = c[h].tx /\ c[g].tx \in Txs => g = h
      /\ \A h \in 1..Len(c) : c[h].tx \in Txs =>
           \A u \in Spends[c[h].tx] : \E g \in 1..Len(c) : g < h /\ c[g].tx = u[1]
  BY DEF ChainOK
<1>2. "none" \notin Txs /\ (t \in Txs <=> t \in p)
  BY <1>1, XpubAssumption
<1>3. b \in ChainBlocks /\ b.id = n + 1 /\ b.tx = t
  BY <1>1 DEF ChainBlocks
<1>4. IsFiniteSet(q) /\ q \subseteq Txs
  <2>1. q \subseteq p
    OBVIOUS
  <2> QED
    BY <1>1, <2>1, FS_Subset
<1> HIDE DEF b, q
<1>5. /\ d \in Seq(ChainBlocks) /\ Len(c) \in Nat /\ Len(d) = Len(c) + 1 /\ d[Len(c) + 1] = b
      /\ \A h \in 1..Len(c) : d[h] = c[h]
  BY <1>1, <1>3
<1> HIDE DEF d
<1>6. \A h \in 1..Len(d) : h \in 1..Len(c) \/ (h = Len(c) + 1 /\ h \notin 1..Len(c))
  BY <1>5
<1>7. ASSUME NEW h \in 1..Len(d) PROVE d[h].id <= n + 1 /\ d[h].tx \notin q
  <2>1. CASE h \in 1..Len(c)
    <3>1. c[h] \in ChainBlocks
      BY <1>1, <2>1
    <3>2. c[h].id \in Nat /\ c[h].id <= n /\ c[h].tx \notin p
      BY <1>1, <2>1, <3>1 DEF ChainBlocks
    <3>3. d[h].id = c[h].id /\ d[h].tx = c[h].tx
      BY <1>5, <2>1
    <3>4. d[h].id <= n + 1
      BY <1>1, <3>2, <3>3
    <3> QED
      BY <3>2, <3>3, <3>4 DEF q
  <2>2. CASE h = Len(c) + 1
    BY <1>1, <1>3, <1>5, <2>2 DEF q
  <2> QED
    BY <1>6, <2>1, <2>2
<1>8. ASSUME NEW g \in 1..Len(d), NEW h \in 1..Len(d), d[g].tx = d[h].tx, d[g].tx \in Txs
      PROVE  g = h
  <2>1. CASE g \in 1..Len(c) /\ h \in 1..Len(c)
    BY <1>1, <1>5, <1>8, <2>1
  <2>2. CASE g = Len(c) + 1 /\ h \in 1..Len(c)
    BY <1>1, <1>2, <1>3, <1>5, <1>8, <2>2
  <2>3. CASE h = Len(c) + 1 /\ g \in 1..Len(c)
    BY <1>1, <1>2, <1>3, <1>5, <1>8, <2>3
  <2> QED
    BY <1>6, <2>1, <2>2, <2>3
<1>9. ASSUME NEW h \in 1..Len(d), d[h].tx \in Txs, NEW u \in Spends[d[h].tx]
      PROVE  \E g \in 1..Len(d) : g < h /\ d[g].tx = u[1]
  <2>1. \A g \in 1..Len(c) : g \in 1..Len(d) /\ d[g] = c[g] /\ g < Len(c) + 1
    BY <1>5
  <2>2. CASE h \in 1..Len(c)
    <3>1. PICK g \in 1..Len(c) : g < h /\ c[g].tx = u[1]
      BY <1>1, <1>5, <1>9, <2>2
    <3> QED
      BY <2>1, <3>1
  <2>3. CASE h = Len(c) + 1
    <3>1. d[h].tx = t
      BY <1>3, <1>5, <2>3
    <3>2. PICK g \in 1..Len(c) : c[g].tx = u[1]
      BY <1>9, <3>1
    <3> QED
      BY <2>1, <2>3, <3>2
  <2> QED
    BY <1>6, <2>2, <2>3
<1>10. n + 1 \in Nat
  BY <1>1
<1>11. ChainOK(d, q, n + 1)
  BY <1>4, <1>5, <1>7, <1>8, <1>9, <1>10 DEF ChainOK
<1> QED
  BY <1>5, <1>11 DEF d, b, q

LEMMA FrontOK ==
  ASSUME NEW c, NEW p, NEW n, ChainOK(c, p, n), c # <<>>
  PROVE  /\ ChainOK(Front(c), p \cup ({Last(c).tx} \cap Txs), n)
         /\ Len(Front(c)) = Len(c) - 1 /\ Len(c) \in Nat \ {0}
         /\ \A h \in 1..Len(Front(c)) : Front(c)[h] = c[h]
         /\ Last(c) = c[Len(c)]
<1> DEFINE d == Front(c)
           t == Last(c).tx
           q == p \cup ({t} \cap Txs)
<1>1. /\ c \in Seq(ChainBlocks) /\ p \subseteq Txs /\ IsFiniteSet(p) /\ n \in Nat
      /\ \A h \in 1..Len(c) : c[h].id <= n /\ c[h].tx \notin p
      /\ \A g, h \in 1..Len(c) : c[g].tx = c[h].tx /\ c[g].tx \in Txs => g = h
      /\ \A h \in 1..Len(c) : c[h].tx \in Txs =>
           \A u \in Spends[c[h].tx] : \E g \in 1..Len(c) : g < h /\ c[g].tx = u[1]
  BY DEF ChainOK
<1>2. /\ d \in Seq(ChainBlocks) /\ Len(c) \in Nat \ {0} /\ Len(d) = Len(c) - 1
      /\ \A h \in 1..Len(d) : d[h] = c[h]
      /\ Last(c) = c[Len(c)]
  <2>1. Len(c) \in Nat \ {0}
    BY <1>1
  <2>2. d = SubSeq(c, 1, Len(c) - 1)
    BY DEF Front
  <2> HIDE DEF d
  <2>a. \A i \in 1..(Len(c) - 1) : c[i] \in ChainBlocks
    BY <1>1, <2>1
  <2>b. 1 \in Int /\ Len(c) - 1 \in Int
    BY <2>1
  <2>3. d \in Seq(ChainBlocks)
    BY <2>2, <2>a, <2>b, SubSeqProperties
  <2> DEFINE k == Len(c) - 1
  <2>d. k \in Int /\ k = Len(c) - 1 /\ d = SubSeq(c, 1, k) /\ \A i \in 1..k : c[i] \in ChainBlocks
    BY <2>2, <2>a, <2>b
  <2> HIDE DEF k
  <2>e. /\ Len(SubSeq(c, 1, k)) = IF 1 <= k THEN k - 1 + 1 ELSE 0
        /\ \A i \in 1..(k - 1 + 1) : SubSeq(c, 1, k)[i] = c[1 + i - 1]
    BY <2>b, <2>d, SubSeqProperties
  <2>c. /\ Len(d) = IF 1 <= k THEN k - 1 + 1 ELSE 0
        /\ \A i \in 1..(k - 1 + 1) : d[i] = c[1 + i - 1]
    BY <2>d, <2>e
  <2>4. Len(d) = Len(c) - 1
    BY <2>1, <2>c, <2>d
  <2>5. ASSUME NEW h \in 1..Len(d) PROVE d[h] = c[h]
    <3>1. h \in 1..(k - 1 + 1) /\ 1 + h - 1 = h
      BY <2>1, <2>4, <2>5, <2>d
    <3> QED
      BY <2>c, <3>1
  <2> QED
    BY <2>1, <2>3, <2>4, <2>5 DEF Last
<1> HIDE DEF d
<1>3. q \subseteq Txs /\ IsFiniteSet(q)
  <2>1. {t} \cap Txs \subseteq {t} /\ IsFiniteSet({t})
    BY FS_EmptySet, FS_AddElement
  <2>2. IsFiniteSet({t} \cap Txs)
    BY <2>1, FS_Subset
  <2> QED
    BY <1>1, <2>2, FS_Union
<1>4. t = c[Len(c)].tx /\ Len(c) \in 1..Len(c)
  BY <1>2
<1> HIDE DEF t
<1>5. \A h \in 1..Len(d) : h \in 1..Len(c) /\ h # Len(c) /\ d[h] = c[h]
  BY <1>2
<1>6. \A h \in 1..Len(d) : d[h].id <= n /\ d[h].tx \notin q
  BY <1>1, <1>4, <1>5
<1>7. \A g, h \in 1..Len(d) : d[g].tx = d[h].tx /\ d[g].tx \in Txs => g = h
  BY <1>1, <1>5
<1>8. ASSUME NEW h \in 1..Len(d), d[h].tx \in Txs, NEW u \in Spends[d[h].tx]
      PROVE  \E g \in 1..Len(d) : g < h /\ d[g].tx = u[1]
  <2>1. PICK g \in 1..Len(c) : g < h /\ c[g].tx = u[1]
    BY <1>1, <1>5, <1>8
  <2>2. g \in 1..Len(d)
    BY <1>2, <2>1
  <2> QED
    BY <1>5, <2>1, <2>2
<1>9. ChainOK(d, q, n)
  BY <1>1, <1>2, <1>3, <1>6, <1>7, <1>8 DEF ChainOK
<1> QED
  BY <1>2, <1>9 DEF d, t

ChainInv == ChainOK(chain, pool, events)

LEMMA ChainInvType ==
  ASSUME ChainInv
  PROVE  ChainType /\ events \in Nat /\ DOMAIN chain = 1..Len(chain)
<1>1. ChainType /\ events \in Nat
  BY DEF ChainInv, ChainOK, ChainType, ChainBlocks
<1> QED
  BY <1>1, ChainFacts

\* What the moves of the chain keep: the blocks below one that is new.
Moved ==
  /\ ChainInv'
  /\ pool \cup (InChain \cap Txs) \subseteq pool' \cup (InChain' \cap Txs)
  /\ \/ chain' = chain /\ pool \subseteq pool'
     \/ \E n \in Nat : /\ Len(chain') = n + 1 /\ n <= Len(chain)
                       /\ chain'[n + 1].id = events + 1
                       /\ \A h \in 1..n : chain'[h] = chain[h]

LEMMA NewTxMoves ==
  ASSUME ChainInv, NewTx
  PROVE  Moved
<1>1. PICK t \in Txs \ (pool \cup InChain) : pool' = pool \cup {t} /\ chain' = chain /\ events' = events + 1
  BY DEF NewTx, ChainMoves
<1>2. DOMAIN chain = 1..Len(chain)
  BY ChainInvType
<1>3. ASSUME NEW h \in 1..Len(chain) PROVE chain[h].tx \in InChain
  BY <1>2, <1>3 DEF InChain
<1>4. IsFiniteSet(pool \cup {t})
  BY FS_AddElement DEF ChainInv, ChainOK
<1>5. ASSUME NEW h \in 1..Len(chain) PROVE chain[h].id <= events + 1
  <2>0. chain \in Seq(ChainBlocks)
    BY DEF ChainInv, ChainOK
  <2>a. chain[h] \in ChainBlocks
    BY <1>5, <2>0
  <2>1. chain[h].id \in Nat /\ chain[h].id <= events /\ events \in Nat
    BY <1>5, <2>a DEF ChainInv, ChainOK, ChainBlocks
  <2> QED
    BY <2>1
<1>6. ChainOK(chain, pool \cup {t}, events + 1)
  BY <1>1, <1>3, <1>4, <1>5 DEF ChainInv, ChainOK
<1>7. InChain' = InChain
  BY <1>1 DEF InChain
<1> QED
  BY <1>1, <1>6, <1>7 DEF Moved, ChainInv

LEMMA MineMoves ==
  ASSUME ChainInv, Mine
  PROVE  Moved
<1>1. PICK t \in pool : /\ \A u \in Spends[t] : u[1] \in InChain
                        /\ chain' = Append(chain, [id |-> events + 1, tx |-> t])
                        /\ pool' = pool \ {t} /\ events' = events + 1
  BY DEF Mine, ChainMoves
<1>2. DOMAIN chain = 1..Len(chain) /\ Len(chain) \in Nat /\ pool \subseteq Txs
  BY ChainInvType, ChainFacts DEF ChainType
<1>3. \A u \in Spends[t] : \E g \in 1..Len(chain) : chain[g].tx = u[1]
  BY <1>1, <1>2 DEF InChain
<1>4. /\ ChainOK(chain', pool', events')
      /\ Len(chain') = Len(chain) + 1 /\ chain'[Len(chain')] = [id |-> events + 1, tx |-> t]
      /\ \A h \in 1..Len(chain) : chain'[h] = chain[h]
  BY <1>1, <1>3, ExtendOK DEF ChainInv
<1>5. DOMAIN chain' = 1..Len(chain')
  BY <1>4 DEF ChainOK
<1>6. ASSUME NEW s \in pool \cup (InChain \cap Txs) PROVE s \in pool' \cup (InChain' \cap Txs)
  <2>1. CASE s = t
    <3>1. chain'[Len(chain')].tx = t /\ Len(chain') \in DOMAIN chain'
      BY <1>2, <1>4, <1>5
    <3> QED
      BY <1>2, <2>1, <3>1 DEF InChain
  <2>2. CASE s \in InChain \cap Txs
    <3>1. PICK h \in 1..Len(chain) : chain[h].tx = s
      BY <1>2, <2>2 DEF InChain
    <3>2. h \in DOMAIN chain' /\ chain'[h].tx = s
      BY <1>2, <1>4, <1>5, <3>1
    <3> QED
      BY <2>2, <3>2 DEF InChain
  <2>3. CASE s \in pool /\ s # t
    BY <1>1, <2>3
  <2> QED
    BY <1>6, <2>1, <2>2, <2>3
<1>7. \E n \in Nat : /\ Len(chain') = n + 1 /\ n <= Len(chain)
                     /\ chain'[n + 1].id = events + 1
                     /\ \A h \in 1..n : chain'[h] = chain[h]
  BY <1>2, <1>4
<1> QED
  BY <1>4, <1>6, <1>7 DEF Moved, ChainInv

LEMMA ReorganiseMoves ==
  ASSUME ChainInv, Reorganise
  PROVE  Moved
<1> DEFINE rest == Front(chain)
           free == pool \cup ({Last(chain).tx} \cap Txs)
           known == {rest[h].tx : h \in DOMAIN rest}
<1>1. PICK t \in {"none"} \cup {s \in free : \A u \in Spends[s] : u[1] \in known} :
        /\ chain' = Append(rest, [id |-> events + 1, tx |-> t])
        /\ pool' = free \ {t} /\ events' = events + 1
  BY DEF Reorganise, ChainMoves
<1>2. chain # <<>>
  BY DEF Reorganise
<1>3. /\ ChainOK(rest, free, events)
      /\ Len(rest) = Len(chain) - 1 /\ Len(chain) \in Nat \ {0}
      /\ \A h \in 1..Len(rest) : rest[h] = chain[h]
      /\ Last(chain) = chain[Len(chain)]
  BY <1>2, FrontOK DEF ChainInv
<1>4. /\ DOMAIN chain = 1..Len(chain) /\ DOMAIN rest = 1..Len(rest) /\ Len(rest) \in Nat
      /\ free \subseteq Txs /\ "none" \notin Txs
  BY <1>3, ChainInvType, XpubAssumption DEF ChainOK
<1>5. t \in free \cup {"none"}
        /\ (t \in Txs => \A u \in Spends[t] : \E g \in 1..Len(rest) : rest[g].tx = u[1])
  BY <1>1, <1>4
<1> HIDE DEF rest
<1>6. /\ ChainOK(chain', pool', events')
      /\ Len(chain') = Len(rest) + 1 /\ chain'[Len(chain')] = [id |-> events + 1, tx |-> t]
      /\ \A h \in 1..Len(rest) : chain'[h] = rest[h]
  BY <1>1, <1>3, <1>5, ExtendOK
<1>7. DOMAIN chain' = 1..Len(chain')
  BY <1>6 DEF ChainOK
<1>8. ASSUME NEW s \in pool \cup (InChain \cap Txs) PROVE s \in pool' \cup (InChain' \cap Txs)
  <2>1. s \in Txs
    BY <1>8 DEF ChainInv, ChainOK
  <2>2. CASE s = t
    <3>1. chain'[Len(chain')].tx = t /\ Len(chain') \in DOMAIN chain'
      BY <1>4, <1>6, <1>7
    <3> QED
      BY <2>1, <2>2, <3>1 DEF InChain
  <2>3. CASE s \in free /\ s # t
    BY <1>1, <2>3
  <2>4. CASE s \notin free
    <3>1. PICK h \in 1..Len(chain) : chain[h].tx = s
      BY <1>4, <1>8, <2>4 DEF InChain
    <3>2. h # Len(chain)
      BY <1>3, <2>1, <2>4, <3>1
    <3>3. h \in 1..Len(rest)
      BY <1>3, <3>1, <3>2
    <3>4. h \in DOMAIN chain' /\ chain'[h].tx = s
      BY <1>3, <1>4, <1>6, <1>7, <3>1, <3>3
    <3> QED
      BY <2>1, <3>4 DEF InChain
  <2> QED
    BY <2>2, <2>3, <2>4
<1>9. \E n \in Nat : /\ Len(chain') = n + 1 /\ n <= Len(chain)
                     /\ chain'[n + 1].id = events + 1
                     /\ \A h \in 1..n : chain'[h] = chain[h]
  <2>1. Len(rest) <= Len(chain)
    BY <1>3
  <2> QED
    BY <1>3, <1>4, <1>6, <2>1
<1> QED
  BY <1>6, <1>8, <1>9 DEF Moved, ChainInv

(***************************************************************************)
(* The types, the chain and the wallet.                                    *)
(***************************************************************************)

WalletInv == WalletOK(wallet, setting.calls)

Types == setting \in Settings /\ storage \in [Addresses -> Stores] /\ ChainInv /\ WalletInv

FetchTask(s) == [phase |-> "fetch", last |-> LastConfirmed(s), pending |-> <<>>]
CheckTask(s) == [phase |-> "check", last |-> LastConfirmed(s), pending |-> <<>>]

LEMMA SettingFacts ==
  ASSUME setting \in Settings
  PROVE  setting.calls \in Nat /\ setting.faults \in BOOLEAN /\ setting.events \in Nat
BY XpubAssumption

LEMMA NewTasks ==
  ASSUME NEW s \in Stores
  PROVE  /\ FetchTask(s) \in Tasks /\ FetchTask(s).phase = "fetch"
         /\ CheckTask(s) \in Tasks /\ CheckTask(s).phase = "check"
BY LastFacts DEF FetchTask, CheckTask, Tasks, Resting, Held

LEMMA TaskFacts ==
  ASSUME Types, NEW c \in Calls, NEW x \in Addresses
  PROVE  /\ wallet \in Wallets /\ CallsOK(wallet) /\ Busy(wallet) /\ storage[x] \in Stores
         /\ Task(wallet, c, x) \in Tasks /\ Task(wallet, c, x).last \in Entries \cup {NoTx}
         /\ Task(wallet, c, x).pending = <<>> /\ Task(wallet, c, x).phase = At(wallet, c, x)
<1>1. wallet \in Wallets /\ CallsOK(wallet) /\ Busy(wallet) /\ storage[x] \in Stores
  BY DEF Types, WalletInv, WalletOK, CallsOK
<1>2. Task(wallet, c, x) \in Tasks
  BY <1>1 DEF Wallets, CallStates, Task
<1>3. Task(wallet, c, x).last \in Entries \cup {NoTx} /\ Task(wallet, c, x).pending = <<>>
  BY <1>2 DEF Tasks
<1> QED
  BY <1>1, <1>2, <1>3 DEF Task, At

LEMMA CleanType ==
  ASSUME NEW s \in Stores, NEW x
  PROVE  CleanPendings(s, x) \in Stores
BY ConfirmedFacts, EmptyStore, AppendTxsFacts DEF CleanPendings, removePendingTxs

LEMMA PassAddressCases ==
  ASSUME Types, PassAddress
  PROVE  \E c \in Calls, x \in Addresses :
           /\ At(wallet, c, x) = "starts" /\ WalletInv'
           /\ \/ /\ LastConfirmed(storage[x]) # NoTx /\ storage' = storage
                 /\ Asks(wallet', wallet, c, x, CheckTask(storage[x]))
              \/ /\ LastConfirmed(storage[x]) = NoTx
                 /\ storage' = [storage EXCEPT ![x] = CleanPendings(storage[x], x)]
                 /\ Asks(wallet', wallet, c, x, FetchTask(CleanPendings(storage[x], x)))
<1> DEFINE c == Head(wallet.micro).call
           x == Head(wallet.micro).gate.key
           s == storage[x]
           r == CleanPendings(s, x)
<1>1. Passes("address") /\ WalletOK(wallet, setting.calls) /\ setting' = setting
  BY DEF PassAddress, Types, WalletInv
<1>2. CASE LastConfirmed(s) # NoTx
  <2>1. wallet' = SetTask(Passed, c, x, CheckTask(s)) /\ storage' = storage
    BY <1>2 DEF PassAddress, CheckTask
  <2>2. NoTask \in Tasks
    BY DEF NoTask, Tasks, Resting
  <2>3. c \in Calls /\ x \in Addresses /\ At(wallet, c, x) = "starts"
    <3>1. FetchTask(Empty) \in Tasks /\ FetchTask(Empty).phase \in Fetching
      BY NewTasks, EmptyStore DEF Fetching
    <3> HIDE DEF c, x
    <3> QED
      BY <1>1, <3>1, PassAddressFacts DEF c, x
  <2>4. s \in Stores
    BY <2>3 DEF Types
  <2>5. CheckTask(s) \in Tasks /\ CheckTask(s).phase \in Fetching
    BY <2>4, NewTasks DEF Fetching
  <2> HIDE DEF s
  <2>6. WalletOK(wallet', setting.calls) /\ Asks(wallet', wallet, c, x, CheckTask(s))
    BY <1>1, <2>1, <2>5, PassAddressFacts
  <2> QED
    BY <1>1, <1>2, <2>1, <2>3, <2>6 DEF s, WalletInv
<1>3. CASE LastConfirmed(s) = NoTx
  <2>1. wallet' = SetTask(Passed, c, x, FetchTask(r)) /\ storage' = [storage EXCEPT ![x] = r]
    BY <1>3 DEF PassAddress, FetchTask, BeginFetch
  <2>3. c \in Calls /\ x \in Addresses /\ At(wallet, c, x) = "starts"
    <3>1. FetchTask(Empty) \in Tasks /\ FetchTask(Empty).phase \in Fetching
      BY NewTasks, EmptyStore DEF Fetching
    <3> HIDE DEF c, x
    <3> QED
      BY <1>1, <3>1, PassAddressFacts DEF c, x
  <2>4. s \in Stores /\ r \in Stores
    BY <2>3, CleanType DEF Types
  <2>5. FetchTask(r) \in Tasks /\ FetchTask(r).phase \in Fetching
    BY <2>4, NewTasks DEF Fetching
  <2> HIDE DEF r
  <2>6. WalletOK(wallet', setting.calls) /\ Asks(wallet', wallet, c, x, FetchTask(r))
    BY <1>1, <2>1, <2>5, PassAddressFacts
  <2> QED
    BY <1>1, <1>3, <2>1, <2>3, <2>6 DEF r, WalletInv
<1> QED
  BY <1>2, <1>3

LEMMA CheckedCases ==
  ASSUME Types, NEW c \in Calls, NEW x \in Addresses, Checked(c, x)
  PROVE  LET s == CleanPendings(checkAddressReorg(storage[x], Task(wallet, c, x).last), x)
         IN  /\ At(wallet, c, x) = "check" /\ WalletInv' /\ s \in Stores
             /\ storage' = [storage EXCEPT ![x] = s]
             /\ Asks(wallet', wallet, c, x, FetchTask(s))
<1> DEFINE r == checkAddressReorg(storage[x], Task(wallet, c, x).last)
           s == CleanPendings(r, x)
<1>1. WalletOK(wallet, setting.calls) /\ setting' = setting /\ At(wallet, c, x) = "check"
  BY DEF Checked, Types, WalletInv, At
<1>2. wallet' = SetTask(wallet, c, x, FetchTask(s)) /\ storage' = [storage EXCEPT ![x] = s]
  BY DEF Checked, FetchTask, BeginFetch, Task
<1>3. r \in Stores
  BY TaskFacts, EmptyStore DEF checkAddressReorg
<1>4. s \in Stores
  BY <1>3, CleanType
<1>5. FetchTask(s) \in Tasks /\ FetchTask(s).phase \in Fetching
  BY <1>4, NewTasks DEF Fetching
<1> HIDE DEF s
<1>6. WalletOK(wallet', setting.calls) /\ Asks(wallet', wallet, c, x, FetchTask(s))
  BY <1>1, <1>2, <1>5, AsksAgain DEF Fetching
<1> QED
  BY <1>1, <1>2, <1>4, <1>6 DEF s, WalletInv

Taken(page, x) == appendTxs(storage[x], x, page.confirmed)
TakenAll(page, x) == appendTxs(Taken(page, x), x, page.pending)

\* An answer is stored: what is pending is only when the page is not full.
Answers(page, c, x) ==
  /\ At(wallet, c, x) = "fetch" /\ Known(Task(wallet, c, x).last)
  /\ page \in Pages(x, Task(wallet, c, x).last)
  /\ page.confirmed \in Seq(Entries) /\ page.pending \in Seq(Entries)
  /\ Taken(page, x) \in Stores /\ TakenAll(page, x) \in Stores
  /\ WalletInv'
  /\ \/ /\ Len(page.confirmed) = PageSize
        /\ storage' = [storage EXCEPT ![x] = Taken(page, x)]
        /\ Asks(wallet', wallet, c, x, FetchTask(Taken(page, x)))
     \/ /\ Len(page.confirmed) < PageSize
        /\ storage' = [storage EXCEPT ![x] = TakenAll(page, x)]
        /\ SameIdle(wallet', wallet) /\ NoNew(wallet', wallet)
        /\ At(wallet', c, x) \notin Fetching
        /\ \E found \in {"used", "unused"} :
             /\ wallet' = EndAddress(wallet, c, x, found)
             /\ IndexOf(wallet', c) + GAP <= MaxIndex + 1
             /\ found = "unused" <=> TakenAll(page, x).txs = <<>>

LEMMA FetchedCases ==
  ASSUME Types, NEW c \in Calls, NEW x \in Addresses, Fetched(c, x)
  PROVE  \E page \in Pages(x, Task(wallet, c, x).last) : Answers(page, c, x)
<1> DEFINE task == Task(wallet, c, x)
<1>1. /\ storage[x] \in Stores /\ task.last \in Entries \cup {NoTx} /\ task.pending = <<>>
      /\ CallsOK(wallet) /\ Busy(wallet)
  BY TaskFacts
<1>2. At(wallet, c, x) = "fetch" /\ Known(task.last) /\ setting' = setting
  BY DEF Fetched, At, Task
<1>3. PICK page \in Pages(x, task.last) :
        LET pending == IF task.pending = <<>> THEN page.pending ELSE task.pending
            full == Len(page.confirmed) + Len(page.pending) - Len(pending) >= PageSize
            s == appendTxs(storage[x], x, page.confirmed)
            all == appendTxs(s, x, pending)
        IN  \/ /\ full
               /\ storage' = [storage EXCEPT ![x] = s]
               /\ wallet' = BeginFetch(wallet, c, x, s, pending)
            \/ /\ ~full
               /\ storage' = [storage EXCEPT ![x] = all]
               /\ wallet' = EndAddress(wallet, c, x, IF all.txs = <<>> THEN "unused" ELSE "used")
  BY DEF Fetched, Task
<1>4. page \in Pages(x, task.last)
  OBVIOUS
<1> DEFINE pending == page.pending
           full == Len(page.confirmed) + Len(page.pending) - Len(pending) >= PageSize
           s == Taken(page, x)
           all == TakenAll(page, x)
           found == IF all.txs = <<>> THEN "unused" ELSE "used"
<1>5. \/ full /\ storage' = [storage EXCEPT ![x] = s] /\ wallet' = BeginFetch(wallet, c, x, s, pending)
      \/ ~full /\ storage' = [storage EXCEPT ![x] = all] /\ wallet' = EndAddress(wallet, c, x, found)
  BY <1>1, <1>3 DEF Taken, TakenAll
<1> HIDE DEF task
<1>6. ChainType
  BY ChainInvType DEF Types
<1>7. /\ ConfirmedPart(page, x, From(task.last), PageHeights(x, From(task.last)))
      /\ PendingPart(page, x)
  BY <1>1, <1>4, <1>6, PageFacts
<1>8. /\ page.confirmed \in Seq(Entries) /\ page.pending \in Seq(Entries)
      /\ Len(page.confirmed) <= PageSize /\ Len(page.confirmed) + Len(page.pending) <= PageSize
  BY <1>7 DEF ConfirmedPart, PendingPart
<1>9. /\ Len(page.confirmed) \in Nat /\ Len(page.pending) \in Nat /\ PageSize \in Nat
      /\ Len(pending) = Len(page.pending)
  BY <1>8, XpubAssumption
<1>10. /\ full => Len(page.confirmed) = PageSize /\ page.pending = <<>>
       /\ ~full => Len(page.confirmed) < PageSize
  <2> DEFINE k == Len(page.confirmed)
             p == Len(page.pending)
  <2>0. full <=> k + p - p >= PageSize
    OBVIOUS
  <2> HIDE DEF full, k, p
  <2>a. k \in Nat /\ p \in Nat /\ PageSize \in Nat /\ k <= PageSize /\ k + p <= PageSize
    BY <1>8, <1>9 DEF k, p
  <2>1. full => k = PageSize /\ p = 0
    BY <2>0, <2>a
  <2>2. ~full => k < PageSize
    BY <2>0, <2>a
  <2>3. Len(page.pending) = 0 => page.pending = <<>>
    BY <1>8, EmptySeq
  <2> QED
    BY <2>1, <2>2, <2>3 DEF k, p
<1> HIDE DEF full
<1>11. s \in Stores
  BY <1>1, <1>8, AppendTxsFacts DEF Taken
<1>12. all \in Stores
  <2> HIDE DEF s
  <2> QED
    BY <1>8, <1>11, AppendTxsFacts DEF TakenAll, s
<1>13. found \in {"used", "unused"} /\ (found = "unused" <=> all.txs = <<>>)
  OBVIOUS
<1> HIDE DEF s, all, found
<1>14. CASE full
  <2>1. storage' = [storage EXCEPT ![x] = s] /\ wallet' = SetTask(wallet, c, x, FetchTask(s))
    BY <1>5, <1>10, <1>14 DEF BeginFetch, FetchTask
  <2>2. FetchTask(s) \in Tasks /\ FetchTask(s).phase \in Fetching
    BY <1>11, NewTasks DEF Fetching
  <2>3. WalletOK(wallet', setting.calls) /\ Asks(wallet', wallet, c, x, FetchTask(s))
    BY <1>2, <2>1, <2>2, AsksAgain DEF Fetching, Types, WalletInv
  <2>4. WalletInv'
    BY <1>2, <2>3 DEF WalletInv
  <2>5. Answers(page, c, x)
    BY <1>2, <1>4, <1>8, <1>10, <1>11, <1>12, <1>14, <2>1, <2>3, <2>4 DEF Answers, s, all, task
  <2> QED
    BY <1>4, <2>5 DEF task
<1>15. CASE ~full
  <2>1. storage' = [storage EXCEPT ![x] = all] /\ wallet' = EndAddress(wallet, c, x, found)
    BY <1>5, <1>15
  <2>2. IndexOf(wallet', c) + GAP <= MaxIndex + 1
    BY DEF Fetched, IndexOf
  <2>3. /\ WalletOK(wallet', setting.calls) /\ SameIdle(wallet', wallet) /\ NoNew(wallet', wallet)
        /\ At(wallet', c, x) \notin Fetching
    BY <1>2, <1>13, <2>1, <2>2, EndWallet DEF Types, WalletInv
  <2>4. WalletInv'
    BY <1>2, <2>3 DEF WalletInv
  <2>5. \E f \in {"used", "unused"} :
             /\ wallet' = EndAddress(wallet, c, x, f)
             /\ IndexOf(wallet', c) + GAP <= MaxIndex + 1
             /\ f = "unused" <=> all.txs = <<>>
    BY <1>13, <2>1, <2>2
  <2>6. Answers(page, c, x)
    BY <1>2, <1>4, <1>8, <1>10, <1>11, <1>12, <1>15, <2>1, <2>3, <2>4, <2>5 DEF Answers, s, all, task
  <2> QED
    BY <1>4, <2>6 DEF task
<1> QED
  BY <1>14, <1>15

\* A step of the wallet that leaves the storage, and makes no request.
WalletStep ==
  /\ WalletInv' /\ NoNew(wallet', wallet)
  /\ UNCHANGED <<setting, storage, chain, pool, events>>

\* Of a set that has at most one member.
LEMMA AtMostOne ==
  ASSUME NEW S, IsFiniteSet(S), NEW d \in S, NEW e \in S, Cardinality(S) <= 1
  PROVE  d = e
<1>1. SUFFICES ASSUME d # e PROVE FALSE
  OBVIOUS
<1>2. IsFiniteSet({e}) /\ Cardinality({e}) = 1
  BY FS_Singleton
<1>3. Cardinality({e} \cup {d}) = 2
  BY <1>1, <1>2, FS_AddElement
<1>4. {e} \cup {d} \subseteq S
  OBVIOUS
<1>5. Cardinality({e} \cup {d}) <= Cardinality(S)
  BY <1>4, FS_Subset
<1>6. Cardinality(S) \in Nat
  BY FS_CardinalityType
<1> QED
  BY <1>3, <1>5, <1>6

LEMMA SyncCases ==
  ASSUME Types, NEW c \in Calls, sync(c)
  PROVE  /\ WalletStep /\ SameTasks(wallet', wallet) /\ Phase(wallet, c) = "idle"
         /\ \A d \in Calls \ {c} : Phase(wallet', d) = Phase(wallet, d)
         /\ AccountOf(wallet, c) = 0 /\ wallet.micro = <<>>
         /\ Phase(wallet', c) = "waitsForAll" \/ (Phase(wallet', c) = "running" /\ Has(wallet', c, All))
         /\ Placed(wallet', wallet) /\ SameFresh(wallet', wallet)
         /\ \A d \in Calls \ {c} : \A g : Has(wallet', d, g) <=> Has(wallet, d, g)
<1> DEFINE n == setting.calls
<1>1. n \in Nat /\ WalletOK(wallet, n) /\ Phase(wallet, c) = "idle" /\ wallet.micro = <<>>
  BY SettingFacts DEF Types, WalletInv, sync, Quiescent, Phase
<1>2. \A d \in Calls : d \in Begun <=> Phase(wallet, d) # "idle"
  BY DEF Begun, Phase
<1>3. Begun \subseteq Calls /\ IsFiniteSet(Begun)
  BY XpubAssumption, FS_Subset DEF Begun
<1>4. Cardinality(Begun) \in Nat /\ Cardinality(Begun) < n
  BY <1>3, FS_CardinalityType DEF sync
<1>5. n <= 2 => \A d, e \in Calls \ {c} : Phase(wallet, d) # "idle" /\ Phase(wallet, e) # "idle" => d = e
  BY <1>1, <1>2, <1>3, <1>4, AtMostOne
<1>6. n <= 1 => \A d \in Calls \ {c} : Phase(wallet, d) = "idle"
  <2>1. n <= 1 => Cardinality(Begun) = 0
    BY <1>1, <1>4
  <2>2. Cardinality(Begun) = 0 => Begun = {}
    BY <1>3, FS_EmptySet
  <2> QED
    BY <1>2, <2>1, <2>2
<1>7. wallet' = whenSyncedAll(wallet, c) /\ UNCHANGED <<setting, storage, chain, pool, events>>
  BY DEF sync
<1> HIDE DEF n
<1>8. /\ WalletOK(wallet', n) /\ SameTasks(wallet', wallet)
      /\ \A d \in Calls \ {c} : Phase(wallet', d) = Phase(wallet, d)
      /\ AccountOf(wallet, c) = 0
      /\ Phase(wallet', c) = "waitsForAll" \/ (Phase(wallet', c) = "running" /\ Has(wallet', c, All))
      /\ Placed(wallet', wallet) /\ SameFresh(wallet', wallet)
      /\ \A d \in Calls \ {c} : \A g : Has(wallet', d, g) <=> Has(wallet, d, g)
  BY <1>1, <1>5, <1>6, <1>7, JoinWallet
<1>9. WalletInv' /\ NoNew(wallet', wallet)
  BY <1>7, <1>8, TasksNoNew DEF WalletInv, n
<1> QED
  BY <1>1, <1>7, <1>8, <1>9 DEF WalletStep

LEMMA PassAllCases ==
  ASSUME Types, PassAll
  PROVE  WalletStep /\ SameTasks(wallet', wallet) /\ SameIdle(wallet', wallet)
<1>1. Passes("all") /\ WalletOK(wallet, setting.calls)
  BY DEF PassAll, Types, WalletInv
<1> DEFINE c == Head(wallet.micro).call
           v == whenSyncedAccount([Passed EXCEPT !.freshAddressIndex = 0], c)
<1>2. wallet' = v /\ UNCHANGED <<setting, storage, chain, pool, events>>
  BY DEF PassAll
<1>3. WalletOK(v, setting.calls) /\ SameIdle(v, wallet) /\ SameTasks(v, wallet)
  BY <1>1, PassAllFacts
<1> HIDE DEF v
<1> QED
  BY <1>2, <1>3, TasksNoNew DEF WalletStep, WalletInv

LEMMA PassAccountCases ==
  ASSUME Types, PassAccount
  PROVE  WalletStep /\ SameIdle(wallet', wallet)
<1>1. Passes("account") /\ WalletOK(wallet, setting.calls)
  BY DEF PassAccount, Types, WalletInv
<1> DEFINE c == Head(wallet.micro).call
           v == StartBlock([Passed EXCEPT !.calls[c].index = 0], c)
<1>2. wallet' = v /\ UNCHANGED <<setting, storage, chain, pool, events>>
  BY DEF PassAccount
<1>3. WalletOK(v, setting.calls) /\ SameIdle(v, wallet) /\ NoNew(v, wallet)
  BY <1>1, PassAccountFacts
<1> HIDE DEF v
<1> QED
  BY <1>2, <1>3 DEF WalletStep, WalletInv

LEMMA FailsCases ==
  ASSUME Types, NEW c \in Calls, NEW x \in Addresses, Fails(c, x)
  PROVE  WalletStep /\ SameIdle(wallet', wallet)
<1>1. /\ WalletOK(wallet, setting.calls) /\ At(wallet, c, x) \in Fetching
      /\ wallet' = FailAddress(wallet, c, x) /\ UNCHANGED <<setting, storage, chain, pool, events>>
  BY DEF Fails, Types, WalletInv, At, Fetching
<1>2. WalletOK(wallet', setting.calls) /\ SameIdle(wallet', wallet) /\ NoNew(wallet', wallet)
  BY <1>1, FailWallet
<1> QED
  BY <1>1, <1>2 DEF WalletStep, WalletInv

LEMMA RestartCases ==
  ASSUME Types, Restart
  PROVE  /\ WalletInv' /\ UNCHANGED <<setting, chain, pool, events>> /\ setting.faults
         /\ storage' = [x \in Addresses |-> [storage[x] EXCEPT !.spent = {}]]
         /\ storage' \in [Addresses -> Stores]
         /\ Renewed(wallet', Begun)
<1> DEFINE n == setting.calls
           v == [Start EXCEPT !.calls = [c \in Calls |->
                     IF c \in Begun THEN [NewCall EXCEPT !.phase = "failed"] ELSE NewCall]]
<1>1. WalletOK(wallet, n) /\ UNCHANGED <<setting, chain, pool, events>> /\ setting.faults /\ wallet' = v
      /\ storage' = [x \in Addresses |-> [storage[x] EXCEPT !.spent = {}]]
  BY DEF Restart, Types, WalletInv
<1>2. Begun \in SUBSET Calls /\ \A c \in Begun : Phase(wallet, c) # "idle"
  BY DEF Begun, Phase
<1>3. n <= 2 => \A c, d, e \in Begun : c # d /\ c # e => d = e
  BY <1>1, <1>2 DEF WalletOK, TwoOK, Few
<1>4. n <= 1 => \A c, d \in Begun : c = d
  BY <1>1, <1>2 DEF WalletOK, OneOnly
<1>5. WalletOK(v, n) /\ Renewed(v, Begun)
  BY <1>2, <1>3, <1>4, FreshWallet
<1> HIDE DEF v
<1>6. ASSUME NEW x \in Addresses PROVE [storage[x] EXCEPT !.spent = {}] \in Stores
  <2>1. storage[x] \in Stores
    BY DEF Types
  <2> QED
    BY <2>1 DEF Stores
<1>7. WalletInv' /\ storage' \in [Addresses -> Stores]
  BY <1>1, <1>5, <1>6 DEF WalletInv
<1> HIDE DEF n
<1> QED
  BY <1>1, <1>5, <1>7

LEMMA ChainCases ==
  ASSUME Types, NewTx \/ Mine \/ Reorganise
  PROVE  /\ Moved /\ UNCHANGED <<setting, wallet, storage>> /\ events' = events + 1
         /\ quiet' = "none" /\ events \in Nat /\ WalletInv'
<1>1. ChainMoves /\ Moved
  BY NewTxMoves, MineMoves, ReorganiseMoves DEF NewTx, Mine, Reorganise, Types
<1>2. UNCHANGED <<setting, wallet, storage>> /\ events' = events + 1 /\ quiet' = "none"
  BY <1>1 DEF ChainMoves
<1>3. events \in Nat
  BY ChainInvType DEF Types
<1> QED
  BY <1>1, <1>2, <1>3 DEF Types, WalletInv

LEMMA SameChain ==
  ASSUME Types, UNCHANGED <<chain, pool, events>>
  PROVE  ChainInv'
BY DEF Types, ChainInv

LEMMA InitTypes ==
  ASSUME XpubInit
  PROVE  Types /\ Renewed(wallet, {})
<1> DEFINE v == [Start EXCEPT !.calls = [c \in Calls |->
                     IF c \in {} THEN [NewCall EXCEPT !.phase = "failed"] ELSE NewCall]]
<1>1. v = Start
  BY DEF Start
<1>2. WalletOK(v, setting.calls) /\ Renewed(v, {})
  BY FreshWallet
<1> HIDE DEF v
<1>3. wallet = v
  BY <1>1 DEF XpubInit
<1>4. storage \in [Addresses -> Stores]
  BY EmptyStore DEF XpubInit
<1>5. IsFiniteSet(pool) /\ chain = <<>> /\ pool = {} /\ events = 0
  BY FS_EmptySet DEF XpubInit
<1>6. Len(<<>>) = 0 /\ <<>> \in Seq(ChainBlocks)
  OBVIOUS
<1>7. ChainInv
  BY <1>5, <1>6 DEF ChainInv, ChainOK
<1> QED
  BY <1>2, <1>3, <1>4, <1>7 DEF Types, WalletInv, XpubInit

LEMMA StepTypes ==
  ASSUME Types, [XpubNext]_xpubVars
  PROVE  Types'
<1>1. CASE WalletStep
  BY <1>1, SameChain DEF WalletStep, Types
<1>2. CASE PassAddress
  <2>1. UNCHANGED <<setting, chain, pool, events>>
    BY <1>2 DEF PassAddress
  <2>2. PICK c \in Calls, x \in Addresses :
          /\ WalletInv'
          /\ storage' = storage \/ storage' = [storage EXCEPT ![x] = CleanPendings(storage[x], x)]
    BY <1>2, PassAddressCases
  <2>3. storage[x] \in Stores
    BY DEF Types
  <2>4. CleanPendings(storage[x], x) \in Stores
    BY <2>3, CleanType
  <2>5. storage' \in [Addresses -> Stores]
    BY <2>2, <2>4 DEF Types
  <2> QED
    BY <2>1, <2>2, <2>5, SameChain DEF Types
<1>3. ASSUME NEW c \in Calls, NEW x \in Addresses, Checked(c, x) PROVE Types'
  <2>1. UNCHANGED <<setting, chain, pool, events>>
    BY <1>3 DEF Checked
  <2> DEFINE s == CleanPendings(checkAddressReorg(storage[x], Task(wallet, c, x).last), x)
  <2>2. WalletInv' /\ s \in Stores /\ storage' = [storage EXCEPT ![x] = s]
    BY <1>3, CheckedCases
  <2> HIDE DEF s
  <2>3. storage' \in [Addresses -> Stores]
    BY <2>2 DEF Types
  <2> QED
    BY <2>1, <2>2, <2>3, SameChain DEF Types
<1>4. ASSUME NEW c \in Calls, NEW x \in Addresses, Fetched(c, x) PROVE Types'
  <2>1. UNCHANGED <<setting, chain, pool, events>>
    BY <1>4 DEF Fetched
  <2>2. PICK page : Answers(page, c, x)
    BY <1>4, FetchedCases
  <2>3. storage' \in [Addresses -> Stores] /\ WalletInv'
    BY <2>2 DEF Answers, Types
  <2> QED
    BY <2>1, <2>3, SameChain DEF Types
<1>5. CASE Restart
  BY <1>5, RestartCases, SameChain DEF Types
<1>6. CASE NewTx \/ Mine \/ Reorganise
  BY <1>6, ChainCases DEF Types, Moved
<1>7. CASE UNCHANGED xpubVars
  BY <1>7, SameChain DEF xpubVars, Types, WalletInv
<1>8. ASSUME NEW c \in Calls, sync(c) PROVE WalletStep
  BY <1>8, SyncCases
<1>9. CASE PassAll \/ PassAccount
  BY <1>1, <1>9, PassAllCases, PassAccountCases
<1>10. ASSUME NEW c \in Calls, NEW x \in Addresses, Fails(c, x) PROVE WalletStep
  BY <1>10, FailsCases
<1>11. ASSUME NEW a \in Asked, Checked(a[1], a[2]) \/ Fetched(a[1], a[2]) \/ Fails(a[1], a[2])
       PROVE  Types'
  <2>1. a[1] \in Calls /\ a[2] \in Addresses
    BY DEF Asked
  <2> QED
    BY <1>1, <1>3, <1>4, <1>10, <1>11, <2>1
<1> QED
  BY <1>1, <1>2, <1>5, <1>6, <1>7, <1>8, <1>9, <1>11 DEF XpubNext, Micro, Answered

LEMMA NobodyWaits ==
  ASSUME Types
  PROVE  NobodyForgotten
<1>1. SUFFICES ASSUME Quiescent, Asked = {},
                      \/ setting.calls = 1
                      \/ /\ setting.calls = 2
                         /\ \A c \in Calls : \A x \in Addresses : wallet.calls[c].tasks[x].phase # "failed",
                      NEW c \in Begun, ~Over(c)
               PROVE  FALSE
  BY DEF NobodyForgotten
<1>2. /\ wallet \in Wallets /\ Busy(wallet) /\ (\A d \in Calls : CallOK(wallet, d))
      /\ Waits(wallet) /\ (setting.calls = 1 => OneOnly(wallet))
  BY <1>1 DEF Types, WalletInv, WalletOK, CallsOK, TwoOK
<1>3. \A d, g : ~Has(wallet, d, g)
  BY <1>1, EmptyFacts DEF Quiescent, Has
<1>4. ASSUME NEW d \in Calls PROVE ~\E e \in Calls \ {d} : HasFailed(wallet, e) /\ Phase(wallet, d) # "idle"
  <2>1. CASE setting.calls = 1
    BY <1>2, <2>1 DEF OneOnly, HasFailed
  <2>2. CASE \A e \in Calls : \A x \in Addresses : wallet.calls[e].tasks[x].phase # "failed"
    BY <2>2 DEF HasFailed, At
  <2> QED
    BY <1>1, <2>1, <2>2
<1>5. ASSUME NEW d \in Calls PROVE Phase(wallet, d) # "running"
  <2>1. SUFFICES ASSUME Phase(wallet, d) = "running" PROVE FALSE
    OBVIOUS
  <2>2. ~Between(wallet, d)
    BY <1>3 DEF Between
  <2>3. PICK x \in Block(wallet, d) : At(wallet, d, x) \notin Ended
    BY <1>2, <2>1, <2>2 DEF Busy, BusyAt
  <2>4. x \in Addresses
    BY <1>2, BlockFacts DEF CallOK
  <2>5. At(wallet, d, x) # "none"
    BY <1>2, <2>1, <2>2, <2>3, <2>4 DEF CallOK
  <2>6. At(wallet, d, x) # "starts"
    BY <1>2, <1>3, <2>4 DEF CallOK
  <2>7. At(wallet, d, x) \notin Fetching
    <3>1. <<d, x>> \in Calls \X Addresses /\ <<d, x>>[1] = d /\ <<d, x>>[2] = x
      BY <2>4
    <3>2. At(wallet, d, x) \in Fetching => <<d, x>> \in Asked
      BY <3>1 DEF Asked, At
    <3> QED
      BY <1>1, <3>2
  <2>8. At(wallet, d, x) # "waits"
    BY <1>2, <1>4, <2>1, <2>4 DEF Waits
  <2> QED
    BY <1>2, <2>3, <2>4, <2>5, <2>6, <2>7, <2>8, AtType DEF Resting, Held, Fetching, Ended
<1>6. c \in Calls /\ Phase(wallet, c) # "idle" /\ Phase(wallet, c) \notin {"done", "failed"}
  BY <1>1 DEF Begun, Over, Phase
<1>7. Phase(wallet, c) \in Phases
  BY <1>2, <1>6 DEF Wallets, CallStates, Phase
<1>8. Phase(wallet, c) # "waitsForAll"
  BY <1>2, <1>4, <1>5, <1>6 DEF Waits
<1>9. Phase(wallet, c) # "waitsForAccount"
  BY <1>2, <1>6 DEF Waits
<1> QED
  BY <1>5, <1>6, <1>7, <1>8, <1>9 DEF Phases

\* The fields of Xpub keep their types, and each call of sync() is at one place: waiting at
\* a gate, between two gates with a microtask, or at a block of addresses.
THEOREM TypesTheorem == XpubSpec => []Types
<1>1. XpubInit => Types
  BY InitTypes
<1>2. Types /\ [XpubNext]_xpubVars => Types'
  BY StepTypes
<1> QED
  BY <1>1, <1>2, PTL DEF XpubSpec

\* Nobody waits for what does not come.  The gates of xpub.ts are opened by whoever shut
\* them: when no microtask is left and no request is open, a call that is alone is over,
\* and of two calls both are when no request failed.
THEOREM NobodyTheorem == XpubSpec => []NobodyForgotten
<1>1. Types => NobodyForgotten
  BY NobodyWaits
<1> QED
  BY <1>1, TypesTheorem, PTL

(***************************************************************************)
(* What is stored and the chain.                                           *)
(***************************************************************************)

EntryIn(c, h) == [tx |-> c[h].tx, block |-> [height |-> h, id |-> c[h].id]]
HeightsIn(c, x) == {h \in 1..Len(c) : c[h].tx \in Txs /\ Touches(c[h].tx, x)}
KnownIn(c, last) ==
  last = NoTx \/ (IF last.block.height \in DOMAIN c THEN c[last.block.height].id ELSE 0) = last.block.id

LEMMA TheChain ==
  /\ \A h : Entry(h) = EntryIn(chain, h)
  /\ \A x : Heights(x) = HeightsIn(chain, x)
  /\ \A last : Known(last) <=> KnownIn(chain, last)
<1>1. ASSUME NEW last PROVE Known(last) <=> KnownIn(chain, last)
  BY DEF Known, KnownIn, BlockAt
<1> QED
  BY <1>1 DEF Entry, EntryIn, Heights, HeightsIn

LEMMA ChainInFacts ==
  ASSUME NEW c, NEW p, NEW n, ChainOK(c, p, n), NEW x
  PROVE  /\ Len(c) \in Nat /\ DOMAIN c = 1..Len(c) /\ n \in Nat
         /\ \A h \in HeightsIn(c, x) :
              /\ h \in 1..Len(c) /\ EntryIn(c, h) \in Entries /\ EntryIn(c, h).block # NoBlock
              /\ EntryIn(c, h).block.height = h /\ EntryIn(c, h).block.id \in 1..n
              /\ EntryIn(c, h).tx = c[h].tx /\ c[h].tx \in Txs
         /\ \A g, h \in HeightsIn(c, x) : EntryIn(c, g).tx = EntryIn(c, h).tx => g = h
<1>1. /\ c \in Seq(ChainBlocks) /\ n \in Nat
      /\ \A h \in 1..Len(c) : c[h].id <= n
      /\ \A g, h \in 1..Len(c) : c[g].tx = c[h].tx /\ c[g].tx \in Txs => g = h
  BY DEF ChainOK
<1>2. Len(c) \in Nat /\ DOMAIN c = 1..Len(c) /\ \A h \in 1..Len(c) : c[h] \in ChainBlocks
  BY <1>1
<1>3. \A h \in HeightsIn(c, x) : h \in 1..Len(c) /\ c[h].tx \in Txs
  BY DEF HeightsIn
<1>4. ASSUME NEW h \in HeightsIn(c, x)
      PROVE  /\ EntryIn(c, h) \in Entries /\ EntryIn(c, h).block # NoBlock
             /\ EntryIn(c, h).block.height = h /\ EntryIn(c, h).block.id \in 1..n
             /\ EntryIn(c, h).tx = c[h].tx
  <2>1. h \in 1..Len(c) /\ h \in Nat /\ c[h].tx \in Txs /\ c[h].id \in Nat /\ c[h].id # 0 /\ c[h].id <= n
    BY <1>1, <1>2, <1>3 DEF ChainBlocks
  <2>2. c[h].id \in 1..n
    BY <1>1, <2>1
  <2>3. EntryIn(c, h) = [tx |-> c[h].tx, block |-> [height |-> h, id |-> c[h].id]]
    BY DEF EntryIn
  <2> QED
    BY <2>1, <2>2, <2>3 DEF Entries, Blocks, NoBlock
<1> QED
  BY <1>1, <1>2, <1>3, <1>4

\* The blocks of an address up to one are stored, and no others.
UpTo(s, x, c, b) ==
  \A e : e \in Sure(s) <=> \E h \in HeightsIn(c, x) : h <= b /\ e = EntryIn(c, h)

\* While the last block that an address knows is in the chain, so are all the others.
Complete(s, x, c) ==
  LastConfirmed(s) # NoTx /\ KnownIn(c, LastConfirmed(s)) =>
    UpTo(s, x, c, LastConfirmed(s).block.height)

StoreIn(s, x, c, n) ==
  /\ Right(s, x) /\ Rising(s)
  /\ s.spent = {} \/ Exact(s, x)
  /\ \A e \in Sure(s) : e.block.height \in Nat \ {0} /\ e.block.id \in 1..n
  /\ Complete(s, x, c)

\* An address that asks has not changed since, and has nothing pending when it fetches.
TaskOK(task, s) ==
  /\ task.phase \in Fetching => task.last = LastConfirmed(s)
  /\ task.phase = "fetch" => Sure(s) = ToSet(s.txs)

LEMMA EmptyStoreIn ==
  ASSUME NEW x, NEW c, NEW n
  PROVE  StoreIn(Empty, x, c, n)
<1>1. Empty \in Stores /\ Right(Empty, x) /\ Empty.spent = {} /\ Sure(Empty) = {}
  BY EmptyStore DEF Sure, Empty
<1>2. LastConfirmed(Empty) = NoTx
  BY <1>1, LastFacts
<1>3. Rising(Empty)
  BY EmptyFacts DEF Rising, Empty
<1> QED
  BY <1>1, <1>2, <1>3 DEF StoreIn, Complete

\* Only the blocks that are stored matter.
LEMMA SameSure ==
  ASSUME NEW s \in Stores, NEW r \in Stores, NEW x, NEW c, NEW n, StoreIn(s, x, c, n),
         Sure(r) = Sure(s), LastConfirmed(r) = LastConfirmed(s),
         Right(r, x), Rising(r), r.spent = {} \/ Exact(r, x)
  PROVE  StoreIn(r, x, c, n)
BY DEF StoreIn, Complete, UpTo

LEMMA CleanStoreIn ==
  ASSUME NEW s \in Stores, NEW x, NEW c, NEW n, StoreIn(s, x, c, n)
  PROVE  LET r == CleanPendings(s, x)
         IN  StoreIn(r, x, c, n) /\ TaskOK(FetchTask(r), r)
<1> DEFINE r == CleanPendings(s, x)
<1>1. Right(s, x) /\ Rising(s) /\ (s.spent = {} \/ Exact(s, x))
  BY DEF StoreIn
<1>2. /\ r \in Stores /\ ToSet(r.txs) = Sure(s) /\ Sure(r) = Sure(s)
      /\ Right(r, x) /\ (r = s \/ Exact(r, x))
      /\ Rising(r) /\ LastConfirmed(r) = LastConfirmed(s)
  BY <1>1, CleanFacts
<1> HIDE DEF r
<1>3. StoreIn(r, x, c, n)
  BY <1>1, <1>2, SameSure
<1>4. TaskOK(FetchTask(r), r)
  BY <1>2 DEF TaskOK, FetchTask
<1> QED
  BY <1>3, <1>4 DEF r

\* The last block of what is stored is the last one there can be.
LEMMA LastUpTo ==
  ASSUME NEW c, NEW p, NEW n, ChainOK(c, p, n), NEW s \in Stores, NEW x, Rising(s), NEW b \in Nat,
         UpTo(s, x, c, b)
  PROVE  Complete(s, x, c)
<1>1. SUFFICES ASSUME LastConfirmed(s) # NoTx PROVE UpTo(s, x, c, LastConfirmed(s).block.height)
  BY DEF Complete
<1> DEFINE last == LastConfirmed(s)
<1>2. last \in Sure(s) /\ \A e \in Sure(s) : e = last \/ e.block.height < last.block.height
  BY <1>1, LastFacts
<1> HIDE DEF last
<1>3. PICK m \in HeightsIn(c, x) : m <= b /\ last = EntryIn(c, m)
  BY <1>2 DEF UpTo
<1>4. \A h \in HeightsIn(c, x) : EntryIn(c, h).block.height = h /\ h \in Nat
  BY ChainInFacts
<1>5. last.block.height = m /\ m \in Nat
  BY <1>3, <1>4
<1>6. ASSUME NEW h \in HeightsIn(c, x), h <= b PROVE h <= m
  <2>1. EntryIn(c, h) \in Sure(s)
    BY <1>6 DEF UpTo
  <2>2. EntryIn(c, h) = last \/ EntryIn(c, h).block.height < last.block.height
    BY <1>2, <2>1
  <2> QED
    BY <1>4, <1>5, <2>2
<1>7. ASSUME NEW h \in HeightsIn(c, x), h <= m PROVE h <= b
  BY <1>3, <1>4, <1>7
<1> QED
  BY <1>5, <1>6, <1>7 DEF UpTo, last

(***************************************************************************)
(* An answer of the explorer.                                              *)
(***************************************************************************)

\* What is spent was received: a block that spends comes after the one it spends from.
LEMMA UpToExact ==
  ASSUME NEW c, NEW p, NEW n, ChainOK(c, p, n), NEW s \in Stores, NEW x \in Addresses, NEW b \in Nat,
         UpTo(s, x, c, b), Sure(s) = ToSet(s.txs), s.spent = {} \/ Exact(s, x)
  PROVE  Exact(s, x)
<1>1. SUFFICES ASSUME s.spent = {}, NEW u \in Out(TxsOf(s), x) PROVE u \in In(TxsOf(s), x)
  BY DEF Exact
<1>2. PICK t \in TxsOf(s) : u \in SpentBy(t, x)
  BY <1>1 DEF Out
<1>3. t \in Txs /\ u \in Txs /\ <<u, x>> \in Spends[t]
  BY <1>2, StoreFacts DEF SpentBy
<1>4. x \in To[u]
  <2>1. <<u, x>>[1] = u /\ <<u, x>>[2] = x
    OBVIOUS
  <2>2. <<u, x>>[2] \in To[<<u, x>>[1]]
    BY <1>3, XpubAssumption
  <2> QED
    BY <2>1, <2>2
<1>5. PICK e \in ToSet(s.txs) : e.tx = t
  BY <1>2, StoreFacts
<1>6. PICK h \in HeightsIn(c, x) : h <= b /\ e = EntryIn(c, h)
  BY <1>5 DEF UpTo
<1>7. h \in 1..Len(c) /\ c[h].tx = t /\ Len(c) \in Nat
  BY <1>5, <1>6, ChainInFacts
<1>8. PICK g \in 1..Len(c) : g < h /\ c[g].tx = u
  <2>1. \E g \in 1..Len(c) : g < h /\ c[g].tx = <<u, x>>[1]
    BY <1>3, <1>7 DEF ChainOK
  <2> QED
    BY <2>1
<1>9. g \in HeightsIn(c, x)
  BY <1>3, <1>4, <1>8 DEF HeightsIn, Touches
<1>10. g <= b
  BY <1>6, <1>7, <1>8
<1>11. EntryIn(c, g) \in ToSet(s.txs) /\ EntryIn(c, g).tx = u
  BY <1>8, <1>9, <1>10, ChainInFacts DEF UpTo
<1>12. u \in TxsOf(s)
  BY <1>11, StoreFacts
<1> QED
  BY <1>4, <1>12 DEF In, Received

\* The height that an address has come to.
Reached(last) == IF last = NoTx THEN 0 ELSE last.block.height

\* s has all its blocks and is to have those of a page: PageFill(s, x, hs, c, b).
Filled(s, x, hs, c, b) ==
  \A h \in HeightsIn(c, x) : h <= b <=> h <= Reached(LastConfirmed(s)) \/ \E i \in 1..Len(hs) : hs[i] = h

\* The blocks of a page go on where those that are stored end.
LEMMA FilledFacts ==
  ASSUME NEW c, NEW p, NEW n, ChainOK(c, p, n), NEW s \in Stores, NEW x, NEW hs \in Seq(Nat),
         LastConfirmed(s) # NoTx => LastConfirmed(s).block.height \in Nat \ {0},
         \A i \in 1..Len(hs) : hs[i] \in HeightsIn(c, x) /\ hs[i] >= From(LastConfirmed(s)),
         \A i, j \in 1..Len(hs) : i < j => hs[i] < hs[j],
         Len(hs) <= PageSize,
         \A h \in HeightsIn(c, x) : h >= From(LastConfirmed(s)) =>
           (\E i \in 1..Len(hs) : hs[i] = h) \/ (Len(hs) = PageSize /\ hs[PageSize] < h)
  PROVE  LET b == IF Len(hs) = PageSize THEN hs[PageSize] ELSE Len(c)
         IN  b \in Nat /\ Filled(s, x, hs, c, b)
<1> DEFINE L == Reached(LastConfirmed(s))
           from == From(LastConfirmed(s))
           k == Len(hs)
           P == PageSize
           b == IF k = P THEN hs[P] ELSE Len(c)
           H == HeightsIn(c, x)
<1>1. L \in Nat /\ from \in Nat /\ L <= from /\ (from = L \/ (from = 1 /\ L = 0))
  BY DEF Reached, From
<1>2. P \in Nat /\ P >= 1 /\ k \in Nat /\ k <= P /\ Len(c) \in Nat
  BY XpubAssumption, ChainInFacts
<1>3. \A h \in H : h \in Nat /\ h >= 1 /\ h <= Len(c)
  <2>1. \A h \in H : h \in 1..Len(c)
    BY DEF HeightsIn
  <2> QED
    BY <1>2, <2>1
<1>4. /\ \A i \in 1..k : hs[i] \in H /\ hs[i] >= from
      /\ \A i, j \in 1..k : i < j => hs[i] < hs[j]
      /\ \A h \in H : h >= from => (\E i \in 1..k : hs[i] = h) \/ (k = P /\ hs[P] < h)
  OBVIOUS
<1> HIDE DEF L, from, k, P, H
<1>5. CASE k = P
  <2>1. b = hs[P] /\ P \in 1..k
    BY <1>2, <1>5
  <2>2. b \in H /\ b >= from /\ b \in Nat
    BY <1>3, <1>4, <2>1
  <2>3. ASSUME NEW h \in H, h <= b PROVE h <= L \/ \E i \in 1..k : hs[i] = h
    <3>1. CASE h >= from
      <4>1. ~(hs[P] < h)
        BY <1>3, <2>1, <2>2, <2>3
      <4> QED
        BY <1>4, <3>1, <4>1
    <3>2. CASE ~(h >= from)
      BY <1>1, <1>3, <3>2
    <3> QED
      BY <3>1, <3>2
  <2>4. ASSUME NEW h \in H, h <= L PROVE h <= b
    BY <1>1, <1>3, <2>2, <2>4
  <2>5. ASSUME NEW i \in 1..k PROVE hs[i] <= b
    <3>1. i = P \/ i < P
      BY <1>2, <1>5
    <3>2. hs[i] \in Nat
      BY <1>3, <1>4
    <3> QED
      BY <1>4, <2>1, <2>2, <3>1, <3>2
  <2>6. b \in Nat /\ \A h \in H : h <= b <=> h <= L \/ \E i \in 1..k : hs[i] = h
    BY <2>2, <2>3, <2>4, <2>5
  <2> QED
    BY <2>6 DEF Filled, L, k, H, P
<1>6. CASE k # P
  <2>1. b = Len(c)
    BY <1>6
  <2>2. ASSUME NEW h \in H PROVE h <= L \/ \E i \in 1..k : hs[i] = h
    <3>1. CASE h >= from
      BY <1>4, <1>6, <3>1
    <3>2. CASE ~(h >= from)
      BY <1>1, <1>3, <3>2
    <3> QED
      BY <3>1, <3>2
  <2>3. b \in Nat /\ \A h \in H : h <= b <=> h <= L \/ \E i \in 1..k : hs[i] = h
    BY <1>2, <1>3, <2>1, <2>2
  <2> QED
    BY <2>3 DEF Filled, L, k, H, P
<1> QED
  BY <1>5, <1>6

\* What is stored after the blocks of a page.
LEMMA ConfirmedStore ==
  ASSUME NEW c, NEW p, NEW n, ChainOK(c, p, n), NEW s \in Stores, NEW x \in Addresses,
         UpTo(s, x, c, Reached(LastConfirmed(s))), Sure(s) = ToSet(s.txs), Rising(s),
         NEW hs \in Seq(Nat), NEW b \in Nat, Filled(s, x, hs, c, b),
         \A i \in 1..Len(hs) : hs[i] \in HeightsIn(c, x) /\ hs[i] >= Reached(LastConfirmed(s)),
         \A i, j \in 1..Len(hs) : i < j => hs[i] < hs[j],
         NEW txs \in Seq(Entries), Len(txs) = Len(hs),
         \A i \in 1..Len(hs) : txs[i] = EntryIn(c, hs[i])
  PROVE  LET r == appendTxs(s, x, txs)
         IN  r \in Stores /\ Rising(r) /\ Sure(r) = ToSet(r.txs) /\ UpTo(r, x, c, b)
<1> DEFINE r == appendTxs(s, x, txs)
           L == Reached(LastConfirmed(s))
           k == Len(hs)
           H == HeightsIn(c, x)
           E(h) == EntryIn(c, h)
<1>1. r \in Stores /\ GrownBy(r, s, x, txs, k)
  BY AppendTxsFacts
<1> HIDE DEF r
<1>2. /\ \A h \in H : E(h).block # NoBlock /\ E(h).block.height = h /\ h \in Nat
      /\ \A g, h \in H : E(g).tx = E(h).tx => g = h
  BY ChainInFacts
<1>3. \A e : e \in ToSet(s.txs) <=> \E h \in H : h <= L /\ e = E(h)
  BY DEF UpTo
<1>4. \A i \in 1..k : hs[i] \in H /\ txs[i] = E(hs[i])
  OBVIOUS
<1>5. \A h \in H : h <= b <=> h <= L \/ \E i \in 1..k : hs[i] = h
  BY DEF Filled
<1> HIDE DEF L, k, H, E
<1>6. ASSUME NEW e \in ToSet(r.txs) PROVE \E h \in H : h <= b /\ e = E(h)
  <2>1. e \in ToSet(s.txs) \/ \E i \in 1..k : txs[i] = e
    BY <1>1 DEF GrownBy
  <2> QED
    BY <1>3, <1>4, <1>5, <2>1
<1>7. ASSUME NEW h \in H, h <= b PROVE E(h) \in ToSet(r.txs)
  <2>1. CASE h <= L
    BY <1>1, <1>3, <2>1 DEF GrownBy
  <2>2. CASE \E i \in 1..k : hs[i] = h
    <3>1. PICK i \in 1..k : txs[i] = E(h)
      BY <1>4, <2>2
    <3>2. E(h).tx \in TxsOf(r)
      BY <1>1, <3>1 DEF GrownBy
    <3>3. PICK e \in ToSet(r.txs) : e.tx = E(h).tx
      BY <1>1, <3>2, StoreFacts
    <3>4. PICK g \in H : e = E(g)
      BY <1>6
    <3>5. g = h
      BY <1>2, <3>3, <3>4
    <3> QED
      BY <3>3, <3>4, <3>5
  <2> QED
    BY <1>5, <1>7, <2>1, <2>2
<1>8. \A e \in ToSet(r.txs) : e.block # NoBlock
  BY <1>2, <1>6
<1>9. Sure(r) = ToSet(r.txs)
  BY <1>8 DEF Sure
<1>10. UpTo(r, x, c, b)
  BY <1>6, <1>7, <1>9 DEF UpTo, E, H
<1>11. ASSUME NEW d, NEW e, Before(r.txs, d, e), d.block # NoBlock, e.block # NoBlock
       PROVE  d.block.height < e.block.height
  <2>1. \/ Before(s.txs, d, e)
        \/ d \in ToSet(s.txs) /\ \E i \in 1..k : txs[i] = e /\ e.tx \notin TxsOf(s)
        \/ \E i, j \in 1..k : i < j /\ txs[i] = d /\ txs[j] = e
    BY <1>1, <1>11 DEF GrownBy
  <2>2. CASE Before(s.txs, d, e)
    BY <1>11, <2>2 DEF Rising
  <2>3. CASE d \in ToSet(s.txs) /\ \E i \in 1..k : txs[i] = e /\ e.tx \notin TxsOf(s)
    <3>1. PICK h \in H : h <= L /\ d = E(h)
      BY <1>3, <2>3
    <3>2. PICK i \in 1..k : txs[i] = e /\ e.tx \notin TxsOf(s)
      BY <2>3
    <3>3. hs[i] \in H /\ e = E(hs[i]) /\ hs[i] >= L
      BY <1>4, <3>2 DEF L, k
    <3>4. hs[i] # h
      BY <2>3, <3>1, <3>2, <3>3, StoreFacts
    <3>5. L \in Nat
      <4>1. LastConfirmed(s) \in Entries \cup {NoTx}
        BY LastFacts
      <4> QED
        BY <4>1 DEF L, Reached, Entries, Blocks
    <3> QED
      BY <1>2, <3>1, <3>3, <3>4, <3>5
  <2>4. CASE \E i, j \in 1..k : i < j /\ txs[i] = d /\ txs[j] = e
    <3>1. PICK i \in 1..k, j \in 1..k : i < j /\ txs[i] = d /\ txs[j] = e
      BY <2>4
    <3>2. hs[i] < hs[j]
      BY <3>1 DEF k
    <3> QED
      BY <1>2, <1>4, <3>1, <3>2
  <2> QED
    BY <2>1, <2>2, <2>3, <2>4
<1>12. Rising(r)
  BY <1>11 DEF Rising
<1> QED
  BY <1>1, <1>9, <1>10, <1>12 DEF r

\* What is pending comes after the blocks and changes nothing of them.
LEMMA PendingStore ==
  ASSUME NEW s \in Stores, Rising(s), NEW x, NEW txs \in Seq(Entries),
         \A i \in 1..Len(txs) : txs[i].block = NoBlock
  PROVE  LET r == appendTxs(s, x, txs)
         IN  r \in Stores /\ Rising(r) /\ Sure(r) = Sure(s) /\ LastConfirmed(r) = LastConfirmed(s)
<1> DEFINE r == appendTxs(s, x, txs)
           k == Len(txs)
<1>1. r \in Stores /\ GrownBy(r, s, x, txs, k)
  BY AppendTxsFacts
<1> HIDE DEF r
<1>2. Sure(r) = Sure(s)
  <2>1. \A e \in Sure(r) : e \in Sure(s)
    BY <1>1 DEF GrownBy, Sure
  <2>2. \A e \in Sure(s) : e \in Sure(r)
    BY <1>1 DEF GrownBy, Sure
  <2> QED
    BY <2>1, <2>2
<1>3. ASSUME NEW d, NEW e, Before(r.txs, d, e), d.block # NoBlock, e.block # NoBlock
      PROVE  d.block.height < e.block.height
  <2>1. Before(s.txs, d, e)
    BY <1>1, <1>3 DEF GrownBy
  <2> QED
    BY <1>3, <2>1 DEF Rising
<1>4. Rising(r)
  BY <1>3 DEF Rising
<1> QED
  BY <1>1, <1>2, <1>4, LastIs DEF r

\* What an answer leaves: all the blocks when the page is not full.
LEMMA AnswerStore ==
  ASSUME Types, NEW x \in Addresses, NEW s \in Stores, StoreIn(s, x, chain, events),
         Known(LastConfirmed(s)), Sure(s) = ToSet(s.txs), NEW page \in Pages(x, LastConfirmed(s))
  PROVE  LET r == appendTxs(s, x, page.confirmed)
             q == appendTxs(r, x, page.pending)
         IN  /\ StoreIn(r, x, chain, events) /\ Exact(r, x) /\ Sure(r) = ToSet(r.txs) /\ r \in Stores
             /\ StoreIn(q, x, chain, events) /\ Exact(q, x) /\ Sure(q) = Sure(r) /\ q \in Stores
             /\ Len(page.confirmed) < PageSize => UpTo(r, x, chain, Len(chain))
<1> DEFINE last == LastConfirmed(s)
           hs == PageHeights(x, From(last))
           r == appendTxs(s, x, page.confirmed)
           q == appendTxs(r, x, page.pending)
           b == IF Len(hs) = PageSize THEN hs[PageSize] ELSE Len(chain)
           L == Reached(last)
<1>1. ChainOK(chain, pool, events) /\ ChainType
  BY ChainInvType DEF Types, ChainInv
<1>2. last \in Entries \cup {NoTx}
  BY LastFacts
<1>3. /\ Right(s, x) /\ Rising(s) /\ (s.spent = {} \/ Exact(s, x))
      /\ (\A e \in Sure(s) : e.block.height \in Nat \ {0}) /\ Complete(s, x, chain)
  BY DEF StoreIn
<1>4. last # NoTx => last.block.height \in Nat \ {0}
  BY <1>3, LastFacts
<1>5. page \in Pages(x, last)
  OBVIOUS
<1>6. UpTo(s, x, chain, L)
  <2>1. CASE last = NoTx
    <3>1. Sure(s) = {} /\ L = 0
      BY <2>1, LastFacts DEF Reached
    <3>2. \A h \in HeightsIn(chain, x) : h \in Nat /\ ~(h <= 0)
      <4>1. \A h \in HeightsIn(chain, x) : h \in 1..Len(chain)
        BY DEF HeightsIn
      <4> QED
        BY <4>1
    <3> QED
      BY <3>1, <3>2 DEF UpTo
  <2>2. CASE last # NoTx
    BY <1>3, <2>2, TheChain DEF Complete, Reached
  <2> QED
    BY <2>1, <2>2
<1>7. L \in Nat
  BY <1>4 DEF Reached
<1> HIDE DEF last, r, q
<1>8. ConfirmedPart(page, x, From(last), hs) /\ PendingPart(page, x)
  BY <1>1, <1>2, <1>5, PageFacts
<1> HIDE DEF hs
<1>9. /\ page.confirmed \in Seq(Entries) /\ hs \in Seq(Nat)
      /\ Len(hs) = Len(page.confirmed) /\ Len(hs) <= PageSize
      /\ \A i \in 1..Len(hs) : page.confirmed[i] = EntryIn(chain, hs[i])
      /\ \A i \in 1..Len(hs) : hs[i] \in HeightsIn(chain, x) /\ hs[i] >= From(last)
      /\ \A i, j \in 1..Len(hs) : i < j => hs[i] < hs[j]
      /\ \A h \in HeightsIn(chain, x) : h >= From(last) =>
           (\E i \in 1..Len(hs) : hs[i] = h) \/ (Len(hs) = PageSize /\ hs[PageSize] < h)
  BY <1>8, TheChain DEF ConfirmedPart
<1>10. b \in Nat /\ Filled(s, x, hs, chain, b)
  BY <1>1, <1>4, <1>9, FilledFacts DEF last
<1>11. \A i \in 1..Len(hs) : hs[i] \in HeightsIn(chain, x) /\ hs[i] >= L
  <2>1. ASSUME NEW i \in 1..Len(hs) PROVE hs[i] >= L
    <3>1. hs[i] \in Nat /\ hs[i] >= From(last)
      BY <1>9
    <3>2. From(last) = L \/ L = 0
      BY DEF From, Reached
    <3> QED
      BY <1>7, <3>1, <3>2
  <2> QED
    BY <1>9, <2>1
<1> HIDE DEF b, L
<1>12. r \in Stores /\ Rising(r) /\ Sure(r) = ToSet(r.txs) /\ UpTo(r, x, chain, b)
  BY <1>1, <1>3, <1>6, <1>9, <1>10, <1>11, ConfirmedStore DEF L, last, r
<1>13. Exact(s, x)
  BY <1>1, <1>3, <1>6, <1>7, UpToExact
<1>14. Right(r, x) /\ Exact(r, x)
  BY <1>3, <1>9, <1>13, AppendTxsRight DEF r
<1>15. StoreIn(r, x, chain, events)
  <2>1. Complete(r, x, chain)
    BY <1>1, <1>10, <1>12, LastUpTo
  <2>2. \A e \in Sure(r) : e.block.height \in Nat \ {0} /\ e.block.id \in 1..events
    <3>1. \A e \in Sure(r) : \E h \in HeightsIn(chain, x) : e = EntryIn(chain, h)
      BY <1>12 DEF UpTo
    <3>2. \A h \in HeightsIn(chain, x) : h \in Nat \ {0}
      <4>1. \A h \in HeightsIn(chain, x) : h \in 1..Len(chain)
        BY DEF HeightsIn
      <4> QED
        BY <4>1
    <3>3. \A h \in HeightsIn(chain, x) :
            EntryIn(chain, h).block.height = h /\ EntryIn(chain, h).block.id \in 1..events
      BY <1>1, ChainInFacts
    <3> QED
      BY <3>1, <3>2, <3>3
  <2> QED
    BY <1>12, <1>14, <2>1, <2>2 DEF StoreIn
<1>16. page.pending \in Seq(Entries) /\ \A i \in 1..Len(page.pending) : page.pending[i].block = NoBlock
  <2>1. \A t : Unconfirmed(t).block = NoBlock
    BY DEF Unconfirmed
  <2> QED
    BY <1>8, <2>1 DEF PendingPart
<1>17. q \in Stores /\ Rising(q) /\ Sure(q) = Sure(r) /\ LastConfirmed(q) = LastConfirmed(r)
  BY <1>12, <1>16, PendingStore DEF q
<1>18. Right(q, x) /\ Exact(q, x)
  BY <1>12, <1>14, <1>16, AppendTxsRight DEF q
<1>19. StoreIn(q, x, chain, events)
  BY <1>12, <1>15, <1>17, <1>18, SameSure
<1>20. Len(page.confirmed) < PageSize => UpTo(r, x, chain, Len(chain))
  <2>1. Len(page.confirmed) < PageSize => b = Len(chain)
    <3>1. Len(page.confirmed) \in Nat /\ PageSize \in Nat
      BY <1>9, XpubAssumption
    <3>2. Len(page.confirmed) < PageSize => Len(hs) # PageSize
      BY <1>9, <3>1
    <3> QED
      BY <3>2 DEF b
  <2> QED
    BY <1>12, <2>1
<1> QED
  BY <1>12, <1>14, <1>15, <1>17, <1>18, <1>19, <1>20 DEF q, r

\* The chain moves: what knows a block that is still there is below the new one.
LEMMA MovedStore ==
  ASSUME Types, Moved, events' = events + 1, NEW x, NEW s \in Stores, StoreIn(s, x, chain, events)
  PROVE  StoreIn(s, x, chain', events')
<1> DEFINE last == LastConfirmed(s)
           c == chain'
<1>1. events \in Nat /\ DOMAIN chain = 1..Len(chain) /\ Len(chain) \in Nat
  BY ChainInvType, ChainFacts DEF Types
<1>2. \A e \in Sure(s) : e.block.height \in Nat \ {0} /\ e.block.id \in 1..events
  BY DEF StoreIn
<1>3. \A e \in Sure(s) : e.block.height \in Nat \ {0} /\ e.block.id \in 1..events'
  BY <1>1, <1>2
<1>4. ASSUME last # NoTx, KnownIn(c, last) PROVE UpTo(s, x, c, last.block.height)
  <2>1. CASE c = chain
    BY <1>4, <2>1 DEF StoreIn, Complete
  <2>2. CASE \E n \in Nat : /\ Len(chain') = n + 1 /\ n <= Len(chain)
                       /\ chain'[n + 1].id = events + 1
                       /\ \A h \in 1..n : chain'[h] = chain[h]
    <3>1. PICK n \in Nat : /\ Len(c) = n + 1 /\ n <= Len(chain)
                           /\ c[n + 1].id = events + 1
                           /\ \A h \in 1..n : c[h] = chain[h]
      BY <2>2
    <3>2. DOMAIN c = 1..(n + 1)
      <4>1. c \in Seq(ChainBlocks)
        BY DEF Moved, ChainInv, ChainOK
      <4> QED
        BY <3>1, <4>1
    <3> HIDE DEF c
    <3>3. last \in Sure(s)
      BY <1>4, LastFacts
    <3> DEFINE m == last.block.height
               i == last.block.id
    <3>4. m \in Nat \ {0} /\ i \in 1..events
      BY <1>2, <3>3
    <3>5. (IF m \in DOMAIN c THEN c[m].id ELSE 0) = i
      BY <1>4 DEF KnownIn
    <3> HIDE DEF m, i
    <3>6. m \in 1..(n + 1) /\ c[m].id = i
      BY <3>2, <3>4, <3>5
    <3>7. i # events + 1
      BY <1>1, <3>4
    <3>8. m \in 1..n
      BY <3>1, <3>4, <3>6, <3>7
    <3>9. m \in DOMAIN chain /\ chain[m].id = i
      BY <1>1, <3>1, <3>6, <3>8
    <3>10. KnownIn(chain, last)
      BY <3>9 DEF KnownIn, m, i
    <3>11. UpTo(s, x, chain, m)
      BY <1>4, <3>10 DEF StoreIn, Complete, m
    <3>12. \A h : h \in HeightsIn(c, x) /\ h <= m <=> h \in HeightsIn(chain, x) /\ h <= m
      <4>1. ASSUME NEW h, h <= m, h \in 1..Len(c) \/ h \in 1..Len(chain)
            PROVE  h \in 1..Len(c) /\ h \in 1..Len(chain) /\ c[h] = chain[h]
        BY <1>1, <3>1, <3>8, <4>1
      <4> QED
        BY <4>1 DEF HeightsIn
    <3>13. ASSUME NEW h \in HeightsIn(chain, x), h <= m PROVE EntryIn(c, h) = EntryIn(chain, h)
      <4>1. h \in 1..Len(chain)
        BY DEF HeightsIn
      <4>2. c[h] = chain[h]
        BY <1>1, <3>1, <3>8, <3>13, <4>1
      <4> QED
        BY <4>2 DEF EntryIn
    <3>14. UpTo(s, x, c, m)
      BY <3>11, <3>12, <3>13 DEF UpTo
    <3> QED
      BY <3>14 DEF m
  <2> QED
    BY <2>1, <2>2 DEF Moved
<1> QED
  BY <1>3, <1>4 DEF StoreIn, Complete

\* f holds what the chain c has, and the tasks of the wallet w know what f holds.
Keeps(f, w, c, n) ==
  \A x \in Addresses : /\ StoreIn(f[x], x, c, n)
                       /\ \A d \in Calls : TaskOK(Task(w, d, x), f[x])

KeepsInv == setting.calls <= 2 => Keeps(storage, wallet, chain, events)

\* Without failures no input is forgotten.
ExactInv == ~setting.faults => \A x \in Addresses : Right(storage[x], x) /\ Exact(storage[x], x)

LEMMA TaskAtIs ==
  ASSUME NEW w, NEW c, NEW x
  PROVE  Task(w, c, x).phase = At(w, c, x)
BY DEF Task, At

LEMMA KeepsTask ==
  ASSUME NEW v, NEW w, NEW d \in Calls, NEW x \in Addresses, NEW s,
         NoNew(v, w), TaskOK(Task(w, d, x), s)
  PROVE  TaskOK(Task(v, d, x), s)
<1>1. CASE At(v, d, x) \in Fetching
  BY <1>1 DEF NoNew
<1>2. CASE At(v, d, x) \notin Fetching
  BY <1>2, TaskAtIs DEF TaskOK, Fetching
<1> QED
  BY <1>1, <1>2

LEMMA KeepsAll ==
  ASSUME NEW f, NEW v, NEW w, NEW c, NEW n, Keeps(f, w, c, n), NoNew(v, w)
  PROVE  Keeps(f, v, c, n)
BY KeepsTask DEF Keeps

\* The other tasks that ask are what they were.
Others(v, w, d, x) ==
  \A e \in Calls : \A y \in Addresses :
    (e # d \/ y # x) /\ At(v, e, y) \in Fetching => Task(v, e, y) = Task(w, e, y)

\* An address changes together with the only task that has it in hand.
LEMMA KeepsOne ==
  ASSUME NEW f, NEW v, NEW w, NEW c, NEW n, Keeps(f, w, c, n), OneHolder(w),
         NEW d \in Calls, NEW x \in Addresses, At(w, d, x) \in Held,
         DOMAIN f = Addresses, NEW r, StoreIn(r, x, c, n), TaskOK(Task(v, d, x), r),
         Others(v, w, d, x)
  PROVE  Keeps([f EXCEPT ![x] = r], v, c, n)
<1> DEFINE g == [f EXCEPT ![x] = r]
<1>1. \A y \in Addresses : g[y] = IF y = x THEN r ELSE f[y]
  OBVIOUS
<1> HIDE DEF g
<1>2. ASSUME NEW y \in Addresses PROVE StoreIn(g[y], y, c, n)
  BY <1>1 DEF Keeps
<1>3. ASSUME NEW y \in Addresses, NEW e \in Calls PROVE TaskOK(Task(v, e, y), g[y])
  <2>1. CASE e = d /\ y = x
    BY <1>1, <2>1
  <2>2. CASE At(v, e, y) \notin Fetching
    BY <2>2, TaskAtIs DEF TaskOK, Fetching
  <2>3. CASE At(v, e, y) \in Fetching /\ (e # d \/ y # x)
    <3>1. Task(v, e, y) = Task(w, e, y)
      BY <2>3 DEF Others
    <3>2. At(w, e, y) \in Fetching
      BY <2>3, <3>1, TaskAtIs
    <3>3. y # x
      BY <2>3, <3>2 DEF OneHolder, Held, Fetching
    <3> QED
      BY <1>1, <3>1, <3>3 DEF Keeps
  <2> QED
    BY <2>1, <2>2, <2>3
<1> QED
  BY <1>2, <1>3 DEF Keeps, g

LEMMA KeepsAsk ==
  ASSUME NEW f, NEW v, NEW w, NEW c, NEW n, Keeps(f, w, c, n), OneHolder(w),
         NEW d \in Calls, NEW x \in Addresses, At(w, d, x) \in Held,
         DOMAIN f = Addresses, NEW t, Asks(v, w, d, x, t),
         NEW r, StoreIn(r, x, c, n), TaskOK(t, r)
  PROVE  Keeps([f EXCEPT ![x] = r], v, c, n)
<1>1. Task(v, d, x) = t /\ Others(v, w, d, x)
  BY DEF Asks, Others
<1> QED
  BY <1>1, KeepsOne

LEMMA KeepsInit ==
  ASSUME XpubInit
  PROVE  KeepsInv /\ ExactInv
<1>1. Renewed(wallet, {}) /\ \A x \in Addresses : storage[x] = Empty
  BY InitTypes DEF XpubInit
<1>2. \A c \in Calls : \A x \in Addresses : At(wallet, c, x) = "none"
  BY <1>1 DEF Renewed
<1>3. ASSUME NEW x \in Addresses PROVE StoreIn(storage[x], x, chain, events)
  BY <1>1, EmptyStoreIn
<1>4. ASSUME NEW c \in Calls, NEW x \in Addresses PROVE TaskOK(Task(wallet, c, x), storage[x])
  BY <1>2, TaskAtIs DEF TaskOK, Fetching
<1> QED
  BY <1>1, <1>3, <1>4, EmptyStore DEF KeepsInv, Keeps, ExactInv

LEMMA KeepsStep ==
  ASSUME Types, KeepsInv, setting.calls <= 2, [XpubNext]_xpubVars
  PROVE  Keeps(storage', wallet', chain', events')
<1>1. Keeps(storage, wallet, chain, events) /\ DOMAIN storage = Addresses
  BY DEF KeepsInv, Types
<1>2. OneHolder(wallet)
  BY DEF Types, WalletInv, WalletOK, TwoOK
<1>3. CASE WalletStep
  BY <1>1, <1>3, KeepsAll DEF WalletStep
<1>4. CASE PassAddress
  <2>1. PICK c \in Calls, x \in Addresses :
           /\ At(wallet, c, x) = "starts"
           /\ \/ /\ LastConfirmed(storage[x]) # NoTx /\ storage' = storage
                 /\ Asks(wallet', wallet, c, x, CheckTask(storage[x]))
              \/ /\ LastConfirmed(storage[x]) = NoTx
                 /\ storage' = [storage EXCEPT ![x] = CleanPendings(storage[x], x)]
                 /\ Asks(wallet', wallet, c, x, FetchTask(CleanPendings(storage[x], x)))
    BY <1>4, PassAddressCases
  <2>2. chain' = chain /\ events' = events
    BY <1>4 DEF PassAddress
  <2>3. storage[x] \in Stores /\ StoreIn(storage[x], x, chain, events)
    BY <1>1 DEF Types, Keeps
  <2>4. CASE storage' = storage /\ Asks(wallet', wallet, c, x, CheckTask(storage[x]))
    <3>1. TaskOK(CheckTask(storage[x]), storage[x])
      BY DEF TaskOK, CheckTask
    <3>2. storage = [storage EXCEPT ![x] = storage[x]]
      BY DEF Types
    <3>3. Keeps([storage EXCEPT ![x] = storage[x]], wallet', chain, events)
      BY <1>1, <1>2, <2>1, <2>3, <2>4, <3>1, KeepsAsk DEF Held
    <3> QED
      BY <2>2, <2>4, <3>2, <3>3
  <2>5. CASE /\ storage' = [storage EXCEPT ![x] = CleanPendings(storage[x], x)]
             /\ Asks(wallet', wallet, c, x, FetchTask(CleanPendings(storage[x], x)))
    <3> DEFINE r == CleanPendings(storage[x], x)
    <3>1. StoreIn(r, x, chain, events) /\ TaskOK(FetchTask(r), r)
      BY <2>3, CleanStoreIn
    <3> HIDE DEF r
    <3>2. Keeps([storage EXCEPT ![x] = r], wallet', chain, events)
      BY <1>1, <1>2, <2>1, <2>5, <3>1, KeepsAsk DEF Held, r
    <3> QED
      BY <2>2, <2>5, <3>2 DEF r
  <2> QED
    BY <2>1, <2>4, <2>5
<1>5. ASSUME NEW c \in Calls, NEW x \in Addresses, Checked(c, x)
      PROVE  Keeps(storage', wallet', chain', events')
  <2> DEFINE o == checkAddressReorg(storage[x], Task(wallet, c, x).last)
             r == CleanPendings(o, x)
  <2>1. /\ At(wallet, c, x) = "check" /\ storage' = [storage EXCEPT ![x] = r]
        /\ Asks(wallet', wallet, c, x, FetchTask(r))
    BY <1>5, CheckedCases
  <2>2. chain' = chain /\ events' = events
    BY <1>5 DEF Checked
  <2>3. storage[x] \in Stores /\ StoreIn(storage[x], x, chain, events)
    BY <1>1 DEF Types, Keeps
  <2>4. o \in Stores /\ StoreIn(o, x, chain, events)
    BY <2>3, EmptyStore, EmptyStoreIn DEF checkAddressReorg
  <2> HIDE DEF o
  <2>5. StoreIn(r, x, chain, events) /\ TaskOK(FetchTask(r), r)
    BY <2>4, CleanStoreIn
  <2> HIDE DEF r
  <2>6. Keeps([storage EXCEPT ![x] = r], wallet', chain, events)
    BY <1>1, <1>2, <2>1, <2>5, KeepsAsk DEF Held
  <2> QED
    BY <2>1, <2>2, <2>6
<1>6. ASSUME NEW c \in Calls, NEW x \in Addresses, Fetched(c, x)
      PROVE  Keeps(storage', wallet', chain', events')
  <2>1. PICK page \in Pages(x, Task(wallet, c, x).last) : Answers(page, c, x)
    BY <1>6, FetchedCases
  <2> DEFINE s == storage[x]
             r == Taken(page, x)
             q == TakenAll(page, x)
  <2>2. chain' = chain /\ events' = events
    BY <1>6 DEF Fetched
  <2>3. s \in Stores /\ StoreIn(s, x, chain, events) /\ TaskOK(Task(wallet, c, x), s)
    BY <1>1 DEF Types, Keeps
  <2>4. At(wallet, c, x) = "fetch" /\ Known(Task(wallet, c, x).last)
    BY <2>1 DEF Answers
  <2>5. Task(wallet, c, x).last = LastConfirmed(s) /\ Sure(s) = ToSet(s.txs)
    BY <2>3, <2>4, TaskAtIs DEF TaskOK, Fetching
  <2>6. page \in Pages(x, LastConfirmed(s)) /\ Known(LastConfirmed(s))
    BY <2>1, <2>4, <2>5
  <2>7. StoreIn(r, x, chain, events) /\ StoreIn(q, x, chain, events) /\ Sure(r) = ToSet(r.txs)
    <3> HIDE DEF s
    <3> QED
      BY <2>3, <2>5, <2>6, AnswerStore DEF Taken, TakenAll, s
  <2> HIDE DEF r, q
  <2>8. CASE storage' = [storage EXCEPT ![x] = r] /\ Asks(wallet', wallet, c, x, FetchTask(r))
    <3>1. TaskOK(FetchTask(r), r)
      BY <2>7 DEF TaskOK, FetchTask
    <3>2. Keeps([storage EXCEPT ![x] = r], wallet', chain, events)
      BY <1>1, <1>2, <2>4, <2>7, <2>8, <3>1, KeepsAsk DEF Held
    <3> QED
      BY <2>2, <2>8, <3>2
  <2>9. CASE storage' = [storage EXCEPT ![x] = q] /\ NoNew(wallet', wallet) /\ At(wallet', c, x) \notin Fetching
    <3>1. TaskOK(Task(wallet', c, x), q)
      BY <2>9, TaskAtIs DEF TaskOK, Fetching
    <3>2. Others(wallet', wallet, c, x)
      BY <2>9 DEF NoNew, Others
    <3>3. Keeps([storage EXCEPT ![x] = q], wallet', chain, events)
      BY <1>1, <1>2, <2>4, <2>7, <3>1, <3>2, KeepsOne DEF Held
    <3> QED
      BY <2>2, <2>9, <3>3
  <2> QED
    BY <2>1, <2>8, <2>9 DEF Answers, r, q
<1>7. CASE Restart
  <2>1. /\ chain' = chain /\ events' = events
        /\ storage' = [x \in Addresses |-> [storage[x] EXCEPT !.spent = {}]]
        /\ storage' \in [Addresses -> Stores]
        /\ \A c \in Calls : \A x \in Addresses : At(wallet', c, x) = "none"
    BY <1>7, RestartCases DEF Renewed
  <2>2. ASSUME NEW x \in Addresses PROVE StoreIn(storage'[x], x, chain, events)
    <3> DEFINE s == storage[x]
               r == storage'[x]
    <3>1. s \in Stores /\ r \in Stores /\ StoreIn(s, x, chain, events)
      BY <1>1, <2>1 DEF Types, Keeps
    <3>2. r.txs = s.txs /\ r.unspent = s.unspent /\ r.spent = {}
      <4>1. r = [storage[x] EXCEPT !.spent = {}]
        BY <2>1
      <4>2. storage[x] \in Stores
        BY DEF Types
      <4> QED
        BY <4>1, <4>2 DEF Stores
    <3> HIDE DEF s, r
    <3>3. Sure(r) = Sure(s) /\ LastConfirmed(r) = LastConfirmed(s)
      BY <3>2 DEF Sure, LastConfirmed
    <3>4. Right(r, x) /\ Rising(r)
      BY <3>1, <3>2 DEF StoreIn, Right, Once, TxsOf, Rising
    <3> QED
      BY <3>1, <3>2, <3>3, <3>4, SameSure DEF r
  <2>3. ASSUME NEW x \in Addresses, NEW c \in Calls PROVE TaskOK(Task(wallet', c, x), storage'[x])
    BY <2>1, TaskAtIs DEF TaskOK, Fetching
  <2> QED
    BY <2>1, <2>2, <2>3 DEF Keeps
<1>8. CASE NewTx \/ Mine \/ Reorganise
  <2>1. Moved /\ UNCHANGED <<wallet, storage>> /\ events' = events + 1
    BY <1>8, ChainCases
  <2>2. ASSUME NEW x \in Addresses PROVE StoreIn(storage[x], x, chain', events')
    <3>1. storage[x] \in Stores /\ StoreIn(storage[x], x, chain, events)
      BY <1>1 DEF Types, Keeps
    <3> QED
      BY <2>1, <3>1, MovedStore
  <2> QED
    BY <1>1, <2>1, <2>2 DEF Keeps
<1>9. CASE UNCHANGED xpubVars
  BY <1>1, <1>9 DEF xpubVars
<1>10. ASSUME NEW c \in Calls, sync(c) PROVE WalletStep
  BY <1>10, SyncCases
<1>11. CASE PassAll \/ PassAccount
  BY <1>3, <1>11, PassAllCases, PassAccountCases
<1>12. ASSUME NEW c \in Calls, NEW x \in Addresses, Fails(c, x) PROVE WalletStep
  BY <1>12, FailsCases
<1>13. ASSUME NEW a \in Asked, Checked(a[1], a[2]) \/ Fetched(a[1], a[2]) \/ Fails(a[1], a[2])
       PROVE  Keeps(storage', wallet', chain', events')
  <2>1. a[1] \in Calls /\ a[2] \in Addresses
    BY DEF Asked
  <2> QED
    BY <1>3, <1>5, <1>6, <1>12, <1>13, <2>1
<1> QED
  BY <1>3, <1>4, <1>7, <1>8, <1>9, <1>10, <1>11, <1>13 DEF XpubNext, Micro, Answered

LEMMA ExactStep ==
  ASSUME Types, ExactInv, ~setting.faults, [XpubNext]_xpubVars
  PROVE  \A x \in Addresses : Right(storage'[x], x) /\ Exact(storage'[x], x)
<1> DEFINE OK(s, x) == Right(s, x) /\ Exact(s, x)
<1>1. \A x \in Addresses : OK(storage[x], x) /\ storage[x] \in Stores
  BY DEF ExactInv, Types
<1>2. ASSUME NEW s \in Stores, NEW x, OK(s, x) PROVE OK(CleanPendings(s, x), x)
  BY <1>2, CleanFacts
<1>3. ASSUME NEW x \in Addresses, NEW r, OK(r, x), storage' = [storage EXCEPT ![x] = r]
      PROVE  \A y \in Addresses : OK(storage'[y], y)
  <2>1. \A y \in Addresses : storage'[y] = IF y = x THEN r ELSE storage[y]
    BY <1>3 DEF Types
  <2> QED
    BY <1>1, <1>3, <2>1
<1>0. SUFFICES \A y \in Addresses : OK(storage'[y], y)
  OBVIOUS
<1> HIDE DEF OK
<1>4. CASE storage' = storage
  BY <1>1, <1>4
<1>5. CASE PassAddress
  <2>1. PICK c \in Calls, x \in Addresses :
          storage' = storage \/ storage' = [storage EXCEPT ![x] = CleanPendings(storage[x], x)]
    BY <1>5, PassAddressCases
  <2> QED
    BY <1>1, <1>2, <1>3, <1>4, <2>1
<1>6. ASSUME NEW c \in Calls, NEW x \in Addresses, Checked(c, x)
      PROVE  \A y \in Addresses : OK(storage'[y], y)
  <2> DEFINE o == checkAddressReorg(storage[x], Task(wallet, c, x).last)
  <2>1. storage' = [storage EXCEPT ![x] = CleanPendings(o, x)]
    BY <1>6, CheckedCases
  <2>2. o \in Stores /\ OK(o, x)
    BY <1>1, EmptyStore DEF checkAddressReorg, OK
  <2> HIDE DEF o
  <2> QED
    BY <1>2, <1>3, <2>1, <2>2
<1>7. ASSUME NEW c \in Calls, NEW x \in Addresses, Fetched(c, x)
      PROVE  \A y \in Addresses : OK(storage'[y], y)
  <2>1. PICK page : Answers(page, c, x)
    BY <1>7, FetchedCases
  <2>2. /\ page.confirmed \in Seq(Entries) /\ page.pending \in Seq(Entries) /\ Taken(page, x) \in Stores
        /\ storage' = [storage EXCEPT ![x] = Taken(page, x)]
             \/ storage' = [storage EXCEPT ![x] = TakenAll(page, x)]
    BY <2>1 DEF Answers
  <2>3. OK(Taken(page, x), x)
    BY <1>1, <2>2, AppendTxsRight DEF OK, Taken
  <2>4. OK(TakenAll(page, x), x)
    <3> DEFINE r == Taken(page, x)
    <3>1. r \in Stores /\ Right(r, x) /\ Exact(r, x)
      BY <2>2, <2>3 DEF OK
    <3> HIDE DEF r
    <3> QED
      BY <2>2, <3>1, AppendTxsRight DEF OK, TakenAll, r
  <2> QED
    BY <1>3, <2>2, <2>3, <2>4
<1>8. CASE Restart
  BY <1>8 DEF Restart
<1>9. CASE NewTx \/ Mine \/ Reorganise
  BY <1>4, <1>9, ChainCases
<1>10. CASE UNCHANGED xpubVars
  BY <1>4, <1>10 DEF xpubVars
<1>11. ASSUME NEW c \in Calls, sync(c) PROVE storage' = storage
  BY <1>11 DEF sync
<1>12. CASE PassAll \/ PassAccount
  BY <1>4, <1>12 DEF PassAll, PassAccount
<1>13. ASSUME NEW a \in Asked, Checked(a[1], a[2]) \/ Fetched(a[1], a[2]) \/ Fails(a[1], a[2])
       PROVE  \A y \in Addresses : OK(storage'[y], y)
  <2>1. a[1] \in Calls /\ a[2] \in Addresses
    BY DEF Asked
  <2>2. CASE Fails(a[1], a[2])
    BY <1>4, <2>2 DEF Fails
  <2> QED
    BY <1>6, <1>7, <1>13, <2>1, <2>2
<1> QED
  BY <1>4, <1>5, <1>8, <1>9, <1>10, <1>11, <1>12, <1>13 DEF XpubNext, Micro, Answered

\* What is stored is right, and what the tasks know of it.
StoreInv == Types /\ KeepsInv /\ ExactInv

\* The storage of an address: its outputs are right, its blocks ascend, and while the last
\* one is in the chain nothing is missing before it.  A task that asks the explorer
\* knows the last one, since nobody else stores anything for its address.
THEOREM StoreTheorem == XpubSpec => []StoreInv
<1>1. XpubInit => StoreInv
  BY InitTypes, KeepsInit DEF StoreInv
<1>2. StoreInv /\ [XpubNext]_xpubVars => StoreInv'
  <2> SUFFICES ASSUME StoreInv, [XpubNext]_xpubVars PROVE StoreInv'
    OBVIOUS
  <2>1. Types /\ KeepsInv /\ ExactInv
    BY DEF StoreInv
  <2>2. Types'
    BY <2>1, StepTypes
  <2>3. setting' = setting
    BY DEF XpubNext, Micro, PassAll, PassAccount, PassAddress, Answered, sync, Checked, Fetched, Fails,
           Restart, NewTx, Mine, Reorganise, ChainMoves, xpubVars
  <2>4. KeepsInv'
    BY <2>1, <2>3, KeepsStep DEF KeepsInv
  <2>5. ExactInv'
    BY <2>1, <2>3, ExactStep DEF ExactInv
  <2> QED
    BY <2>2, <2>4, <2>5 DEF StoreInv
<1> QED
  BY <1>1, <1>2, PTL DEF XpubSpec

\* The unspent outputs of storage/index.ts are those that the stored transactions pay and
\* do not spend: always when no request fails, and with failures, restarts and replaced
\* blocks as well of two calls.
THEOREM UtxosTheorem == XpubSpec => []((setting.calls <= 2 \/ ~setting.faults) => UtxosRight)
<1>1. StoreInv => ((setting.calls <= 2 \/ ~setting.faults) => UtxosRight)
  <2> SUFFICES ASSUME StoreInv, setting.calls <= 2 \/ ~setting.faults PROVE UtxosRight
    OBVIOUS
  <2>1. ASSUME NEW x \in Addresses
        PROVE  LET txs == {e.tx : e \in Stored(x)}
               IN  /\ storage[x].unspent =
                        (UNION {Received(t, x) : t \in txs}) \ UNION {SpentBy(t, x) : t \in txs}
                   /\ Cardinality(txs) = Len(storage[x].txs)
    <3>1. storage[x] \in Stores /\ Right(storage[x], x)
      BY DEF StoreInv, Types, KeepsInv, ExactInv, Keeps, StoreIn
    <3>2. Cardinality(TxsOf(storage[x])) = Len(storage[x].txs)
      BY <3>1, OnceCounts DEF Right
    <3> DEFINE T == {e.tx : e \in Stored(x)}
    <3>3. T = TxsOf(storage[x])
      BY DEF Stored, TxsOf
    <3> HIDE DEF T
    <3>5. storage[x].unspent = In(T, x) \ Out(T, x) /\ Cardinality(T) = Len(storage[x].txs)
      BY <3>1, <3>2, <3>3 DEF Right
    <3> QED
      BY <3>5 DEF T, In, Out
  <2> QED
    BY <2>1 DEF UtxosRight
<1> QED
  BY <1>1, StoreTheorem, PTL

(***************************************************************************)
(* Agreement with the chain.                                               *)
(***************************************************************************)

\* Who goes on through all: those that waited, and nobody has passed it.
Turns(v, w) ==
  \A d \in Calls :
    /\ \/ Phase(v, d) = Phase(w, d)
       \/ Phase(w, d) = "waitsForAll" /\ Phase(v, d) = "running" /\ Has(v, d, All)
       \/ Phase(w, d) = "running" /\ Phase(v, d) \in {"done", "waitsForAccount"}
    /\ Has(w, d, All) => Has(v, d, All)
    /\ Has(v, d, All) => Has(w, d, All) \/ Phase(w, d) = "waitsForAll"

\* No address ends but x of c, and those of the others rest as they did.
Ends(v, w, c, x) ==
  /\ \A d \in Calls : \A y \in Addresses :
       At(v, d, y) \in Ended => At(w, d, y) \in Ended \/ (d = c /\ y = x)
  /\ \A d \in Calls \ {c} : \A y \in Addresses :
       At(w, d, y) \in Resting => At(v, d, y) \in Resting

LEMMA StartTurns ==
  ASSUME NEW w, NEW c \in Calls, Ready(w, c), NEW x
  PROVE  Turns(StartBlock(w, c), w) /\ Ends(StartBlock(w, c), w, c, x)
<1> DEFINE v == StartBlock(w, c)
           B == Block(w, c)
<1>1. w \in Wallets /\ IndexOf(w, c) + GAP <= MaxIndex + 1
  BY DEF Ready
<1>2. /\ SamePhases(v, w)
      /\ \A d \in Calls : \A y \in Addresses :
           Task(v, d, y) = IF d = c /\ y \in B THEN Starting(w, y) ELSE Task(w, d, y)
      /\ \A d, g : Has(v, d, g) <=>
           Has(w, d, g) \/ (d = c /\ \E y \in B : g = Address(y) /\ Address(y) \notin w.syncing)
  BY <1>1, StartFacts
<1>3. B \subseteq Addresses
  BY <1>1, BlockFacts
<1> HIDE DEF v, B
<1>4. \A d : Has(v, d, All) <=> Has(w, d, All)
  BY <1>2, <1>3, GateFacts
<1>5. ASSUME NEW y PROVE Starting(w, y).phase \notin Ended
  BY StartingFacts DEF Ended
<1>6. ASSUME NEW d \in Calls, NEW y \in Addresses, At(v, d, y) \in Ended PROVE At(w, d, y) \in Ended
  <2>1. At(v, d, y) = Task(v, d, y).phase /\ At(w, d, y) = Task(w, d, y).phase
    BY TaskAtIs
  <2> QED
    BY <1>2, <1>5, <1>6, <2>1
<1>7. ASSUME NEW d \in Calls \ {c}, NEW y \in Addresses PROVE At(v, d, y) = At(w, d, y)
  BY <1>2, TaskAt
<1> QED
  BY <1>2, <1>4, <1>6, <1>7 DEF Turns, Ends, SamePhases, v

LEMMA SameEnds ==
  ASSUME NEW v, NEW w, NEW c, NEW x, SameTasks(v, w)
  PROVE  Ends(v, w, c, x)
BY TaskAt DEF Ends, SameTasks

LEMMA AccountTurns ==
  ASSUME NEW w, NEW c \in Calls, Ready(w, c), NEW x
  PROVE  Turns(whenSyncedAccount(w, c), w) /\ Ends(whenSyncedAccount(w, c), w, c, x)
<1> DEFINE v == whenSyncedAccount(w, c)
<1>1. Phase(w, c) = "running"
  BY DEF Ready
<1>2. /\ SameTasks(v, w)
      /\ \A d \in Calls \ {c} : Phase(v, d) = Phase(w, d)
      /\ Phase(v, c) \in {"running", "waitsForAccount"}
      /\ \A d : Has(v, d, All) <=> Has(w, d, All)
  BY AccountFrame
<1> HIDE DEF v
<1>3. Turns(v, w)
  BY <1>1, <1>2 DEF Turns
<1> QED
  BY <1>2, <1>3, SameEnds DEF v

LEMMA EndTurns ==
  ASSUME NEW w, NEW c \in Calls, Ready(w, c), NEW x
  PROVE  Turns(EndAll(w, c), w) /\ Ends(EndAll(w, c), w, c, x)
<1> DEFINE v == EndAll(w, c)
<1>1. w \in Wallets /\ Phase(w, c) = "running"
  BY DEF Ready
<1>2. /\ SameTasks(v, w)
      /\ \A d \in Calls : Phase(v, d) =
           IF d = c THEN "done"
           ELSE IF Phase(w, d) = "waitsForAll" THEN "running" ELSE Phase(w, d)
      /\ \A d \in Calls : \A g : Has(v, d, g) <=> Has(w, d, g) \/ (g = All /\ Phase(w, d) = "waitsForAll")
  BY <1>1, EndAllFacts
<1> HIDE DEF v
<1>3. Turns(v, w)
  BY <1>1, <1>2 DEF Turns
<1> QED
  BY <1>2, <1>3, SameEnds DEF v

\* A change before that is of no matter.
LEMMA TurnsAfter ==
  ASSUME NEW v, NEW n, NEW w, NEW c, NEW x, SamePhases(n, w),
         \A d \in Calls : Has(n, d, All) <=> Has(w, d, All),
         Ends(n, w, c, x), Turns(v, n), Ends(v, n, c, x)
  PROVE  Turns(v, w) /\ Ends(v, w, c, x)
<1>1. Turns(v, w)
  BY DEF Turns, SamePhases
<1>2. Ends(v, w, c, x)
  BY DEF Ends
<1> QED
  BY <1>1, <1>2

LEMMA EndAddressTurns ==
  ASSUME NEW w, CallsOK(w), Busy(w), NEW c \in Calls, NEW x \in Addresses, At(w, c, x) = "fetch",
         NEW found \in {"used", "unused"},
         IndexOf(EndAddress(w, c, x, found), c) + GAP <= MaxIndex + 1
  PROVE  LET v == EndAddress(w, c, x, found)
         IN  Turns(v, w) /\ Ends(v, w, c, x)
<1> DEFINE b == BeforeBlock(w, c, x, found)
           v == EndBlock(b, c)
<1>1. EndAddress(w, c, x, found) = v
  BY EndIs
<1>2. CallsOK(b) /\ \A d \in Calls \ {c} : BusyAt(b, d)
  BY BeforeBlockOK
<1>3. w \in Wallets /\ CallOK(w, c) /\ At(w, c, x) # "waits" /\ ~Between(w, c)
  BY FetchPhase DEF CallsOK, Held
<1>4. /\ SamePhases(b, w)
      /\ \A d \in Calls : \A y \in Addresses :
           (d # c \/ y # x) =>
             IF y = x /\ At(w, d, x) = "waits" THEN At(b, d, y) = "starts"
             ELSE Task(b, d, y) = Task(w, d, y)
      /\ \A d \in Calls : \A g : Has(b, d, g) <=>
           Has(w, d, g) \/ (g = Address(x) /\ At(w, d, x) = "waits")
  BY <1>3, BeforeBlockFacts
<1> HIDE DEF b
<1>5. ~Between(b, c)
  BY <1>3, <1>4, GateFacts DEF Between
<1>6. \A d \in Calls : Has(b, d, All) <=> Has(w, d, All)
  BY <1>4, GateFacts
<1>7. Ends(b, w, c, x)
  <2>1. "starts" \notin Ended /\ "waits" \notin Resting
    BY DEF Ended, Resting
  <2>2. ASSUME NEW d \in Calls, NEW y \in Addresses, d # c \/ y # x
        PROVE  \/ At(w, d, y) = "waits" /\ At(b, d, y) = "starts"
               \/ At(b, d, y) = At(w, d, y)
    BY <1>4, <2>2, TaskAt
  <2> QED
    BY <2>1, <2>2 DEF Ends
<1>8. Turns(v, b) /\ Ends(v, b, c, x)
  <2>1. CASE v = b
    BY <2>1 DEF Turns, Ends
  <2>2. CASE Ready(b, c) /\ v = StartBlock(NextBlock(b, c), c)
    <3> DEFINE n == NextBlock(b, c)
    <3>1. Ready(n, c)
      BY <1>1, <2>2, StartIndex, NextBlockReady
    <3>2. SamePhases(n, b) /\ SameTasks(n, b) /\ \A d, g : Has(n, d, g) <=> Has(b, d, g)
      BY <1>2, NextBlockFacts DEF CallsOK
    <3> HIDE DEF n
    <3> QED
      BY <2>2, <3>1, <3>2, SameEnds, StartTurns, TurnsAfter DEF n
  <2>3. CASE Ready(b, c) /\ v = whenSyncedAccount(NextAccount(b, c), c)
    <3> DEFINE n == NextAccount(b, c)
    <3>1. Ready(n, c)
      BY <2>3, NextAccountReady
    <3>2. SamePhases(n, b) /\ SameTasks(n, b) /\ \A d, g : Has(n, d, g) <=> Has(b, d, g)
      BY <1>2, NextAccountFacts DEF CallsOK
    <3> HIDE DEF n
    <3> QED
      BY <2>3, <3>1, <3>2, SameEnds, AccountTurns, TurnsAfter DEF n
  <2>4. CASE Ready(b, c) /\ v = EndAll(Opens(b, c), c)
    <3> DEFINE n == Opens(b, c)
    <3>1. Ready(n, c)
      BY <2>4, OpensReady
    <3>2. SamePhases(n, b) /\ SameTasks(n, b) /\ \A d, g : Has(n, d, g) <=> Has(b, d, g)
      BY <1>2, OpensFacts DEF CallsOK, SameCalls
    <3> HIDE DEF n
    <3> QED
      BY <2>4, <3>1, <3>2, SameEnds, EndTurns, TurnsAfter DEF n
  <2> QED
    BY <1>2, <1>5, <2>1, <2>2, <2>3, <2>4, EndBlockCases
<1> QED
  BY <1>1, <1>4, <1>6, <1>7, <1>8, TurnsAfter

\* What an address has stored is what the chain has, as far as a page goes.
AgreesIn(s, x, c, p) ==
  /\ \A e \in ToSet(s.txs) : \/ \E h \in HeightsIn(c, x) : e = EntryIn(c, h)
                             \/ \E t \in p : Touches(t, x) /\ e = Unconfirmed(t)
  /\ \A h \in HeightsIn(c, x) : EntryIn(c, h) \in ToSet(s.txs)
  /\ \/ \A t \in p : Touches(t, x) => Unconfirmed(t) \in ToSet(s.txs)
     \/ Cardinality(ToSet(s.txs)) >= PageSize

LEMMA ListFinite ==
  ASSUME NEW A, NEW s \in Seq(A)
  PROVE  IsFiniteSet(ToSet(s))
<1> DEFINE n == Len(s)
           f == [i \in 1..n |-> s[i]]
<1>1. n \in Nat /\ DOMAIN s = 1..n
  OBVIOUS
<1>2. ToSet(s) = {s[i] : i \in 1..n}
  BY <1>1 DEF ToSet
<1> HIDE DEF n
<1>3. f \in Surjection(1..n, ToSet(s))
  BY <1>2 DEF Surjection
<1>4. IsFiniteSet(1..n)
  BY <1>1, FS_Interval
<1> QED
  BY <1>3, <1>4, FS_Surjection

\* Two lists with no common member and none twice.
LEMMA TwoLists ==
  ASSUME NEW A, NEW s \in Seq(A), NEW r \in Seq(A), NEW S, IsFiniteSet(S),
         \A i \in 1..Len(s) : s[i] \in S, \A i \in 1..Len(r) : r[i] \in S,
         \A i, j \in 1..Len(s) : s[i] = s[j] => i = j,
         \A i, j \in 1..Len(r) : r[i] = r[j] => i = j,
         \A i \in 1..Len(s), j \in 1..Len(r) : s[i] # r[j]
  PROVE  Cardinality(S) >= Len(s) + Len(r)
<1> DEFINE m == Len(s)
           n == Len(r)
           f == [i \in 1..(m + n) |-> IF i <= m THEN s[i] ELSE r[i - m]]
<1>1. m \in Nat /\ n \in Nat
  OBVIOUS
<1>a. /\ \A i \in 1..m : s[i] \in S
      /\ \A i \in 1..n : r[i] \in S
      /\ \A i, j \in 1..m : s[i] = s[j] => i = j
      /\ \A i, j \in 1..n : r[i] = r[j] => i = j
      /\ \A i \in 1..m, j \in 1..n : s[i] # r[j]
  OBVIOUS
<1> HIDE DEF m, n
<1>2. \A i \in 1..(m + n) : (i <= m /\ i \in 1..m) \/ (~(i <= m) /\ i - m \in 1..n)
  BY <1>1
<1>3. f \in [1..(m + n) -> S]
  BY <1>a, <1>2
<1>4. \A i \in 1..(m + n) : f[i] = IF i <= m THEN s[i] ELSE r[i - m]
  OBVIOUS
<1> HIDE DEF f
<1>5. ASSUME NEW i \in 1..(m + n), NEW j \in 1..(m + n), f[i] = f[j] PROVE i = j
  <2>1. i \in Int /\ j \in Int
    OBVIOUS
  <2>2. CASE i <= m /\ j <= m
    BY <1>2, <1>4, <1>5, <1>a, <2>2
  <2>3. CASE ~(i <= m) /\ ~(j <= m)
    <3>1. i - m \in 1..n /\ j - m \in 1..n /\ r[i - m] = r[j - m]
      BY <1>2, <1>4, <1>5, <2>3
    <3>2. i - m = j - m
      BY <1>a, <3>1
    <3> QED
      BY <1>1, <2>1, <3>2
  <2>4. CASE i <= m /\ ~(j <= m)
    BY <1>2, <1>4, <1>5, <1>a, <2>4
  <2>5. CASE ~(i <= m) /\ j <= m
    BY <1>2, <1>4, <1>5, <1>a, <2>5
  <2> QED
    BY <2>2, <2>3, <2>4, <2>5
<1>6. f \in Injection(1..(m + n), S)
  BY <1>3, <1>5 DEF Injection, IsInjective
<1>7. IsFiniteSet(1..(m + n)) /\ Cardinality(1..(m + n)) = m + n
  BY <1>1, FS_Interval
<1>8. Cardinality(1..(m + n)) <= Cardinality(S)
  BY <1>6, <1>7, FS_Injection DEF ExistsInjection
<1>9. Cardinality(S) \in Nat
  BY FS_CardinalityType
<1> QED
  BY <1>1, <1>7, <1>8, <1>9 DEF m, n

\* The last answer of an address: it agrees with the chain.
LEMMA AnswerAgrees ==
  ASSUME Types, NEW x \in Addresses, NEW s \in Stores, StoreIn(s, x, chain, events),
         Known(LastConfirmed(s)), Sure(s) = ToSet(s.txs), NEW page \in Pages(x, LastConfirmed(s)),
         Len(page.confirmed) < PageSize
  PROVE  AgreesIn(appendTxs(appendTxs(s, x, page.confirmed), x, page.pending), x, chain, pool)
<1> DEFINE last == LastConfirmed(s)
           hs == PageHeights(x, From(last))
           r == appendTxs(s, x, page.confirmed)
           q == appendTxs(r, x, page.pending)
           H == HeightsIn(chain, x)
           E(h) == EntryIn(chain, h)
           k == Len(page.pending)
<1>1. ChainOK(chain, pool, events) /\ ChainType /\ Len(chain) \in Nat
  BY ChainInvType, ChainFacts DEF Types, ChainInv
<1>2. last \in Entries \cup {NoTx}
  BY LastFacts
<1>3. ConfirmedPart(page, x, From(last), hs) /\ PendingPart(page, x)
  BY <1>1, <1>2, PageFacts
<1>4. /\ Sure(r) = ToSet(r.txs) /\ r \in Stores /\ Sure(q) = Sure(r) /\ q \in Stores
      /\ UpTo(r, x, chain, Len(chain)) /\ Once(q)
  BY AnswerStore DEF StoreIn, Right
<1> HIDE DEF last, r, H, E
<1>5. page.pending \in Seq(Entries)
  BY <1>3 DEF PendingPart
<1>6. GrownBy(q, r, x, page.pending, k)
  BY <1>4, <1>5, AppendTxsFacts
<1> HIDE DEF q, hs
<1>7. \A h \in H : h <= Len(chain)
  <2>1. \A h \in H : h \in 1..Len(chain)
    BY DEF H, HeightsIn
  <2> QED
    BY <1>1, <2>1
<1>8. \A e : e \in ToSet(r.txs) <=> \E h \in H : e = E(h)
  BY <1>4, <1>7 DEF UpTo, H, E
<1>9. /\ \A t \in pool : \A h \in 1..Len(chain) : chain[h].tx # t
      /\ \A h \in H : h \in 1..Len(chain) /\ E(h).tx = chain[h].tx /\ E(h).block # NoBlock
  <2>1. \A t \in pool : \A h \in 1..Len(chain) : chain[h].tx # t
    BY <1>1 DEF ChainOK
  <2>2. ASSUME NEW h \in H
        PROVE  h \in 1..Len(chain) /\ E(h).tx = chain[h].tx /\ E(h).block # NoBlock
    <3>1. h \in HeightsIn(chain, x)
      BY DEF H
    <3> QED
      BY <1>1, <3>1, ChainInFacts DEF E
  <2> QED
    BY <2>1, <2>2
<1>10. \A i \in 1..k : \E t \in pool : Touches(t, x) /\ page.pending[i] = Unconfirmed(t)
  BY <1>3 DEF PendingPart, Waiting
<1>11. \A t : Unconfirmed(t).tx = t /\ Unconfirmed(t).block = NoBlock
  BY DEF Unconfirmed
<1>12. ASSUME NEW i \in 1..k PROVE page.pending[i] \in ToSet(q.txs)
  <2>1. PICK t \in pool : page.pending[i] = Unconfirmed(t)
    BY <1>10
  <2>2. page.pending[i].tx = t
    BY <1>11, <2>1
  <2>3. t \in TxsOf(q)
    BY <1>6, <2>2 DEF GrownBy
  <2>4. PICK e \in ToSet(q.txs) : e.tx = t
    BY <1>4, <2>3, StoreFacts
  <2>5. e \notin ToSet(r.txs)
    BY <1>8, <1>9, <2>4
  <2>6. PICK j \in 1..k : page.pending[j] = e
    BY <1>6, <2>4, <2>5 DEF GrownBy
  <2>7. e = Unconfirmed(t)
    BY <1>10, <1>11, <2>4, <2>6
  <2> QED
    BY <2>1, <2>4, <2>7
<1>13. \A h \in H : E(h) \in ToSet(q.txs)
  BY <1>6, <1>8 DEF GrownBy
<1>14. ASSUME NEW e \in ToSet(q.txs)
       PROVE  (\E h \in H : e = E(h)) \/ \E t \in pool : Touches(t, x) /\ e = Unconfirmed(t)
  <2>1. e \in ToSet(r.txs) \/ \E i \in 1..k : page.pending[i] = e
    BY <1>6 DEF GrownBy
  <2> QED
    BY <1>8, <1>10, <2>1
<1>15. CASE \A t \in Waiting(x) : \E i \in 1..k : page.pending[i] = Unconfirmed(t)
  <2>1. ASSUME NEW t \in pool, Touches(t, x) PROVE Unconfirmed(t) \in ToSet(q.txs)
    <3>1. t \in Waiting(x)
      BY <2>1 DEF Waiting
    <3> QED
      BY <1>12, <1>15, <3>1
  <2> QED
    BY <1>13, <1>14, <2>1 DEF AgreesIn, H, E, q, r
<1>16. CASE Len(page.confirmed) + Len(page.pending) = PageSize
  <2>1. /\ page.confirmed \in Seq(Entries) /\ Len(hs) = Len(page.confirmed)
        /\ \A i \in 1..Len(hs) : page.confirmed[i] = E(hs[i]) /\ hs[i] \in H
        /\ \A i, j \in 1..Len(hs) : i < j => hs[i] < hs[j]
    BY <1>3, TheChain DEF ConfirmedPart, E, H
  <2>2. \A i \in 1..Len(page.confirmed) : page.confirmed[i] \in ToSet(q.txs) /\ page.confirmed[i].block # NoBlock
    BY <1>9, <1>13, <2>1
  <2>3. \A i, j \in 1..Len(page.confirmed) : page.confirmed[i] = page.confirmed[j] => i = j
    <3>1. \A g, h \in H : E(g) = E(h) => g = h
      BY <1>1, ChainInFacts DEF H, E
    <3>2. \A i, j \in 1..Len(hs) : hs[i] = hs[j] => i = j
      <4>1. \A h \in H : h \in Nat
        <5>1. \A h \in H : h \in 1..Len(chain)
          BY DEF H, HeightsIn
        <5> QED
          BY <5>1
      <4>2. ASSUME NEW i \in 1..Len(hs), NEW j \in 1..Len(hs), hs[i] = hs[j], i # j PROVE FALSE
        <5>1. hs[i] \in Nat /\ hs[j] \in Nat
          BY <2>1, <4>1
        <5>2. i < j \/ j < i
          BY <4>2
        <5> QED
          BY <2>1, <4>2, <5>1, <5>2
      <4> QED
        BY <4>2
    <3>3. \A i, j \in 1..Len(hs) : page.confirmed[i] = page.confirmed[j] => i = j
      BY <2>1, <3>1, <3>2
    <3> QED
      BY <2>1, <3>3
  <2>4. /\ \A i \in 1..Len(page.pending) : page.pending[i] \in ToSet(q.txs) /\ page.pending[i].block = NoBlock
        /\ \A i, j \in 1..Len(page.pending) : page.pending[i] = page.pending[j] => i = j
    BY <1>3, <1>10, <1>11, <1>12 DEF PendingPart
  <2>5. \A i \in 1..Len(page.confirmed), j \in 1..Len(page.pending) : page.confirmed[i] # page.pending[j]
    BY <2>2, <2>4
  <2>6. IsFiniteSet(ToSet(q.txs))
    BY <1>4, ListFinite DEF Stores
  <2>7. Cardinality(ToSet(q.txs)) >= PageSize
    <3> DEFINE a == page.confirmed
               b == page.pending
    <3>1. a \in Seq(Entries) /\ b \in Seq(Entries) /\ Len(a) + Len(b) = PageSize
      BY <1>5, <1>16, <2>1
    <3>2. \A i \in 1..Len(a) : a[i] \in ToSet(q.txs)
      BY <2>2
    <3>3. \A i \in 1..Len(b) : b[i] \in ToSet(q.txs)
      BY <2>4
    <3>4. /\ \A i, j \in 1..Len(a) : a[i] = a[j] => i = j
          /\ \A i, j \in 1..Len(b) : b[i] = b[j] => i = j
          /\ \A i \in 1..Len(a), j \in 1..Len(b) : a[i] # b[j]
      BY <2>3, <2>4, <2>5
    <3> HIDE DEF a, b
    <3>5. Cardinality(ToSet(q.txs)) >= Len(a) + Len(b)
      BY <2>6, <3>1, <3>2, <3>3, <3>4, TwoLists
    <3> QED
      BY <3>1, <3>5
  <2> QED
    BY <1>13, <1>14, <2>7 DEF AgreesIn, H, E, q, r
<1> QED
  BY <1>3, <1>15, <1>16 DEF PendingPart

\* The call q began alone: the others rest or have yet to pass `all`, and each address
\* that it has looked at agrees with the chain.
Along(f, w, c, p, q) ==
  /\ q \in Calls /\ Phase(w, q) \in {"running", "waitsForAccount", "done", "failed"}
  /\ Phase(w, q) # "failed" =>
       /\ ~Has(w, q, All)
       /\ \A d \in Calls \ {q} : /\ \A x \in Addresses : At(w, d, x) \in Resting
                                 /\ Phase(w, d) = "running" => Has(w, d, All)
       /\ \A x \in Addresses : At(w, q, x) \in Ended => AgreesIn(f[x], x, c, p)

QuietInv == setting.calls <= 2 /\ quiet # "none" => Along(storage, wallet, chain, pool, quiet)

\* After a step of q.
LEMMA AlongGoes ==
  ASSUME NEW f, NEW g, NEW v, NEW w, NEW c, NEW p, NEW q, NEW x, Along(f, w, c, p, q),
         Turns(v, w), Ends(v, w, q, x),
         Phase(w, q) # "failed" =>
           \A y \in Addresses : At(v, q, y) \in Ended => AgreesIn(g[y], y, c, p)
  PROVE  Along(g, v, c, p, q)
<1>1. q \in Calls /\ Phase(v, q) \in {"running", "waitsForAccount", "done", "failed"}
  BY DEF Along, Turns
<1>2. ASSUME Phase(v, q) # "failed"
      PROVE  /\ ~Has(v, q, All)
             /\ \A d \in Calls \ {q} : /\ \A y \in Addresses : At(v, d, y) \in Resting
                                       /\ Phase(v, d) = "running" => Has(v, d, All)
             /\ \A y \in Addresses : At(v, q, y) \in Ended => AgreesIn(g[y], y, c, p)
  <2>1. Phase(w, q) # "failed"
    BY <1>1, <1>2 DEF Turns
  <2>2. ~Has(v, q, All)
    BY <2>1 DEF Along, Turns
  <2>3. \A d \in Calls \ {q} : \A y \in Addresses : At(v, d, y) \in Resting
    BY <2>1 DEF Along, Ends
  <2>4. \A d \in Calls \ {q} : Phase(v, d) = "running" => Has(v, d, All)
    BY <2>1 DEF Along, Turns
  <2> QED
    BY <2>1, <2>2, <2>3, <2>4
<1> QED
  BY <1>1, <1>2 DEF Along

\* Only q has an address in hand.
LEMMA OnlyQuiet ==
  ASSUME NEW f, NEW w, NEW c, NEW p, NEW q, Along(f, w, c, p, q), Phase(w, q) # "failed",
         NEW d \in Calls, NEW x \in Addresses, At(w, d, x) \in Held
  PROVE  d = q
BY DEF Along, Held, Resting

\* An address asks the explorer.
LEMMA AlongAsks ==
  ASSUME NEW f, NEW v, NEW w, NEW c, NEW p, NEW q, Along(f, w, c, p, q),
         NEW d \in Calls, NEW x \in Addresses, At(w, d, x) \in Held,
         NEW t, t.phase \in Fetching, Asks(v, w, d, x, t),
         NEW g, \A y \in Addresses \ {x} : g[y] = f[y]
  PROVE  Along(g, v, c, p, q)
<1>1. Turns(v, w)
  BY DEF Asks, Turns, SamePhases
<1>2. Task(v, d, x) = t /\ \A e \in Calls : \A y \in Addresses : (e # d \/ y # x) => Task(v, e, y) = Task(w, e, y)
  BY DEF Asks
<1>3. \A e \in Calls : \A y \in Addresses : (e # d \/ y # x) => At(v, e, y) = At(w, e, y)
  BY <1>2, TaskAt
<1>4. At(v, d, x) \in Fetching
  BY <1>2, TaskAtIs
<1>5. CASE Phase(w, q) = "failed"
  BY <1>1, <1>5 DEF Along, Turns
<1>6. CASE Phase(w, q) # "failed"
  <2>1. d = q
    BY <1>6, OnlyQuiet
  <2>2. Ends(v, w, q, x)
    BY <1>3, <2>1 DEF Ends
  <2>3. ASSUME NEW y \in Addresses, At(v, q, y) \in Ended PROVE AgreesIn(g[y], y, c, p)
    <3>1. y # x
      BY <1>4, <2>1, <2>3 DEF Ended, Fetching
    <3> QED
      BY <1>3, <1>6, <2>3, <3>1 DEF Along
  <2> QED
    BY <1>1, <2>2, <2>3, AlongGoes
<1> QED
  BY <1>5, <1>6

LEMMA AlongSync ==
  ASSUME Types, NEW c \in Calls, sync(c), Along(storage, wallet, chain, pool, quiet)
  PROVE  Along(storage, wallet', chain, pool, quiet)
<1> DEFINE w == wallet
           v == wallet'
           q == quiet
<1>1. /\ SameTasks(v, w) /\ Phase(w, c) = "idle"
      /\ \A d \in Calls \ {c} : Phase(v, d) = Phase(w, d)
      /\ Phase(v, c) = "waitsForAll" \/ (Phase(v, c) = "running" /\ Has(v, c, All))
      /\ \A d \in Calls \ {c} : \A g : Has(v, d, g) <=> Has(w, d, g)
  BY SyncCases
<1>2. CallOK(w, c)
  BY DEF Types, WalletInv, WalletOK, CallsOK
<1> HIDE DEF v, w, q
<1>3. \A d \in Calls : \A x \in Addresses : At(v, d, x) = At(w, d, x)
  BY <1>1, TaskAt DEF SameTasks
<1>4. Along(storage, w, chain, pool, q)
  BY DEF w, q
<1>5. q \in Calls \ {c}
  BY <1>1, <1>4 DEF Along
<1> QED
  BY <1>1, <1>3, <1>4, <1>5 DEF Along, v, q

LEMMA AlongPassAll ==
  ASSUME Types, PassAll
  PROVE  quiet' = "none" \/ Along(storage, wallet', chain, pool, quiet')
<1> DEFINE w == wallet
           c == Head(w.micro).call
           u == [Passed EXCEPT !.freshAddressIndex = 0]
           v == whenSyncedAccount(u, c)
<1>1. wallet' = v /\ Passes("all") /\ WalletOK(w, setting.calls) /\ (quiet' = IF Alone(c) THEN c ELSE "none")
  BY DEF PassAll, Types, WalletInv
<1>2. /\ c \in Calls /\ Has(w, c, All) /\ Ready(u, c) /\ SameCalls(u, w)
      /\ \A d, h : Has(u, d, h) <=> Has(w, d, h) /\ ~(d = c /\ h = All)
      /\ SameTasks(v, w)
  BY <1>1, PassAllFacts
<1>3. Phase(u, c) = "running" /\ CallOK(w, c)
  BY <1>1, <1>2 DEF Ready, WalletOK, CallsOK
<1>4. /\ \A d \in Calls \ {c} : Phase(v, d) = Phase(u, d)
      /\ Phase(v, c) \in {"running", "waitsForAccount"}
      /\ \A d : Has(v, d, All) <=> Has(u, d, All)
  BY <1>2, AccountFrame
<1> HIDE DEF v, u
<1>5. ASSUME Alone(c) PROVE Along(storage, v, chain, pool, c)
  <2>1. ~Has(v, c, All)
    BY <1>2, <1>4
  <2>2. \A x \in Addresses : At(v, c, x) = "none"
    <3>1. \A x \in Addresses : At(w, c, x) = "none"
      BY <1>2, <1>3 DEF CallOK
    <3> QED
      BY <1>2, <3>1, TaskAt DEF SameTasks
  <2>3. ASSUME NEW d \in Calls \ {c}
        PROVE  (\A x \in Addresses : At(v, d, x) \in Resting) /\ (Phase(v, d) = "running" => Has(v, d, All))
    <3>1. Phase(v, d) = Phase(w, d)
      BY <1>2, <1>4 DEF SameCalls, SamePhases
    <3>2. \A x \in Addresses : At(v, d, x) = At(w, d, x)
      BY <1>2, TaskAt DEF SameTasks
    <3>3. CASE d \in Begun
      <4>1. Phase(w, d) # "running" /\ \A x \in Addresses : At(w, d, x) \in Ended \cup {"none"}
        BY <1>5, <3>3 DEF Alone, Over, Phase, At, w
      <4> QED
        BY <3>1, <3>2, <4>1 DEF Ended, Resting
    <3>4. CASE d \notin Begun
      <4>1. Phase(w, d) = "idle" /\ CallOK(w, d)
        BY <1>1, <3>4 DEF Begun, Phase, w, WalletOK, CallsOK
      <4> QED
        BY <3>1, <3>2, <4>1 DEF CallOK, Resting
    <3> QED
      BY <3>3, <3>4
  <2>4. "none" \notin Ended
    BY DEF Ended
  <2> QED
    BY <1>2, <1>4, <2>1, <2>2, <2>3, <2>4 DEF Along
<1> QED
  BY <1>1, <1>5

LEMMA AlongPassAccount ==
  ASSUME Types, PassAccount, Along(storage, wallet, chain, pool, quiet)
  PROVE  Along(storage, wallet', chain, pool, quiet)
<1> DEFINE w == wallet
           c == Head(w.micro).call
           u == [Passed EXCEPT !.calls[c].index = 0]
           v == StartBlock(u, c)
           q == quiet
           x == <<2, 0>>
<1>1. wallet' = v /\ Passes("account") /\ WalletOK(w, setting.calls)
  BY DEF PassAccount, Types, WalletInv
<1>2. /\ c \in Calls /\ Ready(u, c) /\ SamePhases(u, w) /\ SameTasks(u, w)
      /\ \A d : Has(u, d, All) <=> Has(w, d, All)
  BY <1>1, PassAccountFacts
<1>3. Turns(v, u) /\ Ends(v, u, c, x)
  BY <1>2, StartTurns
<1> HIDE DEF v, u
<1>4. Ends(u, w, c, x)
  BY <1>2, SameEnds
<1>5. Turns(v, w) /\ Ends(v, w, c, x)
  BY <1>2, <1>3, <1>4, TurnsAfter
<1>6. Phase(w, c) = "running" /\ ~Has(w, c, All)
  BY <1>2 DEF Ready, Between, SamePhases
<1>7. Along(storage, w, chain, pool, q)
  BY DEF w, q
<1> HIDE DEF w, q, c
<1>8. CASE Phase(w, q) = "failed"
  <2>1. Phase(v, q) = "failed" /\ q \in Calls
    BY <1>5, <1>7, <1>8 DEF Along, Turns
  <2> QED
    BY <1>1, <2>1 DEF Along, q
<1>9. CASE Phase(w, q) # "failed"
  <2>1. c = q
    BY <1>2, <1>6, <1>7, <1>9 DEF Along
  <2>3. \A y \in Addresses : At(v, q, y) \in Ended => AgreesIn(storage[y], y, chain, pool)
    <3>1. x \notin Addresses
      BY DEF Addresses, Accounts, x
    <3>2. ASSUME NEW y \in Addresses, At(v, q, y) \in Ended PROVE At(w, q, y) \in Ended
      BY <1>2, <1>5, <2>1, <3>1, <3>2 DEF Ends
    <3> QED
      BY <1>7, <1>9, <3>2 DEF Along
  <2> QED
    BY <1>1, <1>5, <1>7, <2>1, <2>3, AlongGoes DEF q
<1> QED
  BY <1>8, <1>9

LEMMA AlongFails ==
  ASSUME Types, NEW c \in Calls, NEW x \in Addresses, Fails(c, x),
         Along(storage, wallet, chain, pool, quiet)
  PROVE  Along(storage, wallet', chain, pool, quiet)
<1> DEFINE w == wallet
           v == wallet'
           q == quiet
<1>1. /\ WalletOK(w, setting.calls) /\ At(w, c, x) \in Fetching /\ v = FailAddress(w, c, x)
  BY DEF Fails, Types, WalletInv, At, Fetching
<1>2. w \in Wallets /\ CallOK(w, c)
  BY <1>1 DEF WalletOK, CallsOK
<1>3. \A d \in Calls : Phase(v, d) = IF d = c /\ Phase(w, c) = "running" THEN "failed" ELSE Phase(w, d)
  BY <1>1, <1>2, FailFacts
<1>4. Along(storage, w, chain, pool, q) /\ q \in Calls
  BY DEF Along
<1> HIDE DEF v, w, q
<1>5. CASE Phase(w, q) = "failed"
  <2>1. Phase(v, q) = "failed"
    BY <1>3, <1>4, <1>5
  <2> QED
    BY <1>4, <2>1 DEF Along, v, q
<1>6. CASE Phase(w, q) # "failed"
  <2>1. c = q
    BY <1>1, <1>4, <1>6, OnlyQuiet DEF Held, Fetching
  <2>2. Phase(w, q) \notin {"done", "waitsForAccount"}
    BY <1>1, <1>2, <2>1 DEF CallOK, Fetching, Resting
  <2>3. Phase(v, q) = "failed"
    BY <1>3, <1>4, <1>6, <2>1, <2>2 DEF Along
  <2> QED
    BY <1>4, <2>3 DEF Along, v, q
<1> QED
  BY <1>5, <1>6

\* What the last answer leaves of an address that is asked.
LEMMA AnswerHere ==
  ASSUME Types, KeepsInv, setting.calls <= 2, NEW c \in Calls, NEW x \in Addresses,
         NEW page \in Pages(x, Task(wallet, c, x).last), Answers(page, c, x),
         Len(page.confirmed) < PageSize
  PROVE  AgreesIn(TakenAll(page, x), x, chain, pool)
<1> DEFINE s == storage[x]
<1>1. At(wallet, c, x) = "fetch" /\ Known(Task(wallet, c, x).last)
  BY DEF Answers
<1>2. s \in Stores /\ StoreIn(s, x, chain, events) /\ TaskOK(Task(wallet, c, x), s)
  BY DEF Types, KeepsInv, Keeps
<1>3. Task(wallet, c, x).last = LastConfirmed(s) /\ Sure(s) = ToSet(s.txs)
  BY <1>1, <1>2, TaskAtIs DEF TaskOK, Fetching
<1>4. page \in Pages(x, LastConfirmed(s)) /\ Known(LastConfirmed(s))
  BY <1>1, <1>3
<1>5. TakenAll(page, x) = appendTxs(appendTxs(s, x, page.confirmed), x, page.pending)
  BY DEF TakenAll, Taken
<1> HIDE DEF s
<1> QED
  BY <1>2, <1>3, <1>4, <1>5, AnswerAgrees

LEMMA AlongFetched ==
  ASSUME Types, KeepsInv, setting.calls <= 2, NEW c \in Calls, NEW x \in Addresses, Fetched(c, x),
         Along(storage, wallet, chain, pool, quiet)
  PROVE  Along(storage', wallet', chain, pool, quiet)
<1> DEFINE w == wallet
           v == wallet'
           q == quiet
           f == storage
           g == storage'
<1>1. PICK page \in Pages(x, Task(wallet, c, x).last) : Answers(page, c, x)
  BY FetchedCases
<1>2. At(w, c, x) = "fetch" /\ Known(Task(w, c, x).last) /\ CallsOK(w) /\ Busy(w)
  BY <1>1 DEF Answers, Types, WalletInv, WalletOK
<1>3. Along(f, w, chain, pool, q) /\ q \in Calls
  BY DEF Along
<1>4. CASE /\ storage' = [storage EXCEPT ![x] = Taken(page, x)]
           /\ Asks(wallet', wallet, c, x, FetchTask(Taken(page, x)))
  <2> DEFINE t == FetchTask(Taken(page, x))
  <2>1. t.phase \in Fetching
    BY DEF FetchTask, Fetching
  <2>2. \A y \in Addresses \ {x} : g[y] = f[y]
    BY <1>4 DEF Types
  <2>3. Asks(v, w, c, x, t)
    BY <1>4
  <2> HIDE DEF t, v, w, f, g, q
  <2>4. Along(g, v, chain, pool, q)
    BY <1>2, <1>3, <2>1, <2>2, <2>3, AlongAsks DEF Held
  <2> QED
    BY <2>4 DEF g, v, q
<1>5. CASE /\ Len(page.confirmed) < PageSize
           /\ storage' = [storage EXCEPT ![x] = TakenAll(page, x)]
           /\ \E found \in {"used", "unused"} :
                /\ wallet' = EndAddress(wallet, c, x, found)
                /\ IndexOf(wallet', c) + GAP <= MaxIndex + 1
  <2>1. Turns(v, w) /\ Ends(v, w, c, x)
    <3>1. PICK found \in {"used", "unused"} :
            wallet' = EndAddress(wallet, c, x, found) /\ IndexOf(wallet', c) + GAP <= MaxIndex + 1
      BY <1>5
    <3> DEFINE n == EndAddress(w, c, x, found)
    <3>2. v = n /\ IndexOf(n, c) + GAP <= MaxIndex + 1
      BY <3>1
    <3>3. Turns(n, w) /\ Ends(n, w, c, x)
      BY <1>2, <3>2, EndAddressTurns
    <3> QED
      BY <3>2, <3>3
  <2>2. /\ g[x] = TakenAll(page, x) /\ \A y \in Addresses \ {x} : g[y] = f[y]
    BY <1>5 DEF Types
  <2>3. AgreesIn(g[x], x, chain, pool)
    BY <1>1, <1>5, <2>2, AnswerHere
  <2> HIDE DEF v, w, f, g, q
  <2>4. CASE Phase(w, q) = "failed"
    <3>1. Phase(v, q) = "failed"
      BY <1>3, <2>1, <2>4 DEF Turns
    <3> QED
      BY <1>3, <3>1 DEF Along, v, q, g
  <2>5. CASE Phase(w, q) # "failed"
    <3>1. c = q
      BY <1>2, <1>3, <2>5, OnlyQuiet DEF Held
    <3>2. ASSUME NEW y \in Addresses, At(v, q, y) \in Ended PROVE AgreesIn(g[y], y, chain, pool)
      <4>1. CASE y = x
        BY <2>3, <4>1
      <4>2. CASE y # x
        <5>1. At(w, q, y) \in Ended
          BY <1>3, <2>1, <3>2, <4>2 DEF Ends
        <5>2. AgreesIn(f[y], y, chain, pool)
          BY <1>3, <2>5, <5>1 DEF Along
        <5> QED
          BY <2>2, <4>2, <5>2
      <4> QED
        BY <4>1, <4>2
    <3>3. Along(g, v, chain, pool, q)
      BY <1>3, <2>1, <3>1, <3>2, AlongGoes
    <3> QED
      BY <3>3 DEF g, v, q
  <2> QED
    BY <2>4, <2>5
<1> QED
  BY <1>1, <1>4, <1>5 DEF Answers

LEMMA QuietStep ==
  ASSUME StoreInv, QuietInv, [XpubNext]_xpubVars
  PROVE  QuietInv'
<1>1. Types /\ KeepsInv
  BY DEF StoreInv
<1>2. setting' = setting
  BY DEF XpubNext, Micro, PassAll, PassAccount, PassAddress, Answered, sync, Checked, Fetched, Fails,
         Restart, NewTx, Mine, Reorganise, ChainMoves, xpubVars
<1>3. SUFFICES ASSUME setting.calls <= 2, quiet' # "none"
               PROVE  Along(storage', wallet', chain', pool', quiet')
  BY <1>2 DEF QuietInv
<1>4. ASSUME quiet' = quiet PROVE Along(storage, wallet, chain, pool, quiet)
  BY <1>3, <1>4 DEF QuietInv
<1>5. ASSUME NEW c \in Calls, sync(c) PROVE Along(storage', wallet', chain', pool', quiet')
  <2>1. UNCHANGED <<storage, chain, pool, quiet>>
    BY <1>5 DEF sync
  <2> QED
    BY <1>1, <1>4, <1>5, <2>1, AlongSync
<1>6. CASE PassAll
  <2>1. UNCHANGED <<storage, chain, pool>>
    BY <1>6 DEF PassAll
  <2> QED
    BY <1>1, <1>3, <1>6, <2>1, AlongPassAll
<1>7. CASE PassAccount
  <2>1. UNCHANGED <<storage, chain, pool, quiet>>
    BY <1>7 DEF PassAccount
  <2> QED
    BY <1>1, <1>4, <1>7, <2>1, AlongPassAccount
<1>8. CASE PassAddress
  <2>1. PICK c \in Calls, x \in Addresses :
           /\ At(wallet, c, x) = "starts"
           /\ \/ /\ storage' = storage
                 /\ Asks(wallet', wallet, c, x, CheckTask(storage[x]))
              \/ /\ storage' = [storage EXCEPT ![x] = CleanPendings(storage[x], x)]
                 /\ Asks(wallet', wallet, c, x, FetchTask(CleanPendings(storage[x], x)))
    BY <1>1, <1>8, PassAddressCases
  <2>2. UNCHANGED <<chain, pool, quiet>>
    BY <1>8 DEF PassAddress
  <2>3. \A y \in Addresses \ {x} : storage'[y] = storage[y]
    BY <1>1, <2>1 DEF Types
  <2>4. \A s : CheckTask(s).phase \in Fetching /\ FetchTask(s).phase \in Fetching
    BY DEF CheckTask, FetchTask, Fetching
  <2>5. PICK t : t.phase \in Fetching /\ Asks(wallet', wallet, c, x, t)
    BY <2>1, <2>4
  <2>6. Along(storage', wallet', chain, pool, quiet)
    BY <1>4, <2>1, <2>2, <2>3, <2>5, AlongAsks DEF Held
  <2> QED
    BY <2>2, <2>6
<1>9. ASSUME NEW c \in Calls, NEW x \in Addresses, Checked(c, x)
      PROVE  Along(storage', wallet', chain', pool', quiet')
  <2> DEFINE s == CleanPendings(checkAddressReorg(storage[x], Task(wallet, c, x).last), x)
  <2>1. /\ At(wallet, c, x) = "check" /\ storage' = [storage EXCEPT ![x] = s]
        /\ Asks(wallet', wallet, c, x, FetchTask(s))
    BY <1>1, <1>9, CheckedCases
  <2>2. UNCHANGED <<chain, pool, quiet>>
    BY <1>9 DEF Checked
  <2>3. \A y \in Addresses \ {x} : storage'[y] = storage[y]
    BY <1>1, <2>1 DEF Types
  <2>4. FetchTask(s).phase \in Fetching
    BY DEF FetchTask, Fetching
  <2>5. PICK t : t.phase \in Fetching /\ Asks(wallet', wallet, c, x, t)
    BY <2>1, <2>4
  <2>6. Along(storage', wallet', chain, pool, quiet)
    BY <1>4, <2>1, <2>2, <2>3, <2>5, AlongAsks DEF Held
  <2> QED
    BY <2>2, <2>6
<1>10. ASSUME NEW c \in Calls, NEW x \in Addresses, Fetched(c, x)
       PROVE  Along(storage', wallet', chain', pool', quiet')
  <2>1. UNCHANGED <<chain, pool, quiet>>
    BY <1>10 DEF Fetched
  <2> QED
    BY <1>1, <1>3, <1>4, <1>10, <2>1, AlongFetched
<1>11. ASSUME NEW c \in Calls, NEW x \in Addresses, Fails(c, x)
       PROVE  Along(storage', wallet', chain', pool', quiet')
  <2>1. UNCHANGED <<storage, chain, pool, quiet>>
    BY <1>11 DEF Fails
  <2> QED
    BY <1>1, <1>4, <1>11, <2>1, AlongFails
<1>12. CASE UNCHANGED xpubVars
  BY <1>4, <1>12 DEF xpubVars
<1>13. CASE Restart
  BY <1>3, <1>13 DEF Restart
<1>14. CASE NewTx \/ Mine \/ Reorganise
  BY <1>1, <1>3, <1>14, ChainCases
<1>15. ASSUME NEW a \in Asked, Checked(a[1], a[2]) \/ Fetched(a[1], a[2]) \/ Fails(a[1], a[2])
       PROVE  Along(storage', wallet', chain', pool', quiet')
  <2>1. a[1] \in Calls /\ a[2] \in Addresses
    BY DEF Asked
  <2> QED
    BY <1>9, <1>10, <1>11, <1>15, <2>1
<1> QED
  BY <1>5, <1>6, <1>7, <1>8, <1>12, <1>13, <1>14, <1>15 DEF XpubNext, Micro, Answered

\* A sync that was alone, while the chain was at rest, leaves every address it looked at as
\* the chain has it, whatever other syncs, failures and restarts left behind before.
THEOREM AgreesTheorem == XpubSpec => [](setting.calls <= 2 => Agrees)
<1>1. XpubInit => QuietInv
  BY DEF XpubInit, QuietInv
<1>2. StoreInv /\ QuietInv /\ [XpubNext]_xpubVars => QuietInv'
  BY QuietStep
<1>3. StoreInv /\ QuietInv => (setting.calls <= 2 => Agrees)
  <2> SUFFICES ASSUME Types, QuietInv, setting.calls <= 2, quiet \in Calls,
                      wallet.calls[quiet].phase = "done",
                      NEW x \in Addresses, wallet.calls[quiet].tasks[x].phase \in Ended
               PROVE  /\ Stored(x) \subseteq Chained(x)
                      /\ \A e \in Chained(x) \ Stored(x) :
                           e.block = NoBlock /\ Cardinality(Stored(x)) >= PageSize
    BY DEF Agrees, StoreInv
  <2> DEFINE s == storage[x]
             S == ToSet(s.txs)
  <2>1. AgreesIn(s, x, chain, pool)
    BY XpubAssumption DEF QuietInv, Along, Phase, At
  <2>2. Stored(x) = S
    BY DEF Stored
  <2>3. Chained(x) = {EntryIn(chain, h) : h \in HeightsIn(chain, x)} \cup {Unconfirmed(t) : t \in Waiting(x)}
    BY TheChain DEF Chained
  <2>4. \A t : t \in Waiting(x) <=> t \in pool /\ Touches(t, x)
    BY DEF Waiting
  <2>5. \A t : Unconfirmed(t).block = NoBlock
    BY DEF Unconfirmed
  <2> HIDE DEF s
  <2> QED
    BY <2>1, <2>2, <2>3, <2>4, <2>5 DEF AgreesIn
<1> QED
  BY <1>1, <1>2, <1>3, StoreTheorem, PTL DEF XpubSpec

(***************************************************************************)
(* The blocks of GAP addresses.                                            *)
(***************************************************************************)

Multiples == {q * GAP : q \in Nat}

\* Each block before the index i has an address of U.
Opened(U, i) == \A m \in Multiples : m + GAP <= i => \E j \in m..(m + GAP - 1) : j \in U

LEMMA MultipleFacts ==
  /\ GAP \in Nat \ {0} /\ Multiples \subseteq Nat /\ 0 \in Multiples
  /\ \A m \in Multiples : m + GAP \in Multiples
  /\ \A m, n \in Multiples : m < n => m + GAP <= n
<1>1. GAP \in Nat \ {0}
  BY XpubAssumption
<1>2. \A q \in Nat : q * GAP \in Nat
  BY <1>1
<1>3. 0 * GAP = 0
  BY <1>1
<1>4. \A q \in Nat : q * GAP + GAP = (q + 1) * GAP /\ q + 1 \in Nat
  BY <1>1
<1>5. ASSUME NEW q \in Nat, NEW r \in Nat, q * GAP < r * GAP PROVE q * GAP + GAP <= r * GAP
  <2>1. CASE r <= q
    <3>1. PICK k \in Nat : q = r + k
      <4>1. q - r \in Nat /\ q = r + (q - r)
        BY <2>1
      <4> QED
        BY <4>1
    <3>2. q * GAP = r * GAP + k * GAP /\ k * GAP \in Nat /\ r * GAP \in Nat
      BY <1>1, <3>1
    <3> QED
      BY <1>5, <3>2
  <2>2. CASE q < r
    <3>1. PICK k \in Nat : r = (q + 1) + k
      <4>1. r - (q + 1) \in Nat /\ r = (q + 1) + (r - (q + 1))
        BY <2>2
      <4> QED
        BY <4>1
    <3>2. r * GAP = (q + 1) * GAP + k * GAP /\ k * GAP \in Nat /\ (q + 1) * GAP \in Nat
      BY <1>1, <3>1
    <3> QED
      BY <1>4, <3>2
  <2> QED
    BY <2>1, <2>2
<1> QED
  BY <1>1, <1>2, <1>3, <1>4, <1>5 DEF Multiples

LEMMA OpenedFirst ==
  ASSUME NEW U
  PROVE  Opened(U, 0)
BY MultipleFacts DEF Opened

\* The block at m has been opened, and so has the whole block.
LEMMA OpenedIn ==
  ASSUME NEW U, NEW m \in Multiples, Opened(U, m), NEW i \in m..(m + GAP - 1)
  PROVE  Opened(U, i)
<1> SUFFICES ASSUME NEW n \in Multiples, n + GAP <= i PROVE \E j \in n..(n + GAP - 1) : j \in U
  BY DEF Opened
<1>1. m \in Nat /\ n \in Nat /\ GAP \in Nat
  BY MultipleFacts
<1>2. n < m
  BY <1>1
<1>3. n + GAP <= m
  BY <1>2, MultipleFacts
<1> QED
  BY <1>3 DEF Opened

\* An address of the block at m opens the next one.
LEMMA OpenedNext ==
  ASSUME NEW U, NEW m \in Multiples, Opened(U, m), NEW k \in m..(m + GAP - 1), k \in U
  PROVE  m + GAP \in Multiples /\ Opened(U, m + GAP)
<1>1. ASSUME NEW n \in Multiples, n + GAP <= m + GAP PROVE \E j \in n..(n + GAP - 1) : j \in U
  <2>1. m \in Nat /\ n \in Nat /\ GAP \in Nat
    BY MultipleFacts
  <2>2. CASE n = m
    BY <2>2
  <2>3. CASE n # m
    <3>1. n + GAP <= m
      BY <1>1, <2>1, <2>3, MultipleFacts
    <3> QED
      BY <3>1 DEF Opened
  <2> QED
    BY <2>2, <2>3
<1>2. m + GAP \in Multiples
  BY MultipleFacts
<1> QED
  BY <1>1, <1>2 DEF Opened

LEMMA OpenedMore ==
  ASSUME NEW U, NEW V, U \subseteq V, NEW i, Opened(U, i)
  PROVE  Opened(V, i)
BY DEF Opened

(***************************************************************************)
(* The address to receive on.  S are the indices of the addresses to       *)
(* receive on that have a transaction stored, U those that one touches.    *)
(***************************************************************************)

Indices == 0..MaxIndex
AtIndex(w, c, i) == At(w, c, <<0, i>>)

\* The call has yet to look at the address to receive on of index i.
ToVisit(w, c, i) ==
  /\ AccountOf(w, c) = 0
  /\ \/ Between(w, c)
     \/ i >= IndexOf(w, c) + GAP
     \/ i >= IndexOf(w, c) /\ AtIndex(w, c, i) \notin Ended

\* A call comes to a block when those before it are used.
PlaceOK(w, c, U) ==
  /\ IndexOf(w, c) \in Multiples
  /\ AccountOf(w, c) = 0 => Opened(U, IndexOf(w, c))

Placing(w, U) == \A c \in Calls : PlaceOK(w, c, U)

LookedAt(w, i) == \E c \in Calls : AtIndex(w, c, i) # "none"
Looked(w, S, U) == \A i \in Indices : i \in S \/ LookedAt(w, i) => Opened(U, i)

FoundUsed(w, U) == \A c \in Calls : \A i \in Indices : AtIndex(w, c, i) = "used" => i \in U

Asking(w, i) == \E d \in Calls : AtIndex(w, d, i) \in Fetching
AskedByOther(w, c, i) == \E d \in Calls \ {c} : AtIndex(w, d, i) \in Fetching

\* What is stored is below the fresh index or will be looked at.
Below(w, c, S) == \A i \in Indices : i \in S => i < w.freshAddressIndex \/ ToVisit(w, c, i)
Above(w, c) == \A i \in Indices : AskedByOther(w, c, i) => ToVisit(w, c, i)

\* What is stored after the block will be looked at, since the block will be found used.
BlockUsed(w, c, U) ==
  \E j \in IndexOf(w, c)..(IndexOf(w, c) + GAP - 1) : j \in U /\ AtIndex(w, c, j) # "unused"
Beyond(w, c, S, U) ==
  AccountOf(w, c) = 0 /\ ~Between(w, c) =>
    \A i \in Indices : i >= IndexOf(w, c) + GAP /\ (i \in S \/ Asking(w, i)) => BlockUsed(w, c, U)

Goes(w, c) == Phase(w, c) = "running" /\ ~Has(w, c, All)
Going(w, c, S, U) == Below(w, c, S) /\ Above(w, c) /\ Beyond(w, c, S, U)
AllGo(w, S, U) == \A c \in Calls : Goes(w, c) => Going(w, c, S, U)

FreshIn(w, S, U) == Placing(w, U) /\ Looked(w, S, U) /\ FoundUsed(w, U) /\ AllGo(w, S, U)

LEMMA IndexAddress ==
  /\ \A i \in Indices : <<0, i>> \in Addresses
  /\ \A x \in Addresses : x[1] = 0 => x[2] \in Indices /\ x = <<0, x[2]>>
  /\ \A i \in Indices : i \in Nat
BY XpubAssumption DEF Indices, Addresses, Accounts

LEMMA FreshMore ==
  ASSUME NEW w, NEW S, NEW U, NEW V, U \subseteq V, FreshIn(w, S, U)
  PROVE  FreshIn(w, S, V)
<1>1. \A i : Opened(U, i) => Opened(V, i)
  BY OpenedMore
<1>2. Placing(w, V)
  BY <1>1 DEF FreshIn, Placing, PlaceOK
<1>3. Looked(w, S, V)
  BY <1>1 DEF FreshIn, Looked
<1>4. FoundUsed(w, V)
  BY DEF FreshIn, FoundUsed
<1>5. AllGo(w, S, V)
  <2> SUFFICES ASSUME NEW c \in Calls, Goes(w, c) PROVE Beyond(w, c, S, V)
    BY DEF FreshIn, AllGo, Going
  <2>1. Beyond(w, c, S, U)
    BY DEF FreshIn, AllGo, Going
  <2>2. BlockUsed(w, c, U) => BlockUsed(w, c, V)
    BY DEF BlockUsed
  <2> QED
    BY <2>1, <2>2 DEF Beyond
<1> QED
  BY <1>2, <1>3, <1>4, <1>5 DEF FreshIn

(***************************************************************************)
(* A step by which no call comes to another place.                         *)
(***************************************************************************)

StaysAt(v, w) ==
  \A c \in Calls : Goes(v, c) => Goes(w, c) /\ (Between(v, c) <=> Between(w, c))
NoneLooked(v, w) == \A c \in Calls : \A i \in Indices : AtIndex(v, c, i) # "none" => AtIndex(w, c, i) # "none"
UsedIs(v, w, U) ==
  \A c \in Calls : \A i \in Indices : AtIndex(v, c, i) = "used" => AtIndex(w, c, i) = "used" \/ i \in U
UnusedIs(v, w, U) ==
  \A c \in Calls : \A i \in Indices :
    Goes(v, c) /\ AtIndex(v, c, i) = "unused" => AtIndex(w, c, i) = "unused" \/ i \notin U
AsksHeld(v, w) ==
  \A c \in Calls : \A i \in Indices : AtIndex(v, c, i) \in Fetching => AtIndex(w, c, i) \in Held
EndsBelow(v, w, T) ==
  \A c \in Calls : \A i \in Indices :
    Goes(v, c) /\ AtIndex(v, c, i) \in Ended =>
      \/ AtIndex(w, c, i) \in Ended
      \/ AtIndex(w, c, i) \in Held /\ (i \in T => i < v.freshAddressIndex)
StoresAsked(w, T, S) == \A i \in Indices : i \in T => i \in S \/ Asking(w, i)

Soft(v, w, T, S, U) ==
  /\ Placed(v, w) /\ StaysAt(v, w) /\ w.freshAddressIndex <= v.freshAddressIndex
  /\ NoneLooked(v, w) /\ UsedIs(v, w, U) /\ UnusedIs(v, w, U)
  /\ AsksHeld(v, w) /\ EndsBelow(v, w, T) /\ StoresAsked(w, T, S)

LEMMA SoftVisit ==
  ASSUME NEW v, NEW w, NEW T, NEW S, NEW U, Soft(v, w, T, S, U), NEW c \in Calls, Goes(v, c),
         NEW i \in Indices, ToVisit(w, c, i)
  PROVE  ToVisit(v, c, i) \/ (AtIndex(v, c, i) \in Ended /\ AtIndex(w, c, i) \notin Ended)
<1>1. AccountOf(v, c) = AccountOf(w, c) /\ IndexOf(v, c) = IndexOf(w, c)
  BY DEF Soft, Placed
<1>2. Between(v, c) <=> Between(w, c)
  BY DEF Soft, StaysAt
<1> QED
  BY <1>1, <1>2 DEF ToVisit

\* Of the calls that go on only c has addresses in its block in hand.
LEMMA HeldBlock ==
  ASSUME NEW w, CallsOK(w), NEW c \in Calls, Goes(w, c), NEW i \in Indices, AtIndex(w, c, i) \in Held
  PROVE  /\ AccountOf(w, c) = 0 /\ ~Between(w, c)
         /\ i >= IndexOf(w, c) /\ i < IndexOf(w, c) + GAP
<1>1. w \in Wallets /\ CallOK(w, c) /\ <<0, i>> \in Addresses /\ i \in Nat
  BY IndexAddress DEF CallsOK
<1>2. AtIndex(w, c, i) \notin Resting
  BY DEF Held, Resting
<1>3. ~Between(w, c)
  BY <1>1, <1>2 DEF CallOK, AtIndex
<1>4. <<0, i>> \in Block(w, c)
  BY <1>1, <1>2, <1>3 DEF CallOK, AtIndex, Goes
<1>5. PICK k \in IndexOf(w, c)..(IndexOf(w, c) + GAP - 1) : <<0, i>> = <<AccountOf(w, c), k>>
  BY <1>1, <1>4, BlockFacts
<1>6. AccountOf(w, c) = 0 /\ i = k
  BY <1>5
<1>7. IndexOf(w, c) \in Nat /\ GAP \in Nat
  BY <1>1, MultipleFacts, WalletFacts
<1> QED
  BY <1>3, <1>5, <1>6, <1>7

LEMMA SoftStep ==
  ASSUME NEW v, NEW w, NEW T, NEW S, NEW U, CallsOK(w), OneRuns(w), OneHolder(w),
         v.freshAddressIndex \in Nat, w.freshAddressIndex \in Nat,
         Soft(v, w, T, S, U), FreshIn(w, S, U)
  PROVE  FreshIn(v, T, U)
<1>1. Placing(v, U)
  BY DEF FreshIn, Placing, PlaceOK, Soft, Placed
<1>2. ASSUME NEW i \in Indices, Asking(w, i) PROVE LookedAt(w, i)
  BY <1>2 DEF Asking, LookedAt, Fetching
<1>3. Looked(v, T, U)
  <2>1. \A i \in Indices : LookedAt(v, i) => LookedAt(w, i)
    BY DEF Soft, NoneLooked, LookedAt
  <2>2. \A i \in Indices : i \in T => i \in S \/ LookedAt(w, i)
    BY <1>2 DEF Soft, StoresAsked
  <2> QED
    BY <2>1, <2>2 DEF FreshIn, Looked
<1>4. FoundUsed(v, U)
  BY DEF FreshIn, FoundUsed, Soft, UsedIs
<1>5. ASSUME NEW c \in Calls, Goes(v, c) PROVE Going(v, c, T, U)
  <2>1. Goes(w, c) /\ (Between(v, c) <=> Between(w, c))
    BY <1>5 DEF Soft, StaysAt
  <2>2. Below(w, c, S) /\ Above(w, c) /\ Beyond(w, c, S, U)
    BY <2>1 DEF FreshIn, AllGo, Going
  <2>3. ASSUME NEW i \in Indices, i \in T, AtIndex(v, c, i) \in Ended, AtIndex(w, c, i) \notin Ended
        PROVE  i < v.freshAddressIndex
    BY <1>5, <2>3 DEF Soft, EndsBelow
  <2>4. \A i \in Indices : i \in Nat
    BY IndexAddress
  <2>5. ASSUME NEW i \in Indices, AskedByOther(v, c, i) PROVE AskedByOther(w, c, i)
    <3>1. PICK d \in Calls \ {c} : AtIndex(v, d, i) \in Fetching
      BY <2>5 DEF AskedByOther
    <3>2. AtIndex(w, d, i) \in Held
      BY <3>1 DEF Soft, AsksHeld
    <3>3. AtIndex(w, d, i) \in Resting \cup Fetching
      BY <2>1, IndexAddress DEF OneRuns, Goes, AtIndex
    <3>4. AtIndex(w, d, i) \in Fetching
      BY <3>2, <3>3 DEF Held, Resting
    <3> QED
      BY <3>4 DEF AskedByOther
  <2>6. Below(v, c, T)
    <3> SUFFICES ASSUME NEW i \in Indices, i \in T, ~(i < v.freshAddressIndex) PROVE ToVisit(v, c, i)
      BY DEF Below
    <3>1. ToVisit(w, c, i) => ToVisit(v, c, i)
      BY <1>5, <2>3, SoftVisit
    <3>2. CASE i \in S
      <4>1. ~(i < w.freshAddressIndex)
        BY <2>4 DEF Soft
      <4> QED
        BY <2>2, <3>1, <3>2, <4>1 DEF Below
    <3>3. CASE i \notin S
      <4>1. PICK d \in Calls : AtIndex(w, d, i) \in Fetching
        BY <3>3 DEF Soft, StoresAsked, Asking
      <4>2. CASE d # c
        BY <2>2, <3>1, <4>1, <4>2 DEF Above, AskedByOther
      <4>3. CASE d = c
        <5>1. AtIndex(w, c, i) \in Held /\ AtIndex(w, c, i) \notin Ended
          BY <4>1, <4>3 DEF Held, Fetching, Ended
        <5>2. ToVisit(w, c, i)
          BY <2>1, <5>1, HeldBlock DEF ToVisit
        <5> QED
          BY <3>1, <5>2
      <4> QED
        BY <4>2, <4>3
    <3> QED
      BY <3>2, <3>3
  <2>7. Above(v, c)
    <3> SUFFICES ASSUME NEW i \in Indices, AskedByOther(v, c, i) PROVE ToVisit(v, c, i)
      BY DEF Above
    <3>1. AskedByOther(w, c, i) /\ ToVisit(w, c, i)
      BY <2>2, <2>5 DEF Above
    <3>2. PICK d \in Calls \ {c} : AtIndex(w, d, i) \in Held
      BY <3>1 DEF AskedByOther, Fetching, Held
    <3>3. AtIndex(w, c, i) \notin Held
      BY <3>2, IndexAddress DEF OneHolder, AtIndex
    <3>4. AtIndex(v, c, i) \in Ended => AtIndex(w, c, i) \in Ended
      BY <1>5, <3>3 DEF Soft, EndsBelow
    <3> QED
      BY <1>5, <3>1, <3>4, SoftVisit
  <2>8. Beyond(v, c, T, U)
    <3> SUFFICES ASSUME AccountOf(v, c) = 0, ~Between(v, c), NEW i \in Indices,
                        i >= IndexOf(v, c) + GAP, i \in T \/ Asking(v, i)
                 PROVE  BlockUsed(v, c, U)
      BY DEF Beyond
    <3>1. AccountOf(v, c) = AccountOf(w, c) /\ IndexOf(v, c) = IndexOf(w, c)
      BY DEF Soft, Placed
    <3>2. i \in S \/ Asking(w, i)
      <4>1. CASE i \in T
        BY <4>1 DEF Soft, StoresAsked
      <4>2. CASE AtIndex(v, c, i) \in Fetching
        <5>1. AtIndex(w, c, i) \in Held
          BY <4>2 DEF Soft, AsksHeld
        <5>2. i < IndexOf(w, c) + GAP
          BY <2>1, <5>1, HeldBlock
        <5>3. IndexOf(w, c) \in Nat /\ GAP \in Nat
          BY MultipleFacts, WalletFacts DEF CallsOK
        <5> QED
          BY <2>4, <3>1, <5>2, <5>3
      <4>3. CASE AskedByOther(v, c, i)
        BY <2>5, <4>3 DEF AskedByOther, Asking
      <4> QED
        BY <4>1, <4>2, <4>3 DEF Asking, AskedByOther
    <3>3. BlockUsed(w, c, U)
      BY <2>1, <2>2, <3>1, <3>2 DEF Beyond
    <3>4. PICK j \in IndexOf(w, c)..(IndexOf(w, c) + GAP - 1) : j \in U /\ AtIndex(w, c, j) # "unused"
      BY <3>3 DEF BlockUsed
    <3>5. j \in Indices
      <4>1. CallOK(w, c) /\ IndexOf(w, c) \in Nat /\ GAP \in Nat /\ MaxIndex \in Nat
        BY MultipleFacts, WalletFacts, XpubAssumption DEF CallsOK
      <4>2. IndexOf(w, c) + GAP <= MaxIndex + 1
        BY <4>1 DEF CallOK
      <4> QED
        BY <4>1, <4>2 DEF Indices
    <3>6. AtIndex(v, c, j) # "unused"
      BY <1>5, <3>4, <3>5 DEF Soft, UnusedIs
    <3> QED
      BY <3>1, <3>4, <3>6 DEF BlockUsed
  <2> QED
    BY <2>6, <2>7, <2>8 DEF Going
<1> QED
  BY <1>1, <1>3, <1>4, <1>5 DEF FreshIn, AllGo

(***************************************************************************)
(* A call comes to another place.                                          *)
(***************************************************************************)

Ahead(w, c, i) == AccountOf(w, c) = 0 /\ i >= IndexOf(w, c)
BelowAhead(w, c, S) == \A i \in Indices : i \in S => i < w.freshAddressIndex \/ Ahead(w, c, i)
AboveAhead(w, c) == \A i \in Indices : AskedByOther(w, c, i) => Ahead(w, c, i)

\* What a step leaves alone as to what is known of the addresses.
LEMMA SameLooked ==
  ASSUME NEW v, NEW w, NEW S, NEW U, SameTasks(v, w), Looked(w, S, U), FoundUsed(w, U)
  PROVE  Looked(v, S, U) /\ FoundUsed(v, U)
<1>1. \A c \in Calls : \A i \in Indices : AtIndex(v, c, i) = AtIndex(w, c, i)
  <2> SUFFICES ASSUME NEW c \in Calls, NEW i \in Indices PROVE At(v, c, <<0, i>>) = At(w, c, <<0, i>>)
    BY DEF AtIndex
  <2>1. Task(v, c, <<0, i>>) = Task(w, c, <<0, i>>)
    BY IndexAddress DEF SameTasks
  <2> QED
    BY <2>1, TaskAt
<1> QED
  BY <1>1 DEF Looked, LookedAt, FoundUsed

LEMMA FreshStart ==
  ASSUME NEW w, NEW c \in Calls, Ready(w, c), OneRuns(w), NEW S, NEW U,
         Placing(w, U), Looked(w, S, U), FoundUsed(w, U), BelowAhead(w, c, S), AboveAhead(w, c)
  PROVE  FreshIn(StartBlock(w, c), S, U)
<1> DEFINE v == StartBlock(w, c)
           B == Block(w, c)
           n == IndexOf(w, c)
           a == AccountOf(w, c)
<1>1. w \in Wallets /\ n + GAP <= MaxIndex + 1 /\ Phase(w, c) = "running" /\ ~Between(w, c)
  BY DEF Ready
<1>2. /\ SameFresh(v, w) /\ Placed(v, w) /\ SamePhases(v, w)
      /\ \A d \in Calls : \A y \in Addresses :
           Task(v, d, y) = IF d = c /\ y \in B THEN Starting(w, y) ELSE Task(w, d, y)
      /\ \A d, g : Has(v, d, g) <=>
           Has(w, d, g) \/ (d = c /\ \E y \in B : g = Address(y) /\ Address(y) \notin w.syncing)
  BY <1>1, StartFacts
<1>3. /\ B \subseteq Addresses
      /\ \A x : x \in B <=> \E k \in n..(n + GAP - 1) : x = <<a, k>>
  BY <1>1, BlockFacts
<1>4. n \in Nat /\ GAP \in Nat \ {0} /\ \A i \in Indices : i \in Nat
  BY <1>1, WalletFacts, MultipleFacts, IndexAddress
<1>5. n \in Multiples /\ (a = 0 => Opened(U, n))
  BY DEF Placing, PlaceOK
<1> HIDE DEF v, B
<1>6. Placing(v, U)
  BY <1>2 DEF Placing, PlaceOK, Placed
<1>7. ~Between(v, c)
  BY <1>1, <1>2, <1>3, GateFacts DEF Between
<1>8. AccountOf(v, c) = a /\ IndexOf(v, c) = n /\ v.freshAddressIndex = w.freshAddressIndex
  BY <1>2 DEF Placed, SameFresh
<1> HIDE DEF n, a
<1>9. ASSUME NEW i \in Indices PROVE <<0, i>> \in B <=> a = 0 /\ i >= n /\ i < n + GAP
  <2>1. ASSUME <<0, i>> \in B PROVE a = 0 /\ i >= n /\ i < n + GAP
    <3>1. PICK k \in n..(n + GAP - 1) : <<0, i>> = <<a, k>>
      BY <1>3, <2>1
    <3>2. a = 0 /\ k = i
      BY <3>1
    <3> QED
      BY <1>4, <3>2
  <2>2. ASSUME a = 0, i >= n, i < n + GAP PROVE <<0, i>> \in B
    <3>1. i \in n..(n + GAP - 1)
      BY <1>4, <2>2
    <3> QED
      BY <1>3, <2>2, <3>1
  <2> QED
    BY <2>1, <2>2
<1>10. ASSUME NEW i \in Indices, <<0, i>> \in B PROVE AtIndex(v, c, i) \in {"waits", "starts"}
  <2>1. Task(v, c, <<0, i>>) = Starting(w, <<0, i>>)
    BY <1>2, <1>10, IndexAddress
  <2>2. Task(v, c, <<0, i>>).phase \in {"waits", "starts"}
    BY <2>1, StartingFacts
  <2> QED
    BY <2>2, TaskAtIs DEF AtIndex
<1>11. ASSUME NEW d \in Calls, NEW i \in Indices, d # c \/ <<0, i>> \notin B
       PROVE  AtIndex(v, d, i) = AtIndex(w, d, i)
  BY <1>2, <1>11, TaskAt, IndexAddress DEF AtIndex
<1>12. \A d \in Calls, i \in Indices : AtIndex(v, d, i) \in Fetching => AtIndex(w, d, i) \in Fetching
  BY <1>10, <1>11 DEF Fetching
<1>13. ASSUME NEW i \in Indices, <<0, i>> \in B PROVE Opened(U, i)
  <2>1. i \in n..(n + GAP - 1)
    BY <1>4, <1>9, <1>13
  <2> QED
    BY <1>5, <1>9, <1>13, <2>1, OpenedIn
<1>14. Looked(v, S, U)
  <2> SUFFICES ASSUME NEW i \in Indices, i \in S \/ LookedAt(v, i) PROVE Opened(U, i)
    BY DEF Looked
  <2>1. CASE <<0, i>> \in B
    BY <1>13, <2>1
  <2>2. CASE <<0, i>> \notin B
    <3>1. i \in S \/ LookedAt(w, i)
      BY <1>11, <2>2 DEF LookedAt
    <3> QED
      BY <3>1 DEF Looked
  <2> QED
    BY <2>1, <2>2
<1>15. FoundUsed(v, U)
  <2> SUFFICES ASSUME NEW d \in Calls, NEW i \in Indices, AtIndex(v, d, i) = "used" PROVE i \in U
    BY DEF FoundUsed
  <2>1. AtIndex(w, d, i) = "used"
    BY <1>10, <1>11
  <2> QED
    BY <2>1 DEF FoundUsed
<1>16. ASSUME NEW i \in Indices, Ahead(w, c, i) PROVE ToVisit(v, c, i)
  <2>1. a = 0 /\ i >= n
    BY <1>16 DEF Ahead, a, n
  <2>2. CASE i < n + GAP
    <3>1. AtIndex(v, c, i) \notin Ended
      BY <1>9, <1>10, <2>1, <2>2 DEF Ended
    <3> QED
      BY <1>8, <2>1, <3>1 DEF ToVisit
  <2>3. CASE i >= n + GAP
    BY <1>8, <2>1, <2>3 DEF ToVisit
  <2> QED
    BY <1>4, <2>2, <2>3
<1>17. Below(v, c, S)
  BY <1>8, <1>16 DEF Below, BelowAhead
<1>18. Above(v, c)
  BY <1>12, <1>16 DEF Above, AboveAhead, AskedByOther
<1>19. Beyond(v, c, S, U)
  <2> SUFFICES ASSUME a = 0, NEW i \in Indices, i >= n + GAP, i \in S \/ Asking(v, i)
               PROVE  BlockUsed(v, c, U)
    BY <1>8 DEF Beyond
  <2>1. i \in S \/ LookedAt(w, i)
    BY <1>12 DEF Asking, LookedAt, Fetching
  <2>2. Opened(U, i)
    BY <2>1 DEF Looked
  <2>3. PICK j \in n..(n + GAP - 1) : j \in U
    BY <1>5, <2>2 DEF Opened
  <2>4. j \in Indices /\ <<0, j>> \in B
    <3>1. <<0, j>> \in B
      BY <1>3, <2>3
    <3>2. j \in Indices
      BY <1>1, <1>4, <2>3, XpubAssumption DEF Indices, n
    <3> QED
      BY <3>1, <3>2
  <2>5. AtIndex(v, c, j) # "unused"
    BY <1>10, <2>4
  <2> QED
    BY <1>8, <2>3, <2>5 DEF BlockUsed
<1>20. AllGo(v, S, U)
  <2> SUFFICES ASSUME NEW d \in Calls, Phase(v, d) = "running" PROVE d = c
    BY <1>17, <1>18, <1>19 DEF AllGo, Going, Goes
  <2>1. Phase(w, d) = "running"
    BY <1>2 DEF SamePhases
  <2> QED
    BY <1>1, <2>1 DEF OneRuns
<1> QED
  BY <1>6, <1>14, <1>15, <1>20 DEF FreshIn, v

(***************************************************************************)
(* The end of a block.                                                     *)
(***************************************************************************)

AllBelow(w, S) == \A i \in Indices : i \in S => i < w.freshAddressIndex
NoneAsked(w, c) == \A i \in Indices : ~AskedByOther(w, c, i)

\* The addresses of a block to receive on.
LEMMA BlockIndices ==
  ASSUME NEW w, NEW c \in Calls, Ready(w, c), AccountOf(w, c) = 0
  PROVE  /\ \A i \in Indices : i >= IndexOf(w, c) /\ i < IndexOf(w, c) + GAP => <<0, i>> \in Block(w, c)
         /\ \A j \in IndexOf(w, c)..(IndexOf(w, c) + GAP - 1) : j \in Indices /\ <<0, j>> \in Block(w, c)
         /\ \A x \in Block(w, c) : \E j \in IndexOf(w, c)..(IndexOf(w, c) + GAP - 1) : x = <<0, j>>
<1> DEFINE n == IndexOf(w, c)
<1>1. w \in Wallets /\ n + GAP <= MaxIndex + 1
  BY DEF Ready
<1>2. \A x : x \in Block(w, c) <=> \E i \in n..(n + GAP - 1) : x = <<0, i>>
  <2>1. \A x : x \in Block(w, c) <=> \E i \in n..(n + GAP - 1) : x = <<AccountOf(w, c), i>>
    BY <1>1, BlockFacts
  <2> QED
    BY <2>1
<1>3. n \in Nat /\ GAP \in Nat \ {0} /\ MaxIndex \in Nat /\ \A i \in Indices : i \in Nat
  BY <1>1, WalletFacts, MultipleFacts, IndexAddress, XpubAssumption
<1> HIDE DEF n
<1>4. \A i \in Indices : i >= n /\ i < n + GAP => i \in n..(n + GAP - 1)
  BY <1>3
<1>5. \A j \in n..(n + GAP - 1) : j \in Indices
  BY <1>1, <1>3 DEF Indices
<1> QED
  BY <1>2, <1>4, <1>5 DEF n

\* Nothing that is stored or asked for is left to be looked at.
LEMMA BlockRead ==
  ASSUME NEW w, NEW c \in Calls, Ready(w, c), AllEnded(w, c), ~SomeUsed(w, c),
         NEW S, NEW U, Going(w, c, S, U)
  PROVE  AllBelow(w, S) /\ NoneAsked(w, c)
<1>1. w \in Wallets /\ Phase(w, c) = "running" /\ ~Between(w, c)
      /\ \A x \in Addresses : At(w, c, x) \in {"none", "used", "unused"}
  BY DEF Ready
<1>2. ASSUME NEW i \in Indices, i \in S \/ AskedByOther(w, c, i), ToVisit(w, c, i) PROVE FALSE
  <2>1. AccountOf(w, c) = 0
    BY <1>2 DEF ToVisit
  <2>2. i \in Nat /\ IndexOf(w, c) \in Nat /\ GAP \in Nat
    BY <1>1, WalletFacts, MultipleFacts, IndexAddress
  <2>3. CASE i >= IndexOf(w, c) + GAP
    <3>1. i \in S \/ Asking(w, i)
      BY <1>2 DEF Asking, AskedByOther
    <3>2. BlockUsed(w, c, U)
      BY <1>1, <2>1, <2>3, <3>1 DEF Going, Beyond
    <3>3. PICK j \in IndexOf(w, c)..(IndexOf(w, c) + GAP - 1) : AtIndex(w, c, j) # "unused"
      BY <3>2 DEF BlockUsed
    <3>4. j \in Indices /\ <<0, j>> \in Block(w, c)
      BY <2>1, <3>3, BlockIndices
    <3>5. AtIndex(w, c, j) \in Ended /\ AtIndex(w, c, j) # "used"
      BY <3>4 DEF AllEnded, SomeUsed, AtIndex
    <3>6. AtIndex(w, c, j) \in {"none", "used", "unused"}
      BY <1>1, <3>4, IndexAddress DEF AtIndex
    <3> QED
      BY <3>3, <3>5, <3>6 DEF Ended
  <2>4. CASE i < IndexOf(w, c) + GAP
    <3>1. i >= IndexOf(w, c) /\ AtIndex(w, c, i) \notin Ended
      BY <1>1, <1>2, <2>2, <2>4 DEF ToVisit
    <3>2. <<0, i>> \in Block(w, c)
      BY <2>1, <2>4, <3>1, BlockIndices
    <3> QED
      BY <3>1, <3>2 DEF AllEnded, AtIndex
  <2> QED
    BY <2>2, <2>3, <2>4
<1>3. AllBelow(w, S)
  BY <1>2 DEF Going, Below, AllBelow
<1>4. NoneAsked(w, c)
  BY <1>2 DEF Going, Above, NoneAsked
<1> QED
  BY <1>3, <1>4

LEMMA OneRunsFrame ==
  ASSUME NEW v, NEW w, SamePhases(v, w), SameTasks(v, w), OneRuns(w)
  PROVE  OneRuns(v)
<1>1. \A d \in Calls : \A x \in Addresses : At(v, d, x) = At(w, d, x)
  BY TaskAt DEF SameTasks
<1> QED
  BY <1>1 DEF OneRuns, SamePhases

LEMMA AskedFrame ==
  ASSUME NEW v, NEW w, SameTasks(v, w), NEW c \in Calls, NEW i \in Indices, AskedByOther(v, c, i)
  PROVE  AskedByOther(w, c, i)
<1>1. PICK d \in Calls \ {c} : AtIndex(v, d, i) \in Fetching
  BY DEF AskedByOther
<1>2. Task(v, d, <<0, i>>) = Task(w, d, <<0, i>>)
  BY IndexAddress DEF SameTasks
<1>3. AtIndex(v, d, i) = AtIndex(w, d, i)
  BY <1>2, TaskAt DEF AtIndex
<1> QED
  BY <1>1, <1>3 DEF AskedByOther

LEMMA FreshNextBlock ==
  ASSUME NEW w, NEW c \in Calls, Ready(w, c), OneRuns(w), AllEnded(w, c), SomeUsed(w, c),
         NEW S, NEW U, FreshIn(w, S, U),
         IndexOf(StartBlock(NextBlock(w, c), c), c) + GAP <= MaxIndex + 1
  PROVE  FreshIn(StartBlock(NextBlock(w, c), c), S, U)
<1> DEFINE v == NextBlock(w, c)
           n == IndexOf(w, c)
<1>1. w \in Wallets /\ Phase(w, c) = "running" /\ ~Between(w, c)
  BY DEF Ready
<1>2. Ready(v, c)
  BY StartIndex, NextBlockReady
<1>3. /\ SameFresh(v, w) /\ SamePhases(v, w) /\ SameTasks(v, w)
      /\ \A d \in Calls : AccountOf(v, d) = AccountOf(w, d)
      /\ IndexOf(v, c) = n + GAP /\ \A d \in Calls \ {c} : IndexOf(v, d) = IndexOf(w, d)
  BY <1>1, NextBlockFacts
<1> HIDE DEF v
<1>4. Goes(w, c) /\ Going(w, c, S, U)
  BY <1>1 DEF Goes, Between, FreshIn, AllGo
<1>5. n \in Nat /\ GAP \in Nat /\ n \in Multiples /\ (AccountOf(w, c) = 0 => Opened(U, n))
      /\ \A i \in Indices : i \in Nat
  BY <1>1, WalletFacts, MultipleFacts, IndexAddress DEF FreshIn, Placing, PlaceOK
<1>6. PlaceOK(v, c, U)
  <2>1. n + GAP \in Multiples
    BY <1>5, MultipleFacts
  <2>2. ASSUME AccountOf(w, c) = 0 PROVE Opened(U, n + GAP)
    <3>1. PICK x \in Block(w, c) : At(w, c, x) = "used"
      BY DEF SomeUsed
    <3>2. PICK j \in n..(n + GAP - 1) : x = <<0, j>>
      BY <2>2, BlockIndices
    <3>3. j \in Indices
      BY <2>2, BlockIndices
    <3>4. j \in U
      BY <3>1, <3>2, <3>3 DEF FreshIn, FoundUsed, AtIndex
    <3> QED
      BY <1>5, <2>2, <3>4, OpenedNext
  <2> QED
    BY <1>3, <2>1, <2>2 DEF PlaceOK
<1>7. Placing(v, U)
  <2>1. ASSUME NEW d \in Calls, d # c PROVE PlaceOK(v, d, U)
    <3>1. PlaceOK(w, d, U)
      BY DEF FreshIn, Placing
    <3> QED
      BY <1>3, <2>1, <3>1 DEF PlaceOK
  <2> QED
    BY <1>6, <2>1 DEF Placing
<1>8. Looked(v, S, U) /\ FoundUsed(v, U)
  BY <1>3, SameLooked DEF FreshIn
<1>9. ASSUME NEW i \in Indices, ToVisit(w, c, i) PROVE Ahead(v, c, i)
  <2>1. AccountOf(w, c) = 0
    BY <1>9 DEF ToVisit
  <2>2. i >= n + GAP
    <3> SUFFICES ASSUME i < n + GAP PROVE FALSE
      BY <1>5
    <3>1. i >= n /\ AtIndex(w, c, i) \notin Ended
      BY <1>1, <1>5, <1>9 DEF ToVisit
    <3>2. <<0, i>> \in Block(w, c)
      BY <2>1, <3>1, BlockIndices
    <3> QED
      BY <3>1, <3>2 DEF AllEnded, AtIndex
  <2> QED
    BY <1>3, <2>1, <2>2 DEF Ahead
<1>10. BelowAhead(v, c, S)
  BY <1>3, <1>4, <1>9 DEF BelowAhead, Going, Below, SameFresh
<1>11. AboveAhead(v, c)
  BY <1>3, <1>4, <1>9, AskedFrame DEF AboveAhead, Going, Above
<1>12. OneRuns(v)
  BY <1>3, OneRunsFrame
<1>13. FreshIn(StartBlock(v, c), S, U)
  BY <1>2, <1>7, <1>8, <1>10, <1>11, <1>12, FreshStart
<1> QED
  BY <1>13 DEF v

LEMMA FreshNextAccount ==
  ASSUME NEW w, NEW c \in Calls, Ready(w, c), OneRuns(w), AllEnded(w, c), ~SomeUsed(w, c),
         NEW S, NEW U, FreshIn(w, S, U)
  PROVE  FreshIn(whenSyncedAccount(NextAccount(w, c), c), S, U)
<1> DEFINE u == NextAccount(w, c)
           v == whenSyncedAccount(u, c)
<1>1. w \in Wallets /\ Phase(w, c) = "running" /\ ~Between(w, c)
  BY DEF Ready
<1>2. /\ SameFresh(u, w) /\ SamePhases(u, w) /\ SameTasks(u, w)
      /\ \A d \in Calls : IndexOf(u, d) = IndexOf(w, d)
      /\ AccountOf(u, c) = 1 /\ \A d \in Calls \ {c} : AccountOf(u, d) = AccountOf(w, d)
  BY <1>1, NextAccountFacts
<1>3. Ready(u, c)
  BY NextAccountReady
<1>4. /\ SameTasks(v, u) /\ SameFresh(v, u) /\ Placed(v, u)
      /\ \A d \in Calls \ {c} : Phase(v, d) = Phase(u, d)
  BY <1>3, AccountFrame
<1> HIDE DEF u, v
<1>5. SameTasks(v, w) /\ v.freshAddressIndex = w.freshAddressIndex
  BY <1>2, <1>4 DEF SameTasks, SameFresh
<1>6. Goes(w, c) /\ Going(w, c, S, U)
  BY <1>1 DEF Goes, Between, FreshIn, AllGo
<1>7. AllBelow(w, S) /\ NoneAsked(w, c)
  BY <1>6, BlockRead
<1>8. AccountOf(v, c) = 1
  BY <1>2, <1>4 DEF Placed
<1>9. Placing(v, U)
  <2>1. ASSUME NEW d \in Calls PROVE PlaceOK(v, d, U)
    <3>1. PlaceOK(w, d, U)
      BY DEF FreshIn, Placing
    <3>2. IndexOf(v, d) = IndexOf(w, d) /\ (d # c => AccountOf(v, d) = AccountOf(w, d))
      BY <1>2, <1>4 DEF Placed
    <3> QED
      BY <1>8, <3>1, <3>2 DEF PlaceOK
  <2> QED
    BY <2>1 DEF Placing
<1>10. Looked(v, S, U) /\ FoundUsed(v, U)
  BY <1>5, SameLooked DEF FreshIn
<1>11. Below(v, c, S)
  BY <1>5, <1>7 DEF Below, AllBelow
<1>12. Above(v, c)
  BY <1>5, <1>7, AskedFrame DEF Above, NoneAsked
<1>13. Beyond(v, c, S, U)
  BY <1>8 DEF Beyond
<1>14. ASSUME NEW d \in Calls, Goes(v, d) PROVE d = c
  <2>1. CASE d # c
    <3>1. Phase(w, d) = "running"
      BY <1>2, <1>4, <1>14, <2>1 DEF Goes, SamePhases
    <3> QED
      BY <1>1, <3>1 DEF OneRuns
  <2> QED
    BY <2>1
<1>15. AllGo(v, S, U)
  BY <1>11, <1>12, <1>13, <1>14 DEF AllGo, Going
<1> QED
  BY <1>9, <1>10, <1>15 DEF FreshIn, v, u

LEMMA FreshEndAll ==
  ASSUME NEW w, NEW c \in Calls, Ready(w, c), OneRuns(w), AllEnded(w, c), ~SomeUsed(w, c),
         NEW S, NEW U, FreshIn(w, S, U)
  PROVE  LET v == EndAll(Opens(w, c), c)
         IN  /\ FreshIn(v, S, U)
             /\ \A d \in Calls : Phase(v, d) = "done" => d = c \/ Phase(w, d) = "done"
             /\ \A i \in Indices : i \in S => i < v.freshAddress
<1> DEFINE u == Opens(w, c)
           v == EndAll(u, c)
<1>1. w \in Wallets /\ Phase(w, c) = "running" /\ ~Between(w, c)
  BY DEF Ready
<1>2. u \in Wallets /\ SameFresh(u, w) /\ SameCalls(u, w)
  BY <1>1, OpensFacts
<1>3. Phase(u, c) = "running"
  BY <1>1, <1>2 DEF SameCalls, SamePhases
<1> HIDE DEF u
<1>4. /\ v.freshAddress = u.freshAddressIndex /\ Placed(v, u) /\ SameTasks(v, u)
      /\ \A d \in Calls : Phase(v, d) =
           IF d = c THEN "done" ELSE IF Phase(u, d) = "waitsForAll" THEN "running" ELSE Phase(u, d)
      /\ \A d \in Calls : \A g : Has(v, d, g) <=> Has(u, d, g) \/ (g = All /\ Phase(u, d) = "waitsForAll")
  BY <1>2, <1>3, EndAllFacts
<1> HIDE DEF v
<1>5. Goes(w, c) /\ Going(w, c, S, U)
  BY <1>1 DEF Goes, Between, FreshIn, AllGo
<1>6. AllBelow(w, S)
  BY <1>5, BlockRead
<1>7. SameTasks(v, w) /\ Placed(v, w)
  BY <1>2, <1>4 DEF SameCalls, SameTasks, Placed
<1>8. Placing(v, U)
  BY <1>7 DEF FreshIn, Placing, PlaceOK, Placed
<1>9. Looked(v, S, U) /\ FoundUsed(v, U)
  BY <1>7, SameLooked DEF FreshIn
<1>10. ASSUME NEW d \in Calls, Goes(v, d) PROVE FALSE
  <2>1. d # c
    BY <1>4, <1>10 DEF Goes
  <2>2. Phase(u, d) # "waitsForAll"
    BY <1>4, <1>10 DEF Goes
  <2>3. Phase(w, d) = "running"
    BY <1>2, <1>4, <1>10, <2>1, <2>2 DEF Goes, SameCalls, SamePhases
  <2> QED
    BY <1>1, <2>1, <2>3 DEF OneRuns
<1>11. AllGo(v, S, U)
  BY <1>10 DEF AllGo
<1>12. \A d \in Calls : Phase(v, d) = "done" => d = c \/ Phase(w, d) = "done"
  BY <1>2, <1>4 DEF SameCalls, SamePhases
<1>13. \A i \in Indices : i \in S => i < v.freshAddress
  BY <1>2, <1>4, <1>6 DEF AllBelow, SameFresh
<1> QED
  BY <1>8, <1>9, <1>11, <1>12, <1>13 DEF FreshIn, v, u

\* Who is done tells an address that is not used, nor one after it.
ToldRight(v, w, S) ==
  \A d \in Calls : Phase(v, d) = "done" /\ Phase(w, d) # "done" =>
    \A i \in Indices : i \in S => i < v.freshAddress

LEMMA FreshEndBlock ==
  ASSUME NEW w, CallsOK(w), TwoOK(w), NEW c \in Calls, \A d \in Calls \ {c} : BusyAt(w, d),
         ~Between(w, c), NEW S, NEW U, FreshIn(w, S, U),
         IndexOf(EndBlock(w, c), c) + GAP <= MaxIndex + 1
  PROVE  FreshIn(EndBlock(w, c), S, U) /\ ToldRight(EndBlock(w, c), w, S)
<1> DEFINE v == EndBlock(w, c)
<1>1. OneRuns(w)
  BY DEF TwoOK
<1>2. CASE v = w /\ BusyAt(w, c)
  BY <1>2 DEF ToldRight
<1>3. CASE /\ Ready(w, c) /\ AllEnded(w, c) /\ SomeUsed(w, c)
           /\ v = StartBlock(NextBlock(w, c), c)
  <2> DEFINE n == StartBlock(NextBlock(w, c), c)
  <2>1. FreshIn(n, S, U)
    BY <1>1, <1>3, FreshNextBlock
  <2>2. SamePhases(n, w)
    <3> DEFINE u == NextBlock(w, c)
    <3>1. w \in Wallets
      BY <1>3 DEF Ready
    <3>2. u \in Wallets /\ SamePhases(u, w)
      BY <3>1, NextBlockFacts
    <3>3. Ready(u, c)
      BY <1>3, StartIndex, NextBlockReady
    <3>4. IndexOf(u, c) + GAP <= MaxIndex + 1
      BY <3>3 DEF Ready
    <3>5. SamePhases(StartBlock(u, c), u)
      BY <3>2, <3>4, StartFacts
    <3> QED
      BY <3>2, <3>5 DEF SamePhases
  <2> HIDE DEF n
  <2>3. ToldRight(n, w, S)
    BY <2>2 DEF ToldRight, SamePhases
  <2> QED
    BY <1>3, <2>1, <2>3 DEF n
<1>4. CASE /\ Ready(w, c) /\ AllEnded(w, c) /\ ~SomeUsed(w, c)
           /\ v = whenSyncedAccount(NextAccount(w, c), c)
  <2> DEFINE u == NextAccount(w, c)
             n == whenSyncedAccount(u, c)
  <2>1. FreshIn(n, S, U)
    BY <1>1, <1>4, FreshNextAccount
  <2>2. \A d \in Calls : Phase(n, d) = "done" => Phase(w, d) = "done"
    <3>1. w \in Wallets /\ Ready(u, c)
      BY <1>4, NextAccountReady DEF Ready
    <3>2. SamePhases(u, w)
      BY <3>1, NextAccountFacts
    <3> HIDE DEF u
    <3>3. /\ \A d \in Calls \ {c} : Phase(n, d) = Phase(u, d)
          /\ Phase(n, c) \in {"running", "waitsForAccount"}
      BY <3>1, AccountFrame
    <3> QED
      BY <3>2, <3>3 DEF SamePhases
  <2> HIDE DEF n
  <2>3. ToldRight(n, w, S)
    BY <2>2 DEF ToldRight
  <2> QED
    BY <1>4, <2>1, <2>3 DEF n
<1>5. CASE /\ Ready(w, c) /\ AllEnded(w, c) /\ ~SomeUsed(w, c)
           /\ v = EndAll(Opens(w, c), c)
  <2> DEFINE n == EndAll(Opens(w, c), c)
  <2>1. FreshIn(n, S, U) /\ \A i \in Indices : i \in S => i < n.freshAddress
    BY <1>1, <1>5, FreshEndAll
  <2> HIDE DEF n
  <2>2. ToldRight(n, w, S)
    BY <2>1 DEF ToldRight
  <2> QED
    BY <1>5, <2>1, <2>2 DEF n
<1> QED
  BY <1>2, <1>3, <1>4, <1>5, EndBlockCases

(***************************************************************************)
(* The steps.                                                              *)
(***************************************************************************)

WithTxs(f) == {i \in Indices : f[<<0, i>>].txs # <<>>}
Touched == {i \in Indices : \E t \in pool \cup (InChain \cap Txs) : Touches(t, <<0, i>>)}

FreshInv == setting.calls <= 2 => FreshIn(wallet, WithTxs(storage), Touched)

LEMMA FreshRenewed ==
  ASSUME NEW v, NEW C, Renewed(v, C), NEW S, NEW U, \A i \in Indices : i \in S => Opened(U, i)
  PROVE  FreshIn(v, S, U)
<1>1. \A c \in Calls : \A i \in Indices : AtIndex(v, c, i) = "none"
  BY IndexAddress DEF Renewed, AtIndex
<1>2. Placing(v, U)
  BY MultipleFacts, OpenedFirst DEF Renewed, Placing, PlaceOK
<1>3. Looked(v, S, U) /\ FoundUsed(v, U)
  BY <1>1 DEF Looked, LookedAt, FoundUsed
<1>4. AllGo(v, S, U)
  BY DEF AllGo, Goes, Renewed
<1> QED
  BY <1>2, <1>3, <1>4 DEF FreshIn

LEMMA FreshPassAll ==
  ASSUME NEW n, n <= 2, WalletOK(wallet, n), Passes("all"), NEW S, NEW U, FreshIn(wallet, S, U)
  PROVE  LET c == Head(wallet.micro).call
             v == whenSyncedAccount([Passed EXCEPT !.freshAddressIndex = 0], c)
         IN  FreshIn(v, S, U) /\ \A d \in Calls : Phase(v, d) = "done" => Phase(wallet, d) = "done"
<1> DEFINE w == wallet
           c == Head(wallet.micro).call
           u == [Passed EXCEPT !.freshAddressIndex = 0]
           v == whenSyncedAccount(u, c)
<1>1. c \in Calls /\ Has(w, c, All) /\ Ready(u, c) /\ SameCalls(u, w) /\ SameTasks(v, w)
  BY PassAllFacts
<1>2. CallOK(w, c) /\ OneRuns(w)
  BY <1>1 DEF WalletOK, CallsOK, TwoOK
<1>3. Phase(w, c) = "running" /\ AccountOf(w, c) = 0
  BY <1>1, <1>2 DEF CallOK
<1>4. /\ Placed(v, u) /\ \A d \in Calls \ {c} : Phase(v, d) = Phase(u, d)
      /\ Phase(v, c) \in {"running", "waitsForAccount"}
      /\ Phase(v, c) = "running" => Between(v, c)
  BY <1>1, AccountFrame
<1> HIDE DEF v, u
<1>5. Placed(v, w) /\ \A d \in Calls \ {c} : Phase(v, d) = Phase(w, d)
  BY <1>1, <1>4 DEF Placed, SameCalls, SamePhases
<1>6. Placing(v, U)
  BY <1>5 DEF FreshIn, Placing, PlaceOK, Placed
<1>7. Looked(v, S, U) /\ FoundUsed(v, U)
  BY <1>1, SameLooked DEF FreshIn
<1>8. ASSUME NEW d \in Calls, Goes(v, d) PROVE Going(v, d, S, U)
  <2>1. d = c
    <3>1. CASE d # c
      <4>1. Phase(w, d) = "running"
        BY <1>5, <1>8, <3>1 DEF Goes
      <4> QED
        BY <1>1, <1>2, <1>3, <3>1, <4>1 DEF OneRuns
    <3> QED
      BY <3>1
  <2>2. AccountOf(v, c) = 0 /\ Between(v, c)
    BY <1>1, <1>3, <1>4, <1>5, <1>8, <2>1 DEF Goes, Placed
  <2>3. \A i : ToVisit(v, d, i)
    BY <2>1, <2>2 DEF ToVisit
  <2> QED
    BY <2>1, <2>2, <2>3 DEF Going, Below, Above, Beyond
<1>9. AllGo(v, S, U)
  BY <1>8 DEF AllGo
<1>10. \A d \in Calls : Phase(v, d) = "done" => Phase(w, d) = "done"
  BY <1>4, <1>5
<1> QED
  BY <1>6, <1>7, <1>9, <1>10 DEF FreshIn, v, u

LEMMA FreshPassAccount ==
  ASSUME NEW n, n <= 2, WalletOK(wallet, n), Passes("account"), NEW S, NEW U, FreshIn(wallet, S, U)
  PROVE  LET c == Head(wallet.micro).call
             v == StartBlock([Passed EXCEPT !.calls[c].index = 0], c)
         IN  FreshIn(v, S, U) /\ \A d \in Calls : Phase(v, d) = "done" => Phase(wallet, d) = "done"
<1> DEFINE w == wallet
           c == Head(wallet.micro).call
           u == [Passed EXCEPT !.calls[c].index = 0]
           v == StartBlock(u, c)
<1>1. /\ c \in Calls /\ Ready(u, c) /\ Between(w, c)
      /\ u.freshAddressIndex = w.freshAddressIndex
      /\ SamePhases(u, w) /\ SameTasks(u, w)
      /\ \A d \in Calls : AccountOf(u, d) = AccountOf(w, d)
      /\ IndexOf(u, c) = 0 /\ \A d \in Calls \ {c} : IndexOf(u, d) = IndexOf(w, d)
      /\ \A d : Has(u, d, All) <=> Has(w, d, All)
  BY PassAccountFacts
<1>2. OneRuns(w)
  BY DEF WalletOK, TwoOK
<1>3. u \in Wallets /\ Phase(u, c) = "running" /\ ~Between(u, c) /\ IndexOf(u, c) + GAP <= MaxIndex + 1
  BY <1>1 DEF Ready
<1>4. SamePhases(v, u)
  BY <1>1, <1>3, StartFacts
<1> HIDE DEF v, u
<1>5. OneRuns(u)
  BY <1>1, <1>2, OneRunsFrame
<1>6. Looked(u, S, U) /\ FoundUsed(u, U)
  BY <1>1, SameLooked DEF FreshIn
<1>7. Placing(u, U)
  <2>1. PlaceOK(u, c, U)
    BY <1>1, MultipleFacts, OpenedFirst DEF PlaceOK
  <2>2. ASSUME NEW d \in Calls, d # c PROVE PlaceOK(u, d, U)
    <3>1. PlaceOK(w, d, U)
      BY DEF FreshIn, Placing
    <3> QED
      BY <1>1, <2>2, <3>1 DEF PlaceOK
  <2> QED
    BY <2>1, <2>2 DEF Placing
<1>8. Goes(w, c)
  BY <1>1, <1>3 DEF Goes, SamePhases, Between
<1>9. Going(w, c, S, U)
  BY <1>1, <1>8 DEF FreshIn, AllGo
<1>10. ASSUME NEW i \in Indices, ToVisit(w, c, i) PROVE Ahead(u, c, i)
  <2>1. i \in Nat /\ AccountOf(u, c) = 0
    BY <1>1, <1>10, IndexAddress DEF ToVisit
  <2> QED
    BY <1>1, <2>1 DEF Ahead
<1>11. BelowAhead(u, c, S)
  BY <1>1, <1>9, <1>10 DEF BelowAhead, Going, Below
<1>12. AboveAhead(u, c)
  BY <1>1, <1>9, <1>10, AskedFrame DEF AboveAhead, Going, Above
<1>13. FreshIn(StartBlock(u, c), S, U)
  BY <1>1, <1>5, <1>6, <1>7, <1>11, <1>12, FreshStart
<1>14. \A d \in Calls : Phase(v, d) = "done" => Phase(w, d) = "done"
  BY <1>1, <1>4 DEF SamePhases
<1> QED
  BY <1>13, <1>14 DEF v, u

\* What a request or the storing of a page is to the fresh address.
LEMMA FreshAsks ==
  ASSUME NEW n, n <= 2, NEW w, WalletOK(w, n), NEW v, v \in Wallets,
         NEW c \in Calls, NEW x \in Addresses, At(w, c, x) \in Held,
         NEW t, t.phase \in Fetching, Asks(v, w, c, x, t),
         NEW S, NEW T, NEW U, StoresAsked(w, T, S), FreshIn(w, S, U)
  PROVE  FreshIn(v, T, U)
<1>1. w \in Wallets /\ CallsOK(w) /\ OneRuns(w) /\ OneHolder(w)
  BY DEF WalletOK, CallsOK, TwoOK
<1>2. v.freshAddressIndex \in Nat /\ w.freshAddressIndex \in Nat /\ SameFresh(v, w)
  BY <1>1, WalletFacts DEF Asks
<1>3. ASSUME NEW d \in Calls, NEW i \in Indices, d # c \/ <<0, i>> # x
      PROVE  AtIndex(v, d, i) = AtIndex(w, d, i)
  BY <1>3, TaskAt, IndexAddress DEF Asks, AtIndex
<1>4. ASSUME NEW i \in Indices, <<0, i>> = x
      PROVE  AtIndex(v, c, i) \in Fetching /\ AtIndex(w, c, i) \in Held
  BY <1>4, TaskAtIs DEF Asks, AtIndex
<1>5. StaysAt(v, w)
  BY DEF StaysAt, Goes, Asks, SamePhases
<1>6. NoneLooked(v, w)
  BY <1>3, <1>4 DEF NoneLooked, Held
<1>7. UsedIs(v, w, U) /\ UnusedIs(v, w, U)
  BY <1>3, <1>4 DEF UsedIs, UnusedIs, Fetching
<1>8. AsksHeld(v, w)
  BY <1>3, <1>4 DEF AsksHeld, Fetching, Held
<1>9. EndsBelow(v, w, T)
  BY <1>3, <1>4 DEF EndsBelow, Fetching, Ended
<1>10. w.freshAddressIndex <= v.freshAddressIndex
  BY <1>2 DEF SameFresh
<1>11. Soft(v, w, T, S, U)
  BY <1>5, <1>6, <1>7, <1>8, <1>9, <1>10 DEF Soft, Asks
<1> QED
  BY <1>1, <1>2, <1>11, SoftStep

LEMMA FreshSync ==
  ASSUME Types, setting.calls <= 2, NEW c \in Calls, sync(c), NEW S, NEW U, FreshIn(wallet, S, U)
  PROVE  /\ FreshIn(wallet', S, U)
         /\ \A d \in Calls : Phase(wallet', d) = "done" => Phase(wallet, d) = "done"
<1> DEFINE w == wallet
           v == wallet'
<1>1. /\ WalletStep /\ SameTasks(v, w)
      /\ \A d \in Calls \ {c} : Phase(v, d) = Phase(w, d)
      /\ Phase(v, c) = "waitsForAll" \/ (Phase(v, c) = "running" /\ Has(v, c, All))
      /\ Placed(v, w) /\ SameFresh(v, w)
      /\ \A d \in Calls \ {c} : \A g : Has(v, d, g) <=> Has(w, d, g)
  BY SyncCases
<1>2. WalletOK(w, setting.calls) /\ v \in Wallets
  BY <1>1 DEF Types, WalletInv, WalletStep, WalletOK, CallsOK
<1>3. w \in Wallets /\ CallsOK(w) /\ OneRuns(w) /\ OneHolder(w)
  BY <1>2 DEF WalletOK, CallsOK, TwoOK
<1> HIDE DEF w, v
<1>4. v.freshAddressIndex \in Nat /\ w.freshAddressIndex \in Nat /\ v.freshAddressIndex = w.freshAddressIndex
  BY <1>1, <1>2, <1>3, WalletFacts DEF SameFresh
<1>5. ASSUME NEW d \in Calls, NEW i \in Indices PROVE AtIndex(v, d, i) = AtIndex(w, d, i)
  BY <1>1, TaskAt, IndexAddress DEF SameTasks, AtIndex
<1>6. StaysAt(v, w)
  BY <1>1 DEF StaysAt, Goes, Between
<1>7. NoneLooked(v, w) /\ UsedIs(v, w, U) /\ UnusedIs(v, w, U) /\ AsksHeld(v, w) /\ EndsBelow(v, w, S)
  BY <1>5 DEF NoneLooked, UsedIs, UnusedIs, AsksHeld, EndsBelow, Fetching, Held
<1>8. StoresAsked(w, S, S)
  BY DEF StoresAsked
<1>9. Soft(v, w, S, S, U)
  BY <1>1, <1>4, <1>6, <1>7, <1>8 DEF Soft
<1>10. FreshIn(v, S, U)
  BY <1>3, <1>4, <1>9, SoftStep DEF w
<1>11. \A d \in Calls : Phase(v, d) = "done" => Phase(w, d) = "done"
  BY <1>1
<1> QED
  BY <1>10, <1>11 DEF v, w

LEMMA FreshFails ==
  ASSUME NEW n, n <= 2, NEW w, WalletOK(w, n), NEW c \in Calls, NEW x \in Addresses,
         At(w, c, x) \in Fetching, NEW S, NEW U, FreshIn(w, S, U)
  PROVE  LET v == FailAddress(w, c, x)
         IN  FreshIn(v, S, U) /\ \A d \in Calls : Phase(v, d) = "done" => Phase(w, d) = "done"
<1> DEFINE v == FailAddress(w, c, x)
<1>1. w \in Wallets /\ CallsOK(w) /\ OneRuns(w) /\ OneHolder(w)
  BY DEF WalletOK, CallsOK, TwoOK
<1>2. /\ v \in Wallets /\ SameFresh(v, w) /\ Placed(v, w)
      /\ \A d \in Calls : Phase(v, d) =
           IF d = c /\ Phase(w, c) = "running" THEN "failed" ELSE Phase(w, d)
      /\ At(v, c, x) = "failed"
      /\ \A d \in Calls : \A y \in Addresses : (d # c \/ y # x) => Task(v, d, y) = Task(w, d, y)
      /\ \A d, g : Has(v, d, g) <=> Has(w, d, g)
  BY <1>1, FailFacts
<1> HIDE DEF v
<1>3. v.freshAddressIndex \in Nat /\ w.freshAddressIndex \in Nat /\ v.freshAddressIndex = w.freshAddressIndex
  BY <1>1, <1>2, WalletFacts DEF SameFresh
<1>4. ASSUME NEW d \in Calls, NEW i \in Indices, d # c \/ <<0, i>> # x
      PROVE  AtIndex(v, d, i) = AtIndex(w, d, i)
  BY <1>2, <1>4, TaskAt, IndexAddress DEF AtIndex
<1>5. ASSUME NEW i \in Indices, <<0, i>> = x
      PROVE  AtIndex(v, c, i) = "failed" /\ AtIndex(w, c, i) \in Fetching
  BY <1>2, <1>5 DEF AtIndex
<1>6. ~Goes(v, c)
  BY <1>2 DEF Goes
<1>7. StaysAt(v, w)
  BY <1>2, <1>6 DEF StaysAt, Goes, Between
<1>8. NoneLooked(v, w)
  BY <1>4, <1>5 DEF NoneLooked, Fetching
<1>9. UsedIs(v, w, U) /\ UnusedIs(v, w, U)
  BY <1>4, <1>5 DEF UsedIs, UnusedIs
<1>10. AsksHeld(v, w)
  BY <1>4, <1>5 DEF AsksHeld, Fetching, Held
<1>11. EndsBelow(v, w, S)
  BY <1>4, <1>6 DEF EndsBelow
<1>12. StoresAsked(w, S, S)
  BY DEF StoresAsked
<1>13. Soft(v, w, S, S, U)
  BY <1>2, <1>3, <1>7, <1>8, <1>9, <1>10, <1>11, <1>12 DEF Soft
<1>14. FreshIn(v, S, U)
  BY <1>1, <1>3, <1>13, SoftStep
<1>15. \A d \in Calls : Phase(v, d) = "done" => Phase(w, d) = "done"
  BY <1>2
<1> QED
  BY <1>14, <1>15 DEF v

\* An address that agrees with the chain is used when it has anything stored.
LEMMA AgreesUsed ==
  ASSUME ChainInv, NEW i \in Indices, NEW s \in Stores, AgreesIn(s, <<0, i>>, chain, pool)
  PROVE  i \in Touched <=> s.txs # <<>>
<1> DEFINE x == <<0, i>>
           S == ToSet(s.txs)
<1>1. DOMAIN chain = 1..Len(chain)
  BY ChainInvType
<1>2. (s.txs = <<>>) <=> (S = {})
  BY StoreFacts
<1>3. \A h : h \in HeightsIn(chain, x) <=> h \in 1..Len(chain) /\ chain[h].tx \in Txs /\ Touches(chain[h].tx, x)
  BY DEF HeightsIn
<1>4. /\ \A e \in S : \/ \E h \in HeightsIn(chain, x) : e = EntryIn(chain, h)
                      \/ \E t \in pool : Touches(t, x) /\ e = Unconfirmed(t)
      /\ \A h \in HeightsIn(chain, x) : EntryIn(chain, h) \in S
      /\ \/ \A t \in pool : Touches(t, x) => Unconfirmed(t) \in S
         \/ Cardinality(S) >= PageSize
  BY DEF AgreesIn
<1>5. i \in Touched <=> \E t \in pool \cup (InChain \cap Txs) : Touches(t, x)
  BY DEF Touched
<1>6. \A t : t \in InChain <=> \E h \in 1..Len(chain) : chain[h].tx = t
  BY <1>1 DEF InChain
<1> HIDE DEF x, S
<1>7. ASSUME NEW e \in S PROVE i \in Touched
  <2>1. CASE \E h \in HeightsIn(chain, x) : e = EntryIn(chain, h)
    BY <1>3, <1>5, <1>6, <2>1
  <2>2. CASE \E t \in pool : Touches(t, x) /\ e = Unconfirmed(t)
    BY <1>5, <2>2
  <2> QED
    BY <1>4, <1>7, <2>1, <2>2
<1>8. ASSUME i \in Touched PROVE S # {}
  <2>1. PICK t \in pool \cup (InChain \cap Txs) : Touches(t, x)
    BY <1>5, <1>8
  <2>2. CASE t \in pool
    <3>1. CASE Unconfirmed(t) \in S
      BY <3>1
    <3>2. CASE Cardinality(S) >= PageSize
      <4>1. PageSize \in Nat \ {0}
        BY XpubAssumption
      <4>2. Cardinality({}) = 0
        BY FS_EmptySet
      <4> QED
        BY <3>2, <4>1, <4>2
    <3> QED
      BY <1>4, <2>1, <2>2, <3>1, <3>2
  <2>3. CASE t \in InChain \cap Txs
    <3>1. PICK h \in 1..Len(chain) : chain[h].tx = t
      BY <1>6, <2>3
    <3>2. h \in HeightsIn(chain, x)
      BY <1>3, <2>1, <2>3, <3>1
    <3> QED
      BY <1>4, <3>2
  <2> QED
    BY <2>2, <2>3
<1> QED
  BY <1>2, <1>7, <1>8

\* An address ends as the chain has it.
EndsAs(x, found, T, U) ==
  \A i \in Indices : x = <<0, i>> =>
    /\ (found = "used") <=> (i \in T)
    /\ i \in T <=> i \in U

LEMMA FreshBeforeBlock ==
  ASSUME NEW n, n <= 2, NEW w, WalletOK(w, n), NEW c \in Calls, NEW x \in Addresses,
         At(w, c, x) = "fetch", NEW found \in {"used", "unused"},
         NEW S, NEW T, NEW U, StoresAsked(w, T, S), EndsAs(x, found, T, U), FreshIn(w, S, U)
  PROVE  FreshIn(BeforeBlock(w, c, x, found), T, U)
<1> DEFINE v == BeforeBlock(w, c, x, found)
<1>1. w \in Wallets /\ CallsOK(w) /\ OneRuns(w) /\ OneHolder(w)
  BY DEF WalletOK, CallsOK, TwoOK
<1>2. /\ v \in Wallets
      /\ v.freshAddressIndex =
           IF x[1] = 0 /\ found = "used" /\ w.freshAddressIndex < x[2] + 1
           THEN x[2] + 1 ELSE w.freshAddressIndex
      /\ Placed(v, w) /\ SamePhases(v, w) /\ Task(v, c, x) = RestTask(found)
      /\ \A d \in Calls : \A y \in Addresses :
           (d # c \/ y # x) => IF y = x /\ At(w, d, x) = "waits" THEN At(v, d, y) = "starts"
                               ELSE Task(v, d, y) = Task(w, d, y)
      /\ \A d \in Calls : \A g : Has(v, d, g) <=> Has(w, d, g) \/ (g = Address(x) /\ At(w, d, x) = "waits")
  BY <1>1, BeforeBlockFacts
<1>3. Task(v, c, x).phase = found
  BY <1>2, RestFacts DEF Resting
<1> HIDE DEF v
<1>4. v.freshAddressIndex \in Nat /\ w.freshAddressIndex \in Nat
  BY <1>1, <1>2, WalletFacts
<1>5. \A i \in Indices : i \in Nat /\ <<0, i>> \in Addresses
  BY IndexAddress
<1>6. x[1] \in Nat /\ x[2] \in Nat
  BY XpubAssumption DEF Addresses, Accounts
<1>7. w.freshAddressIndex <= v.freshAddressIndex
  BY <1>2, <1>4, <1>6
<1>8. ASSUME NEW d \in Calls, NEW i \in Indices, d # c \/ <<0, i>> # x
      PROVE  AtIndex(v, d, i) = AtIndex(w, d, i) \/ (AtIndex(v, d, i) = "starts" /\ AtIndex(w, d, i) = "waits")
  <2>1. CASE <<0, i>> = x /\ At(w, d, x) = "waits"
    BY <1>2, <1>8, <2>1 DEF AtIndex
  <2>2. CASE ~(<<0, i>> = x /\ At(w, d, x) = "waits")
    <3>1. Task(v, d, <<0, i>>) = Task(w, d, <<0, i>>)
      BY <1>2, <1>5, <1>8, <2>2
    <3> QED
      BY <3>1, TaskAt DEF AtIndex
  <2> QED
    BY <2>1, <2>2
<1>9. ASSUME NEW i \in Indices, <<0, i>> = x
      PROVE  AtIndex(v, c, i) = found /\ AtIndex(w, c, i) = "fetch"
  BY <1>3, <1>9, TaskAtIs DEF AtIndex
<1>10. \A d \in Calls : (Has(v, d, All) <=> Has(w, d, All)) /\ (Between(v, d) <=> Between(w, d))
  BY <1>2, GateFacts DEF Between
<1>11. StaysAt(v, w)
  BY <1>2, <1>10 DEF StaysAt, Goes, SamePhases
<1>12. NoneLooked(v, w)
  BY <1>8, <1>9 DEF NoneLooked
<1>13. UsedIs(v, w, U) /\ UnusedIs(v, w, U)
  <2>1. UsedIs(v, w, U)
    BY <1>8, <1>9 DEF UsedIs, EndsAs
  <2>2. UnusedIs(v, w, U)
    BY <1>8, <1>9 DEF UnusedIs, EndsAs
  <2> QED
    BY <2>1, <2>2
<1>14. AsksHeld(v, w)
  BY <1>8, <1>9 DEF AsksHeld, Fetching, Held
<1>15. EndsBelow(v, w, T)
  <2> SUFFICES ASSUME NEW d \in Calls, NEW i \in Indices, AtIndex(v, d, i) \in Ended
               PROVE  \/ AtIndex(w, d, i) \in Ended
                      \/ AtIndex(w, d, i) \in Held /\ (i \in T => i < v.freshAddressIndex)
    BY DEF EndsBelow
  <2>1. CASE d # c \/ <<0, i>> # x
    BY <1>8, <2>1 DEF Ended
  <2>2. CASE d = c /\ <<0, i>> = x
    <3>1. AtIndex(w, d, i) \in Held
      BY <1>9, <2>2 DEF Held
    <3>2. ASSUME i \in T PROVE i < v.freshAddressIndex
      <4>1. found = "used" /\ x[1] = 0 /\ x[2] = i
        BY <2>2, <3>2 DEF EndsAs
      <4>2. v.freshAddressIndex = IF w.freshAddressIndex < i + 1 THEN i + 1 ELSE w.freshAddressIndex
        BY <1>2, <4>1
      <4>3. i \in Nat
        BY <1>5
      <4> QED
        BY <1>4, <4>2, <4>3
    <3> QED
      BY <3>1, <3>2
  <2> QED
    BY <2>1, <2>2
<1>16. Soft(v, w, T, S, U)
  BY <1>2, <1>7, <1>11, <1>12, <1>13, <1>14, <1>15 DEF Soft
<1>17. FreshIn(v, T, U)
  BY <1>1, <1>4, <1>16, SoftStep
<1> QED
  BY <1>17 DEF v

LEMMA FreshEndAddress ==
  ASSUME NEW n, n <= 2, NEW w, WalletOK(w, n), NEW c \in Calls, NEW x \in Addresses,
         At(w, c, x) = "fetch", NEW found \in {"used", "unused"},
         IndexOf(EndAddress(w, c, x, found), c) + GAP <= MaxIndex + 1,
         NEW S, NEW T, NEW U, StoresAsked(w, T, S), EndsAs(x, found, T, U), FreshIn(w, S, U)
  PROVE  /\ FreshIn(EndAddress(w, c, x, found), T, U)
         /\ ToldRight(EndAddress(w, c, x, found), w, T)
<1> DEFINE b == BeforeBlock(w, c, x, found)
           v == EndBlock(b, c)
<1>1. CallsOK(w) /\ Busy(w) /\ TwoOK(w) /\ CallOK(w, c) /\ w \in Wallets
  BY DEF WalletOK, CallsOK
<1>2. EndAddress(w, c, x, found) = v
  BY EndIs
<1>3. CallsOK(b) /\ \A d \in Calls \ {c} : BusyAt(b, d)
  BY <1>1, BeforeBlockOK
<1>4. TwoOK(b)
  BY <1>1, BeforeBlockTwo
<1>5. /\ SamePhases(b, w)
      /\ \A d \in Calls : \A g : Has(b, d, g) <=> Has(w, d, g) \/ (g = Address(x) /\ At(w, d, x) = "waits")
  BY <1>1, BeforeBlockFacts
<1>6. FreshIn(b, T, U)
  BY FreshBeforeBlock
<1> HIDE DEF b
<1>7. ~Between(w, c)
  BY <1>1 DEF CallOK, Resting
<1>8. ~Between(b, c)
  BY <1>5, <1>7, GateFacts DEF Between
<1>9. IndexOf(v, c) + GAP <= MaxIndex + 1
  BY <1>2
<1>10. FreshIn(v, T, U) /\ ToldRight(v, b, T)
  BY <1>3, <1>4, <1>6, <1>8, <1>9, FreshEndBlock
<1> HIDE DEF v
<1>11. ToldRight(v, w, T)
  BY <1>5, <1>10 DEF ToldRight, SamePhases
<1> QED
  BY <1>2, <1>10, <1>11

\* What a step stores is asked for, or was there before.
LEMMA StoresOne ==
  ASSUME NEW f, NEW g, NEW w, NEW c \in Calls, NEW x \in Addresses,
         \A y \in Addresses \ {x} : g[y] = f[y],
         At(w, c, x) \in Fetching \/ (f[x].txs = <<>> => g[x].txs = <<>>)
  PROVE  StoresAsked(w, WithTxs(g), WithTxs(f))
<1> SUFFICES ASSUME NEW i \in Indices, i \in WithTxs(g), i \notin WithTxs(f) PROVE Asking(w, i)
  BY DEF StoresAsked
<1>1. f[<<0, i>>].txs = <<>> /\ g[<<0, i>>].txs # <<>>
  BY DEF WithTxs
<1>2. <<0, i>> = x
  BY <1>1, IndexAddress
<1>3. At(w, c, x) \in Fetching
  BY <1>1, <1>2
<1> QED
  BY <1>2, <1>3 DEF Asking, AtIndex

NoneDone == \A d \in Calls : Phase(wallet', d) = "done" => Phase(wallet, d) = "done"

LEMMA ToldNone ==
  ASSUME NoneDone, NEW T
  PROVE  ToldRight(wallet', wallet, T)
BY DEF NoneDone, ToldRight

LEMMA FreshFetched ==
  ASSUME Types, KeepsInv, setting.calls <= 2, NEW c \in Calls, NEW x \in Addresses, Fetched(c, x),
         FreshIn(wallet, WithTxs(storage), Touched)
  PROVE  /\ FreshIn(wallet', WithTxs(storage'), Touched)
         /\ ToldRight(wallet', wallet, WithTxs(storage'))
<1> DEFINE w == wallet
           v == wallet'
           f == storage
           g == storage'
           U == Touched
<1>1. PICK page \in Pages(x, Task(wallet, c, x).last) : Answers(page, c, x)
  BY FetchedCases
<1>2. /\ At(w, c, x) = "fetch" /\ WalletOK(w, setting.calls) /\ v \in Wallets
      /\ TakenAll(page, x) \in Stores
  BY <1>1 DEF Answers, Types, WalletInv, WalletOK, CallsOK
<1>3. \A y \in Addresses \ {x} : g[y] = f[y]
  BY <1>1 DEF Answers, Types
<1>4. StoresAsked(w, WithTxs(g), WithTxs(f))
  BY <1>2, <1>3, StoresOne DEF Fetching
<1>5. CASE Asks(wallet', wallet, c, x, FetchTask(Taken(page, x)))
  <2> DEFINE t == FetchTask(Taken(page, x))
  <2>1. t.phase \in Fetching
    BY DEF FetchTask, Fetching
  <2>2. Asks(v, w, c, x, t) /\ At(w, c, x) \in Held
    BY <1>2, <1>5 DEF Held
  <2>3. NoneDone
    BY <1>5 DEF NoneDone, Asks, SamePhases
  <2> HIDE DEF t, v, w, f, g, U
  <2>4. FreshIn(w, WithTxs(f), U)
    BY DEF w, f, U
  <2>5. FreshIn(v, WithTxs(g), U)
    BY <1>2, <1>4, <2>1, <2>2, <2>4, FreshAsks
  <2> QED
    BY <2>3, <2>5, ToldNone DEF v, g, U
<1>6. CASE /\ Len(page.confirmed) < PageSize
           /\ storage' = [storage EXCEPT ![x] = TakenAll(page, x)]
           /\ \E found \in {"used", "unused"} :
                /\ wallet' = EndAddress(wallet, c, x, found)
                /\ IndexOf(wallet', c) + GAP <= MaxIndex + 1
                /\ found = "unused" <=> TakenAll(page, x).txs = <<>>
  <2>1. PICK found \in {"used", "unused"} :
          /\ wallet' = EndAddress(wallet, c, x, found)
          /\ IndexOf(wallet', c) + GAP <= MaxIndex + 1
          /\ found = "unused" <=> TakenAll(page, x).txs = <<>>
    BY <1>6
  <2>2. g[x] = TakenAll(page, x)
    BY <1>6 DEF Types
  <2>3. AgreesIn(g[x], x, chain, pool)
    BY <1>1, <1>6, <2>2, AnswerHere
  <2>4. EndsAs(x, found, WithTxs(g), U)
    <3> SUFFICES ASSUME NEW i \in Indices, x = <<0, i>>
                 PROVE  ((found = "used") <=> (i \in WithTxs(g))) /\ (i \in WithTxs(g) <=> i \in U)
      BY DEF EndsAs
    <3>1. i \in WithTxs(g) <=> g[x].txs # <<>>
      BY DEF WithTxs
    <3>2. ChainInv /\ g[x] \in Stores
      BY <1>2, <2>2 DEF Types
    <3>3. i \in U <=> g[x].txs # <<>>
      BY <2>3, <3>2, AgreesUsed
    <3> QED
      BY <2>1, <2>2, <3>1, <3>3
  <2> DEFINE n == EndAddress(w, c, x, found)
  <2>5. v = n /\ IndexOf(n, c) + GAP <= MaxIndex + 1
    BY <2>1
  <2>6. FreshIn(w, WithTxs(f), U)
    OBVIOUS
  <2> HIDE DEF v, w, f, g, U
  <2>7. FreshIn(n, WithTxs(g), U) /\ ToldRight(n, w, WithTxs(g))
    BY <1>2, <1>4, <2>4, <2>5, <2>6, FreshEndAddress
  <2> HIDE DEF n
  <2>8. FreshIn(v, WithTxs(g), U) /\ ToldRight(v, w, WithTxs(g))
    BY <2>5, <2>7
  <2> QED
    BY <2>8 DEF v, w, g, U
<1> QED
  BY <1>1, <1>5, <1>6 DEF Answers

LEMMA CleanEmpty ==
  ASSUME NEW s \in Stores, NEW x, s.txs = <<>>
  PROVE  CleanPendings(s, x).txs = <<>>
<1>1. ~HasPendings(s)
  BY StoreFacts DEF HasPendings
<1> QED
  BY <1>1 DEF CleanPendings

LEMMA FreshStep ==
  ASSUME StoreInv, FreshInv, setting.calls <= 2, [XpubNext]_xpubVars
  PROVE  FreshIn(wallet', WithTxs(storage'), Touched') /\ ToldRight(wallet', wallet, WithTxs(storage'))
<1>1. Types /\ KeepsInv /\ WalletOK(wallet, setting.calls)
  BY DEF StoreInv, Types, WalletInv
<1>2. FreshIn(wallet, WithTxs(storage), Touched)
  BY DEF FreshInv
<1>3. ASSUME UNCHANGED <<chain, pool>> PROVE Touched' = Touched
  BY <1>3 DEF Touched, InChain
<1>4. ASSUME NEW c \in Calls, sync(c)
      PROVE  FreshIn(wallet', WithTxs(storage'), Touched') /\ ToldRight(wallet', wallet, WithTxs(storage'))
  <2>1. UNCHANGED <<storage, chain, pool>>
    BY <1>4 DEF sync
  <2>2. FreshIn(wallet', WithTxs(storage), Touched) /\ NoneDone
    BY <1>1, <1>2, <1>4, FreshSync DEF NoneDone
  <2> QED
    BY <1>3, <2>1, <2>2, ToldNone
<1>5. CASE PassAll
  <2>1. UNCHANGED <<storage, chain, pool>>
    BY <1>5 DEF PassAll
  <2> DEFINE c == Head(wallet.micro).call
             v == whenSyncedAccount([Passed EXCEPT !.freshAddressIndex = 0], c)
  <2>2. wallet' = v /\ Passes("all")
    BY <1>5 DEF PassAll
  <2>3. FreshIn(v, WithTxs(storage), Touched) /\ \A d \in Calls : Phase(v, d) = "done" => Phase(wallet, d) = "done"
    BY <1>1, <1>2, <2>2, FreshPassAll
  <2> HIDE DEF v
  <2>4. FreshIn(wallet', WithTxs(storage), Touched) /\ NoneDone
    BY <2>2, <2>3 DEF NoneDone
  <2> QED
    BY <1>3, <2>1, <2>4, ToldNone
<1>6. CASE PassAccount
  <2>1. UNCHANGED <<storage, chain, pool>>
    BY <1>6 DEF PassAccount
  <2> DEFINE c == Head(wallet.micro).call
             v == StartBlock([Passed EXCEPT !.calls[c].index = 0], c)
  <2>2. wallet' = v /\ Passes("account")
    BY <1>6 DEF PassAccount
  <2>3. FreshIn(v, WithTxs(storage), Touched) /\ \A d \in Calls : Phase(v, d) = "done" => Phase(wallet, d) = "done"
    BY <1>1, <1>2, <2>2, FreshPassAccount
  <2> HIDE DEF v
  <2>4. FreshIn(wallet', WithTxs(storage), Touched) /\ NoneDone
    BY <2>2, <2>3 DEF NoneDone
  <2> QED
    BY <1>3, <2>1, <2>4, ToldNone
<1>7. ASSUME NEW c \in Calls, NEW x \in Addresses, NEW t, t.phase \in Fetching,
             Asks(wallet', wallet, c, x, t), At(wallet, c, x) \in Held, WalletInv',
             StoresAsked(wallet, WithTxs(storage'), WithTxs(storage)), UNCHANGED <<chain, pool>>
      PROVE  FreshIn(wallet', WithTxs(storage'), Touched') /\ ToldRight(wallet', wallet, WithTxs(storage'))
  <2> DEFINE v == wallet'
             T == WithTxs(storage')
  <2>1. v \in Wallets
    BY <1>7 DEF WalletInv, WalletOK, CallsOK
  <2>2. NoneDone
    BY <1>7 DEF NoneDone, Asks, SamePhases
  <2>3. Asks(v, wallet, c, x, t) /\ StoresAsked(wallet, T, WithTxs(storage))
    BY <1>7
  <2> HIDE DEF v, T
  <2>4. FreshIn(v, T, Touched)
    BY <1>1, <1>2, <1>7, <2>1, <2>3, FreshAsks
  <2> QED
    BY <1>3, <1>7, <2>2, <2>4, ToldNone DEF v, T
<1>8. CASE PassAddress
  <2>1. PICK c \in Calls, x \in Addresses :
           /\ At(wallet, c, x) = "starts" /\ WalletInv'
           /\ \/ /\ storage' = storage
                 /\ Asks(wallet', wallet, c, x, CheckTask(storage[x]))
              \/ /\ storage' = [storage EXCEPT ![x] = CleanPendings(storage[x], x)]
                 /\ Asks(wallet', wallet, c, x, FetchTask(CleanPendings(storage[x], x)))
    BY <1>1, <1>8, PassAddressCases
  <2>2. UNCHANGED <<chain, pool>>
    BY <1>8 DEF PassAddress
  <2>3. \A s : CheckTask(s).phase \in Fetching /\ FetchTask(s).phase \in Fetching
    BY DEF CheckTask, FetchTask, Fetching
  <2>4. PICK t : t.phase \in Fetching /\ Asks(wallet', wallet, c, x, t)
    BY <2>1, <2>3
  <2>5. storage[x] \in Stores /\ storage \in [Addresses -> Stores]
    BY <1>1 DEF Types
  <2>6. storage[x].txs = <<>> => CleanPendings(storage[x], x).txs = <<>>
    BY <2>5, CleanEmpty
  <2>7. /\ \A y \in Addresses \ {x} : storage'[y] = storage[y]
        /\ storage[x].txs = <<>> => storage'[x].txs = <<>>
    BY <2>1, <2>5, <2>6
  <2>8. StoresAsked(wallet, WithTxs(storage'), WithTxs(storage))
    BY <2>7, StoresOne
  <2> QED
    BY <1>7, <2>1, <2>2, <2>4, <2>8 DEF Held
<1>9. ASSUME NEW c \in Calls, NEW x \in Addresses, Checked(c, x)
      PROVE  FreshIn(wallet', WithTxs(storage'), Touched') /\ ToldRight(wallet', wallet, WithTxs(storage'))
  <2> DEFINE s == CleanPendings(checkAddressReorg(storage[x], Task(wallet, c, x).last), x)
  <2>1. /\ At(wallet, c, x) = "check" /\ WalletInv' /\ storage' = [storage EXCEPT ![x] = s]
        /\ Asks(wallet', wallet, c, x, FetchTask(s))
    BY <1>1, <1>9, CheckedCases
  <2>2. UNCHANGED <<chain, pool>>
    BY <1>9 DEF Checked
  <2>3. FetchTask(s).phase \in Fetching
    BY DEF FetchTask, Fetching
  <2>4. \A y \in Addresses \ {x} : storage'[y] = storage[y]
    BY <1>1, <2>1 DEF Types
  <2>5. PICK t : t.phase \in Fetching /\ Asks(wallet', wallet, c, x, t)
    BY <2>1, <2>3
  <2>6. StoresAsked(wallet, WithTxs(storage'), WithTxs(storage))
    BY <2>1, <2>4, StoresOne DEF Fetching
  <2> QED
    BY <1>7, <2>1, <2>2, <2>5, <2>6 DEF Held
<1>10. ASSUME NEW c \in Calls, NEW x \in Addresses, Fetched(c, x)
       PROVE  FreshIn(wallet', WithTxs(storage'), Touched') /\ ToldRight(wallet', wallet, WithTxs(storage'))
  <2>1. UNCHANGED <<chain, pool>>
    BY <1>10 DEF Fetched
  <2> QED
    BY <1>1, <1>2, <1>3, <1>10, <2>1, FreshFetched
<1>11. ASSUME NEW c \in Calls, NEW x \in Addresses, Fails(c, x)
       PROVE  FreshIn(wallet', WithTxs(storage'), Touched') /\ ToldRight(wallet', wallet, WithTxs(storage'))
  <2>1. UNCHANGED <<storage, chain, pool>> /\ At(wallet, c, x) \in Fetching
    BY <1>11 DEF Fails, Fetching, At
  <2> DEFINE v == FailAddress(wallet, c, x)
  <2>2. wallet' = v
    BY <1>11 DEF Fails
  <2>3. FreshIn(v, WithTxs(storage), Touched) /\ \A d \in Calls : Phase(v, d) = "done" => Phase(wallet, d) = "done"
    BY <1>1, <1>2, <2>1, FreshFails
  <2> HIDE DEF v
  <2>4. FreshIn(wallet', WithTxs(storage), Touched) /\ NoneDone
    BY <2>2, <2>3 DEF NoneDone
  <2> QED
    BY <1>3, <2>1, <2>4, ToldNone
<1>12. CASE UNCHANGED xpubVars
  <2>1. UNCHANGED <<wallet, storage, chain, pool>> /\ NoneDone
    BY <1>12 DEF xpubVars, NoneDone
  <2> QED
    BY <1>2, <1>3, <2>1, ToldNone
<1>13. CASE Restart
  <2>1. /\ UNCHANGED <<chain, pool>> /\ Renewed(wallet', Begun)
        /\ storage' = [x \in Addresses |-> [storage[x] EXCEPT !.spent = {}]]
    BY <1>1, <1>13, RestartCases
  <2>2. ASSUME NEW i \in Indices PROVE i \in WithTxs(storage') <=> i \in WithTxs(storage)
    <3>1. storage[<<0, i>>] \in Stores /\ <<0, i>> \in Addresses
      BY <1>1, IndexAddress DEF Types
    <3>2. storage'[<<0, i>>].txs = storage[<<0, i>>].txs
      BY <2>1, <3>1 DEF Stores
    <3> QED
      BY <3>2 DEF WithTxs
  <2>3. \A i \in Indices : i \in WithTxs(storage') => Opened(Touched, i)
    BY <1>2, <2>2 DEF FreshIn, Looked
  <2>4. NoneDone
    BY <2>1 DEF NoneDone, Renewed
  <2> DEFINE v == wallet'
             T == WithTxs(storage')
             C == Begun
  <2>5. Renewed(v, C) /\ \A i \in Indices : i \in T => Opened(Touched, i)
    BY <2>1, <2>3
  <2> HIDE DEF v, T, C
  <2>6. FreshIn(v, T, Touched)
    BY <2>5, FreshRenewed
  <2> QED
    BY <1>3, <2>1, <2>4, <2>6, ToldNone DEF v, T
<1>14. CASE NewTx \/ Mine \/ Reorganise
  <2>1. Moved /\ UNCHANGED <<wallet, storage>>
    BY <1>1, <1>14, ChainCases
  <2>2. Touched \subseteq Touched'
    BY <2>1 DEF Moved, Touched
  <2>3. NoneDone
    BY <2>1 DEF NoneDone
  <2> DEFINE V == Touched'
  <2>4. Touched \subseteq V
    BY <2>2
  <2> HIDE DEF V
  <2>5. FreshIn(wallet, WithTxs(storage), V)
    BY <1>2, <2>4, FreshMore
  <2> QED
    BY <2>1, <2>3, <2>5, ToldNone DEF V
<1>15. ASSUME NEW a \in Asked, Checked(a[1], a[2]) \/ Fetched(a[1], a[2]) \/ Fails(a[1], a[2])
       PROVE  FreshIn(wallet', WithTxs(storage'), Touched') /\ ToldRight(wallet', wallet, WithTxs(storage'))
  <2>1. a[1] \in Calls /\ a[2] \in Addresses
    BY DEF Asked
  <2> QED
    BY <1>9, <1>10, <1>11, <1>15, <2>1
<1> QED
  BY <1>4, <1>5, <1>6, <1>8, <1>12, <1>13, <1>14, <1>15 DEF XpubNext, Micro, Answered

\* The address to receive on that Xpub.sync() leaves in freshAddress, with one or two calls:
\* nothing is stored for it or for one after it, not even by a call that failed before and
\* whose requests were answered since.
THEOREM FreshTheorem == XpubSpec => FreshUnused
<1>1. XpubInit => FreshInv
  <2> SUFFICES ASSUME XpubInit PROVE FreshInv
    OBVIOUS
  <2>1. Renewed(wallet, {})
    BY InitTypes
  <2>2. \A i \in Indices : i \notin WithTxs(storage)
    BY IndexAddress DEF XpubInit, WithTxs, Empty
  <2> QED
    BY <2>1, <2>2, FreshRenewed DEF FreshInv
<1>2. StoreInv /\ FreshInv /\ [XpubNext]_xpubVars => FreshInv'
  <2>1. [XpubNext]_xpubVars => setting' = setting
    BY DEF XpubNext, Micro, PassAll, PassAccount, PassAddress, Answered, sync, Checked, Fetched, Fails,
           Restart, NewTx, Mine, Reorganise, ChainMoves, xpubVars
  <2> QED
    BY <2>1, FreshStep DEF FreshInv
<1>3. StoreInv /\ FreshInv /\ [XpubNext]_xpubVars =>
        [setting.calls <= 2 =>
           \A c \in Calls :
             wallet'.calls[c].phase = "done" /\ wallet.calls[c].phase # "done" =>
               \A i \in 0..MaxIndex : storage'[<<0, i>>].txs # <<>> => i < wallet'.freshAddress
        ]_xpubVars
  <2> SUFFICES ASSUME StoreInv, FreshInv, [XpubNext]_xpubVars, setting.calls <= 2,
                      NEW c \in Calls, wallet'.calls[c].phase = "done", wallet.calls[c].phase # "done",
                      NEW i \in 0..MaxIndex, storage'[<<0, i>>].txs # <<>>
               PROVE  i < wallet'.freshAddress
    OBVIOUS
  <2>1. ToldRight(wallet', wallet, WithTxs(storage'))
    BY FreshStep
  <2>2. Phase(wallet', c) = "done" /\ Phase(wallet, c) # "done"
    BY DEF Phase
  <2>3. i \in Indices /\ i \in WithTxs(storage')
    BY DEF Indices, WithTxs
  <2> QED
    BY <2>1, <2>2, <2>3 DEF ToldRight
<1> QED
  BY <1>1, <1>2, <1>3, StoreTheorem, PTL DEF XpubSpec, FreshUnused

=============================================================================
