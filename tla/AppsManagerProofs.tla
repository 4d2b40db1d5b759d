-------------------------- MODULE AppsManagerProofs --------------------------
(***************************************************************************)
(* The apps manager keeps its queues in order, stops after an error and    *)
(* ends its updates, never asks an undisturbed device for something that   *)
(* it refuses, and reaches what the user asked for and what it predicted:  *)
(* for any store with one level of dependencies, any apps on the device    *)
(* and any number of actions.                                              *)
(***************************************************************************)
EXTENDS AppsManager, ListProofs, SequenceTheorems, FiniteSetTheorems, TLAPS

(***************************************************************************)
(* The order of the queues.                                                *)
(***************************************************************************)

\* InOrder says who never comes before whom.
LEMMA InOrderIs ==
  ASSUME NEW A, NEW s \in Seq(A)
  PROVE  InOrder(s)
           <=> \A x, y : Before(s, x, y) => x # y /\ y \notin ToSet(DepsOf(x))
<1> HIDE DEF Before
<1>1. ASSUME InOrder(s), NEW x, NEW y, Before(s, x, y)
      PROVE  x # y /\ y \notin ToSet(DepsOf(x))
  BY <1>1 DEF InOrder, Before
<1>2. ASSUME \A x, y : Before(s, x, y) => x # y /\ y \notin ToSet(DepsOf(x))
      PROVE  InOrder(s)
  <2> SUFFICES ASSUME NEW i \in DOMAIN s, NEW j \in DOMAIN s, i < j
               PROVE  s[i] # s[j] /\ s[j] \notin ToSet(DepsOf(s[i]))
    BY DEF InOrder
  <2>1. Before(s, s[i], s[j])
    BY DEF Before
  <2> QED
    BY <1>2, <2>1
<1> QED
  BY <1>1, <1>2

\* What an app needs is in the store and needs nothing itself.
LEMMA DepsFacts ==
  /\ Listed \subseteq Apps
  /\ \A a : DepsOf(a) \in Seq(Apps) /\ ToSet(DepsOf(a)) \subseteq Listed
  /\ \A a : \A d \in ToSet(DepsOf(a)) : DepsOf(d) = <<>>
<1>1. Listed \subseteq Apps
  BY AppsAssumption, SeqFacts DEF Listed
<1>2. ASSUME NEW a PROVE DepsOf(a) \in Seq(Listed)
  BY AppsAssumption DEF DepsOf
<1>3. ASSUME NEW a PROVE ToSet(DepsOf(a)) \subseteq Listed
  BY <1>2, SeqFacts
<1>4. ASSUME NEW a PROVE DepsOf(a) \in Seq(Apps)
  BY <1>1, <1>2
<1>5. ASSUME NEW a, NEW d \in ToSet(DepsOf(a)) PROVE DepsOf(d) = <<>>
  <2>1. CASE a \in Listed
    BY <2>1, <1>3, AppsAssumption DEF DepsOf
  <2>2. CASE a \notin Listed
    <3>1. ToSet(DepsOf(a)) = {}
      BY <2>2, EmptyFacts DEF DepsOf
    <3> QED
      BY <3>1
  <2> QED
    BY <2>1, <2>2
<1> QED
  BY <1>1, <1>3, <1>4, <1>5

\* The lists that reorderInstallQueue builds from what is asked for.
Good(asked) ==
  {l \in Seq(asked) :
     InOrder(l) /\ \A x \in ToSet(l) : ToSet(DepsOf(x)) \cap asked \subseteq ToSet(l)}

\* A dependency goes to the end of the list, after which nobody of it can come.
LEMMA PushStep ==
  ASSUME NEW asked, NEW l \in Good(asked), NEW x \in asked \ ToSet(l),
         ToSet(DepsOf(x)) \cap asked \subseteq ToSet(l)
  PROVE  /\ Append(l, x) \in Good(asked)
         /\ ToSet(Append(l, x)) = ToSet(l) \cup {x}
<1> DEFINE t == Append(l, x)
<1>1. l \in Seq(asked)
  BY DEF Good
<1>2. /\ t \in Seq(asked)
      /\ ToSet(t) = ToSet(l) \cup {x}
      /\ \A a, b : Before(t, a, b) <=> Before(l, a, b) \/ (a \in ToSet(l) /\ b = x)
  BY <1>1, AppendFacts
<1> HIDE DEF t
<1>3. \A a, b : Before(l, a, b) => a # b /\ b \notin ToSet(DepsOf(a))
  BY <1>1, InOrderIs DEF Good
<1>4. \A a \in ToSet(l) : ToSet(DepsOf(a)) \cap asked \subseteq ToSet(l)
  BY DEF Good
<1>5. \A a, b : Before(t, a, b) => a # b /\ b \notin ToSet(DepsOf(a))
  BY <1>2, <1>3, <1>4
<1>6. InOrder(t)
  BY <1>2, <1>5, InOrderIs
<1>7. \A a \in ToSet(t) : ToSet(DepsOf(a)) \cap asked \subseteq ToSet(t)
  BY <1>2, <1>4
<1>8. t \in Good(asked)
  BY <1>2, <1>6, <1>7 DEF Good
<1> QED
  BY <1>2, <1>8 DEF t

\* The loop over the dependencies of one app in reorderInstallQueue.
LEMMA PushedFacts ==
  ASSUME NEW asked, NEW list \in Good(asked), NEW a
  PROVE  /\ Pushed(list, DepsOf(a), asked) \in Good(asked)
         /\ ToSet(Pushed(list, DepsOf(a), asked))
              = ToSet(list) \cup (ToSet(DepsOf(a)) \cap asked)
<1> DEFINE deps == DepsOf(a)
           n == Len(deps)
           S == Good(asked)
           Step(l, i) == IF deps[i] \in asked \ ToSet(l) THEN Append(l, deps[i]) ELSE l
           Rec(f) == f = [i \in 0..n |-> IF i = 0 THEN list ELSE Step(f[i - 1], i)]
           upTo == CHOOSE f : Rec(f)
           F == [i \in 1..n |-> [l \in S |-> Step(l, i)]]
<1>1. Pushed(list, deps, asked) = upTo[n]
  BY DEF Pushed
<1>0. deps \in Seq(Apps)
  BY DepsFacts
<1>2. /\ n \in Nat
      /\ \A i \in 1..n : DepsOf(deps[i]) = <<>>
      /\ \A x : x \in ToSet(deps) <=> \E i \in 1..n : deps[i] = x
  <2>1. n \in Nat /\ \A x : x \in ToSet(deps) <=> \E i \in 1..n : deps[i] = x
    BY <1>0, SeqFacts
  <2>2. \A i \in 1..n : DepsOf(deps[i]) = <<>>
    BY <2>1, DepsFacts
  <2> QED
    BY <2>1, <2>2
<1> HIDE DEF deps, n, S
<1>3. ASSUME NEW i \in 1..n, NEW l \in S
      PROVE  Step(l, i) \in S /\ ToSet(Step(l, i)) = ToSet(l) \cup ({deps[i]} \cap asked)
  <2>1. CASE deps[i] \in asked \ ToSet(l)
    <3>1. ToSet(DepsOf(deps[i])) \cap asked \subseteq ToSet(l)
      BY <1>2, EmptyFacts
    <3>2. Append(l, deps[i]) \in S /\ ToSet(Append(l, deps[i])) = ToSet(l) \cup {deps[i]}
      BY <2>1, <3>1, PushStep DEF S
    <3> QED
      BY <2>1, <3>2
  <2>2. CASE deps[i] \notin asked \ ToSet(l)
    BY <2>2
  <2> QED
    BY <2>1, <2>2
<1> HIDE DEF Step
<1>4. F \in [1..n -> [S -> S]]
  BY <1>3
<1>5. list \in S
  BY DEF S
<1>6. PICK f \in [0..n -> S] :
        f[0] = list /\ \A i \in 1..n : f[i] = F[i][f[i - 1]]
  <2> HIDE DEF F
  <2>1. Iterated(S, n, list, F)
    BY <1>2, <1>4, <1>5, Iterates
  <2> QED
    BY <2>1 DEF Iterated
<1>7. ASSUME NEW i \in 1..n PROVE f[i] = Step(f[i - 1], i)
  <2>1. i - 1 \in 0..n
    BY <1>2
  <2>2. f[i - 1] \in S
    BY <2>1
  <2> QED
    BY <1>6, <2>2
<1>8. Rec(f)
  <2>1. ASSUME NEW i \in 0..n
        PROVE  f[i] = IF i = 0 THEN list ELSE Step(f[i - 1], i)
    <3>1. i = 0 \/ i \in 1..n
      BY <1>2
    <3> QED
      BY <1>6, <1>7, <3>1
  <2>2. f = [i \in 0..n |-> f[i]]
    OBVIOUS
  <2> QED
    BY <2>1, <2>2, Zenon
<1>9. Rec(upTo)
  <2> HIDE DEF Rec
  <2> QED
    BY <1>8
<1> HIDE DEF upTo
<1>10. upTo[0] = list
  BY <1>2, <1>9
<1>11. ASSUME NEW i \in 1..n PROVE upTo[i] = Step(upTo[i - 1], i)
  <2>1. i \in 0..n /\ i # 0
    BY <1>2
  <2> QED
    BY <1>9, <2>1, Zenon
<1> DEFINE Right(k) ==
      /\ upTo[k] \in S
      /\ \A x : x \in ToSet(upTo[k])
                  <=> x \in ToSet(list) \/ (x \in asked /\ \E m \in 1..k : deps[m] = x)
           T == {k \in Nat : k <= n => Right(k)}
<1>12. 0 \in T
  BY <1>2, <1>5, <1>10
<1>13. ASSUME NEW k \in Nat, k \in T PROVE k + 1 \in T
  <2> SUFFICES ASSUME k + 1 <= n PROVE Right(k + 1)
    OBVIOUS
  <2>1. k + 1 \in 1..n /\ Right(k)
    <3> HIDE DEF Right
    <3> QED
      BY <1>2, <1>13
  <2>2. upTo[k + 1] = Step(upTo[k], k + 1)
    BY <1>11, <2>1
  <2>3. /\ upTo[k + 1] \in S
        /\ ToSet(upTo[k + 1]) = ToSet(upTo[k]) \cup ({deps[k + 1]} \cap asked)
    BY <1>3, <2>1, <2>2
  <2>4. \A x : (\E m \in 1..k + 1 : deps[m] = x)
                 <=> (\E m \in 1..k : deps[m] = x) \/ x = deps[k + 1]
    BY <2>1
  <2> QED
    BY <2>1, <2>3, <2>4
<1>14. Right(n)
  <2>1. n \in T
    <3> HIDE DEF T
    <3> QED
      BY <1>2, <1>12, <1>13, Induct
  <2> HIDE DEF Right
  <2> QED
    BY <1>2, <2>1
<1>15. ToSet(upTo[n]) = ToSet(list) \cup (ToSet(deps) \cap asked)
  BY <1>2, <1>14
<1>16. upTo[n] \in S
  BY <1>14
<1> QED
  BY <1>1, <1>15, <1>16 DEF deps, S

\* reorderInstallQueue puts what it is given in order, and adds and loses nothing.
LEMMA ReorderFacts ==
  ASSUME NEW apps \in Seq(Apps)
  PROVE  /\ reorderInstallQueue(apps) \in Seq(Apps)
         /\ ToSet(reorderInstallQueue(apps)) = ToSet(apps)
         /\ InOrder(reorderInstallQueue(apps))
<1> DEFINE asked == ToSet(apps)
           n == Len(apps)
           S == Good(asked)
           Step(l, i) == IF apps[i] \in ToSet(l) THEN l
                         ELSE Append(Pushed(l, DepsOf(apps[i]), asked), apps[i])
           Rec(f) == f = [i \in 0..n |-> IF i = 0 THEN <<>> ELSE Step(f[i - 1], i)]
           upTo == CHOOSE f : Rec(f)
           F == [i \in 1..n |-> [l \in S |-> Step(l, i)]]
<1>1. reorderInstallQueue(apps) = upTo[n]
  BY DEF reorderInstallQueue
<1>2. /\ n \in Nat
      /\ asked \subseteq Apps
      /\ \A x : x \in asked <=> \E i \in 1..n : apps[i] = x
  BY SeqFacts
<1> HIDE DEF asked, n, S
<1>3. ASSUME NEW i \in 1..n, NEW l \in S
      PROVE  Step(l, i) \in S /\ ToSet(l) \cup {apps[i]} \subseteq ToSet(Step(l, i))
  <2> DEFINE a == apps[i]
             p == Pushed(l, DepsOf(a), asked)
  <2>1. CASE a \in ToSet(l)
    BY <2>1
  <2>2. CASE a \notin ToSet(l)
    <3>1. p \in S /\ ToSet(p) = ToSet(l) \cup (ToSet(DepsOf(a)) \cap asked)
      BY PushedFacts DEF S
    <3>2. a \notin ToSet(DepsOf(a))
      <4>1. ASSUME a \in ToSet(DepsOf(a)) PROVE FALSE
        <5>1. DepsOf(a) = <<>>
          BY <4>1, DepsFacts
        <5> QED
          BY <4>1, <5>1, EmptyFacts
      <4> QED
        BY <4>1
    <3>3. a \in asked \ ToSet(p) /\ ToSet(DepsOf(a)) \cap asked \subseteq ToSet(p)
      BY <1>2, <2>2, <3>1, <3>2
    <3> HIDE DEF p, a
    <3>4. Append(p, a) \in S /\ ToSet(Append(p, a)) = ToSet(p) \cup {a}
      BY <3>1, <3>3, PushStep DEF S
    <3>5. Step(l, i) = Append(p, a)
      BY <2>2 DEF p, a
    <3> QED
      BY <3>1, <3>4, <3>5 DEF a
  <2> QED
    BY <2>1, <2>2
<1> HIDE DEF Step
<1>4. F \in [1..n -> [S -> S]]
  BY <1>3
<1>5. <<>> \in S
  BY EmptyFacts, InOrderIs DEF S, Good, InOrder
<1>6. PICK f \in [0..n -> S] :
        f[0] = <<>> /\ \A i \in 1..n : f[i] = F[i][f[i - 1]]
  <2> HIDE DEF F
  <2>1. Iterated(S, n, <<>>, F)
    BY <1>2, <1>4, <1>5, Iterates
  <2> QED
    BY <2>1 DEF Iterated
<1>7. ASSUME NEW i \in 1..n PROVE f[i] = Step(f[i - 1], i)
  <2>1. i - 1 \in 0..n
    BY <1>2
  <2>2. f[i - 1] \in S
    BY <2>1
  <2> QED
    BY <1>6, <2>2
<1>8. Rec(f)
  <2>1. ASSUME NEW i \in 0..n
        PROVE  f[i] = IF i = 0 THEN <<>> ELSE Step(f[i - 1], i)
    <3>1. i = 0 \/ i \in 1..n
      BY <1>2
    <3> QED
      BY <1>6, <1>7, <3>1
  <2>2. f = [i \in 0..n |-> f[i]]
    OBVIOUS
  <2> QED
    BY <2>1, <2>2, Zenon
<1>9. Rec(upTo)
  <2> HIDE DEF Rec
  <2> QED
    BY <1>8
<1> HIDE DEF upTo
<1>10. upTo[0] = <<>>
  BY <1>2, <1>9
<1>11. ASSUME NEW i \in 1..n PROVE upTo[i] = Step(upTo[i - 1], i)
  <2>1. i \in 0..n /\ i # 0
    BY <1>2
  <2> QED
    BY <1>9, <2>1, Zenon
<1> DEFINE Right(k) ==
      upTo[k] \in S /\ \A m \in 1..k : apps[m] \in ToSet(upTo[k])
           T == {k \in Nat : k <= n => Right(k)}
<1>12. 0 \in T
  BY <1>2, <1>5, <1>10
<1>13. ASSUME NEW k \in Nat, k \in T PROVE k + 1 \in T
  <2> SUFFICES ASSUME k + 1 <= n PROVE Right(k + 1)
    OBVIOUS
  <2>1. k + 1 \in 1..n /\ Right(k)
    <3> HIDE DEF Right
    <3> QED
      BY <1>2, <1>13
  <2>2. upTo[k + 1] = Step(upTo[k], k + 1)
    BY <1>11, <2>1
  <2>3. /\ upTo[k + 1] \in S
        /\ ToSet(upTo[k]) \cup {apps[k + 1]} \subseteq ToSet(upTo[k + 1])
    BY <1>3, <2>1, <2>2
  <2> QED
    BY <2>1, <2>3
<1>14. Right(n)
  <2>1. n \in T
    <3> HIDE DEF T
    <3> QED
      BY <1>2, <1>12, <1>13, Induct
  <2> HIDE DEF Right
  <2> QED
    BY <1>2, <2>1
<1>15. upTo[n] \in Seq(asked) /\ InOrder(upTo[n])
  BY <1>14 DEF S, Good
<1>16. ToSet(upTo[n]) = asked
  <2>1. ToSet(upTo[n]) \subseteq asked
    BY <1>15, SeqFacts
  <2> QED
    BY <1>2, <1>14, <2>1
<1>17. upTo[n] \in Seq(Apps)
  BY <1>2, <1>15
<1> QED
  BY <1>1, <1>15, <1>16, <1>17 DEF asked

\* reorderUninstallQueue does the same from the end of the list.
LEMMA ReorderUninstallFacts ==
  ASSUME NEW apps \in Seq(Apps)
  PROVE  /\ reorderUninstallQueue(apps) \in Seq(Apps)
         /\ ToSet(reorderUninstallQueue(apps)) = ToSet(apps)
         /\ InOrder(Reverse(reorderUninstallQueue(apps)))
<1> DEFINE q == Reverse(apps)
           r == reorderInstallQueue(q)
<1>1. q \in Seq(Apps) /\ ToSet(q) = ToSet(apps)
  BY ReverseFacts
<1> HIDE DEF q
<1>2. r \in Seq(Apps) /\ ToSet(r) = ToSet(q) /\ InOrder(r)
  BY <1>1, ReorderFacts
<1> HIDE DEF r
<1>3. Reverse(r) \in Seq(Apps) /\ ToSet(Reverse(r)) = ToSet(r)
  BY <1>2, ReverseFacts
<1>4. Reverse(Reverse(r)) \in Seq(Apps)
  BY <1>3, ReverseFacts
<1>5. \A x, y : Before(Reverse(Reverse(r)), x, y) <=> Before(r, x, y)
  BY <1>2, <1>3, ReverseFacts
<1>6. InOrder(Reverse(Reverse(r)))
  BY <1>2, <1>4, <1>5, InOrderIs
<1>7. reorderUninstallQueue(apps) = Reverse(r)
  BY DEF reorderUninstallQueue, q, r
<1> QED
  BY <1>1, <1>2, <1>3, <1>6, <1>7

\* Filtering a queue keeps it in order.
LEMMA WithoutFacts ==
  ASSUME NEW A, NEW names \in Seq(A), NEW gone
  PROVE  /\ Without(names, gone) \in Seq(A)
         /\ ToSet(Without(names, gone)) = ToSet(names) \ gone
         /\ InOrder(names) => InOrder(Without(names, gone))
         /\ InOrder(Reverse(names)) => InOrder(Reverse(Without(names, gone)))
         /\ Without(names, gone) = names <=> ToSet(names) \cap gone = {}
<1> DEFINE r == Without(names, gone)
<1>1. /\ r \in Seq(A)
      /\ ToSet(r) = ToSet(names) \cap (ToSet(names) \ gone)
      /\ \A x, y : Before(r, x, y) => Before(names, x, y)
  BY KeepingFacts DEF Without
<1>2. ToSet(names) \subseteq ToSet(names) \ gone => r = names
  BY KeepAll DEF Without
<1> HIDE DEF r
<1>3. InOrder(names) => InOrder(r)
  BY <1>1, InOrderIs
<1>4. InOrder(Reverse(names)) => InOrder(Reverse(r))
  <2>1. /\ Reverse(names) \in Seq(A)
        /\ \A x, y : Before(Reverse(names), x, y) <=> Before(names, y, x)
    BY ReverseFacts
  <2>2. /\ Reverse(r) \in Seq(A)
        /\ \A x, y : Before(Reverse(r), x, y) <=> Before(r, y, x)
    BY <1>1, ReverseFacts
  <2> QED
    BY <1>1, <2>1, <2>2, InOrderIs
<1>5. r = names <=> ToSet(names) \cap gone = {}
  BY <1>1, <1>2
<1> QED
  BY <1>1, <1>3, <1>4, <1>5 DEF r

\* findDependents lists the apps of the store that need one.
LEMMA DependentsFacts ==
  ASSUME NEW name
  PROVE  /\ findDependents(name) \in Seq(Apps)
         /\ ToSet(findDependents(name)) = Dependents(name)
         /\ Dependents(name) \subseteq Listed
BY AppsAssumption, KeepingFacts DEF findDependents, Dependents, Listed

(***************************************************************************)
(* The actions of the reducer.                                             *)
(***************************************************************************)

\* The operations of a plan, and the states of the reducer.
Ops == [type : {"install", "uninstall"}, name : Apps]

States ==
  [installed : Seq(Apps), outdated : SUBSET Apps, installQueue : Seq(Apps),
   uninstallQueue : Seq(Apps), updateAllQueue : Seq(Apps),
   currentAppOp : Ops \cup {NoOp}, currentError : BOOLEAN]

\* QueuesInOrder, for any state.
Ordered(s) == InOrder(s.installQueue) /\ InOrder(Reverse(s.uninstallQueue))

\* What an action of the user leaves alone.
Apart(r, s) ==
  /\ r.installed = s.installed
  /\ r.outdated = s.outdated
  /\ r.currentAppOp = s.currentAppOp

LEMMA EmptyOrder == InOrder(<<>>) /\ InOrder(Reverse(<<>>))
<1>1. <<>> \in Seq(Apps)
  OBVIOUS
<1>2. Reverse(<<>>) \in Seq(Apps) /\ ToSet(Reverse(<<>>)) = {}
  BY <1>1, ReverseFacts, EmptyFacts
<1>3. Reverse(<<>>) = <<>>
  BY <1>2, SeqFacts
<1> QED
  BY <1>1, <1>3, EmptyFacts, InOrderIs

\* A state that takes over two queues that are in order.
LEMMA QueuesFacts ==
  ASSUME NEW s \in States, NEW installs \in Seq(Apps), NEW uninstalls \in Seq(Apps),
         InOrder(installs), InOrder(Reverse(uninstalls))
  PROVE  LET r == Queues(s, installs, uninstalls)
         IN  /\ r \in States /\ Ordered(r) /\ Apart(r, s)
             /\ r.installQueue = installs /\ r.uninstallQueue = uninstalls
             /\ r.updateAllQueue = s.updateAllQueue /\ ~r.currentError
<1> DEFINE r == Queues(s, installs, uninstalls)
<1>1. /\ r \in States /\ Apart(r, s)
      /\ r.installQueue = installs /\ r.uninstallQueue = uninstalls
      /\ r.updateAllQueue = s.updateAllQueue /\ ~r.currentError
  BY DEF Queues, States, Apart
<1>2. Ordered(r)
  BY <1>1 DEF Ordered
<1> QED
  BY <1>1, <1>2

\* What every action of the reducer makes of the queues, in order and as sets.
LEMMA WipeFacts ==
  ASSUME NEW s \in States
  PROVE  LET r == Wipe(s)
         IN  /\ r \in States /\ Ordered(r) /\ Apart(r, s)
             /\ r.installQueue = <<>>
             /\ ToSet(r.uninstallQueue) = Installed(s)
             /\ r.updateAllQueue = s.updateAllQueue /\ ~r.currentError
<1> DEFINE u == reorderUninstallQueue(s.installed)
<1>1. s.installed \in Seq(Apps)
  BY DEF States
<1>2. u \in Seq(Apps) /\ ToSet(u) = Installed(s) /\ InOrder(Reverse(u))
  BY <1>1, ReorderUninstallFacts DEF Installed
<1> DEFINE r == Wipe(s)
           none == <<>>
<1>3. r = Queues(s, none, u) /\ none \in Seq(Apps) /\ InOrder(none)
  BY EmptyOrder DEF Wipe
<1> HIDE DEF u, r, none
<1>4. /\ r \in States /\ Ordered(r) /\ Apart(r, s)
      /\ r.installQueue = none /\ r.uninstallQueue = u
      /\ r.updateAllQueue = s.updateAllQueue /\ ~r.currentError
  BY <1>2, <1>3, QueuesFacts
<1> QED
  BY <1>2, <1>4 DEF r, none

LEMMA UninstallFacts ==
  ASSUME NEW s \in States, Ordered(s), NEW name \in Apps, NEW force \in BOOLEAN
  PROVE  LET r == Uninstall(s, name, force)
         IN  /\ r \in States /\ Ordered(r) /\ Apart(r, s)
             /\ r.updateAllQueue = s.updateAllQueue
             /\ IF name \in ToSet(s.uninstallQueue) THEN r = s
                ELSE /\ ~r.currentError
                     /\ ToSet(r.installQueue) = ToSet(s.installQueue) \ {name}
                     /\ ToSet(r.uninstallQueue)
                          = IF {name, Unnamed} \cap Installed(s) # {} \/ force
                            THEN ToSet(s.uninstallQueue) \cup {name}
                                   \cup (Dependents(name) \cap Installed(s))
                            ELSE ToSet(s.uninstallQueue)
<1> DEFINE wanted == {name, Unnamed} \cap Installed(s) # {} \/ force
           dependents == Keeping(findDependents(name), Installed(s))
           more == s.uninstallQueue \o Append(dependents, name)
           installs == Without(s.installQueue, {name})
           uninstalls == IF wanted THEN reorderUninstallQueue(more)
                         ELSE s.uninstallQueue
           r == Uninstall(s, name, force)
<1>1. CASE name \in ToSet(s.uninstallQueue)
  <2>1. r = s
    BY <1>1 DEF Uninstall
  <2> QED
    BY <1>1, <2>1 DEF Apart
<1>2. CASE name \notin ToSet(s.uninstallQueue)
  <2>1. r = Queues(s, installs, uninstalls)
    BY <1>2 DEF Uninstall
  <2>2. s.installQueue \in Seq(Apps) /\ s.uninstallQueue \in Seq(Apps)
    BY DEF States
  <2>3. /\ dependents \in Seq(Apps)
        /\ ToSet(dependents) = Dependents(name) \cap Installed(s)
    BY DependentsFacts, KeepingFacts
  <2>4. /\ Append(dependents, name) \in Seq(Apps)
        /\ ToSet(Append(dependents, name)) = ToSet(dependents) \cup {name}
    <3> HIDE DEF dependents
    <3> QED
      BY <2>3, AppendFacts
  <2>5. /\ more \in Seq(Apps)
        /\ ToSet(more) = ToSet(s.uninstallQueue) \cup ToSet(Append(dependents, name))
    <3> DEFINE u == s.uninstallQueue
               t == Append(dependents, name)
    <3>1. u \in Seq(Apps) /\ t \in Seq(Apps)
      BY <2>2, <2>4
    <3> HIDE DEF dependents, u, t
    <3>2. u \o t \in Seq(Apps) /\ ToSet(u \o t) = ToSet(u) \cup ToSet(t)
      BY <3>1, ConcatFacts
    <3> QED
      BY <3>2 DEF u, t
  <2>6. /\ reorderUninstallQueue(more) \in Seq(Apps)
        /\ ToSet(reorderUninstallQueue(more)) = ToSet(more)
        /\ InOrder(Reverse(reorderUninstallQueue(more)))
    <3> HIDE DEF more
    <3> QED
      BY <2>5, ReorderUninstallFacts
  <2>7. /\ installs \in Seq(Apps) /\ InOrder(installs)
        /\ ToSet(installs) = ToSet(s.installQueue) \ {name}
    BY <2>2, WithoutFacts DEF Ordered
  <2> HIDE DEF more, dependents, installs, wanted
  <2>8. /\ uninstalls \in Seq(Apps) /\ InOrder(Reverse(uninstalls))
        /\ ToSet(uninstalls) = IF wanted
                               THEN ToSet(s.uninstallQueue) \cup {name}
                                      \cup (Dependents(name) \cap Installed(s))
                               ELSE ToSet(s.uninstallQueue)
    BY <2>2, <2>3, <2>4, <2>5, <2>6 DEF Ordered
  <2> HIDE DEF uninstalls, r
  <2>9. /\ r \in States /\ Ordered(r) /\ Apart(r, s)
        /\ r.installQueue = installs /\ r.uninstallQueue = uninstalls
        /\ r.updateAllQueue = s.updateAllQueue /\ ~r.currentError
    BY <2>1, <2>7, <2>8, QueuesFacts
  <2> QED
    BY <1>2, <2>7, <2>8, <2>9 DEF r, wanted
<1> QED
  BY <1>1, <1>2

LEMMA RecoverFacts ==
  ASSUME NEW s \in States, Ordered(s)
  PROVE  LET r == Recover(s)
         IN  /\ r \in States /\ Ordered(r) /\ Apart(r, s)
             /\ r.installQueue = s.installQueue
             /\ r.uninstallQueue = s.uninstallQueue
             /\ r.updateAllQueue = s.updateAllQueue /\ ~r.currentError
<1> DEFINE r == Recover(s)
<1>1. /\ r \in States /\ Apart(r, s)
      /\ r.installQueue = s.installQueue /\ r.uninstallQueue = s.uninstallQueue
      /\ r.updateAllQueue = s.updateAllQueue /\ ~r.currentError
  BY DEF Recover, States, Apart
<1>2. Ordered(r)
  BY <1>1 DEF Ordered
<1> QED
  BY <1>1, <1>2

LEMMA RunSuccessFacts ==
  ASSUME NEW s \in States, Ordered(s), NEW op \in Ops
  PROVE  LET r == RunSuccess(s, op)
             done == {op.name}
         IN  /\ r \in States /\ Ordered(r)
             /\ Installed(r) = IF op.type = "install" THEN Installed(s) \cup done
                               ELSE Installed(s) \ done
             /\ r.installQueue = IF op.type = "install" THEN Without(s.installQueue, done)
                                 ELSE s.installQueue
             /\ r.uninstallQueue = IF op.type = "install" THEN s.uninstallQueue
                                   ELSE Without(s.uninstallQueue, done)
             /\ r.outdated = s.outdated \ done
             /\ r.currentAppOp = NoOp /\ ~r.currentError
             /\ r.installQueue = <<>> /\ r.uninstallQueue = <<>>
                  => r.updateAllQueue = <<>>
<1> DEFINE r == RunSuccess(s, op)
           done == {op.name}
           others == Without(s.installed, done)
           installs == IF op.type = "install" THEN Without(s.installQueue, done)
                       ELSE s.installQueue
           uninstalls == IF op.type = "install" THEN s.uninstallQueue
                         ELSE Without(s.uninstallQueue, done)
           installed == IF op.type = "install" THEN Append(others, op.name) ELSE others
<1>1. /\ s.installed \in Seq(Apps) /\ s.installQueue \in Seq(Apps)
      /\ s.uninstallQueue \in Seq(Apps) /\ s.updateAllQueue \in Seq(Apps)
      /\ s.outdated \subseteq Apps /\ op.name \in Apps
  BY DEF States, Ops
<1>2. others \in Seq(Apps) /\ ToSet(others) = Installed(s) \ done
  BY <1>1, WithoutFacts DEF Installed
<1>3. /\ Without(s.installQueue, done) \in Seq(Apps)
      /\ InOrder(Without(s.installQueue, done))
  BY <1>1, WithoutFacts DEF Ordered
<1>4. /\ Without(s.uninstallQueue, done) \in Seq(Apps)
      /\ InOrder(Reverse(Without(s.uninstallQueue, done)))
  BY <1>1, WithoutFacts DEF Ordered
<1>5. /\ installs \in Seq(Apps) /\ InOrder(installs)
      /\ uninstalls \in Seq(Apps) /\ InOrder(Reverse(uninstalls))
  BY <1>1, <1>3, <1>4 DEF Ordered
<1>6. /\ installed \in Seq(Apps)
      /\ ToSet(installed) = IF op.type = "install" THEN Installed(s) \cup done
                            ELSE Installed(s) \ done
  <2> HIDE DEF others
  <2>1. /\ Append(others, op.name) \in Seq(Apps)
        /\ ToSet(Append(others, op.name)) = ToSet(others) \cup done
    BY <1>1, <1>2, AppendFacts
  <2> QED
    BY <1>2, <2>1
<1> DEFINE next == IF op.type = "install"
                   THEN [s EXCEPT !.installed = installed, !.installQueue = installs]
                   ELSE [s EXCEPT !.installed = installed,
                                  !.uninstallQueue = uninstalls]
           left == IF installs = <<>> /\ uninstalls = <<>> THEN <<>>
                   ELSE s.updateAllQueue
<1> HIDE DEF others
<1>7. /\ next \in States
      /\ next.installQueue = installs /\ next.uninstallQueue = uninstalls
      /\ next.installed = installed /\ next.outdated = s.outdated
      /\ next.updateAllQueue = s.updateAllQueue
  <2>1. CASE op.type = "install"
    <3> HIDE DEF installed
    <3> QED
      BY <1>1, <1>5, <1>6, <2>1 DEF States
  <2>2. CASE op.type # "install"
    <3> HIDE DEF installed
    <3> QED
      BY <1>1, <1>5, <1>6, <2>2 DEF States
  <2> QED
    BY <2>1, <2>2
<1>8. r = [next EXCEPT !.outdated = @ \ done, !.currentAppOp = NoOp,
                       !.currentError = FALSE,
                       !.updateAllQueue = IF next.installQueue = <<>>
                                               /\ next.uninstallQueue = <<>>
                                          THEN <<>> ELSE @]
  BY DEF RunSuccess, others
<1> HIDE DEF next, r, done, installed, installs, uninstalls
<1>10. /\ r \in States
       /\ r.installed = installed /\ r.installQueue = installs
       /\ r.uninstallQueue = uninstalls /\ r.outdated = s.outdated \ done
       /\ r.currentAppOp = NoOp /\ ~r.currentError
       /\ installs = <<>> /\ uninstalls = <<>> => r.updateAllQueue = <<>>
  <2>1. left \in Seq(Apps)
    BY <1>1
  <2>2. r = [next EXCEPT !.outdated = s.outdated \ done, !.currentAppOp = NoOp,
                         !.currentError = FALSE, !.updateAllQueue = left]
    BY <1>7, <1>8
  <2>3. installs = <<>> /\ uninstalls = <<>> => left = <<>>
    OBVIOUS
  <2> HIDE DEF left
  <2> QED
    BY <1>1, <1>7, <2>1, <2>2, <2>3 DEF States
<1>9. Ordered(r)
  BY <1>5, <1>10 DEF Ordered
<1> QED
  BY <1>6, <1>9, <1>10 DEF r, installs, uninstalls, done, Installed

LEMMA RunErrorFacts ==
  ASSUME NEW s \in States
  PROVE  LET r == RunError(s)
         IN  /\ r \in States /\ Ordered(r)
             /\ r.installQueue = <<>> /\ r.uninstallQueue = <<>>
             /\ r.updateAllQueue = <<>> /\ r.currentAppOp = NoOp /\ r.currentError
<1> DEFINE r == RunError(s)
           none == <<>>
<1>0. none \in Seq(Apps)
  OBVIOUS
<1>1. /\ r \in States
      /\ r.installQueue = none /\ r.uninstallQueue = none
      /\ r.updateAllQueue = none /\ r.currentAppOp = NoOp /\ r.currentError
  <2>1. r = [s EXCEPT !.uninstallQueue = none, !.installQueue = none,
                      !.updateAllQueue = none, !.currentAppOp = NoOp,
                      !.currentError = TRUE]
    BY DEF RunError
  <2> HIDE DEF none, r
  <2> QED
    BY <1>0, <2>1 DEF States
<1>2. Ordered(r)
  BY <1>1, EmptyOrder DEF Ordered
<1> QED
  BY <1>1, <1>2

\* What an install updates: outdated apps that share a dependency with it.
Related(name) ==
  {name} \cup ToSet(DepsOf(name))
    \cup UNION {Dependents(d) : d \in {name} \cup ToSet(DepsOf(name))}

\* The outdated apps that Install takes along.
Updated(s, name) ==
  IF WithDeps(name) \cap s.outdated # {}
  THEN Installed(s) \cap s.outdated \cap Related(name) ELSE {}

\* An install that is refused, one that cancels uninstalls, and one that is queued.
Refused(s, name) ==
  name \in ToSet(s.installQueue) \/ name \in Installed(s) \ s.outdated

LEMMA InstallFacts ==
  ASSUME NEW s \in States, Ordered(s), NEW name \in Listed
  PROVE  LET r == Install(s, name)
             U == ToSet(s.uninstallQueue)
         IN  /\ r \in States /\ Ordered(r) /\ Apart(r, s)
             /\ r.updateAllQueue = s.updateAllQueue
             /\ Refused(s, name) => r = s
             /\ ~Refused(s, name) =>
                  /\ ~r.currentError
                  /\ ToSet(r.installQueue)
                       = ToSet(s.installQueue)
                           \cup (IF U \cap WithDeps(name) # {} THEN {}
                                 ELSE Updated(s, name) \cup {name}
                                        \cup (WithDeps(name) \ Installed(s)))
                  /\ ToSet(r.uninstallQueue)
                       = IF U \cap WithDeps(name) # {} THEN U \ WithDeps(name)
                         ELSE U \cup Updated(s, name)
<1> DEFINE r == Install(s, name)
           U == ToSet(s.uninstallQueue)
           deps == ToSet(DepsOf(name))
           related == {name} \cup deps
             \cup UNION {ToSet(findDependents(d)) : d \in {name} \cup deps}
           stale == {name} \cup deps
           update == IF stale \cap s.outdated # {}
                     THEN Keeping(s.installed, s.outdated \cap related) ELSE <<>>
           kept == Without(s.uninstallQueue, stale)
           missing == Append(Without(DepsOf(name), Installed(s)), name)
<1>1. /\ s.installed \in Seq(Apps) /\ s.installQueue \in Seq(Apps)
      /\ s.uninstallQueue \in Seq(Apps) /\ name \in Apps /\ DepsOf(name) \in Seq(Apps)
  BY DepsFacts DEF States
<1>2. related = Related(name) /\ stale = WithDeps(name)
  BY DependentsFacts DEF Related, WithDeps
<1>3. update \in Seq(Apps) /\ ToSet(update) = Updated(s, name)
  <2>1. /\ Keeping(s.installed, s.outdated \cap related) \in Seq(Apps)
        /\ ToSet(Keeping(s.installed, s.outdated \cap related))
             = Installed(s) \cap (s.outdated \cap related)
    BY <1>1, KeepingFacts DEF Installed
  <2> HIDE DEF related
  <2> QED
    BY <1>2, <2>1, EmptyFacts DEF Updated
<1>4. /\ kept \in Seq(Apps)
      /\ ToSet(kept) = U \ stale
      /\ kept = s.uninstallQueue <=> U \cap stale = {}
  BY <1>1, WithoutFacts
<1>5. /\ missing \in Seq(Apps)
      /\ ToSet(missing) = (deps \ Installed(s)) \cup {name}
  <2>1. /\ Without(DepsOf(name), Installed(s)) \in Seq(Apps)
        /\ ToSet(Without(DepsOf(name), Installed(s))) = deps \ Installed(s)
    BY <1>1, WithoutFacts
  <2> QED
    BY <1>1, <2>1, AppendFacts
<1>6. CASE Refused(s, name)
  <2>1. r = s
    BY <1>6 DEF Install, Refused
  <2> QED
    BY <1>6, <2>1 DEF Apart
<1>7. CASE ~Refused(s, name) /\ U \cap stale # {}
  <2> DEFINE installs == reorderInstallQueue(s.installQueue)
             uninstalls == reorderUninstallQueue(kept)
  <2>1. r = Queues(s, installs, uninstalls)
    BY <1>4, <1>7 DEF Install, Refused
  <2>2. /\ installs \in Seq(Apps) /\ ToSet(installs) = ToSet(s.installQueue)
        /\ InOrder(installs)
    BY <1>1, ReorderFacts
  <2>3. /\ uninstalls \in Seq(Apps) /\ ToSet(uninstalls) = ToSet(kept)
        /\ InOrder(Reverse(uninstalls))
    <3> HIDE DEF kept
    <3> QED
      BY <1>4, ReorderUninstallFacts
  <2> HIDE DEF installs, uninstalls, r, kept, stale, missing, update, related
  <2>4. /\ r \in States /\ Ordered(r) /\ Apart(r, s)
        /\ r.installQueue = installs /\ r.uninstallQueue = uninstalls
        /\ r.updateAllQueue = s.updateAllQueue /\ ~r.currentError
    BY <2>1, <2>2, <2>3, QueuesFacts
  <2> QED
    BY <1>2, <1>4, <1>7, <2>2, <2>3, <2>4 DEF r
<1>8. CASE ~Refused(s, name) /\ U \cap stale = {}
  <2> DEFINE installs == reorderInstallQueue(s.installQueue \o update \o missing)
             uninstalls == reorderUninstallQueue(kept \o update)
  <2>1. r = Queues(s, installs, uninstalls)
    BY <1>4, <1>8 DEF Install, Refused
  <2> HIDE DEF kept, missing, update
  <2>2. /\ s.installQueue \o update \in Seq(Apps)
        /\ ToSet(s.installQueue \o update) = ToSet(s.installQueue) \cup ToSet(update)
    BY <1>1, <1>3, ConcatFacts
  <2>3. /\ s.installQueue \o update \o missing \in Seq(Apps)
        /\ ToSet(s.installQueue \o update \o missing)
             = ToSet(s.installQueue) \cup ToSet(update) \cup ToSet(missing)
    <3> DEFINE more == s.installQueue \o update
    <3>0. more \in Seq(Apps)
      BY <2>2
    <3> HIDE DEF more
    <3>1. /\ more \o missing \in Seq(Apps)
          /\ ToSet(more \o missing) = ToSet(more) \cup ToSet(missing)
      BY <1>5, <3>0, ConcatFacts
    <3> QED
      BY <2>2, <3>1 DEF more
  <2>4. /\ installs \in Seq(Apps) /\ InOrder(installs)
        /\ ToSet(installs) = ToSet(s.installQueue) \cup ToSet(update) \cup ToSet(missing)
    BY <2>3, ReorderFacts
  <2>5. /\ kept \o update \in Seq(Apps)
        /\ ToSet(kept \o update) = ToSet(kept) \cup ToSet(update)
    BY <1>3, <1>4, ConcatFacts
  <2>6. /\ uninstalls \in Seq(Apps) /\ InOrder(Reverse(uninstalls))
        /\ ToSet(uninstalls) = ToSet(kept) \cup ToSet(update)
    BY <2>5, ReorderUninstallFacts
  <2> HIDE DEF installs, uninstalls, r, stale, related
  <2>7. /\ r \in States /\ Ordered(r) /\ Apart(r, s)
        /\ r.installQueue = installs /\ r.uninstallQueue = uninstalls
        /\ r.updateAllQueue = s.updateAllQueue /\ ~r.currentError
    BY <2>1, <2>4, <2>6, QueuesFacts
  <2>8. ToSet(kept) = U
    BY <1>4, <1>8
  <2>9. deps \ Installed(s) \subseteq WithDeps(name)
    BY DEF WithDeps
  <2>10. ToSet(missing) = {name} \cup (WithDeps(name) \ Installed(s))
    BY <1>5 DEF WithDeps
  <2> HIDE DEF deps
  <2>11. U \cap WithDeps(name) = {}
    BY <1>2, <1>8
  <2> QED
    BY <1>3, <1>8, <2>4, <2>6, <2>7, <2>8, <2>10, <2>11 DEF r
<1> QED
  BY <1>6, <1>7, <1>8

\* What an update of everything updates.
Outdated(s) == Installed(s) \cap s.outdated \cap Listed

\* The apps that UpdateAll updates.
AllUpdated(s) ==
  Outdated(s) \cup (Installed(s) \cap UNION {Dependents(d) : d \in Outdated(s)})

LEMMA UpdateAllFacts ==
  ASSUME NEW s \in States, Ordered(s)
  PROVE  LET r == UpdateAll(s)
         IN  /\ r \in States /\ Ordered(r) /\ Apart(r, s)
             /\ ToSet(r.installQueue) = ToSet(s.installQueue) \cup AllUpdated(s)
             /\ ToSet(r.uninstallQueue) = ToSet(s.uninstallQueue) \cup AllUpdated(s)
             /\ r.updateAllQueue = r.installQueue /\ ~r.currentError
<1> DEFINE r == UpdateAll(s)
           outdated == Keeping(s.installed, s.outdated \cap Listed)
           n == Len(outdated)
           S == Seq(Apps)
           Step(l, i) == l \o <<outdated[i]>>
                           \o Keeping(s.installed, Dependents(outdated[i]))
           Rec(f) == f = [i \in 0..n |-> IF i = 0 THEN <<>> ELSE Step(f[i - 1], i)]
           upTo == CHOOSE f : Rec(f)
           F == [i \in 1..n |-> [l \in S |-> Step(l, i)]]
           update == upTo[n]
           installs == reorderInstallQueue(s.installQueue \o update)
           uninstalls == reorderUninstallQueue(s.uninstallQueue \o update)
<1>1. r = [Queues(s, installs, uninstalls) EXCEPT !.updateAllQueue = installs]
  BY DEF UpdateAll
<1>2. /\ s.installed \in S /\ s.installQueue \in S /\ s.uninstallQueue \in S
  BY DEF States
<1>3. outdated \in S /\ ToSet(outdated) = Outdated(s)
  BY <1>2, KeepingFacts DEF Outdated, Installed
<1> HIDE DEF outdated, r
<1>4. /\ n \in Nat
      /\ \A i \in 1..n : outdated[i] \in Apps
      /\ \A x : x \in Outdated(s) <=> \E i \in 1..n : outdated[i] = x
  BY <1>3, SeqFacts
<1> HIDE DEF n
<1>5. ASSUME NEW i \in 1..n, NEW l \in S
      PROVE  /\ Step(l, i) \in S
             /\ ToSet(Step(l, i)) = ToSet(l) \cup {outdated[i]}
                                      \cup (Installed(s) \cap Dependents(outdated[i]))
  <2> DEFINE d == outdated[i]
             k == Keeping(s.installed, Dependents(d))
             one == <<d>>
             m == l \o one
  <2>1. k \in S /\ ToSet(k) = Installed(s) \cap Dependents(d)
    BY <1>2, KeepingFacts DEF Installed
  <2>2. one \in S /\ ToSet(one) = {d}
    BY <1>4 DEF ToSet
  <2> HIDE DEF k, one
  <2>3. m \in S /\ ToSet(m) = ToSet(l) \cup ToSet(one)
    BY <2>2, ConcatFacts
  <2> HIDE DEF m
  <2>4. m \o k \in S /\ ToSet(m \o k) = ToSet(m) \cup ToSet(k)
    BY <2>1, <2>3, ConcatFacts
  <2>5. Step(l, i) = m \o k
    BY DEF m, k, one
  <2> HIDE DEF Step
  <2> QED
    BY <2>1, <2>2, <2>3, <2>4, <2>5
<1> HIDE DEF Step, S
<1>6. F \in [1..n -> [S -> S]]
  BY <1>5
<1>7. <<>> \in S /\ ToSet(<<>>) = {}
  BY EmptyFacts DEF S
<1>8. PICK f \in [0..n -> S] :
        f[0] = <<>> /\ \A i \in 1..n : f[i] = F[i][f[i - 1]]
  <2> HIDE DEF F
  <2>1. Iterated(S, n, <<>>, F)
    BY <1>4, <1>6, <1>7, Iterates
  <2> QED
    BY <2>1 DEF Iterated
<1>9. ASSUME NEW i \in 1..n PROVE f[i] = Step(f[i - 1], i)
  <2>1. i - 1 \in 0..n
    BY <1>4
  <2>2. f[i - 1] \in S
    BY <2>1
  <2> QED
    BY <1>8, <2>2
<1>10. Rec(f)
  <2>1. ASSUME NEW i \in 0..n
        PROVE  f[i] = IF i = 0 THEN <<>> ELSE Step(f[i - 1], i)
    <3>1. i = 0 \/ i \in 1..n
      BY <1>4
    <3> QED
      BY <1>8, <1>9, <3>1
  <2>2. f = [i \in 0..n |-> f[i]]
    OBVIOUS
  <2> QED
    BY <2>1, <2>2, Zenon
<1>11. Rec(upTo)
  <2> HIDE DEF Rec
  <2> QED
    BY <1>10
<1> HIDE DEF upTo
<1>12. upTo[0] = <<>>
  BY <1>4, <1>11
<1>13. ASSUME NEW i \in 1..n PROVE upTo[i] = Step(upTo[i - 1], i)
  <2>1. i \in 0..n /\ i # 0
    BY <1>4
  <2> QED
    BY <1>11, <2>1, Zenon
<1> DEFINE Right(k) ==
      /\ upTo[k] \in S
      /\ \A x : x \in ToSet(upTo[k])
                  <=> \E m \in 1..k : \/ x = outdated[m]
                                      \/ x \in Installed(s) \cap Dependents(outdated[m])
           T == {k \in Nat : k <= n => Right(k)}
<1>14. 0 \in T
  BY <1>7, <1>12
<1>15. ASSUME NEW k \in Nat, k \in T PROVE k + 1 \in T
  <2> SUFFICES ASSUME k + 1 <= n PROVE Right(k + 1)
    OBVIOUS
  <2>1. k + 1 \in 1..n /\ Right(k)
    <3> HIDE DEF Right
    <3> QED
      BY <1>4, <1>15
  <2>2. upTo[k + 1] = Step(upTo[k], k + 1)
    BY <1>13, <2>1
  <2> DEFINE more == {outdated[k + 1]} \cup (Installed(s) \cap Dependents(outdated[k + 1]))
  <2>3. upTo[k + 1] \in S /\ ToSet(upTo[k + 1]) = ToSet(upTo[k]) \cup more
    BY <1>5, <2>1, <2>2
  <2>4. ASSUME NEW x
        PROVE  x \in ToSet(upTo[k + 1])
                 <=> \E m \in 1..k + 1 : \/ x = outdated[m]
                                         \/ x \in Installed(s) \cap Dependents(outdated[m])
    <3>1. x \in more <=> \/ x = outdated[k + 1]
                         \/ x \in Installed(s) \cap Dependents(outdated[k + 1])
      OBVIOUS
    <3>2. \A m : m \in 1..k + 1 <=> m \in 1..k \/ m = k + 1
      BY <2>1
    <3> HIDE DEF more
    <3> QED
      BY <2>1, <2>3, <3>1, <3>2
  <2> QED
    BY <2>3, <2>4
<1>16. Right(n)
  <2>1. n \in T
    <3> HIDE DEF T
    <3> QED
      BY <1>4, <1>14, <1>15, Induct
  <2> HIDE DEF Right
  <2> QED
    BY <1>4, <2>1
<1>17. update \in S
  BY <1>16
<1>18. ToSet(update) = AllUpdated(s)
  BY <1>4, <1>16 DEF AllUpdated
<1> HIDE DEF update
<1>19. /\ s.installQueue \o update \in S
       /\ ToSet(s.installQueue \o update) = ToSet(s.installQueue) \cup ToSet(update)
       /\ s.uninstallQueue \o update \in S
       /\ ToSet(s.uninstallQueue \o update) = ToSet(s.uninstallQueue) \cup ToSet(update)
  BY <1>2, <1>17, ConcatFacts DEF S
<1>20. /\ installs \in S /\ InOrder(installs)
       /\ ToSet(installs) = ToSet(s.installQueue \o update)
  BY <1>19, ReorderFacts DEF S
<1>21. /\ uninstalls \in S /\ InOrder(Reverse(uninstalls))
       /\ ToSet(uninstalls) = ToSet(s.uninstallQueue \o update)
  BY <1>19, ReorderUninstallFacts DEF S
<1> HIDE DEF installs, uninstalls
<1> DEFINE q == Queues(s, installs, uninstalls)
<1>22. /\ q \in States /\ Ordered(q) /\ Apart(q, s)
       /\ q.installQueue = installs /\ q.uninstallQueue = uninstalls
       /\ ~q.currentError
  BY <1>20, <1>21, QueuesFacts DEF S
<1>23. r = [q EXCEPT !.updateAllQueue = installs]
  BY <1>1
<1> HIDE DEF q
<1>24. /\ r \in States /\ Apart(r, s)
       /\ r.installQueue = installs /\ r.uninstallQueue = uninstalls
       /\ r.updateAllQueue = installs /\ ~r.currentError
  BY <1>20, <1>22, <1>23 DEF S, States, Apart
<1>25. Ordered(r)
  BY <1>22, <1>24 DEF Ordered
<1> QED
  BY <1>18, <1>19, <1>20, <1>21, <1>24, <1>25 DEF r

(***************************************************************************)
(* The plan.                                                               *)
(***************************************************************************)

\* In a list without repetitions, to filter its head out is to take its tail.
LEMMA HeadGone ==
  ASSUME NEW A, NEW names \in Seq(A), names # <<>>,
         \A i, j \in DOMAIN names : i < j => names[i] # names[j]
  PROVE  Without(names, {Head(names)}) = Tail(names)
<1> DEFINE n == Len(names)
           kept == ToSet(names) \ {Head(names)}
<1>0. /\ n \in Nat /\ 1 \in 1..n
      /\ \A i \in 1..n : names[i] \in A
      /\ Tail(names) \in Seq(A) /\ Len(Tail(names)) = n - 1
      /\ \A m \in 1..n - 1 : Tail(names)[m] = names[m + 1]
      /\ Head(names) = names[1]
  BY HeadTailProperties
<1>1. \A i \in 1..n : names[i] \in kept <=> i # 1
  <2>1. \A i \in 1..n : names[i] \in ToSet(names)
    BY SeqFacts
  <2>2. \A i \in 1..n : i # 1 => names[i] # names[1]
    BY <1>0, SeqFacts
  <2> QED
    BY <1>0, <2>1, <2>2
<1>2. PICK f \in [0..n -> Seq(A)] :
        /\ f[0] = <<>>
        /\ \A i \in 1..n : f[i] = IF names[i] \in kept THEN Append(f[i - 1], names[i])
                                  ELSE f[i - 1]
        /\ Keeping(names, kept) = f[n]
  <2> HIDE DEF kept
  <2>1. \E f \in [0..Len(names) -> Seq(A)] : KeptBy(f, names, kept)
    BY KeepingSteps
  <2> QED
    BY <2>1 DEF KeptBy
<1> HIDE DEF n, kept
<1> DEFINE Right(k) == Len(f[k + 1]) = k /\ \A m \in 1..k : f[k + 1][m] = names[m + 1]
           T == {k \in Nat : k + 1 <= n => Right(k)}
<1>3. 0 \in T
  <2>1. f[1] = f[0]
    BY <1>0, <1>1, <1>2
  <2> QED
    BY <1>2, <2>1
<1>4. ASSUME NEW k \in Nat, k \in T PROVE k + 1 \in T
  <2> SUFFICES ASSUME k + 1 + 1 <= n PROVE Right(k + 1)
    OBVIOUS
  <2>1. k + 2 \in 1..n /\ k + 1 \in 0..n /\ Right(k) /\ k + 2 # 1
    <3> HIDE DEF Right
    <3> QED
      BY <1>0, <1>4
  <2> DEFINE s == f[k + 1]
  <2>2. f[k + 2] = Append(s, names[k + 2])
    <3>1. f[k + 2] = IF names[k + 2] \in kept THEN Append(s, names[k + 2]) ELSE s
      BY <1>2, <2>1
    <3>2. names[k + 2] \in kept
      BY <1>1, <2>1
    <3> QED
      BY <3>1, <3>2
  <2>3. s \in Seq(A) /\ names[k + 2] \in A
    BY <1>0, <1>2, <2>1
  <2>4. Len(s) = k /\ \A m \in 1..k : s[m] = names[m + 1]
    BY <2>1
  <2> HIDE DEF s
  <2> DEFINE e == names[k + 2]
             t == Append(s, e)
  <2>5. /\ Len(t) = k + 1
        /\ \A m \in 1..k : t[m] = names[m + 1]
        /\ t[k + 1] = e
    <3> HIDE DEF e
    <3> QED
      BY <2>3, <2>4
  <2> HIDE DEF t
  <2>6. \A m \in 1..k + 1 : t[m] = names[m + 1]
    <3>1. \A m : m \in 1..k + 1 <=> m \in 1..k \/ m = k + 1
      OBVIOUS
    <3>2. k + 1 + 1 = k + 2
      OBVIOUS
    <3> QED
      BY <2>5, <3>1, <3>2
  <2>7. f[k + 1 + 1] = t
    BY <2>2 DEF t
  <2> QED
    BY <2>5, <2>6, <2>7
<1>5. Right(n - 1)
  <2>1. n - 1 \in Nat /\ n - 1 + 1 <= n
    BY <1>0
  <2>2. n - 1 \in T
    <3> HIDE DEF T
    <3> QED
      BY <2>1, <1>3, <1>4, Induct
  <2> HIDE DEF Right
  <2> QED
    BY <2>1, <2>2
<1>6. f[n] \in Seq(A)
  BY <1>0, <1>2
<1>7. Len(f[n]) = n - 1 /\ \A m \in 1..n - 1 : f[n][m] = names[m + 1]
  <2>1. n - 1 + 1 = n
    BY <1>0
  <2> QED
    BY <1>5, <2>1
<1> DEFINE t == Tail(names)
<1>8. t \in Seq(A) /\ Len(t) = n - 1 /\ \A m \in 1..n - 1 : t[m] = names[m + 1]
  BY <1>0
<1> HIDE DEF t
<1>9. f[n] = t
  BY <1>6, <1>7, <1>8, SeqEqual
<1> QED
  BY <1>2, <1>9 DEF kept, t, Without

\* getActionPlan lists the queue of uninstalls and then the one of installs.
LEMMA PlanFacts ==
  ASSUME NEW s \in States
  PROVE  LET p == getActionPlan(s)
             u == s.uninstallQueue
             q == s.installQueue
         IN  /\ p \in Seq(Ops)
             /\ Len(p) = Len(u) + Len(q)
             /\ \A i \in 1..Len(p) :
                  p[i] = IF i <= Len(u) THEN Op("uninstall", u[i])
                         ELSE Op("install", q[i - Len(u)])
             /\ p = <<>> <=> ~Queued(s)
<1> DEFINE u == s.uninstallQueue
           q == s.installQueue
           first == [i \in DOMAIN u |-> Op("uninstall", u[i])]
           then == [i \in DOMAIN q |-> Op("install", q[i])]
           p == first \o then
<1>1. u \in Seq(Apps) /\ q \in Seq(Apps)
  BY DEF States
<1>2. /\ DOMAIN u = 1..Len(u) /\ Len(u) \in Nat /\ \A i \in 1..Len(u) : u[i] \in Apps
      /\ DOMAIN q = 1..Len(q) /\ Len(q) \in Nat /\ \A i \in 1..Len(q) : q[i] \in Apps
  BY <1>1, SeqFacts
<1>3. first \in Seq(Ops) /\ Len(first) = Len(u)
  <2>1. first \in [1..Len(u) -> Ops]
    BY <1>2 DEF Op, Ops
  <2>2. first \in Seq(Ops)
    BY <1>2, <2>1, SeqDef
  <2> QED
    BY <1>2, <2>1, <2>2
<1>4. then \in Seq(Ops) /\ Len(then) = Len(q)
  <2>1. then \in [1..Len(q) -> Ops]
    BY <1>2 DEF Op, Ops
  <2>2. then \in Seq(Ops)
    BY <1>2, <2>1, SeqDef
  <2> QED
    BY <1>2, <2>1, <2>2
<1>5. /\ \A i \in 1..Len(u) : first[i] = Op("uninstall", u[i])
      /\ \A i \in 1..Len(q) : then[i] = Op("install", q[i])
  BY <1>2
<1> HIDE DEF first, then
<1> DEFINE m == Len(u)
           k == Len(q)
<1>6. /\ m \in Nat /\ k \in Nat /\ Len(first) = m /\ Len(then) = k
      /\ u = <<>> <=> m = 0
      /\ q = <<>> <=> k = 0
  BY <1>1, <1>3, <1>4
<1>7. getActionPlan(s) = p
  BY DEF getActionPlan, first, then
<1>8. /\ p \in Seq(Ops)
      /\ Len(p) = m + k
      /\ \A i \in 1..m + k : p[i] = IF i <= m THEN first[i] ELSE then[i - m]
  <2> HIDE DEF m, k
  <2>1. /\ p \in Seq(Ops)
        /\ Len(p) = Len(first) + Len(then)
        /\ \A i \in 1..Len(first) + Len(then) :
             p[i] = IF i <= Len(first) THEN first[i] ELSE then[i - Len(first)]
    BY <1>3, <1>4, ConcatProperties
  <2> QED
    BY <1>6, <2>1
<1>9. /\ \A i \in 1..m : first[i] = Op("uninstall", u[i])
      /\ \A i \in 1..k : then[i] = Op("install", q[i])
  BY <1>5
<1> HIDE DEF p, m, k
<1>10. ASSUME NEW i \in 1..m + k
       PROVE  p[i] = IF i <= m THEN Op("uninstall", u[i]) ELSE Op("install", q[i - m])
  <2>1. CASE i <= m
    <3>1. i \in 1..m
      BY <1>6, <2>1
    <3> QED
      BY <1>8, <1>9, <2>1, <3>1
  <2>2. CASE ~(i <= m)
    <3>1. i - m \in 1..k
      BY <1>6, <2>2
    <3> QED
      BY <1>8, <1>9, <2>2, <3>1
  <2> QED
    BY <2>1, <2>2
<1>11. p = <<>> <=> ~Queued(s)
  <2>1. p = <<>> <=> Len(p) = 0
    BY <1>8
  <2>2. m + k = 0 <=> m = 0 /\ k = 0
    BY <1>6
  <2> QED
    BY <1>6, <1>8, <2>1, <2>2 DEF Queued
<1> QED
  BY <1>7, <1>8, <1>10, <1>11 DEF m, k

LEMMA PlanHead ==
  ASSUME NEW s \in States, Queued(s)
  PROVE  LET op == Head(getActionPlan(s))
         IN  /\ op \in Ops
             /\ s.uninstallQueue # <<>> => op = Op("uninstall", Head(s.uninstallQueue))
             /\ s.uninstallQueue = <<>> => op = Op("install", Head(s.installQueue))
<1> DEFINE p == getActionPlan(s)
           u == s.uninstallQueue
           q == s.installQueue
<1>1. /\ p \in Seq(Ops) /\ p # <<>>
      /\ Len(p) = Len(u) + Len(q)
      /\ \A i \in 1..Len(p) : p[i] = IF i <= Len(u) THEN Op("uninstall", u[i])
                                     ELSE Op("install", q[i - Len(u)])
  BY PlanFacts
<1>2. u \in Seq(Apps) /\ q \in Seq(Apps)
  BY DEF States
<1> HIDE DEF p
<1>3. Head(p) = p[1] /\ 1 \in 1..Len(p) /\ p[1] \in Ops
  <2>1. p \in Seq(Ops) /\ p # <<>>
    BY <1>1
  <2>2. Head(p) = p[1] /\ 1 \in 1..Len(p)
    BY <2>1
  <2> QED
    BY <2>1, <2>2, ElementOfSeq
<1>4. u # <<>> => 1 <= Len(u) /\ Head(u) = u[1]
  BY <1>2
<1>5. u = <<>> => Len(u) = 0
  OBVIOUS
<1>6. q # <<>> => Head(q) = q[1]
  BY <1>2
<1>7. u = <<>> => q # <<>>
  BY DEF Queued
<1>8. u # <<>> => p[1] = Op("uninstall", u[1])
  BY <1>1, <1>3, <1>4
<1>9. u = <<>> => p[1] = Op("install", q[1])
  BY <1>1, <1>3, <1>5
<1> QED
  BY <1>3, <1>4, <1>6, <1>7, <1>8, <1>9 DEF p

\* Queues in order hold no app twice.
LEMMA OrderedDistinct ==
  ASSUME NEW s \in States, Ordered(s)
  PROVE  /\ \A i, j \in DOMAIN s.installQueue :
              i < j => s.installQueue[i] # s.installQueue[j]
         /\ \A i, j \in DOMAIN s.uninstallQueue :
              i < j => s.uninstallQueue[i] # s.uninstallQueue[j]
<1> DEFINE u == s.uninstallQueue
<1>1. \A i, j \in DOMAIN s.installQueue :
        i < j => s.installQueue[i] # s.installQueue[j]
  BY DEF Ordered, InOrder
<1>2. u \in Seq(Apps)
  BY DEF States
<1>3. /\ Reverse(u) \in Seq(Apps)
      /\ \A x, y : Before(Reverse(u), x, y) <=> Before(u, y, x)
  BY <1>2, ReverseFacts
<1>4. \A x, y : Before(Reverse(u), x, y) => x # y
  BY <1>3, InOrderIs DEF Ordered
<1> HIDE DEF u
<1>5. \A i, j \in DOMAIN u : i < j => u[i] # u[j]
  <2> SUFFICES ASSUME NEW i \in DOMAIN u, NEW j \in DOMAIN u, i < j
               PROVE  u[i] # u[j]
    OBVIOUS
  <2>1. Before(u, u[i], u[j])
    BY DEF Before
  <2> QED
    BY <1>3, <1>4, <2>1
<1> QED
  BY <1>1, <1>5 DEF u

LEMMA TailFacts ==
  ASSUME NEW A, NEW s \in Seq(A), s # <<>>
  PROVE  /\ Len(s) \in Nat \ {0} /\ Head(s) = s[1]
         /\ Tail(s) \in Seq(A) /\ Len(Tail(s)) = Len(s) - 1
         /\ \A i \in 1..Len(s) - 1 : Tail(s)[i] = s[i + 1]
OBVIOUS

\* When the first operation of a plan succeeds, the rest of it is the plan of the state:
\* the hook, which plans anew, and runAll, which does not, do the same.
LEMMA PlanTail ==
  ASSUME NEW s \in States, Ordered(s), Queued(s), NEW r \in States,
         r = RunSuccess(s, Head(getActionPlan(s)))
  PROVE  getActionPlan(r) = Tail(getActionPlan(s))
<1> DEFINE p == getActionPlan(s)
           o == getActionPlan(r)
           u == s.uninstallQueue
           q == s.installQueue
           v == r.uninstallQueue
           w == r.installQueue
<1>1. u \in Seq(Apps) /\ q \in Seq(Apps) /\ v \in Seq(Apps) /\ w \in Seq(Apps)
  BY DEF States
<1>2. /\ p \in Seq(Ops) /\ p # <<>>
      /\ Len(p) = Len(u) + Len(q)
      /\ \A i \in 1..Len(p) : p[i] = IF i <= Len(u) THEN Op("uninstall", u[i])
                                     ELSE Op("install", q[i - Len(u)])
  BY PlanFacts
<1>3. /\ o \in Seq(Ops)
      /\ Len(o) = Len(v) + Len(w)
      /\ \A i \in 1..Len(o) : o[i] = IF i <= Len(v) THEN Op("uninstall", v[i])
                                     ELSE Op("install", w[i - Len(v)])
  BY PlanFacts
<1> DEFINE op == Head(p)
<1>4. op \in Ops
  BY PlanHead
<1>5. /\ u # <<>> => op = Op("uninstall", Head(u))
      /\ u = <<>> => op = Op("install", Head(q))
  BY PlanHead
<1>6. /\ w = IF op.type = "install" THEN Without(q, {op.name}) ELSE q
      /\ v = IF op.type = "install" THEN u ELSE Without(u, {op.name})
  BY <1>4, RunSuccessFacts
<1>7. /\ \A i, j \in DOMAIN q : i < j => q[i] # q[j]
      /\ \A i, j \in DOMAIN u : i < j => u[i] # u[j]
  BY OrderedDistinct
<1>8. u # <<>> => v = Tail(u) /\ w = q
  <2> SUFFICES ASSUME u # <<>> PROVE v = Tail(u) /\ w = q
    OBVIOUS
  <2>1. op.type = "uninstall" /\ op.name = Head(u)
    BY <1>5 DEF Op
  <2>2. Without(u, {Head(u)}) = Tail(u)
    BY <1>1, <1>7, HeadGone
  <2> QED
    BY <1>6, <2>1, <2>2
<1>9. u = <<>> => v = <<>> /\ w = Tail(q) /\ q # <<>>
  <2> SUFFICES ASSUME u = <<>> PROVE v = <<>> /\ w = Tail(q) /\ q # <<>>
    OBVIOUS
  <2>0. q # <<>>
    BY DEF Queued
  <2>1. op.type = "install" /\ op.name = Head(q)
    BY <1>5 DEF Op
  <2>2. Without(q, {Head(q)}) = Tail(q)
    BY <1>1, <1>7, <2>0, HeadGone
  <2> QED
    BY <1>6, <2>0, <2>1, <2>2
<1> DEFINE m == Len(u)
           k == Len(q)
           t == Tail(p)
<1> HIDE DEF p, o, u, q, v, w
<1>10. m \in Nat /\ k \in Nat
  BY <1>1
<1>11. /\ t \in Seq(Ops) /\ Len(t) = m + k - 1
       /\ \A i \in 1..m + k - 1 : t[i] = p[i + 1]
  BY <1>2, TailFacts
<1> HIDE DEF t
<1>12. CASE u # <<>>
  <2>1. /\ m # 0 /\ Len(v) = m - 1 /\ w = q
        /\ \A i \in 1..m - 1 : v[i] = u[i + 1]
    BY <1>1, <1>8, <1>12, TailFacts
  <2> HIDE DEF m, k
  <2>2. Len(w) = k
    BY <2>1 DEF k
  <2>3. Len(o) = m + k - 1
    BY <1>3, <1>10, <2>1, <2>2
  <2>4. ASSUME NEW i \in 1..m + k - 1 PROVE o[i] = t[i]
    <3>1. i + 1 \in 1..m + k /\ i \in Nat
      BY <1>10
    <3>2. o[i] = IF i <= m - 1 THEN Op("uninstall", v[i])
                 ELSE Op("install", w[i - (m - 1)])
      BY <1>3, <2>1, <2>3
    <3>3. p[i + 1] = IF i + 1 <= m THEN Op("uninstall", u[i + 1])
                     ELSE Op("install", q[i + 1 - m])
      BY <1>2, <3>1 DEF m, k
    <3>4. i + 1 - m = i - (m - 1) /\ (i + 1 <= m <=> i <= m - 1)
      BY <1>10, <3>1
    <3>5. i <= m - 1 => v[i] = u[i + 1]
      BY <1>10, <2>1, <3>1
    <3> QED
      BY <1>11, <2>1, <3>2, <3>3, <3>4, <3>5
  <2>5. Len(o) = Len(t) /\ \A i \in 1..Len(o) : o[i] = t[i]
    BY <1>11, <2>3, <2>4
  <2>6. o = t
    BY <1>3, <1>11, <2>5, SeqEqual
  <2> QED
    BY <2>6 DEF o, t, p
<1>13. CASE u = <<>>
  <2>1. /\ m = 0 /\ Len(v) = 0 /\ Len(w) = k - 1 /\ k # 0
        /\ \A i \in 1..k - 1 : w[i] = q[i + 1]
    BY <1>1, <1>9, <1>13, TailFacts
  <2> HIDE DEF m, k
  <2>3. Len(o) = k - 1 /\ k - 1 = m + k - 1
    BY <1>3, <1>10, <2>1
  <2>4. ASSUME NEW i \in 1..k - 1 PROVE o[i] = t[i]
    <3>1. i + 1 \in 1..k /\ i \in Nat /\ ~(i <= 0) /\ ~(i + 1 <= 0)
      BY <1>10
    <3>2. o[i] = Op("install", w[i - 0])
      BY <1>3, <2>1, <2>3, <3>1
    <3>3. p[i + 1] = Op("install", q[i + 1 - 0])
      BY <1>2, <1>10, <2>1, <3>1 DEF m, k
    <3>4. i - 0 = i /\ i + 1 - 0 = i + 1
      BY <3>1
    <3>5. t[i] = p[i + 1]
      BY <1>10, <1>11, <2>1
    <3> QED
      BY <2>1, <3>2, <3>3, <3>4, <3>5
  <2>5. Len(o) = Len(t) /\ \A i \in 1..Len(o) : o[i] = t[i]
    BY <1>11, <2>3, <2>4
  <2>6. o = t
    BY <1>3, <1>11, <2>5, SeqEqual
  <2> QED
    BY <2>6 DEF o, t, p
<1> QED
  BY <1>12, <1>13

\* The states of initState while it goes through the apps to restore.
Started(installed, outdated) ==
  {s \in States : /\ Ordered(s)
                  /\ s.installed = installed
                  /\ s.outdated = outdated
                  /\ s.updateAllQueue = <<>>
                  /\ s.currentAppOp = NoOp
                  /\ ~s.currentError}

StartedBy(f, installed, outdated, wanted) ==
  /\ f[0].installQueue = <<>> /\ f[0].uninstallQueue = <<>>
  /\ \A i \in 1..Len(wanted) : f[i] = Install(f[i - 1], wanted[i])

\* initState goes through apps that are not installed, from a state without queues.
LEMMA InitSteps ==
  ASSUME NEW installed \in Seq(Apps), NEW outdated \in SUBSET Apps,
         NEW restored \in Seq(Apps)
  PROVE  LET wanted == Keeping(restored, Listed \ ToSet(installed))
         IN  \E f \in [0..Len(wanted) -> Started(installed, outdated)] :
               /\ StartedBy(f, installed, outdated, wanted)
               /\ initState(installed, outdated, restored) = f[Len(wanted)]
<1> DEFINE wanted == Keeping(restored, Listed \ ToSet(installed))
           n == Len(wanted)
           S == Started(installed, outdated)
           none == <<>>
           s == [installed |-> installed, outdated |-> outdated,
                 installQueue |-> none, uninstallQueue |-> none,
                 updateAllQueue |-> none, currentAppOp |-> NoOp,
                 currentError |-> FALSE]
           Rec(f) == f = [i \in 0..n |-> IF i = 0 THEN s
                                         ELSE Install(f[i - 1], wanted[i])]
           upTo == CHOOSE f : Rec(f)
           F == [i \in 1..n |-> [x \in S |-> Install(x, wanted[i])]]
<1>1. initState(installed, outdated, restored) = upTo[n]
  BY DEF initState
<1>2. wanted \in Seq(Apps) /\ ToSet(wanted) \subseteq Listed
  BY KeepingFacts
<1>3. n \in Nat /\ \A i \in 1..n : wanted[i] \in Listed
  <2> HIDE DEF wanted
  <2>1. /\ Len(wanted) \in Nat
        /\ \A x : x \in ToSet(wanted) <=> \E i \in 1..Len(wanted) : wanted[i] = x
    BY <1>2, SeqFacts
  <2> QED
    BY <1>2, <2>1
<1>4. none \in Seq(Apps) /\ InOrder(none) /\ InOrder(Reverse(none))
  BY EmptyOrder
<1> HIDE DEF none
<1>5. /\ s \in States /\ s.installQueue = none /\ s.uninstallQueue = none
      /\ s.installed = installed /\ s.outdated = outdated
      /\ s.updateAllQueue = none /\ s.currentAppOp = NoOp /\ ~s.currentError
  BY <1>4 DEF States
<1> HIDE DEF wanted, n, s
<1>6. s \in S
  BY <1>4, <1>5 DEF Started, Ordered, none
<1>7. ASSUME NEW i \in 1..n, NEW x \in S PROVE Install(x, wanted[i]) \in S
  <2> DEFINE y == Install(x, wanted[i])
  <2>1. x \in States /\ Ordered(x) /\ wanted[i] \in Listed
    BY <1>3 DEF Started
  <2>2. /\ y \in States /\ Ordered(y) /\ Apart(y, x)
        /\ y.updateAllQueue = x.updateAllQueue
        /\ Refused(x, wanted[i]) => y = x
        /\ ~Refused(x, wanted[i]) => ~y.currentError
    BY <2>1, InstallFacts
  <2> HIDE DEF y
  <2>3. y \in S
    BY <2>2 DEF Started, Apart
  <2> QED
    BY <2>3 DEF y
<1> HIDE DEF S
<1>8. F \in [1..n -> [S -> S]]
  BY <1>7
<1>9. PICK f \in [0..n -> S] :
        f[0] = s /\ \A i \in 1..n : f[i] = F[i][f[i - 1]]
  <2> HIDE DEF F
  <2>1. Iterated(S, n, s, F)
    BY <1>3, <1>6, <1>8, Iterates
  <2> QED
    BY <2>1 DEF Iterated
<1>10. ASSUME NEW i \in 1..n PROVE f[i] = Install(f[i - 1], wanted[i])
  <2>1. i - 1 \in 0..n
    BY <1>3
  <2>2. f[i - 1] \in S
    BY <2>1
  <2> QED
    BY <1>9, <2>2
<1>11. Rec(f)
  <2>1. ASSUME NEW i \in 0..n
        PROVE  f[i] = IF i = 0 THEN s ELSE Install(f[i - 1], wanted[i])
    <3>1. i = 0 \/ i \in 1..n
      BY <1>3
    <3> QED
      BY <1>9, <1>10, <3>1
  <2>2. f = [i \in 0..n |-> f[i]]
    OBVIOUS
  <2> QED
    BY <2>1, <2>2, Zenon
<1>12. Rec(upTo)
  <2> HIDE DEF Rec
  <2> QED
    BY <1>11
<1> HIDE DEF upTo
<1>13. upTo[0] = s
  BY <1>3, <1>12
<1>14. ASSUME NEW i \in 1..n PROVE upTo[i] = Install(upTo[i - 1], wanted[i])
  <2>1. i \in 0..n /\ i # 0
    BY <1>3
  <2> QED
    BY <1>12, <2>1, Zenon
<1>15. \A k \in 0..n : upTo[k] \in S
  <2> DEFINE T == {k \in Nat : k <= n => upTo[k] \in S}
  <2>1. 0 \in T
    BY <1>6, <1>13
  <2>2. ASSUME NEW k \in Nat, k \in T PROVE k + 1 \in T
    <3> SUFFICES ASSUME k + 1 <= n PROVE upTo[k + 1] \in S
      OBVIOUS
    <3>1. k + 1 \in 1..n /\ upTo[k] \in S
      BY <1>3, <2>2
    <3>2. upTo[k + 1] = Install(upTo[k], wanted[k + 1])
      BY <1>14, <3>1
    <3> QED
      BY <1>7, <3>1, <3>2
  <2>3. Nat \subseteq T
    <3> HIDE DEF T
    <3> QED
      BY <2>1, <2>2, Induct
  <2> QED
    BY <1>3, <2>3
<1>16. upTo \in [0..n -> S]
  BY <1>12, <1>15
<1>17. StartedBy(upTo, installed, outdated, wanted)
  BY <1>5, <1>13, <1>14 DEF StartedBy, none, n
<1> QED
  BY <1>1, <1>16, <1>17 DEF n, S, wanted

PredictedBy(f, s, ops) ==
  f[0] = s /\ \A i \in 1..Len(ops) : f[i] = RunSuccess(f[i - 1], ops[i])

\* The states with queues in order.
Sorted == {s \in States : Ordered(s)}

\* predictOptimisticState runs the plan, from one state with queues in order to another.
LEMMA PredictSteps ==
  ASSUME NEW s \in Sorted
  PROVE  LET ops == getActionPlan(s)
         IN  \E f \in [0..Len(ops) -> Sorted] :
               /\ PredictedBy(f, s, ops)
               /\ predictOptimisticState(s) = f[Len(ops)]
<1> DEFINE ops == getActionPlan(s)
           n == Len(ops)
           S == Sorted
           Rec(f) == f = [i \in 0..n |-> IF i = 0 THEN s
                                         ELSE RunSuccess(f[i - 1], ops[i])]
           upTo == CHOOSE f : Rec(f)
           F == [i \in 1..n |-> [x \in S |-> RunSuccess(x, ops[i])]]
<1>1. predictOptimisticState(s) = upTo[n]
  BY DEF predictOptimisticState
<1>2. ops \in Seq(Ops)
  BY PlanFacts DEF Sorted
<1>3. n \in Nat /\ \A i \in 1..n : ops[i] \in Ops
  BY <1>2, SeqFacts
<1> HIDE DEF ops, n
<1>7. ASSUME NEW i \in 1..n, NEW x \in S PROVE RunSuccess(x, ops[i]) \in S
  BY <1>3, RunSuccessFacts DEF Sorted
<1> HIDE DEF S
<1>8. F \in [1..n -> [S -> S]] /\ s \in S
  BY <1>7 DEF S
<1>9. PICK f \in [0..n -> S] :
        f[0] = s /\ \A i \in 1..n : f[i] = F[i][f[i - 1]]
  <2> HIDE DEF F
  <2>1. Iterated(S, n, s, F)
    BY <1>3, <1>8, Iterates
  <2> QED
    BY <2>1 DEF Iterated
<1>10. ASSUME NEW i \in 1..n PROVE f[i] = RunSuccess(f[i - 1], ops[i])
  <2>1. i - 1 \in 0..n
    BY <1>3
  <2>2. f[i - 1] \in S
    BY <2>1
  <2> QED
    BY <1>9, <2>2
<1>11. Rec(f)
  <2>1. ASSUME NEW i \in 0..n
        PROVE  f[i] = IF i = 0 THEN s ELSE RunSuccess(f[i - 1], ops[i])
    <3>1. i = 0 \/ i \in 1..n
      BY <1>3
    <3> QED
      BY <1>9, <1>10, <3>1
  <2>2. f = [i \in 0..n |-> f[i]]
    OBVIOUS
  <2> QED
    BY <2>1, <2>2, Zenon
<1>12. Rec(upTo)
  <2> HIDE DEF Rec
  <2> QED
    BY <1>11
<1> HIDE DEF upTo
<1>13. upTo[0] = s
  BY <1>3, <1>12
<1>14. ASSUME NEW i \in 1..n PROVE upTo[i] = RunSuccess(upTo[i - 1], ops[i])
  <2>1. i \in 0..n /\ i # 0
    BY <1>3
  <2> QED
    BY <1>12, <2>1, Zenon
<1>15. \A k \in 0..n : upTo[k] \in S
  <2> DEFINE T == {k \in Nat : k <= n => upTo[k] \in S}
  <2>1. 0 \in T
    BY <1>8, <1>13
  <2>2. ASSUME NEW k \in Nat, k \in T PROVE k + 1 \in T
    <3> SUFFICES ASSUME k + 1 <= n PROVE upTo[k + 1] \in S
      OBVIOUS
    <3>1. k + 1 \in 1..n /\ upTo[k] \in S
      BY <1>3, <2>2
    <3>2. upTo[k + 1] = RunSuccess(upTo[k], ops[k + 1])
      BY <1>14, <3>1
    <3> QED
      BY <1>7, <3>1, <3>2
  <2>3. Nat \subseteq T
    <3> HIDE DEF T
    <3> QED
      BY <2>1, <2>2, Induct
  <2> QED
    BY <1>3, <2>3
<1>16. upTo \in [0..n -> S]
  BY <1>12, <1>15
<1>17. PredictedBy(upTo, s, ops)
  BY <1>13, <1>14 DEF PredictedBy, n
<1> QED
  BY <1>1, <1>16, <1>17 DEF n, S, ops

(***************************************************************************)
(* The order of the queues, the error and the list of updates.             *)
(***************************************************************************)

\* The invariant behind the order of the queues: only runAll keeps a plan, and has one
\* while an operation runs; after an error the hook has nothing to run; the list of updates
\* ends with the queues.
RunsInv ==
  /\ setting \in Settings
  /\ state \in Sorted
  /\ plan \in Seq(Ops)
  /\ setting.hook => plan = <<>>
  /\ ~setting.hook /\ state.currentAppOp # NoOp => plan # <<>>
  /\ setting.hook /\ state.currentError
       => state.currentAppOp = NoOp /\ ~Queued(state)
  /\ state.currentAppOp = NoOp /\ ~Queued(state) => state.updateAllQueue = <<>>

LEMMA SettingsFacts ==
  ASSUME setting \in Settings
  PROVE  /\ setting.hook \in BOOLEAN /\ setting.overlap \in BOOLEAN
         /\ setting.mixed \in BOOLEAN /\ setting.faults \in BOOLEAN
         /\ setting.overlap => setting.hook
BY AppsAssumption

\* An order of a finite set holds its members.
LEMMA SetToSeqsFacts ==
  ASSUME NEW names \in SUBSET Apps, NEW s \in SetToSeqs(names)
  PROVE  s \in Seq(Apps) /\ ToSet(s) = names
<1> DEFINE n == Cardinality(names)
<1>1. IsFiniteSet(names)
  BY AppsAssumption, FS_Subset
<1>2. n \in Nat
  BY <1>1, FS_CardinalityType
<1>3. s \in [1..n -> names] /\ \A i, j \in 1..n : i # j => s[i] # s[j]
  BY DEF SetToSeqs
<1> HIDE DEF n
<1>4. s \in Seq(Apps) /\ DOMAIN s = 1..n
  <2>1. s \in [1..n -> Apps]
    BY <1>3
  <2> QED
    BY <1>2, <2>1, SeqDef
<1>5. ToSet(s) = names
  <2>1. ToSet(s) \subseteq names
    BY <1>3 DEF ToSet
  <2>2. s \in Injection(1..n, ToSet(s))
    BY <1>3, <1>4, Zenon DEF Injection, IsInjective, ToSet
  <2>3. Cardinality(1..n) = n /\ IsFiniteSet(1..n)
    BY <1>2, FS_Interval
  <2>4. IsFiniteSet(ToSet(s))
    BY <1>1, <2>1, FS_Subset
  <2>5. n <= Cardinality(ToSet(s))
    BY <2>2, <2>3, <2>4, FS_Injection
  <2>6. Cardinality(ToSet(s)) <= n /\ (Cardinality(ToSet(s)) = n => ToSet(s) = names)
    BY <1>1, <2>1, FS_Subset DEF n
  <2>7. Cardinality(ToSet(s)) \in Nat
    BY <2>4, FS_CardinalityType
  <2> QED
    BY <1>2, <2>5, <2>6, <2>7
<1> QED
  BY <1>4, <1>5

LEMMA InitFacts ==
  ASSUME NEW names \in Initials, NEW outdated \in SUBSET (names \ {Unnamed}),
         NEW installed \in SetToSeqs(names), NEW restored \in Restores
  PROVE  /\ installed \in Seq(Apps) /\ ToSet(installed) = names
         /\ outdated \in SUBSET Apps
         /\ restored \in Seq(Apps)
         /\ initState(installed, outdated, restored) \in Started(installed, outdated)
<1>1. installed \in Seq(Apps) /\ ToSet(installed) = names /\ outdated \in SUBSET Apps
  BY AppsAssumption, SetToSeqsFacts
<1>2. restored \in Seq(Apps)
  BY AppsAssumption
<1> DEFINE w == Keeping(restored, Listed \ ToSet(installed))
<1>3. \E f \in [0..Len(w) -> Started(installed, outdated)] :
        /\ StartedBy(f, installed, outdated, w)
        /\ initState(installed, outdated, restored) = f[Len(w)]
  BY <1>1, <1>2, InitSteps
<1>4. w \in Seq(Apps)
  BY <1>2, KeepingFacts
<1> HIDE DEF w
<1>5. Len(w) \in Nat /\ Len(w) \in 0..Len(w)
  BY <1>4
<1> QED
  BY <1>1, <1>2, <1>3, <1>5

LEMMA RunsStart == Init => RunsInv
<1> SUFFICES ASSUME Init PROVE RunsInv
  OBVIOUS
<1>1. PICK names \in Initials : \E outdated \in SUBSET (names \ {Unnamed}),
        installed \in SetToSeqs(names), restored \in Restores :
        /\ setting \in Settings /\ plan = <<>>
        /\ state = initState(installed, outdated, restored)
  BY DEF Init
<1>2. PICK outdated \in SUBSET (names \ {Unnamed}),
        installed \in SetToSeqs(names), restored \in Restores :
        /\ setting \in Settings /\ plan = <<>>
        /\ state = initState(installed, outdated, restored)
  BY <1>1
<1>3. state \in Started(installed, outdated)
  BY <1>2, InitFacts
<1> QED
  BY <1>2, <1>3 DEF RunsInv, Started, Sorted

\* The user acts on a state that has nothing to start.
LEMMA UserKeepsRuns ==
  ASSUME RunsInv, NEW next \in Sorted, NEW wanted, Dispatch(next, wanted),
         Apart(next, state),
         \/ next.updateAllQueue = state.updateAllQueue
         \/ next.updateAllQueue = next.installQueue,
         next = state \/ ~next.currentError
  PROVE  RunsInv'
<1>1. setting' = setting /\ plan' = plan /\ state' = next
  BY DEF Dispatch
<1>2. next.currentAppOp = state.currentAppOp
  BY DEF Apart
<1>3. /\ setting.hook => ~(state.currentAppOp = NoOp /\ Queued(state))
      /\ ~setting.hook => ~Queued(state) /\ state.currentAppOp = NoOp
  BY SettingsFacts DEF Dispatch, CanStart, Idle, RunsInv
<1>4. setting.hook /\ next.currentError
        => next.currentAppOp = NoOp /\ ~Queued(next)
  BY DEF RunsInv
<1>5. next.currentAppOp = NoOp /\ ~Queued(next) => next.updateAllQueue = <<>>
  <2> SUFFICES ASSUME next.currentAppOp = NoOp, ~Queued(next)
               PROVE  next.updateAllQueue = <<>>
    OBVIOUS
  <2>1. state.currentAppOp = NoOp /\ ~Queued(state)
    BY <1>2, <1>3, SettingsFacts DEF RunsInv
  <2>2. state.updateAllQueue = <<>>
    BY <2>1 DEF RunsInv
  <2>3. next.installQueue = <<>>
    BY DEF Queued
  <2> QED
    BY <2>2, <2>3
<1> QED
  BY <1>1, <1>2, <1>4, <1>5 DEF RunsInv, Queued

LEMMA UserSteps ==
  ASSUME state \in Sorted, User
  PROVE  \E next, wanted :
           /\ next \in Sorted
           /\ Dispatch(next, wanted) /\ Apart(next, state)
           /\ \/ next.updateAllQueue = state.updateAllQueue
              \/ next.updateAllQueue = next.installQueue
           /\ next = state \/ ~next.currentError
<1> DEFINE Fits(r) == /\ r \in Sorted /\ Apart(r, state)
                      /\ \/ r.updateAllQueue = state.updateAllQueue
                         \/ r.updateAllQueue = r.installQueue
                      /\ r = state \/ ~r.currentError
<1>0. state \in States /\ Ordered(state)
  BY DEF Sorted
<1>1. ASSUME NEW a \in Listed PROVE Fits(Install(state, a))
  BY <1>0, <1>1, InstallFacts DEF Sorted
<1>2. ASSUME NEW a \in Apps, NEW force \in BOOLEAN PROVE Fits(Uninstall(state, a, force))
  BY <1>0, <1>2, UninstallFacts DEF Sorted
<1>3. Fits(Wipe(state))
  BY <1>0, WipeFacts DEF Sorted
<1>4. Fits(UpdateAll(state))
  BY <1>0, UpdateAllFacts DEF Sorted
<1>5. Fits(Recover(state))
  BY <1>0, RecoverFacts DEF Sorted
<1>6. \E next, wanted : Fits(next) /\ Dispatch(next, wanted)
  <2> HIDE DEF Fits
  <2>1. CASE \E a \in Listed : UserInstall(a)
    BY <1>1, <2>1 DEF UserInstall
  <2>2. CASE \E a \in Apps, force \in BOOLEAN : UserUninstall(a, force)
    BY <1>2, <2>2 DEF UserUninstall
  <2>3. CASE UserWipe
    BY <1>3, <2>3 DEF UserWipe
  <2>4. CASE UserUpdateAll
    BY <1>4, <2>4 DEF UserUpdateAll
  <2>5. CASE UserRecover
    BY <1>5, <2>5 DEF UserRecover
  <2> QED
    BY <2>1, <2>2, <2>3, <2>4, <2>5 DEF User
<1> QED
  BY <1>6

LEMMA RunnerKeepsRuns ==
  ASSUME RunsInv, Run
  PROVE  RunsInv'
<1>0. state \in States /\ Ordered(state) /\ setting \in Settings /\ plan \in Seq(Ops)
  BY DEF RunsInv, Sorted
<1>1. CASE Launch
  <2>1. /\ ~setting.hook /\ plan' = getActionPlan(state)
        /\ state' = state /\ setting' = setting /\ state.currentAppOp = NoOp
    BY <1>1 DEF Launch
  <2>2. plan' \in Seq(Ops)
    BY <1>0, <2>1, PlanFacts
  <2> QED
    BY <2>1, <2>2 DEF RunsInv, Queued
<1>2. ASSUME CanStart PROVE Next1 \in Ops /\ (~setting.hook => plan # <<>>)
  <2>1. CASE setting.hook
    BY <1>0, <1>2, <2>1, PlanHead DEF CanStart, Next1
  <2>2. CASE ~setting.hook
    <3>1. plan # <<>>
      BY <1>2, <2>2 DEF CanStart
    <3>2. Head(plan) \in Ops
      BY <1>0, <3>1
    <3> QED
      BY <2>2, <3>1, <3>2 DEF Next1
  <2> QED
    BY <2>1, <2>2
<1>3. CASE Start
  <2>1. /\ state' = [state EXCEPT !.currentAppOp = Next1]
        /\ setting' = setting /\ plan' = plan /\ CanStart
    BY <1>3 DEF Start, RunStart
  <2>2. Next1 \in Ops /\ (~setting.hook => plan # <<>>)
    BY <1>2, <2>1
  <2>3. /\ state' \in States
        /\ state'.installQueue = state.installQueue
        /\ state'.uninstallQueue = state.uninstallQueue
        /\ state'.updateAllQueue = state.updateAllQueue
        /\ state'.currentError = state.currentError
    <3> HIDE DEF Next1
    <3> QED
      BY <1>0, <2>1, <2>2 DEF States
  <2>4. state' \in Sorted
    BY <1>0, <2>3 DEF Sorted, Ordered
  <2>5. state.currentAppOp = NoOp /\ (setting.hook => Queued(state))
    BY <2>1 DEF CanStart
  <2>6. setting.hook => ~state.currentError
    BY <2>5 DEF RunsInv
  <2>7. Queued(state') <=> Queued(state)
    BY <2>3 DEF Queued
  <2>8. ~Queued(state) => state.updateAllQueue = <<>>
    BY <2>5 DEF RunsInv
  <2> QED
    BY <1>0, <2>1, <2>2, <2>3, <2>4, <2>6, <2>7, <2>8 DEF RunsInv
<1>4. ASSUME NEW op \in Ops, state' = RunSuccess(state, op), Proceed, setting' = setting,
             ~setting.hook => plan # <<>>
      PROVE  RunsInv'
  <2>1. /\ state' \in States /\ Ordered(state')
        /\ state'.currentAppOp = NoOp /\ ~state'.currentError
        /\ state'.installQueue = <<>> /\ state'.uninstallQueue = <<>>
             => state'.updateAllQueue = <<>>
    BY <1>0, <1>4, RunSuccessFacts
  <2>2. plan' \in Seq(Ops) /\ (setting.hook => plan' = <<>>)
    BY <1>0, <1>4 DEF Proceed, RunsInv
  <2> QED
    BY <1>0, <1>4, <2>1, <2>2 DEF RunsInv, Sorted, Queued
<1>5. CASE Skip
  <2>1. /\ CanStart /\ state' = RunSuccess(state, Next1) /\ Proceed /\ setting' = setting
    BY <1>5 DEF Skip
  <2>2. Next1 \in Ops /\ (~setting.hook => plan # <<>>)
    BY <1>2, <2>1
  <2> HIDE DEF Next1
  <2> QED
    BY <1>4, <2>1, <2>2
<1>6. state.currentAppOp # NoOp => state.currentAppOp \in Ops
  BY <1>0 DEF States
<1>7. CASE Succeed
  <2>1. /\ state.currentAppOp # NoOp
        /\ state' = RunSuccess(state, state.currentAppOp) /\ Proceed /\ setting' = setting
    BY <1>7 DEF Succeed
  <2>2. state.currentAppOp \in Ops /\ (~setting.hook => plan # <<>>)
    BY <1>6, <2>1 DEF RunsInv
  <2> QED
    BY <1>4, <2>1, <2>2
<1>8. CASE Fail
  <2>1. /\ state.currentAppOp # NoOp /\ state' = RunError(state) /\ Proceed
        /\ setting' = setting
    BY <1>8 DEF Fail
  <2>2. /\ state' \in States /\ Ordered(state')
        /\ state'.installQueue = <<>> /\ state'.uninstallQueue = <<>>
        /\ state'.updateAllQueue = <<>> /\ state'.currentAppOp = NoOp
    BY <1>0, <2>1, RunErrorFacts
  <2>3. ~setting.hook => plan # <<>>
    BY <2>1 DEF RunsInv
  <2>4. plan' \in Seq(Ops) /\ (setting.hook => plan' = <<>>)
    BY <1>0, <2>1, <2>3 DEF Proceed, RunsInv
  <2> QED
    BY <1>0, <2>1, <2>2, <2>4 DEF RunsInv, Sorted, Queued
<1> QED
  BY <1>1, <1>3, <1>5, <1>7, <1>8 DEF Run

LEMMA RunsHold == Spec => []RunsInv
<1>1. ASSUME RunsInv, [Next]_vars PROVE RunsInv'
  <2>1. CASE Run
    BY <1>1, <2>1, RunnerKeepsRuns
  <2>2. CASE User
    <3>1. PICK next, wanted :
            /\ next \in Sorted
            /\ Dispatch(next, wanted) /\ Apart(next, state)
            /\ \/ next.updateAllQueue = state.updateAllQueue
               \/ next.updateAllQueue = next.installQueue
            /\ next = state \/ ~next.currentError
      BY <1>1, <2>2, UserSteps DEF RunsInv
    <3> QED
      BY <1>1, <3>1, UserKeepsRuns
  <2>3. CASE UNCHANGED vars
    BY <1>1, <2>3 DEF RunsInv, vars, Queued
  <2> QED
    BY <1>1, <2>1, <2>2, <2>3 DEF Next, Over
<1> QED
  BY RunsStart, <1>1, PTL DEF Spec

\* The queues are always in order: the reducer puts them in order whenever it adds to them,
\* and what it takes away leaves them so (src/apps/logic.ts), whatever is installed, needed,
\* restored, cancelled or failing, and however the user's actions and the runner's interleave.
THEOREM QueuesStayInOrder == Spec => []QueuesInOrder
<1>1. RunsInv => QueuesInOrder
  BY DEF RunsInv, Sorted, Ordered, QueuesInOrder
<1> QED
  BY RunsHold, <1>1, PTL

\* After an error useAppsRunner runs nothing until the user acts: onRunnerError empties the
\* queues, and every action that fills them again clears the error.
THEOREM ErrorsStopTheHook == Spec => []HookStops
<1>1. RunsInv => HookStops
  BY DEF RunsInv, HookStops
<1> QED
  BY RunsHold, <1>1, PTL

\* No update is shown as in progress when nothing is left to run: the reducer clears
\* updateAllQueue with the last operation and with an error, and only UpdateAll fills it.
THEOREM UpdatesEnd == Spec => []UpdateAllEnds
<1>1. RunsInv => UpdateAllEnds
  BY DEF RunsInv, UpdateAllEnds, Idle
<1> QED
  BY RunsHold, <1>1, PTL

(***************************************************************************)
(* Queues that can be run.                                                 *)
(***************************************************************************)

\* No app of the store has two dependencies, as in the lists of apps/polyfill.ts.
OneDependency ==
  \A a \in Listed : \A d, e \in ToSet(Deps[a]) : d = e

\* The queues can be run: apps come with what they need, the ones that need an
\* app that goes go too, and what an app to install needs is there and up to
\* date, or is to be installed as well.
Doable(s) ==
  /\ s.outdated \subseteq Installed(s)
  /\ \A a \in Installed(s) : \A d \in ToSet(DepsOf(a)) :
       d \in Installed(s) /\ (d \in s.outdated => a \in s.outdated)
  /\ \A u \in ToSet(s.uninstallQueue) :
       Dependents(u) \cap Installed(s) \subseteq ToSet(s.uninstallQueue)
  /\ \A q \in ToSet(s.installQueue) : \A d \in ToSet(DepsOf(q)) :
       \/ d \in ToSet(s.installQueue)
       \/ d \in Installed(s) \ (ToSet(s.uninstallQueue) \cup s.outdated)

LEMMA DependentsAre ==
  /\ \A a, d : a \in Dependents(d) <=> d \in ToSet(DepsOf(a))
  /\ \A a, d : d \in ToSet(DepsOf(a)) => ToSet(DepsOf(d)) = {}
<1>1. ASSUME NEW a, NEW d, d \in ToSet(DepsOf(a)) PROVE a \in Listed
  BY <1>1, EmptyFacts DEF DepsOf
<1>2. ASSUME NEW a, NEW d, d \in ToSet(DepsOf(a)) PROVE ToSet(DepsOf(d)) = {}
  BY <1>2, DepsFacts, EmptyFacts
<1> QED
  BY <1>1, <1>2 DEF Dependents

LEMMA OneOnly ==
  ASSUME OneDependency
  PROVE  \A a, d, e : d \in ToSet(DepsOf(a)) /\ e \in ToSet(DepsOf(a)) => d = e
BY EmptyFacts DEF OneDependency, DepsOf

\* Install keeps the queues such that they can be run, when nothing is to be uninstalled for
\* good or the app is new.
LEMMA InstallDoable ==
  ASSUME OneDependency, NEW s \in States, Ordered(s), Doable(s), NEW name \in Listed,
         ToSet(s.uninstallQueue) \subseteq ToSet(s.installQueue),
         name \notin Installed(s) \/ ToSet(s.uninstallQueue) = {}
  PROVE  LET r == Install(s, name)
         IN  /\ Doable(r)
             /\ ToSet(r.uninstallQueue) \subseteq ToSet(r.installQueue)
<1> DEFINE r == Install(s, name)
           I == Installed(s)
           O == s.outdated
           U == ToSet(s.uninstallQueue)
           Q == ToSet(s.installQueue)
           V == ToSet(r.uninstallQueue)
           P == ToSet(r.installQueue)
           D(a) == ToSet(DepsOf(a))
           upd == Updated(s, name)
<1>1. /\ Installed(r) = I /\ r.outdated = O
      /\ Refused(s, name) => r = s
      /\ ~Refused(s, name) =>
           /\ P = Q \cup (IF U \cap WithDeps(name) # {} THEN {}
                          ELSE upd \cup {name} \cup (WithDeps(name) \ I))
           /\ V = IF U \cap WithDeps(name) # {} THEN U \ WithDeps(name) ELSE U \cup upd
  BY InstallFacts DEF Apart, Installed
<1>2. /\ O \subseteq I
      /\ \A a \in I : \A d \in D(a) : d \in I /\ (d \in O => a \in O)
      /\ \A u \in U : \A a \in I : u \in D(a) => a \in U
      /\ \A q \in Q : \A d \in D(q) : d \in Q \/ d \in I \ (U \cup O)
  BY DependentsAre DEF Doable
<1>3. \A a, d : d \in D(a) => D(d) = {}
  BY DependentsAre
<1>4. WithDeps(name) = {name} \cup D(name)
  BY DEF WithDeps
<1>5. Related(name) = {x \in Related(name) : \/ x \in WithDeps(name)
                                             \/ \E d \in WithDeps(name) : d \in D(x)}
  BY <1>4, DependentsAre DEF Related
<1>6. \A x : x \in Related(name) <=> \/ x \in WithDeps(name)
                                     \/ \E d \in WithDeps(name) : d \in D(x)
  BY <1>4, DependentsAre DEF Related
<1>7. /\ upd \subseteq I \cap O
      /\ upd # {} => WithDeps(name) \cap O # {}
      /\ WithDeps(name) \cap O # {} =>
           \A x : x \in upd <=> x \in I /\ x \in O /\ x \in Related(name)
  BY DEF Updated
<1>8. \A a, d, e : d \in D(a) /\ e \in D(a) => d = e
  BY OneOnly
<1>9. Doable(r) <=> /\ \A u \in V : \A a \in I : u \in D(a) => a \in V
                    /\ \A q \in P : \A d \in D(q) : d \in P \/ d \in I \ (V \cup O)
  <2> HIDE DEF r
  <2> QED
    BY <1>1, <1>2, DependentsAre DEF Doable
<1> HIDE DEF upd, r, I, O, U, Q, V, P, D
<1>10. CASE Refused(s, name)
  BY <1>1, <1>10 DEF r, Q, U, P, V
<1>11. CASE ~Refused(s, name) /\ U \cap WithDeps(name) # {}
  <2>1. P = Q /\ V = U \ WithDeps(name)
    BY <1>1, <1>11
  <2>2. name \notin I
    BY <1>11 DEF I, U
  <2>3. ASSUME NEW u \in V, NEW a \in I, u \in D(a) PROVE a \in V
    <3>1. a \in U
      BY <1>2, <2>1, <2>3
    <3>2. a \notin D(name)
      BY <1>3, <2>3
    <3> QED
      BY <1>4, <2>1, <2>2, <3>1, <3>2
  <2>4. \A q \in P : \A d \in D(q) : d \in P \/ d \in I \ (V \cup O)
    BY <1>2, <2>1
  <2>5. V \subseteq P
    BY <2>1 DEF U, Q
  <2> QED
    BY <1>9, <2>3, <2>4, <2>5 DEF r, V, P
<1>12. CASE ~Refused(s, name) /\ U \cap WithDeps(name) = {}
  <2>1. P = Q \cup upd \cup {name} \cup (WithDeps(name) \ I) /\ V = U \cup upd
    BY <1>1, <1>12
  <2>2. ASSUME NEW u \in V, NEW a \in I, u \in D(a) PROVE a \in V
    <3>1. CASE u \in U
      BY <1>2, <2>1, <2>2, <3>1
    <3>2. CASE u \in upd
      <4>1. u \in O /\ a \in O /\ u \in Related(name)
        BY <1>2, <1>7, <2>2, <3>2
      <4>2. u \in WithDeps(name)
        BY <1>3, <1>6, <2>2, <4>1
      <4>3. a \in Related(name)
        BY <1>6, <2>2, <4>2
      <4> QED
        BY <1>7, <2>1, <3>2, <4>1, <4>3
    <3> QED
      BY <2>1, <3>1, <3>2
  <2>3. ASSUME NEW q \in P, NEW d \in D(q) PROVE d \in P \/ d \in I \ (V \cup O)
    <3>1. CASE q \in Q
      BY <1>2, <2>1, <3>1
    <3>2. CASE q = name
      <4>1. CASE d \in O
        <5>1. WithDeps(name) \cap O # {} /\ d \in I /\ d \in WithDeps(name)
          BY <1>2, <1>4, <3>2, <4>1
        <5>2. d \in upd
          BY <1>6, <1>7, <4>1, <5>1
        <5> QED
          BY <2>1, <5>2
      <4>2. CASE d \notin O
        <5>1. d \notin U /\ d \notin upd /\ d \in WithDeps(name)
          BY <1>4, <1>7, <1>12, <3>2, <4>2
        <5> QED
          BY <2>1, <4>2, <5>1
      <4> QED
        BY <4>1, <4>2
    <3>3. CASE q \in WithDeps(name) \ I
      <4>1. q = name
        BY <1>3, <1>4, <3>3
      <4> QED
        BY <3>2, <4>1
    <3>4. CASE q \in upd
      <4>1. q \in I /\ q \in Related(name) /\ d \in I
        BY <1>2, <1>7, <3>4
      <4>2. q \notin D(name)
        BY <1>3
      <4>3. q = name \/ d \in WithDeps(name)
        BY <1>4, <1>6, <1>8, <4>1, <4>2
      <4>4. d \in WithDeps(name)
        BY <1>4, <4>3
      <4>5. CASE d \in O
        BY <1>6, <1>7, <2>1, <3>4, <4>1, <4>4, <4>5
      <4>6. CASE d \notin O
        BY <1>7, <1>12, <2>1, <4>1, <4>4, <4>6
      <4> QED
        BY <4>5, <4>6
    <3> QED
      BY <2>1, <3>1, <3>2, <3>3, <3>4
  <2>4. V \subseteq P
    BY <2>1 DEF U, Q
  <2> QED
    BY <1>9, <2>2, <2>3, <2>4 DEF r, V, P
<1> QED
  BY <1>10, <1>11, <1>12

\* The apps that are there when the queues of s have run.
Result(s) ==
  (Installed(s) \ ToSet(s.uninstallQueue)) \cup ToSet(s.installQueue)

LEMMA NotQueued ==
  ASSUME NEW s \in States
  PROVE  ~Queued(s) <=> ToSet(s.uninstallQueue) = {} /\ ToSet(s.installQueue) = {}
<1>1. s.uninstallQueue \in Seq(Apps) /\ s.installQueue \in Seq(Apps)
  BY DEF States
<1> QED
  BY <1>1, SeqFacts DEF Queued

\* Install leads to the app and what it needs, up to date.
LEMMA InstallResult ==
  ASSUME NEW s \in States, Ordered(s), Doable(s), NEW name \in Listed,
         ToSet(s.uninstallQueue) \subseteq ToSet(s.installQueue),
         ToSet(s.uninstallQueue) \cap WithDeps(name) = {}
  PROVE  LET r == Install(s, name)
         IN  /\ Installed(s) \cup ToSet(r.installQueue)
                  = Installed(s) \cup ToSet(s.installQueue) \cup WithDeps(name)
             /\ ~Refused(s, name) => WithDeps(name) \cap s.outdated \subseteq ToSet(r.installQueue)
<1> DEFINE r == Install(s, name)
           I == Installed(s)
           O == s.outdated
           Q == ToSet(s.installQueue)
           P == ToSet(r.installQueue)
           upd == Updated(s, name)
<1>1. /\ Refused(s, name) => r = s
      /\ ~Refused(s, name) => P = Q \cup (upd \cup {name} \cup (WithDeps(name) \ I))
  BY InstallFacts
<1>2. /\ O \subseteq I
      /\ \A a \in I : \A d \in ToSet(DepsOf(a)) : d \in I
      /\ \A q \in Q : \A d \in ToSet(DepsOf(q)) : d \in Q \/ d \in I
  BY DEF Doable
<1>3. WithDeps(name) = {name} \cup ToSet(DepsOf(name))
  BY DEF WithDeps
<1>4. WithDeps(name) \subseteq Related(name)
  BY DEF Related, WithDeps
<1>5. /\ upd \subseteq I
      /\ \A x \in WithDeps(name) : x \in I /\ x \in O => x \in upd
  BY <1>4 DEF Updated
<1> HIDE DEF upd, r, I, O, Q, P
<1>6. CASE Refused(s, name)
  <2>1. P = Q /\ (name \in Q \/ name \in I)
    BY <1>1, <1>6 DEF P, Q, I, Refused
  <2>2. WithDeps(name) \subseteq I \cup Q
    BY <1>2, <1>3, <2>1
  <2> QED
    BY <1>6, <2>1, <2>2 DEF r, I, Q, P
<1>7. CASE ~Refused(s, name)
  <2>1. P = Q \cup (upd \cup {name} \cup (WithDeps(name) \ I))
    BY <1>1, <1>7
  <2>2. I \cup P = I \cup Q \cup WithDeps(name)
    BY <1>3, <1>5, <2>1
  <2>3. WithDeps(name) \cap O \subseteq P
    BY <1>2, <1>5, <2>1
  <2> QED
    BY <2>2, <2>3 DEF r, I, O, Q, P
<1> QED
  BY <1>6, <1>7

\* The other actions on empty queues, and what they lead to.
LEMMA UninstallDoable ==
  ASSUME NEW s \in States, Ordered(s), Doable(s), ~Queued(s), NEW name \in Apps,
         NEW force \in BOOLEAN
  PROVE  LET r == Uninstall(s, name, force)
         IN  /\ Doable(r)
             /\ Result(r) = Installed(s) \ ({name} \cup Dependents(name))
<1> DEFINE r == Uninstall(s, name, force)
           I == Installed(s)
           O == s.outdated
           V == ToSet(r.uninstallQueue)
           P == ToSet(r.installQueue)
           wanted == {name, Unnamed} \cap Installed(s) # {} \/ force
           gone == Dependents(name)
<1>1. ToSet(s.uninstallQueue) = {} /\ ToSet(s.installQueue) = {}
  BY NotQueued
<1>2. /\ Installed(r) = I /\ r.outdated = O /\ P = {}
      /\ V = IF wanted THEN {name} \cup (gone \cap I) ELSE {}
  <2>1. /\ Apart(r, s)
        /\ name \notin ToSet(s.uninstallQueue) =>
             /\ P = ToSet(s.installQueue) \ {name}
             /\ V = IF wanted
                    THEN ToSet(s.uninstallQueue) \cup {name}
                           \cup (Dependents(name) \cap Installed(s))
                    ELSE ToSet(s.uninstallQueue)
    BY UninstallFacts
  <2> HIDE DEF r, wanted
  <2> QED
    BY <1>1, <2>1 DEF Apart, Installed
<1>3. /\ O \subseteq I
      /\ \A a \in I : \A d \in ToSet(DepsOf(a)) : d \in I /\ (d \in O => a \in O)
  BY DEF Doable
<1>4. \A a \in gone : Dependents(a) = {}
  BY DependentsAre
<1> HIDE DEF r
<1>5. Doable(r) <=> \A u \in V : Dependents(u) \cap I \subseteq V
  BY <1>2, <1>3 DEF Doable
<1>6. Result(r) = I \ V
  BY <1>2 DEF Result
<1>7. ~wanted => name \notin I
  OBVIOUS
<1>8. name \notin I => gone \cap I = {}
  BY <1>3, DependentsAre
<1> HIDE DEF I, O, V, P, wanted, gone
<1>9. \A u \in V : Dependents(u) \cap I \subseteq V
  BY <1>2, <1>4 DEF gone
<1>10. I \ V = I \ ({name} \cup gone)
  BY <1>2, <1>7, <1>8
<1> QED
  BY <1>5, <1>6, <1>9, <1>10 DEF r, I, gone

LEMMA WipeDoable ==
  ASSUME NEW s \in States, Doable(s)
  PROVE  LET r == Wipe(s) IN Doable(r) /\ Result(r) = {}
<1> DEFINE r == Wipe(s)
<1>1. /\ Installed(r) = Installed(s) /\ r.outdated = s.outdated
      /\ ToSet(r.installQueue) = {} /\ ToSet(r.uninstallQueue) = Installed(s)
  BY WipeFacts, EmptyFacts DEF Apart, Installed
<1> HIDE DEF r
<1>2. Doable(r)
  BY <1>1 DEF Doable
<1>3. Result(r) = {}
  BY <1>1 DEF Result
<1> QED
  BY <1>2, <1>3 DEF r

LEMMA RecoverDoable ==
  ASSUME NEW s \in States, Ordered(s), Doable(s), ~Queued(s)
  PROVE  LET r == Recover(s) IN Doable(r) /\ Result(r) = Installed(s)
<1> DEFINE r == Recover(s)
<1>1. ToSet(s.uninstallQueue) = {} /\ ToSet(s.installQueue) = {}
  BY NotQueued
<1>2. /\ Installed(r) = Installed(s) /\ r.outdated = s.outdated
      /\ ToSet(r.installQueue) = {} /\ ToSet(r.uninstallQueue) = {}
  BY <1>1, RecoverFacts DEF Apart, Installed
<1> HIDE DEF r
<1>3. Doable(r)
  BY <1>2 DEF Doable
<1>4. Result(r) = Installed(s)
  BY <1>2 DEF Result
<1> QED
  BY <1>3, <1>4 DEF r

LEMMA UpdateAllDoable ==
  ASSUME NEW s \in States, Ordered(s), Doable(s), ~Queued(s)
  PROVE  LET r == UpdateAll(s)
         IN  /\ Doable(r)
             /\ Result(r) = Installed(s)
             /\ Listed \cap s.outdated \subseteq ToSet(r.installQueue)
<1> DEFINE r == UpdateAll(s)
           I == Installed(s)
           O == s.outdated
           V == ToSet(r.uninstallQueue)
           P == ToSet(r.installQueue)
           upd == AllUpdated(s)
           D(a) == ToSet(DepsOf(a))
<1>1. ToSet(s.uninstallQueue) = {} /\ ToSet(s.installQueue) = {}
  BY NotQueued
<1>2. Installed(r) = I /\ r.outdated = O /\ P = upd /\ V = upd
  BY <1>1, UpdateAllFacts DEF Apart, Installed
<1>3. /\ O \subseteq I
      /\ \A a \in I : \A d \in D(a) : d \in I /\ (d \in O => a \in O)
  BY DEF Doable
<1>4. \A a, d : d \in D(a) => D(d) = {} /\ d \in Listed
  BY DependentsAre, DepsFacts
<1>5. \A x : x \in upd <=> /\ x \in I
                           /\ \/ x \in O /\ x \in Listed
                              \/ \E d \in D(x) : d \in I /\ d \in O /\ d \in Listed
  BY DependentsAre DEF AllUpdated, Outdated
<1> HIDE DEF r
<1>6. Doable(r) <=> /\ \A u \in upd : \A a \in I : u \in D(a) => a \in upd
                    /\ \A q \in upd : \A d \in D(q) : d \in upd \/ d \in I \ (upd \cup O)
  BY <1>2, <1>3, DependentsAre DEF Doable
<1>7. Result(r) = (I \ upd) \cup upd
  BY <1>2 DEF Result
<1> HIDE DEF I, O, V, P, upd, D
<1>8. ASSUME NEW u \in upd, NEW a \in I, u \in D(a) PROVE a \in upd
  <2>1. u \in O /\ u \in Listed /\ u \in I
    BY <1>4, <1>5, <1>8
  <2> QED
    BY <1>5, <1>8, <2>1
<1>9. ASSUME NEW q \in upd, NEW d \in D(q) PROVE d \in upd \/ d \in I \ (upd \cup O)
  BY <1>3, <1>4, <1>5
<1>10. Listed \cap O \subseteq P
  BY <1>2, <1>3, <1>5
<1>11. (I \ upd) \cup upd = I
  BY <1>5
<1> QED
  BY <1>6, <1>7, <1>8, <1>9, <1>10, <1>11 DEF r, I, O, P

\* Nobody in the queue of uninstalls needs its head any more ...
LEMMA HeadUninstall ==
  ASSUME NEW s \in States, Ordered(s), s.uninstallQueue # <<>>
  PROVE  /\ Head(s.uninstallQueue) \in ToSet(s.uninstallQueue)
         /\ \A a \in ToSet(s.uninstallQueue) :
              Head(s.uninstallQueue) \notin ToSet(DepsOf(a))
<1> DEFINE u == s.uninstallQueue
           h == Head(u)
<1>1. u \in Seq(Apps)
  BY DEF States
<1>2. /\ \A x, y : Before(Reverse(u), x, y) <=> Before(u, y, x)
      /\ Reverse(u) \in Seq(Apps)
  BY <1>1, ReverseFacts
<1>3. \A x, y : Before(u, y, x) => x # y /\ y \notin ToSet(DepsOf(x))
  BY <1>2, InOrderIs DEF Ordered
<1>4. h = u[1] /\ Len(u) \in Nat \ {0}
  BY <1>1, TailFacts
<1>5. /\ DOMAIN u = 1..Len(u)
      /\ \A x : x \in ToSet(u) <=> \E i \in 1..Len(u) : u[i] = x
  BY <1>1, SeqFacts
<1> HIDE DEF u, h
<1>6. h \in ToSet(u)
  BY <1>4, <1>5
<1>7. ASSUME NEW a \in ToSet(u) PROVE h \notin ToSet(DepsOf(a))
  <2>1. PICK i \in 1..Len(u) : u[i] = a
    BY <1>5
  <2>2. CASE i = 1
    <3>1. a = h
      BY <1>4, <2>1, <2>2
    <3> QED
      BY <3>1, DependentsAre
  <2>3. CASE i # 1
    <3>1. 1 \in 1..Len(u) /\ 1 < i
      BY <1>4, <2>3
    <3>2. Before(u, h, a)
      BY <1>4, <1>5, <2>1, <3>1 DEF Before
    <3> QED
      BY <1>3, <3>2
  <2> QED
    BY <2>2, <2>3
<1> QED
  BY <1>6, <1>7 DEF h, u

\* ... and the head of the queue of installs needs nobody in it.
LEMMA HeadInstall ==
  ASSUME NEW s \in States, Ordered(s), s.installQueue # <<>>
  PROVE  /\ Head(s.installQueue) \in ToSet(s.installQueue)
         /\ \A d \in ToSet(s.installQueue) :
              d \notin ToSet(DepsOf(Head(s.installQueue)))
<1> DEFINE q == s.installQueue
           h == Head(q)
<1>1. q \in Seq(Apps)
  BY DEF States
<1>2. \A x, y : Before(q, x, y) => x # y /\ y \notin ToSet(DepsOf(x))
  BY <1>1, InOrderIs DEF Ordered
<1>3. h = q[1] /\ Len(q) \in Nat \ {0}
  BY <1>1, TailFacts
<1>4. /\ DOMAIN q = 1..Len(q)
      /\ \A x : x \in ToSet(q) <=> \E i \in 1..Len(q) : q[i] = x
  BY <1>1, SeqFacts
<1> HIDE DEF q, h
<1>5. h \in ToSet(q)
  BY <1>3, <1>4
<1>6. ASSUME NEW d \in ToSet(q) PROVE d \notin ToSet(DepsOf(h))
  <2>1. PICK i \in 1..Len(q) : q[i] = d
    BY <1>4
  <2>2. CASE i = 1
    <3>1. d = h
      BY <1>3, <2>1, <2>2
    <3> QED
      BY <3>1, DependentsAre
  <2>3. CASE i # 1
    <3>1. 1 \in 1..Len(q) /\ 1 < i
      BY <1>3, <2>3
    <3>2. Before(q, h, d)
      BY <1>3, <1>4, <2>1, <3>1 DEF Before
    <3> QED
      BY <1>2, <3>2
  <2> QED
    BY <2>2, <2>3
<1> QED
  BY <1>5, <1>6 DEF h, q

\* The device has what the operation needs, as far as the state knows.
Allowed(s, op) ==
  IF op.type = "install" THEN ToSet(DepsOf(op.name)) \subseteq Installed(s)
  ELSE Dependents(op.name) \cap Installed(s) = {}

\* The next operation of queues that can be run is allowed, and what is left can be run and
\* leads to the same apps.
LEMMA RunDoable ==
  ASSUME NEW s \in States, Ordered(s), Doable(s), Queued(s),
         NEW op, op = Head(getActionPlan(s))
  PROVE  LET r == RunSuccess(s, op)
         IN  /\ Doable(r)
             /\ Allowed(s, op)
             /\ Result(r) = Result(s)
             /\ \A F : F \cap s.outdated \subseteq ToSet(s.installQueue)
                         => F \cap r.outdated \subseteq ToSet(r.installQueue)
<1> DEFINE r == RunSuccess(s, op)
           x == op.name
           I == Installed(s)
           O == s.outdated
           U == ToSet(s.uninstallQueue)
           Q == ToSet(s.installQueue)
           D(a) == ToSet(DepsOf(a))
<1>1. /\ op \in Ops
      /\ s.uninstallQueue # <<>> => op = Op("uninstall", Head(s.uninstallQueue))
      /\ s.uninstallQueue = <<>> => op = Op("install", Head(s.installQueue))
  BY PlanHead
<1>2. s.uninstallQueue \in Seq(Apps) /\ s.installQueue \in Seq(Apps)
  BY DEF States
<1>3. /\ r.outdated = O \ {x}
      /\ Installed(r) = IF op.type = "install" THEN I \cup {x} ELSE I \ {x}
      /\ ToSet(r.installQueue) = IF op.type = "install" THEN Q \ {x} ELSE Q
      /\ ToSet(r.uninstallQueue) = IF op.type = "install" THEN U ELSE U \ {x}
  <2>1. /\ r.outdated = O \ {x}
        /\ Installed(r) = IF op.type = "install" THEN I \cup {x} ELSE I \ {x}
        /\ r.installQueue = IF op.type = "install" THEN Without(s.installQueue, {x})
                            ELSE s.installQueue
        /\ r.uninstallQueue = IF op.type = "install" THEN s.uninstallQueue
                              ELSE Without(s.uninstallQueue, {x})
    BY <1>1, RunSuccessFacts
  <2>2. /\ ToSet(Without(s.installQueue, {x})) = Q \ {x}
        /\ ToSet(Without(s.uninstallQueue, {x})) = U \ {x}
    BY <1>2, WithoutFacts
  <2> HIDE DEF r, x, I, O
  <2> QED
    BY <2>1, <2>2
<1>4. /\ O \subseteq I
      /\ \A a \in I : \A d \in D(a) : d \in I /\ (d \in O => a \in O)
      /\ \A u \in U : \A a \in I : u \in D(a) => a \in U
      /\ \A q \in Q : \A d \in D(q) : d \in Q \/ d \in I \ (U \cup O)
  BY DependentsAre DEF Doable
<1> DEFINE N == Installed(r)
           V == ToSet(r.uninstallQueue)
           P == ToSet(r.installQueue)
<1>5. Doable(r) <=>
      /\ r.outdated \subseteq N
      /\ \A a \in N : \A d \in D(a) : d \in N /\ (d \in r.outdated => a \in r.outdated)
      /\ \A u \in V : \A a \in N : u \in D(a) => a \in V
      /\ \A q \in P : \A d \in D(q) : d \in P \/ d \in N \ (V \cup r.outdated)
  <2> HIDE DEF r
  <2> QED
    BY DependentsAre DEF Doable
<1>6. Result(s) = (I \ U) \cup Q /\ Result(r) = (N \ V) \cup P
  BY DEF Result
<1>7. CASE s.uninstallQueue # <<>>
  <2>1. op.type # "install" /\ x = Head(s.uninstallQueue)
    BY <1>1, <1>7 DEF Op
  <2>2. x \in U /\ \A a \in U : x \notin D(a)
    BY <1>7, <2>1, HeadUninstall
  <2> HIDE DEF r, x, I, O, U, Q, D, N, V, P
  <2>3. \A a \in I : x \notin D(a)
    BY <1>4, <2>2
  <2>4. N = I \ {x} /\ P = Q /\ V = U \ {x} /\ r.outdated = O \ {x}
    BY <1>3, <2>1 DEF N, P, V
  <2>5. Doable(r)
    <3>1. r.outdated \subseteq N
      BY <1>4, <2>4
    <3>2. \A a \in N : \A d \in D(a) : d \in N /\ (d \in r.outdated => a \in r.outdated)
      BY <1>4, <2>3, <2>4
    <3>3. \A u \in V : \A a \in N : u \in D(a) => a \in V
      BY <1>4, <2>4
    <3>4. \A q \in P : \A d \in D(q) : d \in P \/ d \in N \ (V \cup r.outdated)
      BY <1>4, <2>2, <2>4
    <3> QED
      BY <1>5, <3>1, <3>2, <3>3, <3>4
  <2>6. Allowed(s, op)
    BY <2>1, <2>3, DependentsAre DEF Allowed, D, I, x
  <2>7. (I \ U) \cup Q = (N \ V) \cup P
    BY <2>2, <2>4
  <2>8. \A F : F \cap O \subseteq Q => F \cap r.outdated \subseteq P
    BY <2>4
  <2> QED
    BY <1>6, <2>5, <2>6, <2>7, <2>8 DEF r, O, Q, P
<1>8. CASE s.uninstallQueue = <<>>
  <2>1. op.type = "install" /\ x = Head(s.installQueue) /\ U = {}
    BY <1>1, <1>8, EmptyFacts DEF Op
  <2>2. s.installQueue # <<>>
    BY <1>8 DEF Queued
  <2>3. x \in Q /\ \A d \in Q : d \notin D(x)
    BY <2>1, <2>2, HeadInstall
  <2> HIDE DEF r, x, I, O, U, Q, D, N, V, P
  <2>4. \A d \in D(x) : d \in I /\ d \notin O
    BY <1>4, <2>3
  <2>5. N = I \cup {x} /\ P = Q \ {x} /\ V = {} /\ r.outdated = O \ {x}
    BY <1>3, <2>1 DEF N, P, V
  <2>6. Doable(r)
    <3>1. \A a \in N : \A d \in D(a) : d \in N /\ (d \in r.outdated => a \in r.outdated)
      BY <1>4, <2>4, <2>5
    <3>2. \A q \in P : \A d \in D(q) : d \in P \/ d \in N \ (V \cup r.outdated)
      BY <1>4, <2>1, <2>5
    <3> QED
      BY <1>4, <1>5, <2>5, <3>1, <3>2
  <2>7. Allowed(s, op)
    BY <2>1, <2>4 DEF Allowed, D, I, x
  <2>8. (I \ U) \cup Q = (N \ V) \cup P
    BY <2>1, <2>3, <2>5
  <2>9. \A F : F \cap O \subseteq Q => F \cap r.outdated \subseteq P
    BY <2>5
  <2> QED
    BY <1>6, <2>6, <2>7, <2>8, <2>9 DEF r, O, Q, P
<1> QED
  BY <1>7, <1>8

(***************************************************************************)
(* What is predicted and what is restored.                                 *)
(***************************************************************************)

\* The operations that are left of the plan after the first k of them.
LeftOf(ops, k, p) ==
  /\ Len(p) = Len(ops) - k
  /\ \A i \in 1..Len(p) : p[i] = ops[k + i]

LEMMA LeftAfter ==
  ASSUME NEW A, NEW ops \in Seq(A), NEW k \in Nat, NEW p \in Seq(A), LeftOf(ops, k, p),
         k < Len(ops)
  PROVE  /\ p # <<>> /\ Head(p) = ops[k + 1]
         /\ LeftOf(ops, k + 1, Tail(p))
<1> DEFINE n == Len(ops)
           m == Len(p)
<1>1. n \in Nat /\ m \in Nat /\ m = n - k /\ m > 0
  BY DEF LeftOf
<1>2. p # <<>>
  BY <1>1, EmptyFacts
<1>3. /\ Head(p) = p[1]
      /\ Tail(p) \in Seq(A) /\ Len(Tail(p)) = m - 1
      /\ \A i \in 1..m - 1 : Tail(p)[i] = p[i + 1]
  BY <1>2, TailFacts
<1>4. \A i \in 1..m : p[i] = ops[k + i]
  BY DEF LeftOf
<1> DEFINE t == Tail(p)
<1> HIDE DEF n, m, t
<1>5. Head(p) = ops[k + 1]
  BY <1>1, <1>3, <1>4
<1>6. ASSUME NEW i \in 1..Len(t) PROVE t[i] = ops[k + 1 + i]
  <2>1. i \in 1..m - 1 /\ i + 1 \in 1..m /\ k + (i + 1) = k + 1 + i
    BY <1>1, <1>3 DEF t
  <2> QED
    BY <1>3, <1>4, <2>1 DEF t
<1>7. Len(t) = n - (k + 1)
  BY <1>1, <1>3 DEF t
<1> QED
  BY <1>2, <1>5, <1>6, <1>7 DEF LeftOf, t, n

LEMMA NothingLeft ==
  ASSUME NEW A, NEW ops \in Seq(A), NEW p \in Seq(A), LeftOf(ops, Len(ops), p)
  PROVE  p = <<>>
BY DEF LeftOf

\* What is predicted is what is there when the queues have run.
LEMMA PredictResult ==
  ASSUME NEW s \in Sorted, Doable(s)
  PROVE  Installed(predictOptimisticState(s)) = Result(s)
<1> DEFINE ops == getActionPlan(s)
           n == Len(ops)
<1>1. PICK f \in [0..n -> Sorted] :
        PredictedBy(f, s, ops) /\ predictOptimisticState(s) = f[n]
  BY PredictSteps
<1>2. ops \in Seq(Ops)
  BY PlanFacts DEF Sorted
<1>3. n \in Nat /\ \A i \in 1..n : ops[i] \in Ops
  BY <1>2, SeqFacts
<1>4. f[0] = s /\ \A i \in 1..n : f[i] = RunSuccess(f[i - 1], ops[i])
  BY <1>1 DEF PredictedBy
<1> DEFINE Left(x, k) == /\ Doable(x) /\ Result(x) = Result(s)
                         /\ LeftOf(ops, k, getActionPlan(x))
           T == {k \in Nat : k <= n => Left(f[k], k)}
<1>5. 0 \in T
  <2>1. LeftOf(ops, 0, ops)
    <3> HIDE DEF ops
    <3> QED
      BY <1>2, <1>3 DEF LeftOf
  <2> QED
    BY <1>3, <1>4, <2>1
<1>6. ASSUME NEW x \in Sorted, NEW k \in Nat, k < n, Left(x, k)
      PROVE  Left(RunSuccess(x, ops[k + 1]), k + 1)
  <2>1. x \in States /\ Ordered(x) /\ getActionPlan(x) \in Seq(Ops)
    BY PlanFacts DEF Sorted
  <2>2. /\ getActionPlan(x) # <<>> /\ Head(getActionPlan(x)) = ops[k + 1]
        /\ LeftOf(ops, k + 1, Tail(getActionPlan(x)))
    <3> DEFINE p == getActionPlan(x)
    <3>1. p \in Seq(Ops) /\ LeftOf(ops, k, p)
      BY <1>6, <2>1
    <3> HIDE DEF p
    <3>2. ops \in Seq(Ops) /\ k < Len(ops)
      BY <1>2, <1>6
    <3> HIDE DEF ops
    <3>3. p # <<>> /\ Head(p) = ops[k + 1] /\ LeftOf(ops, k + 1, Tail(p))
      BY <3>1, <3>2, LeftAfter
    <3> QED
      BY <3>3 DEF p
  <2>3. Queued(x)
    BY <2>1, <2>2, PlanFacts
  <2> DEFINE op == ops[k + 1]
             r == RunSuccess(x, op)
  <2>4. op = Head(getActionPlan(x)) /\ op \in Ops
    BY <1>3, <1>6, <2>2
  <2> HIDE DEF op, ops
  <2>5. Doable(r) /\ Result(r) = Result(x)
    BY <1>6, <2>1, <2>3, <2>4, RunDoable
  <2>6. r \in States
    BY <2>1, <2>4, RunSuccessFacts
  <2>7. getActionPlan(r) = Tail(getActionPlan(x))
    BY <2>1, <2>3, <2>4, <2>6, PlanTail
  <2> QED
    BY <1>6, <2>2, <2>5, <2>7 DEF op
<1>7. ASSUME NEW k \in Nat, k \in T PROVE k + 1 \in T
  <2> SUFFICES ASSUME k + 1 <= n PROVE Left(f[k + 1], k + 1)
    OBVIOUS
  <2>1. k < n /\ k \in 0..n /\ k + 1 \in 1..n /\ (k + 1) - 1 = k
    BY <1>3
  <2>2. f[k] \in Sorted /\ Left(f[k], k) /\ f[k + 1] = RunSuccess(f[k], ops[k + 1])
    <3> HIDE DEF ops, Left
    <3> QED
      BY <1>1, <1>4, <1>7, <2>1
  <2> QED
    BY <1>6, <2>1, <2>2
<1>8. Left(f[n], n)
  <2>1. Nat \subseteq T
    <3> HIDE DEF T
    <3> QED
      BY <1>5, <1>7, Induct
  <2> HIDE DEF Left
  <2> QED
    BY <1>3, <2>1
<1> DEFINE z == f[n]
<1>9. z \in States
  BY <1>1, <1>3 DEF Sorted
<1>10. LeftOf(ops, Len(ops), getActionPlan(z)) /\ Result(z) = Result(s)
  BY <1>8
<1>11. predictOptimisticState(s) = z
  BY <1>1
<1> HIDE DEF z, ops
<1>12. getActionPlan(z) \in Seq(Ops)
  BY <1>9, PlanFacts
<1>13. getActionPlan(z) = <<>>
  <2> DEFINE p == getActionPlan(z)
  <2>1. p \in Seq(Ops) /\ LeftOf(ops, Len(ops), p)
    BY <1>10, <1>12
  <2> HIDE DEF p
  <2>2. p = <<>>
    BY <1>2, <2>1, NothingLeft
  <2> QED
    BY <2>2 DEF p
<1>14. ToSet(z.uninstallQueue) = {} /\ ToSet(z.installQueue) = {}
  BY <1>9, <1>13, PlanFacts, NotQueued
<1>15. Result(z) = Installed(z)
  BY <1>14 DEF Result
<1> QED
  BY <1>10, <1>11, <1>15

\* No two apps of a list to restore need the same app.
RestoredApart ==
  \A r \in Restores : \A i, j \in DOMAIN r :
    i < j => ToSet(DepsOf(r[i])) \cap ToSet(DepsOf(r[j])) = {}

\* The apps on the device come with what they need, and are outdated with it.
Closed(names, outdated) ==
  /\ outdated \subseteq names
  /\ \A a \in names : \A d \in ToSet(DepsOf(a)) :
       d \in names /\ (d \in outdated => a \in outdated)

\* What is uninstalled of s once the first k apps of w are asked for: what one
\* of them needs, and apps that need something themselves.
Updating(s, w, k) ==
  \A u \in ToSet(s.uninstallQueue) :
    /\ u \in Installed(s)
    /\ \/ ToSet(DepsOf(u)) # {}
       \/ \E m \in 1..k : u \in ToSet(DepsOf(w[m]))

\* The apps that come with the first k of w.
With(w, k) == UNION {WithDeps(w[m]) : m \in 1..k}

Asked(s, w, k) ==
  /\ Doable(s)
  /\ ToSet(s.uninstallQueue) \subseteq ToSet(s.installQueue)

Restored(s, w, k) ==
  /\ Updating(s, w, k)
  /\ Installed(s) \cup ToSet(s.installQueue) = Installed(s) \cup With(w, k)

LEMMA UpdatingMore ==
  ASSUME OneDependency, NEW s \in States, Ordered(s), Doable(s), NEW name \in Listed,
         name \notin Installed(s),
         ToSet(s.uninstallQueue) \cap WithDeps(name) = {},
         NEW u \in ToSet(Install(s, name).uninstallQueue)
  PROVE  \/ u \in ToSet(s.uninstallQueue)
         \/ /\ u \in Installed(s)
            /\ \/ ToSet(DepsOf(u)) # {}
               \/ u \in ToSet(DepsOf(name))
<1>1. \/ u \in ToSet(s.uninstallQueue)
      \/ u \in Updated(s, name)
  <2>1. CASE Refused(s, name)
    BY <2>1, InstallFacts
  <2>2. CASE ~Refused(s, name)
    <3> DEFINE U == ToSet(s.uninstallQueue)
               V == ToSet(Install(s, name).uninstallQueue)
    <3>1. V = U \cup Updated(s, name)
      BY <2>2, InstallFacts
    <3> HIDE DEF V
    <3>2. u \in V
      BY DEF V
    <3> QED
      BY <3>1, <3>2
  <2> QED
    BY <2>1, <2>2
<1>2. WithDeps(name) = {name} \cup ToSet(DepsOf(name))
  BY DEF WithDeps
<1>3. ASSUME u \in Updated(s, name)
      PROVE  /\ u \in Installed(s)
             /\ ToSet(DepsOf(u)) # {} \/ u \in ToSet(DepsOf(name))
  <2>1. u \in Installed(s) /\ u \in Related(name)
    BY <1>3 DEF Updated
  <2>2. u \in WithDeps(name) \/ \E d \in WithDeps(name) : d \in ToSet(DepsOf(u))
    BY <1>2, <2>1, DependentsAre DEF Related
  <2> QED
    BY <1>2, <2>1, <2>2
<1> QED
  BY <1>1, <1>3

\* One more app to restore takes nothing of an earlier one back.
LEMMA RestoreStep ==
  ASSUME OneDependency, NEW w \in Seq(Apps), NEW k \in Nat, k < Len(w),
         NEW s \in States, Ordered(s),
         w[k + 1] \in Listed, w[k + 1] \notin Installed(s),
         \A m \in 1..k : ToSet(DepsOf(w[m])) \cap ToSet(DepsOf(w[k + 1])) = {},
         Asked(s, w, k), Restored(s, w, k)
  PROVE  Restored(Install(s, w[k + 1]), w, k + 1)
<1> DEFINE name == w[k + 1]
           r == Install(s, name)
           U == ToSet(s.uninstallQueue)
           I == Installed(s)
<1>1. U \cap WithDeps(name) = {}
  <2> SUFFICES ASSUME NEW u \in U, u \in WithDeps(name) PROVE FALSE
    OBVIOUS
  <2>1. u \in I /\ u # name
    BY DEF Restored, Updating
  <2>2. u \in ToSet(DepsOf(name))
    BY <2>1 DEF WithDeps
  <2>3. ToSet(DepsOf(u)) = {}
    BY <2>2, DependentsAre
  <2>4. PICK m \in 1..k : u \in ToSet(DepsOf(w[m]))
    BY <2>3 DEF Restored, Updating
  <2> QED
    BY <2>2, <2>4
<1>2. Doable(s) /\ U \subseteq ToSet(s.installQueue) /\ name \in Listed
  BY DEF Asked
<1>3. Installed(r) = I
  BY <1>2, InstallFacts DEF Apart, Installed
<1>4. I \cup ToSet(r.installQueue) = I \cup ToSet(s.installQueue) \cup WithDeps(name)
  BY <1>1, <1>2, InstallResult
<1>5. \A u \in ToSet(r.uninstallQueue) :
        u \in U \/ (u \in I /\ (ToSet(DepsOf(u)) # {} \/ u \in ToSet(DepsOf(name))))
  BY <1>1, <1>2, UpdatingMore
<1>6. With(w, k + 1) = With(w, k) \cup WithDeps(name)
  <2>1. 1..k + 1 = 1..k \cup {k + 1}
    OBVIOUS
  <2> QED
    BY <2>1 DEF With
<1> DEFINE P == ToSet(r.installQueue)
           V == ToSet(r.uninstallQueue)
<1>7. \A u \in U : u \in I /\ (\/ ToSet(DepsOf(u)) # {}
                              \/ \E m \in 1..k : u \in ToSet(DepsOf(w[m])))
  BY DEF Restored, Updating
<1>8. \A u \in V : u \in I /\ (\/ ToSet(DepsOf(u)) # {}
                              \/ \E m \in 1..k + 1 : u \in ToSet(DepsOf(w[m])))
  <2>1. \A m \in 1..k : m \in 1..k + 1
    OBVIOUS
  <2>2. k + 1 \in 1..k + 1
    OBVIOUS
  <2> HIDE DEF r, U, I, V
  <2> QED
    BY <1>5, <1>7, <2>1, <2>2 DEF V
<1>9. I \cup ToSet(s.installQueue) = I \cup With(w, k)
  BY DEF Restored
<1> HIDE DEF r, I
<1>10. I \cup P = I \cup With(w, k + 1)
  BY <1>4, <1>6, <1>9
<1> QED
  BY <1>3, <1>8, <1>10 DEF Restored, Updating, r

DistinctNeeds(restored) ==
  \A i, j \in DOMAIN restored :
    i < j => ToSet(DepsOf(restored[i])) \cap ToSet(DepsOf(restored[j])) = {}

\* What initState queues can be run, and leads to what is there and what is restored.
LEMMA InitResult ==
  ASSUME OneDependency, NEW names, NEW outdated \in SUBSET Apps, Closed(names, outdated),
         NEW installed \in Seq(Apps), ToSet(installed) = names, NEW restored \in Seq(Apps)
  PROVE  LET s == initState(installed, outdated, restored)
         IN  /\ Doable(s)
             /\ DistinctNeeds(restored) =>
                  Result(s) = names \cup UNION {WithDeps(a) : a \in ToSet(restored) \cap Listed}
<1> DEFINE w == Keeping(restored, Listed \ ToSet(installed))
           n == Len(w)
           A == DistinctNeeds(restored)
<1>1. PICK f \in [0..n -> Started(installed, outdated)] :
        /\ StartedBy(f, installed, outdated, w)
        /\ initState(installed, outdated, restored) = f[n]
  BY InitSteps
<1>2. /\ w \in Seq(Apps)
      /\ ToSet(w) = ToSet(restored) \cap (Listed \ names)
      /\ \A x, y : Before(w, x, y) => Before(restored, x, y)
  BY KeepingFacts
<1> HIDE DEF w
<1>3. /\ n \in Nat /\ DOMAIN w = 1..n
      /\ \A x : x \in ToSet(w) <=> \E i \in 1..n : w[i] = x
  BY <1>2, SeqFacts
<1>4. \A m \in 1..n : w[m] \in Listed /\ w[m] \notin names
  BY <1>2, <1>3
<1>5. ASSUME A, NEW i \in 1..n, NEW j \in 1..n, i < j
      PROVE  ToSet(DepsOf(w[i])) \cap ToSet(DepsOf(w[j])) = {}
  <2>1. Before(w, w[i], w[j])
    BY <1>3, <1>5 DEF Before
  <2>2. Before(restored, w[i], w[j])
    BY <1>2, <2>1
  <2> QED
    BY <1>5, <2>2 DEF Before, DistinctNeeds
<1>6. \A i \in 0..n : /\ f[i] \in States /\ Ordered(f[i])
                      /\ Installed(f[i]) = names /\ f[i].outdated = outdated
  BY <1>1 DEF Started, Installed
<1>7. /\ ToSet(f[0].installQueue) = {} /\ ToSet(f[0].uninstallQueue) = {}
      /\ \A i \in 1..n : f[i] = Install(f[i - 1], w[i])
  BY <1>1, EmptyFacts DEF StartedBy
<1> DEFINE Right(s, k) == Asked(s, w, k) /\ (A => Restored(s, w, k))
           T == {k \in Nat : k <= n => Right(f[k], k)}
<1>8. 0 \in T
  <2> DEFINE s == f[0]
  <2>1. /\ Installed(s) = names /\ s.outdated = outdated
        /\ ToSet(s.installQueue) = {} /\ ToSet(s.uninstallQueue) = {}
    BY <1>3, <1>6, <1>7
  <2> HIDE DEF s
  <2>2. Asked(s, w, 0)
    BY <2>1 DEF Asked, Doable, Closed
  <2>3. With(w, 0) = {}
    BY DEF With
  <2>4. Restored(s, w, 0)
    BY <2>1, <2>3 DEF Restored, Updating
  <2> QED
    BY <2>2, <2>4 DEF s
<1>9. ASSUME NEW k \in Nat, k \in T PROVE k + 1 \in T
  <2> SUFFICES ASSUME k + 1 <= n PROVE Right(f[k + 1], k + 1)
    OBVIOUS
  <2>1. k < n /\ k \in 0..n /\ k + 1 \in 1..n /\ (k + 1) - 1 = k
    BY <1>3
  <2> DEFINE s == f[k]
             name == w[k + 1]
             r == f[k + 1]
  <2>2. r = Install(s, name)
    BY <1>7, <2>1
  <2>3. s \in States /\ Ordered(s) /\ Installed(s) = names
    BY <1>6, <2>1
  <2>4. name \in Listed /\ name \notin Installed(s)
    BY <1>4, <2>1, <2>3
  <2>5. Right(s, k)
    BY <1>9, <2>1
  <2>6. A => \A m \in 1..k : ToSet(DepsOf(w[m])) \cap ToSet(DepsOf(name)) = {}
    <3> SUFFICES ASSUME A, NEW m \in 1..k
                 PROVE  ToSet(DepsOf(w[m])) \cap ToSet(DepsOf(name)) = {}
      OBVIOUS
    <3>1. m \in 1..n /\ m < k + 1
      BY <1>3, <2>1
    <3> QED
      BY <1>5, <2>1, <3>1
  <2> HIDE DEF s, r, A
  <2>7. Asked(r, w, k + 1)
    <3>1. Doable(s) /\ ToSet(s.uninstallQueue) \subseteq ToSet(s.installQueue)
      BY <2>5 DEF Asked
    <3> HIDE DEF name
    <3>2. Doable(r) /\ ToSet(r.uninstallQueue) \subseteq ToSet(r.installQueue)
      BY <2>2, <2>3, <2>4, <3>1, InstallDoable
    <3> QED
      BY <3>2 DEF Asked
  <2>8. ASSUME A PROVE Restored(r, w, k + 1)
    <3>1. Asked(s, w, k) /\ Restored(s, w, k) /\ k < Len(w) /\ w \in Seq(Apps)
      BY <1>2, <2>1, <2>5, <2>8
    <3>2. \A m \in 1..k : ToSet(DepsOf(w[m])) \cap ToSet(DepsOf(w[k + 1])) = {}
      BY <2>6, <2>8
    <3>3. w[k + 1] \in Listed /\ w[k + 1] \notin Installed(s)
      BY <2>4
    <3>4. Restored(Install(s, w[k + 1]), w, k + 1)
      BY <2>3, <3>1, <3>2, <3>3, RestoreStep
    <3> QED
      BY <2>2, <3>4
  <2> QED
    BY <2>7, <2>8 DEF r
<1>10. Right(f[n], n)
  <2>1. Nat \subseteq T
    <3> HIDE DEF T
    <3> QED
      BY <1>8, <1>9, Induct
  <2> HIDE DEF Right
  <2> QED
    BY <1>3, <2>1
<1> DEFINE z == f[n]
<1>11. Installed(z) = names
  BY <1>3, <1>6
<1>12. ASSUME A
       PROVE  Result(z) = names \cup UNION {WithDeps(a) : a \in ToSet(restored) \cap Listed}
  <2>1. ToSet(z.uninstallQueue) \subseteq ToSet(z.installQueue)
    BY <1>10 DEF Asked
  <2>2. names \cup ToSet(z.installQueue) = names \cup With(w, n)
    BY <1>10, <1>11, <1>12 DEF Restored
  <2> HIDE DEF z
  <2>3. Result(z) = names \cup With(w, n)
    BY <1>11, <2>1, <2>2 DEF Result
  <2>4. With(w, n) = UNION {WithDeps(a) : a \in ToSet(w)}
    BY <1>3 DEF With
  <2>5. \A a \in names : WithDeps(a) \subseteq names
    BY DEF Closed, WithDeps
  <2>6. UNION {WithDeps(a) : a \in ToSet(restored) \cap Listed} \subseteq
          names \cup UNION {WithDeps(a) : a \in ToSet(w)}
    BY <1>2, <2>5
  <2>7. UNION {WithDeps(a) : a \in ToSet(w)} \subseteq
          UNION {WithDeps(a) : a \in ToSet(restored) \cap Listed}
    BY <1>2
  <2> QED
    BY <2>3, <2>4, <2>6, <2>7
<1>13. Doable(z)
  BY <1>10 DEF Asked
<1> HIDE DEF A
<1> QED
  BY <1>1, <1>12, <1>13 DEF A

(***************************************************************************)
(* An undisturbed device.                                                  *)
(***************************************************************************)

\* The runs that NeverRefused and GoalReached are about.
Quiet == Undisturbed /\ ~setting.mixed

\* The reducer and an undisturbed device agree, the operation that runs is the
\* next one of the plan, and what is left of the plan of runAll is the plan of
\* the current state.
QuietInv ==
  /\ Doable(state)
  /\ device \cap Listed = Installed(state) \cap Listed
  /\ state.currentAppOp # NoOp => /\ Queued(state)
                                  /\ state.currentAppOp = Head(getActionPlan(state))
  /\ ~setting.hook /\ plan # <<>> => plan = getActionPlan(state)

\* What the user asked for is what the queues lead to.
GoalInv ==
  /\ goal.names = Result(state)
  /\ predicted = Result(state)
  /\ goal.fresh \cap state.outdated \subseteq ToSet(state.installQueue)

LEMMA ClosedInit ==
  ASSUME NEW names \in Initials, NEW outdated \in SUBSET (names \ {Unnamed}),
         \A a \in names : WithDeps(a) \cap outdated # {} => a \in outdated
  PROVE  Closed(names, outdated)
<1>1. ASSUME NEW a \in names, NEW d \in ToSet(DepsOf(a)) PROVE d \in names
  BY <1>1, AppsAssumption, EmptyFacts DEF DepsOf
<1> QED
  BY <1>1 DEF Closed, WithDeps

LEMMA QuietStart ==
  ASSUME OneDependency, Init, Quiet
  PROVE  /\ QuietInv
         /\ RestoredApart => GoalInv
<1>1. PICK names \in Initials : \E outdated \in SUBSET (names \ {Unnamed}),
        installed \in SetToSeqs(names), appsToRestore \in Restores :
        /\ \A a \in names : WithDeps(a) \cap outdated # {} => a \in outdated
        /\ state = initState(installed, outdated, appsToRestore)
        /\ plan = <<>>
        /\ device = names
        /\ goal = Goal(names \cup UNION {WithDeps(a) : a \in ToSet(appsToRestore) \cap Listed},
                       {})
        /\ predicted = Installed(predictOptimisticState(state))
  BY DEF Init, Quiet
<1>2. PICK outdated \in SUBSET (names \ {Unnamed}),
        installed \in SetToSeqs(names), restored \in Restores :
        /\ \A a \in names : WithDeps(a) \cap outdated # {} => a \in outdated
        /\ state = initState(installed, outdated, restored)
        /\ plan = <<>>
        /\ device = names
        /\ goal = Goal(names \cup UNION {WithDeps(a) : a \in ToSet(restored) \cap Listed}, {})
        /\ predicted = Installed(predictOptimisticState(state))
  BY <1>1
<1>3. /\ installed \in Seq(Apps) /\ ToSet(installed) = names
      /\ outdated \in SUBSET Apps /\ restored \in Seq(Apps)
      /\ state \in Started(installed, outdated)
  BY <1>2, InitFacts
<1>4. Closed(names, outdated)
  BY <1>2, ClosedInit
<1>5. /\ Doable(state)
      /\ DistinctNeeds(restored) =>
           Result(state) = names \cup UNION {WithDeps(a) : a \in ToSet(restored) \cap Listed}
  BY <1>2, <1>3, <1>4, InitResult
<1>6. Installed(state) = names /\ state.currentAppOp = NoOp /\ state \in Sorted
  BY <1>3 DEF Started, Installed, Sorted
<1>7. QuietInv
  BY <1>2, <1>5, <1>6 DEF QuietInv
<1>8. RestoredApart => DistinctNeeds(restored)
  BY DEF RestoredApart, DistinctNeeds
<1>9. RestoredApart => GoalInv
  BY <1>2, <1>5, <1>6, <1>8, PredictResult DEF GoalInv, Goal
<1> QED
  BY <1>7, <1>9

\* What the device is asked for is what the state allows.
LEMMA AllowedAccepted ==
  ASSUME device \cap Listed = Installed(state) \cap Listed, NEW op, Allowed(state, op)
  PROVE  Accepted(op)
<1>1. ToSet(findDependents(op.name)) = Dependents(op.name)
  BY DependentsFacts
<1>2. Dependents(op.name) \subseteq Listed
  BY DEF Dependents
<1>3. ToSet(DepsOf(op.name)) \subseteq Listed
  BY DepsFacts, EmptyFacts DEF DepsOf
<1> QED
  BY <1>1, <1>2, <1>3 DEF Allowed, Accepted

\* Both runners take the first operation of the plan of the current state.
LEMMA NextIsHead ==
  ASSUME RunsInv, QuietInv, CanStart
  PROVE  Queued(state) /\ Next1 = Head(getActionPlan(state))
<1>1. state \in States /\ Ordered(state)
  BY DEF RunsInv, Sorted
<1>2. CASE setting.hook
  BY <1>2 DEF CanStart, Next1
<1>3. CASE ~setting.hook
  <2>1. plan # <<>> /\ plan = getActionPlan(state)
    BY <1>3 DEF CanStart, QuietInv
  <2>2. Queued(state)
    BY <1>1, <2>1, PlanFacts
  <2> QED
    BY <1>3, <2>1, <2>2 DEF Next1
<1> QED
  BY <1>2, <1>3

\* A step that completes the next operation of the plan.
LEMMA RunKeepsQuiet ==
  ASSUME RunsInv, QuietInv, NEW op, op = Head(getActionPlan(state)), Queued(state),
         ~setting.hook => plan # <<>>,
         state' = RunSuccess(state, op), Proceed, setting' = setting, goal' = goal,
         predicted' = predicted,
         device' \cap Listed = Installed(state') \cap Listed
  PROVE  QuietInv' /\ (GoalInv => GoalInv')
<1>1. state \in States /\ Ordered(state) /\ Doable(state)
  BY DEF RunsInv, Sorted, QuietInv
<1> DEFINE r == RunSuccess(state, op)
<1>2. /\ Doable(r) /\ Result(r) = Result(state)
      /\ \A F : F \cap state.outdated \subseteq ToSet(state.installQueue)
                  => F \cap r.outdated \subseteq ToSet(r.installQueue)
  BY <1>1, RunDoable
<1>3. op \in Ops
  BY <1>1, PlanHead
<1>4. r \in States /\ r.currentAppOp = NoOp
  BY <1>1, <1>3, RunSuccessFacts
<1>5. getActionPlan(r) = Tail(getActionPlan(state))
  BY <1>1, <1>4, PlanTail
<1>6. ~setting.hook => plan' = getActionPlan(r)
  BY <1>5 DEF Proceed, QuietInv
<1> HIDE DEF r
<1>7. state' = r
  BY DEF r
<1> QED
  BY <1>2, <1>4, <1>6, <1>7 DEF QuietInv, GoalInv

LEMMA RunnerKeepsQuiet ==
  ASSUME RunsInv, Quiet, QuietInv, Run
  PROVE  QuietInv' /\ (GoalInv => GoalInv')
<1>0. state \in States /\ Ordered(state) /\ Doable(state)
  BY DEF RunsInv, Sorted, QuietInv
<1>1. CASE Launch
  BY <1>1 DEF Launch, QuietInv, GoalInv, Doable, Result, Installed, Queued
<1>2. CASE Start
  <2>1. /\ state' = [state EXCEPT !.currentAppOp = Next1] /\ CanStart
        /\ UNCHANGED <<setting, plan, device, goal, predicted>>
    BY <1>2 DEF Start, RunStart
  <2>2. Queued(state) /\ Next1 = Head(getActionPlan(state))
    BY <2>1, NextIsHead
  <2>3. Next1 \in Ops
    BY <1>0, <2>2, PlanHead
  <2> HIDE DEF Next1
  <2>4. /\ state'.installed = state.installed /\ state'.outdated = state.outdated
        /\ state'.installQueue = state.installQueue
        /\ state'.uninstallQueue = state.uninstallQueue
        /\ state'.currentAppOp = Next1
    BY <1>0, <2>1, <2>3 DEF States
  <2>5. /\ Installed(state') = Installed(state)
        /\ Doable(state') /\ Result(state') = Result(state)
        /\ getActionPlan(state') = getActionPlan(state)
        /\ Queued(state')
    BY <1>0, <2>2, <2>4 DEF Installed, Doable, Result, getActionPlan, Queued
  <2> QED
    BY <2>1, <2>2, <2>4, <2>5 DEF QuietInv, GoalInv
<1>3. CASE Skip
  <2>1. /\ CanStart /\ state' = RunSuccess(state, Next1) /\ Proceed
        /\ Next1.name \notin Listed
        /\ UNCHANGED <<setting, device, goal, predicted>>
    BY <1>3 DEF Skip
  <2>2. Queued(state) /\ Next1 = Head(getActionPlan(state))
    BY <2>1, NextIsHead
  <2>3. ~setting.hook => plan # <<>>
    BY <2>1 DEF CanStart
  <2>4. Next1 \in Ops
    BY <1>0, <2>2, PlanHead
  <2> HIDE DEF Next1
  <2>5. Installed(state') = IF Next1.type = "install" THEN Installed(state) \cup {Next1.name}
                            ELSE Installed(state) \ {Next1.name}
    BY <1>0, <2>1, <2>4, RunSuccessFacts
  <2>6. device' \cap Listed = Installed(state') \cap Listed
    BY <2>1, <2>5 DEF QuietInv
  <2> QED
    BY <2>1, <2>2, <2>3, <2>6, RunKeepsQuiet
<1>4. ASSUME state.currentAppOp # NoOp
      PROVE  /\ state.currentAppOp \in Ops
             /\ Queued(state) /\ state.currentAppOp = Head(getActionPlan(state))
             /\ ~setting.hook => plan # <<>>
             /\ Accepted(state.currentAppOp)
  <2>1. Queued(state) /\ state.currentAppOp = Head(getActionPlan(state))
    BY <1>4 DEF QuietInv
  <2>2. Allowed(state, state.currentAppOp)
    BY <1>0, <2>1, RunDoable
  <2>3. Accepted(state.currentAppOp)
    BY <2>2, AllowedAccepted DEF QuietInv
  <2> QED
    BY <1>0, <1>4, <2>1, <2>3, PlanHead DEF RunsInv
<1>5. CASE Succeed
  <2> DEFINE op == state.currentAppOp
  <2>1. /\ op # NoOp /\ device' = Executed(op)
        /\ state' = RunSuccess(state, op) /\ Proceed
        /\ UNCHANGED <<setting, goal, predicted>>
    BY <1>5 DEF Succeed
  <2>2. /\ op \in Ops /\ Queued(state) /\ op = Head(getActionPlan(state))
        /\ ~setting.hook => plan # <<>>
    BY <1>4, <2>1
  <2> HIDE DEF op
  <2>3. Installed(state') = IF op.type = "install" THEN Installed(state) \cup {op.name}
                            ELSE Installed(state) \ {op.name}
    BY <1>0, <2>1, <2>2, RunSuccessFacts
  <2>4. device' \cap Listed = Installed(state') \cap Listed
    BY <2>1, <2>3 DEF QuietInv, Executed
  <2> QED
    BY <2>1, <2>2, <2>4, RunKeepsQuiet
<1>6. CASE Fail
  <2>1. /\ state.currentAppOp # NoOp
        /\ ~Accepted(state.currentAppOp) \/ setting.faults
    BY <1>6 DEF Fail
  <2> QED
    BY <1>4, <2>1 DEF Quiet, Undisturbed
<1> QED
  BY <1>1, <1>2, <1>3, <1>5, <1>6 DEF Run

\* What an action of the user makes of the state, and what it asks for.
Fulfils(next, wanted) ==
  /\ next \in Sorted
  /\ Apart(next, state)
  /\ Doable(next)
  /\ Result(next) = wanted.names
  /\ wanted.fresh \cap next.outdated \subseteq ToSet(next.installQueue)

LEMMA InstallFulfils ==
  ASSUME OneDependency, state \in Sorted, Doable(state), ~Queued(state), NEW name \in Listed
  PROVE  LET fresh == IF name \in Installed(state) \ state.outdated THEN {}
                      ELSE WithDeps(name)
         IN  Fulfils(Install(state, name),
                     Goal(Installed(state) \cup WithDeps(name), fresh))
<1> DEFINE r == Install(state, name)
           I == Installed(state)
           fresh == IF name \in I \ state.outdated THEN {} ELSE WithDeps(name)
<1>1. state \in States /\ Ordered(state)
  BY DEF Sorted
<1>2. ToSet(state.uninstallQueue) = {} /\ ToSet(state.installQueue) = {}
  BY <1>1, NotQueued
<1>3. r \in States /\ Ordered(r) /\ Apart(r, state)
  BY <1>1, InstallFacts
<1>4. Doable(r) /\ ToSet(r.uninstallQueue) \subseteq ToSet(r.installQueue)
  BY <1>1, <1>2, InstallDoable
<1>5. /\ I \cup ToSet(r.installQueue) = I \cup ToSet(state.installQueue) \cup WithDeps(name)
      /\ ~Refused(state, name)
           => WithDeps(name) \cap state.outdated \subseteq ToSet(r.installQueue)
  BY <1>1, <1>2, InstallResult
<1>6. Installed(r) = I /\ r.outdated = state.outdated
  BY <1>3 DEF Apart, Installed
<1>7. fresh # {} => ~Refused(state, name)
  BY <1>2 DEF Refused
<1> HIDE DEF r, I
<1>8. Result(r) = I \cup WithDeps(name)
  BY <1>2, <1>4, <1>5, <1>6 DEF Result
<1>9. fresh \cap r.outdated \subseteq ToSet(r.installQueue)
  BY <1>5, <1>6, <1>7
<1> HIDE DEF fresh
<1>10. Fulfils(r, Goal(I \cup WithDeps(name), fresh))
  BY <1>3, <1>4, <1>8, <1>9 DEF Fulfils, Goal, Sorted
<1> QED
  BY <1>10 DEF r, I, fresh

LEMMA UserFulfils ==
  ASSUME OneDependency, state \in Sorted, Doable(state), ~Queued(state), User
  PROVE  \E next, wanted : Dispatch(next, wanted) /\ Fulfils(next, wanted)
<1>1. state \in States /\ Ordered(state)
  BY DEF Sorted
<1>2. CASE \E a \in Listed : UserInstall(a)
  <2>1. PICK a \in Listed : UserInstall(a)
    BY <1>2
  <2> QED
    BY <2>1, InstallFulfils DEF UserInstall
<1>3. CASE \E a \in Apps, force \in BOOLEAN : UserUninstall(a, force)
  <2>1. PICK a \in Apps, force \in BOOLEAN : UserUninstall(a, force)
    BY <1>3
  <2> DEFINE r == Uninstall(state, a, force)
             w == Goal(Installed(state) \ ({a} \cup ToSet(findDependents(a))), {})
  <2>2. Dispatch(r, w)
    BY <2>1 DEF UserUninstall
  <2>3. r \in States /\ Ordered(r) /\ Apart(r, state)
    BY <1>1, UninstallFacts
  <2>4. Doable(r) /\ Result(r) = Installed(state) \ ({a} \cup Dependents(a))
    BY <1>1, UninstallDoable
  <2>5. w.fresh = {} /\ w.names = Installed(state) \ ({a} \cup Dependents(a))
    BY DependentsFacts DEF Goal
  <2> HIDE DEF r, w
  <2>6. Fulfils(r, w)
    BY <2>3, <2>4, <2>5 DEF Fulfils, Sorted
  <2> QED
    BY <2>2, <2>6
<1>4. CASE UserWipe
  <2> DEFINE r == Wipe(state)
             w == Goal({}, {})
  <2>1. Dispatch(r, w)
    BY <1>4 DEF UserWipe
  <2>2. r \in States /\ Ordered(r) /\ Apart(r, state)
    BY <1>1, WipeFacts
  <2>3. Doable(r) /\ Result(r) = {}
    BY <1>1, WipeDoable
  <2>4. w.fresh = {} /\ w.names = {}
    BY DEF Goal
  <2> HIDE DEF r, w
  <2>5. Fulfils(r, w)
    BY <2>2, <2>3, <2>4 DEF Fulfils, Sorted
  <2> QED
    BY <2>1, <2>5
<1>5. CASE UserUpdateAll
  <2> DEFINE r == UpdateAll(state)
             w == Goal(Installed(state), Listed)
  <2>1. Dispatch(r, w)
    BY <1>5 DEF UserUpdateAll
  <2>2. r \in States /\ Ordered(r) /\ Apart(r, state)
    BY <1>1, UpdateAllFacts
  <2>3. /\ Doable(r) /\ Result(r) = Installed(state)
        /\ Listed \cap state.outdated \subseteq ToSet(r.installQueue)
    BY <1>1, UpdateAllDoable
  <2>4. w.fresh = Listed /\ w.names = Installed(state)
    BY DEF Goal
  <2> HIDE DEF r, w
  <2>5. Fulfils(r, w)
    BY <2>2, <2>3, <2>4 DEF Fulfils, Sorted, Apart
  <2> QED
    BY <2>1, <2>5
<1>6. CASE UserRecover
  <2> DEFINE r == Recover(state)
             w == Goal(Installed(state), {})
  <2>1. Dispatch(r, w)
    BY <1>6 DEF UserRecover
  <2>2. r \in States /\ Ordered(r) /\ Apart(r, state)
    BY <1>1, RecoverFacts
  <2>3. Doable(r) /\ Result(r) = Installed(state)
    BY <1>1, RecoverDoable
  <2>4. w.fresh = {} /\ w.names = Installed(state)
    BY DEF Goal
  <2> HIDE DEF r, w
  <2>5. Fulfils(r, w)
    BY <2>2, <2>3, <2>4 DEF Fulfils, Sorted
  <2> QED
    BY <2>1, <2>5
<1> QED
  BY <1>2, <1>3, <1>4, <1>5, <1>6 DEF User

LEMMA QuietStep ==
  ASSUME OneDependency, RunsInv, Quiet, QuietInv, [Next]_vars
  PROVE  QuietInv' /\ (GoalInv => GoalInv')
<1>1. CASE Run
  BY <1>1, RunnerKeepsQuiet
<1>2. CASE User
  <2>1. state \in Sorted /\ Doable(state)
    BY DEF RunsInv, QuietInv
  <2>2. \E next, wanted : Dispatch(next, wanted)
    BY <1>2, UserSteps, <2>1
  <2>3. Idle
    BY <2>2 DEF Dispatch, Quiet, Undisturbed
  <2>4. ~Queued(state) /\ state.currentAppOp = NoOp /\ plan = <<>>
    BY <2>3 DEF Idle
  <2>5. PICK next, wanted : Dispatch(next, wanted) /\ Fulfils(next, wanted)
    BY <1>2, <2>1, <2>4, UserFulfils
  <2>6. /\ state' = next /\ goal' = wanted
        /\ predicted' = Installed(predictOptimisticState(next))
        /\ UNCHANGED <<setting, plan, device>>
    BY <2>5 DEF Dispatch
  <2>7. Installed(predictOptimisticState(next)) = Result(next)
    BY <2>5, PredictResult DEF Fulfils
  <2>8. next.currentAppOp = NoOp /\ Installed(next) = Installed(state)
    BY <2>4, <2>5 DEF Fulfils, Apart, Installed
  <2>9. QuietInv'
    BY <2>4, <2>5, <2>6, <2>8 DEF QuietInv, Fulfils
  <2>10. GoalInv'
    BY <2>5, <2>6, <2>7 DEF GoalInv, Fulfils
  <2> QED
    BY <2>9, <2>10
<1>3. CASE UNCHANGED vars
  <2>1. /\ state' = state /\ plan' = plan /\ device' = device /\ setting' = setting
        /\ goal' = goal /\ predicted' = predicted
    BY <1>3 DEF vars
  <2> QED
    BY <2>1 DEF QuietInv, GoalInv, Doable, Result, Installed, Queued
<1> QED
  BY <1>1, <1>2, <1>3 DEF Next, Over

LEMMA SettingStays == [Next]_vars => setting' = setting
BY DEF Next, Over, vars, Run, User, Launch, Start, Skip, Succeed, Fail,
       UserInstall, UserUninstall, UserWipe, UserUpdateAll, UserRecover, Dispatch

LEMMA QuietHolds == ASSUME OneDependency PROVE Spec => [](Quiet => QuietInv)
<1>1. Init => (Quiet => QuietInv)
  BY QuietStart
<1>2. ASSUME RunsInv, Quiet => QuietInv, [Next]_vars PROVE (Quiet => QuietInv)'
  <2>1. Quiet' <=> Quiet
    BY <1>2, SettingStays DEF Quiet, Undisturbed
  <2> QED
    BY <1>2, <2>1, QuietStep
<1> QED
  BY <1>1, <1>2, RunsHold, PTL DEF Spec

LEMMA GoalHolds == ASSUME OneDependency, RestoredApart PROVE Spec => [](Quiet => GoalInv)
<1>1. Init => (Quiet => GoalInv)
  BY QuietStart
<1>2. ASSUME RunsInv, Quiet => QuietInv, Quiet => GoalInv, [Next]_vars
      PROVE  (Quiet => GoalInv)'
  <2>1. Quiet' <=> Quiet
    BY <1>2, SettingStays DEF Quiet, Undisturbed
  <2> QED
    BY <1>2, <2>1, QuietStep
<1> QED
  BY <1>1, <1>2, RunsHold, QuietHolds, PTL DEF Spec

\* If no app has two dependencies, an undisturbed device is never asked for something that it
\* refuses: neither runner installs an app before what it needs nor uninstalls one before
\* those that need it, although the queues mix updates, installs and uninstalls.
THEOREM DeviceNeverRefuses == ASSUME OneDependency PROVE Spec => []NeverRefused
<1>1. RunsInv /\ (Quiet => QuietInv) => NeverRefused
  <2> SUFFICES ASSUME RunsInv, QuietInv, state.currentAppOp # NoOp
               PROVE  Accepted(state.currentAppOp)
    BY DEF NeverRefused, Quiet
  <2>1. /\ state \in States /\ Ordered(state) /\ Doable(state) /\ Queued(state)
        /\ state.currentAppOp = Head(getActionPlan(state))
    BY DEF RunsInv, Sorted, QuietInv
  <2>2. Allowed(state, state.currentAppOp)
    BY <2>1, RunDoable
  <2> QED
    BY <2>2, AllowedAccepted DEF QuietInv
<1> QED
  BY RunsHold, QuietHolds, <1>1, PTL

\* If no app has two dependencies and no two apps that are restored need the same one, then
\* an undisturbed device holds, when the queues have run, what the user asked for and what
\* predictOptimisticState predicted, and what he wanted up to date is.
THEOREM QueuesReachTheGoal ==
  ASSUME OneDependency, RestoredApart PROVE Spec => []GoalReached
<1>1. RunsInv /\ (Quiet => QuietInv) /\ (Quiet => GoalInv) => GoalReached
  <2> SUFFICES ASSUME RunsInv, QuietInv, GoalInv, Idle
               PROVE  /\ Installed(state) = goal.names
                      /\ Installed(state) = predicted
                      /\ device \cap Listed = goal.names \cap Listed
                      /\ goal.fresh \cap state.outdated = {}
    BY DEF GoalReached, Quiet
  <2>1. ToSet(state.uninstallQueue) = {} /\ ToSet(state.installQueue) = {}
    BY NotQueued DEF RunsInv, Sorted, Idle
  <2>2. Result(state) = Installed(state)
    BY <2>1 DEF Result
  <2> QED
    BY <2>1, <2>2 DEF QuietInv, GoalInv
<1> QED
  BY RunsHold, QuietHolds, GoalHolds, <1>1, PTL

=============================================================================
