-------------------------- MODULE EthereumAccount --------------------------
(***************************************************************************)
(* The operations of an Ethereum account: what makeSync of                 *)
(* src/bridge/jsHelpers.ts does with getAccountShape and postSyncPatch of  *)
(* src/families/ethereum, and addPendingOperation of                       *)
(* src/account/pending.ts.  A sync fetches from a snapshot of the account  *)
(* and answers with a function that is applied to the account of that      *)
(* moment: meanwhile the user broadcasts, the chain grows or reorganises   *)
(* itself, and another sync may have been applied.                         *)
(*                                                                         *)
(* A block holds at most one transaction of the account, and its height    *)
(* stands for its date.  There is one token account.  What is fetched from *)
(* the explorer for one sync is of one moment; balances, NFTs, internal    *)
(* operations, the blacklist of tokens and tokens without a balance are    *)
(* left out.                                                               *)
(***************************************************************************)
EXTENDS Integers, Sequences, FiniteSets, SequencesExt, Lists

CONSTANTS
  Txs,        \* the transactions of the address, by hash
  Sent,       \* those from the address: the others are received
  Here,       \* those that the user signs with this application
  TokenTxs,   \* those that transfer the token too
  Nonce,      \* Nonce[t]: the nonce, of its own sender
  NoTx,       \* a block without a transaction of the address
  Past,       \* the chain when the account is added
  Threshold,  \* SAFE_REORG_THRESHOLD, 80 in the code
  Slots,      \* the syncs that may overlap
  Settings,   \* the settings to check, see below
  MaxHeight   \* bound: blocks

VARIABLES
  setting,   \* what may happen, the same for ever:
             \*   overlap  a sync starts while another is going on
             \*   reorgs   bound: reorganisations of the chain
             \*   sends    bound: transactions that the user signs
  chain,     \* the blocks
  mempool,   \* the transactions that were broadcast here
  unnoted,   \* those of them that are not yet added to the account
  noted,     \* history: those that were added
  account,   \* Account
  syncs,     \* Slots -> what a sync is at
  reorgs     \* bound: number of reorganisations

vars == <<setting, chain, mempool, unnoted, noted, account, syncs, reorgs>>

(***************************************************************************)
(* The chain.                                                              *)
(***************************************************************************)

\* How often the address has sent before a block.
SentBefore(c, i) == Cardinality({j \in DOMAIN c : j < i /\ c[j] \in Sent})

\* The nonce of its next transaction.
SentIn(c) == SentBefore(c, Len(c) + 1)

\* A transaction is in one block, and those of the address have its nonces in order.
InBlocks(c) ==
  \A i \in DOMAIN c : c[i] # NoTx =>
    /\ \A j \in DOMAIN c : c[i] = c[j] => i = j
    /\ c[i] \in Sent => Nonce[c[i]] = SentBefore(c, i)

ASSUME AccountAssumption ==
  /\ Here \subseteq Sent /\ Sent \subseteq Txs /\ TokenTxs \subseteq Txs
  /\ \A t \in Txs : Nonce[t] \in Nat
  /\ NoTx \notin Txs
  /\ Past \in Seq(Txs \cup {NoTx}) /\ InBlocks(Past)
  /\ Threshold \in Nat /\ MaxHeight \in Nat
  /\ Settings \subseteq [overlap : BOOLEAN, reorgs : Nat, sends : SUBSET Here]

Valid(c) == InBlocks(c) /\ ToSet(c) \cap Here \subseteq mempool \cup ToSet(Past)

(***************************************************************************)
(* Operations: of one transaction, at the height of its block.             *)
(***************************************************************************)

Op(c, i) == [hash |-> c[i], height |-> i]

Hashes(operations) == {o.hash : o \in ToSet(operations)}

\* txToOps of the transactions above a height that are in txs.
OpsAbove(c, height, txs) ==
  LET operations == [i \in DOMAIN c |-> Op(c, i)]
  IN  Keeping(operations, {o \in ToSet(operations) : o.height > height /\ o.hash \in txs})

From(operations, height) == Keeping(operations, {o \in ToSet(operations) : o.height >= height})
Below(operations, height) == Keeping(operations, {o \in ToSet(operations) : o.height < height})

NewestFirst(operations) ==
  LET upTo[i \in 0..Len(operations)] ==
        IF i = 0 THEN <<>>
        ELSE LET sorted == upTo[i - 1]
                 o == operations[i]
             IN  From(sorted, o.height) \o <<o>> \o Below(sorted, o.height)
  IN  upTo[Len(operations)]

\* Mutant: what was fetched is put on top.
MergeOnTop(existing, newFetched) ==
  LET new == Without(newFetched, ToSet(existing))
  IN  new \o Keeping(existing, {o \in ToSet(existing) : o.hash \notin Hashes(new)})

\* Mutant: the operations that are already there are not kept.
MergeFetched(existing, newFetched) == NewestFirst(newFetched)

\* Every operation of existing goes after the new ones that are not older and
\* leaves if it is among the new ones.  New ones that are older than all the
\* existing ones are dropped.
mergeOps(existing, newFetched) ==
  LET newOps == NewestFirst(Without(newFetched, ToSet(existing)))
      upTo[i \in 0..Len(existing)] ==
        IF i = 0 THEN [all |-> <<>>, left |-> newOps]
        ELSE LET m == upTo[i - 1]
                 o == existing[i]
             IN  [all |-> m.all \o From(m.left, o.height)
                            \o IF o.hash \in Hashes(newOps) THEN <<>> ELSE <<o>>,
                  left |-> Below(m.left, o.height)]
  IN  IF newOps = <<>> THEN existing
      ELSE IF existing = <<>> THEN newOps
      ELSE upTo[Len(existing)].all

(***************************************************************************)
(* Accounts.                                                               *)
(***************************************************************************)

NoToken == [there |-> FALSE, operations |-> <<>>, pending |-> <<>>]

Empty == [operations |-> <<>>, pending |-> <<>>, height |-> 0,
          token |-> NoToken]

\* A transaction with the same nonce takes the place of the other.
appendPendingOp(pending, t) ==
  <<t>> \o Keeping(pending, {u \in Here : Nonce[u] # Nonce[t]})

addPendingOperation(a, t) ==
  [a EXCEPT !.pending = appendPendingOp(@, t),
            !.token.pending = IF t \in TokenTxs /\ a.token.there
                              THEN appendPendingOp(@, t) ELSE @]

stableOperations(a) ==
  Keeping(a.operations, {o \in ToSet(a.operations) : a.height > o.height + Threshold})

\* The transactions are pulled from the block of the last stable operation.
\* An address without any has no token accounts.
getAccountShape(initial, c) ==
  LET stable == stableOperations(initial)
      from == IF stable = <<>> THEN 0 ELSE Head(stable).height
      newOps == OpsAbove(c, from, Txs)
      tokenOps == OpsAbove(c, from, TokenTxs)
      merged == [there |-> TRUE,
                 operations |-> mergeOps(initial.token.operations, tokenOps),
                 pending |-> initial.token.pending]
  IN  [operations |-> mergeOps(stable, newOps),
       height |-> Len(c),
       token |-> IF from = 0 /\ newOps = <<>> THEN NoToken
                 ELSE IF tokenOps = <<>> THEN initial.token
                 ELSE merged]

\* Mutant: an operation stays pending until its retention is over.
RetainUnlessLate(pending, operations, parents, history, late) ==
  Without(pending, late)

\* Mutant: an operation that is not yet in the history is not kept.
RetainFound(pending, operations, parents, history, late) ==
  Keeping(pending, Hashes(operations))

\* postSyncPatchGen: the operations that stay pending.  history is what the
\* account has now; late are those whose retention is over.
Retain(pending, operations, parents, history, late) ==
  LET sent == Keeping(history, {o \in ToSet(history) : o.hash \in Sent})
      latestNonce == IF sent = <<>> THEN 0 ELSE Nonce[Head(sent).hash]
      shouldRetain(t) ==
        /\ history # <<>> => LET last == Nonce[Head(history).hash]
                             IN  last # 0 /\ Nonce[t] # 0 => Nonce[t] > last
        /\ t \notin late
  IN  Keeping(pending,
        {t \in parents :
           /\ Nonce[t] # 0
           /\ Nonce[t] > latestNonce
           /\ shouldRetain(t) \/ t \notin Hashes(operations)})

\* Mutant: what is pending in the token account is filtered alone.
UpdatedApart(a, shape, late) ==
  LET operations == mergeOps(a.operations, shape.operations)
  IN  [operations |-> operations,
       pending |-> Retain(a.pending, operations, Here, operations, late),
       height |-> shape.height,
       token |-> [shape.token EXCEPT !.pending =
                    IF shape.token.there /\ a.token.there
                    THEN Retain(a.token.pending, shape.token.operations, Here,
                                operations, late)
                    ELSE @]]

\* The function that a sync answers with.
Updated(a, shape, late) ==
  LET operations == mergeOps(a.operations, shape.operations)
      pending == Retain(a.pending, operations, Here, operations, late)
      inToken == Retain(a.token.pending, shape.token.operations,
                        ToSet(pending), operations, late)
      patched == shape.token.there /\ a.token.there /\ a.token.pending # <<>>
  IN  [operations |-> operations,
       pending |-> pending,
       height |-> shape.height,
       token |-> IF patched THEN [shape.token EXCEPT !.pending = inToken]
                 ELSE shape.token]

(***************************************************************************)
(* Actions.                                                                *)
(***************************************************************************)

Idle == [phase |-> "idle"]

Init ==
  /\ setting \in Settings
  /\ chain = Past
  /\ mempool = {} /\ unnoted = {} /\ noted = {}
  /\ account = Updated(Empty, getAccountShape(Empty, Past), {})
  /\ syncs = [s \in Slots |-> Idle]
  /\ reorgs = 0

\* The explorer gives the nonce with or without what is in the mempool.
Broadcast(t) ==
  /\ t \in setting.sends
  /\ t \notin mempool \cup ToSet(chain)
  /\ Nonce[t] >= SentIn(chain)
  /\ \A n \in SentIn(chain) .. Nonce[t] - 1 : \E u \in mempool : Nonce[u] = n
  /\ mempool' = mempool \cup {t}
  /\ unnoted' = unnoted \cup {t}
  /\ UNCHANGED <<setting, chain, noted, account, syncs, reorgs>>

\* What the application does with the operation that broadcast answers with.
AddPending(t) ==
  /\ t \in unnoted
  /\ unnoted' = unnoted \ {t}
  /\ noted' = noted \cup {t}
  /\ account' = addPendingOperation(account, t)
  /\ UNCHANGED <<setting, chain, mempool, syncs, reorgs>>

NewBlock ==
  \E t \in Txs \cup {NoTx} :
    /\ Len(chain) < MaxHeight
    /\ chain' = Append(chain, t)
    /\ Valid(chain')
    /\ UNCHANGED <<setting, mempool, unnoted, noted, account, syncs, reorgs>>

\* A branch that leaves the chain by at most Threshold blocks overtakes it.
Reorganise ==
  \E depth \in 1 .. Threshold :
    \E branch \in [1 .. depth + 1 -> Txs \cup {NoTx}] :
      /\ reorgs < setting.reorgs
      /\ Len(chain) < MaxHeight
      /\ depth <= Len(chain) - Len(Past)
      /\ chain' = SubSeq(chain, 1, Len(chain) - depth) \o branch
      /\ Valid(chain')
      /\ reorgs' = reorgs + 1
      /\ UNCHANGED <<setting, mempool, unnoted, noted, account, syncs>>

StartSync(s) ==
  /\ syncs[s] = Idle
  /\ setting.overlap \/ \A other \in Slots : syncs[other] = Idle
  /\ syncs' = [syncs EXCEPT ![s] = [phase |-> "fetching", initial |-> account]]
  /\ UNCHANGED <<setting, chain, mempool, unnoted, noted, account, reorgs>>

Fetch(s) ==
  /\ syncs[s].phase = "fetching"
  /\ syncs' = [syncs EXCEPT ![s] =
       [phase |-> "fetched", shape |-> getAccountShape(syncs[s].initial, chain)]]
  /\ UNCHANGED <<setting, chain, mempool, unnoted, noted, account, reorgs>>

FetchFails(s) ==
  /\ syncs[s].phase = "fetching"
  /\ syncs' = [syncs EXCEPT ![s] = Idle]
  /\ UNCHANGED <<setting, chain, mempool, unnoted, noted, account, reorgs>>

Update(s) ==
  /\ syncs[s].phase = "fetched"
  /\ \E late \in SUBSET noted :
       account' = Updated(account, syncs[s].shape, late)
  /\ syncs' = [syncs EXCEPT ![s] = Idle]
  /\ UNCHANGED <<setting, chain, mempool, unnoted, noted, reorgs>>

Next ==
  \/ \E t \in Here : Broadcast(t) \/ AddPending(t)
  \/ NewBlock
  \/ Reorganise
  \/ \E s \in Slots : StartSync(s) \/ Fetch(s) \/ FetchFails(s) \/ Update(s)

\* The account is synchronised again and again, and not every sync fails: SF_vars(Fetch(s))
\* and WF_vars(Update(s)) with the phases that enable them.
Fairness ==
  /\ \A t \in Here : WF_vars(AddPending(t))
  /\ \A s \in Slots :
       /\ WF_vars(StartSync(s))
       /\ []<>(syncs[s].phase = "fetching") => []<><<Fetch(s)>>_vars
       /\ <>[](syncs[s].phase = "fetched") => []<><<Update(s)>>_vars

Spec == Init /\ [][Next]_vars /\ Fairness

(***************************************************************************)
(* Properties.                                                             *)
(***************************************************************************)

SortedOnce(operations) ==
  \A i, j \in DOMAIN operations : i < j =>
    /\ operations[i].hash # operations[j].hash
    /\ operations[i].height >= operations[j].height

\* "return a list of operations, deduped and sorted from newer to older":
\* whatever syncs overlap and whatever the chain reorganises, the histories
\* of the account and of the token have every transaction once, newest first.
HistoryInOrder ==
  SortedOnce(account.operations) /\ SortedOnce(account.token.operations)

Shown(pending, operations) == ToSet(pending) \cup Hashes(operations)

\* t or a transaction with its nonce is to be seen.
Visible(t, pending, operations) ==
  \E u \in Shown(pending, operations) \cap Sent : Nonce[u] = Nonce[t]

\* "we need to preserve ETH pendingOperations because there is no mempool to
\* do this": what the user has sent is always to be seen, pending or in the
\* history, until another transaction with its nonce is, although syncs overlap
\* and the chain reorganises itself.
SentIsVisible ==
  \A t \in noted : Visible(t, account.pending, account.operations)

\* A transaction never leaves the history, be an older sync applied later or
\* the chain reorganised.  Needs a transaction that is older than what moves.
\* The history of the token, which is taken from the sync as it is, keeps what
\* it has too if syncs do not overlap.
HistoryKept ==
  [][/\ Hashes(account.operations) \subseteq Hashes(account'.operations)
     /\ ~setting.overlap => Hashes(account.token.operations)
                              \subseteq Hashes(account'.token.operations)]_vars

\* "a child pending parent need to disappear if parent eth op disappear":
\* after a sync what is pending in the token account is in its parent.
ChildFollowsParent ==
  [][~setting.overlap /\ (\E s \in Slots : Update(s)) =>
       ToSet(account'.token.pending) \subseteq ToSet(account'.pending)]_vars

OnChain == ToSet(chain) \cap Txs

\* However the syncs overlapped and failed and wherever the incremental ones
\* began, the account comes to agree with the chain: nothing confirmed stays
\* pending, and the history misses nothing.  It has more if the chain was
\* reorganised, and overlapping syncs may hand on for ever what was pending in
\* the token account.
Converges ==
  <>[](/\ ToSet(account.pending) \cap OnChain = {}
       /\ ~setting.overlap => ToSet(account.token.pending) \cap OnChain = {}
       /\ OnChain \subseteq Hashes(account.operations)
       /\ OnChain \cap TokenTxs \subseteq Hashes(account.token.operations)
       /\ setting.reorgs = 0 => Hashes(account.operations) = OnChain)

=============================================================================
