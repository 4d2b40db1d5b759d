------------------------------ MODULE XpubSync ------------------------------
(***************************************************************************)
(* The bitcoin wallet: families/bitcoin/wallet-btc/xpub.ts, which          *)
(* discovers the addresses of an extended public key, and storage/index.ts *)
(* where it keeps the transactions and the unspent outputs of each address.*)
(*                                                                         *)
(* The wallet of an account is shared by all the calls of sync(), which    *)
(* wait for each other at three gates: `all`, an account (0 to receive, 1  *)
(* for change) and an address.  A promise that is resolved goes on in a    *)
(* microtask, in order, before any answer of the explorer.                 *)
(*                                                                         *)
(* The chain and the explorer are the environment.  A block has at most    *)
(* one transaction.  An answer is computed when it arrives.                *)
(***************************************************************************)
EXTENDS Integers, Sequences, FiniteSets, SequencesExt, FiniteSetsExt, Lists

CONSTANTS
  Calls,      \* calls of sync()
  GAP,        \* addresses that are synchronised at once
  MaxIndex,   \* bound: the last index that may be reached
  Txs,        \* transactions
  To,         \* To[t] are the addresses that t pays
  Spends,     \* Spends[t] are the outputs that t spends, <<transaction, address>>
  PageSize,   \* txsSyncArraySize
  MaxHeight,  \* bound: blocks of the chain
  Settings    \* the settings to check, see below

Accounts == 0..1
Addresses == Accounts \X (0..MaxIndex)

ASSUME XpubAssumption ==
  /\ GAP \in Nat \ {0} /\ MaxIndex \in Nat /\ GAP <= MaxIndex + 1
  /\ PageSize \in Nat \ {0, 1} /\ MaxHeight \in Nat
  /\ IsFiniteSet(Calls) /\ "none" \notin Calls /\ "none" \notin Txs
  /\ To \in [Txs -> SUBSET Addresses]
  /\ Spends \in [Txs -> SUBSET (Txs \X Addresses)]
  /\ \A t \in Txs : \A u \in Spends[t] : u[2] \in To[u[1]]
  /\ Settings \subseteq [calls : Nat, faults : BOOLEAN, events : Nat]

VARIABLES
  setting,  \* what may happen, the same for ever:
            \*   calls   how many calls of sync()
            \*   faults  requests to the explorer may fail, the program restart
            \*   events  how many events of the chain
  wallet,   \* the fields of Xpub, its calls and the microtasks
  storage,  \* the transactions and outputs of each address
  chain,    \* the blocks
  pool,     \* the transactions that are not confirmed
  events,   \* counts the events of the chain
  quiet     \* history: the call that began last, while it was alone and the chain at rest

xpubVars == <<setting, wallet, storage, chain, pool, events, quiet>>

NoBlock == [height |-> 0, id |-> 0]
NoTx == [tx |-> "none", block |-> NoBlock]

(***************************************************************************)
(* Storage.                                                                *)
(***************************************************************************)

Empty == [txs |-> <<>>, unspent |-> {}, spent |-> {}]

Confirmed(txs) == Keeping(txs, {e \in ToSet(txs) : e.block # NoBlock})
HasPendings(s) == \E e \in ToSet(s.txs) : e.block = NoBlock

\* getLastTx({confirmed: true, account, index})
LastConfirmed(s) ==
  LET c == Confirmed(s.txs) IN IF c = <<>> THEN NoTx ELSE Last(c)

Seen(s, t) == \E e \in ToSet(s.txs) : e.tx = t

Received(t, address) == IF address \in To[t] THEN {t} ELSE {}
SpentBy(t, address) == {u \in Txs : <<u, address>> \in Spends[t]}

\* Mutant: an input that comes before its output is forgotten.
AppendTxInOrder(s, address, e) ==
  IF Seen(s, e.tx) THEN s
  ELSE [txs |-> Append(s.txs, e),
        unspent |-> (s.unspent \cup Received(e.tx, address)) \ SpentBy(e.tx, address),
        spent |-> {}]

\* An output that is spent leaves unspentUtxos together with the input that spends
\* it, whichever came first.
AppendTx(s, address, e) ==
  LET unspent == s.unspent \cup Received(e.tx, address)
      spent == s.spent \cup SpentBy(e.tx, address)
  IN  IF Seen(s, e.tx) THEN s
      ELSE [txs |-> Append(s.txs, e),
            unspent |-> unspent \ spent, spent |-> spent \ unspent]

appendTxs(s, address, txs) ==
  LET upTo[i \in 0..Len(txs)] == IF i = 0 THEN s ELSE AppendTx(upTo[i - 1], address, txs[i])
  IN  upTo[Len(txs)]

\* The address is cleaned and rebuilt without the pendings.
removePendingTxs(s, address) == appendTxs(Empty, address, Confirmed(s.txs))

(***************************************************************************)
(* The explorer.                                                           *)
(***************************************************************************)

Touches(t, address) == address \in To[t] \/ \E u \in Spends[t] : u[2] = address

BlockAt(h) == IF h \in DOMAIN chain THEN chain[h].id ELSE 0

Known(last) == last = NoTx \/ BlockAt(last.block.height) = last.block.id

Entry(h) == [tx |-> chain[h].tx, block |-> [height |-> h, id |-> chain[h].id]]
Unconfirmed(t) == [tx |-> t, block |-> NoBlock]

\* The heights at which the chain has a transaction of an address, and what waits for a block.
Heights(address) == {h \in 1..Len(chain) : chain[h].tx \in Txs /\ Touches(chain[h].tx, address)}
Waiting(address) == {t \in pool : Touches(t, address)}

Cut(s, n) == SubSeq(s, 1, IF Len(s) < n THEN Len(s) ELSE n)

\* getAddressTxsSinceLastTxBlock: from the block of `last` on, then what is pending,
\* in any order, as far as it fits into the page.
Pages(address, last) ==
  LET from == IF last = NoTx THEN 1 ELSE last.block.height
      heights == Cut(Keeping([h \in 1..Len(chain) |-> h], Heights(address) \cap (from..Len(chain))),
                     PageSize)
      pending(order) == Cut(order, PageSize - Len(heights))
  IN  {[confirmed |-> [i \in 1..Len(heights) |-> Entry(heights[i])],
        pending |-> [i \in 1..Len(pending(order)) |-> Unconfirmed(pending(order)[i])]] :
         order \in SetToSeqs(Waiting(address))}

(***************************************************************************)
(* The wallet: syncing has the gates that are shut, micro the microtasks   *)
(* in order, and calls the calls of sync with the tasks of their addresses.*)
(***************************************************************************)

NoTask == [phase |-> "none", last |-> NoTx, pending |-> <<>>]

NewCall ==
  [phase |-> "idle", account |-> 0, index |-> 0,
   tasks |-> [x \in Addresses |-> NoTask]]

Start ==
  [syncing |-> {}, micro |-> <<>>, freshAddressIndex |-> 0, freshAddress |-> -1,
   calls |-> [c \in Calls |-> NewCall]]

\* g with the values of f where f has one.
Updated(g, f) == [k \in DOMAIN g |-> IF k \in DOMAIN f THEN f[k] ELSE g[k]]

SetPhase(w, c, phase) == [w EXCEPT !.calls[c].phase = phase]
SetTask(w, c, x, task) == [w EXCEPT !.calls[c].tasks[x] = task]

\* What is synchronised has a type and a key, and so do the events that tell its end.
All == [type |-> "all", key |-> <<>>]
Account(account) == [type |-> "account", key |-> <<account>>]
Address(x) == [type |-> "address", key |-> x]

\* The calls in order go on behind a gate.
Later(w, order, gate) ==
  [w EXCEPT !.micro = @ \o [i \in 1..Len(order) |-> [call |-> order[i], gate |-> gate]]]

Block(w, c) ==
  LET index == w.calls[c].index
  IN  {<<w.calls[c].account, i>> : i \in index..(index + GAP - 1)}

\* The phase of a call that waits for others to be synchronised, or goes on later.
whenSyncedAll(w, c) ==
  IF All \in w.syncing THEN SetPhase(w, c, "waitsForAll")
  ELSE Later(SetPhase(w, c, "running"), <<c>>, All)

\* The event has the account as a number and this waits for a string: it is never the
\* same and who waits here waits for ever.
whenSyncedAccount(w, c) ==
  IF Account(w.calls[c].account) \in w.syncing
  THEN SetPhase(w, c, "waitsForAccount")
  ELSE Later(SetPhase(w, c, "running"), <<c>>, Account(w.calls[c].account))

\* checkAddressesBlock: those addresses begin that nobody synchronises.
StartBlock(w, c) ==
  LET keys == [k \in 1..GAP |-> <<w.calls[c].account, w.calls[c].index + k - 1>>]
      open == Keeping(keys, {x \in Block(w, c) : Address(x) \notin w.syncing})
      tasks == [x \in Block(w, c) |->
                  [NoTask EXCEPT !.phase = IF Address(x) \in w.syncing THEN "waits" ELSE "starts"]]
  IN  [w EXCEPT !.calls[c].tasks = Updated(w.calls[c].tasks, tasks),
                !.micro = @ \o [i \in 1..Len(open) |-> [call |-> c, gate |-> Address(open[i])]]]

\* Mutant: the end of a sync is not told to those that wait.
EndAllSilently(w, c) ==
  [w EXCEPT !.syncing = @ \ {All}, !.freshAddress = w.freshAddressIndex,
            !.calls[c].phase = "done"]

\* All that wait go on.
EndAll(w, c) ==
  LET waiting == {d \in Calls : w.calls[d].phase = "waitsForAll"}
      running == [d \in waiting |-> [w.calls[d] EXCEPT !.phase = "running"]]
      ended == SetPhase(w, c, "done")
      told == [ended EXCEPT !.syncing = @ \ {All}, !.calls = Updated(ended.calls, running)]
  IN  [Later(told, SetToSeq(waiting), All) EXCEPT !.freshAddress = w.freshAddressIndex]

\* syncAccount returns the index it came to, and sync goes on if that is not 0.
EndAccount(w, c) ==
  LET call == w.calls[c]
      w1 == [w EXCEPT !.syncing = @ \ {Account(call.account)}]
  IN  IF call.account = 0 /\ call.index # 0
      THEN whenSyncedAccount([w1 EXCEPT !.calls[c].account = 1], c)
      ELSE EndAll(w1, c)

Ended == {"used", "unused", "failed"}

EndBlock(w, c) ==
  LET call == w.calls[c]
      next == [w EXCEPT !.calls[c].index = @ + GAP]
  IN  IF call.phase # "running" \/ \E x \in Block(w, c) : call.tasks[x].phase \notin Ended
      THEN w
      ELSE IF \E x \in Block(w, c) : call.tasks[x].phase = "used"
           THEN StartBlock(next, c)
           ELSE EndAccount(w, c)

WakeAddress(w, x) ==
  LET waiting == {d \in Calls : w.calls[d].tasks[x].phase = "waits"}
      woken == [d \in waiting |-> [w.calls[d] EXCEPT !.tasks[x].phase = "starts"]]
  IN  Later([w EXCEPT !.calls = Updated(w.calls, woken)], SetToSeq(waiting), Address(x))

\* Mutant: the index is that of the address that ended last.
EndAddressLast(w, c, x, found) ==
  LET w1 == WakeAddress([w EXCEPT !.syncing = @ \ {Address(x)}], x)
      w2 == IF x[1] = 0 /\ found = "used" THEN [w1 EXCEPT !.freshAddressIndex = x[2] + 1] ELSE w1
  IN  EndBlock(SetTask(w2, c, x, [NoTask EXCEPT !.phase = found]), c)

\* The address was found to be used or not.
EndAddress(w, c, x, found) ==
  LET w1 == WakeAddress([w EXCEPT !.syncing = @ \ {Address(x)}], x)
      w2 == IF x[1] = 0 /\ found = "used"
            THEN [w1 EXCEPT !.freshAddressIndex = Max({@, x[2] + 1})] ELSE w1
  IN  EndBlock(SetTask(w2, c, x, [NoTask EXCEPT !.phase = found]), c)

\* What fails opens the gates and wakes nobody; the other addresses go on.
FailAddress(w, c, x) ==
  LET w1 == SetTask([w EXCEPT !.syncing = @ \ {Address(x)}], c, x,
                    [NoTask EXCEPT !.phase = "failed"])
  IN  IF w.calls[c].phase = "running"
      THEN SetPhase([w1 EXCEPT !.syncing =
                       @ \ {Account(w.calls[c].account), All}], c, "failed")
      ELSE w1

\* Begins the requests of the transactions of an address.
BeginFetch(w, c, x, s, pending) ==
  SetTask(w, c, x, [phase |-> "fetch", last |-> LastConfirmed(s), pending |-> pending])

\* Mutant: what was pending stays.
KeepPendings(s, x) == s

CleanPendings(s, x) == IF HasPendings(s) THEN removePendingTxs(s, x) ELSE s

(***************************************************************************)
(* Actions.                                                                *)
(***************************************************************************)

Quiescent == wallet.micro = <<>>

Begun == {c \in Calls : wallet.calls[c].phase # "idle"}

Over(c) == wallet.calls[c].phase \in {"done", "failed"}

Fetching == {"check", "fetch"}

\* Requests to the explorer that have not been answered.
Asked == {a \in Calls \X Addresses : wallet.calls[a[1]].tasks[a[2]].phase \in Fetching}

\* No other call has begun that does not wait for this one, nor left anything behind.
Alone(c) ==
  \A d \in Begun \ {c} :
    /\ Over(d) \/ wallet.calls[d].phase = "waitsForAll"
    /\ \A x \in Addresses : wallet.calls[d].tasks[x].phase \in Ended \cup {"none"}

sync(c) ==
  /\ Quiescent
  /\ wallet.calls[c].phase = "idle"
  /\ Cardinality(Begun) < setting.calls
  /\ wallet' = whenSyncedAll(wallet, c)
  /\ UNCHANGED <<setting, storage, chain, pool, events, quiet>>

\* The next microtask shuts the gate that it comes through.
Passes(type) == wallet.micro # <<>> /\ Head(wallet.micro).gate.type = type

Passed ==
  [wallet EXCEPT !.micro = Tail(@), !.syncing = @ \cup {Head(wallet.micro).gate}]

PassAll ==
  /\ Passes("all")
  /\ LET c == Head(wallet.micro).call
     IN  /\ wallet' = whenSyncedAccount([Passed EXCEPT !.freshAddressIndex = 0], c)
         /\ quiet' = IF Alone(c) THEN c ELSE "none"
  /\ UNCHANGED <<setting, storage, chain, pool, events>>

PassAccount ==
  /\ Passes("account")
  /\ LET c == Head(wallet.micro).call
     IN  wallet' = StartBlock([Passed EXCEPT !.calls[c].index = 0], c)
  /\ UNCHANGED <<setting, storage, chain, pool, events, quiet>>

PassAddress ==
  /\ Passes("address")
  /\ LET c == Head(wallet.micro).call
         x == Head(wallet.micro).gate.key
         last == LastConfirmed(storage[x])
         s == CleanPendings(storage[x], x)
     IN  \/ /\ last # NoTx
            /\ wallet' = SetTask(Passed, c, x, [phase |-> "check", last |-> last, pending |-> <<>>])
            /\ UNCHANGED storage
         \/ /\ last = NoTx
            /\ wallet' = BeginFetch(Passed, c, x, s, <<>>)
            /\ storage' = [storage EXCEPT ![x] = s]
  /\ UNCHANGED <<setting, chain, pool, events, quiet>>

Micro == PassAll \/ PassAccount \/ PassAddress

\* checkAddressReorg: everything goes when the block is no more in the chain.
checkAddressReorg(s, last) == IF Known(last) THEN s ELSE Empty

Checked(c, x) ==
  /\ Quiescent
  /\ wallet.calls[c].tasks[x].phase = "check"
  /\ LET s == CleanPendings(
                checkAddressReorg(storage[x], wallet.calls[c].tasks[x].last), x)
     IN  /\ storage' = [storage EXCEPT ![x] = s]
         /\ wallet' = BeginFetch(wallet, c, x, s, <<>>)
  /\ UNCHANGED <<setting, chain, pool, events, quiet>>

\* fetchHydrateAndStoreNewTxs: a full page is followed by another.
Fetched(c, x) ==
  /\ Quiescent
  /\ wallet.calls[c].tasks[x].phase = "fetch"
  /\ LET task == wallet.calls[c].tasks[x]
     IN  /\ Known(task.last)
         /\ \E page \in Pages(x, task.last) :
              LET pending == IF task.pending = <<>> THEN page.pending ELSE task.pending
                  full == Len(page.confirmed) + Len(page.pending) - Len(pending) >= PageSize
                  s == appendTxs(storage[x], x, page.confirmed)
                  all == appendTxs(s, x, pending)
              IN  \/ /\ full
                     /\ storage' = [storage EXCEPT ![x] = s]
                     /\ wallet' = BeginFetch(wallet, c, x, s, pending)
                  \/ /\ ~full
                     /\ storage' = [storage EXCEPT ![x] = all]
                     /\ wallet' = EndAddress(wallet, c, x, IF all.txs = <<>> THEN "unused" ELSE "used")
  /\ wallet'.calls[c].index + GAP <= MaxIndex + 1
  /\ UNCHANGED <<setting, chain, pool, events, quiet>>

\* A request fails, because of the network or since its block is no more known.
Fails(c, x) ==
  /\ Quiescent
  /\ LET task == wallet.calls[c].tasks[x]
     IN  \/ task.phase = "check" /\ setting.faults
         \/ task.phase = "fetch" /\ (setting.faults \/ ~Known(task.last))
  /\ wallet' = FailAddress(wallet, c, x)
  /\ UNCHANGED <<setting, storage, chain, pool, events, quiet>>

\* The program ends at any time and loads what storage exports, without spentUtxos.
Restart ==
  /\ Quiescent /\ setting.faults
  /\ \E c \in Begun : ~Over(c)
  /\ wallet' = [Start EXCEPT !.calls = [c \in Calls |->
                  IF c \in Begun THEN [NewCall EXCEPT !.phase = "failed"] ELSE NewCall]]
  /\ storage' = [x \in Addresses |-> [storage[x] EXCEPT !.spent = {}]]
  /\ quiet' = "none"
  /\ UNCHANGED <<setting, chain, pool, events>>

(***************************************************************************)
(* The chain.                                                              *)
(***************************************************************************)

InChain == {chain[h].tx : h \in DOMAIN chain}

ChainMoves ==
  /\ Quiescent
  /\ events < setting.events
  /\ events' = events + 1
  /\ quiet' = "none"
  /\ UNCHANGED <<setting, wallet, storage>>

NewTx ==
  /\ ChainMoves
  /\ \E t \in Txs \ (pool \cup InChain) :
       /\ \A u \in Spends[t] : u[1] \in pool \cup InChain
       /\ pool' = pool \cup {t}
  /\ UNCHANGED chain

Mine ==
  /\ ChainMoves
  /\ Len(chain) < MaxHeight
  /\ \E t \in pool :
       /\ \A u \in Spends[t] : u[1] \in InChain
       /\ chain' = Append(chain, [id |-> events + 1, tx |-> t])
       /\ pool' = pool \ {t}

\* Another block takes the place of the last one; its transaction is pending again.
Reorganise ==
  /\ ChainMoves
  /\ chain # <<>>
  /\ LET rest == Front(chain)
         free == pool \cup ({Last(chain).tx} \cap Txs)
         known == {rest[h].tx : h \in DOMAIN rest}
     IN  \E t \in {"none"} \cup {t \in free : \A u \in Spends[t] : u[1] \in known} :
           /\ chain' = Append(rest, [id |-> events + 1, tx |-> t])
           /\ pool' = free \ {t}

XpubInit ==
  /\ setting \in Settings
  /\ wallet = Start
  /\ storage = [x \in Addresses |-> Empty]
  /\ chain = <<>>
  /\ pool = {}
  /\ events = 0
  /\ quiet = "none"

Answered ==
  \E a \in Asked : Checked(a[1], a[2]) \/ Fetched(a[1], a[2]) \/ Fails(a[1], a[2])

XpubNext ==
  \/ \E c \in Calls : sync(c)
  \/ Micro
  \/ Answered
  \/ Restart
  \/ NewTx \/ Mine \/ Reorganise

XpubSpec == XpubInit /\ [][XpubNext]_xpubVars

(***************************************************************************)
(* Properties.                                                             *)
(***************************************************************************)

Stored(x) == ToSet(storage[x].txs)

\* The balance is that of the unspent outputs: those that the stored transactions of an
\* address pay to it and none of them spends, in whatever order they came, each
\* transaction being stored once.
UtxosRight ==
  \A x \in Addresses :
    LET txs == {e.tx : e \in Stored(x)}
    IN  /\ storage[x].unspent =
             (UNION {Received(t, x) : t \in txs}) \ UNION {SpentBy(t, x) : t \in txs}
        /\ Cardinality(txs) = Len(storage[x].txs)

Chained(x) == {Entry(h) : h \in Heights(x)} \cup {Unconfirmed(t) : t \in Waiting(x)}

\* A sync that was alone, and during which the chain did not move, leaves every
\* address it looked at as the chain has it, whatever failed syncs,
\* restarts and reorganisations came before.  Only what is pending beyond a page is missing.
Agrees ==
  quiet \in Calls /\ wallet.calls[quiet].phase = "done" =>
    \A x \in Addresses :
      wallet.calls[quiet].tasks[x].phase \in Ended =>
        /\ Stored(x) \subseteq Chained(x)
        /\ \A e \in Chained(x) \ Stored(x) :
             e.block = NoBlock /\ Cardinality(Stored(x)) >= PageSize

\* The address that a sync tells the user to receive on is not used, nor one after it.
\* Of three calls two go on at once when the first ends, and one may end while
\* the other has stored only the first page of an address.
FreshUnused ==
  [][setting.calls <= 2 =>
       \A c \in Calls :
         wallet'.calls[c].phase = "done" /\ wallet.calls[c].phase # "done" =>
           \A i \in 0..MaxIndex : storage'[<<0, i>>].txs # <<>> => i < wallet'.freshAddress
    ]_xpubVars

\* Nobody waits for what does not come: when no request is open and no microtask left,
\* a call that is alone is over though requests failed, and of two calls both
\* are when none failed.
NobodyForgotten ==
  ( /\ Quiescent /\ Asked = {}
    /\ \/ setting.calls = 1
       \/ /\ setting.calls = 2
          /\ \A c \in Calls : \A x \in Addresses : wallet.calls[c].tasks[x].phase # "failed" )
  => \A c \in Begun : Over(c)

=============================================================================
