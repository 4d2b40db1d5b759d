--------------------------- MODULE BitcoinSpending ---------------------------
(***************************************************************************)
(* How a bitcoin transaction is made: one of wallet-btc/pickingstrategies  *)
(* picks the outputs to spend, and Xpub.buildTx adds the change that is    *)
(* worth it.  estimateAccountMaxSpendable tells beforehand what can be     *)
(* sent.                                                                   *)
(*                                                                         *)
(* Sizes are those of the code in weight units, of which four make a byte; *)
(* money is counted in quarters of a satoshi, so that fees are integers.   *)
(***************************************************************************)
EXTENDS Integers, Sequences, FiniteSets, SequencesExt, Lists

CONSTANTS
  Requests,          \* of transactions, with the outputs that storage has unspent; the tries
                     \* of CoinSelect are 100000 and part of them to let searches stop
  UseAll,            \* the amount of a request that sends everything
  OUTPUT_VALUE_MAX   \* what fits into one output

Modes == {"legacy", "segwit", "native", "taproot"}

ASSUME SpendingAssumption ==
  /\ OUTPUT_VALUE_MAX \in Nat \ {0}
  /\ \A r \in Requests :
       /\ r.kind.mode \in Modes /\ r.kind.recipient \in Modes /\ r.kind.timestamped \in BOOLEAN
       /\ r.kind.dustPolicy \in {"PER_KBYTE", "FIXED"} /\ r.kind.dustThreshold \in Nat
       /\ r.utxos \in Seq([value : Nat, confirmed : BOOLEAN, height : Nat, rbf : BOOLEAN])
       /\ r.strategy \in {"DeepFirst", "Merge", "CoinSelect"}
       /\ r.feePerByte \in Nat /\ r.TOTAL_TRIES \in Nat
       /\ r.amount = UseAll \/ r.amount \in Nat

VARIABLES
  request, amount, phase,
  currentSelection, currentValue, best, tries,  \* the search of CoinSelect
  tx

search == <<currentSelection, currentValue, best, tries>>
vars == <<request, amount, phase, search, tx>>

\* Whole units of four: whole bytes, and whole satoshis.
Ceil(x) == ((x + 3) \div 4) * 4

(***************************************************************************)
(* Sizes and fees: utils.ts.                                               *)
(***************************************************************************)

\* Of what counts the inputs or the outputs; an array has fewer than 2^32 items.
byteSize(count) == IF count < 253 THEN 1 ELSE IF count <= 65535 THEN 3 ELSE 5

\* The version, the time on some networks, the lock time, and the marker of segwit.
fixedWeight(kind) ==
  16 + (IF kind.timestamped THEN 16 ELSE 0) + 16 + (IF kind.mode = "legacy" THEN 0 ELSE 2)

inputWeight(mode) ==
  41 * 4 + CASE mode = "legacy"  -> 107 * 4
             [] mode = "segwit"  -> 22 * 4 + 108
             [] mode = "native"  -> 108
             [] mode = "taproot" -> 67

\* The same for the address of a recipient and for a change.
outputWeight(mode) ==
  (9 + CASE mode = "legacy"  -> 25
         [] mode = "segwit"  -> 23
         [] mode = "native"  -> 22
         [] mode = "taproot" -> 34) * 4

\* Of a transaction to the recipient.
maxTxSize(inputs, outputs, change) ==
  LET mode == request.kind.mode
  IN  fixedWeight(request.kind) + 4 * byteSize(inputs) + inputWeight(mode) * inputs
        + 4 * byteSize(outputs) + outputWeight(request.kind.recipient) * outputs
        + IF change THEN outputWeight(mode) ELSE 0

Fee(size) == request.feePerByte * size

\* The size of an output to the recipient, or without any, of a change.
OutputSize(outputs, emptySize) ==
  (IF outputs > 0 THEN maxTxSize(0, 1, FALSE) ELSE maxTxSize(0, 0, TRUE)) - emptySize

computeDustAmount(txSize) ==
  CASE request.kind.dustPolicy = "PER_KBYTE" -> (request.kind.dustThreshold * txSize) \div 1000
    [] request.kind.dustPolicy = "FIXED" -> request.kind.dustThreshold * 4

(***************************************************************************)
(* Unspent outputs.                                                        *)
(***************************************************************************)

Utxos == DOMAIN request.utxos
values == [i \in Utxos |-> request.utxos[i].value * 4]
Total(S) == SumOver(values, S)

\* What is unconfirmed comes last.
heights ==
  [i \in Utxos |-> IF request.utxos[i].confirmed THEN request.utxos[i].height ELSE 1000000]

Pickable == Utxos \ request.excludeUTXOs

Usable ==
  {i \in Pickable : \/ request.utxos[i].confirmed
                    \/ request.pickUnconfirmedRBF /\ request.utxos[i].rbf}

\* Mutant: the fee is that of one input.
estimateOfBalance ==
  LET rest == Total(Usable) - Fee(Ceil(maxTxSize(1, 1, FALSE)))
  IN  IF rest < 0 THEN 0 ELSE rest

estimateAccountMaxSpendable ==
  LET rest == Total(Usable) - Fee(Ceil(maxTxSize(Cardinality(Usable), 1, FALSE)))
  IN  IF rest < 0 THEN 0 ELSE rest

(***************************************************************************)
(* buildTx: the amount is split, and what was picked pays.                 *)
(***************************************************************************)

Outputs ==
  LET n == (amount + OUTPUT_VALUE_MAX - 1) \div OUTPUT_VALUE_MAX
  IN  [k \in 1..n |-> IF k < n THEN OUTPUT_VALUE_MAX ELSE amount - (n - 1) * OUTPUT_VALUE_MAX]

Paid(outputs) == SumOver(outputs, DOMAIN outputs)

\* Mutant: the change is the difference to what is sent.
BuiltChangeFirst(picked) ==
  LET rest == Total(picked.utxos) - amount
      dustAmount == computeDustAmount(Ceil(maxTxSize(Cardinality(picked.utxos), Len(Outputs), TRUE)))
      change == IF picked.needChangeoutput /\ rest > dustAmount THEN rest ELSE 0
  IN  [inputs |-> picked.utxos, outputs |-> Outputs, change |-> change,
       fee |-> Total(picked.utxos) - Paid(Outputs) - change]

\* A change that is dust goes to the fee.
Built(picked) ==
  LET rest == Total(picked.utxos) - amount - picked.fee
      dustAmount == computeDustAmount(Ceil(maxTxSize(Cardinality(picked.utxos), Len(Outputs), TRUE)))
      change == IF picked.needChangeoutput /\ rest > dustAmount THEN rest ELSE 0
  IN  [inputs |-> picked.utxos, outputs |-> Outputs, change |-> change,
       fee |-> Total(picked.utxos) - Paid(Outputs) - change]

NotEnoughBalance == [utxos |-> {}, fee |-> 0, needChangeoutput |-> FALSE]

(***************************************************************************)
(* DeepFirst takes the oldest outputs, Merge the smallest ones, until they *)
(* pay.                                                                    *)
(***************************************************************************)

\* The outputs of S that come before i, by key.
Preceding(key, S, i) == {j \in S : key[j] < key[i] \/ (key[j] = key[i] /\ j < i)}

\* The k-th has k - 1 before it.
SortBy(key, S) ==
  [k \in 1..Cardinality(S) |-> CHOOSE i \in S : Cardinality(Preceding(key, S, i)) = k - 1]

Take(order) ==
  LET outputs == Len(Outputs)
      emptyTxSize == Ceil(maxTxSize(0, 0, FALSE))
      sizePerInput == maxTxSize(1, 0, FALSE) - emptyTxSize
      sizePerOutput == OutputSize(outputs, emptyTxSize)
      fee(n) == Fee(maxTxSize(0, outputs, FALSE)) + n * Fee(sizePerInput)
      total(n) == Total({order[k] : k \in 1..n})
      enough == {n \in 0..Len(order) : total(n) >= amount + fee(n)}
      taken == CHOOSE n \in enough : \A m \in enough : n <= m
      change == total(taken) - amount - fee(taken) >= Fee(sizePerOutput)
  IN  IF enough = {} THEN NotEnoughBalance
      ELSE [utxos |-> {order[k] : k \in 1..taken},
            fee |-> Ceil(fee(taken) + IF change THEN Fee(sizePerOutput) ELSE 0),
            needChangeoutput |-> change]

DeepFirst == Take(SortBy(heights, Pickable))
Merge == Take(SortBy(values, Pickable))

(***************************************************************************)
(* CoinSelect searches for the selection with the least waste, depth       *)
(* first from the largest output.                                          *)
(***************************************************************************)

fixedSize == maxTxSize(0, 0, FALSE)
oneInputSize == maxTxSize(1, 0, FALSE) - fixedSize
oneOutputSize == OutputSize(Len(Outputs), fixedSize)
effectiveValues == [i \in Utxos |-> values[i] - Fee(oneInputSize)]
Worth(S) == SumOver(effectiveValues, S)

\* Those that are worth more than they cost, by their worth.
effectiveUtxos ==
  Reverse(SortBy(effectiveValues, {i \in Pickable : effectiveValues[i] > 0}))

actualTarget == Fee(fixedSize + oneOutputSize * Len(Outputs)) + amount

Chosen(selection) == {k \in DOMAIN selection : selection[k]}

NeedsChange(value) == value - actualTarget > Fee(oneOutputSize)

Waste(inputs, value) ==
  Fee(Ceil(maxTxSize(inputs, Len(Outputs), NeedsChange(value))))
    + IF NeedsChange(value) THEN 0 ELSE value - actualTarget

Reached == currentValue >= actualTarget

\* Mutant: what exceeds the target counts as a gain.
BetterAnyExcess ==
  LET waste == Fee(Ceil(maxTxSize(Cardinality(Chosen(currentSelection)), Len(Outputs), FALSE)))
                 - (currentValue - actualTarget)
  IN  IF Reached /\ (best.selection = <<>> \/ waste <= best.waste)
      THEN [selection |-> currentSelection, waste |-> waste, change |-> NeedsChange(currentValue)]
      ELSE best

Better ==
  LET waste == Waste(Cardinality(Chosen(currentSelection)), currentValue)
  IN  IF Reached /\ (best.selection = <<>> \/ waste <= best.waste)
      THEN [selection |-> currentSelection, waste |-> waste, change |-> NeedsChange(currentValue)]
      ELSE best

\* What was found, and without a solution what DeepFirst finds.
CoinSelected ==
  IF best.selection = <<>> THEN DeepFirst
  ELSE LET utxos == {effectiveUtxos[k] : k \in Chosen(best.selection)}
       IN  [utxos |-> utxos,
            fee |-> Fee(Ceil(maxTxSize(Cardinality(utxos), Len(Outputs), best.change))),
            needChangeoutput |-> best.change]

Searching ==
  /\ phase = "search"
  /\ tries < request.TOTAL_TRIES
  /\ tries' = tries + 1

Forward ==
  /\ Searching
  /\ ~Reached /\ Len(currentSelection) < Len(effectiveUtxos)
  /\ currentSelection' = Append(currentSelection, TRUE)
  /\ currentValue' = currentValue + effectiveValues[effectiveUtxos[Len(currentSelection')]]
  /\ UNCHANGED <<request, amount, phase, best, tx>>

Backtrack ==
  /\ Searching
  /\ Reached \/ Len(currentSelection) >= Len(effectiveUtxos)
  /\ best' = Better
  /\ LET k == SelectLastInSeq(currentSelection, LAMBDA b : b)
     IN  IF k = 0
         THEN currentSelection' = <<>> /\ phase' = "found" /\ UNCHANGED currentValue
         ELSE /\ currentSelection' = Append(SubSeq(currentSelection, 1, k - 1), FALSE)
              /\ currentValue' = currentValue - effectiveValues[effectiveUtxos[k]]
              /\ UNCHANGED phase
  /\ UNCHANGED <<request, amount, tx>>

SearchStops ==
  /\ phase = "search"
  /\ tries = request.TOTAL_TRIES
  /\ phase' = "found"
  /\ UNCHANGED <<request, amount, search, tx>>

(***************************************************************************)
(* The steps of buildTransaction.                                          *)
(***************************************************************************)

Init ==
  /\ request \in Requests
  /\ amount = IF request.amount = UseAll THEN estimateAccountMaxSpendable ELSE request.amount * 4
  /\ phase = "build"
  /\ currentSelection = <<>>
  /\ currentValue = 0
  /\ best = [selection |-> <<>>, waste |-> 0, change |-> FALSE]
  /\ tries = 0
  /\ tx = [inputs |-> {}, outputs |-> <<>>, change |-> 0, fee |-> 0]

Answer(picked) ==
  /\ IF picked = NotEnoughBalance THEN phase' = "refused" /\ UNCHANGED tx
     ELSE phase' = "sent" /\ tx' = Built(picked)
  /\ UNCHANGED <<request, amount, search>>

PickInOrder ==
  /\ phase = "build"
  /\ \/ request.strategy = "DeepFirst" /\ Answer(DeepFirst)
     \/ request.strategy = "Merge" /\ Answer(Merge)

SearchBegins ==
  /\ phase = "build" /\ request.strategy = "CoinSelect"
  /\ IF Worth(ToSet(effectiveUtxos)) < actualTarget
     THEN Answer(NotEnoughBalance)
     ELSE phase' = "search" /\ UNCHANGED <<request, amount, search, tx>>

SearchEnds == phase = "found" /\ Answer(CoinSelected)

Next == PickInOrder \/ SearchBegins \/ Forward \/ Backtrack \/ SearchStops \/ SearchEnds

Spec == Init /\ [][Next]_vars

(***************************************************************************)
(* Properties.                                                             *)
(***************************************************************************)

TxSize == maxTxSize(Cardinality(tx.inputs), Len(tx.outputs), tx.change > 0)

\* What byteSize adds when there are many.
Counts(n) == 4 * (byteSize(n) - 1)

\* DeepFirst and Merge count the bytes of an empty transaction as whole ones, and so half a
\* byte too little for each input and the change, take the change for an output to the
\* recipient, and count up to 252 inputs; CoinSelect counts up to 252 inputs and outputs in
\* what it aims at, which is all that is paid without a change.
Lost ==
  LET larger == outputWeight(request.kind.mode) - outputWeight(request.kind.recipient)
      inputs == Cardinality(tx.inputs)
  IN  IF request.strategy = "CoinSelect" /\ best.selection # <<>>
      THEN IF tx.change > 0 THEN 0 ELSE Counts(inputs) + Counts(Len(Outputs))
      ELSE (Ceil(fixedSize) - fixedSize) * (inputs + 1) + Counts(inputs)
             + IF tx.change > 0 /\ larger > 0 THEN larger ELSE 0

\* The recipient gets the amount; the fee pays for the size of the transaction at the rate
\* that was asked for, and for no more than the dust and the change that are given up.
FeeFits ==
  phase = "sent" =>
    /\ Paid(tx.outputs) = amount
    /\ tx.fee + tx.change + amount = Total(tx.inputs)
    /\ tx.fee >= Fee(TxSize - Lost)
    /\ LET given == Fee(oneOutputSize)
           dust == computeDustAmount(Ceil(maxTxSize(Cardinality(tx.inputs), Len(tx.outputs), TRUE)))
       IN  tx.fee <= Fee(Ceil(maxTxSize(Cardinality(tx.inputs), Len(tx.outputs), TRUE))) + given + dust

\* What an amount of one output up to the estimate needs is found, unless the picking runs
\* into outputs that cost more than they are worth and that the estimate did not count.
MaxSpends ==
  ( /\ phase \in {"sent", "refused"}
    /\ amount <= estimateAccountMaxSpendable
    /\ amount > 0 /\ amount <= OUTPUT_VALUE_MAX
    /\ request.strategy # "CoinSelect" => \A i \in Pickable \ Usable : effectiveValues[i] > 0 )
  => phase = "sent"

Wasted ==
  LET utxos == {effectiveUtxos[k] : k \in Chosen(best.selection)}
  IN  Waste(Cardinality(utxos), Worth(utxos))

\* A search that was not stopped finds a selection with the least waste of all.
LeastWaste ==
  phase = "found" /\ tries < request.TOTAL_TRIES =>
    \A S \in SUBSET ToSet(effectiveUtxos) :
      Worth(S) >= actualTarget => Wasted <= Waste(Cardinality(S), Worth(S))
=============================================================================
