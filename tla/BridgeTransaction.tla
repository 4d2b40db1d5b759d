------------------------- MODULE BridgeTransaction -------------------------
(***************************************************************************)
(* The transaction of a form, src/bridge/useBridgeTransaction.ts: a        *)
(* reducer, and an effect that has the bridge prepare the transaction and  *)
(* tell its status whenever the user changes it, again and again while     *)
(* that fails.                                                             *)
(*                                                                         *)
(* A render that changes the dependencies of the effect has the effect of  *)
(* the last one cleaned up, which makes its work void (`ignore`), and the  *)
(* new one run.  With setting.late that happens some time after the render *)
(* and at the latest before the next one, as React has it for passive      *)
(* effects; what was dispatched before is rendered all the same.           *)
(*                                                                         *)
(* Transactions are compared by reference, so two that the program takes   *)
(* for different objects are different here.  The growing delays, sub      *)
(* accounts and the mode that a new transaction inherits are left out.     *)
(***************************************************************************)
EXTENDS Naturals, FiniteSets

CONSTANTS
  Accounts,   \* main accounts
  Broken,     \* those that the bridge makes no transaction of
  Edits,      \* what the user may type
  Blank,      \* what a new transaction says
  Copies,     \* tells objects of the same content from each other
  MaxLeaked,  \* bound: timers that no cleanup can cancel any more
  Settings    \* the settings to check, see below

NoAccount == "no account"

ASSUME FormAssumption ==
  /\ Broken \subseteq Accounts
  /\ Blank \in Edits
  /\ 0 \in Copies
  /\ \A b, c \in Copies : \E d \in Copies : d # b /\ d # c
  /\ MaxLeaked \in Nat
  /\ NoAccount \notin Accounts
  /\ Settings \subseteq [late : BOOLEAN, restores : BOOLEAN]

VARIABLES
  setting,  \* what may happen, the same for ever:
            \*   late      passive effects are late
            \*   restores  the user takes back the transaction of the status
  form,     \* the state of the reducer, as rendered last
  dirty,    \* the effect has not run for that render
  work,     \* what the effect that ran last is doing
  leaked,   \* what will be retried by the timers that nothing cancels any more
  pending,  \* statusIsPending.current
  wanted,   \* history: the account and what the user typed last
  overtaken \* history: since then an answer or a retry came between a render and its
            \* effect, or a retry that nothing can cancel

formVars == <<setting, form, dirty, work, leaked, pending, wanted, overtaken>>

Transactions ==
  [account : Accounts, edit : Edits, prepared : BOOLEAN, copy : Copies]

NoTx == [edit |-> "none"]

createTransaction(a) ==
  [account |-> a, edit |-> Blank, prepared |-> FALSE, copy |-> 0]

(***************************************************************************)
(* The reducer.  `about` says what the status was computed from.           *)
(***************************************************************************)

initial ==
  [account |-> NoAccount, transaction |-> NoTx, statusOnTransaction |-> NoTx,
   about |-> [account |-> NoAccount, transaction |-> NoTx],
   errorAccount |-> FALSE, errorStatus |-> FALSE]

\* Mutant: what is tried again is the same object.
NewSame(s, t) == t

\* An object like t that is neither in the form nor what its status is on.
New(s, t) ==
  [t EXCEPT !.copy = CHOOSE c \in Copies :
     [t EXCEPT !.copy = c] \notin {s.transaction, s.statusOnTransaction}]

setAccount(s, a) ==
  IF a \in Broken
  THEN [initial EXCEPT !.account = a, !.errorAccount = TRUE]
  ELSE [initial EXCEPT !.account = a, !.transaction = New(s, createTransaction(a))]

setTransaction(s, t) == [s EXCEPT !.transaction = t]

\* Mutant: the status is given to the transaction that is in the form.
onStatusOfForm(s, a, t) ==
  [s EXCEPT !.errorStatus = FALSE, !.statusOnTransaction = s.transaction,
            !.about = [account |-> a, transaction |-> t]]

onStatus(s, a, t) ==
  [s EXCEPT !.errorStatus = FALSE,
            !.transaction = t, !.statusOnTransaction = t,
            !.about = [account |-> a, transaction |-> t]]

onStatusError(s) == [s EXCEPT !.errorStatus = TRUE]

bridgePending(s) == s.transaction # s.statusOnTransaction

(***************************************************************************)
(* The effect.                                                             *)
(***************************************************************************)

Idle == [phase |-> "idle"]

Deps(s) == <<s.transaction, s.account, bridgePending(s)>>

\* `result` is what the bridge has prepared.
Doing(phase, a, t, result) ==
  [phase |-> phase, account |-> a, transaction |-> t, result |-> result]

\* Only the first status is not debounced.
Effect(s, busy) ==
  IF bridgePending(s) /\ s.account # NoAccount /\ s.transaction # NoTx
  THEN Doing(IF busy THEN "debounce" ELSE "prepare",
             s.account, s.transaction, NoTx)
  ELSE Idle

\* Mutant: an effect that runs does not make void what is being prepared.
RunEffectOver(s, now, busy) ==
  /\ work' = IF now.phase \in {"prepare", "check"} THEN now ELSE Effect(s, busy)
  /\ pending' = (busy \/ Effect(s, busy) # Idle)

\* Cleans up `now`, what is left of the last effect, and runs the next one.
\* `busy` is what the ref says.
RunEffect(s, now, busy) ==
  /\ work' = Effect(s, busy)
  /\ pending' = (busy \/ Effect(s, busy) # Idle)

\* What was dispatched is rendered.  Late effects of the last render run first.
Render(s, now, busy) ==
  LET run(e, due) == IF due THEN RunEffect(e, now, busy)
                            ELSE work' = now /\ pending' = busy
  IN  /\ form' = s
      /\ dirty' = (setting.late /\ Deps(s) # Deps(form))
      /\ IF setting.late THEN run(form, dirty) ELSE run(s, Deps(s) # Deps(form))

LateEffect ==
  /\ dirty
  /\ dirty' = FALSE
  /\ RunEffect(form, work, pending)
  /\ UNCHANGED <<setting, form, leaked, wanted, overtaken>>

(***************************************************************************)
(* The user.                                                               *)
(***************************************************************************)

Asked(s) == [account |-> s.account, edit |-> s.transaction.edit]

UserRenders(s) ==
  /\ Render(s, work, pending)
  /\ wanted' = Asked(s)
  /\ overtaken' = FALSE
  /\ UNCHANGED <<setting, leaked>>

SetAccount == \E a \in Accounts : UserRenders(setAccount(form, a))

\* updateTransaction, or setTransaction with what the bridge updated.
Edit ==
  /\ form.transaction # NoTx
  /\ \E edit \in Edits :
       UserRenders(setTransaction(form,
         New(form, [form.transaction EXCEPT !.edit = edit, !.prepared = FALSE])))

\* setTransaction with the object that the form had before it was edited.
Restore ==
  /\ setting.restores
  /\ form.statusOnTransaction # NoTx
  /\ UserRenders(setTransaction(form, form.statusOnTransaction))

User == SetAccount \/ Edit \/ Restore

(***************************************************************************)
(* The work of the effect.                                                 *)
(***************************************************************************)

DebounceEnds ==
  /\ work.phase = "debounce"
  /\ work' = [work EXCEPT !.phase = "prepare"]
  /\ UNCHANGED <<setting, form, dirty, leaked, pending, wanted, overtaken>>

\* prepareTransaction gives the same reference back if nothing is missing.
Prepared ==
  /\ work.phase = "prepare"
  /\ \E t \in {work.transaction, [work.transaction EXCEPT !.prepared = TRUE]} :
       work' = [work EXCEPT !.phase = "check", !.result = t]
  /\ UNCHANGED <<setting, form, dirty, leaked, pending, wanted, overtaken>>

StatusOk ==
  /\ work.phase = "check"
  /\ Render(onStatus(form, work.account, work.result), Idle, FALSE)
  /\ overtaken' = (overtaken \/ dirty)
  /\ UNCHANGED <<setting, leaked, wanted>>

\* The timer of the retry starts after the dispatch: if that ran a late effect, the
\* cleanup has been and nothing clears the timer.
Fails ==
  /\ work.phase \in {"prepare", "check"}
  /\ Render(onStatusError(form), [work EXCEPT !.phase = "retry"], FALSE)
  /\ leaked' = IF dirty THEN leaked \cup {[work.transaction EXCEPT !.copy = 0]}
               ELSE leaked
  /\ Cardinality(leaked') <= MaxLeaked
  /\ UNCHANGED <<setting, wanted, overtaken>>

RetryTimer ==
  /\ work.phase = "retry"
  /\ Render(setTransaction(form, New(form, work.transaction)), Idle, pending)
  /\ overtaken' = (overtaken \/ dirty)
  /\ UNCHANGED <<setting, leaked, wanted>>

LeakedRetry ==
  \E old \in leaked :
    /\ leaked' = leaked \ {old}
    /\ Render(setTransaction(form, New(form, old)), work, pending)
    /\ overtaken' = TRUE
    /\ UNCHANGED <<setting, wanted>>

\* optionalInit may give an account, and a transaction that was made for it; one
\* that was prepared before is left out.
optionalInit ==
  {initial} \cup {setAccount(initial, a) : a \in Accounts}
    \cup {LET s == setAccount(initial, t.account) IN setTransaction(s, New(s, t)) :
            t \in {t \in Transactions : t.account \notin Broken /\ ~t.prepared}}

FormInit ==
  /\ setting \in Settings
  /\ form \in optionalInit
  /\ dirty = setting.late
  /\ work = IF setting.late THEN Idle ELSE Effect(form, FALSE)
  /\ pending = (work # Idle)
  /\ leaked = {}
  /\ wanted = Asked(form)
  /\ overtaken = FALSE

FormNext ==
  \/ User
  \/ LateEffect
  \/ DebounceEnds
  \/ Prepared
  \/ StatusOk
  \/ Fails
  \/ RetryTimer
  \/ LeakedRetry

FormSpec == FormInit /\ [][FormNext]_formVars

\* Effects and timers come, the bridge answers, and it does not fail for ever.
FormFairness ==
  /\ WF_formVars(LateEffect)
  /\ WF_formVars(DebounceEnds)
  /\ SF_formVars(Prepared)
  /\ SF_formVars(StatusOk)
  /\ WF_formVars(RetryTimer)
  /\ WF_formVars(LeakedRetry)

FormFairSpec == FormSpec /\ FormFairness

(***************************************************************************)
(* Properties.                                                             *)
(***************************************************************************)

FormTypeOK ==
  /\ setting \in Settings
  /\ form \in [account : Accounts \cup {NoAccount},
               transaction : Transactions \cup {NoTx},
               statusOnTransaction : Transactions \cup {NoTx},
               about : [account : Accounts \cup {NoAccount},
                        transaction : Transactions \cup {NoTx}],
               errorAccount : BOOLEAN, errorStatus : BOOLEAN]
  /\ dirty \in BOOLEAN /\ pending \in BOOLEAN
  /\ \/ work = Idle
     \/ work \in [phase : {"debounce", "prepare", "check", "retry"},
                  account : Accounts, transaction : Transactions,
                  result : Transactions \cup {NoTx}]
  /\ leaked \subseteq Transactions
  /\ wanted \in [account : Accounts \cup {NoAccount}, edit : Edits \cup {"none"}]
  /\ overtaken \in BOOLEAN

Settled == form.transaction # NoTx /\ ~bridgePending(form)

\* "derived state of the Transaction": when the form says that nothing is pending,
\* the errors and the fees that it shows were computed from the very transaction
\* that is going to be signed, and for the account of the form, however slowly
\* the bridge answered to earlier ones.  An effect that is late lets the
\* answer for another account in.
StatusFits ==
  Settled => /\ form.about.transaction = form.transaction
             /\ ~setting.late => /\ form.about.account = form.account
                                 /\ form.transaction.account = form.account

\* What is prepared, failed or tried again never takes back what the user has
\* typed meanwhile, late effects included: nothing is taken back but by what comes
\* between a render and its effect or by a retry that nothing can cancel, and
\* neither comes when effects are in time.
NothingLost ==
  /\ overtaken => setting.late
  /\ ~overtaken => Asked(form) = wanted

\* When the user pauses, the form comes to rest: there is a status for the
\* transaction, and the error is gone unless the user took back a transaction
\* that had its status, after which nothing is tried again.
Settles ==
  \/ []<><<User>>_formVars
  \/ <>[](form.transaction # NoTx =>
             Settled /\ (form.errorStatus => setting.restores))

=============================================================================
