--------------------------- MODULE Countervalues ---------------------------
(***************************************************************************)
(* The rates of currencies: the provider of countervalues/react.tsx with   *)
(* its effects, and the incremental load of countervalues/logic.ts.        *)
(*                                                                         *)
(* Time is counted in hours, a day in HOURS of them.  A rate is known or   *)
(* not: days by their first hour, hours by themselves.  The server has a   *)
(* rate for every hour and every day that is over.                         *)
(***************************************************************************)
EXTENDS Integers, FiniteSets, FiniteSetsExt

CONSTANTS
  Pairs,       \* of currencies
  HOURS,       \* in a day
  LIMIT,       \* how far back rates by the hour are asked
  Starts,      \* of the history of a pair
  FIRST,       \* the hour when the run begins
  Bounds       \* how often the settings change, all is wiped and the program restarts,
               \* the last hour, whether the server knows the rate of the day that runs, and
               \* what the user may choose for autofillGaps

NoDate == -1

ASSUME CountervaluesAssumption ==
  /\ HOURS \in Nat \ {0} /\ LIMIT \in Nat
  /\ FIRST \in Nat /\ Starts \subseteq Nat
  /\ Bounds \subseteq
       [changes : Nat, wipes : Nat, restarts : Nat, last : Nat, today : BOOLEAN,
        fills : SUBSET BOOLEAN]

VARIABLES
  now,
  c,        \* the provider: its state, what is rendered and the effects that are due
  loads,    \* the loads that run
  saved,    \* what the application has stored
  bounds, done    \* one of Bounds, and how often each of these happened

vars == <<now, c, loads, saved, bounds, done>>

Day(t) == (t \div HOURS) * HOURS

(***************************************************************************)
(* The rates.  A cache has a fallback if its gaps were filled.             *)
(***************************************************************************)

NoData == [days |-> {}, hours |-> {}, latest |-> "none"]
NoStatus == [oldest |-> NoDate, failing |-> FALSE]
NoCache == [stable |-> NoDate, latest |-> "none", fallback |-> FALSE]

initialState ==
  [data |-> [p \in Pairs |-> NoData], status |-> [p \in Pairs |-> NoStatus],
   cache |-> [p \in Pairs |-> NoCache]]

\* Mutant: a latest rate that is zero is not filled.
generateCacheKeepsZero(data, fill, t) ==
  LET dates == data.days \cup data.hours
      oldest == Min(dates)
      holes == {k \in oldest..t : (k - oldest) % HOURS = 0 /\ Day(k) \notin data.days}
  IN  [stable |-> IF dates = {} THEN NoDate ELSE IF holes = {} THEN Max(dates) ELSE Min(holes),
       latest |-> IF dates # {} /\ fill /\ data.latest = "none" THEN "filled" ELSE data.latest,
       fallback |-> fill]

\* Up to the stable date no day is missing.
generateCache(data, fill, t) ==
  LET dates  == data.days \cup data.hours
      oldest == Min(dates)
      holes  == {k \in oldest..t : (k - oldest) % HOURS = 0 /\ Day(k) \notin data.days}
      fills  == fill /\ data.latest \in {"none", "zero"}
  IN  IF dates = {} THEN [stable |-> NoDate, latest |-> data.latest, fallback |-> fill]
      ELSE [stable |-> IF holes = {} THEN Max(dates) ELSE Min(holes),
            latest |-> IF fills THEN "filled" ELSE data.latest, fallback |-> fill]

importCountervalues(s, settings, t) ==
  [s EXCEPT !.cache = [p \in Pairs |-> generateCache(s.data[p], settings.fill, t)]]

(***************************************************************************)
(* A load: the state and the settings that it began with, at the time      *)
(* `now`; pairs whose requests failed may be left for later.               *)
(***************************************************************************)

Tracked(settings) == {p \in Pairs : settings.starts[p] # NoDate}

Later(a, b) == IF a > b THEN a ELSE b

\* Mutant: an account that is older than what was asked before is not noticed.
SinceAnyOlder(s, p, start) == Later(start, s.cache[p].stable)

\* Nothing is missed before the stable date, unless older rates are wanted than ever before.
Since(s, p, start) ==
  IF s.status[p].oldest # NoDate /\ start < s.status[p].oldest
  THEN start ELSE Later(start, s.cache[p].stable)

Asks(l) ==
  LET pairs == Tracked(l.settings) \ l.tooSoon
      Daily(p) == Since(l.state, p, l.settings.starts[p])
      Hourly(p) == Since(l.state, p, Later(l.settings.starts[p], l.now - LIMIT))
  IN  {[pair |-> p, by |-> "day", since |-> Daily(p)] :
         p \in {p \in pairs : Day(Daily(p)) # Day(l.now)}}
      \cup {[pair |-> p, by |-> "hour", since |-> Hourly(p)] :
              p \in {p \in pairs : Hourly(p) # l.now}}

\* What the server answers.
Rates(ask) ==
  IF ask.by = "hour" THEN ask.since..now
  ELSE {d \in Day(ask.since)..(IF bounds.today THEN now ELSE now - HOURS) : d = Day(d)}

\* The result of a load whose requests in `ok` were answered and in `errors` refused by
\* the server; of a pair in `late` the refusal came last.  Latest rates that are not fetched
\* become zero; those that are differ from the ones known before for the pairs in `news`.
Loaded(l, ok, errors, late, fetched, news) ==
  LET Of(p, asks) == {r \in asks : r.pair = p}
      By(p, by) == UNION {Rates(r) : r \in {r \in Of(p, ok) : r.by = by}}
      data == [p \in Pairs |->
        [days   |-> l.state.data[p].days \cup By(p, "day"),
         hours  |-> l.state.data[p].hours \cup By(p, "hour"),
         latest |-> IF p \notin Tracked(l.settings) THEN l.state.data[p].latest
                    ELSE IF fetched THEN "known" ELSE "zero"]]
      changesKeys == {r.pair : r \in ok} \cup
        {p \in Tracked(l.settings) :
           p \in news \/ data[p].latest # l.state.data[p].latest}
      Oldest(p) == {r.since : r \in Of(p, ok)} \cup ({l.state.status[p].oldest} \ {NoDate})
  IN  [data |-> data,
       status |-> [p \in Pairs |->
         [oldest  |-> IF Oldest(p) = {} THEN NoDate ELSE Min(Oldest(p)),
          failing |-> IF Of(p, errors) # {} THEN Of(p, ok) = {} \/ p \in late
                      ELSE Of(p, ok) = {} /\ l.state.status[p].failing]],
       cache |-> [p \in Pairs |->
         IF p \in changesKeys THEN generateCache(data[p], l.settings.fill, now)
         ELSE l.state.cache[p]]]

(***************************************************************************)
(* The provider.  `due` says that the effects of the last render did not   *)
(* run yet, `fresh` that debouncedUserSettings changed in it.  Two fields  *)
(* are for the properties only: `begun` says that a load began since        *)
(* debouncedUserSettings changed, and `whole` is the load that the state   *)
(* is of if all that it asked for was answered.                            *)
(***************************************************************************)

Nothing == [settings |-> [starts |-> [p \in Pairs |-> NoDate], fill |-> TRUE], now |-> NoDate]

Mount(settings) ==
  [state |-> initialState, pending |-> FALSE, trigger |-> FALSE, settings |-> settings,
   debounced |-> settings, fresh |-> TRUE, due |-> TRUE, begun |-> FALSE,
   whole |-> Nothing]

\* Mutant: a load that runs does not keep another one from beginning.
BeginsAnyway(seen) == seen.due /\ seen.trigger

\* The effects of the render `seen` begin a load.
Begins(seen) == seen.due /\ ~seen.pending /\ seen.trigger

\* Mutant: the request for a load is taken back although one runs.
AfterEffectsForgets(k, seen) ==
  IF Begins(seen)
  THEN [k EXCEPT !.trigger = FALSE, !.pending = TRUE, !.begun = TRUE]
  ELSE [k EXCEPT !.trigger = ~seen.pending /\ (@ \/ (seen.due /\ seen.fresh))]

\* The provider k once the effects of the render `seen` ran.
AfterEffects(k, seen) ==
  IF Begins(seen)
  THEN [k EXCEPT !.trigger = FALSE, !.pending = TRUE, !.begun = TRUE]
  ELSE [k EXCEPT !.trigger = @ \/ (seen.due /\ seen.fresh)]

NewLoads ==
  IF ~Begins(c) THEN {{}}
  ELSE {{[id |-> Min({i \in 1..Cardinality(loads) + 1 : \A l \in loads : l.id # i}),
          state |-> c.state, settings |-> c.settings, now |-> now, tooSoon |-> tooSoon]} :
            tooSoon \in SUBSET {p \in Tracked(c.settings) : c.state.status[p].failing}}

\* The provider becomes k.  Effects that are due run after what is dispatched and before
\* the next render, and see the render that they are of.
Becomes(k, others) ==
  /\ c' = [AfterEffects(k, c) EXCEPT !.due = TRUE]
  /\ \E new \in NewLoads : loads' = others \cup new

Event(k) == Becomes([k EXCEPT !.fresh = FALSE], loads)

RunEffects ==
  /\ c.due
  /\ LET k == AfterEffects(c, c)
     IN  c' = [k EXCEPT !.due = (k # c), !.fresh = FALSE]
  /\ \E new \in NewLoads : loads' = loads \cup new
  /\ UNCHANGED <<now, saved, bounds, done>>

(***************************************************************************)
(* The answers.                                                            *)
(***************************************************************************)

Success(l) ==
  \E ok \in SUBSET Asks(l), fetched \in BOOLEAN :
    \E errors \in SUBSET (Asks(l) \ ok),
       news \in SUBSET {p \in Tracked(l.settings) : fetched /\ l.state.data[p].latest = "known"} :
      \E late \in SUBSET {r.pair : r \in errors} :
        Becomes([c EXCEPT !.state = Loaded(l, ok, errors, late, fetched, news),
                          !.pending = FALSE, !.fresh = FALSE,
                          !.whole = IF ok = Asks(l) /\ l.tooSoon = {}
                                    THEN [settings |-> l.settings, now |-> l.now]
                                    ELSE Nothing],
                loads \ {l})

Failure(l) == Becomes([c EXCEPT !.pending = FALSE, !.fresh = FALSE], loads \ {l})

LoadEnds ==
  /\ \E l \in loads : Success(l) \/ Failure(l)
  /\ UNCHANGED <<now, saved, bounds, done>>

(***************************************************************************)
(* The application and time.                                               *)
(***************************************************************************)

\* poll of the user, and of the loop.
Poll ==
  /\ ~c.trigger
  /\ Event([c EXCEPT !.trigger = TRUE])
  /\ UNCHANGED <<now, saved, bounds, done>>

SomeSettings ==
  [starts : [Pairs -> {t \in Starts : t <= now} \cup {NoDate}], fill : bounds.fills]

Does(what) ==
  /\ done[what] < bounds[what]
  /\ done' = [done EXCEPT ![what] = @ + 1]

ChangeSettings ==
  /\ Does("changes")
  /\ \E s \in SomeSettings \ {c.settings} : Event([c EXCEPT !.settings = s])
  /\ UNCHANGED <<now, saved, bounds>>

DebounceEnds ==
  /\ c.debounced # c.settings
  /\ Becomes([c EXCEPT !.debounced = c.settings, !.fresh = TRUE, !.begun = FALSE], loads)
  /\ UNCHANGED <<now, saved, bounds, done>>

Wipe ==
  /\ Does("wipes")
  /\ Event([c EXCEPT !.state = initialState, !.pending = FALSE, !.whole = Nothing])
  /\ UNCHANGED <<now, saved, bounds>>

\* What is exported when the state changes is stored, sooner or later.  (Before a restart.)
Save ==
  /\ done.restarts < bounds.restarts
  /\ saved # c.state
  /\ saved' = c.state
  /\ UNCHANGED <<now, c, loads, bounds, done>>

Restart ==
  /\ Does("restarts")
  /\ c' = Mount(c.settings)
  /\ loads' = {}
  /\ UNCHANGED <<now, saved, bounds>>

\* savedState is there at the start or comes later.
Import ==
  /\ done.restarts > 0
  /\ saved.status # initialState.status
  /\ Event([c EXCEPT !.state = importCountervalues(saved, c.settings, now), !.whole = Nothing])
  /\ UNCHANGED <<now, saved, bounds, done>>

Tick ==
  /\ now < bounds.last
  /\ now' = now + 1
  /\ UNCHANGED <<c, loads, saved, bounds, done>>

Init ==
  /\ now = FIRST
  /\ bounds \in Bounds
  /\ \E s \in SomeSettings : c = Mount(s)
  /\ loads = {}
  /\ saved = initialState
  /\ done = [changes |-> 0, wipes |-> 0, restarts |-> 0]

Next ==
  \/ RunEffects \/ LoadEnds \/ Poll \/ ChangeSettings \/ DebounceEnds
  \/ Wipe \/ Save \/ Restart \/ Import \/ Tick

Spec == Init /\ [][Next]_vars

(***************************************************************************)
(* Properties.                                                             *)
(***************************************************************************)

\* Loads overlap only if a wipe let the next one begin, and the provider never waits for
\* a load that is over.
OneLoad ==
  /\ done.wipes = 0 => Cardinality(loads) <= 1
  /\ c.pending => loads # {}

\* Once nothing runs and nothing is to be done, a load has begun since the settings of the
\* user changed: no change that lasts is lost, whatever ran meanwhile.
SettingsServed ==
  c.debounced = c.settings /\ ~c.due /\ loads = {} => c.begun /\ ~c.trigger

\* Loads ask only for what they miss.  When all that a load asked for was answered, no day
\* from the start of a pair to the day before the load is missing, whatever earlier loads
\* missed, however the settings changed, and whichever load's result is the state.
NoDayMissing ==
  \A p \in Tracked(c.whole.settings) :
    {d \in Day(c.whole.settings.starts[p])..(Day(c.whole.now) - HOURS) : d = Day(d)}
      \subseteq c.state.data[p].days

\* A pair with a history has a latest rate to show, although a failed fetch stores zero, if
\* its gaps were filled, and they were if the user never chose otherwise.  A cache without
\* filled gaps shows what is stored: whatever was imported, wiped or loaded for other pairs.
RateShown ==
  \A p \in Pairs :
    LET data  == c.state.data[p]
        cache == c.state.cache[p]
    IN  data.days \cup data.hours # {} =>
          /\ IF cache.fallback THEN cache.latest \in {"known", "filled"}
             ELSE cache.latest = data.latest
          /\ FALSE \notin bounds.fills => cache.fallback

=============================================================================
