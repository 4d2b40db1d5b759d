------------------------ MODULE CountervaluesProofs ------------------------
(***************************************************************************)
(* The effects of the provider of countervalues/react.tsx begin one load   *)
(* at a time and lose no change of the settings, missing latest rates are  *)
(* filled where the user lets them be, and a load whose requests were all  *)
(* answered leaves no day out: for any pairs, histories, lengths of days,  *)
(* answers and times.                                                      *)
(***************************************************************************)
EXTENDS Countervalues, FiniteSetTheorems, WellFoundedInduction, TLAPS

\* The fields of the provider, and those of them that are flags.
ProviderOK(k) ==
  /\ DOMAIN k = {"state", "pending", "trigger", "settings", "debounced", "fresh", "due",
                 "begun", "whole"}
  /\ {k.pending, k.trigger, k.fresh, k.due, k.begun} \subseteq BOOLEAN

\* A cache that shows what is stored, or fills it if the user lets it.
Shows(cache, data, fills) ==
  /\ IF cache.fallback THEN cache.latest \in {"known", "filled"}
     ELSE cache.latest = data.latest
  /\ FALSE \notin fills => cache.fallback

\* A state whose pairs with a history have a rate to show.
RatesOK(s, fills) ==
  /\ DOMAIN s = {"data", "status", "cache"}
  /\ \A p \in Pairs :
       /\ s.data[p].latest \in {"none", "zero", "known"}
       /\ s.data[p].days \cup s.data[p].hours # {} => Shows(s.cache[p], s.data[p], fills)

TypeOK ==
  /\ bounds.fills \subseteq BOOLEAN
  /\ ProviderOK(c) /\ RatesOK(c.state, bounds.fills) /\ RatesOK(saved, bounds.fills)
  /\ c.settings.fill \in bounds.fills
  /\ \A l \in loads : RatesOK(l.state, bounds.fills) /\ l.settings.fill \in bounds.fills
  /\ DOMAIN done = {"changes", "wipes", "restarts"} /\ done.wipes \in Nat

\* Until something was wiped the load that runs is the one that is pending.
Pending ==
  /\ c.pending => loads # {}
  /\ done.wipes = 0 => /\ \A l, m \in loads : l = m
                       /\ loads # {} => c.pending

\* A change that no load has begun for is noted, or will be by effects that are due, and
\* effects are due for what is noted unless they wait for the end of a load.
Noted ==
  /\ ~c.begun => c.trigger \/ (c.due /\ c.fresh)
  /\ c.trigger /\ ~c.pending => c.due

Inv == TypeOK /\ Pending /\ Noted

-----------------------------------------------------------------------------

LEMMA AfterEffectsIs ==
  ASSUME NEW k, NEW seen, ProviderOK(k), ProviderOK(seen)
  PROVE  LET a == AfterEffects(k, seen)
         IN  /\ ProviderOK(a) /\ a.state = k.state /\ a.due = k.due /\ a.fresh = k.fresh
             /\ a.settings = k.settings /\ a.whole = k.whole
             /\ Begins(seen) => ~a.trigger /\ a.pending /\ a.begun
             /\ ~Begins(seen) => /\ a.pending = k.pending /\ a.begun = k.begun
                                 /\ a.trigger = (k.trigger \/ (seen.due /\ seen.fresh))
<1>1. CASE Begins(seen)
  BY <1>1 DEF AfterEffects, ProviderOK
<1>2. CASE ~Begins(seen)
  <2> DEFINE noted == k.trigger \/ (seen.due /\ seen.fresh)
             a == [k EXCEPT !.trigger = noted]
  <2>1. AfterEffects(k, seen) = a
    BY <1>2 DEF AfterEffects, ProviderOK
  <2>2. noted \in BOOLEAN
    OBVIOUS
  <2> HIDE DEF noted
  <2>3. /\ ProviderOK(a) /\ a.state = k.state /\ a.due = k.due /\ a.fresh = k.fresh
        /\ a.settings = k.settings /\ a.whole = k.whole
        /\ a.pending = k.pending /\ a.begun = k.begun /\ a.trigger = noted
    BY <2>2 DEF ProviderOK
  <2> HIDE DEF a
  <2> QED
    BY <1>2, <2>1, <2>3 DEF noted
<1> QED
  BY <1>1, <1>2

\* The load that begins is one, and of the state and the settings.
LEMMA NewLoadsAre ==
  ASSUME NEW new \in NewLoads
  PROVE  /\ Begins(c) => \E l : /\ new = {l} /\ l.state = c.state
                                /\ l.settings = c.settings /\ l.now = now
         /\ ~Begins(c) => new = {}
<1>1. CASE Begins(c)
  <2>1. PICK id, tooSoon : new = {[id |-> id, state |-> c.state, settings |-> c.settings,
                                   now |-> now, tooSoon |-> tooSoon]}
    BY <1>1 DEF NewLoads
  <2> DEFINE l == [id |-> id, state |-> c.state, settings |-> c.settings, now |-> now,
                   tooSoon |-> tooSoon]
  <2>2. new = {l} /\ l.state = c.state /\ l.settings = c.settings /\ l.now = now
    BY <2>1
  <2> HIDE DEF l
  <2> QED
    BY <1>1, <2>2
<1>2. CASE ~Begins(c)
  BY <1>2 DEF NewLoads
<1> QED
  BY <1>1, <1>2

\* Whatever happens: the effects that are due run, and others will.
LEMMA BecomesInv ==
  ASSUME Inv, NEW k, NEW others, Becomes(k, others),
         ProviderOK(k), RatesOK(k.state, bounds.fills), k.settings.fill \in bounds.fills,
         others \subseteq loads, c.trigger => k.trigger,
         k.begun = c.begun \/ k.fresh,
         k.pending => others # {},
         done'.wipes = 0 => done.wipes = 0 /\ (others # {} => c.pending /\ k.pending),
         DOMAIN done' = DOMAIN done, done'.wipes \in Nat,
         UNCHANGED <<saved, bounds>>
  PROVE  Inv'
<1> DEFINE a == AfterEffects(k, c)
<1>1. PICK new \in NewLoads : loads' = others \cup new
  BY DEF Becomes
<1>2. c' = [a EXCEPT !.due = TRUE]
  BY DEF Becomes
<1>3. /\ ProviderOK(a) /\ a.state = k.state /\ a.fresh = k.fresh /\ a.settings = k.settings
      /\ Begins(c) => ~a.trigger /\ a.pending /\ a.begun
      /\ ~Begins(c) => /\ a.pending = k.pending /\ a.begun = k.begun
                       /\ a.trigger = (k.trigger \/ (c.due /\ c.fresh))
  BY AfterEffectsIs DEF Inv, TypeOK
<1> HIDE DEF a
<1>4. /\ ProviderOK(c)' /\ c'.state = k.state /\ c'.fresh = a.fresh /\ c'.due
      /\ c'.settings = k.settings
      /\ c'.pending = a.pending /\ c'.trigger = a.trigger /\ c'.begun = a.begun
  BY <1>2, <1>3 DEF ProviderOK
<1>5. /\ Begins(c) => \E l : new = {l} /\ l.state = c.state /\ l.settings = c.settings
      /\ ~Begins(c) => new = {}
  BY NewLoadsAre
<1>6. TypeOK'
  <2>1. RatesOK(c.state, bounds.fills)'
    BY <1>4 DEF RatesOK, Shows
  <2>2. RatesOK(saved, bounds.fills)'
    BY DEF Inv, TypeOK, RatesOK, Shows
  <2>3. \A l \in loads' : RatesOK(l.state, bounds.fills) /\ l.settings.fill \in bounds.fills
    BY <1>1, <1>5 DEF Inv, TypeOK
  <2>4. (\A l \in loads : RatesOK(l.state, bounds.fills) /\ l.settings.fill \in bounds.fills)'
    BY <2>3 DEF RatesOK, Shows
  <2> QED
    BY <1>4, <2>1, <2>2, <2>4 DEF Inv, TypeOK
<1>7. Pending'
  <2>1. CASE Begins(c)
    <3>1. PICK l : new = {l}
      BY <2>1, <1>5
    <3>2. ~c.pending
      BY <2>1 DEF Begins
    <3>3. c'.pending /\ loads' # {}
      BY <2>1, <1>1, <1>3, <1>4, <3>1
    <3>4. done'.wipes = 0 => loads' = {l}
      BY <1>1, <3>1, <3>2
    <3> QED
      BY <3>3, <3>4 DEF Pending
  <2>2. CASE ~Begins(c)
    <3>1. loads' = others /\ c'.pending = k.pending
      BY <2>2, <1>1, <1>3, <1>4, <1>5
    <3> QED
      BY <3>1 DEF Inv, Pending
  <2> QED
    BY <2>1, <2>2
<1>8. Noted'
  BY <1>3, <1>4 DEF Inv, Noted
<1> QED
  BY <1>6, <1>7, <1>8 DEF Inv

\* What only changes the application's part of the provider.
LEMMA EventInv ==
  ASSUME Inv, NEW k, Event(k), ProviderOK(k), RatesOK(k.state, bounds.fills),
         k.settings.fill \in bounds.fills, c.trigger => k.trigger,
         k.begun = c.begun, k.pending = c.pending,
         DOMAIN done' = DOMAIN done, done'.wipes = done.wipes, UNCHANGED <<saved, bounds>>
  PROVE  Inv'
<1> DEFINE g == [k EXCEPT !.fresh = FALSE]
<1>1. Becomes(g, loads)
  BY DEF Event
<1>2. /\ ProviderOK(g) /\ g.state = k.state /\ g.trigger = k.trigger /\ g.begun = k.begun
      /\ g.pending = k.pending /\ g.settings = k.settings
  BY DEF ProviderOK
<1> HIDE DEF g
<1>3. g.pending => loads # {}
  BY <1>2 DEF Inv, Pending
<1>4. done'.wipes = 0 => done.wipes = 0 /\ (loads # {} => c.pending /\ g.pending)
  BY <1>2 DEF Inv, Pending
<1>5. done'.wipes \in Nat
  BY DEF Inv, TypeOK
<1> QED
  BY <1>1, <1>2, <1>3, <1>4, <1>5, BecomesInv

-----------------------------------------------------------------------------
\* The rates.

LEMMA CacheShows ==
  ASSUME NEW data, NEW fills \in SUBSET BOOLEAN, NEW fill \in fills, NEW t,
         data.latest \in {"none", "zero", "known"}, data.days \cup data.hours # {}
  PROVE  Shows(generateCache(data, fill, t), data, fills)
  BY DEF generateCache, Shows

LEMMA InitialRates ==
  ASSUME NEW fills
  PROVE  RatesOK(initialState, fills)
  BY DEF RatesOK, initialState, NoData

LEMMA ImportedRates ==
  ASSUME NEW s, NEW t, NEW fills \in SUBSET BOOLEAN, NEW settings, settings.fill \in fills,
         RatesOK(s, fills)
  PROVE  RatesOK(importCountervalues(s, settings, t), fills)
<1> DEFINE r == importCountervalues(s, settings, t)
           fill == settings.fill
<1>1. DOMAIN r = DOMAIN s /\ r.data = s.data
  BY DEF importCountervalues, RatesOK
<1>2. \A p \in Pairs : r.cache[p] = generateCache(s.data[p], fill, t)
  BY DEF importCountervalues, RatesOK
<1>3. fill \in fills
  OBVIOUS
<1> HIDE DEF r, fill
<1>4. DOMAIN r = {"data", "status", "cache"}
  BY <1>1 DEF RatesOK
<1>5. ASSUME NEW p \in Pairs
      PROVE  /\ r.data[p].latest \in {"none", "zero", "known"}
             /\ r.data[p].days \cup r.data[p].hours # {} =>
                  Shows(r.cache[p], r.data[p], fills)
  <2>1. s.data[p].latest \in {"none", "zero", "known"}
    BY DEF RatesOK
  <2> QED
    BY <1>1, <1>2, <1>3, <2>1, CacheShows
<1>6. RatesOK(r, fills)
  BY <1>4, <1>5 DEF RatesOK
<1> QED
  BY <1>6 DEF r

\* What a load leaves of a pair that it did not change, and what it makes of another.
LEMMA LoadedIs ==
  ASSUME NEW l, NEW ok, NEW errors, NEW late, NEW fetched, NEW news, NEW p \in Pairs
  PROVE  LET r == Loaded(l, ok, errors, late, fetched, news)
         IN  \/ r.cache[p] = generateCache(r.data[p], l.settings.fill, now)
             \/ /\ r.cache[p] = l.state.cache[p]
                /\ r.data[p].latest = l.state.data[p].latest
                /\ r.data[p].days = l.state.data[p].days
                /\ r.data[p].hours = l.state.data[p].hours
<1> DEFINE r == Loaded(l, ok, errors, late, fetched, news)
           By(by) == UNION {Rates(a) : a \in {a \in {a \in ok : a.pair = p} : a.by = by}}
           changesKeys == {a.pair : a \in ok} \cup
             {q \in Tracked(l.settings) :
                q \in news \/ r.data[q].latest # l.state.data[q].latest}
<1>1. r.cache[p] = IF p \in changesKeys THEN generateCache(r.data[p], l.settings.fill, now)
                   ELSE l.state.cache[p]
  BY DEF Loaded
<1>2. /\ r.data[p].days = l.state.data[p].days \cup By("day")
      /\ r.data[p].hours = l.state.data[p].hours \cup By("hour")
      /\ p \notin Tracked(l.settings) => r.data[p].latest = l.state.data[p].latest
  BY DEF Loaded
<1>3. CASE p \in changesKeys
  BY <1>1, <1>3
<1>4. CASE p \notin changesKeys
  <2>1. r.data[p].latest = l.state.data[p].latest
    BY <1>2, <1>4
  <2>2. By("day") = {} /\ By("hour") = {}
    BY <1>4
  <2> QED
    BY <1>1, <1>2, <1>4, <2>1, <2>2
<1> QED
  BY <1>3, <1>4

LEMMA LoadedRates ==
  ASSUME NEW l, NEW ok, NEW errors, NEW late, NEW fetched, NEW news,
         NEW fills \in SUBSET BOOLEAN, l.settings.fill \in fills, RatesOK(l.state, fills)
  PROVE  RatesOK(Loaded(l, ok, errors, late, fetched, news), fills)
<1> DEFINE r == Loaded(l, ok, errors, late, fetched, news)
<1>1. DOMAIN r = {"data", "status", "cache"}
  BY DEF Loaded
<1>2. ASSUME NEW p \in Pairs PROVE r.data[p].latest \in {"none", "zero", "known"}
  BY <1>2 DEF Loaded, RatesOK
<1>3. ASSUME NEW p \in Pairs
      PROVE  \/ r.cache[p] = generateCache(r.data[p], l.settings.fill, now)
             \/ /\ r.cache[p] = l.state.cache[p]
                /\ r.data[p].latest = l.state.data[p].latest
                /\ r.data[p].days = l.state.data[p].days
                /\ r.data[p].hours = l.state.data[p].hours
  BY <1>3, LoadedIs
<1> HIDE DEF r
<1>4. ASSUME NEW p \in Pairs, r.data[p].days \cup r.data[p].hours # {}
      PROVE  Shows(r.cache[p], r.data[p], fills)
  <2>1. CASE r.cache[p] = generateCache(r.data[p], l.settings.fill, now)
    <3> DEFINE fill == l.settings.fill
               data == r.data[p]
    <3>1. /\ fill \in fills /\ data.latest \in {"none", "zero", "known"}
          /\ data.days \cup data.hours # {}
      BY <1>2, <1>4
    <3>2. r.cache[p] = generateCache(data, fill, now)
      BY <2>1
    <3> HIDE DEF fill, data
    <3>3. Shows(r.cache[p], data, fills)
      BY <3>1, <3>2, CacheShows
    <3> QED
      BY <3>3 DEF data
  <2>2. CASE r.cache[p] # generateCache(r.data[p], l.settings.fill, now)
    BY <1>3, <1>4, <2>2 DEF RatesOK, Shows
  <2> QED
    BY <2>1, <2>2
<1>5. RatesOK(r, fills)
  BY <1>1, <1>2, <1>4 DEF RatesOK
<1> QED
  BY <1>5 DEF r

-----------------------------------------------------------------------------
\* The steps.

LEMMA LoadEndsInv ==
  ASSUME Inv, LoadEnds
  PROVE  Inv'
<1>1. PICK l \in loads : Success(l) \/ Failure(l)
  BY DEF LoadEnds
<1>2. UNCHANGED <<saved, bounds, done>>
  BY DEF LoadEnds
<1>3. PICK state, whole : /\ RatesOK(state, bounds.fills)
                          /\ Becomes([c EXCEPT !.state = state, !.pending = FALSE,
                                               !.fresh = FALSE, !.whole = whole],
                                     loads \ {l})
  <2>1. CASE Success(l)
    <3>1. PICK ok, errors, late, fetched, news :
            Becomes([c EXCEPT !.state = Loaded(l, ok, errors, late, fetched, news),
                              !.pending = FALSE, !.fresh = FALSE,
                              !.whole = IF ok = Asks(l) /\ l.tooSoon = {}
                                        THEN [settings |-> l.settings, now |-> l.now]
                                        ELSE Nothing],
                    loads \ {l})
      BY <2>1, Zenon DEF Success
    <3>2. RatesOK(Loaded(l, ok, errors, late, fetched, news), bounds.fills)
      BY LoadedRates DEF Inv, TypeOK
    <3> QED
      BY <3>1, <3>2, Zenon
  <2>2. CASE Failure(l)
    <3>1. [c EXCEPT !.pending = FALSE, !.fresh = FALSE]
            = [c EXCEPT !.state = c.state, !.pending = FALSE, !.fresh = FALSE, !.whole = c.whole]
      BY DEF Inv, TypeOK, ProviderOK
    <3>2. RatesOK(c.state, bounds.fills)
      BY DEF Inv, TypeOK
    <3>3. Becomes([c EXCEPT !.pending = FALSE, !.fresh = FALSE], loads \ {l})
      BY <2>2, Zenon DEF Failure
    <3> QED
      BY <3>1, <3>2, <3>3
  <2> QED
    BY <1>1, <2>1, <2>2
<1> DEFINE k == [c EXCEPT !.state = state, !.pending = FALSE, !.fresh = FALSE, !.whole = whole]
<1>4. /\ ProviderOK(k) /\ k.state = state /\ ~k.pending /\ k.trigger = c.trigger
      /\ k.begun = c.begun /\ k.settings.fill \in bounds.fills
  BY DEF Inv, TypeOK, ProviderOK
<1>5. Becomes(k, loads \ {l})
  BY <1>3
<1> HIDE DEF k
<1>6. done'.wipes = 0 => done.wipes = 0 /\ loads \ {l} = {}
  BY <1>2 DEF Inv, Pending
<1>7. DOMAIN done' = DOMAIN done /\ done'.wipes \in Nat
  BY <1>2 DEF Inv, TypeOK
<1> QED
  BY <1>2, <1>3, <1>4, <1>5, <1>6, <1>7, BecomesInv

LEMMA RunEffectsInv ==
  ASSUME Inv, RunEffects
  PROVE  Inv'
<1> DEFINE k == AfterEffects(c, c)
           again == k # c
<1>1. c' = [k EXCEPT !.due = again, !.fresh = FALSE]
  BY DEF RunEffects
<1>2. PICK new \in NewLoads : loads' = loads \cup new
  BY DEF RunEffects
<1>3. c.due /\ UNCHANGED <<saved, bounds, done>>
  BY DEF RunEffects
<1>4. /\ ProviderOK(k) /\ k.state = c.state /\ k.settings = c.settings
      /\ Begins(c) => ~k.trigger /\ k.pending /\ k.begun
      /\ ~Begins(c) => /\ k.pending = c.pending /\ k.begun = c.begun
                       /\ k.trigger = (c.trigger \/ (c.due /\ c.fresh))
  BY AfterEffectsIs DEF Inv, TypeOK
<1>5. ~again => k = c
  OBVIOUS
<1>6. again \in BOOLEAN
  OBVIOUS
<1> HIDE DEF k, again
<1>7. /\ ProviderOK(c)' /\ c'.state = c.state /\ ~c'.fresh /\ c'.due = again
      /\ c'.settings = c.settings
      /\ c'.pending = k.pending /\ c'.trigger = k.trigger /\ c'.begun = k.begun
  BY <1>1, <1>4, <1>6 DEF ProviderOK
<1>8. /\ Begins(c) => \E l : new = {l} /\ l.state = c.state /\ l.settings = c.settings
      /\ ~Begins(c) => new = {}
  BY NewLoadsAre
<1>9. TypeOK'
  <2>1. RatesOK(c.state, bounds.fills)'
    <3>1. RatesOK(c.state, bounds.fills)
      BY DEF Inv, TypeOK
    <3>2. c'.state = c.state /\ bounds' = bounds
      BY <1>3, <1>7
    <3> QED
      BY <3>1, <3>2 DEF RatesOK, Shows
  <2>2. RatesOK(saved, bounds.fills)'
    BY <1>3 DEF Inv, TypeOK, RatesOK, Shows
  <2>3. \A l \in loads' : RatesOK(l.state, bounds.fills) /\ l.settings.fill \in bounds.fills
    BY <1>2, <1>8 DEF Inv, TypeOK
  <2>4. (\A l \in loads : RatesOK(l.state, bounds.fills) /\ l.settings.fill \in bounds.fills)'
    BY <2>3, <1>3 DEF RatesOK, Shows
  <2> QED
    BY <1>3, <1>7, <2>1, <2>2, <2>4 DEF Inv, TypeOK
<1>10. Pending'
  <2>1. CASE Begins(c)
    <3>1. PICK l : new = {l}
      BY <2>1, <1>8
    <3>2. ~c.pending
      BY <2>1 DEF Begins
    <3>3. c'.pending /\ loads' # {}
      BY <2>1, <1>2, <1>4, <1>7, <3>1
    <3>4. done'.wipes = 0 => loads' = {l}
      BY <1>2, <1>3, <3>1, <3>2 DEF Inv, Pending
    <3> QED
      BY <3>3, <3>4 DEF Pending
  <2>2. CASE ~Begins(c)
    <3>1. loads' = loads /\ c'.pending = c.pending
      BY <2>2, <1>2, <1>4, <1>7, <1>8
    <3> QED
      BY <1>3, <3>1 DEF Inv, Pending
  <2> QED
    BY <2>1, <2>2
<1>11. Noted'
  <2>1. CASE Begins(c)
    BY <2>1, <1>4, <1>7 DEF Noted
  <2>2. CASE ~Begins(c)
    <3>1. ~c'.begun => c'.trigger
      BY <2>2, <1>3, <1>4, <1>7 DEF Inv, Noted
    <3>2. ASSUME ~c'.due PROVE ~(c'.trigger /\ ~c'.pending)
      <4>1. c'.trigger = c.trigger /\ c'.pending = c.pending
        BY <3>2, <1>5, <1>7
      <4> QED
        BY <4>1, <2>2, <1>3 DEF Begins
    <3> QED
      BY <3>1, <3>2 DEF Noted
  <2> QED
    BY <2>1, <2>2
<1> QED
  BY <1>9, <1>10, <1>11 DEF Inv

\* The application counts what it does.
LEMMA DoesCounts ==
  ASSUME Inv, NEW what \in {"changes", "wipes", "restarts"}, Does(what)
  PROVE  /\ DOMAIN done' = DOMAIN done /\ done'.wipes \in Nat
         /\ done'.wipes = IF what = "wipes" THEN done.wipes + 1 ELSE done.wipes
  BY DEF Inv, TypeOK, Does

LEMMA PollInv ==
  ASSUME Inv, Poll
  PROVE  Inv'
<1> DEFINE k == [c EXCEPT !.trigger = TRUE]
<1>1. Event(k) /\ UNCHANGED <<saved, bounds, done>>
  BY DEF Poll
<1>2. /\ ProviderOK(k) /\ k.state = c.state /\ k.trigger /\ k.begun = c.begun
      /\ k.pending = c.pending /\ k.settings.fill \in bounds.fills
  BY DEF Inv, TypeOK, ProviderOK
<1> HIDE DEF k
<1>3. RatesOK(k.state, bounds.fills)
  BY <1>2 DEF Inv, TypeOK
<1> QED
  BY <1>1, <1>2, <1>3, EventInv

LEMMA ChangeSettingsInv ==
  ASSUME Inv, ChangeSettings
  PROVE  Inv'
<1>1. PICK s \in SomeSettings : Event([c EXCEPT !.settings = s])
  BY DEF ChangeSettings
<1> DEFINE k == [c EXCEPT !.settings = s]
<1>2. /\ ProviderOK(k) /\ k.state = c.state /\ k.trigger = c.trigger /\ k.begun = c.begun
      /\ k.pending = c.pending /\ k.settings.fill \in bounds.fills
  BY DEF Inv, TypeOK, ProviderOK, SomeSettings
<1>3. Event(k)
  BY <1>1
<1> HIDE DEF k
<1>4. RatesOK(k.state, bounds.fills)
  BY <1>2 DEF Inv, TypeOK
<1>5. DOMAIN done' = DOMAIN done /\ done'.wipes = done.wipes /\ UNCHANGED <<saved, bounds>>
  BY DoesCounts DEF ChangeSettings
<1> QED
  BY <1>2, <1>3, <1>4, <1>5, EventInv

LEMMA DebounceEndsInv ==
  ASSUME Inv, DebounceEnds
  PROVE  Inv'
<1> DEFINE k == [c EXCEPT !.debounced = c.settings, !.fresh = TRUE, !.begun = FALSE]
<1>1. Becomes(k, loads) /\ UNCHANGED <<saved, bounds, done>>
  BY DEF DebounceEnds
<1>2. /\ ProviderOK(k) /\ k.state = c.state /\ k.trigger = c.trigger /\ k.fresh
      /\ k.pending = c.pending /\ k.settings.fill \in bounds.fills
  BY DEF Inv, TypeOK, ProviderOK
<1> HIDE DEF k
<1>3. RatesOK(k.state, bounds.fills)
  BY <1>2 DEF Inv, TypeOK
<1>4. k.pending => loads # {}
  BY <1>2 DEF Inv, Pending
<1>5. done'.wipes = 0 => done.wipes = 0 /\ (loads # {} => c.pending /\ k.pending)
  BY <1>1, <1>2 DEF Inv, Pending
<1>6. DOMAIN done' = DOMAIN done /\ done'.wipes \in Nat
  BY <1>1 DEF Inv, TypeOK
<1> QED
  BY <1>1, <1>2, <1>3, <1>4, <1>5, <1>6, BecomesInv

LEMMA WipeInv ==
  ASSUME Inv, Wipe
  PROVE  Inv'
<1> DEFINE k == [[c EXCEPT !.state = initialState, !.pending = FALSE, !.whole = Nothing]
                   EXCEPT !.fresh = FALSE]
<1>1. Becomes(k, loads) /\ UNCHANGED <<saved, bounds>>
  BY DEF Wipe, Event
<1>2. /\ ProviderOK(k) /\ k.state = initialState /\ k.trigger = c.trigger
      /\ k.begun = c.begun /\ ~k.pending /\ k.settings.fill \in bounds.fills
  BY DEF Inv, TypeOK, ProviderOK
<1> HIDE DEF k
<1>3. RatesOK(k.state, bounds.fills)
  BY <1>2, InitialRates
<1>4. DOMAIN done' = DOMAIN done /\ done'.wipes \in Nat /\ done'.wipes = done.wipes + 1
  BY DoesCounts DEF Wipe
<1>5. done'.wipes # 0
  BY <1>4 DEF Inv, TypeOK
<1> QED
  BY <1>1, <1>2, <1>3, <1>4, <1>5, BecomesInv

LEMMA ImportInv ==
  ASSUME Inv, Import
  PROVE  Inv'
<1> DEFINE state == importCountervalues(saved, c.settings, now)
           k == [c EXCEPT !.state = state, !.whole = Nothing]
<1>1. Event(k) /\ UNCHANGED <<saved, bounds, done>>
  BY DEF Import
<1>2. RatesOK(state, bounds.fills)
  BY ImportedRates DEF Inv, TypeOK
<1> HIDE DEF state
<1>3. /\ ProviderOK(k) /\ k.state = state /\ k.trigger = c.trigger /\ k.begun = c.begun
      /\ k.pending = c.pending /\ k.settings.fill \in bounds.fills
  BY DEF Inv, TypeOK, ProviderOK
<1> HIDE DEF k
<1> QED
  BY <1>1, <1>2, <1>3, EventInv

\* A provider that is mounted has no load, and its effects are due.
LEMMA MountOK ==
  ASSUME NEW s
  PROVE  LET k == Mount(s)
         IN  /\ ProviderOK(k) /\ k.state = initialState /\ k.settings = s
             /\ ~k.pending /\ ~k.trigger /\ k.fresh /\ k.due
  BY DEF Mount, ProviderOK

LEMMA RestartInv ==
  ASSUME Inv, Restart
  PROVE  Inv'
<1>1. c' = Mount(c.settings) /\ loads' = {} /\ UNCHANGED <<saved, bounds>>
  BY DEF Restart
<1>2. DOMAIN done' = DOMAIN done /\ done'.wipes \in Nat
  BY DoesCounts DEF Restart
<1>3. /\ ProviderOK(c)' /\ c'.state = initialState /\ ~c'.pending /\ c'.fresh /\ c'.due
      /\ c'.settings = c.settings
  BY <1>1, MountOK DEF ProviderOK
<1>4. TypeOK'
  <2>1. RatesOK(c.state, bounds.fills)'
    BY <1>1, <1>3, InitialRates DEF RatesOK, Shows
  <2>2. RatesOK(saved, bounds.fills)'
    BY <1>1 DEF Inv, TypeOK, RatesOK, Shows
  <2> QED
    BY <1>1, <1>2, <1>3, <2>1, <2>2 DEF Inv, TypeOK
<1>5. Pending' /\ Noted'
  BY <1>1, <1>3 DEF Pending, Noted
<1> QED
  BY <1>4, <1>5 DEF Inv

\* What leaves the provider and its loads alone.
LEMMA OtherInv ==
  ASSUME Inv, UNCHANGED <<c, loads, bounds, done>>, saved' = saved \/ saved' = c.state
  PROVE  Inv'
<1>1. RatesOK(saved, bounds.fills)'
  <2>1. RatesOK(c.state, bounds.fills) /\ RatesOK(saved, bounds.fills)
    BY DEF Inv, TypeOK
  <2>2. CASE saved' = saved
    BY <2>1, <2>2 DEF RatesOK, Shows
  <2>3. CASE saved' = c.state
    BY <2>1, <2>3 DEF RatesOK, Shows
  <2> QED
    BY <2>2, <2>3
<1>2. RatesOK(c.state, bounds.fills)' /\ ProviderOK(c)'
  BY DEF Inv, TypeOK, RatesOK, Shows, ProviderOK
<1>3. (\A l \in loads : RatesOK(l.state, bounds.fills))'
  BY DEF Inv, TypeOK, RatesOK, Shows
<1> QED
  BY <1>1, <1>2, <1>3 DEF Inv, TypeOK, Pending, Noted

LEMMA InitInv == Init => Inv
<1> SUFFICES ASSUME Init PROVE Inv
  OBVIOUS
<1>1. PICK s \in SomeSettings : c = Mount(s)
  BY DEF Init
<1>2. ProviderOK(c) /\ c.state = initialState /\ ~c.pending /\ c.fresh /\ c.due
      /\ c.settings.fill \in bounds.fills
  BY <1>1, MountOK DEF SomeSettings
<1>3. loads = {} /\ saved = initialState
  BY DEF Init
<1>4. DOMAIN done = {"changes", "wipes", "restarts"} /\ done.wipes \in Nat
  BY DEF Init
<1>5. bounds.fills \subseteq BOOLEAN
  BY CountervaluesAssumption DEF Init
<1> QED
  BY <1>2, <1>3, <1>4, <1>5, InitialRates DEF Inv, TypeOK, Pending, Noted

LEMMA StepInv == Inv /\ [Next]_vars => Inv'
<1> SUFFICES ASSUME Inv, [Next]_vars PROVE Inv'
  OBVIOUS
<1>1. CASE UNCHANGED vars \/ Tick \/ Save
  BY <1>1, OtherInv DEF vars, Tick, Save
<1> QED
  BY <1>1, LoadEndsInv, RunEffectsInv, PollInv, ChangeSettingsInv, DebounceEndsInv, WipeInv,
     RestartInv, ImportInv DEF Next

LEMMA Invariance == Spec => []Inv
  BY InitInv, StepInv, PTL DEF Spec

\* Loads overlap only after a wipe, and the provider never waits for a load that is over:
\* for any pairs, any number of polls, changes and restarts, and answers in any order.
THEOREM LoadsDoNotOverlap == Spec => []OneLoad
<1>1. Inv => OneLoad
  <2> SUFFICES ASSUME Inv PROVE OneLoad
    OBVIOUS
  <2>1. ASSUME done.wipes = 0 PROVE Cardinality(loads) <= 1
    <3>1. CASE loads = {}
      BY <3>1, FS_EmptySet
    <3>2. CASE loads # {}
      <4>1. PICK l : loads = {l}
        BY <2>1, <3>2 DEF Inv, Pending
      <4> QED
        BY <4>1, FS_Singleton
    <3> QED
      BY <3>1, <3>2
  <2> QED
    BY <2>1 DEF OneLoad, Inv, Pending
<1> QED
  BY <1>1, Invariance, PTL

\* Once nothing runs and nothing is due, a load has begun since the settings changed,
\* whatever was loaded, wiped, imported or restarted meanwhile.
THEOREM ChangesAreServed == Spec => []SettingsServed
<1>1. Inv => SettingsServed
  BY DEF Inv, Pending, Noted, SettingsServed
<1> QED
  BY <1>1, Invariance, PTL

\* A pair with a history shows the latest rate that is stored, or fills a missing one where
\* its cache was made with gaps filled, as all are if the user never chose otherwise:
\* whichever requests failed and whichever load, import or wipe made the state.
THEOREM RatesAreShown == Spec => []RateShown
<1>1. Inv => RateShown
  BY DEF Inv, TypeOK, RatesOK, Shows, RateShown
<1> QED
  BY <1>1, Invariance, PTL

-----------------------------------------------------------------------------
\* Numbers and days.

\* A nonempty set of numbers has a least one.
LEMMA LeastNat ==
  ASSUME NEW T, T \subseteq Nat, T # {}
  PROVE  Min(T) \in T /\ \A y \in T : Min(T) <= y
<1> DEFINE R == OpToRel(<, Nat)
<1>1. IsWellFoundedOn(R, Nat)
  BY NatLessThanWellFounded
<1>2. \A x, y \in Nat : <<x, y>> \in R <=> x < y
  BY DEF OpToRel
<1> HIDE DEF R
<1>3. PICK x \in T : \A y \in T : ~ (<<y, x>> \in R)
  BY <1>1, WFMin
<1>4. ASSUME NEW y \in T PROVE x <= y
  <2>1. x \in Nat /\ y \in Nat /\ ~(y < x)
    BY <1>2, <1>3
  <2> QED
    BY <2>1
<1> QED
  BY <1>3, <1>4 DEF Min

LEMMA GreatestNat ==
  ASSUME NEW t \in Nat, NEW T, T \subseteq 0..t, T # {}
  PROVE  Max(T) \in T /\ \A y \in T : y <= Max(T)
<1> DEFINE S == {t - y : y \in T}
<1>1. S \subseteq Nat /\ S # {}
  <2>1. ASSUME NEW y \in T PROVE t - y \in Nat
    OBVIOUS
  <2> QED
    BY <2>1
<1>2. Min(S) \in S /\ \A y \in S : Min(S) <= y
  <2> HIDE DEF S
  <2> QED
    BY <1>1, LeastNat
<1>3. PICK x \in T : Min(S) = t - x
  BY <1>2
<1>4. ASSUME NEW y \in T PROVE y <= x
  <2>1. t - y \in S
    OBVIOUS
  <2>2. Min(S) <= t - y
    BY <1>2, <2>1
  <2> HIDE DEF S
  <2> QED
    BY <1>3, <2>2
<1> QED
  BY <1>4 DEF Max

-----------------------------------------------------------------------------
\* Days.

LEMMA Hours == HOURS \in Nat \ {0} /\ LIMIT \in Nat
  BY CountervaluesAssumption

LEMMA Quotient ==
  ASSUME NEW h \in Nat \ {0}, NEW a \in Nat
  PROVE  a \div h \in Nat /\ (a \div h) * h \in Nat /\ (a \div h) * h <= a /\ a < (a \div h) * h + h
<1>1. a \div h \in Nat
  OBVIOUS
<1>2. (a \div h) * h <= a
  OBVIOUS
<1>3. a < (a \div h) * h + h
  OBVIOUS
<1>4. (a \div h) * h \in Nat
  BY <1>1
<1> QED
  BY <1>1, <1>2, <1>3, <1>4

LEMMA Multiple ==
  ASSUME NEW h \in Nat \ {0}, NEW q \in Nat, NEW r \in 0..(h - 1)
  PROVE  (q * h + r) \div h = q
  OBVIOUS

LEMMA Multiples ==
  ASSUME NEW h \in Nat \ {0}, NEW q \in Nat, NEW r \in Nat, q < r
  PROVE  q * h + h <= r * h
  OBVIOUS

LEMMA Remainder ==
  ASSUME NEW h \in Nat \ {0}, NEW q \in Nat
  PROVE  (q * h) % h = 0
  OBVIOUS

LEMMA Difference ==
  ASSUME NEW h \in Nat \ {0}, NEW q \in Nat, NEW r \in Nat
  PROVE  q * h - r * h = (q - r) * h
  OBVIOUS

LEMMA DayIs ==
  ASSUME NEW a \in Nat
  PROVE  Day(a) \in Nat /\ Day(a) <= a /\ a < Day(a) + HOURS
  BY Hours, Quotient DEF Day

\* Hours of one day, and of two.
LEMMA DayOf ==
  ASSUME NEW a \in Nat, NEW b \in Nat, Day(a) <= b, b < Day(a) + HOURS
  PROVE  Day(b) = Day(a)
<1> DEFINE q == a \div HOURS
           r == b - q * HOURS
<1>1. q \in Nat /\ q * HOURS = Day(a) /\ q * HOURS \in Nat
  BY Hours, Quotient DEF Day
<1> HIDE DEF q
<1>2. r \in 0..(HOURS - 1) /\ b = q * HOURS + r
  BY <1>1, Hours
<1> HIDE DEF r
<1>3. b \div HOURS = q
  BY <1>1, <1>2, Hours, Multiple
<1> QED
  BY <1>1, <1>3 DEF Day

LEMMA DaysApart ==
  ASSUME NEW a \in Nat, NEW b \in Nat
  PROVE  /\ a <= b => Day(a) <= Day(b)
         /\ Day(a) < Day(b) => Day(a) + HOURS <= Day(b)
<1> DEFINE q == a \div HOURS
           r == b \div HOURS
<1>1. q \in Nat /\ q * HOURS = Day(a) /\ q * HOURS \in Nat
  BY Hours, Quotient DEF Day
<1>2. r \in Nat /\ r * HOURS = Day(b) /\ r * HOURS \in Nat
  BY Hours, Quotient DEF Day
<1>3. Day(a) <= a /\ a < Day(a) + HOURS /\ Day(b) <= b /\ b < Day(b) + HOURS
  BY DayIs
<1> HIDE DEF q, r
<1>4. CASE q < r
  <2>1. q * HOURS + HOURS <= r * HOURS
    BY <1>1, <1>2, <1>4, Hours, Multiples
  <2> QED
    BY <1>1, <1>2, <2>1, Hours
<1>5. CASE q = r
  BY <1>1, <1>2, <1>5, Hours
<1>6. CASE r < q
  <2>1. r * HOURS + HOURS <= q * HOURS
    BY <1>1, <1>2, <1>6, Hours, Multiples
  <2> QED
    BY <1>1, <1>2, <1>3, <2>1, Hours
<1> QED
  BY <1>1, <1>2, <1>4, <1>5, <1>6

\* The hour of the day d that is a number of days after the hour o.
LEMMA DaysAfter ==
  ASSUME NEW o \in Nat, NEW d \in Nat, d = Day(d), Day(o) <= d
  PROVE  LET k == o + (d - Day(o))
         IN  k \in Nat /\ o <= k /\ k < d + HOURS /\ Day(k) = d /\ (k - o) % HOURS = 0
<1> DEFINE k == o + (d - Day(o))
<1>1. Day(o) \in Nat /\ Day(o) <= o /\ o < Day(o) + HOURS
  BY DayIs
<1>2. k \in Nat /\ o <= k /\ d <= k /\ k < d + HOURS /\ k - o = d - Day(o)
  BY <1>1, Hours
<1>3. Day(k) = d
  <2> HIDE DEF k
  <2> QED
    BY <1>2, DayOf
<1>4. (d - Day(o)) % HOURS = 0
  <2> DEFINE q == d \div HOURS
             r == o \div HOURS
  <2>1. q \in Nat /\ q * HOURS = d /\ r \in Nat /\ r * HOURS = Day(o)
    BY Hours, Quotient DEF Day
  <2> HIDE DEF q, r
  <2>2. ~(q < r)
    <3> SUFFICES ASSUME q < r PROVE FALSE
      OBVIOUS
    <3>1. q * HOURS + HOURS <= r * HOURS
      BY <2>1, Hours, Multiples
    <3> QED
      BY <2>1, <3>1, <1>1, Hours
  <2>3. q - r \in Nat
    BY <2>1, <2>2
  <2>4. d - Day(o) = (q - r) * HOURS
    BY <2>1, Hours, Difference
  <2> QED
    BY <2>3, <2>4, Hours, Remainder
<1> QED
  BY <1>2, <1>3, <1>4

-----------------------------------------------------------------------------
\* The histories.

\* From one hour to another no day is missing.
NoGap(from, to, days) == {d \in from..to : d = Day(d)} \subseteq days

\* The rates of a pair at the time t: they are of hours that have come, from any of them to
\* the stable date no day is missing, and the oldest date asked for is not before all of them.
HistoryOK(data, oldest, stable, t) ==
  LET dates == data.days \cup data.hours
  IN  /\ dates \subseteq 0..t
      /\ IF dates = {} THEN stable = NoDate ELSE stable \in 0..t
      /\ \A x \in dates : NoGap(Day(x), Day(stable) - HOURS, data.days)
      /\ IF oldest = NoDate THEN dates = {}
         ELSE oldest \in Nat /\ \E x \in dates : x <= oldest

HistoriesOK(s, t) ==
  \A p \in Pairs : HistoryOK(s.data[p], s.status[p].oldest, s.cache[p].stable, t)

SettingsOK(settings, t) == \A p \in Pairs : settings.starts[p] \in 0..t \cup {NoDate}

\* A load, with what it began with.
LoadOK(l) ==
  l.now \in 0..now /\ SettingsOK(l.settings, l.now) /\ HistoriesOK(l.state, l.now)

\* No day is missing that the load `whole` could get.
Covered(state, whole) ==
  \A p \in Tracked(whole.settings) :
    NoGap(Day(whole.settings.starts[p]), Day(whole.now) - HOURS, state.data[p].days)

\* The inductive invariant: all that is kept, and all that loads began with, is in order.
Histories ==
  /\ now \in Nat
  /\ SettingsOK(c.settings, now)
  /\ HistoriesOK(c.state, now) /\ HistoriesOK(saved, now)
  /\ \A l \in loads : LoadOK(l)
  /\ Covered(c.state, c.whole)

-----------------------------------------------------------------------------

\* What is right at a time stays right.
LEMMA HistoryStays ==
  ASSUME NEW s \in Nat, NEW t \in Nat, s <= t, NEW state, HistoriesOK(state, s)
  PROVE  HistoriesOK(state, t)
<1> SUFFICES ASSUME NEW p \in Pairs
             PROVE  HistoryOK(state.data[p], state.status[p].oldest, state.cache[p].stable, t)
  BY DEF HistoriesOK
<1>1. HistoryOK(state.data[p], state.status[p].oldest, state.cache[p].stable, s)
  BY DEF HistoriesOK
<1>2. \A x : x \in 0..s => x \in 0..t
  OBVIOUS
<1> QED
  BY <1>1, <1>2 DEF HistoryOK

LEMMA NoDayLost ==
  ASSUME NEW from, NEW to, NEW days, NEW more, NoGap(from, to, days), days \subseteq more
  PROVE  NoGap(from, to, more)
  BY DEF NoGap

\* Up to the stable date of the cache no day is missing, and it has come.
LEMMA StableCache ==
  ASSUME NEW t \in Nat, NEW data, NEW fill, data.days \cup data.hours \subseteq 0..t,
         data.days \cup data.hours # {}
  PROVE  LET stable == generateCache(data, fill, t).stable
         IN  /\ stable \in 0..t
             /\ \A x \in data.days \cup data.hours :
                  NoGap(Day(x), Day(stable) - HOURS, data.days)
<1> DEFINE dates == data.days \cup data.hours
           o == Min(dates)
           holes == {k \in o..t : (k - o) % HOURS = 0 /\ Day(k) \notin data.days}
           stable == IF holes = {} THEN Max(dates) ELSE Min(holes)
<1>1. generateCache(data, fill, t).stable = stable
  BY DEF generateCache
<1>2. o \in dates /\ (\A x \in dates : o <= x) /\ dates \subseteq Nat
  <2>1. dates \subseteq Nat /\ dates # {}
    OBVIOUS
  <2> HIDE DEF dates
  <2> QED
    BY <2>1, LeastNat
<1>3. Max(dates) \in 0..t
  <2> HIDE DEF dates
  <2> QED
    BY GreatestNat DEF dates
<1>4. holes # {} => Min(holes) \in 0..t /\ \A k \in holes : Min(holes) <= k
  <2>1. o \in Nat
    BY <1>2
  <2>2. holes \subseteq 0..t
    BY <2>1
  <2>3. holes \subseteq Nat
    BY <2>2
  <2> HIDE DEF holes
  <2> QED
    BY <2>2, <2>3, LeastNat
<1>5. stable \in 0..t
  BY <1>3, <1>4
<1>6. \A k \in holes : stable <= k
  BY <1>4
<1>7. ASSUME NEW x \in dates, NEW d \in Day(x)..(Day(stable) - HOURS), d = Day(d)
      PROVE  d \in data.days
  <2> HIDE DEF stable, holes
  <2>1. x \in Nat /\ o \in Nat /\ o <= x /\ stable \in Nat /\ stable <= t
    BY <1>2, <1>5
  <2>2. Day(o) <= Day(x) /\ Day(o) \in Nat /\ Day(x) \in Nat /\ Day(stable) \in Nat
        /\ Day(stable) <= stable
    BY <2>1, DaysApart, DayIs
  <2>3. d \in Nat /\ Day(o) <= d /\ d + HOURS <= stable
    BY <2>1, <2>2, Hours
  <2> DEFINE k == o + (d - Day(o))
  <2>4. k \in Nat /\ o <= k /\ k < d + HOURS /\ Day(k) = d /\ (k - o) % HOURS = 0
    BY <1>7, <2>1, <2>3, DaysAfter
  <2> HIDE DEF k
  <2>5. k \in o..t /\ k < stable
    BY <2>1, <2>3, <2>4, Hours
  <2>6. k \notin holes
    BY <1>6, <2>1, <2>4, <2>5
  <2> QED
    BY <2>4, <2>5, <2>6 DEF holes
<1> QED
  BY <1>1, <1>5, <1>7 DEF NoGap

\* A pair whose cache is made anew.
LEMMA CacheAnew ==
  ASSUME NEW t \in Nat, NEW data, NEW fill, NEW oldest, data.days \cup data.hours \subseteq 0..t,
         IF oldest = NoDate THEN data.days \cup data.hours = {}
         ELSE oldest \in Nat /\ \E x \in data.days \cup data.hours : x <= oldest
  PROVE  HistoryOK(data, oldest, generateCache(data, fill, t).stable, t)
<1>1. CASE data.days \cup data.hours = {}
  <2>1. generateCache(data, fill, t).stable = NoDate
    BY <1>1 DEF generateCache
  <2> QED
    BY <1>1, <2>1 DEF HistoryOK
<1>2. CASE data.days \cup data.hours # {}
  <2> DEFINE stable == generateCache(data, fill, t).stable
  <2>1. stable \in 0..t /\ \A x \in data.days \cup data.hours :
                  NoGap(Day(x), Day(stable) - HOURS, data.days)
    BY <1>2, StableCache
  <2> HIDE DEF stable
  <2>2. HistoryOK(data, oldest, stable, t)
    BY <1>2, <2>1 DEF HistoryOK
  <2> QED
    BY <2>2 DEF stable
<1> QED
  BY <1>1, <1>2

LEMMA InitialHistories ==
  ASSUME NEW t \in Nat
  PROVE  HistoriesOK(initialState, t)
  BY DEF HistoriesOK, HistoryOK, initialState, NoData, NoStatus, NoCache

LEMMA ImportedHistories ==
  ASSUME NEW s, NEW t \in Nat, NEW fills, RatesOK(s, fills), NEW settings,
         HistoriesOK(s, t)
  PROVE  HistoriesOK(importCountervalues(s, settings, t), t)
<1> DEFINE r == importCountervalues(s, settings, t)
<1>1. r.data = s.data /\ r.status = s.status
  BY DEF importCountervalues, RatesOK
<1>2. \A p \in Pairs : r.cache[p] = generateCache(s.data[p], settings.fill, t)
  BY DEF importCountervalues, RatesOK
<1> HIDE DEF r
<1>3. ASSUME NEW p \in Pairs
      PROVE  HistoryOK(r.data[p], r.status[p].oldest, r.cache[p].stable, t)
  <2>1. HistoryOK(s.data[p], s.status[p].oldest, s.cache[p].stable, t)
    BY DEF HistoriesOK
  <2>2. HistoryOK(s.data[p], s.status[p].oldest, generateCache(s.data[p], settings.fill, t).stable, t)
    BY <2>1, CacheAnew DEF HistoryOK
  <2> QED
    BY <1>1, <1>2, <2>2
<1>4. HistoriesOK(r, t)
  BY <1>3 DEF HistoriesOK
<1> QED
  BY <1>4 DEF r

\* Before the time that is asked from no day is missing.
LEMMA SinceIs ==
  ASSUME NEW t \in Nat, NEW s, NEW p \in Pairs, HistoriesOK(s, t), NEW start \in 0..t
  PROVE  /\ Since(s, p, start) \in start..t
         /\ NoGap(Day(start), Day(Since(s, p, start)) - HOURS, s.data[p].days)
<1> DEFINE dates == s.data[p].days \cup s.data[p].hours
           stable == s.cache[p].stable
           oldest == s.status[p].oldest
<1>1. HistoryOK(s.data[p], oldest, stable, t)
  BY DEF HistoriesOK
<1>2. stable \in 0..t \cup {NoDate}
  BY <1>1 DEF HistoryOK
<1>3. ASSUME NEW a \in Nat PROVE NoGap(Day(a), Day(a) - HOURS, s.data[p].days)
  BY DayIs, Hours DEF NoGap
<1>4. CASE oldest # NoDate /\ start < oldest
  BY <1>3, <1>4 DEF Since
<1>5. CASE ~(oldest # NoDate /\ start < oldest)
  <2>1. Since(s, p, start) = Later(start, stable)
    BY <1>5 DEF Since
  <2>2. CASE start > stable
    BY <1>3, <2>1, <2>2 DEF Later
  <2>3. CASE ~(start > stable)
    <3>1. Since(s, p, start) = stable /\ stable \in start..t
      BY <1>2, <2>1, <2>3 DEF Later, NoDate
    <3>2. dates # {}
      BY <1>1, <3>1 DEF HistoryOK, NoDate
    <3>3. PICK x \in dates : x <= start
      <4>1. oldest # NoDate
        BY <1>1, <3>2 DEF HistoryOK
      <4>2. PICK x \in dates : x <= oldest /\ oldest \in Nat
        BY <1>1, <4>1 DEF HistoryOK
      <4>3. x \in Nat
        BY <1>1 DEF HistoryOK
      <4> QED
        BY <1>5, <4>1, <4>2, <4>3
    <3>4. x \in Nat /\ Day(x) <= Day(start) /\ Day(x) \in Nat /\ Day(start) \in Nat
      <4>1. x \in Nat
        BY <1>1 DEF HistoryOK
      <4> QED
        BY <4>1, <3>3, DaysApart, DayIs
    <3>5. NoGap(Day(x), Day(stable) - HOURS, s.data[p].days)
      BY <1>1 DEF HistoryOK
    <3>6. Day(stable) \in Nat
      BY <3>1, DayIs
    <3> HIDE DEF stable
    <3>7. NoGap(Day(start), Day(stable) - HOURS, s.data[p].days)
      BY <3>4, <3>5, <3>6, Hours DEF NoGap
    <3> QED
      BY <3>1, <3>7
  <2> QED
    BY <2>2, <2>3
<1> QED
  BY <1>4, <1>5

\* What a load asks for, of a pair with a history.
LEMMA AsksAre ==
  ASSUME now \in Nat, NEW l, LoadOK(l), NEW r \in Asks(l)
  PROVE  /\ r.pair \in Pairs /\ r.since \in 0..l.now /\ r.by \in {"day", "hour"}
         /\ r.by = "day" => Day(r.since) # Day(l.now)
<1> DEFINE Daily(p) == Since(l.state, p, l.settings.starts[p])
           From(p) == Later(l.settings.starts[p], l.now - LIMIT)
           Hourly(p) == Since(l.state, p, From(p))
<1>1. ASSUME NEW p \in Tracked(l.settings)
      PROVE  p \in Pairs /\ Daily(p) \in 0..l.now /\ Hourly(p) \in 0..l.now
  <2>1. p \in Pairs /\ l.now \in Nat /\ l.settings.starts[p] \in 0..l.now
    BY DEF Tracked, LoadOK, SettingsOK
  <2>2. From(p) \in 0..l.now
    BY <2>1, Hours DEF Later
  <2>3. HistoriesOK(l.state, l.now)
    BY DEF LoadOK
  <2> HIDE DEF From
  <2>4. Daily(p) \in l.settings.starts[p]..l.now /\ Hourly(p) \in From(p)..l.now
    BY <2>1, <2>2, <2>3, SinceIs
  <2> HIDE DEF Daily, Hourly
  <2> QED
    BY <2>1, <2>2, <2>4
<1>2. \/ \E p \in Tracked(l.settings) : /\ r = [pair |-> p, by |-> "day", since |-> Daily(p)]
                                        /\ Day(Daily(p)) # Day(l.now)
      \/ \E p \in Tracked(l.settings) : r = [pair |-> p, by |-> "hour", since |-> Hourly(p)]
  BY DEF Asks
<1> HIDE DEF Daily, Hourly
<1> QED
  BY <1>1, <1>2

\* What the server answers, and that it has the day or the hour that is asked from.
LEMMA RatesAre ==
  ASSUME now \in Nat, NEW l, LoadOK(l), NEW r \in Asks(l)
  PROVE  /\ Rates(r) \subseteq 0..now
         /\ \E x \in Rates(r) : x <= r.since
         /\ r.by = "day" => NoGap(Day(r.since), Day(l.now) - HOURS, Rates(r))
<1>1. /\ r.since \in 0..l.now /\ r.by \in {"day", "hour"} /\ l.now \in 0..now
      /\ r.by = "day" => Day(r.since) # Day(l.now)
  BY AsksAre DEF LoadOK
<1>2. CASE r.by = "hour"
  <2>1. Rates(r) = r.since..now
    BY <1>2 DEF Rates
  <2> QED
    BY <1>1, <1>2, <2>1
<1>3. CASE r.by = "day"
  <2> DEFINE d == Day(r.since)
             to == IF bounds.today THEN now ELSE now - HOURS
  <2>1. Rates(r) = {k \in d..to : k = Day(k)}
    BY <1>3 DEF Rates
  <2>2. to \in Int /\ now - HOURS <= to /\ to <= now
    BY Hours
  <2>3. /\ d \in Nat /\ d <= r.since /\ Day(d) = d
        /\ Day(l.now) \in Nat /\ Day(l.now) <= l.now /\ d + HOURS <= Day(l.now)
    <3>1. d \in Nat /\ d <= r.since /\ r.since < d + HOURS
      BY <1>1, DayIs
    <3>2. Day(d) = d
      BY <1>1, <3>1, Hours, DayOf
    <3>3. Day(l.now) \in Nat /\ Day(l.now) <= l.now
      BY <1>1, DayIs
    <3>4. d <= Day(l.now) /\ d # Day(l.now)
      BY <1>1, <1>3, DaysApart
    <3>5. d + HOURS <= Day(l.now)
      BY <1>1, <3>1, <3>3, <3>4, DaysApart
    <3> QED
      BY <3>1, <3>2, <3>3, <3>5
  <2> HIDE DEF d, to
  <2>4. d \in Rates(r)
    BY <1>1, <2>1, <2>2, <2>3, Hours
  <2>5. Rates(r) \subseteq 0..now
    BY <2>1, <2>2, <2>3
  <2>6. NoGap(d, Day(l.now) - HOURS, Rates(r))
    <3>1. ASSUME NEW k \in d..(Day(l.now) - HOURS) PROVE k \in d..to
      BY <1>1, <2>2, <2>3, Hours
    <3> QED
      BY <2>1, <3>1 DEF NoGap
  <2> QED
    BY <2>3, <2>4, <2>5, <2>6 DEF d
<1> QED
  BY <1>1, <1>2, <1>3

\* The result of a load.
LEMMA LoadedHistories ==
  ASSUME now \in Nat, NEW l, LoadOK(l), NEW ok \in SUBSET Asks(l),
         NEW errors, NEW late, NEW fetched, NEW news
  PROVE  LET r == Loaded(l, ok, errors, late, fetched, news)
         IN  /\ HistoriesOK(r, now)
             /\ ok = Asks(l) /\ l.tooSoon = {} =>
                  Covered(r, [settings |-> l.settings, now |-> l.now])
<1> DEFINE r == Loaded(l, ok, errors, late, fetched, news)
           Of(p) == {a \in ok : a.pair = p}
           By(p, by) == UNION {Rates(a) : a \in {a \in Of(p) : a.by = by}}
           Oldest(p) == {a.since : a \in Of(p)} \cup ({l.state.status[p].oldest} \ {NoDate})
<1>1. ASSUME NEW p \in Pairs
      PROVE  /\ r.data[p].days = l.state.data[p].days \cup By(p, "day")
             /\ r.data[p].hours = l.state.data[p].hours \cup By(p, "hour")
             /\ r.status[p].oldest = IF Oldest(p) = {} THEN NoDate ELSE Min(Oldest(p))
  BY DEF Loaded
<1> HIDE DEF r
<1>2. l.now \in Nat /\ l.now <= now /\ SettingsOK(l.settings, l.now)
      /\ HistoriesOK(l.state, l.now) /\ HistoriesOK(l.state, now)
  BY HistoryStays DEF LoadOK
<1>3. ASSUME NEW p \in Pairs
      PROVE  HistoryOK(r.data[p], r.status[p].oldest, r.cache[p].stable, now)
  <2> DEFINE old == l.state.data[p].days \cup l.state.data[p].hours
             dates == r.data[p].days \cup r.data[p].hours
             before == l.state.status[p].oldest
             oldest == r.status[p].oldest
  <2>1. HistoryOK(l.state.data[p], before, l.state.cache[p].stable, now)
    BY <1>2 DEF HistoriesOK
  <2>2. ASSUME NEW a \in Of(p)
        PROVE  /\ a.since \in Nat
               /\ Rates(a) \subseteq 0..now /\ Rates(a) \subseteq dates
               /\ \E x \in Rates(a) : x <= a.since
    <3>1. a \in Asks(l) /\ a.since \in Nat /\ a.by \in {"day", "hour"}
      BY <1>2, AsksAre
    <3>2. Rates(a) \subseteq 0..now /\ \E x \in Rates(a) : x <= a.since
      BY <3>1, RatesAre
    <3>3. Rates(a) \subseteq By(p, "day") \/ Rates(a) \subseteq By(p, "hour")
      BY <3>1
    <3> HIDE DEF By, Of
    <3> QED
      BY <1>1, <3>1, <3>2, <3>3
  <2>3. dates \subseteq 0..now
    <3>1. ASSUME NEW x \in dates PROVE x \in old \/ \E a \in Of(p) : x \in Rates(a)
      <4>1. \A by : x \in By(p, by) => \E a \in Of(p) : x \in Rates(a)
        OBVIOUS
      <4> HIDE DEF By, Of
      <4> QED
        BY <1>1, <3>1, <4>1
    <3> QED
      BY <2>1, <2>2, <3>1 DEF HistoryOK
  <2>4. old \subseteq dates
    BY <1>1
  <2>5. Oldest(p) \subseteq Nat
    BY <2>1, <2>2 DEF HistoryOK
  <2>6. IF oldest = NoDate THEN dates = {}
        ELSE oldest \in Nat /\ \E x \in dates : x <= oldest
    <3>1. CASE Oldest(p) = {}
      <4>1. Of(p) = {} /\ before = NoDate
        BY <3>1
      <4>2. oldest = NoDate
        <5> HIDE DEF Oldest
        <5> QED
          BY <1>1, <3>1
      <4>3. old = {}
        BY <2>1, <4>1 DEF HistoryOK
      <4>4. By(p, "day") = {} /\ By(p, "hour") = {}
        BY <4>1
      <4>5. dates = {}
        BY <1>1, <4>3, <4>4
      <4> QED
        BY <4>2, <4>5
    <3>2. CASE Oldest(p) # {}
      <4>1. oldest \in Oldest(p)
        <5> HIDE DEF Oldest
        <5> QED
          BY <1>1, <2>5, <3>2, LeastNat
      <4>2. oldest \in Nat /\ oldest # NoDate
        BY <2>5, <4>1 DEF NoDate
      <4>3. \E x \in dates : x <= oldest
        <5>1. CASE \E a \in Of(p) : oldest = a.since
          BY <2>2, <5>1
        <5>2. CASE oldest = before
          BY <2>1, <2>4, <4>2, <5>2 DEF HistoryOK
        <5> QED
          BY <4>1, <5>1, <5>2
      <4> QED
        BY <4>2, <4>3
    <3> QED
      BY <3>1, <3>2
  <2>7. CASE r.cache[p] # generateCache(r.data[p], l.settings.fill, now)
    <3>1. /\ r.cache[p] = l.state.cache[p]
          /\ r.data[p].days = l.state.data[p].days /\ r.data[p].hours = l.state.data[p].hours
      BY <2>7, LoadedIs DEF r
    <3> HIDE DEF Oldest, By, Of
    <3> QED
      BY <2>1, <2>6, <3>1 DEF HistoryOK
  <2>8. CASE r.cache[p] = generateCache(r.data[p], l.settings.fill, now)
    <3> HIDE DEF Oldest, By, Of
    <3> QED
      BY <2>3, <2>6, <2>8, CacheAnew
  <2> QED
    BY <2>7, <2>8
<1>4. ASSUME ok = Asks(l), l.tooSoon = {}, NEW p \in Tracked(l.settings)
      PROVE  NoGap(Day(l.settings.starts[p]), Day(l.now) - HOURS, r.data[p].days)
  <2> DEFINE start == l.settings.starts[p]
             since == Since(l.state, p, start)
             days == l.state.data[p].days
  <2>1. p \in Pairs /\ start \in 0..l.now
    BY <1>2 DEF Tracked, SettingsOK
  <2>2. since \in start..l.now /\ NoGap(Day(start), Day(since) - HOURS, days)
    BY <1>2, <2>1, SinceIs
  <2>3. days \subseteq r.data[p].days
    BY <1>1, <2>1
  <2>4. NoGap(Day(start), Day(since) - HOURS, r.data[p].days)
    BY <2>2, <2>3, NoDayLost
  <2>5. NoGap(Day(since), Day(l.now) - HOURS, r.data[p].days)
    <3>1. CASE Day(since) = Day(l.now)
      <4>1. Day(l.now) \in Nat
        BY <1>2, DayIs
      <4> QED
        BY <3>1, <4>1, Hours DEF NoGap
    <3>2. CASE Day(since) # Day(l.now)
      <4> DEFINE a == [pair |-> p, by |-> "day", since |-> since]
      <4>1. a \in Asks(l)
        BY <1>4, <3>2, <2>1 DEF Asks
      <4>2. NoGap(Day(since), Day(l.now) - HOURS, Rates(a))
        <5>1. a.by = "day" /\ a.since = since
          OBVIOUS
        <5> HIDE DEF a, since
        <5> QED
          BY <4>1, <5>1, RatesAre
      <4>3. a \in ok /\ a.pair = p /\ a.by = "day"
        BY <1>4, <4>1
      <4> HIDE DEF a, since
      <4>4. Rates(a) \subseteq By(p, "day")
        BY <4>3
      <4>5. Rates(a) \subseteq r.data[p].days
        <5> HIDE DEF By
        <5> QED
          BY <1>1, <2>1, <4>4
      <4> QED
        BY <4>2, <4>5, NoDayLost
    <3> QED
      BY <3>1, <3>2
  <2>6. Day(start) \in Nat /\ Day(since) \in Nat /\ Day(l.now) \in Nat
    BY <1>2, <2>1, <2>2, DayIs
  <2> HIDE DEF since, start
  <2>7. ASSUME NEW d \in Day(start)..(Day(l.now) - HOURS), d = Day(d)
        PROVE  d \in r.data[p].days
    <3>1. CASE Day(since) <= d
      BY <2>5, <2>6, <2>7, <3>1, Hours DEF NoGap
    <3>2. CASE ~(Day(since) <= d)
      <4>1. Day(d) < Day(since) /\ d \in Nat /\ since \in Nat
        BY <2>1, <2>2, <2>6, <2>7, <3>2
      <4>2. d + HOURS <= Day(since)
        BY <2>7, <4>1, DaysApart
      <4>3. d \in Day(start)..(Day(since) - HOURS)
        BY <2>6, <4>1, <4>2, Hours
      <4> QED
        BY <2>4, <2>7, <4>3 DEF NoGap
    <3> QED
      BY <3>1, <3>2
  <2> QED
    BY <2>7 DEF NoGap, start
<1>5. HistoriesOK(r, now)
  BY <1>3 DEF HistoriesOK
<1>6. ASSUME ok = Asks(l), l.tooSoon = {}
      PROVE  Covered(r, [settings |-> l.settings, now |-> l.now])
  BY <1>4, <1>6 DEF Covered
<1> QED
  BY <1>5, <1>6 DEF r

-----------------------------------------------------------------------------
\* The steps keep the histories.

\* Whatever happens: the effects that are due begin a load of what is there.
LEMMA BecomesHistories ==
  ASSUME Inv, Histories, NEW k, NEW others, Becomes(k, others), ProviderOK(k),
         others \subseteq loads,
         SettingsOK(k.settings, now), HistoriesOK(k.state, now), Covered(k.state, k.whole),
         UNCHANGED <<now, saved>>
  PROVE  Histories'
<1> DEFINE a == AfterEffects(k, c)
<1>1. PICK new \in NewLoads : loads' = others \cup new
  BY DEF Becomes
<1>2. c' = [a EXCEPT !.due = TRUE]
  BY DEF Becomes
<1>3. ProviderOK(a) /\ a.state = k.state /\ a.settings = k.settings /\ a.whole = k.whole
  BY AfterEffectsIs DEF Inv, TypeOK
<1> HIDE DEF a
<1>4. c'.state = k.state /\ c'.settings = k.settings /\ c'.whole = k.whole
  BY <1>2, <1>3 DEF ProviderOK
<1>5. ASSUME NEW l \in loads'
      PROVE  l.now \in 0..now /\ SettingsOK(l.settings, l.now) /\ HistoriesOK(l.state, l.now)
  <2>1. CASE l \in loads
    BY <2>1 DEF Histories, LoadOK
  <2>2. CASE l \in new
    <3>1. l.state = c.state /\ l.settings = c.settings /\ l.now = now
      BY <2>2, NewLoadsAre
    <3> QED
      BY <3>1 DEF Histories
  <2> QED
    BY <1>1, <2>1, <2>2
<1> QED
  BY <1>4, <1>5
  DEF Histories, LoadOK, HistoriesOK, HistoryOK, SettingsOK, Covered, Tracked, NoGap, Day

LEMMA EventHistories ==
  ASSUME Inv, Histories, NEW k, Event(k), ProviderOK(k),
         SettingsOK(k.settings, now), HistoriesOK(k.state, now), Covered(k.state, k.whole),
         UNCHANGED <<now, saved>>
  PROVE  Histories'
<1> DEFINE g == [k EXCEPT !.fresh = FALSE]
<1>1. Becomes(g, loads)
  BY DEF Event
<1>2. ProviderOK(g) /\ g.state = k.state /\ g.settings = k.settings /\ g.whole = k.whole
  BY DEF ProviderOK
<1> HIDE DEF g
<1> QED
  BY <1>1, <1>2, BecomesHistories

\* Nothing is covered when no load is known to be whole.
LEMMA NothingIsCovered ==
  ASSUME NEW state
  PROVE  Covered(state, Nothing)
  BY DEF Covered, Nothing, Tracked

LEMMA LoadEndsHistories ==
  ASSUME Inv, Histories, LoadEnds
  PROVE  Histories'
<1>1. PICK l \in loads : Success(l) \/ Failure(l)
  BY DEF LoadEnds
<1>2. UNCHANGED <<now, saved>>
  BY DEF LoadEnds
<1>3. PICK state, whole : /\ HistoriesOK(state, now) /\ Covered(state, whole)
                          /\ Becomes([c EXCEPT !.state = state, !.pending = FALSE,
                                               !.fresh = FALSE, !.whole = whole],
                                     loads \ {l})
  <2>1. CASE Success(l)
    <3>1. PICK ok, errors, late, fetched, news :
            /\ ok \in SUBSET Asks(l)
            /\ Becomes([c EXCEPT !.state = Loaded(l, ok, errors, late, fetched, news),
                                 !.pending = FALSE, !.fresh = FALSE,
                                 !.whole = IF ok = Asks(l) /\ l.tooSoon = {}
                                           THEN [settings |-> l.settings, now |-> l.now]
                                           ELSE Nothing],
                       loads \ {l})
      BY <2>1, Zenon DEF Success
    <3> DEFINE state == Loaded(l, ok, errors, late, fetched, news)
               whole == IF ok = Asks(l) /\ l.tooSoon = {}
                        THEN [settings |-> l.settings, now |-> l.now] ELSE Nothing
    <3>2. now \in Nat /\ LoadOK(l)
      BY DEF Histories
    <3>3. /\ HistoriesOK(state, now)
          /\ ok = Asks(l) /\ l.tooSoon = {} =>
               Covered(state, [settings |-> l.settings, now |-> l.now])
      BY <3>1, <3>2, LoadedHistories
    <3>4. Covered(state, whole)
      <4> HIDE DEF state
      <4>1. CASE ok = Asks(l) /\ l.tooSoon = {}
        BY <4>1, <3>3
      <4>2. CASE ~(ok = Asks(l) /\ l.tooSoon = {})
        BY <4>2, NothingIsCovered
      <4> QED
        BY <4>1, <4>2
    <3> QED
      BY <3>1, <3>3, <3>4, Zenon
  <2>2. CASE Failure(l)
    <3>1. [c EXCEPT !.pending = FALSE, !.fresh = FALSE]
            = [c EXCEPT !.state = c.state, !.pending = FALSE, !.fresh = FALSE, !.whole = c.whole]
      BY DEF Inv, TypeOK, ProviderOK
    <3>2. HistoriesOK(c.state, now) /\ Covered(c.state, c.whole)
      BY DEF Histories
    <3>3. Becomes([c EXCEPT !.pending = FALSE, !.fresh = FALSE], loads \ {l})
      BY <2>2, Zenon DEF Failure
    <3> QED
      BY <3>1, <3>2, <3>3
  <2> QED
    BY <1>1, <2>1, <2>2
<1> DEFINE k == [c EXCEPT !.state = state, !.pending = FALSE, !.fresh = FALSE, !.whole = whole]
<1>4. ProviderOK(k) /\ k.state = state /\ k.settings = c.settings /\ k.whole = whole
  BY DEF Inv, TypeOK, ProviderOK
<1>5. Becomes(k, loads \ {l})
  BY <1>3
<1> HIDE DEF k
<1>6. SettingsOK(k.settings, now)
  BY <1>4 DEF Histories
<1> QED
  BY <1>2, <1>3, <1>4, <1>5, <1>6, BecomesHistories

LEMMA RunEffectsHistories ==
  ASSUME Inv, Histories, RunEffects
  PROVE  Histories'
<1> DEFINE k == AfterEffects(c, c)
           again == k # c
<1>1. c' = [k EXCEPT !.due = again, !.fresh = FALSE]
  BY DEF RunEffects
<1>2. PICK new \in NewLoads : loads' = loads \cup new
  BY DEF RunEffects
<1>3. UNCHANGED <<now, saved>>
  BY DEF RunEffects
<1>4. ProviderOK(k) /\ k.state = c.state /\ k.settings = c.settings /\ k.whole = c.whole
  BY AfterEffectsIs DEF Inv, TypeOK
<1> HIDE DEF k, again
<1>5. c'.state = c.state /\ c'.settings = c.settings /\ c'.whole = c.whole
  BY <1>1, <1>4 DEF ProviderOK
<1>6. ASSUME NEW l \in loads'
      PROVE  l.now \in 0..now /\ SettingsOK(l.settings, l.now) /\ HistoriesOK(l.state, l.now)
  <2>1. CASE l \in loads
    BY <2>1 DEF Histories, LoadOK
  <2>2. CASE l \in new
    <3>1. l.state = c.state /\ l.settings = c.settings /\ l.now = now
      BY <2>2, NewLoadsAre
    <3> QED
      BY <3>1 DEF Histories
  <2> QED
    BY <1>2, <2>1, <2>2
<1> QED
  BY <1>3, <1>5, <1>6
  DEF Histories, LoadOK, HistoriesOK, HistoryOK, SettingsOK, Covered, Tracked, NoGap, Day

LEMMA PollHistories ==
  ASSUME Inv, Histories, Poll
  PROVE  Histories'
<1> DEFINE k == [c EXCEPT !.trigger = TRUE]
<1>1. Event(k) /\ UNCHANGED <<now, saved>>
  BY DEF Poll
<1>2. ProviderOK(k) /\ k.state = c.state /\ k.settings = c.settings /\ k.whole = c.whole
  BY DEF Inv, TypeOK, ProviderOK
<1> HIDE DEF k
<1> QED
  BY <1>1, <1>2, EventHistories DEF Histories

\* What the user may set is not of later than now.
LEMMA SomeSettingsOK ==
  ASSUME now \in Nat, NEW s \in SomeSettings
  PROVE  SettingsOK(s, now)
<1>1. Starts \subseteq Nat
  BY CountervaluesAssumption
<1>2. ASSUME NEW p \in Pairs PROVE s.starts[p] \in {t \in Starts : t <= now} \cup {NoDate}
  BY DEF SomeSettings
<1>3. ASSUME NEW p \in Pairs PROVE s.starts[p] \in 0..now \cup {NoDate}
  <2>1. CASE s.starts[p] = NoDate
    BY <2>1
  <2>2. CASE s.starts[p] # NoDate
    <3>1. s.starts[p] \in Nat /\ s.starts[p] <= now
      BY <1>1, <1>2, <2>2
    <3> QED
      BY <3>1
  <2> QED
    BY <2>1, <2>2
<1> QED
  BY <1>3 DEF SettingsOK

LEMMA ChangeSettingsHistories ==
  ASSUME Inv, Histories, ChangeSettings
  PROVE  Histories'
<1>1. PICK s \in SomeSettings : Event([c EXCEPT !.settings = s])
  BY DEF ChangeSettings
<1> DEFINE k == [c EXCEPT !.settings = s]
<1>2. ProviderOK(k) /\ k.state = c.state /\ k.settings = s /\ k.whole = c.whole
  BY DEF Inv, TypeOK, ProviderOK
<1>3. Event(k) /\ UNCHANGED <<now, saved>>
  BY <1>1 DEF ChangeSettings
<1> HIDE DEF k
<1>4. SettingsOK(s, now)
  BY SomeSettingsOK DEF Histories
<1> QED
  BY <1>2, <1>3, <1>4, EventHistories DEF Histories

LEMMA DebounceEndsHistories ==
  ASSUME Inv, Histories, DebounceEnds
  PROVE  Histories'
<1> DEFINE k == [c EXCEPT !.debounced = c.settings, !.fresh = TRUE, !.begun = FALSE]
<1>1. Becomes(k, loads) /\ UNCHANGED <<now, saved>>
  BY DEF DebounceEnds
<1>2. ProviderOK(k) /\ k.state = c.state /\ k.settings = c.settings /\ k.whole = c.whole
  BY DEF Inv, TypeOK, ProviderOK
<1> HIDE DEF k
<1> QED
  BY <1>1, <1>2, BecomesHistories DEF Histories

LEMMA WipeHistories ==
  ASSUME Inv, Histories, Wipe
  PROVE  Histories'
<1> DEFINE k == [c EXCEPT !.state = initialState, !.pending = FALSE, !.whole = Nothing]
<1>1. Event(k) /\ UNCHANGED <<now, saved>>
  BY DEF Wipe
<1>2. ProviderOK(k) /\ k.state = initialState /\ k.settings = c.settings /\ k.whole = Nothing
  BY DEF Inv, TypeOK, ProviderOK
<1> HIDE DEF k
<1>3. HistoriesOK(k.state, now) /\ Covered(k.state, k.whole)
  BY <1>2, InitialHistories, NothingIsCovered DEF Histories
<1> QED
  BY <1>1, <1>2, <1>3, EventHistories DEF Histories

LEMMA ImportHistories ==
  ASSUME Inv, Histories, Import
  PROVE  Histories'
<1> DEFINE state == importCountervalues(saved, c.settings, now)
           k == [c EXCEPT !.state = state, !.whole = Nothing]
<1>1. Event(k) /\ UNCHANGED <<now, saved>>
  BY DEF Import
<1>2. HistoriesOK(state, now)
  BY ImportedHistories DEF Inv, TypeOK, Histories
<1> HIDE DEF state
<1>3. ProviderOK(k) /\ k.state = state /\ k.settings = c.settings /\ k.whole = Nothing
  BY DEF Inv, TypeOK, ProviderOK
<1> HIDE DEF k
<1>4. Covered(k.state, k.whole)
  BY <1>3, NothingIsCovered
<1> QED
  BY <1>1, <1>2, <1>3, <1>4, EventHistories DEF Histories

\* A provider that is mounted has the rates of nothing.
LEMMA MountHistories ==
  ASSUME NEW s
  PROVE  Mount(s).state = initialState /\ Mount(s).settings = s /\ Mount(s).whole = Nothing
  BY DEF Mount

LEMMA RestartHistories ==
  ASSUME Inv, Histories, Restart
  PROVE  Histories'
<1>1. c' = Mount(c.settings) /\ loads' = {} /\ UNCHANGED <<now, saved>>
  BY DEF Restart
<1>2. c'.state = initialState /\ c'.settings = c.settings /\ c'.whole = Nothing
  BY <1>1, MountHistories
<1>3. HistoriesOK(initialState, now) /\ Covered(initialState, Nothing)
  BY InitialHistories, NothingIsCovered DEF Histories
<1> QED
  BY <1>1, <1>2, <1>3
  DEF Histories, LoadOK, HistoriesOK, HistoryOK, SettingsOK, Covered, Tracked, NoGap, Day

\* Time passes, and what is there is stored.
LEMMA OtherHistories ==
  ASSUME Histories, UNCHANGED vars \/ Tick \/ Save
  PROVE  Histories'
<1>1. UNCHANGED <<c, loads>> /\ (saved' = saved \/ saved' = c.state)
  BY DEF vars, Tick, Save
<1>2. now' \in Nat /\ now \in Nat /\ now <= now'
  BY DEF vars, Tick, Save, Histories
<1>3. HistoriesOK(c.state, now') /\ HistoriesOK(saved', now')
  BY <1>1, <1>2, HistoryStays DEF Histories
<1>4. SettingsOK(c.settings, now')
  BY <1>2 DEF Histories, SettingsOK
<1>5. \A l \in loads : l.now \in 0..now'
  BY <1>2 DEF Histories, LoadOK
<1> QED
  BY <1>1, <1>2, <1>3, <1>4, <1>5
  DEF Histories, LoadOK, HistoriesOK, HistoryOK, SettingsOK, Covered, Tracked, NoGap, Day

LEMMA InitHistories == Init => Histories
<1> SUFFICES ASSUME Init PROVE Histories
  OBVIOUS
<1>1. PICK s \in SomeSettings : c = Mount(s)
  BY DEF Init
<1>2. now \in Nat /\ loads = {} /\ saved = initialState
  BY CountervaluesAssumption DEF Init
<1>3. SettingsOK(s, now)
  BY <1>2, SomeSettingsOK
<1> QED
  BY <1>1, <1>2, <1>3, MountHistories, InitialHistories, NothingIsCovered DEF Histories

LEMMA StepHistories == Inv /\ Histories /\ [Next]_vars => Histories'
  BY OtherHistories, LoadEndsHistories, RunEffectsHistories, PollHistories,
     ChangeSettingsHistories, DebounceEndsHistories, WipeHistories, RestartHistories,
     ImportHistories DEF Next

LEMMA HistoriesInvariance == Spec => []Histories
  BY InitHistories, StepHistories, Invariance, PTL DEF Spec

\* When all that a load asked for was answered, no day from the start of a pair to the day
\* before the load is missing: for any pairs, histories and lengths of days, whatever earlier
\* loads missed or failed at, however the settings changed, and whatever was wiped, stored
\* and imported meanwhile.
THEOREM NoDayIsMissing == Spec => []NoDayMissing
<1>1. Histories => NoDayMissing
  BY DEF Histories, Covered, NoGap, NoDayMissing
<1> QED
  BY <1>1, HistoriesInvariance, PTL

=============================================================================
