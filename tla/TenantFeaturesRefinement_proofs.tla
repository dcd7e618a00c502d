--------------------- MODULE TenantFeaturesRefinement_proofs ---------------------
(***************************************************************************)
(* TenantFeatures implements FlagWindow, for every number of instances,    *)
(* tenants and requests, every TTL, cap and ReadLag: its initial states    *)
(* are initial states of FlagWindow, and each of its steps, faults and     *)
(* evictions included, is one of FlagWindow's or changes nothing there.    *)
(***************************************************************************)
EXTENDS TenantFeaturesRefinement, TenantFeatures_proofs

---------------------------------------------------------------------------
(* The views of a process are its live entries.                            *)

LEMMA ViewOf ==
  /\ LiveView = [i \in Instances |-> LiveView[i]]
  /\ \A i \in Instances :
       /\ DOMAIN LiveView[i] = {t \in DOMAIN cache[i] : cache[i][t].left > 0}
       /\ \A t \in DOMAIN LiveView[i] : LiveView[i][t] = cache[i][t].features
BY DEF LiveView, Hit

LEMMA ViewOfNext ==
  /\ LiveView' = [i \in Instances |-> LiveView'[i]]
  /\ \A i \in Instances :
       /\ DOMAIN LiveView'[i] = {t \in DOMAIN cache'[i] : cache'[i][t].left > 0}
       /\ \A t \in DOMAIN LiveView'[i] : LiveView'[i][t] = cache'[i][t].features
BY DEF LiveView, Hit

LEMMA SameView ==
  ASSUME UNCHANGED cache
  PROVE  UNCHANGED LiveView
BY DEF LiveView, Hit

\* Only the views of process i differ when only its Map does.
LEMMA ViewOfOne ==
  ASSUME NEW i \in Instances, \A j \in Instances \ {i} : cache'[j] = cache[j]
  PROVE  LiveView' = [LiveView EXCEPT ![i] = LiveView'[i]]
<1>1. \A j \in Instances \ {i} : LiveView'[j] = LiveView[j]
  BY DEF LiveView, Hit
<1> DEFINE old == LiveView
           new == LiveView'
<1>2. old = [j \in Instances |-> old[j]] /\ new = [j \in Instances |-> new[j]]
  BY ViewOf, ViewOfNext, Zenon
<1>3. \A j \in Instances \ {i} : new[j] = old[j]
  BY <1>1
<1> HIDE DEF old, new
<1>4. new = [old EXCEPT ![i] = new[i]]
  BY <1>2, <1>3
<1>5. QED
  BY <1>4 DEF old, new

---------------------------------------------------------------------------
(* The steps.                                                              *)

\* Process i loses entries, and keeps the others as they are.
Loses(i) ==
  /\ \A j \in Instances \ {i} : cache'[j] = cache[j]
  /\ DOMAIN cache'[i] \subseteq DOMAIN cache[i]
  /\ \A t \in DOMAIN cache'[i] : /\ cache'[i][t].features = cache[i][t].features
                               /\ cache'[i][t].left = cache[i][t].left

LEMMA LosingIsForget ==
  ASSUME NEW i \in Instances, Loses(i), UNCHANGED <<db, lastTrue>>
  PROVE  FW!Next
<1>1. LiveView' = [LiveView EXCEPT ![i] = LiveView'[i]]
  BY ViewOfOne DEF Loses
<1>2. FW!GivesUp(LiveView[i], LiveView'[i])
  <2>1. DOMAIN LiveView'[i] \subseteq DOMAIN LiveView[i]
    BY ViewOf, ViewOfNext DEF Loses
  <2>2. \A t \in DOMAIN LiveView'[i] : LiveView'[i][t] = LiveView[i][t]
    BY <2>1, ViewOf, ViewOfNext DEF Loses
  <2>3. QED
    BY <2>1, <2>2, Zenon DEF FW!GivesUp
<1>3. FW!Forget(i)
  BY <1>1, <1>2, Zenon DEF FW!Forget
<1>4. QED
  BY <1>3, Zenon DEF FW!Next

LEMMA DeletingIsForget ==
  ASSUME TypeOK, NEW i \in Instances, NEW S,
         cache' = [cache EXCEPT ![i] = Delete(cache[i], S)],
         UNCHANGED <<db, lastTrue>>
  PROVE  FW!Next
<1> DEFINE m == cache[i]
           n == Delete(m, S)
<1>1. m \in EntryMap
  BY DEF TypeOK
<1>2. cache'[i] = n /\ \A j \in Instances \ {i} : cache'[j] = cache[j]
  BY DEF TypeOK
<1> HIDE DEF m
<1>3. /\ DOMAIN n = DOMAIN m \ S
      /\ \A t \in DOMAIN m \ S :
           /\ n[t].features = m[t].features
           /\ n[t].left = m[t].left
           /\ n[t].older = m[t].older \ S
  BY <1>1, DeleteType, Zenon
<1> HIDE DEF n
<1>4. Loses(i)
  BY <1>2, <1>3 DEF m, Loses
<1>5. QED
  BY <1>4, LosingIsForget

\* What set leaves when the cache is on.
LEMMA SetLearns ==
  ASSUME NEW m \in EntryMap, NEW t \in Tenants, NEW f \in FeatureList, ttlMs # 0
  PROVE  /\ t \in DOMAIN set(m, t, f)
         /\ set(m, t, f)[t].features = f
         /\ set(m, t, f)[t].left = ttlMs
         /\ \A s \in DOMAIN set(m, t, f) \ {t} :
              /\ s \in DOMAIN m
              /\ set(m, t, f)[s].features = m[s].features
              /\ set(m, t, f)[s].left = m[s].left
<1> DEFINE r == MakeRoom(m)
           n == set(m, t, f)
<1>1. r \in EntryMap
  BY MakeRoomType
<1>2. \A s \in DOMAIN r : /\ s \in DOMAIN m
                          /\ r[s].features = m[s].features
                          /\ r[s].left = m[s].left
  BY MakeRoomType
<1>3. n = Put(r, t, f)
  BY DEF set
<1> HIDE DEF r, n
<1>4. IsPut(n, r, t, f)
  BY <1>1, <1>3, PutType
<1>5. /\ DOMAIN n = DOMAIN r \cup {t}
      /\ n[t].features = f
      /\ n[t].left = ttlMs
      /\ \A s \in DOMAIN r \ {t} : n[s] = r[s]
  BY <1>4 DEF IsPut
<1>6. /\ t \in DOMAIN n
      /\ n[t].features = f
      /\ n[t].left = ttlMs
      /\ \A s \in DOMAIN n \ {t} : /\ s \in DOMAIN m
                                   /\ n[s].features = m[s].features
                                   /\ n[s].left = m[s].left
  BY <1>2, <1>5
<1>7. QED
  BY <1>6 DEF n

\* Storing an answer is Learn, or nothing when the cache is off.
LEMMA StoringIsLearn ==
  ASSUME TypeOK, EntriesAgeOut, NEW c \in Checks, StoreAndServe(c)
  PROVE  [FW!Next]_(FW!vars)
<1> DEFINE i == checks[c].instance
           t == checks[c].tenant
           f == checks[c].features
           l == checks[c].lag
<1>1. /\ i \in Instances /\ t \in Tenants /\ f \in FeatureList /\ l \in 0 .. ReadLag
      /\ checks[c].phase = "answer"
  BY AnswerInHand DEF StoreAndServe
<1>2. cache' = [cache EXCEPT ![i] = set(cache[i], t, f)] /\ UNCHANGED <<db, lastTrue>>
  BY DEF StoreAndServe
<1>3. lastTrue[t][f] <= l
  BY <1>1 DEF EntriesAgeOut, AnswersAreRecent
<1>4. lastTrue[t][f] \in 0 .. Never /\ cache[i] \in EntryMap
  BY <1>1 DEF TypeOK
<1> HIDE DEF i, t, f, l
<1>5. lastTrue[t][f] <= ReadLag
  BY <1>1, <1>3, <1>4, ConfigTypes, LagAssumption
<1>6. CASE ttlMs = 0
  <2>1. cache' = cache
    BY <1>1, <1>2, <1>6 DEF set, TypeOK
  <2>2. QED
    BY <1>2, <2>1, SameView DEF FW!vars
<1>7. CASE ttlMs # 0
  <2> DEFINE m == cache[i]
             n == set(m, t, f)
  <2>1. LiveView' = [LiveView EXCEPT ![i] = LiveView'[i]] /\ cache'[i] = n
    <3>1. cache'[i] = n /\ \A j \in Instances \ {i} : cache'[j] = cache[j]
      BY <1>1, <1>2 DEF TypeOK
    <3>2. QED
      BY <1>1, <3>1, ViewOfOne
  <2>2. /\ t \in DOMAIN n
        /\ n[t].features = f
        /\ n[t].left = ttlMs
        /\ \A s \in DOMAIN n \ {t} : /\ s \in DOMAIN m
                                     /\ n[s].features = m[s].features
                                     /\ n[s].left = m[s].left
    BY <1>1, <1>4, <1>7, SetLearns
  <2> DEFINE old == LiveView[i]
             new == LiveView'[i]
  <2>3. /\ DOMAIN old = {s \in DOMAIN m : m[s].left > 0}
        /\ \A s \in DOMAIN old : old[s] = m[s].features
    BY <1>1, ViewOf
  <2>4. /\ DOMAIN new = {s \in DOMAIN n : n[s].left > 0}
        /\ \A s \in DOMAIN new : new[s] = n[s].features
    BY <1>1, <2>1, ViewOfNext
  <2> HIDE DEF m, n, old, new
  <2>5. t \in DOMAIN new /\ new[t] = f
    BY <1>7, <2>2, <2>4, ConfigTypes
  <2>6. /\ DOMAIN new \subseteq DOMAIN old \cup {t}
        /\ \A s \in DOMAIN new \ {t} : new[s] = old[s]
    BY <2>2, <2>3, <2>4
  <2>7. /\ t \in DOMAIN LiveView'[i]
        /\ lastTrue[t][LiveView'[i][t]] <= ReadLag
        /\ DOMAIN LiveView'[i] \subseteq DOMAIN LiveView[i] \cup {t}
        /\ \A s \in DOMAIN LiveView'[i] \ {t} : LiveView'[i][s] = LiveView[i][s]
    BY <1>5, <2>5, <2>6, Zenon DEF old, new
  <2>8. FW!Learn(i, t)
    BY <1>2, <2>1, <2>7, Zenon DEF FW!Learn
  <2>9. QED
    BY <1>1, <2>8, Zenon DEF FW!Next
<1>8. QED
  BY <1>6, <1>7

\* A commit, of a PUT or of the statement of one that failed, is Write.
LEMMA CommittingIsWrite ==
  ASSUME TypeOK, NEW w \in Puts, Commits(w), UNCHANGED cache
  PROVE  FW!Next
<1> DEFINE t   == puts[w].tenant
           new == Upserted(db[t], Resolved(puts[w].body, puts[w].current))
<1>1. puts[w] \in [phase : {"write", "abandoned"}, instance : Instances,
                   tenant : Tenants, body : Bodies, current : FeatureList]
  BY DEF Commits, TypeOK, PutState, Idle
<1>2. t \in Tenants /\ new \in FeatureList
  BY <1>1, UpsertedType DEF TypeOK
<1>3. /\ db' = [db EXCEPT ![t] = new]
      /\ lastTrue' = [lastTrue EXCEPT ![t] = [@ EXCEPT ![new] = 0]]
  BY DEF Commits, Upsert
<1> HIDE DEF t, new
<1>4. FW!Write(t, new)
  BY <1>3, SameView, Zenon DEF FW!Write
<1>5. QED
  BY <1>2, <1>4, Zenon DEF FW!Next

\* Time passes over live entries only within the window, and drops the others.
LEMMA TickingIsElapse ==
  ASSUME TypeOK, TypeOK', EntriesAgeOut', Tick
  PROVE  FW!Next
<1>1. ASSUME NEW i \in Instances
      PROVE  /\ FW!GivesUp(LiveView[i], LiveView'[i])
             /\ \A t \in DOMAIN LiveView'[i] : lastTrue'[t][LiveView'[i][t]] <= Window
  <2> DEFINE m   == cache[i]
             n   == cache'[i]
             old == LiveView[i]
             new == LiveView'[i]
  <2>1. m \in EntryMap /\ n \in EntryMap
    BY DEF TypeOK
  <2>2. n = [t \in DOMAIN m |-> [m[t] EXCEPT !.left = IF @ > 0 THEN @ - 1 ELSE 0]]
    BY DEF Tick
  <2>3. /\ DOMAIN old = {s \in DOMAIN m : m[s].left > 0}
        /\ \A s \in DOMAIN old : old[s] = m[s].features
    BY ViewOf
  <2>4. /\ DOMAIN new = {s \in DOMAIN n : n[s].left > 0}
        /\ \A s \in DOMAIN new : new[s] = n[s].features
    BY ViewOfNext
  <2>5. \A t \in DOMAIN n :
          n[t].left > 0 => lastTrue'[t][n[t].features] + n[t].left <= ttlMs + ReadLag
    BY DEF EntriesAgeOut, EntriesAreRecent
  <2>6. \A t \in Tenants, f \in FeatureList : lastTrue'[t][f] \in 0 .. Never
    BY DEF TypeOK
  <2> HIDE DEF m, n, old, new
  <2>7. ASSUME NEW t \in DOMAIN n
        PROVE  /\ t \in DOMAIN m
               /\ n[t].features = m[t].features
               /\ n[t].left > 0 => m[t].left > 0
    <3> DEFINE e == m[t]
    <3>1. t \in DOMAIN m /\ n[t] = [e EXCEPT !.left = IF e.left > 0 THEN e.left - 1 ELSE 0]
      BY <2>2, <2>7
    <3>2. e \in Entry
      BY <2>1, <3>1, EntryMapElim
    <3> HIDE DEF e
    <3>3. /\ n[t].features = e.features
          /\ n[t].left = IF e.left > 0 THEN e.left - 1 ELSE 0
      BY <3>1, <3>2 DEF Entry
    <3>4. QED
      BY <3>1, <3>3 DEF e
  <2>8. FW!GivesUp(old, new)
    BY <2>3, <2>4, <2>7 DEF FW!GivesUp
  <2>9. ASSUME NEW t \in DOMAIN new
        PROVE  lastTrue'[t][new[t]] <= Window
    <3> DEFINE f == n[t].features
               l == n[t].left
    <3>1. t \in DOMAIN n /\ l > 0 /\ new[t] = f
      BY <2>4, <2>9
    <3>2. t \in Tenants /\ f \in FeatureList /\ l \in 0 .. ttlMs
      BY <2>1, <3>1, EntryMapElim DEF Entry
    <3>3. lastTrue'[t][f] + l <= ttlMs + ReadLag /\ lastTrue'[t][f] \in 0 .. Never
      BY <2>5, <2>6, <3>1, <3>2
    <3> HIDE DEF f, l
    <3>4. lastTrue'[t][f] <= Window
      BY <3>1, <3>2, <3>3, ConfigTypes, LagAssumption DEF Window
    <3>5. QED
      BY <3>1, <3>4
  <2>10. QED
    BY <2>8, <2>9 DEF old, new
<1>2. /\ lastTrue' = [t \in Tenants |-> [f \in FeatureList |->
            IF f = db[t] THEN 0
            ELSE IF lastTrue[t][f] < Never THEN lastTrue[t][f] + 1 ELSE Never]]
      /\ UNCHANGED db
  BY DEF Tick
<1>3. LiveView' = [i \in Instances |-> LiveView'[i]]
  BY ViewOfNext, Zenon
<1>4. FW!Elapse
  BY <1>1, <1>2, <1>3, Zenon DEF FW!Elapse
<1>5. QED
  BY <1>4, Zenon DEF FW!Next

\* A read that finds no live entry deletes the expired one; one that finds it, or
\* only looks its tenant up, changes no view.
LEMMA LoadingMapped ==
  ASSUME TypeOK, NEW c \in Checks, NEW i \in Instances, NEW t \in Tenants,
         LoadFeatures(c, i, t)
  PROVE  [FW!Next]_(FW!vars)
<1>1. CASE ServeFromCache(c, i, t)
  BY <1>1, SameView DEF ServeFromCache, FW!vars
<1>2. CASE Miss(c, i, t)
  <2>1. /\ cache' = [cache EXCEPT ![i] = Delete(cache[i], {t})]
        /\ UNCHANGED <<db, lastTrue>>
    BY <1>2 DEF Miss
  <2>2. FW!Next
    BY <2>1, DeletingIsForget
  <2>3. QED
    BY <2>2
<1>3. QED
  BY <1>1, <1>2 DEF LoadFeatures

LEMMA StepMapped ==
  ASSUME TypeOK, TypeOK', EntriesAgeOut, EntriesAgeOut', [Next]_vars
  PROVE  [FW!Next]_(FW!vars)
<1>1. ASSUME UNCHANGED <<db, cache, lastTrue>>
      PROVE  [FW!Next]_(FW!vars)
  BY <1>1, SameView DEF FW!vars
<1>2. ASSUME NEW c \in Checks, NEW i \in Instances, NEW t \in Tenants,
             BeginCheck(c, i, t) \/ BeginGet(c, i, t)
      PROVE  [FW!Next]_(FW!vars)
  BY <1>1, <1>2, LoadingMapped DEF BeginCheck, BeginGet
<1>3. ASSUME NEW c \in Checks, GetLookup(c)
      PROVE  [FW!Next]_(FW!vars)
  <2>1. checks[c].instance \in Instances /\ checks[c].tenant \in Tenants
    BY <1>3 DEF GetLookup, TypeOK, CheckState, Idle
  <2>2. QED
    BY <1>1, <1>3, <2>1, LoadingMapped DEF GetLookup
<1>4. ASSUME NEW c \in Checks, QueryAnswered(c) \/ CheckFails(c)
      PROVE  [FW!Next]_(FW!vars)
  BY <1>1, <1>4 DEF QueryAnswered, CheckFails
<1>5. ASSUME NEW c \in Checks, StoreAndServe(c)
      PROVE  [FW!Next]_(FW!vars)
  BY <1>5, StoringIsLearn
<1>6. ASSUME NEW w \in Puts, NEW i \in Instances, NEW t \in Tenants, NEW b \in Bodies,
             BeginPut(w, i, t, b)
      PROVE  [FW!Next]_(FW!vars)
  BY <1>1, <1>6 DEF BeginPut
<1>7. ASSUME NEW w \in Puts, PutLookup(w) \/ PutReadsCurrent(w) \/ PutFails(w)
      PROVE  [FW!Next]_(FW!vars)
  BY <1>1, <1>7 DEF PutLookup, PutReadsCurrent, PutFails
<1>8. ASSUME NEW w \in Puts, PutCommits(w) \/ AbandonedCommits(w)
      PROVE  [FW!Next]_(FW!vars)
  <2>1. Commits(w) /\ UNCHANGED cache
    BY <1>8 DEF PutCommits, AbandonedCommits, Commits
  <2>2. QED
    BY <2>1, CommittingIsWrite
<1>9. ASSUME NEW w \in Puts, PutReplies(w)
      PROVE  [FW!Next]_(FW!vars)
  <2> DEFINE i == puts[w].instance
             S == {puts[w].tenant}
  <2>1. i \in Instances
    BY <1>9 DEF PutReplies, TypeOK, PutState, Idle
  <2>2. cache' = [cache EXCEPT ![i] = Delete(cache[i], S)] /\ UNCHANGED <<db, lastTrue>>
    BY <1>9 DEF PutReplies, invalidate
  <2> HIDE DEF i, S
  <2>3. FW!Next
    BY <2>1, <2>2, DeletingIsForget
  <2>4. QED
    BY <2>3
<1>10. ASSUME NEW t \in Tenants, RemoveTenant(t)
       PROVE  [FW!Next]_(FW!vars)
  BY <1>1, <1>10 DEF RemoveTenant
<1>11. ASSUME NEW i \in Instances, Restart(i)
       PROVE  [FW!Next]_(FW!vars)
  <2>1. Loses(i) /\ UNCHANGED <<db, lastTrue>>
    BY <1>11 DEF Restart, Loses, TypeOK
  <2>2. FW!Next
    BY <2>1, LosingIsForget
  <2>3. QED
    BY <2>2
<1>12. CASE Tick
  BY <1>12, TickingIsElapse
<1>13. CASE UNCHANGED vars
  BY <1>1, <1>13 DEF vars
<1>14. QED
  BY <1>2, <1>3, <1>4, <1>5, <1>6, <1>7, <1>8, <1>9, <1>10, <1>11, <1>12, <1>13
  DEF Next, NextWithoutFaults, Faults, CheckStep, PutStep

LEMMA InitMapped == Init => FW!Init
<1> SUFFICES ASSUME Init PROVE FW!Init
  OBVIOUS
<1> DEFINE none  == [k \in {} |-> Null]
           empty == [t \in {} |-> none]
<1>1. db = [t \in Tenants |-> none]
  BY DEF Init
<1>2. lastTrue = [t \in Tenants |-> [f \in FeatureList |-> IF f = none THEN 0 ELSE Never]]
  BY <1>1 DEF Init
<1>3. ASSUME NEW i \in Instances
      PROVE  LiveView[i] = empty
  <2>1. DOMAIN cache[i] = {}
    BY DEF Init
  <2>2. {s \in DOMAIN cache[i] : Hit(cache[i], s)} = {}
    BY <2>1
  <2>3. LiveView[i] = [t \in {s \in DOMAIN cache[i] : Hit(cache[i], s)} |-> cache[i][t].features]
    BY DEF LiveView
  <2>4. QED
    BY <2>2, <2>3
<1>4. LiveView = [i \in Instances |-> empty]
  BY <1>3, ViewOf
<1>5. QED
  BY <1>1, <1>2, <1>4, Zenon DEF FW!Init

\* The caches of all instances, with their misses, late answers, evictions,
\* invalidations, failures and restarts, implement the bounded-staleness promise:
\* what a process relies on is never out of date by more than Window.
THEOREM CachesKeepTheWindow == Spec => ImplementsFlagWindow
<1>1. TypeOK /\ TypeOK' /\ EntriesAgeOut /\ EntriesAgeOut' /\ [Next]_vars
        => [FW!Next]_(FW!vars)
  BY StepMapped
<1>2. QED
  BY <1>1, InitMapped, TypeCorrect, EntriesAlwaysAgeOut, PTL
  DEF Spec, ImplementsFlagWindow, FW!Spec
=============================================================================
