------------------------- MODULE TenantFeatures_proofs -------------------------
(***************************************************************************)
(* Proofs about TenantFeatures, for every number of instances, tenants,    *)
(* requests and keys, every TTL and every cap.                             *)
(***************************************************************************)
EXTENDS TenantFeatures, FiniteSetTheorems, TLAPS

---------------------------------------------------------------------------
(* The Map of one process.                                                 *)

\* ttlMs and maxTenants are what readNonNegativeInt and readPositiveInt promise.
LEMMA ConfigTypes == ttlMs \in Nat /\ maxTenants \in Nat \ {0} /\ Never \in Nat
BY TtlAssumption, CapAssumption, LagAssumption, SMT DEF ttlMs, maxTenants, Never

LEMMA EntryMapIntro ==
  ASSUME NEW m, m = [t \in DOMAIN m |-> m[t]], DOMAIN m \subseteq Tenants,
         \A t \in DOMAIN m : m[t] \in Entry
  PROVE  m \in EntryMap
BY DEF EntryMap

LEMMA EntryMapElim ==
  ASSUME NEW m \in EntryMap
  PROVE  /\ m = [t \in DOMAIN m |-> m[t]]
         /\ DOMAIN m \in SUBSET Tenants
         /\ \A t \in DOMAIN m : m[t] \in Entry
<1>1. PICK S \in SUBSET Tenants : m \in [S -> Entry]
  BY DEF EntryMap
<1>2. QED
  BY <1>1

LEMMA EmptyMapType == [t \in {} |-> Null] \in EntryMap
<1> DEFINE m == [t \in {} |-> Null]
<1>1. DOMAIN m = {}
  OBVIOUS
<1>2. QED
  BY <1>1, EntryMapIntro

LEMMA DeleteType ==
  ASSUME NEW m \in EntryMap, NEW S
  PROVE  /\ Delete(m, S) \in EntryMap
         /\ DOMAIN Delete(m, S) = DOMAIN m \ S
         /\ \A t \in DOMAIN m \ S :
              /\ Delete(m, S)[t].features = m[t].features
              /\ Delete(m, S)[t].left = m[t].left
              /\ Delete(m, S)[t].older = m[t].older \ S
<1> DEFINE d == Delete(m, S)
<1>1. DOMAIN d = DOMAIN m \ S
  BY DEF Delete
<1>2. ASSUME NEW t \in DOMAIN m \ S
      PROVE  /\ d[t] = [m[t] EXCEPT !.older = @ \ S]
             /\ m[t] \in Entry
  BY EntryMapElim DEF Delete
<1>3. ASSUME NEW t \in DOMAIN m \ S
      PROVE  /\ d[t] \in Entry
             /\ d[t].features = m[t].features
             /\ d[t].left = m[t].left
             /\ d[t].older = m[t].older \ S
  <2> DEFINE e == m[t]
  <2>1. e \in [features : FeatureList, left : 0 .. ttlMs, older : SUBSET Tenants]
    BY <1>2 DEF Entry
  <2>2. e.older \ S \in SUBSET Tenants
    BY <2>1
  <2>3. d[t] = [e EXCEPT !.older = e.older \ S]
    BY <1>2
  <2> HIDE DEF d, e
  <2>4. /\ d[t].features = e.features
        /\ d[t].left = e.left
        /\ d[t].older = e.older \ S
        /\ d[t] \in [features : FeatureList, left : 0 .. ttlMs, older : SUBSET Tenants]
    BY <2>1, <2>2, <2>3
  <2>5. QED
    BY <2>4 DEF Entry, e
<1>4. d \in EntryMap
  <2>1. d = [t \in DOMAIN d |-> d[t]]
    BY DEF Delete
  <2>2. DOMAIN d \subseteq Tenants
    BY <1>1, EntryMapElim
  <2> HIDE DEF d
  <2>3. QED
    BY <1>1, <1>3, <2>1, <2>2, EntryMapIntro
<1>5. QED
  BY <1>1, <1>3, <1>4

\* What Put returns.
IsPut(p, m, t, f) ==
  /\ p \in EntryMap
  /\ DOMAIN p = DOMAIN m \cup {t}
  /\ p[t].features = f
  /\ p[t].left = ttlMs
  /\ t \in DOMAIN m => p[t].older = m[t].older
  /\ t \notin DOMAIN m => p[t].older = DOMAIN m
  /\ \A s \in DOMAIN m \ {t} : p[s] = m[s]

LEMMA PutType ==
  ASSUME NEW m \in EntryMap, NEW t \in Tenants, NEW f \in FeatureList
  PROVE  IsPut(Put(m, t, f), m, t, f)
<1> DEFINE p == Put(m, t, f)
<1>1. /\ DOMAIN p = DOMAIN m \cup {t}
      /\ p = [s \in DOMAIN p |-> p[s]]
  BY DEF Put
<1>2. p[t] = [features |-> f, left |-> ttlMs,
              older |-> IF t \in DOMAIN m THEN m[t].older ELSE DOMAIN m]
  BY DEF Put
<1>3. \A s \in DOMAIN m \ {t} : p[s] = m[s]
  BY DEF Put
<1>4. p[t] \in Entry
  <2>1. (IF t \in DOMAIN m THEN m[t].older ELSE DOMAIN m) \in SUBSET Tenants
    BY EntryMapElim DEF Entry
  <2>2. ttlMs \in 0 .. ttlMs
    BY ConfigTypes
  <2>3. QED
    BY <1>2, <2>1, <2>2 DEF Entry
<1>5. p \in EntryMap
  <2>1. DOMAIN p \subseteq Tenants
    BY <1>1, EntryMapElim
  <2>2. \A s \in DOMAIN p : p[s] \in Entry
    BY <1>1, <1>3, <1>4, EntryMapElim
  <2> HIDE DEF p
  <2>3. QED
    BY <1>1, <2>1, <2>2, EntryMapIntro
<1>6. /\ p[t].features = f
      /\ p[t].left = ttlMs
      /\ t \in DOMAIN m => p[t].older = m[t].older
      /\ t \notin DOMAIN m => p[t].older = DOMAIN m
  <2> HIDE DEF p
  <2>1. QED
    BY <1>2
<1>7. QED
  BY <1>1, <1>3, <1>5, <1>6 DEF IsPut

\* What MakeRoom leaves: live entries as they were, in the order they were.
LEMMA MakeRoomType ==
  ASSUME NEW m \in EntryMap
  PROVE  /\ prune(m) \in EntryMap
         /\ MakeRoom(m) \in EntryMap
         /\ DOMAIN prune(m) = DOMAIN m \ Expired(m)
         /\ DOMAIN MakeRoom(m) = DOMAIN prune(m) \ Evicted(prune(m))
         /\ \A t \in DOMAIN MakeRoom(m) :
              /\ t \in DOMAIN m
              /\ MakeRoom(m)[t].features = m[t].features
              /\ MakeRoom(m)[t].left = m[t].left
<1>1. /\ prune(m) \in EntryMap
      /\ DOMAIN prune(m) = DOMAIN m \ Expired(m)
      /\ \A t \in DOMAIN prune(m) :
           prune(m)[t].features = m[t].features /\ prune(m)[t].left = m[t].left
  <2> DEFINE X == Expired(m)
  <2> HIDE DEF X
  <2>1. prune(m) = Delete(m, X)
    BY DEF prune, X
  <2>2. /\ Delete(m, X) \in EntryMap
        /\ DOMAIN Delete(m, X) = DOMAIN m \ X
        /\ \A t \in DOMAIN m \ X :
             /\ Delete(m, X)[t].features = m[t].features
             /\ Delete(m, X)[t].left = m[t].left
             /\ Delete(m, X)[t].older = m[t].older \ X
    BY DeleteType, Zenon
  <2>3. QED
    BY <2>1, <2>2 DEF X
<1> DEFINE p == prune(m)
<1> HIDE DEF p
<1>2. MakeRoom(m) = Delete(p, Evicted(p))
  BY DEF MakeRoom, p
<1>3. p \in EntryMap
  BY <1>1 DEF p
<1>4. /\ Delete(p, Evicted(p)) \in EntryMap
      /\ DOMAIN Delete(p, Evicted(p)) = DOMAIN p \ Evicted(p)
      /\ \A t \in DOMAIN p \ Evicted(p) :
           /\ Delete(p, Evicted(p))[t].features = p[t].features
           /\ Delete(p, Evicted(p))[t].left = p[t].left
  <2> DEFINE X == Evicted(p)
  <2> HIDE DEF X
  <2>1. /\ Delete(p, X) \in EntryMap
        /\ DOMAIN Delete(p, X) = DOMAIN p \ X
        /\ \A t \in DOMAIN p \ X :
             /\ Delete(p, X)[t].features = p[t].features
             /\ Delete(p, X)[t].left = p[t].left
             /\ Delete(p, X)[t].older = p[t].older \ X
    BY <1>3, DeleteType, Zenon
  <2>2. QED
    BY <2>1 DEF X
<1>5. QED
  BY <1>1, <1>2, <1>4 DEF p

\* What set leaves: the new entry for t, and entries the Map already had.
LEMMA SetType ==
  ASSUME NEW m \in EntryMap, NEW t \in Tenants, NEW f \in FeatureList
  PROVE  /\ set(m, t, f) \in EntryMap
         /\ \A s \in DOMAIN set(m, t, f) :
              \/ /\ s = t
                 /\ set(m, t, f)[s].features = f
                 /\ set(m, t, f)[s].left = ttlMs
              \/ /\ s \in DOMAIN m
                 /\ set(m, t, f)[s].features = m[s].features
                 /\ set(m, t, f)[s].left = m[s].left
<1>1. CASE ttlMs = 0
  BY <1>1 DEF set
<1>2. CASE ttlMs # 0
  <2> DEFINE r == MakeRoom(m)
  <2>1. r \in EntryMap
    BY MakeRoomType
  <2>2. \A s \in DOMAIN r : /\ s \in DOMAIN m
                            /\ r[s].features = m[s].features
                            /\ r[s].left = m[s].left
    BY MakeRoomType
  <2> HIDE DEF r
  <2>3. set(m, t, f) = Put(r, t, f)
    BY <1>2 DEF set, r
  <2>4. /\ Put(r, t, f) \in EntryMap
        /\ DOMAIN Put(r, t, f) = DOMAIN r \cup {t}
        /\ Put(r, t, f)[t].features = f
        /\ Put(r, t, f)[t].left = ttlMs
        /\ \A s \in DOMAIN r \ {t} : Put(r, t, f)[s] = r[s]
    <3>1. IsPut(Put(r, t, f), r, t, f)
      BY <2>1, PutType
    <3>2. QED
      BY <3>1 DEF IsPut
  <2>5. QED
    BY <2>2, <2>3, <2>4
<1>3. QED
  BY <1>1, <1>2

---------------------------------------------------------------------------
(* Types.                                                                  *)

\* A PUT writes a list of flags that the table can hold: what it read, its body
\* and the rows of the table give one, whatever the body leaves out.
LEMMA UpsertedType ==
  ASSUME NEW f \in FeatureList, NEW body \in Bodies, NEW current \in FeatureList
  PROVE  Upserted(f, Resolved(body, current)) \in FeatureList
<1> DEFINE rows == Resolved(body, current)
           new  == Upserted(f, rows)
<1>1. PICK B \in SUBSET Keys : body \in [B -> SentRow]
  BY BodyAssumption
<1>2. PICK C \in SUBSET Keys : current \in [C -> Row]
  BY DEF FeatureList
<1>3. PICK F \in SUBSET Keys : f \in [F -> Row]
  BY DEF FeatureList
<1>4. DOMAIN rows = B
  BY <1>1 DEF Resolved
<1>5. ASSUME NEW k \in B
      PROVE  rows[k] \in Row
  <2>1. NumericLimit(current, k) \in Limits \cup {Null}
    BY <1>2 DEF NumericLimit, Row
  <2>2. body[k] \in SentRow
    BY <1>1
  <2>3. ResolveNumericValue(body[k].numericValue, current, k) \in Limits \cup {Null}
    BY <2>1, <2>2 DEF ResolveNumericValue, SentRow
  <2>4. body[k].enabled \in BOOLEAN
    BY <2>2 DEF SentRow
  <2>5. rows[k] = [enabled |-> body[k].enabled,
                   numericValue |->
                     ResolveNumericValue(body[k].numericValue, current, k)]
    BY <1>1 DEF Resolved
  <2>6. QED
    BY <2>3, <2>4, <2>5 DEF Row
<1> HIDE DEF rows
<1>6. /\ DOMAIN new = F \cup B
      /\ new = [k \in F \cup B |-> IF k \in B THEN rows[k] ELSE f[k]]
  BY <1>3, <1>4 DEF Upserted
<1> HIDE DEF new
<1>7. new \in [F \cup B -> Row]
  BY <1>3, <1>5, <1>6
<1>8. QED
  BY <1>7 DEF FeatureList, new, rows

LEMMA UpsertType ==
  ASSUME TypeOK, NEW w \in Puts, Upsert(w),
         puts[w].phase \in {"write", "abandoned"}
  PROVE  /\ db' \in [Tenants -> FeatureList]
         /\ lastTrue' \in [Tenants -> [FeatureList -> 0 .. Never]]
<1>1. puts[w] \in [phase : {"write", "abandoned"}, instance : Instances,
                   tenant : Tenants, body : Bodies, current : FeatureList]
  BY DEF TypeOK, PutState, Idle
<1> DEFINE t   == puts[w].tenant
           new == Upserted(db[t], Resolved(puts[w].body, puts[w].current))
<1>2. new \in FeatureList
  BY <1>1, UpsertedType DEF TypeOK
<1>3. /\ db' = [db EXCEPT ![t] = new]
      /\ lastTrue' = [lastTrue EXCEPT ![t] = [@ EXCEPT ![new] = 0]]
  BY DEF Upsert
<1>4. 0 \in 0 .. Never
  BY ConfigTypes
<1> HIDE DEF new
<1>5. QED
  BY <1>1, <1>2, <1>3, <1>4 DEF TypeOK

LEMMA AbortType ==
  ASSUME TypeOK, NEW S, Abort(S)
  PROVE  puts' \in [Puts -> PutState]
<1>1. PICK sent \in SUBSET {w \in S : puts[w].phase = "write"} :
        puts' = [w \in Puts |->
          IF w \notin S THEN puts[w]
          ELSE IF w \in sent THEN [puts[w] EXCEPT !.phase = "abandoned"] ELSE Idle]
  BY DEF Abort
<1>2. ASSUME NEW w \in Puts, w \in sent
      PROVE  [puts[w] EXCEPT !.phase = "abandoned"] \in PutState
  <2>1. puts[w] \in [phase : {"write", "abandoned"}, instance : Instances,
                     tenant : Tenants, body : Bodies, current : FeatureList]
    BY <1>2 DEF TypeOK, PutState, Idle
  <2>2. QED
    BY <2>1 DEF PutState
<1>3. Idle \in PutState
  BY DEF PutState
<1>4. QED
  BY <1>1, <1>2, <1>3 DEF TypeOK

LEMMA InitType == Init => TypeOK
<1> SUFFICES ASSUME Init PROVE TypeOK
  OBVIOUS
<1>1. [k \in {} |-> Null] \in FeatureList
  BY DEF FeatureList
<1>2. [t \in {} |-> Null] \in EntryMap
  BY EmptyMapType
<1>3. 0 \in 0 .. Never /\ Never \in 0 .. Never
  BY ConfigTypes
<1>4. Idle \in CheckState /\ Idle \in PutState
  BY DEF CheckState, PutState
<1>5. QED
  BY <1>1, <1>2, <1>3, <1>4 DEF Init, TypeOK

LEMMA LoadType ==
  ASSUME TypeOK, NEW c \in Checks, NEW i \in Instances, NEW t \in Tenants,
         LoadFeatures(c, i, t)
  PROVE  TypeOK'
<1>1. CASE ServeFromCache(c, i, t)
  <2>1. cache[i][t].features \in FeatureList
    BY <1>1, EntryMapElim DEF TypeOK, ServeFromCache, Hit, Entry
  <2>2. [phase |-> "served", tenant |-> t, features |-> cache[i][t].features]
          \in CheckState
    BY <2>1 DEF CheckState
  <2>3. checks' \in [Checks -> CheckState]
    BY <1>1, <2>2 DEF ServeFromCache, TypeOK
  <2>4. QED
    BY <1>1, <2>3 DEF ServeFromCache, TypeOK
<1>2. CASE Miss(c, i, t)
  <2>1. cache' = [cache EXCEPT ![i] = Delete(cache[i], {t})]
    BY <1>2 DEF Miss
  <2>2. Delete(cache[i], {t}) \in EntryMap
    BY DeleteType DEF TypeOK
  <2>3. cache' \in [Instances -> EntryMap]
    BY <2>1, <2>2 DEF TypeOK
  <2>4. [phase |-> "query", instance |-> i, tenant |-> t] \in CheckState
    BY DEF CheckState
  <2>5. checks' \in [Checks -> CheckState]
    BY <1>2, <2>4 DEF Miss, TypeOK
  <2>6. QED
    BY <1>2, <2>3, <2>5 DEF Miss, TypeOK
<1>3. QED
  BY <1>1, <1>2 DEF LoadFeatures

LEMMA ReadType ==
  ASSUME TypeOK, NEW c \in Checks, CheckStep(c)
  PROVE  TypeOK'
<1>1. CASE GetLookup(c)
  <2>1. checks[c] \in [phase : {"lookup", "query"}, instance : Instances, tenant : Tenants]
    BY <1>1 DEF GetLookup, TypeOK, CheckState, Idle
  <2>2. CASE LoadFeatures(c, checks[c].instance, checks[c].tenant)
    BY <2>1, <2>2, LoadType
  <2>3. CASE checks' = [checks EXCEPT ![c] = Idle] /\ UNCHANGED <<db, existing, cache, puts, lastTrue>>
    BY <2>3 DEF TypeOK, CheckState
  <2>4. QED
    BY <1>1, <2>2, <2>3 DEF GetLookup
<1>2. CASE QueryAnswered(c)
  <2>1. checks[c] \in [phase : {"lookup", "query"}, instance : Instances, tenant : Tenants]
    BY <1>2 DEF QueryAnswered, TypeOK, CheckState, Idle
  <2>2. db[checks[c].tenant] \in FeatureList
    BY <2>1 DEF TypeOK
  <2>3. 0 \in 0 .. ReadLag
    BY LagAssumption
  <2>4. [phase |-> "answer", instance |-> checks[c].instance,
         tenant |-> checks[c].tenant, features |-> db[checks[c].tenant], lag |-> 0]
           \in CheckState
    BY <2>1, <2>2, <2>3 DEF CheckState
  <2>5. checks' \in [Checks -> CheckState]
    BY <1>2, <2>4 DEF QueryAnswered, TypeOK
  <2>6. QED
    BY <1>2, <2>5 DEF QueryAnswered, TypeOK
<1>3. CASE StoreAndServe(c)
  <2> DEFINE i == checks[c].instance
             t == checks[c].tenant
             f == checks[c].features
  <2>1. i \in Instances /\ t \in Tenants /\ f \in FeatureList
    BY <1>3 DEF StoreAndServe, TypeOK, CheckState, Idle
  <2>2. set(cache[i], t, f) \in EntryMap
    BY <2>1, SetType DEF TypeOK
  <2>3. cache' = [cache EXCEPT ![i] = set(cache[i], t, f)]
    BY <1>3 DEF StoreAndServe
  <2>4. cache' \in [Instances -> EntryMap]
    BY <2>1, <2>2, <2>3 DEF TypeOK
  <2>5. [phase |-> "served", tenant |-> t, features |-> f] \in CheckState
    BY <2>1 DEF CheckState
  <2>6. checks' \in [Checks -> CheckState]
    BY <1>3, <2>5 DEF StoreAndServe, TypeOK
  <2>7. QED
    BY <1>3, <2>4, <2>6 DEF StoreAndServe, TypeOK
<1>4. QED
  BY <1>1, <1>2, <1>3 DEF CheckStep

LEMMA BeginReadType ==
  ASSUME TypeOK, NEW c \in Checks, NEW i \in Instances, NEW t \in Tenants,
         BeginCheck(c, i, t) \/ BeginGet(c, i, t)
  PROVE  TypeOK'
<1>1. CASE BeginCheck(c, i, t)
  BY <1>1, LoadType DEF BeginCheck
<1>2. CASE BeginGet(c, i, t)
  BY <1>2 DEF BeginGet, TypeOK, CheckState
<1>3. QED
  BY <1>1, <1>2

LEMMA PutStepType ==
  ASSUME TypeOK, NEW w \in Puts, PutStep(w)
  PROVE  TypeOK'
<1>1. CASE PutLookup(w)
  <2>1. puts[w] \in [phase : {"lookup", "read"}, instance : Instances,
                     tenant : Tenants, body : Bodies]
    BY <1>1 DEF PutLookup, TypeOK, PutState, Idle
  <2>2. [puts[w] EXCEPT !.phase = "read"] \in PutState
    BY <2>1 DEF PutState
  <2>3. puts' \in [Puts -> PutState]
    BY <1>1, <2>2 DEF PutLookup, TypeOK, PutState
  <2>4. QED
    BY <1>1, <2>3 DEF PutLookup, TypeOK
<1>2. CASE PutReadsCurrent(w)
  <2>1. puts[w] \in [phase : {"lookup", "read"}, instance : Instances,
                     tenant : Tenants, body : Bodies]
    BY <1>2 DEF PutReadsCurrent, TypeOK, PutState, Idle
  <2>2. [phase |-> "write", instance |-> puts[w].instance, tenant |-> puts[w].tenant,
         body |-> puts[w].body, current |-> db[puts[w].tenant]] \in PutState
    BY <2>1 DEF TypeOK, PutState
  <2>3. puts' \in [Puts -> PutState]
    BY <1>2, <2>2 DEF PutReadsCurrent, TypeOK
  <2>4. QED
    BY <1>2, <2>3 DEF PutReadsCurrent, TypeOK
<1>3. CASE PutCommits(w)
  <2>1. puts[w] \in [phase : {"write", "abandoned"}, instance : Instances,
                     tenant : Tenants, body : Bodies, current : FeatureList]
    BY <1>3 DEF PutCommits, TypeOK, PutState, Idle
  <2>2. [phase |-> "written", instance |-> puts[w].instance, tenant |-> puts[w].tenant]
          \in PutState
    BY <2>1 DEF PutState
  <2>3. puts' \in [Puts -> PutState]
    BY <1>3, <2>2 DEF PutCommits, TypeOK
  <2>4. QED
    BY <1>3, <2>3, UpsertType DEF PutCommits, TypeOK
<1>4. CASE PutReplies(w)
  <2> DEFINE i == puts[w].instance
             t == puts[w].tenant
  <2>1. i \in Instances /\ t \in Tenants
    BY <1>4 DEF PutReplies, TypeOK, PutState, Idle
  <2>2. cache' = [cache EXCEPT ![i] = Delete(cache[i], {t})]
    BY <1>4 DEF PutReplies, invalidate
  <2>3. Delete(cache[i], {t}) \in EntryMap
    BY <2>1, DeleteType DEF TypeOK
  <2>4. cache' \in [Instances -> EntryMap]
    BY <2>1, <2>2, <2>3 DEF TypeOK
  <2>5. puts' \in [Puts -> PutState]
    BY <1>4 DEF PutReplies, TypeOK, PutState
  <2>6. QED
    BY <1>4, <2>4, <2>5 DEF PutReplies, TypeOK
<1>5. QED
  BY <1>1, <1>2, <1>3, <1>4 DEF PutStep

\* One tick of the clock on an entry, on the ages and on an answer in hand.
LEMMA AgedMap ==
  ASSUME NEW m \in EntryMap
  PROVE  [t \in DOMAIN m |-> [m[t] EXCEPT !.left = IF @ > 0 THEN @ - 1 ELSE 0]] \in EntryMap
<1> DEFINE a == [t \in DOMAIN m |-> [m[t] EXCEPT !.left = IF @ > 0 THEN @ - 1 ELSE 0]]
<1>1. ASSUME NEW t \in DOMAIN m
      PROVE  a[t] \in Entry
  <2>1. m[t] \in [features : FeatureList, left : 0 .. ttlMs, older : SUBSET Tenants]
    BY EntryMapElim DEF Entry
  <2>2. (IF m[t].left > 0 THEN m[t].left - 1 ELSE 0) \in 0 .. ttlMs
    BY <2>1, ConfigTypes
  <2>3. a[t] = [m[t] EXCEPT !.left = IF m[t].left > 0 THEN m[t].left - 1 ELSE 0]
    OBVIOUS
  <2>4. QED
    BY <2>1, <2>2, <2>3 DEF Entry
<1>2. DOMAIN a = DOMAIN m /\ a = [t \in DOMAIN a |-> a[t]]
  OBVIOUS
<1>3. DOMAIN a \subseteq Tenants
  BY <1>2, EntryMapElim
<1> HIDE DEF a
<1>4. a \in EntryMap
  BY <1>1, <1>2, <1>3, EntryMapIntro
<1>5. QED
  BY <1>4 DEF a

LEMMA TickType ==
  ASSUME TypeOK, Tick
  PROVE  TypeOK'
<1>1. cache' \in [Instances -> EntryMap]
  <2>1. ASSUME NEW i \in Instances
        PROVE  /\ cache'[i] = [t \in DOMAIN cache[i] |->
                     [cache[i][t] EXCEPT !.left = IF @ > 0 THEN @ - 1 ELSE 0]]
               /\ cache[i] \in EntryMap
    BY DEF Tick, TypeOK
  <2>2. \A i \in Instances : cache'[i] \in EntryMap
    BY <2>1, AgedMap
  <2>3. cache' = [i \in Instances |-> cache'[i]]
    BY DEF Tick
  <2>4. QED
    BY <2>2, <2>3
<1>2. checks' \in [Checks -> CheckState]
  <2>1. ASSUME NEW c \in Checks, checks[c].phase = "answer"
        PROVE  [checks[c] EXCEPT !.lag = @ + 1] \in CheckState
    <3>1. checks[c] \in [phase : {"answer"}, instance : Instances, tenant : Tenants,
                         features : FeatureList, lag : 0 .. ReadLag]
      BY <2>1 DEF TypeOK, CheckState, Idle
    <3>2. checks[c].lag + 1 \in 0 .. ReadLag
      BY <2>1, <3>1, LagAssumption DEF Tick
    <3>3. QED
      BY <3>1, <3>2 DEF CheckState
  <2>2. QED
    BY <2>1 DEF Tick, TypeOK
<1>3. lastTrue' \in [Tenants -> [FeatureList -> 0 .. Never]]
  <2>1. ASSUME NEW t \in Tenants, NEW f \in FeatureList
        PROVE  (IF f = db[t] THEN 0
                ELSE IF lastTrue[t][f] < Never THEN lastTrue[t][f] + 1 ELSE Never)
                 \in 0 .. Never
    <3>1. lastTrue[t][f] \in 0 .. Never
      BY DEF TypeOK
    <3>2. QED
      BY <3>1, ConfigTypes
  <2>2. QED
    BY <2>1 DEF Tick
<1>4. QED
  BY <1>1, <1>2, <1>3 DEF Tick, TypeOK

LEMMA FaultType ==
  ASSUME TypeOK, Faults
  PROVE  TypeOK'
<1>1. ASSUME NEW c \in Checks, CheckFails(c)
      PROVE  TypeOK'
  BY <1>1 DEF CheckFails, TypeOK, CheckState
<1>2. ASSUME NEW w \in Puts, PutFails(w)
      PROVE  TypeOK'
  BY <1>2, AbortType DEF PutFails, TypeOK
<1>3. ASSUME NEW w \in Puts, AbandonedCommits(w)
      PROVE  TypeOK'
  <2>1. puts' \in [Puts -> PutState]
    BY <1>3 DEF AbandonedCommits, TypeOK, PutState
  <2>2. QED
    BY <1>3, <2>1, UpsertType DEF AbandonedCommits, TypeOK
<1>4. ASSUME NEW i \in Instances, Restart(i)
      PROVE  TypeOK'
  <2>1. puts' \in [Puts -> PutState]
    <3> DEFINE S == {w \in Running : puts[w].instance = i}
    <3>1. Abort(S)
      BY <1>4 DEF Restart
    <3> HIDE DEF S
    <3>2. QED
      BY <3>1, AbortType
  <2>2. checks' \in [Checks -> CheckState]
    BY <1>4 DEF Restart, TypeOK, CheckState
  <2>3. cache' \in [Instances -> EntryMap]
    BY <1>4, EmptyMapType DEF Restart, TypeOK
  <2>4. QED
    BY <1>4, <2>1, <2>2, <2>3 DEF Restart, TypeOK
<1>5. QED
  BY <1>1, <1>2, <1>3, <1>4 DEF Faults

LEMMA NextType == TypeOK /\ [Next]_vars => TypeOK'
<1> SUFFICES ASSUME TypeOK, [Next]_vars PROVE TypeOK'
  OBVIOUS
<1>1. ASSUME NEW w \in Puts, NEW i \in Instances, NEW t \in Tenants, NEW b \in Bodies,
             BeginPut(w, i, t, b)
      PROVE  TypeOK'
  BY <1>1 DEF BeginPut, TypeOK, PutState
<1>2. ASSUME NEW t \in Tenants, RemoveTenant(t)
      PROVE  TypeOK'
  BY <1>2 DEF RemoveTenant, TypeOK
<1>3. CASE UNCHANGED vars
  BY <1>3 DEF vars, TypeOK
<1>4. QED
  BY <1>1, <1>2, <1>3, BeginReadType, ReadType, PutStepType, TickType, FaultType
  DEF Next, NextWithoutFaults

\* Every variable keeps its type: in particular a PUT never stores a body's
\* missing numericValue, and no age or remaining life leaves its range.
THEOREM TypeCorrect == Spec => []TypeOK
<1>1. QED
  BY InitType, NextType, PTL DEF Spec

---------------------------------------------------------------------------
(* The cap.  The rank of an entry is the number of newer ones.  Because    *)
(* insertion order is total, ranks differ, so the entries set keeps, whose *)
(* ranks are below maxTenants - 1, are at most maxTenants - 1.             *)

LEMMA DeleteOrder ==
  ASSUME NEW m \in EntryMap, NEW S, Ordered(m)
  PROVE  Ordered(Delete(m, S))
<1> DEFINE d == Delete(m, S)
<1>1. /\ d \in EntryMap
      /\ DOMAIN d = DOMAIN m \ S
      /\ \A t \in DOMAIN m \ S : /\ d[t].features = m[t].features
                                 /\ d[t].left = m[t].left
                                 /\ d[t].older = m[t].older \ S
  BY DeleteType, Zenon
<1> HIDE DEF d
<1>2. Ordered(d)
  BY <1>1 DEF Ordered
<1>3. QED
  BY <1>2 DEF d

LEMMA PutOrder ==
  ASSUME NEW m \in EntryMap, NEW t \in Tenants, NEW f \in FeatureList, Ordered(m)
  PROVE  Ordered(Put(m, t, f))
<1> DEFINE p == Put(m, t, f)
<1>1. IsPut(p, m, t, f)
  BY PutType
<1> HIDE DEF p
<1>2. CASE t \in DOMAIN m
  <2>1. DOMAIN p = DOMAIN m /\ \A s \in DOMAIN m : p[s].older = m[s].older
    BY <1>1, <1>2 DEF IsPut
  <2>2. QED
    BY <2>1 DEF Ordered, p
<1>3. CASE t \notin DOMAIN m
  <2>1. /\ DOMAIN p = DOMAIN m \cup {t}
        /\ p[t].older = DOMAIN m
        /\ \A s \in DOMAIN m : p[s].older = m[s].older
    BY <1>1, <1>3 DEF IsPut
  <2>2. Ordered(p)
    BY <1>3, <2>1 DEF Ordered
  <2>3. QED
    BY <2>2 DEF p
<1>4. QED
  BY <1>2, <1>3

LEMMA SubsetOfTenants ==
  ASSUME NEW S \in SUBSET Tenants
  PROVE  IsFiniteSet(S) /\ Cardinality(S) \in Nat
BY FiniteTenants, FS_Subset, FS_CardinalityType

\* The loop of set leaves room for one entry.
LEMMA EvictionMakesRoom ==
  ASSUME NEW m \in EntryMap, Ordered(m)
  PROVE  Cardinality(DOMAIN m \ Evicted(m)) <= maxTenants - 1
<1> DEFINE D        == DOMAIN m
           K        == D \ Evicted(m)
           newer(t) == {s \in D : t \in m[s].older}
           rank     == [t \in K |-> Cardinality(newer(t))]
           R        == 0 .. maxTenants - 2
<1>1. D \in SUBSET Tenants
  BY EntryMapElim
<1>2. \A t : newer(t) \in SUBSET Tenants
  BY <1>1
<1>3. \A t : IsFiniteSet(newer(t)) /\ Cardinality(newer(t)) \in Nat
  BY <1>2, SubsetOfTenants
<1>4. rank \in [K -> R]
  <2>1. ASSUME NEW t \in K
        PROVE  Cardinality(newer(t)) \in R
    <3>1. ~(Cardinality(newer(t)) >= maxTenants - 1)
      BY DEF Evicted
    <3>2. Cardinality(newer(t)) \in Nat
      BY <1>3
    <3> DEFINE n == Cardinality(newer(t))
    <3> HIDE DEF n
    <3>3. n \in Nat /\ ~(n >= maxTenants - 1) => n \in 0 .. maxTenants - 2
      BY ConfigTypes
    <3>4. QED
      BY <3>1, <3>2, <3>3 DEF n
  <2>2. QED
    BY <2>1
<1>5. ASSUME NEW s \in K, NEW t \in K, s \in m[t].older
      PROVE  rank[s] # rank[t]
  <2>1. newer(t) \subseteq newer(s)
    BY <1>5 DEF Ordered
  <2>2. t \in newer(s) /\ t \notin newer(t)
    BY <1>5 DEF Ordered
  <2>3. Cardinality(newer(s)) # Cardinality(newer(t))
    <3> DEFINE A == newer(s)
               B == newer(t)
    <3>1. IsFiniteSet(A) /\ B \in SUBSET A /\ A # B
      BY <1>3, <2>1, <2>2
    <3> HIDE DEF A, B
    <3>2. Cardinality(A) # Cardinality(B)
      BY <3>1, FS_Subset
    <3>3. QED
      BY <3>2 DEF A, B
  <2>4. QED
    BY <2>3
<1>6. ASSUME NEW s \in K, NEW t \in K, s # t
      PROVE  rank[s] # rank[t]
  <2>1. s \in m[t].older \/ t \in m[s].older
    BY <1>6 DEF Ordered
  <2> HIDE DEF rank, K
  <2>2. QED
    BY <1>5, <2>1
<1>7. IsFiniteSet(K) /\ Cardinality(K) \in Nat
  BY <1>1, SubsetOfTenants
<1>8. IsFiniteSet(R) /\ Cardinality(R) = maxTenants - 1
  BY FS_Interval, ConfigTypes
<1> HIDE DEF rank, K, R
<1>9. ~(Cardinality(R) < Cardinality(K))
  <2> SUFFICES ASSUME Cardinality(R) < Cardinality(K) PROVE FALSE
    OBVIOUS
  <2>1. \E x, y \in K : x # y /\ rank[x] = rank[y]
    BY <1>4, <1>7, <1>8, FS_PigeonHole
  <2>2. QED
    BY <1>6, <2>1
<1>10. Cardinality(K) <= maxTenants - 1
  BY <1>7, <1>8, <1>9, ConfigTypes
<1>11. QED
  BY <1>10 DEF K

LEMMA SetWithinCap ==
  ASSUME NEW m \in EntryMap, NEW t \in Tenants, NEW f \in FeatureList,
         Ordered(m), Cardinality(DOMAIN m) <= maxTenants
  PROVE  Ordered(set(m, t, f)) /\ Cardinality(DOMAIN set(m, t, f)) <= maxTenants
<1>1. CASE ttlMs = 0
  BY <1>1 DEF set
<1>2. CASE ttlMs # 0
  <2> DEFINE p == prune(m)
             r == MakeRoom(m)
  <2>1. p \in EntryMap /\ Ordered(p)
    BY DeleteOrder, MakeRoomType DEF prune
  <2>2. r \in EntryMap /\ DOMAIN r = DOMAIN p \ Evicted(p)
    BY MakeRoomType
  <2>3. Ordered(r)
    BY <2>1, DeleteOrder DEF MakeRoom
  <2> HIDE DEF p, r
  <2>4. Cardinality(DOMAIN r) <= maxTenants - 1
    BY <2>1, <2>2, EvictionMakesRoom
  <2>5. IsFiniteSet(DOMAIN r) /\ Cardinality(DOMAIN r) \in Nat
    BY <2>2, EntryMapElim, SubsetOfTenants
  <2>6. set(m, t, f) = Put(r, t, f)
    BY <1>2 DEF set, r
  <2>7. IsPut(Put(r, t, f), r, t, f) /\ Ordered(Put(r, t, f))
    BY <2>2, <2>3, PutType, PutOrder
  <2>8. DOMAIN Put(r, t, f) = DOMAIN r \cup {t}
    BY <2>7 DEF IsPut
  <2>9. Cardinality(DOMAIN r \cup {t}) <= Cardinality(DOMAIN r) + 1
    <3> DEFINE X == DOMAIN r
    <3>1. IsFiniteSet(X) /\ Cardinality(X) \in Nat
      BY <2>5
    <3> HIDE DEF X
    <3>2. Cardinality(X \cup {t}) =
            IF t \in X THEN Cardinality(X) ELSE Cardinality(X) + 1
      BY <3>1, FS_AddElement, Zenon
    <3>3. Cardinality(X \cup {t}) <= Cardinality(X) + 1
      BY <3>1, <3>2
    <3>4. QED
      BY <3>3 DEF X
  <2>10. Cardinality(DOMAIN r \cup {t}) \in Nat
    BY <2>5, FS_AddElement, FS_CardinalityType
  <2>11. QED
    BY <2>4, <2>5, <2>6, <2>7, <2>8, <2>9, <2>10, ConfigTypes
<1>3. QED
  BY <1>1, <1>2

\* All that a step does to the Map of one process.
MapStep(i) ==
  \/ cache'[i] = cache[i]
  \/ \E S \in SUBSET Tenants : cache'[i] = Delete(cache[i], S)
  \/ \E t \in Tenants, f \in FeatureList : cache'[i] = set(cache[i], t, f)
  \/ /\ DOMAIN cache'[i] = DOMAIN cache[i]
     /\ \A t \in DOMAIN cache[i] : cache'[i][t].older = cache[i][t].older
  \/ DOMAIN cache'[i] = {}

LEMMA AnswerInHand ==
  ASSUME TypeOK, NEW c \in Checks, checks[c].phase = "answer"
  PROVE  checks[c] \in [phase : {"answer"}, instance : Instances, tenant : Tenants,
                        features : FeatureList, lag : 0 .. ReadLag]
BY DEF TypeOK, CheckState, Idle

LEMMA LoadMapStep ==
  ASSUME TypeOK, NEW i \in Instances,
         NEW c \in Checks, NEW j \in Instances, NEW t \in Tenants, LoadFeatures(c, j, t)
  PROVE  MapStep(i)
<1>1. CASE ServeFromCache(c, j, t)
  BY <1>1 DEF ServeFromCache, MapStep
<1>2. CASE Miss(c, j, t)
  <2>1. cache'[i] = IF i = j THEN Delete(cache[i], {t}) ELSE cache[i]
    BY <1>2 DEF Miss, TypeOK
  <2>2. {t} \in SUBSET Tenants
    OBVIOUS
  <2>3. QED
    BY <2>1, <2>2 DEF MapStep
<1>3. QED
  BY <1>1, <1>2 DEF LoadFeatures

LEMMA NextMapStep ==
  ASSUME TypeOK, [Next]_vars, NEW i \in Instances
  PROVE  MapStep(i)
<1>1. CASE UNCHANGED cache
  BY <1>1 DEF MapStep
<1>2. ASSUME NEW c \in Checks, NEW j \in Instances, NEW t \in Tenants,
             BeginCheck(c, j, t)
      PROVE  MapStep(i)
  BY <1>2, LoadMapStep DEF BeginCheck
<1>3. ASSUME NEW c \in Checks, GetLookup(c)
      PROVE  MapStep(i)
  <2>1. checks[c].instance \in Instances /\ checks[c].tenant \in Tenants
    BY <1>3 DEF GetLookup, TypeOK, CheckState, Idle
  <2>2. QED
    BY <1>1, <1>3, <2>1, LoadMapStep DEF GetLookup
<1>4. ASSUME NEW c \in Checks, StoreAndServe(c)
      PROVE  MapStep(i)
  <2>1. /\ checks[c].instance \in Instances
        /\ checks[c].tenant \in Tenants
        /\ checks[c].features \in FeatureList
    BY <1>4, AnswerInHand DEF StoreAndServe
  <2>2. cache'[i] = IF i = checks[c].instance
                    THEN set(cache[i], checks[c].tenant, checks[c].features)
                    ELSE cache[i]
    BY <1>4, <2>1 DEF StoreAndServe, TypeOK
  <2>3. QED
    BY <2>1, <2>2 DEF MapStep
<1>5. ASSUME NEW w \in Puts, PutReplies(w)
      PROVE  MapStep(i)
  <2>1. puts[w].instance \in Instances /\ puts[w].tenant \in Tenants
    BY <1>5 DEF PutReplies, TypeOK, PutState, Idle
  <2>2. cache'[i] = IF i = puts[w].instance THEN Delete(cache[i], {puts[w].tenant})
                    ELSE cache[i]
    BY <1>5, <2>1 DEF PutReplies, invalidate, TypeOK
  <2>3. {puts[w].tenant} \in SUBSET Tenants
    BY <2>1
  <2>4. QED
    BY <2>2, <2>3 DEF MapStep
<1>6. CASE Tick
  <2>1. cache'[i] = [t \in DOMAIN cache[i] |->
          [cache[i][t] EXCEPT !.left = IF @ > 0 THEN @ - 1 ELSE 0]]
    BY <1>6 DEF Tick
  <2>2. \A t \in DOMAIN cache[i] : cache[i][t] \in Entry
    BY EntryMapElim DEF TypeOK
  <2>3. \A t \in DOMAIN cache[i] : cache'[i][t].older = cache[i][t].older
    BY <2>1, <2>2 DEF Entry
  <2>4. QED
    BY <2>1, <2>3 DEF MapStep
<1>7. ASSUME NEW j \in Instances, Restart(j)
      PROVE  MapStep(i)
  <2>1. cache'[i] = IF i = j THEN [t \in {} |-> Null] ELSE cache[i]
    BY <1>7 DEF Restart, TypeOK
  <2>2. QED
    BY <2>1 DEF MapStep
<1>8. ASSUME NEW c \in Checks, QueryAnswered(c) \/ CheckFails(c)
      PROVE  UNCHANGED cache
  BY <1>8 DEF QueryAnswered, CheckFails
<1>9. ASSUME NEW w \in Puts,
             \/ PutLookup(w) \/ PutReadsCurrent(w) \/ PutCommits(w)
             \/ PutFails(w) \/ AbandonedCommits(w)
      PROVE  UNCHANGED cache
  BY <1>9 DEF PutLookup, PutReadsCurrent, PutCommits, PutFails, AbandonedCommits
<1>10. ASSUME NEW t \in Tenants, RemoveTenant(t)
       PROVE  UNCHANGED cache
  BY <1>10 DEF RemoveTenant
<1>11. ASSUME NEW c \in Checks, NEW j \in Instances, NEW t \in Tenants,
              BeginGet(c, j, t)
       PROVE  UNCHANGED cache
  BY <1>11 DEF BeginGet
<1>12. ASSUME NEW w \in Puts, NEW j \in Instances, NEW t \in Tenants, NEW b \in Bodies,
              BeginPut(w, j, t, b)
       PROVE  UNCHANGED cache
  BY <1>12 DEF BeginPut
<1>13. CASE UNCHANGED vars
  BY <1>1, <1>13 DEF vars
<1>14. CASE NextWithoutFaults
  BY <1>1, <1>2, <1>3, <1>4, <1>5, <1>6, <1>8, <1>9, <1>10, <1>11, <1>12, <1>14
  DEF NextWithoutFaults, CheckStep, PutStep
<1>15. CASE Faults
  BY <1>1, <1>7, <1>8, <1>9, <1>15 DEF Faults
<1>16. QED
  BY <1>13, <1>14, <1>15 DEF Next

LEMMA CapStep ==
  TypeOK /\ InsertionOrder /\ CacheWithinCap /\ [Next]_vars
    => InsertionOrder' /\ CacheWithinCap'
<1> SUFFICES ASSUME TypeOK, InsertionOrder, CacheWithinCap, [Next]_vars,
                    NEW i \in Instances
             PROVE  Ordered(cache'[i]) /\ Cardinality(DOMAIN cache'[i]) <= maxTenants
  BY DEF InsertionOrder, CacheWithinCap
<1> DEFINE m == cache[i]
           n == cache'[i]
<1>1. /\ m \in EntryMap
      /\ Ordered(m)
      /\ Cardinality(DOMAIN m) <= maxTenants
  BY DEF TypeOK, InsertionOrder, CacheWithinCap
<1>2. MapStep(i)
  BY NextMapStep
<1> HIDE DEF m, n
<1>4. ASSUME NEW S \in SUBSET Tenants, n = Delete(m, S)
      PROVE  Ordered(n) /\ Cardinality(DOMAIN n) <= maxTenants
  <2>1. Ordered(n)
    BY <1>1, <1>4, DeleteOrder
  <2>2. DOMAIN n = DOMAIN m \ S
    BY <1>4 DEF Delete
  <2>3. DOMAIN n \in SUBSET DOMAIN m /\ DOMAIN m \in SUBSET Tenants
    BY <1>1, <2>2, EntryMapElim
  <2>4. IsFiniteSet(DOMAIN m) /\ Cardinality(DOMAIN m) \in Nat
    BY <2>3, SubsetOfTenants
  <2>5. Cardinality(DOMAIN n) <= Cardinality(DOMAIN m)
    BY <2>3, <2>4, FS_Subset
  <2>6. Cardinality(DOMAIN n) \in Nat
    BY <2>3, SubsetOfTenants
  <2>7. QED
    BY <1>1, <2>1, <2>4, <2>5, <2>6, ConfigTypes
<1>5. ASSUME NEW t \in Tenants, NEW f \in FeatureList, n = set(m, t, f)
      PROVE  Ordered(n) /\ Cardinality(DOMAIN n) <= maxTenants
  BY <1>1, <1>5, SetWithinCap
<1>6. ASSUME DOMAIN n = DOMAIN m, \A t \in DOMAIN m : n[t].older = m[t].older
      PROVE  Ordered(n) /\ Cardinality(DOMAIN n) <= maxTenants
  BY <1>1, <1>6 DEF Ordered
<1>7. ASSUME DOMAIN n = {}
      PROVE  Ordered(n) /\ Cardinality(DOMAIN n) <= maxTenants
  BY <1>7, FS_EmptySet, ConfigTypes DEF Ordered
<1>8. \/ n = m
      \/ \E S \in SUBSET Tenants : n = Delete(m, S)
      \/ \E t \in Tenants, f \in FeatureList : n = set(m, t, f)
      \/ DOMAIN n = DOMAIN m /\ \A t \in DOMAIN m : n[t].older = m[t].older
      \/ DOMAIN n = {}
  BY <1>2, Zenon DEF MapStep, m, n
<1>9. Ordered(n) /\ Cardinality(DOMAIN n) <= maxTenants
  <2>1. CASE n = m
    BY <1>1, <2>1
  <2>2. CASE \E S \in SUBSET Tenants : n = Delete(m, S)
    BY <1>4, <2>2
  <2>3. CASE \E t \in Tenants, f \in FeatureList : n = set(m, t, f)
    BY <1>5, <2>3
  <2>4. CASE DOMAIN n = DOMAIN m /\ \A t \in DOMAIN m : n[t].older = m[t].older
    BY <1>6, <2>4
  <2>5. CASE DOMAIN n = {}
    BY <1>7, <2>5
  <2>6. QED
    BY <1>8, <2>1, <2>2, <2>3, <2>4, <2>5
<1>10. QED
  BY <1>9 DEF n

\* However reads, invalidations, expiry and evictions interleave, on every
\* instance, the Map keeps a total insertion order and at most maxTenants
\* entries.
THEOREM CapHolds == Spec => [](InsertionOrder /\ CacheWithinCap)
<1>1. Init => InsertionOrder /\ CacheWithinCap
  BY FS_EmptySet, ConfigTypes DEF Init, InsertionOrder, Ordered, CacheWithinCap
<1>2. QED
  BY <1>1, CapStep, TypeCorrect, PTL DEF Spec

\* A key that set throws away had at least maxTenants - 1 newer ones; at most
\* maxTenants - 1 others are live, so all of these are newer.
LEMMA EvictedIsOldest ==
  ASSUME NEW p \in EntryMap, Ordered(p), Cardinality(DOMAIN p) <= maxTenants,
         NEW t \in DOMAIN p, t \in Evicted(p)
  PROVE  /\ Cardinality(DOMAIN p) >= maxTenants
         /\ \A s \in DOMAIN p \ {t} : t \in p[s].older
<1> DEFINE D      == DOMAIN p
           others == D \ {t}
           newer  == {s \in D : t \in p[s].older}
<1>1. D \in SUBSET Tenants /\ newer \in SUBSET others
  BY EntryMapElim DEF Ordered
<1>2. IsFiniteSet(D) /\ Cardinality(D) \in Nat /\ t \in D
  BY <1>1, SubsetOfTenants
<1>3. Cardinality(newer) >= maxTenants - 1
  BY DEF Evicted
<1>4. Cardinality(D) <= maxTenants
  OBVIOUS
<1> HIDE DEF D, newer
<1>5. IsFiniteSet(others) /\ Cardinality(others) = Cardinality(D) - 1
  BY <1>2, FS_RemoveElement
<1> HIDE DEF others
<1>6. /\ Cardinality(newer) <= Cardinality(others)
      /\ Cardinality(newer) \in Nat
      /\ Cardinality(others) = Cardinality(newer) => others = newer
  BY <1>1, <1>5, FS_Subset, FS_CardinalityType
<1>7. Cardinality(D) >= maxTenants /\ Cardinality(others) = Cardinality(newer)
  BY <1>2, <1>3, <1>4, <1>5, <1>6, ConfigTypes
<1>8. QED
  BY <1>6, <1>7 DEF D, newer, others

LEMMA DropsOldest ==
  ASSUME TypeOK, InsertionOrder, CacheWithinCap, NEW c \in Checks, StoreAndServe(c),
         NEW t \in Dropped(c)
  PROVE  LET m == cache[checks[c].instance] IN
         /\ Cardinality(DOMAIN prune(m)) >= maxTenants
         /\ \A s \in DOMAIN prune(m) \ {t} : t \in m[s].older
<1> DEFINE i == checks[c].instance
           u == checks[c].tenant
           f == checks[c].features
           m == cache[i]
           p == prune(m)
<1>1. i \in Instances /\ u \in Tenants /\ f \in FeatureList
  BY AnswerInHand DEF StoreAndServe
<1>2. cache'[i] = set(m, u, f)
  BY <1>1 DEF StoreAndServe, TypeOK
<1>3. m \in EntryMap /\ Ordered(m) /\ Cardinality(DOMAIN m) <= maxTenants
  BY <1>1 DEF TypeOK, InsertionOrder, CacheWithinCap
<1>4. t \in DOMAIN m /\ t \notin DOMAIN cache'[i] /\ Hit(m, t)
  BY DEF Dropped
<1> HIDE DEF i, u, f
<1>5. ttlMs # 0
  BY <1>2, <1>4 DEF set
<1>6. t \notin DOMAIN MakeRoom(m)
  BY <1>2, <1>4, <1>5 DEF set, Put
<1>7. /\ p \in EntryMap
      /\ DOMAIN p = DOMAIN m \ Expired(m)
      /\ DOMAIN MakeRoom(m) = DOMAIN p \ Evicted(p)
  BY <1>3, MakeRoomType
<1>8. Ordered(p)
  BY <1>3, DeleteOrder DEF prune
<1>9. \A s \in DOMAIN p : p[s].older \subseteq m[s].older
  <2> DEFINE X == Expired(m)
  <2> HIDE DEF X, m
  <2>1. /\ DOMAIN Delete(m, X) = DOMAIN m \ X
        /\ \A s \in DOMAIN m \ X :
             /\ Delete(m, X)[s].features = m[s].features
             /\ Delete(m, X)[s].left = m[s].left
             /\ Delete(m, X)[s].older = m[s].older \ X
    BY <1>3, DeleteType, Zenon
  <2>2. p = Delete(m, X)
    BY DEF prune, X
  <2>3. QED
    BY <2>1, <2>2
<1>10. t \in DOMAIN p /\ t \in Evicted(p)
  <2>1. t \notin Expired(m)
    <3>1. m[t] \in Entry
      BY <1>3, <1>4, EntryMapElim
    <3> DEFINE l == m[t].left
    <3>2. l \in 0 .. ttlMs /\ l > 0
      BY <1>4, <3>1 DEF Entry, Hit
    <3> HIDE DEF l
    <3>3. ~(l <= 0)
      BY <3>2, ConfigTypes
    <3>4. QED
      BY <3>3 DEF l, Expired
  <2>2. QED
    BY <1>4, <1>6, <1>7, <2>1
<1>11. Cardinality(DOMAIN p) <= maxTenants
  <2> DEFINE D == DOMAIN m
             P == DOMAIN p
  <2>1. IsFiniteSet(D) /\ Cardinality(D) \in Nat /\ P \in SUBSET D /\ Cardinality(D) <= maxTenants
    BY <1>3, <1>7, EntryMapElim, SubsetOfTenants
  <2> HIDE DEF D, P
  <2>2. Cardinality(P) <= Cardinality(D) /\ Cardinality(P) \in Nat
    BY <2>1, FS_Subset, FS_CardinalityType
  <2>3. Cardinality(P) <= maxTenants
    BY <2>1, <2>2, ConfigTypes
  <2>4. QED
    BY <2>3 DEF P
<1> HIDE DEF p
<1>12. /\ Cardinality(DOMAIN p) >= maxTenants
       /\ \A s \in DOMAIN p \ {t} : t \in p[s].older
  BY <1>7, <1>8, <1>10, <1>11, EvictedIsOldest
<1>13. \A s \in DOMAIN p \ {t} : t \in m[s].older
  BY <1>9, <1>12
<1>14. QED
  BY <1>12, <1>13 DEF p, m, i

\* A live entry is evicted only from a Map full of live entries, and it is the
\* oldest of them: the Map loses neither a young entry nor one too many.
THEOREM OldestGoesFirst == Spec => EvictsOldestFirst
<1> DEFINE Evicts ==
      \A c \in Checks :
        StoreAndServe(c) =>
          LET m == cache[checks[c].instance] IN
          \A t \in Dropped(c) :
            /\ Cardinality(DOMAIN prune(m)) >= maxTenants
            /\ \A s \in DOMAIN prune(m) \ {t} : t \in m[s].older
<1>1. TypeOK /\ InsertionOrder /\ CacheWithinCap => Evicts
  BY DropsOldest
<1>2. QED
  BY <1>1, TypeCorrect, CapHolds, PTL DEF EvictsOldestFirst

---------------------------------------------------------------------------
(* The window.  A step other than Tick makes no list of flags older, and   *)
(* takes what it caches from an answer and what it answers from the table. *)

NothingAges ==
  \A t \in Tenants, f \in FeatureList : lastTrue'[t][f] <= lastTrue[t][f]

KeptEntry(i, t) ==
  /\ t \in DOMAIN cache[i]
  /\ cache'[i][t].features = cache[i][t].features
  /\ cache'[i][t].left = cache[i][t].left

FreshEntry(i, t) ==
  \E c \in Checks :
    /\ checks[c].phase = "answer"
    /\ checks'[c].phase = "served"
    /\ checks[c].tenant = t
    /\ cache'[i][t].features = checks[c].features
    /\ cache'[i][t].left = ttlMs

EntriesFrom ==
  \A i \in Instances : \A t \in DOMAIN cache'[i] : KeptEntry(i, t) \/ FreshEntry(i, t)

AnswersFrom ==
  \A c \in Checks : checks'[c].phase = "answer" =>
    \/ checks'[c] = checks[c]
    \/ /\ checks'[c].tenant \in Tenants
       /\ checks'[c].features = db[checks'[c].tenant]
       /\ checks'[c].lag = 0

Quiet == NothingAges /\ ContentIsTrueNow' /\ EntriesFrom /\ AnswersFrom

LEMMA SameTable ==
  ASSUME TypeOK, ContentIsTrueNow, UNCHANGED <<db, lastTrue>>
  PROVE  NothingAges /\ ContentIsTrueNow'
<1>1. \A t \in Tenants, f \in FeatureList : lastTrue[t][f] \in 0 .. Never
  BY DEF TypeOK
<1>2. \A t \in Tenants, f \in FeatureList : lastTrue[t][f] <= lastTrue[t][f]
  BY <1>1, ConfigTypes
<1>3. QED
  BY <1>2 DEF NothingAges, ContentIsTrueNow

LEMMA SameCache ==
  ASSUME UNCHANGED cache
  PROVE  EntriesFrom
BY DEF EntriesFrom, KeptEntry

LEMMA SameChecks ==
  ASSUME UNCHANGED checks
  PROVE  AnswersFrom
BY DEF AnswersFrom

LEMMA DeletedEntries ==
  ASSUME TypeOK, NEW j \in Instances, NEW S,
         cache' = [cache EXCEPT ![j] = Delete(cache[j], S)]
  PROVE  EntriesFrom
<1> SUFFICES ASSUME NEW i \in Instances, NEW t \in DOMAIN cache'[i]
             PROVE  KeptEntry(i, t)
  BY DEF EntriesFrom
<1>1. CASE i # j
  BY <1>1 DEF KeptEntry, TypeOK
<1>2. CASE i = j
  <2> DEFINE m == cache[i]
  <2>1. m \in EntryMap /\ cache'[i] = Delete(m, S)
    BY <1>2 DEF TypeOK
  <2> HIDE DEF m
  <2>2. /\ Delete(m, S) \in EntryMap
        /\ DOMAIN Delete(m, S) = DOMAIN m \ S
        /\ \A s \in DOMAIN m \ S :
             /\ Delete(m, S)[s].features = m[s].features
             /\ Delete(m, S)[s].left = m[s].left
             /\ Delete(m, S)[s].older = m[s].older \ S
    BY <2>1, DeleteType, Zenon
  <2>3. QED
    BY <2>1, <2>2 DEF KeptEntry, m
<1>3. QED
  BY <1>1, <1>2

LEMMA LoadIsQuiet ==
  ASSUME TypeOK, ContentIsTrueNow,
         NEW c \in Checks, NEW i \in Instances, NEW t \in Tenants, LoadFeatures(c, i, t)
  PROVE  Quiet
<1>1. NothingAges /\ ContentIsTrueNow'
  BY SameTable DEF LoadFeatures, ServeFromCache, Miss
<1>2. EntriesFrom
  <2>1. CASE ServeFromCache(c, i, t)
    BY <2>1, SameCache DEF ServeFromCache
  <2>2. CASE Miss(c, i, t)
    BY <2>2, DeletedEntries DEF Miss
  <2>3. QED
    BY <2>1, <2>2 DEF LoadFeatures
<1>3. AnswersFrom
  BY DEF LoadFeatures, ServeFromCache, Miss, AnswersFrom, TypeOK
<1>4. QED
  BY <1>1, <1>2, <1>3 DEF Quiet

LEMMA UpsertIsQuiet ==
  ASSUME TypeOK, ContentIsTrueNow, NEW w \in Puts, Commits(w), UNCHANGED <<cache, checks>>
  PROVE  Quiet
<1>1. puts[w] \in [phase : {"write", "abandoned"}, instance : Instances,
                   tenant : Tenants, body : Bodies, current : FeatureList]
  BY DEF Commits, TypeOK, PutState, Idle
<1> DEFINE t   == puts[w].tenant
           new == Upserted(db[t], Resolved(puts[w].body, puts[w].current))
<1>2. t \in Tenants /\ new \in FeatureList
  BY <1>1, UpsertedType DEF TypeOK
<1>3. /\ db' = [db EXCEPT ![t] = new]
      /\ lastTrue' = [lastTrue EXCEPT ![t] = [@ EXCEPT ![new] = 0]]
  BY DEF Commits, Upsert
<1> HIDE DEF new, t
<1>4. ASSUME NEW s \in Tenants, NEW f \in FeatureList
      PROVE  lastTrue'[s][f] = IF s = t /\ f = new THEN 0 ELSE lastTrue[s][f]
  BY <1>2, <1>3 DEF TypeOK
<1>5. NothingAges
  <2>1. \A s \in Tenants, f \in FeatureList : lastTrue[s][f] \in 0 .. Never
    BY DEF TypeOK
  <2>2. QED
    BY <1>4, <2>1, ConfigTypes DEF NothingAges
<1>6. ContentIsTrueNow'
  <2>1. \A s \in Tenants : db'[s] \in FeatureList /\ db'[s] = IF s = t THEN new ELSE db[s]
    BY <1>2, <1>3 DEF TypeOK
  <2>2. QED
    BY <1>4, <2>1 DEF ContentIsTrueNow
<1>7. QED
  BY <1>5, <1>6, SameCache, SameChecks DEF Quiet

LEMMA StoreIsQuiet ==
  ASSUME TypeOK, ContentIsTrueNow, NEW c \in Checks, StoreAndServe(c)
  PROVE  Quiet
<1> DEFINE j == checks[c].instance
           u == checks[c].tenant
           f == checks[c].features
<1>1. j \in Instances /\ u \in Tenants /\ f \in FeatureList
  BY AnswerInHand DEF StoreAndServe
<1>2. NothingAges /\ ContentIsTrueNow'
  BY SameTable DEF StoreAndServe
<1>3. AnswersFrom
  BY DEF StoreAndServe, AnswersFrom, TypeOK
<1>4. EntriesFrom
  <2> SUFFICES ASSUME NEW i \in Instances, NEW t \in DOMAIN cache'[i]
               PROVE  KeptEntry(i, t) \/ FreshEntry(i, t)
    BY DEF EntriesFrom
  <2>1. cache'[i] = IF i = j THEN set(cache[i], u, f) ELSE cache[i]
    BY <1>1 DEF StoreAndServe, TypeOK
  <2>2. CASE i # j
    BY <2>1, <2>2 DEF KeptEntry
  <2>3. CASE i = j
    <3> DEFINE m == cache[i]
               n == cache'[i]
    <3>1. m \in EntryMap /\ n = set(m, u, f)
      BY <2>1, <2>3 DEF TypeOK
    <3>2. checks[c].phase = "answer" /\ checks'[c].phase = "served"
      BY DEF StoreAndServe, TypeOK
    <3> HIDE DEF m, n
    <3>3. \A s \in DOMAIN n :
            \/ s = u /\ n[s].features = f /\ n[s].left = ttlMs
            \/ s \in DOMAIN m /\ n[s].features = m[s].features /\ n[s].left = m[s].left
      BY <1>1, <3>1, SetType
    <3>4. QED
      BY <3>2, <3>3 DEF KeptEntry, FreshEntry, m, n
  <2>4. QED
    BY <2>2, <2>3
<1>5. QED
  BY <1>2, <1>3, <1>4 DEF Quiet

LEMMA StepIsQuietOrTick ==
  ASSUME TypeOK, ContentIsTrueNow, [Next]_vars
  PROVE  Quiet \/ Tick
<1>1. ASSUME NEW c \in Checks, NEW i \in Instances, NEW t \in Tenants,
             BeginCheck(c, i, t)
      PROVE  Quiet
  BY <1>1, LoadIsQuiet DEF BeginCheck
<1>2. ASSUME NEW c \in Checks, NEW i \in Instances, NEW t \in Tenants,
             BeginGet(c, i, t)
      PROVE  Quiet
  <2>1. AnswersFrom
    BY <1>2 DEF BeginGet, AnswersFrom, TypeOK
  <2>2. QED
    BY <1>2, <2>1, SameTable, SameCache DEF BeginGet, Quiet
<1>3. ASSUME NEW c \in Checks, GetLookup(c)
      PROVE  Quiet
  <2>1. checks[c].instance \in Instances /\ checks[c].tenant \in Tenants
    BY <1>3 DEF GetLookup, TypeOK, CheckState, Idle
  <2>2. CASE LoadFeatures(c, checks[c].instance, checks[c].tenant)
    BY <2>1, <2>2, LoadIsQuiet
  <2>3. CASE /\ checks' = [checks EXCEPT ![c] = Idle]
             /\ UNCHANGED <<db, existing, cache, puts, lastTrue>>
    <3>1. AnswersFrom
      BY <2>3 DEF AnswersFrom, TypeOK, Idle
    <3>2. QED
      BY <2>3, <3>1, SameTable, SameCache DEF Quiet
  <2>4. QED
    BY <1>3, <2>2, <2>3 DEF GetLookup
<1>4. ASSUME NEW c \in Checks, QueryAnswered(c)
      PROVE  Quiet
  <2>1. checks[c].tenant \in Tenants
    BY <1>4 DEF QueryAnswered, TypeOK, CheckState, Idle
  <2>2. AnswersFrom
    BY <1>4, <2>1 DEF QueryAnswered, AnswersFrom, TypeOK
  <2>3. QED
    BY <1>4, <2>2, SameTable, SameCache DEF QueryAnswered, Quiet
<1>5. ASSUME NEW c \in Checks, StoreAndServe(c)
      PROVE  Quiet
  BY <1>5, StoreIsQuiet
<1>6. ASSUME NEW w \in Puts, NEW i \in Instances, NEW t \in Tenants, NEW b \in Bodies,
             BeginPut(w, i, t, b)
      PROVE  Quiet
  BY <1>6, SameTable, SameCache, SameChecks DEF BeginPut, Quiet
<1>7. ASSUME NEW w \in Puts, PutLookup(w) \/ PutReadsCurrent(w) \/ PutFails(w)
      PROVE  Quiet
  BY <1>7, SameTable, SameCache, SameChecks DEF PutLookup, PutReadsCurrent, PutFails, Quiet
<1>8. ASSUME NEW w \in Puts, PutCommits(w) \/ AbandonedCommits(w)
      PROVE  Quiet
  BY <1>8, UpsertIsQuiet DEF PutCommits, AbandonedCommits, Commits
<1>9. ASSUME NEW w \in Puts, PutReplies(w)
      PROVE  Quiet
  <2>1. puts[w].instance \in Instances
    BY <1>9 DEF PutReplies, TypeOK, PutState, Idle
  <2>2. EntriesFrom
    BY <1>9, <2>1, DeletedEntries DEF PutReplies, invalidate
  <2>3. QED
    BY <1>9, <2>2, SameTable, SameChecks DEF PutReplies, Quiet
<1>10. ASSUME NEW t \in Tenants, RemoveTenant(t)
       PROVE  Quiet
  BY <1>10, SameTable, SameCache, SameChecks DEF RemoveTenant, Quiet
<1>11. ASSUME NEW c \in Checks, CheckFails(c)
       PROVE  Quiet
  <2>1. AnswersFrom
    BY <1>11 DEF CheckFails, AnswersFrom, TypeOK, Idle
  <2>2. QED
    BY <1>11, <2>1, SameTable, SameCache DEF CheckFails, Quiet
<1>12. ASSUME NEW i \in Instances, Restart(i)
       PROVE  Quiet
  <2>1. AnswersFrom
    BY <1>12 DEF Restart, AnswersFrom, TypeOK, Idle
  <2>2. EntriesFrom
    BY <1>12 DEF Restart, EntriesFrom, KeptEntry, TypeOK
  <2>3. QED
    BY <1>12, <2>1, <2>2, SameTable DEF Restart, Quiet
<1>13. CASE UNCHANGED vars
  BY <1>13, SameTable, SameCache, SameChecks DEF vars, Quiet
<1>14. QED
  BY <1>1, <1>2, <1>3, <1>4, <1>5, <1>6, <1>7, <1>8, <1>9, <1>10, <1>11, <1>12, <1>13
  DEF Next, NextWithoutFaults, Faults, CheckStep, PutStep

LEMMA QuietKeepsAges ==
  ASSUME TypeOK, TypeOK', EntriesAgeOut, Quiet
  PROVE  EntriesAgeOut'
<1>1. ASSUME NEW t \in Tenants, NEW f \in FeatureList
      PROVE  /\ lastTrue[t][f] \in 0 .. Never
             /\ lastTrue'[t][f] \in 0 .. Never
             /\ lastTrue'[t][f] <= lastTrue[t][f]
  BY DEF TypeOK, Quiet, NothingAges
<1>2. ContentIsTrueNow'
  BY DEF Quiet
<1>3. AnswersAreRecent'
  <2> SUFFICES ASSUME NEW c \in Checks, checks'[c].phase = "answer"
               PROVE  lastTrue'[checks'[c].tenant][checks'[c].features] <= checks'[c].lag
    BY DEF AnswersAreRecent
  <2> DEFINE t == checks'[c].tenant
             f == checks'[c].features
             l == checks'[c].lag
  <2>1. t \in Tenants /\ f \in FeatureList /\ l \in 0 .. ReadLag
    BY DEF TypeOK, CheckState, Idle
  <2>2. lastTrue[t][f] <= l
    <3>1. CASE checks'[c] = checks[c]
      BY <3>1 DEF EntriesAgeOut, AnswersAreRecent
    <3>2. CASE checks'[c].features = db[checks'[c].tenant] /\ checks'[c].lag = 0
      BY <2>1, <3>2 DEF EntriesAgeOut, ContentIsTrueNow
    <3>3. QED
      BY <3>1, <3>2 DEF Quiet, AnswersFrom
  <2> HIDE DEF t, f, l
  <2>3. lastTrue'[t][f] <= l
    BY <1>1, <2>1, <2>2, ConfigTypes, LagAssumption
  <2>4. QED
    BY <2>3 DEF t, f, l
<1>4. EntriesAreRecent'
  <2> SUFFICES ASSUME NEW i \in Instances, NEW t \in DOMAIN cache'[i],
                      cache'[i][t].left > 0
               PROVE  lastTrue'[t][cache'[i][t].features] + cache'[i][t].left
                        <= ttlMs + ReadLag
    BY DEF EntriesAreRecent
  <2> DEFINE f == cache'[i][t].features
             l == cache'[i][t].left
  <2>1. t \in Tenants /\ f \in FeatureList /\ l \in 0 .. ttlMs
    BY EntryMapElim DEF TypeOK, Entry
  <2>2. lastTrue[t][f] + l <= ttlMs + ReadLag
    <3>1. CASE KeptEntry(i, t)
      BY <3>1 DEF KeptEntry, EntriesAgeOut, EntriesAreRecent
    <3>2. CASE FreshEntry(i, t)
      <4>1. PICK c \in Checks : /\ checks[c].phase = "answer"
                                /\ checks[c].tenant = t
                                /\ f = checks[c].features
                                /\ l = ttlMs
        BY <3>2 DEF FreshEntry
      <4>2. lastTrue[t][f] <= checks[c].lag
        BY <4>1 DEF EntriesAgeOut, AnswersAreRecent
      <4>3. checks[c].lag \in 0 .. ReadLag
        BY <4>1, AnswerInHand
      <4> HIDE DEF f, l
      <4>4. QED
        BY <1>1, <2>1, <4>1, <4>2, <4>3, ConfigTypes, LagAssumption
    <3>3. QED
      BY <3>1, <3>2 DEF Quiet, EntriesFrom
  <2> HIDE DEF f, l
  <2>3. lastTrue'[t][f] + l <= ttlMs + ReadLag
    BY <1>1, <2>1, <2>2, ConfigTypes, LagAssumption
  <2>4. QED
    BY <2>3 DEF f, l
<1>5. QED
  BY <1>2, <1>3, <1>4 DEF EntriesAgeOut

LEMMA TickKeepsAges ==
  ASSUME TypeOK, EntriesAgeOut, Tick
  PROVE  EntriesAgeOut'
<1>1. ASSUME NEW t \in Tenants, NEW f \in FeatureList
      PROVE  /\ lastTrue[t][f] \in 0 .. Never
             /\ lastTrue'[t][f] \in 0 .. Never
             /\ lastTrue'[t][f] <= lastTrue[t][f] + 1
             /\ f = db[t] => lastTrue'[t][f] = 0
  <2>1. lastTrue[t][f] \in 0 .. Never
    BY DEF TypeOK
  <2>2. lastTrue'[t][f] = IF f = db[t] THEN 0
          ELSE IF lastTrue[t][f] < Never THEN lastTrue[t][f] + 1 ELSE Never
    BY DEF Tick
  <2>3. QED
    BY <2>1, <2>2, ConfigTypes
<1>2. ContentIsTrueNow'
  BY <1>1 DEF ContentIsTrueNow, Tick, TypeOK
<1>3. AnswersAreRecent'
  <2> SUFFICES ASSUME NEW c \in Checks, checks'[c].phase = "answer"
               PROVE  lastTrue'[checks'[c].tenant][checks'[c].features] <= checks'[c].lag
    BY DEF AnswersAreRecent
  <2>1. checks'[c] = IF checks[c].phase = "answer" THEN [checks[c] EXCEPT !.lag = @ + 1]
                     ELSE checks[c]
    BY DEF Tick
  <2>2. checks[c].phase = "answer"
    BY <2>1
  <2> DEFINE t == checks[c].tenant
             f == checks[c].features
             l == checks[c].lag
  <2>3. /\ t \in Tenants /\ f \in FeatureList /\ l \in 0 .. ReadLag
        /\ checks'[c].tenant = t
        /\ checks'[c].features = f
        /\ checks'[c].lag = l + 1
    BY <2>1, <2>2, AnswerInHand
  <2>4. lastTrue[t][f] <= l
    BY <2>2 DEF EntriesAgeOut, AnswersAreRecent
  <2> HIDE DEF t, f, l
  <2>5. lastTrue'[t][f] <= l + 1
    BY <1>1, <2>3, <2>4, ConfigTypes, LagAssumption
  <2>6. QED
    BY <2>3, <2>5
<1>4. EntriesAreRecent'
  <2> SUFFICES ASSUME NEW i \in Instances, NEW t \in DOMAIN cache'[i],
                      cache'[i][t].left > 0
               PROVE  lastTrue'[t][cache'[i][t].features] + cache'[i][t].left
                        <= ttlMs + ReadLag
    BY DEF EntriesAreRecent
  <2>1. cache'[i] = [s \in DOMAIN cache[i] |->
          [cache[i][s] EXCEPT !.left = IF @ > 0 THEN @ - 1 ELSE 0]]
    BY DEF Tick
  <2> DEFINE e == cache[i][t]
  <2>2. t \in Tenants /\ e \in Entry /\ t \in DOMAIN cache[i]
    BY <2>1, EntryMapElim DEF TypeOK
  <2>3. cache'[i][t] = [e EXCEPT !.left = IF e.left > 0 THEN e.left - 1 ELSE 0]
    BY <2>1, <2>2
  <2> DEFINE f == e.features
             l == e.left
  <2>4. f \in FeatureList /\ l \in 0 .. ttlMs
    BY <2>2 DEF Entry
  <2>5. cache'[i][t].features = f
    BY <2>2, <2>3 DEF Entry
  <2>6. cache'[i][t].left = IF l > 0 THEN l - 1 ELSE 0
    BY <2>2, <2>3 DEF Entry
  <2>7. l > 0 => lastTrue[t][f] + l <= ttlMs + ReadLag
    BY <2>2 DEF EntriesAgeOut, EntriesAreRecent
  <2> HIDE DEF e, f, l
  <2>8. l > 0
    BY <2>4, <2>6, ConfigTypes
  <2>9. lastTrue'[t][f] + (l - 1) <= ttlMs + ReadLag
    BY <1>1, <2>2, <2>4, <2>7, <2>8, ConfigTypes, LagAssumption
  <2>10. QED
    BY <2>5, <2>6, <2>8, <2>9
<1>5. QED
  BY <1>2, <1>3, <1>4 DEF EntriesAgeOut

LEMMA AgesInit == Init => EntriesAgeOut
<1> SUFFICES ASSUME Init PROVE EntriesAgeOut
  OBVIOUS
<1>1. [k \in {} |-> Null] \in FeatureList
  BY DEF FeatureList
<1>2. ContentIsTrueNow
  BY <1>1 DEF Init, ContentIsTrueNow
<1>3. AnswersAreRecent
  BY DEF Init, AnswersAreRecent, Idle
<1>4. EntriesAreRecent
  BY DEF Init, EntriesAreRecent
<1>5. QED
  BY <1>2, <1>3, <1>4 DEF EntriesAgeOut

\* What a process may still serve from its cache was true at most
\* ttlMs + ReadLag before the entry expires, whatever instances, faults and
\* writes there are.
THEOREM EntriesAlwaysAgeOut == Spec => []EntriesAgeOut
<1>1. TypeOK /\ TypeOK' /\ EntriesAgeOut /\ [Next]_vars => EntriesAgeOut'
  <2> SUFFICES ASSUME TypeOK, TypeOK', EntriesAgeOut, [Next]_vars
               PROVE  EntriesAgeOut'
    OBVIOUS
  <2>1. ContentIsTrueNow
    BY DEF EntriesAgeOut
  <2>2. QED
    BY <2>1, StepIsQuietOrTick, QuietKeepsAges, TickKeepsAges
<1>2. QED
  BY <1>1, AgesInit, TypeCorrect, PTL DEF Spec

\* A check ends either on a live entry or on the answer it has in hand.
ServedFromCache(c) ==
  \E i \in Instances : \E t \in DOMAIN cache[i] :
    /\ cache[i][t].left > 0
    /\ checks'[c].tenant = t
    /\ checks'[c].features = cache[i][t].features

ServedFromAnswer(c) ==
  /\ checks[c].phase = "answer"
  /\ checks'[c].tenant = checks[c].tenant
  /\ checks'[c].features = checks[c].features

LEMMA ServedFrom ==
  ASSUME TypeOK, [Next]_vars, NEW c \in Checks,
         checks'[c] # checks[c], checks'[c].phase = "served"
  PROVE  ServedFromCache(c) \/ ServedFromAnswer(c)
<1>1. ASSUME NEW d \in Checks, NEW i \in Instances, NEW t \in Tenants,
             LoadFeatures(d, i, t)
      PROVE  ServedFromCache(c)
  <2>1. CASE ServeFromCache(d, i, t)
    <3>1. /\ t \in DOMAIN cache[i]
          /\ cache[i][t].left > 0
          /\ checks' = [checks EXCEPT ![d] =
               [phase |-> "served", tenant |-> t, features |-> cache[i][t].features]]
      BY <2>1 DEF ServeFromCache, Hit
    <3>2. checks'[c] = [phase |-> "served", tenant |-> t, features |-> cache[i][t].features]
      BY <3>1 DEF TypeOK
    <3>3. QED
      BY <3>1, <3>2 DEF ServedFromCache
  <2>2. CASE Miss(d, i, t)
    BY <2>2 DEF Miss, TypeOK
  <2>3. QED
    BY <1>1, <2>1, <2>2 DEF LoadFeatures
<1>2. ASSUME NEW d \in Checks, GetLookup(d)
      PROVE  ServedFromCache(c)
  <2>1. checks[d].instance \in Instances /\ checks[d].tenant \in Tenants
    BY <1>2 DEF GetLookup, TypeOK, CheckState, Idle
  <2>2. LoadFeatures(d, checks[d].instance, checks[d].tenant)
    BY <1>2 DEF GetLookup, TypeOK, Idle
  <2>3. QED
    BY <1>1, <2>1, <2>2
<1>3. ASSUME NEW d \in Checks, StoreAndServe(d)
      PROVE  ServedFromAnswer(c)
  BY <1>3 DEF StoreAndServe, ServedFromAnswer, TypeOK
<1>4. ASSUME NEW d \in Checks, NEW i \in Instances, NEW t \in Tenants,
             BeginCheck(d, i, t) \/ BeginGet(d, i, t)
      PROVE  ServedFromCache(c)
  <2>1. ~BeginGet(d, i, t)
    BY DEF BeginGet, TypeOK
  <2>2. QED
    BY <1>1, <1>4, <2>1 DEF BeginCheck
<1>5. ASSUME NEW d \in Checks PROVE ~QueryAnswered(d) /\ ~CheckFails(d)
  BY DEF QueryAnswered, CheckFails, TypeOK, Idle
<1>6. ~Tick
  <2> SUFFICES ASSUME Tick PROVE FALSE
    OBVIOUS
  <2>1. checks'[c] = IF checks[c].phase = "answer" THEN [checks[c] EXCEPT !.lag = @ + 1]
                     ELSE checks[c]
    BY DEF Tick
  <2>2. checks[c].phase = "answer"
    BY <2>1
  <2>3. checks'[c].phase = "answer"
    BY <2>1, <2>2, AnswerInHand
  <2>4. QED
    BY <2>3
<1>7. ASSUME NEW i \in Instances PROVE ~Restart(i)
  BY DEF Restart, TypeOK, Idle
<1>8. ASSUME NEW w \in Puts
      PROVE  /\ ~PutStep(w) /\ ~PutFails(w) /\ ~AbandonedCommits(w)
             /\ \A i \in Instances, t \in Tenants, b \in Bodies : ~BeginPut(w, i, t, b)
  BY DEF PutStep, PutLookup, PutReadsCurrent, PutCommits, PutReplies, PutFails,
         AbandonedCommits, BeginPut
<1>9. ASSUME NEW t \in Tenants PROVE ~RemoveTenant(t)
  BY DEF RemoveTenant
<1>10. ~UNCHANGED vars
  BY DEF vars
<1>11. QED
  BY <1>2, <1>3, <1>4, <1>5, <1>6, <1>7, <1>8, <1>9, <1>10
  DEF Next, NextWithoutFaults, Faults, CheckStep

\* The guarantee the cache's comment gives for any number of instances, with the
\* latency of a read made explicit: every check is decided on flags that were the
\* tenant's content of the table at most Window ago.
THEOREM WindowHolds == Spec => ServedWithinWindow
<1> DEFINE Served ==
      \A c \in Checks :
        checks'[c] # checks[c] /\ checks'[c].phase = "served" =>
          lastTrue[checks'[c].tenant][checks'[c].features] <= Window
<1>1. TypeOK /\ EntriesAgeOut /\ [Next]_vars => [Served]_vars
  <2> SUFFICES ASSUME TypeOK, EntriesAgeOut, [Next]_vars, NEW c \in Checks,
                      checks'[c] # checks[c], checks'[c].phase = "served"
               PROVE  lastTrue[checks'[c].tenant][checks'[c].features] <= Window
    OBVIOUS
  <2> DEFINE t == checks'[c].tenant
             f == checks'[c].features
  <2>1. CASE ServedFromCache(c)
    <3>1. PICK i \in Instances : /\ t \in DOMAIN cache[i]
                                 /\ cache[i][t].left > 0
                                 /\ f = cache[i][t].features
      BY <2>1 DEF ServedFromCache
    <3> DEFINE l == cache[i][t].left
    <3>2. t \in Tenants /\ f \in FeatureList /\ l \in 0 .. ttlMs
      BY <3>1, EntryMapElim DEF TypeOK, Entry
    <3>3. lastTrue[t][f] + l <= ttlMs + ReadLag
      BY <3>1 DEF EntriesAgeOut, EntriesAreRecent
    <3>4. lastTrue[t][f] \in 0 .. Never
      BY <3>2 DEF TypeOK
    <3> HIDE DEF t, f
    <3>5. l > 0
      BY <3>1
    <3> HIDE DEF l
    <3>6. lastTrue[t][f] <= Window
      BY <3>2, <3>3, <3>4, <3>5, ConfigTypes, LagAssumption DEF Window
    <3>7. QED
      BY <3>6 DEF t, f
  <2>2. CASE ServedFromAnswer(c)
    <3> DEFINE l == checks[c].lag
    <3>1. t \in Tenants /\ f \in FeatureList /\ l \in 0 .. ReadLag
      BY <2>2, AnswerInHand DEF ServedFromAnswer
    <3>2. lastTrue[t][f] <= l
      BY <2>2 DEF ServedFromAnswer, EntriesAgeOut, AnswersAreRecent
    <3>3. lastTrue[t][f] \in 0 .. Never
      BY <3>1 DEF TypeOK
    <3> HIDE DEF t, f, l
    <3>4. lastTrue[t][f] <= Window
      BY <3>1, <3>2, <3>3, ConfigTypes, LagAssumption DEF Window
    <3>5. QED
      BY <3>4 DEF t, f
  <2>3. QED
    BY <2>1, <2>2, ServedFrom
<1>2. QED
  BY <1>1, TypeCorrect, EntriesAlwaysAgeOut, PTL DEF Spec, ServedWithinWindow

---------------------------------------------------------------------------
(* Old flags after a PUT.                                                  *)

\* Only the statement of a PUT changes the table: of one that now waits for its reply,
\* or of one that is gone.
LEMMA WhoChangesTheTable ==
  ASSUME TypeOK, [Next]_vars, NEW t \in Tenants, db'[t] # db[t]
  PROVE  \E w \in Puts :
           \/ puts'[w].phase = "written" /\ puts'[w].tenant = t
           \/ puts[w].phase = "abandoned" /\ puts[w].tenant = t
<1>1. ASSUME NEW w \in Puts, Upsert(w)
      PROVE  puts[w].tenant = t
  BY <1>1 DEF Upsert, TypeOK
<1>2. ASSUME NEW w \in Puts, PutCommits(w)
      PROVE  puts'[w].phase = "written" /\ puts'[w].tenant = t
  BY <1>1, <1>2 DEF PutCommits, TypeOK
<1>3. ASSUME NEW w \in Puts, AbandonedCommits(w)
      PROVE  puts[w].phase = "abandoned" /\ puts[w].tenant = t
  BY <1>1, <1>3 DEF AbandonedCommits
<1>4. ASSUME NEW c \in Checks, NEW i \in Instances, NEW u \in Tenants, LoadFeatures(c, i, u)
      PROVE  FALSE
  BY <1>4 DEF LoadFeatures, ServeFromCache, Miss
<1>5. ASSUME NEW c \in Checks, CheckStep(c) \/ CheckFails(c)
      PROVE  FALSE
  BY <1>5 DEF CheckStep, GetLookup, LoadFeatures, ServeFromCache, Miss, QueryAnswered,
              StoreAndServe, CheckFails
<1>6. ASSUME NEW w \in Puts, PutLookup(w) \/ PutReadsCurrent(w) \/ PutReplies(w) \/ PutFails(w)
      PROVE  FALSE
  BY <1>6 DEF PutLookup, PutReadsCurrent, PutReplies, PutFails
<1>7. CASE \/ \E c \in Checks, i \in Instances, u \in Tenants :
                BeginCheck(c, i, u) \/ BeginGet(c, i, u)
           \/ \E w \in Puts, i \in Instances, u \in Tenants, b \in Bodies : BeginPut(w, i, u, b)
           \/ \E u \in Tenants : RemoveTenant(u)
           \/ Tick \/ UNCHANGED vars \/ \E i \in Instances : Restart(i)
  BY <1>4, <1>7 DEF BeginCheck, BeginGet, BeginPut, RemoveTenant, Tick, Restart, vars
<1>8. QED
  BY <1>2, <1>3, <1>5, <1>6, <1>7 DEF Next, NextWithoutFaults, Faults, CheckStep, PutStep

\* While the table keeps its flags, a live entry that says something else was there
\* before, or is what a read stores too late.
LEMMA WhereStaleComesFrom ==
  ASSUME TypeOK, ContentIsTrueNow, [Next]_vars, NEW i \in Instances, NEW t \in Tenants,
         db'[t] = db[t], Stale(i, t)'
  PROVE  Stale(i, t) \/ \E c \in Checks : StoresLate(c, t)
<1>1. t \in DOMAIN cache'[i] /\ cache'[i][t].left > 0 /\ cache'[i][t].features # db[t]
  BY DEF Stale, Hit
<1>2. CASE Quiet
  <2>1. KeptEntry(i, t) \/ FreshEntry(i, t)
    BY <1>1, <1>2 DEF Quiet, EntriesFrom
  <2>2. QED
    BY <1>1, <2>1 DEF KeptEntry, FreshEntry, Stale, Hit, StoresLate
<1>3. CASE Tick
  <2>1. cache'[i] = [u \in DOMAIN cache[i] |->
          [cache[i][u] EXCEPT !.left = IF @ > 0 THEN @ - 1 ELSE 0]]
    BY <1>3 DEF Tick
  <2>2. t \in DOMAIN cache[i] /\ cache[i][t] \in Entry
    BY <1>1, <2>1, EntryMapElim DEF TypeOK
  <2>3. cache'[i][t].features = cache[i][t].features /\ cache[i][t].left > 0
    BY <1>1, <2>1, <2>2 DEF Entry
  <2>4. QED
    BY <1>1, <2>2, <2>3 DEF Stale, Hit
<1>4. QED
  BY <1>2, <1>3, StepIsQuietOrTick

\* A PUT that has written and replies at process i leaves nothing cached there.
LEMMA InvalidatedHere ==
  ASSUME TypeOK, NEW w \in Puts, PutReplies(w)
  PROVE  puts[w].tenant \notin DOMAIN cache'[puts[w].instance]
<1>1. puts[w].instance \in Instances
  BY DEF PutReplies, TypeOK, PutState, Idle
<1>2. cache'[puts[w].instance] = Delete(cache[puts[w].instance], {puts[w].tenant})
  BY <1>1 DEF PutReplies, invalidate, TypeOK
<1>3. QED
  BY <1>2 DEF Delete

\* Why flags that a PUT replaced stay cached after it
\* (BulkUpdateTenantFeaturesUseCase.execute, TenantFeatureService.loadFeatures).
THEOREM OldFlagsOutliveAPutForAReason == Spec => WhyOldFlagsOutliveAPut
<1>1. ASSUME TypeOK, ContentIsTrueNow, [Next]_vars, NEW i \in Instances, NEW t \in Tenants,
             ~SettledStale(i, t), SettledStale(i, t)'
      PROVE  \/ \E c \in Checks : StoresLate(c, t)
             \/ \E w \in Puts : NotInvalidatedHere(w, i, t)
  <2>1. Stale(i, t)' /\ \A w \in Puts : puts'[w].phase = "written" => puts'[w].tenant # t
    BY <1>1 DEF SettledStale
  <2>2. ASSUME NEW w \in Puts, puts[w].phase \in {"written", "abandoned"}, puts[w].tenant = t
        PROVE  NotInvalidatedHere(w, i, t)
    <3>1. PutReplies(w) => puts[w].instance # i
      BY <1>1, <2>1, <2>2, InvalidatedHere DEF Stale, Hit
    <3>2. QED
      BY <2>2, <3>1 DEF NotInvalidatedHere
  <2>3. CASE db'[t] # db[t]
    BY <1>1, <2>1, <2>2, <2>3, WhoChangesTheTable
  <2>4. CASE db'[t] = db[t] /\ ~Stale(i, t)
    BY <1>1, <2>1, <2>4, WhereStaleComesFrom
  <2>5. CASE Stale(i, t)
    BY <1>1, <2>2, <2>5 DEF SettledStale
  <2>6. QED
    BY <2>3, <2>4, <2>5
<1>2. TypeOK /\ EntriesAgeOut /\ [Next]_vars =>
        [\A i \in Instances, t \in Tenants :
           ~SettledStale(i, t) /\ SettledStale(i, t)' =>
             \/ \E c \in Checks : StoresLate(c, t)
             \/ \E w \in Puts : NotInvalidatedHere(w, i, t)]_vars
  BY <1>1 DEF EntriesAgeOut
<1>3. QED
  BY <1>2, TypeCorrect, EntriesAlwaysAgeOut, PTL DEF Spec, WhyOldFlagsOutliveAPut

\* A PUT that leaves a limit out, and that no other write has overtaken since it read,
\* keeps it (resolveNumericValue, upsertMany).
THEOREM OmittedLimitsStay == Spec => AbsentKeepsUncontendedLimit
<1>1. ASSUME TypeOK, NEW w \in Puts, Commits(w), puts[w].current = db[puts[w].tenant]
      PROVE  KeepsAbsent(w)
  <2> DEFINE t    == puts[w].tenant
             body == puts[w].body
             rows == Resolved(body, db[t])
  <2>1. puts[w] \in [phase : {"write", "abandoned"}, instance : Instances,
                     tenant : Tenants, body : Bodies, current : FeatureList]
    BY <1>1 DEF Commits, TypeOK, PutState, Idle
  <2>2. db'[t] = Upserted(db[t], rows)
    BY <1>1, <2>1 DEF Commits, Upsert, TypeOK
  <2>3. ASSUME NEW k \in DOMAIN body, body[k].numericValue = Absent
        PROVE  NumericLimit(db'[t], k) = NumericLimit(db[t], k)
    <3>1. k \in DOMAIN rows /\ rows[k].numericValue = NumericLimit(db[t], k)
      BY <2>3 DEF Resolved, ResolveNumericValue
    <3> HIDE DEF rows, t, body
    <3>2. k \in DOMAIN db'[t] /\ db'[t][k] = rows[k]
      BY <2>2, <3>1 DEF Upserted
    <3>3. QED
      BY <3>1, <3>2 DEF NumericLimit
  <2>4. QED
    BY <2>3 DEF KeepsAbsent
<1>2. TypeOK /\ [Next]_vars =>
        [\A w \in Puts : Commits(w) /\ puts[w].current = db[puts[w].tenant] => KeepsAbsent(w)]_vars
  BY <1>1
<1>3. QED
  BY <1>2, TypeCorrect, PTL DEF Spec, AbsentKeepsUncontendedLimit
=============================================================================
