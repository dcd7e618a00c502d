----------------------------- MODULE TenantFeatures -----------------------------
(***************************************************************************)
(* Feature flags per tenant: the table of flags in the database, the       *)
(* per-process TTL cache in front of it, the reads that fill the cache     *)
(* (FeatureGuard, numeric limits, GET) and the bulk PUT that invalidates   *)
(* it, on several instances of the API that share one database.            *)
(*                                                                         *)
(* A handler is cut where it awaits the database.  Each piece between two  *)
(* awaits is one action, because JavaScript runs it without interleaving.  *)
(*                                                                         *)
(* Time is discrete and kept as ages: an entry stores left, which is       *)
(* expiresAt - Date.now() (0 once it is not positive), and Tick lowers it. *)
(***************************************************************************)
EXTENDS Integers, FiniteSets

CONSTANTS
  Instances,      \* processes of the API
  Tenants,        \* tenant ids
  Keys,           \* feature keys
  Limits,         \* integers a client may send as numericValue
  Null,           \* numericValue: null
  Absent,         \* numericValue left out of the body
  Bodies,         \* bodies of PUT admin/tenants/:id/features that pass the schema
  Checks,         \* slots for concurrent reads of flags
  Puts,           \* slots for concurrent PUTs
  ConfiguredTtl,  \* TENANT_FEATURE_CACHE_TTL_MS; negative: unset or refused
  DefaultTtl,     \* DEFAULT_CACHE_TTL_MS
  ConfiguredCap,  \* TENANT_FEATURE_CACHE_MAX_TENANTS; not positive: refused
  DefaultCap,     \* DEFAULT_CACHE_MAX_TENANTS
  ReadLag         \* bound: time from the database's answer to its use

Row         == [enabled : BOOLEAN, numericValue : Limits \cup {Null}]
SentRow     == [enabled : BOOLEAN, numericValue : Limits \cup {Null, Absent}]
FeatureList == UNION {[K -> Row] : K \in SUBSET Keys}

ASSUME TtlAssumption  == ConfiguredTtl \in Int /\ DefaultTtl \in Nat \ {0}
ASSUME CapAssumption  == ConfiguredCap \in Int /\ DefaultCap \in Nat \ {0}
ASSUME LagAssumption  == ReadLag \in Nat
ASSUME FiniteTenants  == IsFiniteSet(Tenants)
ASSUME NullNotAbsent  == Absent \notin Limits \cup {Null}
ASSUME BodyAssumption ==
  Bodies \subseteq UNION {[K -> SentRow] : K \in (SUBSET Keys) \ {{}}}

\* readNonNegativeInt and readPositiveInt on the environment
ttlMs      == IF ConfiguredTtl >= 0 THEN ConfiguredTtl ELSE DefaultTtl
maxTenants == IF ConfiguredCap > 0 THEN ConfiguredCap ELSE DefaultCap

VARIABLES
  db,        \* db[t]: the rows of tenant t, a function on the keys that have one
  existing,  \* tenants that are not soft-deleted
  cache,     \* cache[i]: the Map of instance i, a function on the tenants it holds
  checks,    \* checks[c]: the read in slot c
  puts,      \* puts[w]: the PUT in slot w
  lastTrue   \* history: time since a list of flags was last the content of the table

vars == <<db, existing, cache, checks, puts, lastTrue>>

Never == ttlMs + ReadLag + 1   \* lastTrue saturates here
Idle  == [phase |-> "idle"]

---------------------------------------------------------------------------
(* The cache of one process: m is its Map.  A Map iterates in insertion    *)
(* order, kept here as the set of tenants inserted before each entry.      *)

Entry == [features : FeatureList, left : 0 .. ttlMs, older : SUBSET Tenants]
EntryMap == UNION {[S -> Entry] : S \in SUBSET Tenants}

Delete(m, S) ==
  [t \in DOMAIN m \ S |-> [m[t] EXCEPT !.older = @ \ S]]

Expired(m) == {t \in DOMAIN m : m[t].left <= 0}

\* Bug: an entry is still served at the instant it expires.
Hit_AtExpiry(m, t) == t \in DOMAIN m /\ m[t].left >= 0

\* Bug: get does not look at expiresAt.
Hit_NeverExpires(m, t) == t \in DOMAIN m

Hit(m, t) == t \in DOMAIN m /\ m[t].left > 0

prune(m) == Delete(m, Expired(m))

\* Bug: the loop runs while size > maxTenants.
Evicted_OneTooFew(m) ==
  {t \in DOMAIN m :
     Cardinality({s \in DOMAIN m : t \in m[s].older}) >= maxTenants}

\* The keys the loop "while size >= maxTenants, delete the first" removes: all
\* but the maxTenants - 1 newest.
Evicted(m) ==
  {t \in DOMAIN m :
     Cardinality({s \in DOMAIN m : t \in m[s].older}) >= maxTenants - 1}

\* Bug: evicts before it prunes.
MakeRoom_PruneLast(m) == prune(Delete(m, Evicted(m)))

MakeRoom(m) == LET p == prune(m) IN Delete(p, Evicted(p))

\* Bug: the entry lives one instant too long.
Put_LivesLonger(m, t, f) ==
  [s \in DOMAIN m \cup {t} |->
     IF s # t THEN m[s]
     ELSE [features |-> f,
           left     |-> ttlMs + 1,
           older    |-> IF t \in DOMAIN m THEN m[t].older ELSE DOMAIN m]]

\* Map.set on a key that is there keeps the key's position.
Put(m, t, f) ==
  [s \in DOMAIN m \cup {t} |->
     IF s # t THEN m[s]
     ELSE [features |-> f,
           left     |-> ttlMs,
           older    |-> IF t \in DOMAIN m THEN m[t].older ELSE DOMAIN m]]

set(m, t, f) == IF ttlMs = 0 THEN m ELSE Put(MakeRoom(m), t, f)

invalidate(m, t) == Delete(m, {t})

---------------------------------------------------------------------------
(* What a list of flags says, and what a PUT writes.                       *)

\* Bug: a key without a row is disabled.
IsFeatureEnabled_OptIn(f, k) == k \in DOMAIN f /\ f[k].enabled

\* A key without a row is enabled: flags are opt-out.
IsFeatureEnabled(f, k) == k \in DOMAIN f => f[k].enabled

NumericLimit(f, k) == IF k \in DOMAIN f THEN f[k].numericValue ELSE Null

\* Bug: undefined reaches the column.
ResolveNumericValue_KeepsAbsent(sent, current, k) == sent

\* Bug: a body without numericValue clears the stored limit.
ResolveNumericValue_Clears(sent, current, k) == IF sent # Absent THEN sent ELSE Null

ResolveNumericValue(sent, current, k) ==
  IF sent # Absent THEN sent ELSE NumericLimit(current, k)

\* The rows a PUT builds from its body and the flags it read.
Resolved(body, current) ==
  [k \in DOMAIN body |->
     [enabled      |-> body[k].enabled,
      numericValue |-> ResolveNumericValue(body[k].numericValue, current, k)]]

Upserted(f, rows) ==
  [k \in DOMAIN f \cup DOMAIN rows |-> IF k \in DOMAIN rows THEN rows[k] ELSE f[k]]

---------------------------------------------------------------------------
Init ==
  /\ db = [t \in Tenants |-> [k \in {} |-> Null]]
  /\ existing = Tenants
  /\ cache = [i \in Instances |-> [t \in {} |-> Null]]
  /\ checks = [c \in Checks |-> Idle]
  /\ puts = [w \in Puts |-> Idle]
  /\ lastTrue =
       [t \in Tenants |-> [f \in FeatureList |-> IF f = db[t] THEN 0 ELSE Never]]

---------------------------------------------------------------------------
(* Reads.  FeatureGuard and getNumericLimit go straight to loadFeatures;   *)
(* the GET routes look the tenant up first.                                *)

Free(c) == checks[c].phase \in {"idle", "served"}

ServeFromCache(c, i, t) ==
  /\ Hit(cache[i], t)
  /\ checks' = [checks EXCEPT ![c] =
       [phase |-> "served", tenant |-> t, features |-> cache[i][t].features]]
  /\ UNCHANGED <<db, existing, cache, puts, lastTrue>>

\* get() deletes the entry it finds expired, then the query is sent.
Miss(c, i, t) ==
  /\ ~Hit(cache[i], t)
  /\ cache' = [cache EXCEPT ![i] = Delete(@, {t})]
  /\ checks' = [checks EXCEPT ![c] = [phase |-> "query", instance |-> i, tenant |-> t]]
  /\ UNCHANGED <<db, existing, puts, lastTrue>>

LoadFeatures(c, i, t) == ServeFromCache(c, i, t) \/ Miss(c, i, t)

BeginCheck(c, i, t) == Free(c) /\ LoadFeatures(c, i, t)

BeginGet(c, i, t) ==
  /\ Free(c)
  /\ checks' = [checks EXCEPT ![c] = [phase |-> "lookup", instance |-> i, tenant |-> t]]
  /\ UNCHANGED <<db, existing, cache, puts, lastTrue>>

GetLookup(c) ==
  /\ checks[c].phase = "lookup"
  /\ \/ /\ checks[c].tenant \in existing
        /\ LoadFeatures(c, checks[c].instance, checks[c].tenant)
     \/ /\ checks[c].tenant \notin existing      \* 404 TENANT_NOT_FOUND
        /\ checks' = [checks EXCEPT ![c] = Idle]
        /\ UNCHANGED <<db, existing, cache, puts, lastTrue>>

\* The database evaluates findByTenantId.
QueryAnswered(c) ==
  /\ checks[c].phase = "query"
  /\ checks' = [checks EXCEPT ![c] =
       [phase    |-> "answer",
        instance |-> checks[c].instance,
        tenant   |-> checks[c].tenant,
        features |-> db[checks[c].tenant],
        lag      |-> 0]]
  /\ UNCHANGED <<db, existing, cache, puts, lastTrue>>

\* The continuation of the await in loadFeatures.
StoreAndServe(c) ==
  /\ checks[c].phase = "answer"
  /\ LET t == checks[c].tenant
         f == checks[c].features
     IN /\ cache' = [cache EXCEPT ![checks[c].instance] = set(@, t, f)]
        /\ checks' = [checks EXCEPT ![c] =
             [phase |-> "served", tenant |-> t, features |-> f]]
  /\ UNCHANGED <<db, existing, puts, lastTrue>>

---------------------------------------------------------------------------
(* The bulk PUT.                                                           *)

BeginPut(w, i, t, body) ==
  /\ puts[w].phase = "idle"
  /\ puts' = [puts EXCEPT ![w] =
       [phase |-> "lookup", instance |-> i, tenant |-> t, body |-> body]]
  /\ UNCHANGED <<db, existing, cache, checks, lastTrue>>

\* Bug: the tenant is not looked up.
PutLookup_Unchecked(w) ==
  /\ puts[w].phase = "lookup"
  /\ puts' = [puts EXCEPT ![w] = [@ EXCEPT !.phase = "read"]]
  /\ UNCHANGED <<db, existing, cache, checks, lastTrue>>

PutLookup(w) ==
  /\ puts[w].phase = "lookup"
  /\ puts' = [puts EXCEPT ![w] =
       IF puts[w].tenant \in existing THEN [@ EXCEPT !.phase = "read"] ELSE Idle]
  /\ UNCHANGED <<db, existing, cache, checks, lastTrue>>

PutReadsCurrent(w) ==
  /\ puts[w].phase = "read"
  /\ puts' = [puts EXCEPT ![w] =
       [phase    |-> "write",
        instance |-> puts[w].instance,
        tenant   |-> puts[w].tenant,
        body     |-> puts[w].body,
        current  |-> db[puts[w].tenant]]]
  /\ UNCHANGED <<db, existing, cache, checks, lastTrue>>

\* One INSERT ... ON CONFLICT DO UPDATE: all the rows or none.
Upsert(w) ==
  LET t   == puts[w].tenant
      new == Upserted(db[t], Resolved(puts[w].body, puts[w].current))
  IN /\ db' = [db EXCEPT ![t] = new]
     /\ lastTrue' = [lastTrue EXCEPT ![t] = [@ EXCEPT ![new] = 0]]

PutCommits(w) ==
  /\ puts[w].phase = "write"
  /\ Upsert(w)
  /\ puts' = [puts EXCEPT ![w] =
       [phase |-> "written", instance |-> puts[w].instance, tenant |-> puts[w].tenant]]
  /\ UNCHANGED <<existing, cache, checks>>

\* Bug: replies without invalidating.
PutReplies_KeepsCache(w) ==
  /\ puts[w].phase = "written"
  /\ puts' = [puts EXCEPT ![w] = Idle]
  /\ UNCHANGED <<db, existing, cache, checks, lastTrue>>

\* The re-read of the written keys has answered: invalidate and reply.
PutReplies(w) ==
  /\ puts[w].phase = "written"
  /\ cache' = [cache EXCEPT ![puts[w].instance] = invalidate(@, puts[w].tenant)]
  /\ puts' = [puts EXCEPT ![w] = Idle]
  /\ UNCHANGED <<db, existing, checks, lastTrue>>

---------------------------------------------------------------------------
(* The surroundings: time, the tenant's removal, and failures.             *)

\* The answers already at a process are used before they are older than ReadLag.
Tick ==
  /\ \A c \in Checks : checks[c].phase = "answer" => checks[c].lag < ReadLag
  /\ cache' = [i \in Instances |->
       [t \in DOMAIN cache[i] |->
          [cache[i][t] EXCEPT !.left = IF @ > 0 THEN @ - 1 ELSE 0]]]
  /\ checks' = [c \in Checks |->
       IF checks[c].phase = "answer" THEN [checks[c] EXCEPT !.lag = @ + 1]
       ELSE checks[c]]
  /\ lastTrue' = [t \in Tenants |-> [f \in FeatureList |->
       IF f = db[t] THEN 0
       ELSE IF lastTrue[t][f] < Never THEN lastTrue[t][f] + 1 ELSE Never]]
  /\ UNCHANGED <<db, existing, puts>>

\* TenantController.remove; the flags and the cache entries stay.
RemoveTenant(t) ==
  /\ existing' = existing \ {t}
  /\ UNCHANGED <<db, cache, checks, puts, lastTrue>>

\* A query of a read rejects: loadFeatures stores nothing.
CheckFails(c) ==
  /\ checks[c].phase \in {"lookup", "query"}
  /\ checks' = [checks EXCEPT ![c] = Idle]
  /\ UNCHANGED <<db, existing, cache, puts, lastTrue>>

\* Every PUT in S fails, at whatever await it is: it invalidates nothing.  The
\* database may still hold, and later execute, the statement of one that fails
\* while it writes.
Running == {w \in Puts : puts[w].phase \in {"lookup", "read", "write", "written"}}

Abort(S) ==
  \E sent \in SUBSET {w \in S : puts[w].phase = "write"} :
    puts' = [w \in Puts |->
      IF w \notin S THEN puts[w]
      ELSE IF w \in sent THEN [puts[w] EXCEPT !.phase = "abandoned"] ELSE Idle]

PutFails(w) ==
  /\ w \in Running
  /\ Abort({w})
  /\ UNCHANGED <<db, existing, cache, checks, lastTrue>>

AbandonedCommits(w) ==
  /\ puts[w].phase = "abandoned"
  /\ Upsert(w)
  /\ puts' = [puts EXCEPT ![w] = Idle]
  /\ UNCHANGED <<existing, cache, checks>>

\* The process dies and is started again: its Map and its requests are gone.
Restart(i) ==
  /\ cache' = [cache EXCEPT ![i] = [t \in {} |-> Null]]
  /\ checks' = [c \in Checks |->
       IF checks[c].phase \in {"lookup", "query", "answer"} /\ checks[c].instance = i
       THEN Idle ELSE checks[c]]
  /\ Abort({w \in Running : puts[w].instance = i})
  /\ UNCHANGED <<db, existing, lastTrue>>

---------------------------------------------------------------------------
CheckStep(c) == GetLookup(c) \/ QueryAnswered(c) \/ StoreAndServe(c)

PutStep(w) ==
  PutLookup(w) \/ PutReadsCurrent(w) \/ PutCommits(w) \/ PutReplies(w)

NextWithoutFaults ==
  \/ \E c \in Checks, i \in Instances, t \in Tenants :
       BeginCheck(c, i, t) \/ BeginGet(c, i, t)
  \/ \E c \in Checks : CheckStep(c)
  \/ \E w \in Puts, i \in Instances, t \in Tenants, b \in Bodies : BeginPut(w, i, t, b)
  \/ \E w \in Puts : PutStep(w)
  \/ \E t \in Tenants : RemoveTenant(t)
  \/ Tick

Faults ==
  \/ \E c \in Checks : CheckFails(c)
  \/ \E w \in Puts : PutFails(w) \/ AbandonedCommits(w)
  \/ \E i \in Instances : Restart(i)

Next == NextWithoutFaults \/ Faults

Spec == Init /\ [][Next]_vars

SpecWithoutFaults == Init /\ [][NextWithoutFaults]_vars

\* Time passes, the database answers or refuses every query, and the event loop
\* runs every continuation.  Nobody is obliged to send a request.
Fairness ==
  /\ WF_vars(Tick)
  /\ \A c \in Checks : WF_vars(CheckStep(c))
  /\ \A w \in Puts : WF_vars(PutStep(w))

FairSpec == Spec /\ Fairness

---------------------------------------------------------------------------
(* Properties.                                                             *)

\* Type invariant.
CheckState ==
  {Idle}
  \cup [phase : {"lookup", "query"}, instance : Instances, tenant : Tenants]
  \cup [phase : {"answer"}, instance : Instances, tenant : Tenants,
        features : FeatureList, lag : 0 .. ReadLag]
  \cup [phase : {"served"}, tenant : Tenants, features : FeatureList]

PutState ==
  {Idle}
  \cup [phase : {"lookup", "read"}, instance : Instances, tenant : Tenants,
        body : Bodies]
  \cup [phase : {"write", "abandoned"}, instance : Instances, tenant : Tenants,
        body : Bodies, current : FeatureList]
  \cup [phase : {"written"}, instance : Instances, tenant : Tenants]

TypeOK ==
  /\ db \in [Tenants -> FeatureList]
  /\ existing \in SUBSET Tenants
  /\ cache \in [Instances -> EntryMap]
  /\ checks \in [Checks -> CheckState]
  /\ puts \in [Puts -> PutState]
  /\ lastTrue \in [Tenants -> [FeatureList -> 0 .. Never]]

\* No process ever holds more than maxTenants tenants, however the expired
\* entries, the evictions and the overwriting of entries follow one another
\* (the loop of InMemoryTenantFeatureCache.set).
CacheWithinCap ==
  \A i \in Instances : Cardinality(DOMAIN cache[i]) <= maxTenants

Ordered(m) ==
  /\ \A t \in DOMAIN m : m[t].older \subseteq DOMAIN m \ {t}
  /\ \A s, t \in DOMAIN m :
       /\ s # t => (s \in m[t].older <=> t \notin m[s].older)
       /\ s \in m[t].older => m[s].older \subseteq m[t].older

\* The insertion order of a Map stays a strict total order of its keys, so there
\* is always one oldest entry for set to evict.
InsertionOrder == \A i \in Instances : Ordered(cache[i])

\* The window of inconsistency: how long ago a list of flags that is still
\* served may have stopped being the content of the table.
Window == IF ttlMs = 0 THEN ReadLag ELSE ttlMs + ReadLag - 1

ContentIsTrueNow == \A t \in Tenants : lastTrue[t][db[t]] = 0

AnswersAreRecent ==
  \A c \in Checks : checks[c].phase = "answer" =>
    lastTrue[checks[c].tenant][checks[c].features] <= checks[c].lag

EntriesAreRecent ==
  \A i \in Instances : \A t \in DOMAIN cache[i] :
    cache[i][t].left > 0 =>
      lastTrue[t][cache[i][t].features] + cache[i][t].left <= ttlMs + ReadLag

\* Each entry's remaining life and the age of what it says trade off: what it
\* says was true at most ttlMs + ReadLag before the instant it expires.  What a
\* read has in hand was true when the database answered it.
EntriesAgeOut == ContentIsTrueNow /\ AnswersAreRecent /\ EntriesAreRecent

\* Whatever instance a check reaches and whatever failed before, the flags it is
\* decided on were this tenant's content of the table at most Window ago:
\* the promise that the short TTL, not the invalidation, is the guarantee.
ServedWithinWindow ==
  [][\A c \in Checks :
       checks'[c] # checks[c] /\ checks'[c].phase = "served" =>
         lastTrue[checks'[c].tenant][checks'[c].features] <= Window]_vars

\* The live entries that a set of the read in slot c throws away.
Dropped(c) ==
  LET i == checks[c].instance
  IN {t \in DOMAIN cache[i] \ DOMAIN cache'[i] : Hit(cache[i], t)}

\* set makes room by giving up live entries only when the live ones fill the Map,
\* one at most, and it is older than every entry that is kept.
EvictsOldestFirst ==
  [][\A c \in Checks :
       StoreAndServe(c) =>
         LET m == cache[checks[c].instance] IN
         \A t \in Dropped(c) :
           /\ Cardinality(DOMAIN prune(m)) >= maxTenants
           /\ \A s \in DOMAIN prune(m) \ {t} : t \in m[s].older]_vars

\* Flags that some PUT on t has replaced, or is about to invalidate, stay cached.
Stale(i, t) == Hit(cache[i], t) /\ cache[i][t].features # db[t]

SettledStale(i, t) ==
  /\ Stale(i, t)
  /\ \A w \in Puts : puts[w].phase = "written" => puts[w].tenant # t

\* An old flag comes to outlive the PUTs on its tenant for three reasons only: a
\* read that took its answer before the write stores it after the invalidation;
\* the PUT was served by another process; or the PUT failed, or was abandoned,
\* before it invalidated.  It is never because a read refilled the cache between
\* the write and the invalidation (the order BulkUpdateTenantFeaturesUseCase
\* insists on), nor because set or prune disturbed another entry.
StoresLate(c, t) ==
  /\ checks[c].phase = "answer"
  /\ checks[c].tenant = t
  /\ checks[c].features # db[t]
  /\ checks'[c].phase = "served"

NotInvalidatedHere(w, i, t) ==
  /\ puts[w].phase \in {"written", "abandoned"}
  /\ puts[w].tenant = t
  /\ PutReplies(w) => puts[w].instance # i

WhyOldFlagsOutliveAPut ==
  [][\A i \in Instances, t \in Tenants :
       ~SettledStale(i, t) /\ SettledStale(i, t)' =>
         \/ \E c \in Checks : StoresLate(c, t)
         \/ \E w \in Puts : NotInvalidatedHere(w, i, t)]_vars

\* Without failures the invalidation of the process that took the PUT leaves no
\* old flag behind once the PUT is over (comment of the use case, lines 65-67).
PutIsSeenByItsProcess ==
  Cardinality(Instances) = 1 => \A i \in Instances, t \in Tenants : ~SettledStale(i, t)

Commits(w) == puts[w].phase \in {"write", "abandoned"} /\ Upsert(w)

KeepsAbsent(w) ==
  \A k \in DOMAIN puts[w].body :
    puts[w].body[k].numericValue = Absent =>
      NumericLimit(db'[puts[w].tenant], k) = NumericLimit(db[puts[w].tenant], k)

\* A PUT that leaves numericValue out keeps the stored limit, whatever else its
\* body sets, if no other write came between its read and its write.
AbsentKeepsUncontendedLimit ==
  [][\A w \in Puts :
       Commits(w) /\ puts[w].current = db[puts[w].tenant] => KeepsAbsent(w)]_vars

\* Once a tenant is removed its flags change for the last time: only PUTs that
\* had passed assertTenantExists still write.
RemovedTenantFreezes ==
  \A t \in Tenants : <>[][t \notin existing => db'[t] = db[t]]_vars

\* A row of the table switches the feature off.
SwitchedOff(t, k) == k \in DOMAIN db[t] /\ ~db[t][k].enabled

Decides(t, k, enabled) ==
  \E c \in Checks :
    /\ checks'[c] # checks[c]
    /\ checks'[c].phase = "served" /\ checks'[c].tenant = t
    /\ IsFeatureEnabled(checks'[c].features, k) = enabled

\* The decisions of FeatureGuard catch up with the table.  A feature that is switched off
\* and stays so is refused from some time on, by every process and whatever answers are
\* under way; one that is not switched off any more, or never was, is let through.
FlagsTakeHold ==
  \A t \in Tenants, k \in Keys :
    /\ <>[]SwitchedOff(t, k)  => <>[][~Decides(t, k, TRUE)]_vars
    /\ <>[]~SwitchedOff(t, k) => <>[][~Decides(t, k, FALSE)]_vars

\* An outdated entry does not stay: some instant comes when the process either
\* has no entry for the tenant or has the current flags.
StaleEntryGoes ==
  \A i \in Instances, t \in Tenants : []<>~Stale(i, t)
=============================================================================
