-------------------------- MODULE PermissionCache --------------------------
(***************************************************************************)
(* The permission set of a role, as the guards of the API see it           *)
(* (auth/permissions-resolver.ts).  Each instance of the API keeps it in   *)
(* memory for 60 seconds (common/cache/ttl-cache.ts); when Redis is        *)
(* configured, a common copy there comes first and the memory is its       *)
(* mirror (common/cache/redis-ttl-cache.ts).  An administrator changes the *)
(* rows and has the copies dropped (rbac-admin.service.ts).  One key of    *)
(* the cache is followed; the rights themselves are a version number.      *)
(***************************************************************************)
EXTENDS Naturals, Requests

CONSTANTS Instances,   \* processes of the API
          PermTtl,     \* TTL_MS
          MaxChanges,  \* bound: changes of the rights
          LastMoment   \* bound: the clock stops here

ASSUME CacheAssumption == /\ PermTtl \in Nat \ {0}
                          /\ MaxChanges \in Nat /\ LastMoment \in Nat

VARIABLES rights,      \* the version in the role_permission rows
          replacedAt,  \* replacedAt[v] - when the rows left version v, or None
          memory,      \* memory[p] - the entry of an instance, or None
          redis,       \* the entry in Redis, or None
          degraded,    \* degraded[p] - the instance has given Redis up
          moment,      \* the clock
          shared,      \* chosen once: REDIS_URL is set
          serving,     \* chosen once: the instances that run
          settledOn    \* where the latest change was made, once its copies
                       \* are dropped; None before that, and if that failed

cacheRows == <<rights, replacedAt, memory, redis, degraded, moment, shared, serving, settledOn>>
cacheVars == <<requestVars, cacheRows>>

Versions == 0..MaxChanges
Moments == 0..LastMoment

\* late is how long the entry's load took, from the query to the answer.
CacheEntries == [value : Versions, until : Nat, late : Moments]

ASSUME CacheRowAssumption ==
    None \notin Versions \cup Moments \cup Instances \cup CacheEntries

CacheInit == /\ RequestsInit
             /\ rights = 0
             /\ replacedAt = [v \in Versions |-> None]
             /\ memory = [p \in Instances |-> None]
             /\ redis = None
             /\ degraded = [p \in Instances |-> FALSE]
             /\ moment = 0
             /\ shared \in BOOLEAN
             /\ serving \in SUBSET Instances \ {{}}
             /\ settledOn = None

-----------------------------------------------------------------------------
Alive(entry) == entry # None /\ entry.until > moment

EntryOf(value, late) == [value |-> value, until |-> moment + PermTtl, late |-> late]

\* TtlCache.wrap: what the memory has is the answer, otherwise the rows are read.
AfterMiss(h, p) ==
    IF Alive(memory[p]) THEN Goto(h, "put", [on |-> p, value |-> memory[p].value])
                        ELSE Goto(h, "load", [on |-> p, since |-> moment])

\* A guard asks for the rights.  Without Redis a live entry answers at once.
AskRights(h, p) ==
    /\ MayStart(h)
    /\ p \in serving
    /\ \/ /\ shared /\ ~degraded[p]
          /\ Goto(h, "get", [on |-> p])
       \/ /\ ~shared \/ degraded[p]
          /\ ~Alive(memory[p])
          /\ Goto(h, "load", [on |-> p, since |-> moment])
    /\ UNCHANGED cacheRows

\* Redis answers.
GetShared(h) ==
    /\ at[h] = "get"
    /\ Goto(h, "got", [on |-> held[h].on, value |-> IF Alive(redis) THEN redis.value ELSE None])
    /\ UNCHANGED cacheRows

\* The answer arrives: a hit is put into the memory, with a whole life before it.
GotShared(h) ==
    LET p == held[h].on IN
    /\ at[h] = "got"
    /\ \/ /\ held[h].value # None
          /\ memory' = [memory EXCEPT ![p] = EntryOf(held[h].value, 0)]
          /\ Answer(h)
       \/ /\ held[h].value = None
          /\ AfterMiss(h, p)
          /\ UNCHANGED memory
    /\ UNCHANGED <<rights, replacedAt, redis, degraded, moment, shared, serving, settledOn>>

\* Redis cannot be read: the instance never asks it again.
GetFails(h) ==
    LET p == held[h].on IN
    /\ at[h] = "get"
    /\ degraded' = [degraded EXCEPT ![p] = TRUE]
    /\ IF Alive(memory[p]) THEN Answer(h)
                           ELSE Goto(h, "load", [on |-> p, since |-> moment])
    /\ UNCHANGED <<rights, replacedAt, memory, redis, moment, shared, serving, settledOn>>

\* The rows are read, or the query fails and the request with it.
LoadRights(h) ==
    /\ at[h] = "load"
    /\ \/ Goto(h, "loaded", [on |-> held[h].on, since |-> held[h].since, value |-> rights])
       \/ Answer(h)
    /\ UNCHANGED cacheRows

RightsLoaded(h) ==
    LET p == held[h].on IN
    /\ at[h] = "loaded"
    /\ memory' = [memory EXCEPT ![p] = EntryOf(held[h].value, moment - held[h].since)]
    /\ IF shared /\ ~degraded[p] THEN Goto(h, "put", [on |-> p, value |-> held[h].value])
                                 ELSE Answer(h)
    /\ UNCHANGED <<rights, replacedAt, redis, degraded, moment, shared, serving, settledOn>>

\* The guard is answered already; the write to Redis arrives, or fails.
PutShared(h) ==
    LET p == held[h].on IN
    /\ at[h] = "put"
    /\ \/ /\ redis' = EntryOf(held[h].value, 0)
          /\ UNCHANGED degraded
       \/ /\ degraded' = [degraded EXCEPT ![p] = TRUE]
          /\ UNCHANGED redis
    /\ Answer(h)
    /\ UNCHANGED <<rights, replacedAt, memory, moment, shared, serving, settledOn>>

-----------------------------------------------------------------------------
\* The row of the role is written.
SetRolePermission(h, p) ==
    /\ MayStart(h)
    /\ p \in serving
    /\ rights < MaxChanges
    /\ rights' = rights + 1
    /\ replacedAt' = [replacedAt EXCEPT ![rights] = moment]
    /\ settledOn' = None
    /\ Goto(h, "audit", [on |-> p])
    /\ UNCHANGED <<memory, redis, degraded, moment, shared, serving>>

\* Mutant: nothing drops the entry in memory.
KeepMemory(p) == memory

\* invalidateAll empties the memory when it is called.
ClearMemory(p) == [memory EXCEPT ![p] = None]

\* The audit row is written, then the copies are dropped; if the audit row
\* cannot be written, the request fails and the copies stay.
InvalidateRights(h) ==
    LET p == held[h].on IN
    /\ at[h] = "audit"
    /\ \/ /\ memory' = ClearMemory(p)
          /\ settledOn' = IF shared THEN None ELSE p
          /\ IF shared THEN Goto(h, "scan", held[h]) ELSE Answer(h)
       \/ /\ Answer(h)
          /\ UNCHANGED <<memory, settledOn>>
    /\ UNCHANGED <<rights, replacedAt, redis, degraded, moment, shared, serving>>

\* In the background: SCAN finds the key or not.
ScanShared(h) ==
    /\ at[h] = "scan"
    /\ IF Alive(redis) THEN Goto(h, "del", held[h]) /\ UNCHANGED settledOn
                       ELSE Answer(h) /\ settledOn' = held[h].on
    /\ UNCHANGED <<rights, replacedAt, memory, redis, degraded, moment, shared, serving>>

DeleteShared(h) ==
    /\ at[h] = "del"
    /\ redis' = None
    /\ settledOn' = held[h].on
    /\ Answer(h)
    /\ UNCHANGED <<rights, replacedAt, memory, degraded, moment, shared, serving>>

\* Redis fails in between; that is logged and nothing more.
DropFails(h) == /\ at[h] \in {"scan", "del"}
                /\ Answer(h)
                /\ UNCHANGED cacheRows

MomentPasses ==
    /\ moment < LastMoment
    /\ moment' = moment + 1
    /\ UNCHANGED <<requestVars, rights, replacedAt, memory, redis, degraded, shared, serving,
                   settledOn>>

\* An instance restarts: its requests and its memory are gone.
InstanceRestarts(p) ==
    LET of == {h \in Handlers : at[h] # "free" /\ held[h].on = p} IN
    /\ p \in serving
    /\ at' = [h \in Handlers |-> IF h \in of THEN "free" ELSE at[h]]
    /\ held' = [h \in Handlers |-> IF h \in of THEN None ELSE held[h]]
    /\ memory' = [memory EXCEPT ![p] = None]
    /\ degraded' = [degraded EXCEPT ![p] = FALSE]
    /\ UNCHANGED <<alone, rights, replacedAt, redis, moment, shared, serving, settledOn>>

CacheStep(h) ==
    \/ \E p \in Instances : AskRights(h, p) \/ SetRolePermission(h, p)
    \/ GetShared(h) \/ GotShared(h) \/ GetFails(h)
    \/ LoadRights(h) \/ RightsLoaded(h) \/ PutShared(h)
    \/ InvalidateRights(h) \/ ScanShared(h) \/ DeleteShared(h) \/ DropFails(h)

CacheNext == \/ \E h \in Handlers : CacheStep(h)
             \/ \E p \in Instances : InstanceRestarts(p)
             \/ MomentPasses

CacheSpec == CacheInit /\ [][CacheNext]_cacheVars

-----------------------------------------------------------------------------
\* Properties.

CacheTypeOK == /\ rights \in Versions
               /\ replacedAt \in [Versions -> Moments \cup {None}]
               /\ memory \in [Instances -> CacheEntries \cup {None}]
               /\ redis \in CacheEntries \cup {None}
               /\ degraded \in [Instances -> BOOLEAN]
               /\ moment \in Moments
               /\ shared \in BOOLEAN /\ serving \in SUBSET Instances
               /\ settledOn \in Instances \cup {None}

\* The rights were replaced, if at all, within the life of an entry, give or take
\* the time of its load.
Recent(entry) ==
    \/ replacedAt[entry.value] = None
    \/ moment - replacedAt[entry.value] < PermTtl + entry.late

AtRest == \A h \in Handlers : at[h] = "free"

\* Without Redis, rights that were taken back are gone from every instance within
\* 60 seconds of it, even if the invalidation failed, plus as long as the query
\* that loaded them took before its answer was stored; and where one instance runs
\* and requests do not overlap, a completed change is what the next guard sees,
\* with Redis and without.
GrantsAreRecent ==
    /\ ~shared => \A p \in Instances : Alive(memory[p]) => Recent(memory[p])
    /\ \A p \in Instances :
          alone /\ AtRest /\ serving = {p} /\ settledOn = p =>
              \A entry \in {memory[p], redis} : Alive(entry) => entry.value = rights

\* What the comment of the resolver says (60 seconds), with Redis as well.  It is
\* false there: a hit in Redis gives the copy in memory a new life, and an
\* instance whose memory still has the old rights writes them back to Redis.
GrantsExpire == \A p \in Instances : alone /\ Alive(memory[p]) => Recent(memory[p])
=============================================================================
