-------------------------- MODULE OutcomeRegistry --------------------------
(***************************************************************************)
(* completion/outcomes.py: outcomes are registered in Redis, or in the      *)
(* worker's own _InProcStore when there is no client or the call fails, and *)
(* a calibration report first lists the keys and then reads each record.    *)
(* A record is known by the order of its registration.                      *)
(***************************************************************************)
EXTENDS Integers, Sequences, FiniteSets

CONSTANTS
    Workers,
    Handlers,          \* the threads that make reports: <<worker, slot>>
    Classes, Projects,
    LIMIT,             \* _MAX_REPORT_OUTCOMES
    MaxRegistrations   \* bound: registrations in a run

ASSUME RegistryAssumption ==
    /\ \A h \in Handlers : h[1] \in Workers
    /\ LIMIT \in Nat \ {0} /\ MaxRegistrations \in Nat

Keys == Classes \X Projects
All == "every class"
None == 0

VARIABLES
    redis, redis_up, redis_client,
    _inproc,              \* by worker: its in-process store
    registered,           \* how many records were registered
    reportStep, asked,            \* by thread: its report and the class it is about
    keys, found,          \* the keys still to read, the records read
    reading_from_redis,
    storage,              \* the storage the last finished report names
    began, undisturbed    \* history: the stores when the report began, and
                          \* whether nothing failed or expired since then

stores == <<redis, _inproc, registered>>
env == <<redis_up, redis_client>>
report == <<reportStep, asked, keys, found, reading_from_redis, storage>>
registryVars == <<stores, env, report, began, undisturbed>>

-----------------------------------------------------------------------------
Reachable(w) == redis_client[w] /\ redis_up

\* What the pattern of a report about class c matches.
MatchingAny(store, c) == {k \in Keys : store[k] # None}
Matching(store, c) == {k \in Keys : store[k] # None /\ c \in {All, k[1]}}

\* A listing of the keys in S, cut at the limit.  SCAN may return a key twice.
Orders(S) == {s \in [1..Cardinality(S) -> S] : {s[i] : i \in DOMAIN s} = S}
Listed(S) == {SubSeq(s, 1, LIMIT) : s \in {t \in Orders(S) : Len(t) > LIMIT}}
             \cup {t \in Orders(S) : Len(t) <= LIMIT}
Longer(S) == {Append(s, k) : s \in Orders(S), k \in S}
Repeated(S) == {SubSeq(s, 1, LIMIT) : s \in {t \in Longer(S) : Len(t) > LIMIT}}
               \cup {t \in Longer(S) : Len(t) <= LIMIT}

Store(w) == IF Reachable(w) THEN redis ELSE _inproc[w]

-----------------------------------------------------------------------------
RegistryInit ==
    /\ redis = [k \in Keys |-> None]
    /\ _inproc = [w \in Workers |-> [k \in Keys |-> None]]
    /\ redis_up \in BOOLEAN
    /\ redis_client \in [Workers -> {redis_up, FALSE}]  \* FALSE: no REDIS_URL
    /\ registered = 0
    /\ reportStep = [h \in Handlers |-> "idle"]
    /\ asked = [h \in Handlers |-> All]
    /\ keys = [h \in Handlers |-> <<>>]
    /\ found = [h \in Handlers |-> <<>>]
    /\ reading_from_redis = [h \in Handlers |-> FALSE]
    /\ storage = [h \in Handlers |-> "none"]
    /\ began = [h \in Handlers |-> [k \in Keys |-> None]]
    /\ undisturbed = [h \in Handlers |-> FALSE]

\* register_outcome.  When the call fails the record goes to the worker's own
\* store, also when Redis did carry it out and only its answer was lost.
Register(w, k) ==
    /\ registered < MaxRegistrations
    /\ registered' = registered + 1
    /\ \/ Reachable(w) /\ redis' = [redis EXCEPT ![k] = registered'] /\ UNCHANGED _inproc
       \/ /\ ~Reachable(w)
          /\ _inproc' = [_inproc EXCEPT ![w][k] = registered'] /\ UNCHANGED redis
       \/ /\ Reachable(w) /\ redis' = [redis EXCEPT ![k] = registered']
          /\ _inproc' = [_inproc EXCEPT ![w][k] = registered']
    /\ UNCHANGED <<env, report, began, undisturbed>>

BeginReport(h) ==
    /\ reportStep[h] = "idle"
    /\ \E c \in Classes \cup {All} : asked' = [asked EXCEPT ![h] = c]
    /\ reportStep' = [reportStep EXCEPT ![h] = "scan"]
    /\ keys' = [keys EXCEPT ![h] = <<>>]
    /\ found' = [found EXCEPT ![h] = <<>>]
    /\ began' = [began EXCEPT ![h] = Store(h[1])]
    /\ undisturbed' = [undisturbed EXCEPT ![h] = TRUE]
    /\ UNCHANGED <<stores, env, reading_from_redis, storage>>

\* list_outcomes finds the keys.  An exception of SCAN turns to the worker's
\* store for both the keys and the records.
Scan(h) ==
    /\ reportStep[h] = "scan"
    /\ LET S == Matching(Store(h[1]), asked[h]) IN
         \/ \E s \in Listed(S) : keys' = [keys EXCEPT ![h] = s]
         \/ Reachable(h[1]) /\ \E s \in Repeated(S) : keys' = [keys EXCEPT ![h] = s]
    /\ reading_from_redis' = [reading_from_redis EXCEPT ![h] = Reachable(h[1])]
    /\ reportStep' = [reportStep EXCEPT ![h] = "read"]
    /\ UNCHANGED <<stores, env, asked, found, storage, began, undisturbed>>

\* The record of the next key.  A key that is gone, or whose GET raises, is
\* left out.
Read(h) ==
    /\ reportStep[h] = "read" /\ keys[h] # <<>>
    /\ LET k == Head(keys[h])
           r == IF ~reading_from_redis[h] THEN _inproc[h[1]][k]
                ELSE IF redis_up THEN redis[k] ELSE None
       IN  found' = IF r = None THEN found
                    ELSE [found EXCEPT ![h] = Append(@, [key |-> k, record |-> r])]
    /\ keys' = [keys EXCEPT ![h] = Tail(@)]
    /\ UNCHANGED <<stores, env, reportStep, asked, reading_from_redis, storage, began, undisturbed>>

\* calibration_report: n is the number of records found; storage is what
\* _store names now.
Finish(h) ==
    /\ reportStep[h] = "read" /\ keys[h] = <<>>
    /\ reportStep' = [reportStep EXCEPT ![h] = "idle"]
    /\ storage' = [storage EXCEPT ![h] = IF redis_client[h[1]] THEN "redis" ELSE "in_process"]
    /\ UNCHANGED <<stores, env, asked, keys, found, reading_from_redis, began, undisturbed>>

\* The environment: the time to live of a record, outages, restarts.
Disturb == undisturbed' = [h \in Handlers |-> FALSE]

Expire ==
    /\ \E k \in Keys :
         \/ redis[k] # None /\ redis' = [redis EXCEPT ![k] = None] /\ UNCHANGED _inproc
         \/ /\ \E w \in Workers : _inproc[w][k] # None /\ _inproc' = [_inproc EXCEPT ![w][k] = None]
            /\ UNCHANGED redis
    /\ Disturb
    /\ UNCHANGED <<registered, env, report, began>>

Outage ==
    /\ redis_up' = ~redis_up
    /\ Disturb
    /\ UNCHANGED <<stores, redis_client, report, began>>

Restart(w) ==
    /\ _inproc' = [_inproc EXCEPT ![w] = [k \in Keys |-> None]]
    /\ redis_client' \in {[redis_client EXCEPT ![w] = c] : c \in {redis_up, FALSE}}
    /\ reportStep' = [h \in Handlers |-> IF h[1] = w THEN "idle" ELSE reportStep[h]]
    /\ storage' = [h \in Handlers |-> IF h[1] = w THEN "none" ELSE storage[h]]
    /\ keys' = [h \in Handlers |-> IF h[1] = w THEN <<>> ELSE keys[h]]
    /\ found' = [h \in Handlers |-> IF h[1] = w THEN <<>> ELSE found[h]]
    /\ Disturb
    /\ UNCHANGED <<redis, redis_up, registered, asked, reading_from_redis, began>>

ReportStep(h) == Scan(h) \/ Read(h) \/ Finish(h)

RegistryNext ==
    \/ \E h \in Handlers : BeginReport(h) \/ ReportStep(h)
    \/ \E w \in Workers, k \in Keys : Register(w, k)
    \/ Expire \/ Outage
    \/ \E w \in Workers : Restart(w)

RegistrySpec == RegistryInit /\ [][RegistryNext]_registryVars /\ \A h \in Handlers : WF_registryVars(ReportStep(h))

-----------------------------------------------------------------------------
(* Properties *)

RegistryTypeOK ==
    /\ redis \in [Keys -> 0..registered]
    /\ _inproc \in [Workers -> [Keys -> 0..registered]]
    /\ redis_up \in BOOLEAN /\ redis_client \in [Workers -> BOOLEAN]
    /\ registered \in 0..MaxRegistrations
    /\ \A h \in Handlers :
        /\ reportStep[h] \in {"idle", "scan", "read"} /\ asked[h] \in Classes \cup {All}
        /\ keys[h] \in Seq(Keys) /\ found[h] \in Seq([key : Keys, record : 1..registered])
        /\ Len(keys[h]) + Len(found[h]) <= LIMIT
        /\ reading_from_redis[h] \in BOOLEAN
        /\ storage[h] \in {"none", "redis", "in_process"}

Finished(h) == reportStep[h] = "idle" /\ storage[h] # "none"

\* A report during which nothing fails, expires or restarts has every record
\* that was stored where it reads when it began, unless the limit cut it, no
\* record older than that, and none of a class it was not asked about:
\* registrations of any worker that race with it make it newer, never smaller.
ReportComplete ==
    \A h \in Handlers : Finished(h) /\ undisturbed[h] =>
        LET due == Matching(began[h], asked[h])
            got == {found[h][i] : i \in 1..Len(found[h])}
        IN  /\ Len(found[h]) < LIMIT => due \subseteq {r.key : r \in got}
            /\ \A r \in got : r.record >= began[h][r.key] /\ asked[h] \in {All, r.key[1]}

\* Both stores keep only what was registered, no report grows past its limit,
\* and one that nothing disturbs is complete.
ReportsSound == RegistryTypeOK /\ ReportComplete
=============================================================================
