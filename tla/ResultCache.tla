---------------------------- MODULE ResultCache ----------------------------
(***************************************************************************)
(* The two cache levels of app.py and the requests that go through them:    *)
(* gunicorn workers with a few threads each, every worker with its own      *)
(* lru_cache, and one Redis for all.  The graph endpoint consults both      *)
(* levels under a key with the release's prefix; the endpoints of the       *)
(* packages only Redis, under a key without one.                            *)
(***************************************************************************)
EXTENDS Integers, Sequences, FiniteSets

CONSTANTS
    Workers, Slots,         \* gunicorn's workers, and the threads of each
    Payloads, BadPayloads,  \* the bad ones make the analysis raise
    Releases,
    Requests,               \* what may be asked: an endpoint and a payload
    CACHE_SIZE              \* entries of a worker's lru_cache

ASSUME PayloadAssumption ==
    /\ BadPayloads \subseteq Payloads
    /\ "none" \notin Payloads /\ "error" \notin Payloads
    /\ "none" \notin Releases
    /\ Requests \subseteq [endpoint : {"graph", "package"}, payload : Payloads]
ASSUME CacheAssumption == CACHE_SIZE \in Nat \ {0}

Handlers == Workers \X Slots

\* A payload is a name; its analysis is a function of it and of the release.
Nothing == [payload |-> "none"]
Error == [payload |-> "error"]
Analysis(p, r) == IF p \in BadPayloads THEN Error ELSE [payload |-> p, release |-> r]

VARIABLES
    release,       \* by worker: the release it runs
    redis,         \* the entries that have not expired, by key
    redis_up,
    redis_client,  \* by worker: whether its ping at import succeeded
    lru,           \* by worker: its cached results, least recently used first
    pc, req, res   \* by thread: where its request is, what it asks, the result

vars == <<release, redis, redis_up, redis_client, lru, pc, req, res>>

-----------------------------------------------------------------------------
Results == [payload : Payloads \ BadPayloads, release : Releases]
Prefix(request, w) == IF request.endpoint = "graph" THEN release[w] ELSE "none"
Keys == [request : Requests, prefix : Releases \cup {"none"}]

\* The cache key of a request at worker w.
Key(h) == [request |-> req[h], prefix |-> Prefix(req[h], h[1])]

Reachable(w) == redis_client[w] /\ redis_up

\* The positions of payload p in worker w's cache: one, or none.
Positions(w, p) == {i \in 1..Len(lru[w]) : lru[w][i].payload = p}
Without(s, i) == SubSeq(s, 1, i - 1) \o SubSeq(s, i + 1, Len(s))

\* lru_cache on a result computed outside its lock: when another thread has
\* entered the same call meanwhile nothing is entered, when the cache is full
\* the least recently used entry goes.
Insert(w, r) ==
    IF Positions(w, r.payload) # {} THEN lru[w]
    ELSE IF Len(lru[w]) = CACHE_SIZE THEN Append(Tail(lru[w]), r)
    ELSE Append(lru[w], r)

-----------------------------------------------------------------------------
Init ==
    /\ release \in [Workers -> Releases]
    /\ redis = [k \in Keys |-> Nothing]
    /\ redis_up \in BOOLEAN
    /\ redis_client = [w \in Workers |-> redis_up]
    /\ lru = [w \in Workers |-> <<>>]
    /\ pc = [h \in Handlers |-> "idle"]
    /\ req = [h \in Handlers |-> Nothing]
    /\ res = [h \in Handlers |-> Nothing]

Receive(h, request) ==
    /\ pc[h] = "idle"
    /\ req' = [req EXCEPT ![h] = request]
    /\ pc' = [pc EXCEPT ![h] = "lookup"]
    /\ UNCHANGED <<release, redis, redis_up, redis_client, lru, res>>

\* get_cached_result: an entry, or None when there is none, no client, or an
\* exception.
Hit(h) ==
    /\ pc[h] = "lookup" /\ Reachable(h[1]) /\ redis[Key(h)] # Nothing
    /\ res' = [res EXCEPT ![h] = redis[Key(h)]]
    /\ pc' = [pc EXCEPT ![h] = "reply"]
    /\ UNCHANGED <<release, redis, redis_up, redis_client, lru, req>>

Miss(h) ==
    /\ pc[h] = "lookup" /\ ~(Reachable(h[1]) /\ redis[Key(h)] # Nothing)
    /\ pc' = [pc EXCEPT ![h] = IF req[h].endpoint = "graph" THEN "_cached" ELSE "compute"]
    /\ UNCHANGED <<release, redis, redis_up, redis_client, lru, req, res>>

\* lru_cache looks for the call under its lock and moves it to the young end.
FindAny(h) == {i \in 1..Len(lru[h[1]]) : TRUE}
Find(h) == Positions(h[1], req[h].payload)
_cached(h) ==
    /\ pc[h] = "_cached"
    /\ \/ \E i \in Find(h) :
            /\ res' = [res EXCEPT ![h] = lru[h[1]][i]]
            /\ lru' = [lru EXCEPT ![h[1]] = Append(Without(@, i), @[i])]
            /\ pc' = [pc EXCEPT ![h] = "store"]
       \/ /\ Find(h) = {}
          /\ pc' = [pc EXCEPT ![h] = "compute"]
          /\ UNCHANGED <<res, lru>>
    /\ UNCHANGED <<release, redis, redis_up, redis_client, req>>

\* The analysis runs while other threads go on.  One that raises is answered
\* with the error and enters no cache.
Analyse(h) ==
    /\ pc[h] = "compute"
    /\ LET r == Analysis(req[h].payload, release[h[1]]) IN
         /\ res' = [res EXCEPT ![h] = r]
         /\ lru' = IF r # Error /\ req[h].endpoint = "graph"
                   THEN [lru EXCEPT ![h[1]] = Insert(h[1], r)] ELSE lru
         /\ pc' = [pc EXCEPT ![h] = IF r = Error THEN "reply" ELSE "store"]
    /\ UNCHANGED <<release, redis, redis_up, redis_client, req>>

\* set_cached_result: a write that fails is forgotten.
Store(h) ==
    /\ pc[h] = "store"
    /\ redis' = IF Reachable(h[1]) THEN [redis EXCEPT ![Key(h)] = res[h]] ELSE redis
    /\ pc' = [pc EXCEPT ![h] = "reply"]
    /\ UNCHANGED <<release, redis_up, redis_client, lru, req, res>>

Reply(h) ==
    /\ pc[h] = "reply"
    /\ pc' = [pc EXCEPT ![h] = "idle"]
    /\ req' = [req EXCEPT ![h] = Nothing]
    /\ res' = [res EXCEPT ![h] = Nothing]
    /\ UNCHANGED <<release, redis, redis_up, redis_client, lru>>

\* The environment.
Expire ==
    /\ \E k \in Keys : redis[k] # Nothing /\ redis' = [redis EXCEPT ![k] = Nothing]
    /\ UNCHANGED <<release, redis_up, redis_client, lru, pc, req, res>>

Outage ==
    /\ redis_up' = ~redis_up
    /\ UNCHANGED <<release, redis, redis_client, lru, pc, req, res>>

\* A worker is replaced, by the same release or by another one.
Restart(w) ==
    LET Cleared(f, v) == [h \in Handlers |-> IF h[1] = w THEN v ELSE f[h]] IN
    /\ \E r \in Releases : release' = [release EXCEPT ![w] = r]
    /\ redis_client' = [redis_client EXCEPT ![w] = redis_up]
    /\ lru' = [lru EXCEPT ![w] = <<>>]
    /\ pc' = Cleared(pc, "idle")
    /\ req' = Cleared(req, Nothing)
    /\ res' = Cleared(res, Nothing)
    /\ UNCHANGED <<redis, redis_up>>

Step(h) == Hit(h) \/ Miss(h) \/ _cached(h) \/ Analyse(h) \/ Store(h) \/ Reply(h)

Next ==
    \/ \E h \in Handlers : Step(h) \/ \E request \in Requests : Receive(h, request)
    \/ Expire \/ Outage
    \/ \E w \in Workers : Restart(w)

Spec == Init /\ [][Next]_vars /\ \A h \in Handlers : WF_vars(Step(h))

\* What the callers see: the requests under way and the answers on their way.
Service == INSTANCE AnalysisService WITH
    asked <- [h \in Handlers |-> IF pc[h] = "reply" THEN Nothing ELSE req[h]],
    answer <- [h \in Handlers |-> IF pc[h] = "reply" THEN res[h] ELSE Nothing]

-----------------------------------------------------------------------------
(* Properties *)

TypeOK ==
    /\ release \in [Workers -> Releases]
    /\ redis \in [Keys -> Results \cup {Nothing}]
    /\ redis_up \in BOOLEAN /\ redis_client \in [Workers -> BOOLEAN]
    /\ lru \in [Workers -> Seq(Results)]
    /\ pc \in [Handlers -> {"idle", "lookup", "_cached", "compute", "store", "reply"}]
    /\ req \in [Handlers -> Requests \cup {Nothing}]
    /\ res \in [Handlers -> Results \cup {Nothing, Error}]

\* Both levels hold, under each key, what the release of that key computes:
\* no error, no other payload's result, no earlier release's.  A worker's own
\* cache never holds more than its size, nor two entries for one call, however
\* its threads overlap.
CacheCoherent ==
    /\ \A k \in Keys : redis[k] # Nothing =>
           /\ redis[k].payload = k.request.payload
           /\ k.request.endpoint = "graph" => redis[k].release = k.prefix
    /\ \A w \in Workers :
           /\ \A i \in 1..Len(lru[w]) : lru[w][i].release = release[w]
           /\ Len(lru[w]) <= CACHE_SIZE
           /\ \A p \in Payloads : Cardinality(Positions(w, p)) <= 1

\* A request is answered with the analysis of its own payload, at the graph
\* endpoint by the release that answers it, whichever level it comes from: the
\* caches, their expiry, their outages and the workers' restarts show in no
\* answer, except that a package's may be of a release that ran before.
Transparent == Service!Spec

=============================================================================
