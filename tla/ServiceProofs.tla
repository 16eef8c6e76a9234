---------------------------- MODULE ServiceProofs ----------------------------
(* Theorems about ResultCache, for any number of workers, threads, releases, *)
(* payloads and cache entries; and about PathSearch, for every schedule in   *)
(* topological order, every limit, and every order in which the heap may     *)
(* give its states.                                                          *)
EXTENDS ResultCache, PathSearch, FiniteSetTheorems, SequenceTheorems, WellFoundedInduction, TLAPS

-----------------------------------------------------------------------------
(* The inductive invariant, entry by entry, worker by worker and thread by   *)
(* thread.                                                                   *)

EntryOK(k) ==
    redis[k] # Nothing =>
        /\ redis[k].payload = k.request.payload
        /\ k.request.endpoint = "graph" => redis[k].release = k.prefix

\* The contents s of the cache of a worker that runs release r.
CacheOK(s, r) ==
    /\ s \in Seq(Results) /\ Len(s) <= CACHE_SIZE
    /\ \A i \in 1..Len(s) : s[i].release = r
    /\ \A i, j \in 1..Len(s) : s[i].payload = s[j].payload => i = j

\* The releases whose analysis may answer request q at worker w.
AllowedReleases(q, w) == IF q.endpoint = "graph" THEN {release[w]} ELSE Releases

\* What a thread knows of its result at each point.
ThreadOK(h) ==
    /\ pc[h] = "idle" => req[h] = Nothing
    /\ pc[h] # "idle" => req[h] \in Requests
    /\ pc[h] = "_cached" => req[h].endpoint = "graph"
    /\ pc[h] \in {"store", "reply"} =>
           \E r \in AllowedReleases(req[h], h[1]) : res[h] = Analysis(req[h].payload, r)
    /\ pc[h] = "store" => res[h] # Error

CachesInv ==
    /\ TypeOK
    /\ \A k \in Keys : EntryOK(k)
    /\ \A w \in Workers : CacheOK(lru[w], release[w])
    /\ \A h \in Handlers : ThreadOK(h)

-----------------------------------------------------------------------------
(* CacheNames and keys. *)

LEMMA CacheNames ==
    /\ Nothing \notin Requests /\ Nothing \notin Results /\ Nothing # Error
    /\ Error \notin Results
    /\ \A q \in Requests : q.endpoint \in {"graph", "package"} /\ q.payload \in Payloads
BY PayloadAssumption DEF Nothing, Error, Results

LEMMA AnalysisFacts ==
    ASSUME NEW p \in Payloads, NEW r \in Releases
    PROVE  /\ Analysis(p, r) \in Results \cup {Error}
           /\ Analysis(p, r) # Nothing
           /\ Analysis(p, r) # Error =>
                 Analysis(p, r).payload = p /\ Analysis(p, r).release = r
<1>1. CASE p \in BadPayloads
  BY <1>1, CacheNames DEF Analysis
<1>2. CASE p \notin BadPayloads
  <2>1. Analysis(p, r) = [payload |-> p, release |-> r]
    BY <1>2 DEF Analysis
  <2>2. Analysis(p, r) \in Results
    BY <1>2, <2>1 DEF Results
  <2>. QED
    BY <2>1, <2>2, CacheNames
<1>. QED
  BY <1>1, <1>2

\* A stored result is the analysis of its payload.
LEMMA ResultFacts ==
    ASSUME NEW x \in Results
    PROVE  /\ x.payload \in Payloads /\ x.release \in Releases
           /\ x = Analysis(x.payload, x.release)
BY DEF Results, Analysis

LEMMA KeyFacts ==
    ASSUME TypeOK, NEW h \in Handlers, req[h] \in Requests
    PROVE  /\ h[1] \in Workers /\ release[h[1]] \in Releases
           /\ Key(h) \in Keys /\ Key(h).request = req[h]
           /\ req[h].endpoint = "graph" => Key(h).prefix = release[h[1]]
<1>1. h[1] \in Workers /\ release[h[1]] \in Releases
  BY DEF TypeOK, Handlers
<1>2. Prefix(req[h], h[1]) \in Releases \cup {"none"}
  BY <1>1 DEF Prefix
<1>. QED
  BY <1>1, <1>2 DEF Key, Keys, Prefix

-----------------------------------------------------------------------------
(* What the cache does to its list. *)

LEMMA AppendKeepsCache ==
    ASSUME NEW s, NEW r, NEW x \in Results, x.release = r, CacheOK(s, r),
           Len(s) < CACHE_SIZE, \A i \in 1..Len(s) : s[i].payload # x.payload
    PROVE  CacheOK(Append(s, x), r)
<1>1. s \in Seq(Results) /\ Len(s) \in Nat /\ CACHE_SIZE \in Nat
  BY CacheAssumption DEF CacheOK
<1>. DEFINE t == Append(s, x)
<1>2. /\ t \in Seq(Results) /\ Len(t) = Len(s) + 1
      /\ \A i \in 1..Len(s) : t[i] = s[i]
      /\ t[Len(s) + 1] = x
  BY <1>1
<1>3. \A i \in 1..Len(t) : i \in 1..Len(s) \/ i = Len(s) + 1
  BY <1>1, <1>2
<1>4. \A i \in 1..Len(t) : t[i].release = r
  BY <1>2, <1>3 DEF CacheOK
<1>5. \A i, j \in 1..Len(t) : t[i].payload = t[j].payload => i = j
  BY <1>2, <1>3 DEF CacheOK
<1>. HIDE DEF t
<1>. QED
  BY <1>1, <1>2, <1>4, <1>5 DEF CacheOK, t

LEMMA TailKeepsCache ==
    ASSUME NEW s, NEW r, CacheOK(s, r), s # <<>>
    PROVE  /\ CacheOK(Tail(s), r) /\ Len(Tail(s)) = Len(s) - 1
           /\ \A i \in 1..Len(Tail(s)) : \E j \in 1..Len(s) : Tail(s)[i] = s[j]
<1>1. s \in Seq(Results) /\ Len(s) \in Nat /\ CACHE_SIZE \in Nat
  BY CacheAssumption DEF CacheOK
<1>2. /\ Tail(s) \in Seq(Results) /\ Len(Tail(s)) = Len(s) - 1
      /\ \A i \in 1..Len(Tail(s)) : i + 1 \in 1..Len(s) /\ Tail(s)[i] = s[i + 1]
  BY <1>1, HeadTailProperties
<1>3. \A i \in 1..Len(Tail(s)) : Tail(s)[i].release = r
  BY <1>2 DEF CacheOK
<1>4. ASSUME NEW i \in 1..Len(Tail(s)), NEW j \in 1..Len(Tail(s)),
             Tail(s)[i].payload = Tail(s)[j].payload
      PROVE  i = j
  <2>1. i + 1 = j + 1
    BY <1>2, <1>4 DEF CacheOK
  <2>. QED
    BY <1>1, <1>2, <2>1
<1>. QED
  BY <1>1, <1>2, <1>3, <1>4 DEF CacheOK

LEMMA WithoutKeepsCache ==
    ASSUME NEW s, NEW r, CacheOK(s, r), NEW n \in 1..Len(s)
    PROVE  /\ CacheOK(Without(s, n), r) /\ Len(Without(s, n)) = Len(s) - 1
           /\ \A i \in 1..Len(Without(s, n)) :
                 \E j \in 1..Len(s) : j # n /\ Without(s, n)[i] = s[j]
<1>1. s \in Seq(Results) /\ Len(s) \in Nat /\ CACHE_SIZE \in Nat
  BY CacheAssumption DEF CacheOK
<1>. DEFINE a == SubSeq(s, 1, n - 1)
            b == SubSeq(s, n + 1, Len(s))
            t == Without(s, n)
            at(i) == IF i < n THEN i ELSE i + 1
<1>2. /\ a \in Seq(Results) /\ Len(a) = n - 1
      /\ \A i \in 1..(n - 1) : a[i] = s[i]
  <2>1. \A i \in 1..(n - 1) : s[i] \in Results
    BY <1>1, ElementOfSeq
  <2>. QED
    BY <1>1, <2>1, SubSeqProperties
<1>3. /\ b \in Seq(Results) /\ Len(b) = Len(s) - n
      /\ \A i \in 1..(Len(s) - n) : b[i] = s[n + i]
  <2>1. \A i \in (n + 1)..Len(s) : s[i] \in Results
    BY <1>1, ElementOfSeq
  <2>. QED
    BY <1>1, <2>1, SubSeqProperties
<1>4. t = a \o b
  BY DEF Without
<1>. HIDE DEF a, b, t
<1>5. /\ t \in Seq(Results) /\ Len(t) = Len(s) - 1
      /\ \A i \in 1..Len(t) : t[i] = IF i <= n - 1 THEN a[i] ELSE b[i - (n - 1)]
  <2>1. /\ t \in Seq(Results) /\ Len(t) = Len(a) + Len(b)
        /\ \A i \in 1..(Len(a) + Len(b)) : t[i] = IF i <= Len(a) THEN a[i] ELSE b[i - Len(a)]
    BY <1>2, <1>3, <1>4, ConcatProperties
  <2>2. Len(a) + Len(b) = Len(s) - 1
    BY <1>1, <1>2, <1>3
  <2>. QED
    BY <1>2, <2>1, <2>2
<1>6. \A i \in 1..Len(t) : at(i) \in 1..Len(s) /\ at(i) # n /\ t[i] = s[at(i)]
  BY <1>1, <1>2, <1>3, <1>5
<1>7. \A i \in 1..Len(t) : t[i].release = r
  BY <1>6 DEF CacheOK
<1>8. ASSUME NEW i \in 1..Len(t), NEW j \in 1..Len(t), t[i].payload = t[j].payload
      PROVE  i = j
  <2>1. at(i) = at(j)
    BY <1>6, <1>8 DEF CacheOK
  <2>. QED
    BY <1>1, <1>5, <2>1
<1>9. CacheOK(t, r)
  BY <1>1, <1>5, <1>7, <1>8 DEF CacheOK
<1>. QED
  BY <1>5, <1>6, <1>9 DEF t

LEMMA MoveKeepsCache ==
    ASSUME NEW s, NEW r, CacheOK(s, r), NEW n \in 1..Len(s)
    PROVE  CacheOK(Append(Without(s, n), s[n]), r)
<1>1. /\ Len(s) \in Nat /\ Len(s) <= CACHE_SIZE /\ CACHE_SIZE \in Nat
      /\ s[n] \in Results /\ s[n].release = r
  BY CacheAssumption, ElementOfSeq DEF CacheOK
<1>2. /\ CacheOK(Without(s, n), r) /\ Len(Without(s, n)) = Len(s) - 1
      /\ \A i \in 1..Len(Without(s, n)) : Without(s, n)[i].payload # s[n].payload
  <2>1. /\ CacheOK(Without(s, n), r) /\ Len(Without(s, n)) = Len(s) - 1
        /\ \A i \in 1..Len(Without(s, n)) :
              \E j \in 1..Len(s) : j # n /\ Without(s, n)[i] = s[j]
    BY WithoutKeepsCache
  <2>2. \A j \in 1..Len(s) : j # n => s[j].payload # s[n].payload
    BY DEF CacheOK
  <2>. QED
    BY <2>1, <2>2
<1>3. Len(Without(s, n)) < CACHE_SIZE
  BY <1>1, <1>2
<1>. QED
  BY <1>1, <1>2, <1>3, AppendKeepsCache

LEMMA InsertKeepsCache ==
    ASSUME NEW w \in Workers, NEW r, CacheOK(lru[w], r), NEW x \in Results, x.release = r
    PROVE  CacheOK(Insert(w, x), r)
<1>. DEFINE s == lru[w]
<1>1. s \in Seq(Results) /\ Len(s) \in Nat /\ Len(s) <= CACHE_SIZE /\ CACHE_SIZE \in Nat \ {0}
  BY CacheAssumption DEF CacheOK
<1>2. CASE Positions(w, x.payload) # {}
  BY <1>2 DEF Insert
<1>3. CASE Positions(w, x.payload) = {} /\ Len(s) = CACHE_SIZE
  <2>1. \A i \in 1..Len(s) : s[i].payload # x.payload
    BY <1>3 DEF Positions
  <2>2. s # <<>>
    BY <1>1, <1>3, EmptySeq
  <2>3. CacheOK(Append(Tail(s), x), r)
    <3>1. /\ CacheOK(Tail(s), r) /\ Len(Tail(s)) = Len(s) - 1
          /\ \A i \in 1..Len(Tail(s)) : Tail(s)[i].payload # x.payload
      BY <2>1, <2>2, TailKeepsCache
    <3>2. Len(Tail(s)) < CACHE_SIZE
      BY <1>1, <3>1
    <3>. QED
      BY <3>1, <3>2, AppendKeepsCache
  <2>. QED
    BY <1>3, <2>3 DEF Insert
<1>4. CASE Positions(w, x.payload) = {} /\ Len(s) # CACHE_SIZE
  <2>1. \A i \in 1..Len(s) : s[i].payload # x.payload
    BY <1>4 DEF Positions
  <2>2. Len(s) < CACHE_SIZE
    BY <1>1, <1>4
  <2>3. CacheOK(Append(s, x), r)
    BY <2>1, <2>2, AppendKeepsCache
  <2>. QED
    BY <1>4, <2>3 DEF Insert
<1>. QED
  BY <1>2, <1>3, <1>4

-----------------------------------------------------------------------------
(* Each step keeps the invariant.  A thread's step leaves the others' facts  *)
(* alone.                                                                    *)

LEMMA OthersKeep ==
    ASSUME NEW g \in Handlers, ThreadOK(g), release' = release,
           pc'[g] = pc[g], req'[g] = req[g], res'[g] = res[g]
    PROVE  ThreadOK(g)'
BY DEF ThreadOK, AllowedReleases

LEMMA ReceiveKeeps ==
    ASSUME CachesInv, NEW h \in Handlers, NEW q \in Requests, Receive(h, q)
    PROVE  CachesInv'
<1>1. /\ req' = [req EXCEPT ![h] = q] /\ pc' = [pc EXCEPT ![h] = "lookup"]
      /\ UNCHANGED <<release, redis, redis_up, redis_client, lru, res>>
  BY DEF Receive
<1>2. TypeOK'
  BY <1>1 DEF CachesInv, TypeOK
<1>3. /\ \A k \in Keys : EntryOK(k)'
      /\ \A w \in Workers : CacheOK(lru[w], release[w])'
  BY <1>1 DEF CachesInv, EntryOK, CacheOK
<1>4. ASSUME NEW g \in Handlers PROVE ThreadOK(g)'
  <2>1. CASE g # h
    BY <1>1, <2>1, OthersKeep DEF CachesInv, TypeOK
  <2>2. CASE g = h
    BY <1>1, <2>2 DEF CachesInv, TypeOK, ThreadOK
  <2>. QED
    BY <2>1, <2>2
<1>. QED
  BY <1>2, <1>3, <1>4 DEF CachesInv

\* An entry of Redis under the request's key is an analysis that may answer it.
LEMMA HitIsAllowed ==
    ASSUME CachesInv, NEW h \in Handlers, Hit(h)
    PROVE  /\ req[h] \in Requests /\ redis[Key(h)] \in Results
           /\ \E r \in AllowedReleases(req[h], h[1]) : redis[Key(h)] = Analysis(req[h].payload, r)
<1>1. TypeOK /\ req[h] \in Requests
  BY DEF CachesInv, ThreadOK, Hit
<1>2. /\ Key(h) \in Keys /\ Key(h).request = req[h]
      /\ req[h].endpoint = "graph" => Key(h).prefix = release[h[1]]
  BY <1>1, KeyFacts
<1>3. redis[Key(h)] \in Results
  BY <1>1, <1>2 DEF Hit, TypeOK
<1>4. /\ redis[Key(h)].payload = req[h].payload
      /\ req[h].endpoint = "graph" => redis[Key(h)].release = release[h[1]]
  BY <1>2 DEF CachesInv, EntryOK, Hit
<1>5. /\ redis[Key(h)].release \in AllowedReleases(req[h], h[1])
      /\ redis[Key(h)] = Analysis(req[h].payload, redis[Key(h)].release)
  BY <1>3, <1>4, ResultFacts DEF AllowedReleases
<1>. QED
  BY <1>1, <1>3, <1>5

LEMMA HitKeeps ==
    ASSUME CachesInv, NEW h \in Handlers, Hit(h)
    PROVE  CachesInv'
<1>1. /\ res' = [res EXCEPT ![h] = redis[Key(h)]] /\ pc' = [pc EXCEPT ![h] = "reply"]
      /\ UNCHANGED <<release, redis, redis_up, redis_client, lru, req>>
  BY DEF Hit
<1>2. TypeOK'
  BY <1>1, HitIsAllowed DEF CachesInv, TypeOK
<1>3. /\ \A k \in Keys : EntryOK(k)'
      /\ \A w \in Workers : CacheOK(lru[w], release[w])'
  BY <1>1 DEF CachesInv, EntryOK, CacheOK
<1>4. ASSUME NEW g \in Handlers PROVE ThreadOK(g)'
  <2>1. CASE g # h
    BY <1>1, <2>1, OthersKeep DEF CachesInv, TypeOK
  <2>2. CASE g = h
    <3>1. pc'[h] = "reply" /\ req'[h] = req[h] /\ res'[h] = redis[Key(h)] /\ release' = release
      BY <1>1 DEF CachesInv, TypeOK
    <3>. QED
      BY <2>2, <3>1, HitIsAllowed DEF ThreadOK, AllowedReleases
  <2>. QED
    BY <2>1, <2>2
<1>. QED
  BY <1>2, <1>3, <1>4 DEF CachesInv

LEMMA MissKeeps ==
    ASSUME CachesInv, NEW h \in Handlers, Miss(h)
    PROVE  CachesInv'
<1>1. /\ pc' = [pc EXCEPT ![h] = IF req[h].endpoint = "graph" THEN "_cached" ELSE "compute"]
      /\ pc[h] = "lookup"
      /\ UNCHANGED <<release, redis, redis_up, redis_client, lru, req, res>>
  BY DEF Miss
<1>2. TypeOK'
  BY <1>1 DEF CachesInv, TypeOK
<1>3. /\ \A k \in Keys : EntryOK(k)'
      /\ \A w \in Workers : CacheOK(lru[w], release[w])'
  BY <1>1 DEF CachesInv, EntryOK, CacheOK
<1>4. ASSUME NEW g \in Handlers PROVE ThreadOK(g)'
  <2>1. CASE g # h
    BY <1>1, <2>1, OthersKeep DEF CachesInv, TypeOK
  <2>2. CASE g = h
    BY <1>1, <2>2 DEF CachesInv, TypeOK, ThreadOK
  <2>. QED
    BY <2>1, <2>2
<1>. QED
  BY <1>2, <1>3, <1>4 DEF CachesInv

\* The entry that lru_cache finds is the release's analysis of the payload.
LEMMA FoundIsAllowed ==
    ASSUME CachesInv, NEW h \in Handlers, pc[h] = "_cached", NEW i \in Find(h)
    PROVE  /\ req[h] \in Requests /\ i \in 1..Len(lru[h[1]]) /\ lru[h[1]][i] \in Results
           /\ lru[h[1]][i] # Error
           /\ \E r \in AllowedReleases(req[h], h[1]) : lru[h[1]][i] = Analysis(req[h].payload, r)
<1>1. /\ TypeOK /\ ThreadOK(h) /\ h[1] \in Workers
      /\ lru[h[1]] \in Seq(Results) /\ CacheOK(lru[h[1]], release[h[1]])
  BY DEF CachesInv, TypeOK, Handlers
<1>2. i \in 1..Len(lru[h[1]]) /\ lru[h[1]][i].payload = req[h].payload
  BY DEF Find, Positions
<1>3. lru[h[1]][i] \in Results
  BY <1>1, <1>2, ElementOfSeq
<1>4. req[h] \in Requests /\ req[h].endpoint = "graph"
  BY <1>1 DEF ThreadOK
<1>5. lru[h[1]][i].release = release[h[1]]
  BY <1>1, <1>2 DEF CacheOK
<1>6. lru[h[1]][i] = Analysis(req[h].payload, release[h[1]])
  BY <1>2, <1>3, <1>5, ResultFacts
<1>. QED
  BY <1>2, <1>3, <1>4, <1>6, CacheNames DEF AllowedReleases

LEMMA CachedKeeps ==
    ASSUME CachesInv, NEW h \in Handlers, _cached(h)
    PROVE  CachesInv'
<1>0. /\ UNCHANGED <<release, redis, redis_up, redis_client, req>> /\ pc[h] = "_cached"
      /\ h[1] \in Workers /\ req[h] \in Requests
  BY DEF _cached, Handlers, CachesInv, ThreadOK
<1>1. CASE \E i \in Find(h) :
               /\ res' = [res EXCEPT ![h] = lru[h[1]][i]]
               /\ lru' = [lru EXCEPT ![h[1]] = Append(Without(@, i), @[i])]
               /\ pc' = [pc EXCEPT ![h] = "store"]
  <2>1. PICK i \in Find(h) :
               /\ res' = [res EXCEPT ![h] = lru[h[1]][i]]
               /\ lru' = [lru EXCEPT ![h[1]] = Append(Without(lru[h[1]], i), lru[h[1]][i])]
               /\ pc' = [pc EXCEPT ![h] = "store"]
    BY <1>1
  <2>2. /\ i \in 1..Len(lru[h[1]]) /\ lru[h[1]][i] \in Results
        /\ lru[h[1]][i] # Error
        /\ \E r \in AllowedReleases(req[h], h[1]) : lru[h[1]][i] = Analysis(req[h].payload, r)
    BY <1>0, FoundIsAllowed
  <2>3. CacheOK(lru'[h[1]], release[h[1]])
    BY <1>0, <2>1, <2>2, MoveKeepsCache DEF CachesInv, TypeOK
  <2>4. \A w \in Workers : CacheOK(lru'[w], release[w])
    BY <2>1, <2>3 DEF CachesInv, TypeOK
  <2>5. lru' \in [Workers -> Seq(Results)]
    BY <2>1, <2>4 DEF CachesInv, TypeOK, CacheOK
  <2>6. TypeOK'
    BY <1>0, <2>1, <2>2, <2>5 DEF CachesInv, TypeOK
  <2>7. \A k \in Keys : EntryOK(k)'
    BY <1>0 DEF CachesInv, EntryOK
  <2>8. \A w \in Workers : CacheOK(lru[w], release[w])'
    BY <1>0, <2>4 DEF CacheOK
  <2>9. ASSUME NEW g \in Handlers PROVE ThreadOK(g)'
    <3>1. CASE g # h
      BY <1>0, <2>1, <3>1, OthersKeep DEF CachesInv, TypeOK
    <3>2. CASE g = h
      <4>1. pc'[h] = "store" /\ req'[h] = req[h] /\ res'[h] = lru[h[1]][i] /\ release' = release
        BY <1>0, <2>1 DEF CachesInv, TypeOK
      <4>. QED
        BY <1>0, <2>2, <3>2, <4>1 DEF ThreadOK, AllowedReleases
    <3>. QED
      BY <3>1, <3>2
  <2>. QED
    BY <2>6, <2>7, <2>8, <2>9 DEF CachesInv
<1>2. CASE pc' = [pc EXCEPT ![h] = "compute"] /\ UNCHANGED <<res, lru>>
  <2>1. TypeOK'
    BY <1>0, <1>2 DEF CachesInv, TypeOK
  <2>2. /\ \A k \in Keys : EntryOK(k)'
        /\ \A w \in Workers : CacheOK(lru[w], release[w])'
    BY <1>0, <1>2 DEF CachesInv, EntryOK, CacheOK
  <2>3. ASSUME NEW g \in Handlers PROVE ThreadOK(g)'
    <3>1. CASE g # h
      BY <1>0, <1>2, <3>1, OthersKeep DEF CachesInv, TypeOK
    <3>2. CASE g = h
      BY <1>0, <1>2, <3>2 DEF CachesInv, TypeOK, ThreadOK
    <3>. QED
      BY <3>1, <3>2
  <2>. QED
    BY <2>1, <2>2, <2>3 DEF CachesInv
<1>. QED
  BY <1>1, <1>2 DEF _cached

LEMMA AnalyseKeeps ==
    ASSUME CachesInv, NEW h \in Handlers, Analyse(h)
    PROVE  CachesInv'
<1>. DEFINE r == Analysis(req[h].payload, release[h[1]])
<1>1. /\ UNCHANGED <<release, redis, redis_up, redis_client, req>> /\ pc[h] = "compute"
      /\ res' = [res EXCEPT ![h] = r]
      /\ lru' = IF r # Error /\ req[h].endpoint = "graph"
                THEN [lru EXCEPT ![h[1]] = Insert(h[1], r)] ELSE lru
      /\ pc' = [pc EXCEPT ![h] = IF r = Error THEN "reply" ELSE "store"]
  BY DEF Analyse
<1>2. h[1] \in Workers /\ req[h] \in Requests /\ release[h[1]] \in Releases
  BY <1>1 DEF Handlers, CachesInv, ThreadOK, TypeOK
<1>3. /\ req[h].payload \in Payloads /\ r \in Results \cup {Error}
      /\ r # Error => r.release = release[h[1]]
  BY <1>2, CacheNames, AnalysisFacts
<1>4. release[h[1]] \in AllowedReleases(req[h], h[1])
  BY <1>2 DEF AllowedReleases
<1>. HIDE DEF r
<1>5. \A w \in Workers : CacheOK(lru'[w], release[w])
  <2>1. r # Error => CacheOK(Insert(h[1], r), release[h[1]])
    BY <1>2, <1>3, InsertKeepsCache DEF CachesInv
  <2>2. CASE r # Error /\ req[h].endpoint = "graph"
    BY <1>1, <1>2, <2>1, <2>2 DEF CachesInv, TypeOK
  <2>3. CASE ~(r # Error /\ req[h].endpoint = "graph")
    BY <1>1, <2>3 DEF CachesInv
  <2>. QED
    BY <2>2, <2>3
<1>6. lru' \in [Workers -> Seq(Results)]
  <2>1. \A w \in Workers : lru'[w] \in Seq(Results)
    BY <1>5 DEF CacheOK
  <2>2. DOMAIN lru' = Workers /\ lru' = [w \in Workers |-> lru'[w]]
    BY <1>1 DEF CachesInv, TypeOK
  <2>. QED
    BY <2>1, <2>2
<1>7. TypeOK'
  BY <1>1, <1>3, <1>6 DEF CachesInv, TypeOK
<1>8. \A k \in Keys : EntryOK(k)'
  BY <1>1 DEF CachesInv, EntryOK
<1>9. \A w \in Workers : CacheOK(lru[w], release[w])'
  BY <1>1, <1>5 DEF CacheOK
<1>10. ASSUME NEW g \in Handlers PROVE ThreadOK(g)'
  <2>1. CASE g # h
    BY <1>1, <2>1, OthersKeep DEF CachesInv, TypeOK
  <2>2. CASE g = h
    <3>1. /\ pc'[h] = IF r = Error THEN "reply" ELSE "store"
          /\ req'[h] = req[h] /\ res'[h] = r /\ release' = release
      BY <1>1 DEF CachesInv, TypeOK
    <3>2. r = Analysis(req[h].payload, release[h[1]])
      BY DEF r
    <3>. QED
      BY <1>2, <1>4, <2>2, <3>1, <3>2 DEF ThreadOK, AllowedReleases
  <2>. QED
    BY <2>1, <2>2
<1>. QED
  BY <1>7, <1>8, <1>9, <1>10 DEF CachesInv

\* What a thread is about to write belongs under its key.
LEMMA StoredFits ==
    ASSUME CachesInv, NEW h \in Handlers, Store(h)
    PROVE  /\ req[h] \in Requests /\ res[h] \in Results
           /\ res[h].payload = req[h].payload
           /\ req[h].endpoint = "graph" => res[h].release = release[h[1]]
<1>1. /\ TypeOK /\ ThreadOK(h) /\ pc[h] = "store"
  BY DEF CachesInv, Store
<1>2. /\ req[h] \in Requests /\ res[h] # Error
      /\ req[h].payload \in Payloads /\ release[h[1]] \in Releases
  BY <1>1, CacheNames, KeyFacts DEF ThreadOK
<1>3. PICK r \in AllowedReleases(req[h], h[1]) : res[h] = Analysis(req[h].payload, r)
  BY <1>1 DEF ThreadOK
<1>4. r \in Releases /\ (req[h].endpoint = "graph" => r = release[h[1]])
  BY <1>2, <1>3 DEF AllowedReleases
<1>. QED
  BY <1>2, <1>3, <1>4, AnalysisFacts

LEMMA StoreKeeps ==
    ASSUME CachesInv, NEW h \in Handlers, Store(h)
    PROVE  CachesInv'
<1>1. /\ redis' = IF Reachable(h[1]) THEN [redis EXCEPT ![Key(h)] = res[h]] ELSE redis
      /\ pc' = [pc EXCEPT ![h] = "reply"] /\ pc[h] = "store"
      /\ UNCHANGED <<release, redis_up, redis_client, lru, req, res>>
  BY DEF Store
<1>2. /\ Key(h) \in Keys /\ Key(h).request = req[h]
      /\ req[h].endpoint = "graph" => Key(h).prefix = release[h[1]]
  BY StoredFits, KeyFacts DEF CachesInv
<1>3. TypeOK'
  <2>1. redis' \in [Keys -> Results \cup {Nothing}]
    BY <1>1, <1>2, StoredFits DEF CachesInv, TypeOK
  <2>. QED
    BY <1>1, <2>1 DEF CachesInv, TypeOK
<1>4. ASSUME NEW k \in Keys PROVE EntryOK(k)'
  <2>1. CASE redis'[k] = redis[k]
    BY <2>1 DEF CachesInv, EntryOK
  <2>2. CASE redis'[k] # redis[k]
    <3>1. k = Key(h) /\ redis'[k] = res[h]
      BY <1>1, <1>2, <2>2 DEF CachesInv, TypeOK
    <3>. QED
      BY <1>2, <3>1, StoredFits DEF EntryOK
  <2>. QED
    BY <2>1, <2>2
<1>5. \A w \in Workers : CacheOK(lru[w], release[w])'
  BY <1>1 DEF CachesInv, CacheOK
<1>6. ASSUME NEW g \in Handlers PROVE ThreadOK(g)'
  <2>1. CASE g # h
    BY <1>1, <2>1, OthersKeep DEF CachesInv, TypeOK
  <2>2. CASE g = h
    BY <1>1, <2>2 DEF CachesInv, TypeOK, ThreadOK, AllowedReleases
  <2>. QED
    BY <2>1, <2>2
<1>. QED
  BY <1>3, <1>4, <1>5, <1>6 DEF CachesInv

LEMMA ReplyKeeps ==
    ASSUME CachesInv, NEW h \in Handlers, Reply(h)
    PROVE  CachesInv'
<1>1. /\ pc' = [pc EXCEPT ![h] = "idle"] /\ req' = [req EXCEPT ![h] = Nothing]
      /\ res' = [res EXCEPT ![h] = Nothing]
      /\ UNCHANGED <<release, redis, redis_up, redis_client, lru>>
  BY DEF Reply
<1>2. TypeOK'
  BY <1>1 DEF CachesInv, TypeOK
<1>3. /\ \A k \in Keys : EntryOK(k)'
      /\ \A w \in Workers : CacheOK(lru[w], release[w])'
  BY <1>1 DEF CachesInv, EntryOK, CacheOK
<1>4. ASSUME NEW g \in Handlers PROVE ThreadOK(g)'
  <2>1. CASE g # h
    BY <1>1, <2>1, OthersKeep DEF CachesInv, TypeOK
  <2>2. CASE g = h
    BY <1>1, <2>2 DEF CachesInv, TypeOK, ThreadOK
  <2>. QED
    BY <2>1, <2>2
<1>. QED
  BY <1>2, <1>3, <1>4 DEF CachesInv

\* Expiry, outages and stuttering: threads and workers see nothing of them.
LEMMA ExpireKeeps == CachesInv /\ Expire => CachesInv'
<1>. SUFFICES ASSUME CachesInv, Expire PROVE CachesInv'
  OBVIOUS
<1>1. UNCHANGED <<release, redis_up, redis_client, lru, pc, req, res>>
  BY DEF Expire
<1>2. PICK k \in Keys : redis' = [redis EXCEPT ![k] = Nothing]
  BY DEF Expire
<1>3. TypeOK'
  BY <1>1, <1>2 DEF CachesInv, TypeOK
<1>4. \A x \in Keys : EntryOK(x)'
  BY <1>2 DEF CachesInv, TypeOK, EntryOK
<1>5. /\ \A w \in Workers : CacheOK(lru[w], release[w])'
      /\ \A g \in Handlers : ThreadOK(g)'
  BY <1>1, OthersKeep DEF CachesInv, CacheOK
<1>. QED
  BY <1>3, <1>4, <1>5 DEF CachesInv

LEMMA QuietKeeps ==
    ASSUME CachesInv, UNCHANGED <<release, redis, redis_client, lru, pc, req, res>>,
           redis_up' \in BOOLEAN
    PROVE  CachesInv'
<1>1. TypeOK'
  BY DEF CachesInv, TypeOK
<1>2. /\ \A k \in Keys : EntryOK(k)'
      /\ \A w \in Workers : CacheOK(lru[w], release[w])'
      /\ \A g \in Handlers : ThreadOK(g)'
  BY OthersKeep DEF CachesInv, EntryOK, CacheOK
<1>. QED
  BY <1>1, <1>2 DEF CachesInv

LEMMA RestartKeeps ==
    ASSUME CachesInv, NEW w \in Workers, Restart(w)
    PROVE  CachesInv'
<1>1. PICK r \in Releases : release' = [release EXCEPT ![w] = r]
  BY DEF Restart
<1>2. /\ redis_client' = [redis_client EXCEPT ![w] = redis_up]
      /\ lru' = [lru EXCEPT ![w] = <<>>]
      /\ pc' = [h \in Handlers |-> IF h[1] = w THEN "idle" ELSE pc[h]]
      /\ req' = [h \in Handlers |-> IF h[1] = w THEN Nothing ELSE req[h]]
      /\ res' = [h \in Handlers |-> IF h[1] = w THEN Nothing ELSE res[h]]
      /\ UNCHANGED <<redis, redis_up>>
  BY DEF Restart
<1>3. <<>> \in Seq(Results) /\ Len(<<>>) = 0
  BY EmptySeq
<1>4. TypeOK'
  BY <1>1, <1>2, <1>3 DEF CachesInv, TypeOK
<1>5. \A k \in Keys : EntryOK(k)'
  BY <1>2 DEF CachesInv, EntryOK
<1>6. ASSUME NEW v \in Workers PROVE CacheOK(lru[v], release[v])'
  <2>1. CASE v = w
    <3>1. lru'[v] = <<>>
      BY <1>2, <2>1 DEF CachesInv, TypeOK
    <3>. QED
      BY <1>3, <3>1, CacheAssumption DEF CacheOK
  <2>2. CASE v # w
    <3>1. lru'[v] = lru[v] /\ release'[v] = release[v]
      BY <1>1, <1>2, <2>2 DEF CachesInv, TypeOK
    <3>. QED
      BY <3>1 DEF CachesInv, CacheOK
  <2>. QED
    BY <2>1, <2>2
<1>7. ASSUME NEW g \in Handlers PROVE ThreadOK(g)'
  <2>1. CASE g[1] = w
    BY <1>2, <2>1 DEF ThreadOK
  <2>2. CASE g[1] # w
    <3>1. pc'[g] = pc[g] /\ req'[g] = req[g] /\ res'[g] = res[g]
      BY <1>2, <2>2
    <3>2. release'[g[1]] = release[g[1]]
      BY <1>1, <2>2 DEF CachesInv, TypeOK, Handlers
    <3>3. ThreadOK(g)
      BY DEF CachesInv
    <3>. QED
      BY <3>1, <3>2, <3>3 DEF ThreadOK, AllowedReleases
  <2>. QED
    BY <2>1, <2>2
<1>. QED
  BY <1>4, <1>5, <1>6, <1>7 DEF CachesInv

LEMMA CachesStart == Init => CachesInv
<1>. SUFFICES ASSUME Init PROVE CachesInv
  OBVIOUS
<1>1. <<>> \in Seq(Results) /\ Len(<<>>) = 0
  BY EmptySeq
<1>2. TypeOK
  BY <1>1 DEF Init, TypeOK
<1>3. \A w \in Workers : CacheOK(lru[w], release[w])
  <2>1. ASSUME NEW r PROVE CacheOK(<<>>, r)
    BY <1>1, CacheAssumption DEF CacheOK
  <2>2. \A w \in Workers : lru[w] = <<>>
    BY DEF Init
  <2>. QED
    BY <2>1, <2>2
<1>4. /\ \A k \in Keys : EntryOK(k)
      /\ \A h \in Handlers : ThreadOK(h)
  BY DEF Init, EntryOK, ThreadOK
<1>. QED
  BY <1>2, <1>3, <1>4 DEF CachesInv

LEMMA CachesKeep == CachesInv /\ [Next]_vars => CachesInv'
<1>. SUFFICES ASSUME CachesInv, [Next]_vars PROVE CachesInv'
  OBVIOUS
<1>1. ASSUME NEW h \in Handlers, Step(h) PROVE CachesInv'
  BY <1>1, HitKeeps, MissKeeps, CachedKeeps, AnalyseKeeps, StoreKeeps, ReplyKeeps DEF Step
<1>2. ASSUME NEW h \in Handlers, NEW q \in Requests, Receive(h, q) PROVE CachesInv'
  BY <1>2, ReceiveKeeps
<1>3. ASSUME NEW w \in Workers, Restart(w) PROVE CachesInv'
  BY <1>3, RestartKeeps
<1>4. CASE Outage
  BY <1>4, QuietKeeps DEF Outage
<1>5. CASE UNCHANGED vars
  BY <1>5, QuietKeeps DEF vars, CachesInv, TypeOK
<1>. QED
  BY <1>1, <1>2, <1>3, <1>4, <1>5, ExpireKeeps DEF Next

-----------------------------------------------------------------------------
(* Theorems *)

\* Every reachable state satisfies CachesInv, however the threads overlap.
THEOREM CachesInvariance == Spec => []CachesInv
BY CachesStart, CachesKeep, PTL DEF Spec

THEOREM CachesTypeCorrect == Spec => []TypeOK
<1>1. CachesInv => TypeOK
  BY DEF CachesInv
<1>. QED
  BY <1>1, CachesInvariance, PTL

\* Both cache levels hold only what belongs under each key, and lru_cache never
\* outgrows its size nor holds two entries for one call.
THEOREM Coherence == Spec => []CacheCoherent
<1>1. CachesInv => CacheCoherent
  <2>. SUFFICES ASSUME CachesInv PROVE CacheCoherent
    OBVIOUS
  <2>1. ASSUME NEW w \in Workers, NEW p \in Payloads
        PROVE  Cardinality(Positions(w, p)) <= 1
    <3>1. \A i, j \in Positions(w, p) : i = j
      BY DEF CachesInv, CacheOK, Positions
    <3>2. CASE Positions(w, p) = {}
      BY <3>2, FS_EmptySet
    <3>3. CASE Positions(w, p) # {}
      <4>1. PICK i \in Positions(w, p) : Positions(w, p) = {i}
        BY <3>1, <3>3
      <4>2. Cardinality({i}) = 1
        BY FS_Singleton
      <4>. QED
        BY <4>1, <4>2
    <3>. QED
      BY <3>2, <3>3
  <2>. QED
    BY <2>1 DEF CacheCoherent, CachesInv, EntryOK, CacheOK
<1>. QED
  BY <1>1, CachesInvariance, PTL

-----------------------------------------------------------------------------
(* The refinement: every step is a step of AnalysisService, or one that its  *)
(* callers do not see.                                                       *)

AskedNow == [h \in Handlers |-> IF pc[h] = "reply" THEN Nothing ELSE req[h]]
AnswerNow == [h \in Handlers |-> IF pc[h] = "reply" THEN res[h] ELSE Nothing]

LEMMA ServiceInit == Init => Service!Init
BY DEF Init, Service!Init

\* Steps inside the service are stutters.
LEMMA Unseen ==
    ASSUME UNCHANGED release, AskedNow' = AskedNow, AnswerNow' = AnswerNow
    PROVE  UNCHANGED Service!vars
BY DEF Service!vars, AskedNow, AnswerNow

LEMMA ReceiveIsSubmit ==
    ASSUME CachesInv, NEW h \in Handlers, NEW q \in Requests, Receive(h, q)
    PROVE  Service!Submit(h, q)
<1>1. /\ req' = [req EXCEPT ![h] = q] /\ pc' = [pc EXCEPT ![h] = "lookup"]
      /\ release' = release /\ res' = res /\ pc[h] = "idle" /\ req[h] = Nothing
  BY DEF Receive, CachesInv, ThreadOK
<1>2. AskedNow[h] = Nothing /\ AnswerNow[h] = Nothing
  BY <1>1 DEF AskedNow, AnswerNow
<1>3. AskedNow' = [AskedNow EXCEPT ![h] = q] /\ AnswerNow' = AnswerNow
  BY <1>1 DEF AskedNow, AnswerNow, CachesInv, TypeOK
<1>. QED
  BY <1>1, <1>2, <1>3 DEF Service!Submit, AskedNow, AnswerNow

\* A thread comes to "reply" with an analysis that may answer its request.
LEMMA ReadyIsAnswer ==
    ASSUME CachesInv, NEW h \in Handlers, pc[h] \notin {"idle", "reply"},
           pc' = [pc EXCEPT ![h] = "reply"], req' = req, release' = release,
           NEW x, res' = [res EXCEPT ![h] = x],
           NEW r \in AllowedReleases(req[h], h[1]), x = Analysis(req[h].payload, r)
    PROVE  Service!Answer(h)
<1>1. req[h] \in Requests /\ req[h] # Nothing
  BY CacheNames DEF CachesInv, ThreadOK
<1>2. AskedNow[h] = req[h]
  BY DEF AskedNow
<1>3. /\ AskedNow' = [AskedNow EXCEPT ![h] = Nothing]
      /\ AnswerNow' = [AnswerNow EXCEPT ![h] = x]
  BY DEF AskedNow, AnswerNow, CachesInv, TypeOK
<1>4. r \in IF AskedNow[h].endpoint = "graph" THEN {release[h[1]]} ELSE Releases
  BY <1>2 DEF AllowedReleases
<1>5. AnswerNow' = [AnswerNow EXCEPT ![h] = Analysis(AskedNow[h].payload, r)]
  BY <1>2, <1>3
<1>. QED
  BY <1>1, <1>2, <1>3, <1>4, <1>5 DEF Service!Answer, AskedNow, AnswerNow

LEMMA HitIsAnswer ==
    ASSUME CachesInv, NEW h \in Handlers, Hit(h)
    PROVE  Service!Answer(h)
<1>1. PICK r \in AllowedReleases(req[h], h[1]) : redis[Key(h)] = Analysis(req[h].payload, r)
  BY HitIsAllowed
<1>2. /\ pc[h] = "lookup" /\ pc' = [pc EXCEPT ![h] = "reply"]
      /\ res' = [res EXCEPT ![h] = redis[Key(h)]] /\ req' = req /\ release' = release
  BY DEF Hit
<1>. QED
  BY <1>1, <1>2, ReadyIsAnswer

LEMMA StoreIsAnswer ==
    ASSUME CachesInv, NEW h \in Handlers, Store(h)
    PROVE  Service!Answer(h)
<1>1. PICK r \in AllowedReleases(req[h], h[1]) : res[h] = Analysis(req[h].payload, r)
  BY DEF CachesInv, ThreadOK, Store
<1>2. /\ pc[h] = "store" /\ pc' = [pc EXCEPT ![h] = "reply"]
      /\ res' = [res EXCEPT ![h] = res[h]] /\ req' = req /\ release' = release
  BY DEF Store, CachesInv, TypeOK
<1>. QED
  BY <1>1, <1>2, ReadyIsAnswer

LEMMA AnalyseIsSeen ==
    ASSUME CachesInv, NEW h \in Handlers, Analyse(h)
    PROVE  Service!Answer(h) \/ UNCHANGED Service!vars
<1>. DEFINE r == Analysis(req[h].payload, release[h[1]])
<1>1. /\ res' = [res EXCEPT ![h] = r] /\ req' = req /\ release' = release
      /\ pc[h] = "compute" /\ pc' = [pc EXCEPT ![h] = IF r = Error THEN "reply" ELSE "store"]
  BY DEF Analyse
<1>2. release[h[1]] \in AllowedReleases(req[h], h[1])
  <2>1. h[1] \in Workers /\ release[h[1]] \in Releases
    BY DEF CachesInv, TypeOK, Handlers
  <2>. QED
    BY <2>1 DEF AllowedReleases
<1>3. CASE r = Error
  <2>1. pc' = [pc EXCEPT ![h] = "reply"]
    BY <1>1, <1>3
  <2>. QED
    BY <1>1, <1>2, <2>1, ReadyIsAnswer
<1>. HIDE DEF r
<1>4. CASE r # Error
  <2>1. AskedNow' = AskedNow /\ AnswerNow' = AnswerNow
    BY <1>1, <1>4 DEF AskedNow, AnswerNow, CachesInv, TypeOK
  <2>. QED
    BY <1>1, <2>1, Unseen
<1>. QED
  BY <1>3, <1>4

LEMMA ReplyIsTake ==
    ASSUME CachesInv, NEW h \in Handlers, Reply(h)
    PROVE  Service!Take(h)
<1>1. /\ pc[h] = "reply" /\ pc' = [pc EXCEPT ![h] = "idle"] /\ release' = release
      /\ req' = [req EXCEPT ![h] = Nothing] /\ res' = [res EXCEPT ![h] = Nothing]
  BY DEF Reply
<1>2. AnswerNow[h] # Nothing
  <2>1. /\ h[1] \in Workers /\ release[h[1]] \in Releases /\ req[h] \in Requests
        /\ req[h].payload \in Payloads
    BY <1>1, CacheNames DEF CachesInv, TypeOK, ThreadOK, Handlers
  <2>2. PICK r \in AllowedReleases(req[h], h[1]) : res[h] = Analysis(req[h].payload, r)
    BY <1>1 DEF CachesInv, ThreadOK
  <2>3. r \in Releases
    BY <2>1, <2>2 DEF AllowedReleases
  <2>4. res[h] # Nothing
    BY <2>1, <2>2, <2>3, AnalysisFacts
  <2>. QED
    BY <1>1, <2>4 DEF AnswerNow
<1>3. AnswerNow' = [AnswerNow EXCEPT ![h] = Nothing] /\ AskedNow' = AskedNow
  BY <1>1 DEF AskedNow, AnswerNow, CachesInv, TypeOK
<1>. QED
  BY <1>1, <1>2, <1>3 DEF Service!Take, AskedNow, AnswerNow

LEMMA RestartIsReplace ==
    ASSUME CachesInv, NEW w \in Workers, Restart(w)
    PROVE  Service!Replace(w)
<1>1. /\ \E r \in Releases : release' = [release EXCEPT ![w] = r]
      /\ pc' = [h \in Handlers |-> IF h[1] = w THEN "idle" ELSE pc[h]]
      /\ req' = [h \in Handlers |-> IF h[1] = w THEN Nothing ELSE req[h]]
      /\ res' = [h \in Handlers |-> IF h[1] = w THEN Nothing ELSE res[h]]
  BY DEF Restart
<1>2. /\ AskedNow' = [h \in Handlers |-> IF h[1] = w THEN Nothing ELSE AskedNow[h]]
      /\ AnswerNow' = [h \in Handlers |-> IF h[1] = w THEN Nothing ELSE AnswerNow[h]]
  BY <1>1 DEF AskedNow, AnswerNow
<1>. QED
  BY <1>1, <1>2 DEF Service!Replace, AskedNow, AnswerNow

LEMMA InsideIsUnseen ==
    ASSUME CachesInv, NEW h \in Handlers, Miss(h) \/ _cached(h)
    PROVE  UNCHANGED Service!vars
<1>1. release' = release /\ req' = req /\ pc[h] \in {"lookup", "_cached"}
  BY DEF Miss, _cached
<1>2. PICK p \in {"_cached", "compute", "store"} : pc' = [pc EXCEPT ![h] = p]
  BY DEF Miss, _cached
<1>3. \A g \in Handlers : g # h => res'[g] = res[g]
  BY DEF Miss, _cached, CachesInv, TypeOK
<1>4. AskedNow' = AskedNow
  BY <1>1, <1>2 DEF AskedNow, CachesInv, TypeOK
<1>5. AnswerNow' = AnswerNow
  BY <1>1, <1>2, <1>3 DEF AnswerNow, CachesInv, TypeOK
<1>. QED
  BY <1>1, <1>4, <1>5, Unseen

LEMMA ServiceStep == CachesInv /\ [Next]_vars => [Service!Next]_(Service!vars)
<1>. SUFFICES ASSUME CachesInv, [Next]_vars PROVE [Service!Next]_(Service!vars)
  OBVIOUS
<1>1. ASSUME NEW h \in Handlers, Step(h) PROVE [Service!Next]_(Service!vars)
  BY <1>1, HitIsAnswer, StoreIsAnswer, AnalyseIsSeen, ReplyIsTake, InsideIsUnseen
     DEF Step, Service!Next
<1>2. ASSUME NEW h \in Handlers, NEW q \in Requests, Receive(h, q)
      PROVE  [Service!Next]_(Service!vars)
  BY <1>2, ReceiveIsSubmit DEF Service!Next
<1>3. ASSUME NEW w \in Workers, Restart(w) PROVE [Service!Next]_(Service!vars)
  BY <1>3, RestartIsReplace DEF Service!Next
<1>4. CASE Expire \/ Outage \/ UNCHANGED vars
  <2>1. release' = release /\ pc' = pc /\ req' = req /\ res' = res
    BY <1>4 DEF Expire, Outage, vars
  <2>2. AskedNow' = AskedNow /\ AnswerNow' = AnswerNow
    BY <2>1 DEF AskedNow, AnswerNow
  <2>. QED
    BY <2>1, <2>2, Unseen
<1>. QED
  BY <1>1, <1>2, <1>3, <1>4 DEF Next

\* The caches are invisible: whatever threads, expiry, outages and restarts do,
\* callers see a service that has none.
THEOREM CachesAreInvisible == Spec => Transparent
BY ServiceInit, ServiceStep, CachesInvariance, PTL DEF Spec, Transparent, Service!Spec

-----------------------------------------------------------------------------
(* Numbers and folds. *)

LEMMA Least ==
    ASSUME NEW S \in SUBSET Nat, S # {}
    PROVE  \E q \in S : \A x \in S : q <= x
<1>1. PICK q \in S : \A y \in S : <<y, q>> \notin OpToRel(<, Nat)
  BY NatLessThanWellFounded, WFMin
<1>2. \A y \in S : ~(y < q)
  BY <1>1 DEF OpToRel
<1>3. ASSUME NEW x \in S PROVE q <= x
  <2>1. q \in Nat /\ x \in Nat /\ ~(x < q)
    BY <1>2
  <2>. QED
    BY <2>1
<1>. QED
  BY <1>3

\* Induction up to a number, for a set.
LEMMA ClimbsTo ==
    ASSUME NEW n \in Nat, NEW S, 0 \in S, \A q \in 0..n : q < n /\ q \in S => q + 1 \in S
    PROVE  0..n \subseteq S
<1>. DEFINE Left == {q \in 0..n : q \notin S}
<1>. SUFFICES ASSUME Left # {} PROVE FALSE
  OBVIOUS
<1>1. Left \in SUBSET Nat
  OBVIOUS
<1>2. PICK q \in Left : \A x \in Left : q <= x
  <2>. HIDE DEF Left
  <2>. QED
    BY <1>1, Least
<1>3. q \in 0..n /\ q \notin S /\ q # 0
  BY <1>2
<1>4. q - 1 \in 0..n /\ q - 1 < n /\ (q - 1) + 1 = q /\ ~(q <= q - 1)
  BY <1>3
<1>5. q - 1 \in S
  BY <1>2, <1>4
<1>. QED
  BY <1>3, <1>4, <1>5

LEMMA MaxIs ==
    ASSUME NEW n \in Nat, NEW S \in SUBSET (1..n), S # {}
    PROVE  Max(S) \in S /\ \A x \in S : x <= Max(S)
<1>. DEFINE below == {n - x : x \in S}
<1>1. below \in SUBSET Nat /\ below # {}
  <2>1. \A x \in S : n - x \in Nat
    OBVIOUS
  <2>. QED
    BY <2>1
<1>2. PICK q \in below : \A y \in below : q <= y
  <2>. HIDE DEF below
  <2>. QED
    BY <1>1, Least
<1>3. PICK x \in S : q = n - x
  BY <1>2
<1>4. \A y \in S : x >= y
  <2>. TAKE y \in S
  <2>1. n - y \in below /\ y \in Nat /\ x \in Nat
    OBVIOUS
  <2>2. q <= n - y
    BY <1>2, <2>1
  <2>. HIDE DEF below
  <2>. QED
    BY <1>3, <2>1, <2>2
<1>5. Max(S) \in S /\ \A y \in S : Max(S) >= y
  BY <1>4 DEF Max
<1>. QED
  <2>. HIDE DEF below
  <2>1. \A y \in S : y \in Nat
    OBVIOUS
  <2>. QED
    BY <1>5, <2>1

LEMMA MaxOfUpto ==
    ASSUME NEW n \in Nat, NEW k \in 1..n
    PROVE  1..k # {} /\ Max(1..k) = k /\ (1..k) \ {k} = 1..(k - 1)
<1>1. k \in 1..k /\ 1..k \in SUBSET (1..n) /\ (1..k) \ {k} = 1..(k - 1)
  OBVIOUS
<1>2. Max(1..k) \in 1..k /\ k <= Max(1..k)
  BY <1>1, MaxIs
<1>. QED
  BY <1>1, <1>2

\* D gives, by the place in the sequence and what came before, what comes then.
Folds(f, n, b, D) ==
    \A S \in SUBSET (1..n) : f[S] = IF S = {} THEN b ELSE D[Max(S)][f[S \ {Max(S)}]]

\* What a fold of the library recurs on exists, whatever it folds.
LEMMA FoldExists ==
    ASSUME NEW n \in Nat, NEW V, NEW b \in V, NEW D \in [1..n -> [V -> V]]
    PROVE  \E f \in [SUBSET (1..n) -> V] : Folds(f, n, b, D)
<1>. DEFINE Solved == {q \in 0..n : \E f \in [SUBSET (1..q) -> V] : Folds(f, q, b, D)}
<1>1. 0 \in Solved
  <2>. DEFINE f == [S \in SUBSET (1..0) |-> b]
  <2>1. 0 \in 0..n /\ \A S \in SUBSET (1..0) : S = {}
    OBVIOUS
  <2>2. f \in [SUBSET (1..0) -> V] /\ Folds(f, 0, b, D)
    BY <2>1 DEF Folds
  <2>. HIDE DEF f
  <2>. QED
    BY <2>1, <2>2
<1>2. ASSUME NEW q \in 0..n, q < n, q \in Solved PROVE q + 1 \in Solved
  <2>1. PICK g \in [SUBSET (1..q) -> V] : Folds(g, q, b, D)
    BY <1>2
  <2>2. q + 1 \in 1..n /\ q \in Nat
    BY <1>2
  <2>3. ASSUME NEW S \in SUBSET (1..(q + 1))
        PROVE  /\ q + 1 \notin S => S \in SUBSET (1..q)
               /\ q + 1 \in S => S \ {q + 1} \in SUBSET (1..q) /\ Max(S) = q + 1 /\ S # {}
    <3>1. \A x \in 1..(q + 1) : x \in 1..q \/ x = q + 1
      BY <2>2
    <3>2. ASSUME q + 1 \in S PROVE Max(S) = q + 1
      <4>1. S # {} /\ q + 1 \in Nat
        BY <2>2, <3>2
      <4>2. Max(S) \in S /\ q + 1 <= Max(S)
        BY <3>2, <4>1, MaxIs
      <4>3. Max(S) \in 1..(q + 1)
        BY <4>2
      <4>. QED
        BY <2>2, <4>2, <4>3
    <3>. QED
      BY <3>1, <3>2
  <2>. DEFINE f == [S \in SUBSET (1..(q + 1)) |->
                      IF q + 1 \in S THEN D[q + 1][g[S \ {q + 1}]] ELSE g[S]]
  <2>4. f \in [SUBSET (1..(q + 1)) -> V]
    <3>1. ASSUME NEW S \in SUBSET (1..(q + 1)) PROVE f[S] \in V
      <4>1. CASE q + 1 \in S
        <5>1. g[S \ {q + 1}] \in V
          BY <2>3, <4>1
        <5>2. D[q + 1] \in [V -> V]
          BY <2>2
        <5>3. f[S] = D[q + 1][g[S \ {q + 1}]]
          BY <4>1
        <5>. HIDE DEF f
        <5>. QED
          BY <5>1, <5>2, <5>3
      <4>2. CASE q + 1 \notin S
        BY <2>3, <4>2
      <4>. QED
        BY <4>1, <4>2
    <3>2. f = [S \in SUBSET (1..(q + 1)) |-> f[S]]
      OBVIOUS
    <3>. HIDE DEF f
    <3>. QED
      BY <3>1, <3>2
  <2>5. Folds(f, q + 1, b, D)
    <3>. SUFFICES ASSUME NEW S \in SUBSET (1..(q + 1)), S # {}
                  PROVE  f[S] = D[Max(S)][f[S \ {Max(S)}]]
      <4>1. {} \in SUBSET (1..q) /\ {} \in SUBSET (1..(q + 1)) /\ q + 1 \notin {}
        OBVIOUS
      <4>2. f[{}] = b
        BY <2>1, <4>1 DEF Folds
      <4>. HIDE DEF f
      <4>. QED
        BY <4>2 DEF Folds
    <3>1. CASE q + 1 \in S
      <4>1. /\ Max(S) = q + 1 /\ S \ {q + 1} \in SUBSET (1..(q + 1))
            /\ q + 1 \notin S \ {q + 1}
        BY <2>3, <3>1
      <4>2. f[S] = D[q + 1][g[S \ {q + 1}]] /\ f[S \ {q + 1}] = g[S \ {q + 1}]
        BY <3>1, <4>1
      <4>. HIDE DEF f
      <4>. QED
        BY <4>1, <4>2
    <3>2. CASE q + 1 \notin S
      <4>1. S \in SUBSET (1..q)
        BY <2>3, <3>2
      <4>2. /\ S \ {Max(S)} \in SUBSET (1..(q + 1)) /\ S \ {Max(S)} \in SUBSET (1..q)
            /\ q + 1 \notin S \ {Max(S)}
        BY <3>2, <4>1
      <4>3. g[S] = D[Max(S)][g[S \ {Max(S)}]]
        BY <2>1, <4>1 DEF Folds
      <4>4. f[S] = g[S] /\ f[S \ {Max(S)}] = g[S \ {Max(S)}]
        BY <3>2, <4>2
      <4>. HIDE DEF f
      <4>. QED
        BY <4>3, <4>4
    <3>. QED
      BY <3>1, <3>2
  <2>. HIDE DEF f
  <2>6. q + 1 \in 0..n
    BY <2>2
  <2>. QED
    BY <2>4, <2>5, <2>6
<1>3. 0..n \subseteq Solved
  <2>. HIDE DEF Solved
  <2>. QED
    BY <1>1, <1>2, ClimbsTo
<1>4. n \in Solved
  <2>. HIDE DEF Solved
  <2>. QED
    BY <1>3
<1>. QED
  BY <1>4

\* How Distinct goes along its sequence.
LEMMA DistinctFolds ==
    ASSUME NEW T, NEW s \in Seq(T)
    PROVE  \E g : /\ g[0] = <<>> /\ Distinct(s) = g[Len(s)]
                  /\ \A k \in 1..Len(s) :
                        g[k] = IF Contains(g[k - 1], s[k]) THEN g[k - 1] ELSE Append(g[k - 1], s[k])
<1>. DEFINE Added(a, x) == IF Contains(a, x) THEN a ELSE Append(a, x)
            Body(f, S) == IF S = {} THEN <<>> ELSE Added(f[S \ {Max(S)}], s[Max(S)])
            IsIt(f) == f = [S \in SUBSET (DOMAIN s) |-> Body(f, S)]
            it == CHOOSE f : IsIt(f)
            D == [k \in 1..Len(s) |-> [a \in Seq(T) |-> Added(a, s[k])]]
<1>1. Len(s) \in Nat /\ DOMAIN s = 1..Len(s)
  OBVIOUS
<1>2. Distinct(s) = it[DOMAIN s]
  BY DEF Distinct, FoldLeft, MapThenFoldSet
<1>3. ASSUME NEW k \in 1..Len(s), NEW a \in Seq(T)
      PROVE  Added(a, s[k]) \in Seq(T)
  OBVIOUS
<1>4. D \in [1..Len(s) -> [Seq(T) -> Seq(T)]]
  <2>. HIDE DEF Added
  <2>. QED
    BY <1>3
<1>5. PICK f \in [SUBSET (1..Len(s)) -> Seq(T)] : Folds(f, Len(s), <<>>, D)
  <2>1. <<>> \in Seq(T)
    OBVIOUS
  <2>. HIDE DEF D
  <2>. QED
    BY <1>1, <1>4, <2>1, FoldExists
<1>6. IsIt(f)
  <2>1. ASSUME NEW S \in SUBSET (1..Len(s)) PROVE f[S] = Body(f, S)
    <3>1. CASE S = {}
      BY <1>5, <3>1 DEF Folds
    <3>2. CASE S # {}
      <4>1. Max(S) \in 1..Len(s) /\ f[S \ {Max(S)}] \in Seq(T)
        BY <1>1, <3>2, MaxIs
      <4>2. f[S] = D[Max(S)][f[S \ {Max(S)}]]
        <5>. HIDE DEF D
        <5>. QED
          BY <1>5, <3>2 DEF Folds
      <4>. HIDE DEF Added
      <4>. QED
        BY <3>2, <4>1, <4>2
    <3>. QED
      BY <3>1, <3>2
  <2>. HIDE DEF Body
  <2>. QED
    BY <1>1, <2>1
<1>7. IsIt(it)
  <2>. HIDE DEF IsIt
  <2>. QED
    BY <1>6
<1>8. \A S \in SUBSET (1..Len(s)) : it[S] = Body(it, S)
  <2>. HIDE DEF Body, it
  <2>. QED
    BY <1>1, <1>7
<1>. DEFINE g == [k \in 0..Len(s) |-> it[1..k]]
<1>9. g[0] = <<>>
  <2>1. 1..0 = {} /\ {} \in SUBSET (1..Len(s)) /\ 0 \in 0..Len(s)
    BY <1>1
  <2>2. it[{}] = Body(it, {})
    <3>. HIDE DEF it, Body
    <3>. QED
      BY <1>8, <2>1
  <2>3. Body(it, {}) = <<>>
    OBVIOUS
  <2>. HIDE DEF it, Body
  <2>. QED
    BY <2>1, <2>2, <2>3
<1>10. Distinct(s) = g[Len(s)]
  <2>. HIDE DEF it
  <2>. QED
    BY <1>1, <1>2
<1>11. ASSUME NEW k \in 1..Len(s) PROVE g[k] = Added(g[k - 1], s[k])
  <2>1. k \in 0..Len(s) /\ k - 1 \in 0..Len(s) /\ 1..k \in SUBSET (1..Len(s))
    BY <1>1
  <2>2. 1..k # {} /\ Max(1..k) = k /\ (1..k) \ {k} = 1..(k - 1)
    BY <1>1, MaxOfUpto
  <2>3. it[1..k] = Added(it[1..(k - 1)], s[k])
    <3>. HIDE DEF it, Added
    <3>. QED
      BY <1>8, <2>1, <2>2
  <2>. HIDE DEF it, Added
  <2>. QED
    BY <2>1, <2>3
<1>. HIDE DEF g
<1>. QED
  BY <1>9, <1>10, <1>11

\* The same elements, each once.
LEMMA DistinctIs ==
    ASSUME NEW T, NEW s \in Seq(T)
    PROVE  /\ Distinct(s) \in Seq(T) /\ IsInjective(Distinct(s))
           /\ ToSet(Distinct(s)) = ToSet(s)
<1>1. PICK g : /\ g[0] = <<>> /\ Distinct(s) = g[Len(s)]
               /\ \A k \in 1..Len(s) :
                     g[k] = IF Contains(g[k - 1], s[k]) THEN g[k - 1] ELSE Append(g[k - 1], s[k])
  BY DistinctFolds
<1>2. Len(s) \in Nat /\ DOMAIN s = 1..Len(s)
  OBVIOUS
<1>. DEFINE Good(k) == g[k] \in Seq(T) /\ IsInjective(g[k]) /\ ToSet(g[k]) = {s[j] : j \in 1..k}
            Goods == {k \in 0..Len(s) : Good(k)}
<1>3. 0 \in Goods
  <2>1. <<>> \in Seq(T) /\ IsInjective(<<>>) /\ ToSet(<<>>) = {}
    BY DEF IsInjective, ToSet
  <2>2. 1..0 = {} /\ 0 \in 0..Len(s)
    BY <1>2
  <2>3. {s[j] : j \in 1..0} = {}
    BY <2>2
  <2>. QED
    BY <1>1, <2>1, <2>2, <2>3
<1>4. ASSUME NEW q \in 0..Len(s), q < Len(s), q \in Goods PROVE q + 1 \in Goods
  <2>. DEFINE a == g[q]
              x == s[q + 1]
  <2>1. q + 1 \in 1..Len(s) /\ (q + 1) - 1 = q /\ q + 1 \in 0..Len(s)
    BY <1>2, <1>4
  <2>2. a \in Seq(T) /\ IsInjective(a) /\ ToSet(a) = {s[j] : j \in 1..q} /\ x \in T
    BY <1>4, <2>1
  <2>3. g[q + 1] = IF Contains(a, x) THEN a ELSE Append(a, x)
    BY <1>1, <2>1
  <2>4. {s[j] : j \in 1..(q + 1)} = {s[j] : j \in 1..q} \cup {x}
    <3>1. \A j : j \in 1..(q + 1) <=> j \in 1..q \/ j = q + 1
      BY <2>1
    <3>. QED
      BY <3>1
  <2>. HIDE DEF a, x
  <2>5. Len(a) \in Nat /\ DOMAIN a = 1..Len(a)
    BY <2>2
  <2>6. Contains(a, x) <=> x \in ToSet(a)
    BY <2>5 DEF Contains, ToSet
  <2>7. CASE Contains(a, x)
    <3>1. g[q + 1] = a
      BY <2>3, <2>7
    <3>2. ToSet(a) = {s[j] : j \in 1..(q + 1)}
      BY <2>2, <2>4, <2>6, <2>7
    <3>. QED
      BY <2>1, <2>2, <3>1, <3>2
  <2>8. CASE ~Contains(a, x)
    <3>. DEFINE b == Append(a, x)
    <3>1. /\ b \in Seq(T) /\ Len(b) = Len(a) + 1 /\ DOMAIN b = 1..(Len(a) + 1)
          /\ \A j \in 1..Len(a) : b[j] = a[j]
          /\ b[Len(a) + 1] = x
      BY <2>2, <2>5
    <3>2. \A j \in 1..Len(a) : a[j] # x
      BY <2>8 DEF Contains
    <3>3. \A j : j \in 1..(Len(a) + 1) <=> j \in 1..Len(a) \/ j = Len(a) + 1
      BY <2>5
    <3>4. g[q + 1] = b
      BY <2>3, <2>8
    <3>. HIDE DEF b
    <3>5. IsInjective(b)
      BY <2>2, <2>5, <3>1, <3>2, <3>3 DEF IsInjective
    <3>6. ToSet(b) = ToSet(a) \cup {x}
      BY <2>5, <3>1, <3>3 DEF ToSet
    <3>. QED
      BY <2>1, <2>2, <2>4, <3>1, <3>4, <3>5, <3>6
  <2>. QED
    BY <2>7, <2>8
<1>5. Len(s) \in Goods
  <2>. HIDE DEF Goods
  <2>1. 0..Len(s) \subseteq Goods
    BY <1>2, <1>3, <1>4, ClimbsTo
  <2>. QED
    BY <1>2, <2>1
<1>6. ToSet(s) = {s[j] : j \in 1..Len(s)}
  BY <1>2 DEF ToSet
<1>. QED
  BY <1>1, <1>5, <1>6

-----------------------------------------------------------------------------
(* The heap, a bag of partial paths. *)

States == [path : Seq(Nodes), est : Int]
Heaps == UNION {[T -> Nat \ {0}] : T \in SUBSET States}

LEMMA HeapFacts ==
    ASSUME NEW h \in Heaps
    PROVE  /\ DOMAIN h \in SUBSET States /\ h \in [DOMAIN h -> Nat \ {0}]
           /\ \A r \in DOMAIN h : h[r] \in Nat \ {0}
<1>1. PICK T \in SUBSET States : h \in [T -> Nat \ {0}]
  BY DEF Heaps
<1>. QED
  BY <1>1

LEMMA OneMore ==
    ASSUME NEW h \in Heaps, NEW r \in States
    PROVE  /\ h (+) SetToBag({r}) \in Heaps
           /\ DOMAIN (h (+) SetToBag({r})) = DOMAIN h \cup {r}
<1>. DEFINE b == h (+) SetToBag({r})
            T == DOMAIN h \cup {r}
<1>1. SetToBag({r}) = [e \in {r} |-> 1]
  BY DEF SetToBag
<1>2. b = [e \in T |-> (IF e \in DOMAIN h THEN h[e] ELSE 0) + (IF e \in {r} THEN 1 ELSE 0)]
  BY <1>1 DEF (+)
<1>3. \A e \in T : (IF e \in DOMAIN h THEN h[e] ELSE 0) + (IF e \in {r} THEN 1 ELSE 0) \in Nat \ {0}
  BY HeapFacts
<1>4. T \in SUBSET States
  BY HeapFacts
<1>. HIDE DEF b, T
<1>5. b \in [T -> Nat \ {0}] /\ DOMAIN b = T
  BY <1>2, <1>3
<1>. QED
  BY <1>4, <1>5 DEF Heaps, b, T

LEMMA OneLess ==
    ASSUME NEW h \in Heaps, NEW r
    PROVE  /\ h (-) SetToBag({r}) \in Heaps
           /\ DOMAIN (h (-) SetToBag({r})) \subseteq DOMAIN h
           /\ DOMAIN h \ {r} \subseteq DOMAIN (h (-) SetToBag({r}))
<1>. DEFINE b == h (-) SetToBag({r})
            left == [e \in DOMAIN h |-> IF e \in {r} THEN h[e] - 1 ELSE h[e]]
            T == {d \in DOMAIN left : left[d] > 0}
<1>1. SetToBag({r}) = [e \in {r} |-> 1]
  BY DEF SetToBag
<1>2. b = [e \in T |-> left[e]]
  BY <1>1 DEF (-)
<1>3. DOMAIN left = DOMAIN h /\ \A e \in DOMAIN h : left[e] \in Int /\ (e # r => left[e] > 0)
  BY HeapFacts
<1>. HIDE DEF left
<1>4. T \in SUBSET States /\ T \subseteq DOMAIN h /\ DOMAIN h \ {r} \subseteq T
  BY <1>3, HeapFacts
<1>5. \A e \in T : left[e] \in Nat \ {0}
  BY <1>3
<1>. HIDE DEF b, T
<1>6. b \in [T -> Nat \ {0}] /\ DOMAIN b = T
  BY <1>2, <1>5
<1>. QED
  BY <1>4, <1>6 DEF Heaps, b

LEMMA TrimmedIs ==
    ASSUME pathRequest.max_paths \in Nat \ {0}, NEW h \in Heaps, NEW b \in Trimmed(h)
    PROVE  b \in Heaps /\ DOMAIN b \subseteq DOMAIN h
<1>1. CASE b = h
  BY <1>1
<1>2. CASE b \in UNION {[S -> 1..(max_paths * 2)] : S \in SUBSET BagToSet(h)}
  <2>1. PICK S \in SUBSET BagToSet(h) : b \in [S -> 1..(max_paths * 2)]
    BY <1>2
  <2>2. S \in SUBSET DOMAIN h /\ S \in SUBSET States
    BY HeapFacts DEF BagToSet
  <2>3. b \in [S -> Nat \ {0}] /\ DOMAIN b = S
    BY <2>1
  <2>. QED
    BY <2>2, <2>3 DEF Heaps
<1>. QED
  BY <1>1, <1>2 DEF Trimmed

-----------------------------------------------------------------------------
(* The request, the hops and the paths of the schedule. *)

LEMMA RequestFacts ==
    ASSUME NEW r \in PathRequests
    PROVE  /\ r.start_idx \in Nodes /\ r.end_idx \in Nodes /\ r.start_idx # r.end_idx
           /\ r.max_paths \in Nat \ {0} /\ r.is_large \in BOOLEAN
           /\ r.succ \in [Nodes -> Seq([to : Nodes, weight : Int])]
           /\ N \in Nat
BY PathRequestAssumption

LEMMA HopFacts ==
    ASSUME NEW r \in PathRequests, NEW u \in Nodes
    PROVE  /\ r.succ[u] \in Seq([to : Nodes, weight : Int]) /\ Len(r.succ[u]) \in Nat
           /\ DOMAIN r.succ[u] = 1..Len(r.succ[u])
           /\ \A k \in 1..Len(r.succ[u]) : /\ r.succ[u][k] \in [to : Nodes, weight : Int]
                                         /\ r.succ[u][k].to \in Nodes /\ r.succ[u][k].weight \in Int
                                         /\ u < r.succ[u][k].to
           /\ ToSet(r.succ[u]) = {r.succ[u][k] : k \in 1..Len(r.succ[u])}
<1>1. r.succ[u] \in Seq([to : Nodes, weight : Int])
  BY RequestFacts
<1>2. \A k \in 1..Len(r.succ[u]) : u < r.succ[u][k].to
  <2>1. \A q \in PathRequests : \A w \in Nodes : \A k \in 1..Len(q.succ[w]) : w < q.succ[w][k].to
    BY PathRequestAssumption
  <2>. QED
    BY <2>1, Zenon
<1>. DEFINE es == r.succ[u]
<1>3. es \in Seq([to : Nodes, weight : Int]) /\ Len(es) \in Nat /\ DOMAIN es = 1..Len(es)
  BY <1>1
<1>. HIDE DEF es
<1>4. \A k \in 1..Len(es) : es[k] \in [to : Nodes, weight : Int]
  <2>. DEFINE T == [to : Nodes, weight : Int]
  <2>1. es \in Seq(T)
    BY <1>3
  <2>. HIDE DEF T
  <2>2. \A k \in 1..Len(es) : es[k] \in T
    BY <2>1
  <2>. QED
    BY <2>2 DEF T
<1>5. \A k \in 1..Len(es) : es[k].to \in Nodes /\ es[k].weight \in Int
  BY <1>4
<1>6. ToSet(es) = {es[k] : k \in 1..Len(es)}
  BY <1>3 DEF ToSet
<1>. QED
  BY <1>2, <1>3, <1>4, <1>5, <1>6 DEF es

Succs(r, u) == {e.to : e \in ToSet(r.succ[u])}

LEMMA SuccsFacts ==
    ASSUME NEW r \in PathRequests, NEW u \in Nodes
    PROVE  /\ Succs(r, u) \subseteq Nodes /\ \A v \in Succs(r, u) : u < v
           /\ Succs(r, u) = {r.succ[u][k].to : k \in 1..Len(r.succ[u])}
<1>1. Succs(r, u) = {r.succ[u][k].to : k \in 1..Len(r.succ[u])}
  <2>1. ToSet(r.succ[u]) = {r.succ[u][k] : k \in 1..Len(r.succ[u])}
    BY HopFacts
  <2>. QED
    BY <2>1 DEF Succs
<1>2. \A k \in 1..Len(r.succ[u]) : r.succ[u][k].to \in Nodes /\ u < r.succ[u][k].to
  BY HopFacts
<1>3. Succs(r, u) \subseteq Nodes
  BY <1>1, <1>2
<1>4. \A v \in Succs(r, u) : u < v
  BY <1>1, <1>2
<1>. QED
  BY <1>1, <1>3, <1>4

Hop(s, e) == [path |-> Append(s.path, e.to), est |-> s.est + e.weight]

LEMMA StateFacts ==
    ASSUME NEW s \in States
    PROVE  /\ s.path \in Seq(Nodes) /\ s.est \in Int
           /\ s.path # <<>> => Len(s.path) \in Nat \ {0} /\ Last(s.path) \in Nodes
BY DEF States, Last

\* What Expand pushes: the successors of the state, whatever was there.
LEMMA PushedIs ==
    ASSUME pathRequest \in PathRequests, NEW h \in Heaps, NEW s \in States, s.path # <<>>
    PROVE  /\ Pushed(h, s) \in Heaps
           /\ DOMAIN Pushed(h, s) = DOMAIN h \cup {Hop(s, e) : e \in ToSet(succ[Last(s.path)])}
<1>. DEFINE es == succ[Last(s.path)]
            n == Len(es)
            More(b, e) == b (+) SetToBag({[path |-> Append(s.path, e.to), est |-> s.est + e.weight]})
            Body(f, S) == IF S = {} THEN h ELSE More(f[S \ {Max(S)}], es[Max(S)])
            IsIt(f) == f = [S \in SUBSET (DOMAIN es) |-> Body(f, S)]
            it == CHOOSE f : IsIt(f)
            D == [k \in 1..n |-> [b \in Heaps |-> More(b, es[k])]]
<1>1. n \in Nat /\ DOMAIN es = 1..n
  BY HopFacts, StateFacts DEF succ
<1>2. Pushed(h, s) = it[DOMAIN es]
  BY DEF Pushed, FoldLeft, MapThenFoldSet
<1>3. ASSUME NEW k \in 1..n
      PROVE  Hop(s, es[k]) \in States
  <2>1. es[k].to \in Nodes /\ es[k].weight \in Int
    BY HopFacts, StateFacts DEF succ
  <2>. HIDE DEF es
  <2>. QED
    BY <2>1, StateFacts DEF States, Hop
<1>4. ASSUME NEW k \in 1..n, NEW b \in Heaps
      PROVE  /\ More(b, es[k]) \in Heaps
             /\ DOMAIN More(b, es[k]) = DOMAIN b \cup {Hop(s, es[k])}
  <2>1. More(b, es[k]) = b (+) SetToBag({Hop(s, es[k])})
    BY DEF Hop
  <2>. HIDE DEF es, More
  <2>. QED
    BY <1>3, <2>1, OneMore
<1>5. D \in [1..n -> [Heaps -> Heaps]]
  <2>. HIDE DEF More, n, es
  <2>. QED
    BY <1>4
<1>6. PICK f \in [SUBSET (1..n) -> Heaps] : Folds(f, n, h, D)
  <2>. HIDE DEF D, n
  <2>. QED
    BY <1>1, <1>5, FoldExists
<1>7. IsIt(f)
  <2>1. ASSUME NEW S \in SUBSET (1..n) PROVE f[S] = Body(f, S)
    <3>1. CASE S = {}
      <4>. HIDE DEF D, n
      <4>. QED
        BY <1>6, <3>1 DEF Folds
    <3>2. CASE S # {}
      <4>1. Max(S) \in 1..n /\ f[S \ {Max(S)}] \in Heaps
        <5>. HIDE DEF D, n
        <5>. QED
          BY <1>1, <3>2, MaxIs
      <4>2. f[S] = D[Max(S)][f[S \ {Max(S)}]]
        <5>. HIDE DEF D, n
        <5>. QED
          BY <1>6, <3>2 DEF Folds
      <4>. HIDE DEF More, n, es
      <4>. QED
        BY <3>2, <4>1, <4>2
    <3>. QED
      BY <3>1, <3>2
  <2>. HIDE DEF Body, n, D
  <2>. QED
    BY <1>1, <2>1
<1>8. IsIt(it)
  <2>. HIDE DEF IsIt
  <2>. QED
    BY <1>7
<1>9. \A S \in SUBSET (1..n) : it[S] = Body(it, S)
  <2>. HIDE DEF Body, it, n
  <2>. QED
    BY <1>1, <1>8
<1>. DEFINE g == [k \in 0..n |-> it[1..k]]
            Upto(k) == {Hop(s, es[j]) : j \in 1..k}
            Goods == {k \in 0..n : g[k] \in Heaps /\ DOMAIN g[k] = DOMAIN h \cup Upto(k)}
<1>10. g[0] = h
  <2>1. 1..0 = {} /\ {} \in SUBSET (1..n) /\ 0 \in 0..n
    BY <1>1
  <2>2. it[{}] = Body(it, {})
    <3>. HIDE DEF it, Body, n
    <3>. QED
      BY <1>9, <2>1
  <2>3. Body(it, {}) = h
    OBVIOUS
  <2>. HIDE DEF it, Body, n
  <2>. QED
    BY <2>1, <2>2, <2>3
<1>11. ASSUME NEW k \in 1..n PROVE g[k] = More(g[k - 1], es[k])
  <2>. HIDE DEF it, More, n
  <2>1. k \in 0..n /\ k - 1 \in 0..n /\ 1..k \in SUBSET (1..n)
    BY <1>1
  <2>2. 1..k # {} /\ Max(1..k) = k /\ (1..k) \ {k} = 1..(k - 1)
    BY <1>1, MaxOfUpto
  <2>3. it[1..k] = More(it[1..(k - 1)], es[k])
    BY <1>9, <2>1, <2>2
  <2>. QED
    BY <2>1, <2>3
<1>. HIDE DEF g, it, More, n, es
<1>12. 0 \in Goods
  <2>1. 1..0 = {} /\ 0 \in 0..n
    BY <1>1
  <2>2. Upto(0) = {}
    BY <2>1
  <2>. QED
    BY <1>10, <2>1, <2>2
<1>13. ASSUME NEW q \in 0..n, q < n, q \in Goods PROVE q + 1 \in Goods
  <2>1. q + 1 \in 1..n /\ (q + 1) - 1 = q /\ q + 1 \in 0..n
    BY <1>1, <1>13
  <2>2. g[q + 1] = More(g[q], es[q + 1])
    BY <1>11, <2>1
  <2>3. g[q] \in Heaps /\ DOMAIN g[q] = DOMAIN h \cup Upto(q)
    BY <1>13
  <2>4. g[q + 1] \in Heaps /\ DOMAIN g[q + 1] = DOMAIN g[q] \cup {Hop(s, es[q + 1])}
    BY <1>4, <2>1, <2>2, <2>3
  <2>5. Upto(q + 1) = Upto(q) \cup {Hop(s, es[q + 1])}
    <3>1. \A j : j \in 1..(q + 1) <=> j \in 1..q \/ j = q + 1
      BY <2>1
    <3>. QED
      BY <3>1
  <2>. HIDE DEF Upto
  <2>. QED
    BY <2>1, <2>3, <2>4, <2>5
<1>14. n \in Goods
  <2>. HIDE DEF Goods
  <2>1. 0..n \subseteq Goods
    BY <1>1, <1>12, <1>13, ClimbsTo
  <2>. QED
    BY <1>1, <2>1
<1>15. g[n] = Pushed(h, s)
  BY <1>1, <1>2 DEF g
<1>16. Upto(n) = {Hop(s, e) : e \in ToSet(es)}
  <2>1. ToSet(es) = {es[k] : k \in 1..n}
    BY <1>1 DEF ToSet
  <2>. QED
    BY <2>1
<1>17. Pushed(h, s) \in Heaps /\ DOMAIN Pushed(h, s) = DOMAIN h \cup Upto(n)
  BY <1>14, <1>15
<1>. QED
  BY <1>16, <1>17 DEF es

-----------------------------------------------------------------------------
(* Paths, and AllPaths as the set of them. *)

IsWalk(r, p) == \A k \in 1..(Len(p) - 1) : p[k] # r.end_idx /\ p[k + 1] \in Succs(r, p[k])
IsPath(r, p, u) == p # <<>> /\ p[1] = u /\ p[Len(p)] = r.end_idx /\ IsWalk(r, p)
PathsFrom(r, u) == {p \in Seq(Nodes) : IsPath(r, p, u)}

LEMMA Prefixed ==
    ASSUME NEW p \in Seq(Nodes), NEW u \in Nodes
    PROVE  /\ <<u>> \o p \in Seq(Nodes) /\ Len(<<u>> \o p) = Len(p) + 1
           /\ (<<u>> \o p)[1] = u /\ \A k \in 1..Len(p) : (<<u>> \o p)[k + 1] = p[k]
OBVIOUS

LEMMA PathGrows ==
    ASSUME NEW r, NEW u \in Nodes, u # r.end_idx, NEW v \in Succs(r, u), NEW p \in PathsFrom(r, v)
    PROVE  <<u>> \o p \in PathsFrom(r, u)
<1>. DEFINE q == <<u>> \o p
<1>1. p \in Seq(Nodes) /\ Len(p) \in Nat \ {0} /\ p[1] = v /\ p[Len(p)] = r.end_idx /\ IsWalk(r, p)
  BY DEF PathsFrom, IsPath
<1>2. /\ q \in Seq(Nodes) /\ Len(q) = Len(p) + 1 /\ q[1] = u
      /\ \A k \in 1..Len(p) : q[k + 1] = p[k]
  BY <1>1, Prefixed
<1>. HIDE DEF q
<1>3. IsWalk(r, q)
  <2>. SUFFICES ASSUME NEW k \in 1..Len(p) PROVE q[k] # r.end_idx /\ q[k + 1] \in Succs(r, q[k])
    BY <1>1, <1>2 DEF IsWalk
  <2>1. CASE k = 1
    BY <1>1, <1>2, <2>1
  <2>2. CASE k # 1
    <3>1. k - 1 \in 1..(Len(p) - 1) /\ k - 1 \in 1..Len(p) /\ (k - 1) + 1 = k
      BY <1>1, <2>2
    <3>2. p[k - 1] # r.end_idx /\ p[(k - 1) + 1] \in Succs(r, p[k - 1])
      BY <1>1, <3>1 DEF IsWalk
    <3>3. q[(k - 1) + 1] = p[k - 1] /\ q[k + 1] = p[k]
      BY <1>2, <3>1
    <3>. QED
      BY <3>1, <3>2, <3>3
  <2>. QED
    BY <2>1, <2>2
<1>4. q # <<>> /\ q[Len(q)] = r.end_idx
  BY <1>1, <1>2
<1>. QED
  BY <1>2, <1>3, <1>4 DEF PathsFrom, IsPath, q

LEMMA PathSplits ==
    ASSUME NEW r, NEW u \in Nodes, u # r.end_idx, NEW q \in PathsFrom(r, u)
    PROVE  \E v \in Succs(r, u) : \E p \in PathsFrom(r, v) : q = <<u>> \o p
<1>. DEFINE p == Tail(q)
<1>1. q \in Seq(Nodes) /\ Len(q) \in Nat \ {0} /\ q[1] = u /\ q[Len(q)] = r.end_idx /\ IsWalk(r, q)
  BY DEF PathsFrom, IsPath
<1>2. Len(q) > 1
  BY <1>1
<1>3. p \in Seq(Nodes) /\ Len(p) = Len(q) - 1 /\ \A k \in 1..Len(p) : p[k] = q[k + 1]
  BY <1>1, <1>2
<1>. HIDE DEF p
<1>4. IsWalk(r, p)
  <2>. SUFFICES ASSUME NEW k \in 1..(Len(p) - 1) PROVE p[k] # r.end_idx /\ p[k + 1] \in Succs(r, p[k])
    BY DEF IsWalk
  <2>1. k + 1 \in 1..(Len(q) - 1) /\ k \in 1..Len(p) /\ k + 1 \in 1..Len(p)
    BY <1>1, <1>3
  <2>. QED
    BY <1>1, <1>3, <2>1 DEF IsWalk
<1>5. p # <<>> /\ p[1] = q[2] /\ p[Len(p)] = r.end_idx
  BY <1>1, <1>2, <1>3
<1>6. q[2] \in Succs(r, u)
  <2>1. 1 \in 1..(Len(q) - 1)
    BY <1>1, <1>2
  <2>. QED
    BY <1>1, <2>1 DEF IsWalk
<1>7. p \in PathsFrom(r, q[2])
  BY <1>3, <1>4, <1>5 DEF PathsFrom, IsPath
<1>8. q = <<u>> \o p
  BY <1>1, <1>2, <1>3, Prefixed
<1>. QED
  BY <1>6, <1>7, <1>8

LEMMA PathOfEnd ==
    ASSUME NEW r, r.end_idx \in Nodes
    PROVE  PathsFrom(r, r.end_idx) = {<<r.end_idx>>}
<1>1. <<r.end_idx>> \in PathsFrom(r, r.end_idx)
  BY DEF PathsFrom, IsPath, IsWalk
<1>2. ASSUME NEW p \in PathsFrom(r, r.end_idx) PROVE p = <<r.end_idx>>
  <2>1. p \in Seq(Nodes) /\ Len(p) \in Nat \ {0} /\ p[1] = r.end_idx /\ IsWalk(r, p)
    BY DEF PathsFrom, IsPath
  <2>2. Len(p) = 1
    <3>. SUFFICES ASSUME Len(p) # 1 PROVE FALSE
      OBVIOUS
    <3>. DEFINE n == Len(p)
    <3>1. n \in Nat \ {0} /\ n # 1
      BY <2>1
    <3>. HIDE DEF n
    <3>2. 1 \in 1..(n - 1)
      BY <3>1
    <3>. QED
      BY <2>1, <3>2 DEF IsWalk, n
  <2>. QED
    BY <2>1, <2>2
<1>. QED
  BY <1>1, <1>2

\* The recursion of AllPaths is solved by the sets of paths, and by nothing else.
LEMMA AllPathsAre ==
    ASSUME pathRequest \in PathRequests, NEW u \in Nodes
    PROVE  AllPaths[u] = PathsFrom(pathRequest, u)
<1>. DEFINE r == pathRequest
<1>0. succ = r.succ /\ end_idx = r.end_idx /\ r \in PathRequests
  BY DEF succ, end_idx
<1>. DEFINE Body(f, w) == IF w = end_idx THEN {<<w>>}
                          ELSE {<<w>> \o p : p \in UNION {f[e.to] : e \in ToSet(succ[w])}}
            IsIt(f) == f = [w \in Nodes |-> Body(f, w)]
            from == CHOOSE f : IsIt(f)
            F == [w \in Nodes |-> PathsFrom(r, w)]
<1>1. AllPaths = from
  BY DEF AllPaths
<1>. HIDE DEF r
<1>2. ASSUME NEW f, NEW w \in Nodes, \A x \in Nodes : x > w => f[x] = F[x]
      PROVE  Body(f, w) = F[w]
  <2>1. F[w] = PathsFrom(r, w)
    OBVIOUS
  <2>2. CASE w = end_idx
    BY <1>0, <2>1, <2>2, RequestFacts, PathOfEnd
  <2>3. CASE w # end_idx
    <3>1. ASSUME NEW e \in ToSet(succ[w]) PROVE e.to \in Succs(r, w) /\ f[e.to] = PathsFrom(r, e.to)
      <4>1. e.to \in Succs(r, w)
        BY <1>0 DEF Succs
      <4>2. e.to \in Nodes /\ w < e.to
        BY <1>0, <4>1, SuccsFacts
      <4>3. e.to > w
        BY <4>2 DEF Nodes
      <4>. QED
        BY <1>2, <4>1, <4>2, <4>3
    <3>2. ASSUME NEW q \in Body(f, w) PROVE q \in PathsFrom(r, w)
      <4>1. PICK p \in UNION {f[e.to] : e \in ToSet(succ[w])} : q = <<w>> \o p
        BY <2>3, <3>2
      <4>2. PICK e \in ToSet(succ[w]) : p \in f[e.to]
        BY <4>1
      <4>. HIDE DEF Body
      <4>. QED
        BY <2>3, <3>1, <4>1, <4>2, <1>0, PathGrows
    <3>3. ASSUME NEW q \in PathsFrom(r, w) PROVE q \in Body(f, w)
      <4>1. PICK v \in Succs(r, w) : \E p \in PathsFrom(r, v) : q = <<w>> \o p
        BY <1>0, <2>3, PathSplits
      <4>2. PICK e \in ToSet(succ[w]) : v = e.to
        BY <1>0 DEF Succs
      <4>3. PICK p \in PathsFrom(r, v) : q = <<w>> \o p
        BY <4>1
      <4>4. p \in UNION {f[x.to] : x \in ToSet(succ[w])}
        BY <3>1, <4>2
      <4>. QED
        BY <2>3, <4>3, <4>4
    <3>. HIDE DEF Body, F
    <3>. QED
      BY <2>1, <3>2, <3>3
  <2>. QED
    BY <2>2, <2>3
<1>3. IsIt(F)
  <2>1. ASSUME NEW w \in Nodes PROVE Body(F, w) = F[w]
    <3>. HIDE DEF Body, F
    <3>. QED
      BY <1>2
  <2>2. F = [w \in Nodes |-> F[w]]
    OBVIOUS
  <2>. HIDE DEF Body, F
  <2>. QED
    BY <2>1, <2>2
<1>4. IsIt(from)
  <2>. HIDE DEF IsIt, F
  <2>. QED
    BY <1>3
<1>5. \A w \in Nodes : from[w] = Body(from, w)
  <2>. HIDE DEF Body, from
  <2>. QED
    BY <1>4
\* The last node at which they differ would not be one.
<1>6. from[u] = F[u]
  <2>. SUFFICES ASSUME from[u] # F[u] PROVE FALSE
    OBVIOUS
  <2>. DEFINE Bad == {q \in 0..N : N - q \in Nodes /\ from[N - q] # F[N - q]}
  <2>1. Bad \in SUBSET Nat /\ Bad # {}
    <3>1. N - u \in 0..N /\ N - (N - u) = u /\ N \in Nat
      BY <1>0, RequestFacts DEF Nodes
    <3>2. N - u \in Bad
      <4>. HIDE DEF from, F
      <4>1. N - (N - u) \in Nodes /\ from[N - (N - u)] # F[N - (N - u)]
        BY <3>1
      <4>. QED
        BY <3>1, <4>1
    <3>3. Bad \in SUBSET Nat
      BY <3>1
    <3>. HIDE DEF Bad
    <3>. QED
      BY <3>2, <3>3
  <2>2. PICK q \in Bad : \A x \in Bad : q <= x
    <3>. HIDE DEF Bad
    <3>. QED
      BY <2>1, Least
  <2>. DEFINE w == N - q
  <2>3. w \in Nodes /\ from[w] # F[w] /\ q \in 0..N
    <3>. HIDE DEF from, F
    <3>. QED
      BY <2>2
  <2>4. ASSUME NEW x \in Nodes, x > w PROVE from[x] = F[x]
    <3>. SUFFICES ASSUME from[x] # F[x] PROVE FALSE
      OBVIOUS
    <3>. HIDE DEF from, F
    <3>1. N - x \in 0..N /\ N - (N - x) = x /\ N \in Nat /\ ~(q <= N - x)
      BY <2>3, <2>4, <1>0, RequestFacts DEF Nodes
    <3>2. N - x \in Bad
      BY <3>1
    <3>. QED
      BY <2>2, <3>1, <3>2
  <2>5. Body(from, w) = F[w]
    <3>. HIDE DEF from, F, Body, w
    <3>. QED
      BY <1>2, <2>3, <2>4
  <2>. HIDE DEF from, F, Body, w
  <2>. QED
    BY <1>5, <2>3, <2>5
<1>. HIDE DEF from
<1>. QED
  BY <1>1, <1>6 DEF r

-----------------------------------------------------------------------------
(* The exact search: what its frames and its memo hold. *)

SuffixLists == Seq(Seq(Nodes))
Frames == [node : Nodes, ci : Nat \ {0}, acc : SuffixLists]

\* The suffixes with one node more before each.
Behind(u, S) == {<<u>> \o p : p \in S}
\* The paths from u whose second node is one of its first q children.
ThroughFirst(r, u, q) == UNION {Behind(u, PathsFrom(r, r.succ[u][h].to)) : h \in 1..q}

\* What a frame holds that has tried its first q children, fired telling
\* whether some list has reached the cap.
FrameOK(r, f, q, fired) ==
    /\ f.node # r.end_idx /\ f.ci <= Len(r.succ[f.node]) + 1
    /\ ToSet(f.acc) \subseteq PathsFrom(r, f.node)
    /\ ~fired => Len(f.acc) < MAX_PATHS_PER_NODE /\ ToSet(f.acc) = ThroughFirst(r, f.node, q)
\* The frame above f is for the child that f tried last.
Linked(r, f, g) == f.ci >= 2 /\ r.succ[f.node][f.ci - 1].to = g.node
\* The child that a frame below the top tried last is not done yet.
Tried(s, k) == IF k = Len(s) THEN s[k].ci - 1 ELSE s[k].ci - 2

StackOK(r, s, fired) ==
    /\ s \in Seq(Frames)
    /\ s # <<>> => s[1].node = r.start_idx
    /\ \A k \in 1..Len(s) : FrameOK(r, s[k], Tried(s, k), fired)
    /\ \A k \in 1..(Len(s) - 1) : Linked(r, s[k], s[k + 1])

MemoOK(r, m, fired) ==
    /\ DOMAIN m \subseteq Nodes \ {r.end_idx}
    /\ \A u \in DOMAIN m : /\ m[u] \in SuffixLists /\ ToSet(m[u]) \subseteq PathsFrom(r, u)
                           /\ ~fired => ToSet(m[u]) = PathsFrom(r, u)

OutInv ==
    IF pathRequest.is_large \/ searchStep # "done" THEN out = <<>> /\ ~truncated
    ELSE /\ out \in SuffixLists /\ IsInjective(out) /\ Len(out) <= max_paths
         /\ ToSet(out) \subseteq PathsFrom(pathRequest, start_idx)
         /\ ~truncated => ToSet(out) = PathsFrom(pathRequest, start_idx)
         /\ truncated /\ ~cap_fired => ToSet(out) # PathsFrom(pathRequest, start_idx)

ExactInv ==
    /\ pathRequest \in PathRequests
    /\ searchStep \in (IF pathRequest.is_large THEN {"longest_first", "done"} ELSE {"exact", "done"})
    /\ cap_fired \in BOOLEAN /\ truncated \in BOOLEAN
    /\ StackOK(pathRequest, stack, cap_fired)
    /\ MemoOK(pathRequest, memo, cap_fired)
    /\ stack = <<>> => start_idx \in DOMAIN memo
    /\ OutInv

LEMMA ThroughFacts ==
    ASSUME NEW r \in PathRequests, NEW u \in Nodes, u # r.end_idx
    PROVE  /\ ThroughFirst(r, u, 0) = {}
           /\ \A q \in Nat : ThroughFirst(r, u, q + 1)
                               = ThroughFirst(r, u, q) \cup Behind(u, PathsFrom(r, r.succ[u][q + 1].to))
           /\ ThroughFirst(r, u, Len(r.succ[u])) = PathsFrom(r, u)
           /\ \A q \in 0..Len(r.succ[u]) : ThroughFirst(r, u, q) \subseteq PathsFrom(r, u)
<1>. DEFINE Through(h) == Behind(u, PathsFrom(r, r.succ[u][h].to))
<1>1. \A q : ThroughFirst(r, u, q) = UNION {Through(h) : h \in 1..q}
  BY DEF ThroughFirst
<1>2. ASSUME NEW h \in 1..Len(r.succ[u]) PROVE Through(h) \subseteq PathsFrom(r, u)
  <2>1. r.succ[u][h].to \in Succs(r, u)
    BY SuccsFacts
  <2>. QED
    BY <2>1, PathGrows DEF Behind
<1>3. ASSUME NEW x \in PathsFrom(r, u) PROVE \E h \in 1..Len(r.succ[u]) : x \in Through(h)
  <2>1. PICK v \in Succs(r, u) : \E p \in PathsFrom(r, v) : x = <<u>> \o p
    BY PathSplits
  <2>2. PICK h \in 1..Len(r.succ[u]) : v = r.succ[u][h].to
    BY SuccsFacts
  <2>. QED
    BY <2>1, <2>2 DEF Behind
<1>. HIDE DEF Through
<1>4. ThroughFirst(r, u, 0) = {}
  <2>1. 1..0 = {}
    OBVIOUS
  <2>. QED
    BY <1>1, <2>1
<1>5. ASSUME NEW q \in Nat PROVE ThroughFirst(r, u, q + 1) = ThroughFirst(r, u, q) \cup Through(q + 1)
  <2>1. \A h : h \in 1..(q + 1) <=> h \in 1..q \/ h = q + 1
    OBVIOUS
  <2>. QED
    BY <1>1, <2>1
<1>6. ThroughFirst(r, u, Len(r.succ[u])) = PathsFrom(r, u)
  <2>. DEFINE T == ThroughFirst(r, u, Len(r.succ[u]))
  <2>1. T = UNION {Through(h) : h \in 1..Len(r.succ[u])}
    BY <1>1
  <2>. HIDE DEF T
  <2>2. T \subseteq PathsFrom(r, u)
    BY <1>2, <2>1
  <2>3. PathsFrom(r, u) \subseteq T
    BY <1>3, <2>1
  <2>. QED
    BY <2>2, <2>3 DEF T
<1>7. ASSUME NEW q \in 0..Len(r.succ[u]) PROVE ThroughFirst(r, u, q) \subseteq PathsFrom(r, u)
  <2>1. \A h \in 1..q : h \in 1..Len(r.succ[u])
    BY HopFacts
  <2>. QED
    BY <1>1, <1>2, <2>1
<1>. QED
  BY <1>4, <1>5, <1>6, <1>7 DEF Through

\* A list goes on growing by the suffixes behind its node, up to the cap.
LEMMA ExtendedIs ==
    ASSUME NEW acc \in SuffixLists, NEW u \in Nodes, NEW sufs \in SuffixLists
    PROVE  LET longer == Extended(acc, u, sufs) IN
           /\ longer \in SuffixLists
           /\ ToSet(longer) \subseteq ToSet(acc) \cup Behind(u, ToSet(sufs))
           /\ sufs = <<>> => longer = acc
           /\ ~Capped(longer) => ToSet(longer) = ToSet(acc) \cup Behind(u, ToSet(sufs))
<1>. DEFINE room == IF Capped(acc) THEN 1 ELSE MAX_PATHS_PER_NODE - Len(acc)
            n == IF Len(sufs) < room THEN Len(sufs) ELSE room
            new == [i \in 1..n |-> <<u>> \o sufs[i]]
            longer == Extended(acc, u, sufs)
<1>. DEFINE L == Len(acc)
            M == Len(sufs)
<1>1. /\ L \in Nat /\ M \in Nat /\ MAX_PATHS_PER_NODE \in Nat \ {0}
      /\ DOMAIN acc = 1..L /\ DOMAIN sufs = 1..M
  BY PathRequestAssumption DEF SuffixLists
<1>2. Capped(acc) <=> L >= MAX_PATHS_PER_NODE
  BY DEF Capped
<1>3. /\ n \in Nat /\ n <= M /\ (M = 0 => n = 0)
      /\ ~(L + n >= MAX_PATHS_PER_NODE) => n = M
  <2>. HIDE DEF L, M
  <2>1. CASE Capped(acc)
    <3>1. room = 1 /\ n = IF M < 1 THEN M ELSE 1
      BY <2>1 DEF M
    <3>. HIDE DEF room, n
    <3>. QED
      BY <1>1, <1>2, <2>1, <3>1
  <2>2. CASE ~Capped(acc)
    <3>1. room = MAX_PATHS_PER_NODE - L /\ n = IF M < room THEN M ELSE room
      BY <2>2 DEF L, M
    <3>. HIDE DEF room, n
    <3>2. room \in Nat \ {0} /\ room + L = MAX_PATHS_PER_NODE
      BY <1>1, <1>2, <2>2, <3>1
    <3>. QED
      BY <1>1, <3>1, <3>2
  <2>. QED
    BY <2>1, <2>2
<1>4. longer = acc \o new
  BY DEF Extended
<1>. HIDE DEF n, room, L, M
<1>5. ASSUME NEW i \in 1..n PROVE <<u>> \o sufs[i] \in Seq(Nodes) /\ i \in 1..M
  <2>1. i \in 1..M
    BY <1>1, <1>3
  <2>2. sufs[i] \in Seq(Nodes)
    <3>. DEFINE T == Seq(Nodes)
    <3>1. sufs \in Seq(T) /\ i \in DOMAIN sufs
      BY <1>1, <2>1 DEF SuffixLists
    <3>. HIDE DEF T
    <3>2. sufs[i] \in T
      BY <3>1
    <3>. QED
      BY <3>2 DEF T
  <2>. QED
    BY <2>1, <2>2, Prefixed
<1>6. new \in SuffixLists /\ Len(new) = n
  <2>1. new \in [1..n -> Seq(Nodes)]
    BY <1>5
  <2>. HIDE DEF new
  <2>. QED
    BY <1>3, <2>1 DEF SuffixLists
<1>7. \A i \in 1..n : new[i] = <<u>> \o sufs[i]
  OBVIOUS
<1>. HIDE DEF new, longer
<1>8. /\ longer \in SuffixLists /\ Len(longer) = L + n /\ DOMAIN longer = 1..(L + n)
      /\ \A i \in 1..L : longer[i] = acc[i]
      /\ \A i \in 1..n : longer[L + i] = new[i]
  <2>. DEFINE T == Seq(Nodes)
  <2>1. acc \in Seq(T) /\ new \in Seq(T)
    BY <1>6 DEF SuffixLists
  <2>. HIDE DEF T, longer, new
  <2>2. longer = acc \o new /\ Len(new) = n /\ Len(acc) = L
    BY <1>4, <1>6 DEF L
  <2>3. /\ longer \in Seq(T) /\ Len(longer) = L + n
        /\ \A i \in 1..(L + n) : longer[i] = IF i <= L THEN acc[i] ELSE new[i - L]
    BY <2>1, <2>2, ConcatProperties
  <2>4. \A i \in 1..L : longer[i] = acc[i]
    BY <2>3, <1>1, <1>3
  <2>5. \A i \in 1..n : longer[L + i] = new[i]
    <3>. TAKE i \in 1..n
    <3>1. L + i \in 1..(L + n) /\ ~(L + i <= L) /\ (L + i) - L = i
      BY <1>1, <1>3
    <3>. QED
      BY <2>3, <3>1
  <2>. QED
    BY <2>3, <2>4, <2>5 DEF SuffixLists, T
<1>9. ToSet(longer) = ToSet(acc) \cup {<<u>> \o sufs[i] : i \in 1..n}
  <2>1. ASSUME NEW j \in 1..(L + n)
        PROVE  longer[j] \in ToSet(acc) \cup {<<u>> \o sufs[i] : i \in 1..n}
    <3>1. CASE j \in 1..L
      BY <1>1, <1>8, <3>1 DEF ToSet
    <3>2. CASE j \notin 1..L
      <4>1. j - L \in 1..n /\ j = L + (j - L)
        BY <1>1, <1>3, <3>2
      <4>2. longer[j] = <<u>> \o sufs[j - L]
        BY <1>7, <1>8, <4>1
      <4>. QED
        BY <4>1, <4>2
    <3>. QED
      BY <3>1, <3>2
  <2>2. ASSUME NEW i \in 1..L PROVE acc[i] \in ToSet(longer)
    <3>1. i \in 1..(L + n)
      BY <1>1, <1>3
    <3>. QED
      BY <1>8, <3>1 DEF ToSet
  <2>3. ASSUME NEW i \in 1..n PROVE <<u>> \o sufs[i] \in ToSet(longer)
    <3>1. L + i \in 1..(L + n)
      BY <1>1, <1>3
    <3>. QED
      BY <1>7, <1>8, <3>1 DEF ToSet
  <2>4. ToSet(longer) \subseteq ToSet(acc) \cup {<<u>> \o sufs[i] : i \in 1..n}
    BY <1>8, <2>1 DEF ToSet
  <2>5. ToSet(acc) \subseteq ToSet(longer)
    BY <1>1, <2>2 DEF ToSet
  <2>. QED
    BY <2>3, <2>4, <2>5
<1>10. ASSUME sufs = <<>> PROVE longer = acc
  <2>1. n = 0
    BY <1>1, <1>3, <1>10 DEF M
  <2>2. new = <<>>
    BY <1>6, <2>1 DEF SuffixLists
  <2>. QED
    BY <1>4, <2>2 DEF SuffixLists
<1>11. ASSUME ~Capped(longer) PROVE n = M
  BY <1>3, <1>8, <1>11 DEF Capped
<1>12. ToSet(sufs) = {sufs[i] : i \in 1..M}
  BY <1>1 DEF ToSet
<1>13. ToSet(longer) \subseteq ToSet(acc) \cup Behind(u, ToSet(sufs))
  BY <1>5, <1>9, <1>12 DEF Behind
<1>14. ASSUME ~Capped(longer) PROVE ToSet(longer) = ToSet(acc) \cup Behind(u, ToSet(sufs))
  BY <1>9, <1>11, <1>12, <1>14 DEF Behind
<1>. QED
  BY <1>8, <1>10, <1>13, <1>14 DEF longer

LEMMA FrameFields ==
    ASSUME NEW f \in Frames
    PROVE  f.node \in Nodes /\ f.ci \in Nat \ {0} /\ f.acc \in SuffixLists
BY DEF Frames

LEMMA FrameLater ==
    ASSUME NEW r, NEW f, NEW q, NEW c1 \in BOOLEAN, NEW c2 \in BOOLEAN, c1 => c2, FrameOK(r, f, q, c1)
    PROVE  FrameOK(r, f, q, c2)
BY DEF FrameOK

\* A stack stays right when the frames above its first n do, and the one next
\* to those is still for the same node.
LEMMA SameBelow ==
    ASSUME NEW r, NEW s \in Seq(Frames), NEW t \in Seq(Frames), NEW c1 \in BOOLEAN, NEW c2 \in BOOLEAN,
           c1 => c2, StackOK(r, s, c1), NEW n \in Nat, n < Len(s), n < Len(t),
           \A k \in 1..n : t[k] = s[k],
           t[n + 1].node = s[n + 1].node,
           \A k \in (n + 1)..Len(t) : FrameOK(r, t[k], Tried(t, k), c2),
           \A k \in (n + 1)..(Len(t) - 1) : Linked(r, t[k], t[k + 1])
    PROVE  StackOK(r, t, c2)
<1>1. Len(s) \in Nat /\ Len(t) \in Nat /\ s # <<>> /\ t # <<>>
  OBVIOUS
<1>2. t[1].node = r.start_idx
  <2>1. s[1].node = r.start_idx
    BY <1>1 DEF StackOK
  <2>2. CASE n = 0
    BY <2>1, <2>2
  <2>3. CASE n # 0
    BY <2>1, <2>3
  <2>. QED
    BY <2>2, <2>3
<1>3. ASSUME NEW k \in 1..Len(t) PROVE FrameOK(r, t[k], Tried(t, k), c2)
  <2>1. CASE k \in 1..n
    <3>1. t[k] = s[k] /\ k # Len(t) /\ k # Len(s) /\ k \in 1..Len(s)
      BY <1>1, <2>1
    <3>2. Tried(t, k) = Tried(s, k)
      BY <3>1 DEF Tried
    <3>3. FrameOK(r, s[k], Tried(s, k), c1)
      BY <3>1 DEF StackOK
    <3>. QED
      BY <3>1, <3>2, <3>3, FrameLater
  <2>2. CASE k \notin 1..n
    <3>1. k \in (n + 1)..Len(t)
      BY <1>1, <2>2
    <3>. QED
      BY <3>1
  <2>. QED
    BY <2>1, <2>2
<1>4. ASSUME NEW k \in 1..(Len(t) - 1) PROVE Linked(r, t[k], t[k + 1])
  <2>1. CASE k \in 1..n
    <3>1. t[k] = s[k] /\ k \in 1..(Len(s) - 1) /\ k + 1 \in 1..(n + 1)
      BY <1>1, <2>1
    <3>2. t[k + 1].node = s[k + 1].node
      <4>1. CASE k + 1 \in 1..n
        BY <4>1
      <4>2. CASE k + 1 \notin 1..n
        <5>1. k + 1 = n + 1
          BY <3>1, <4>2
        <5>. QED
          BY <5>1
      <4>. QED
        BY <4>1, <4>2
    <3>3. Linked(r, s[k], s[k + 1])
      BY <3>1 DEF StackOK
    <3>. QED
      BY <3>1, <3>2, <3>3 DEF Linked
  <2>2. CASE k \notin 1..n
    <3>1. k \in (n + 1)..(Len(t) - 1)
      BY <1>1, <2>2
    <3>. QED
      BY <3>1
  <2>. QED
    BY <2>1, <2>2
<1>. QED
  BY <1>2, <1>3, <1>4 DEF StackOK

\* A frame that has taken in the paths through its next child.
LEMMA FrameGrows ==
    ASSUME NEW r \in PathRequests, NEW f \in Frames, NEW g \in Frames, NEW q \in Nat, NEW q2,
           NEW c1 \in BOOLEAN, NEW c2 \in BOOLEAN,
           FrameOK(r, f, q, c1), g.node = f.node, g.ci <= Len(r.succ[f.node]) + 1,
           ToSet(g.acc) \subseteq PathsFrom(r, f.node),
           ~c2 => /\ ~c1 /\ ~Capped(g.acc) /\ q2 = q + 1
                  /\ ToSet(g.acc) = ToSet(f.acc)
                        \cup Behind(f.node, PathsFrom(r, r.succ[f.node][q + 1].to))
    PROVE  FrameOK(r, g, q2, c2)
<1>1. f.node \in Nodes /\ f.node # r.end_idx
  BY FrameFields DEF FrameOK
<1>2. ASSUME ~c2
      PROVE  Len(g.acc) < MAX_PATHS_PER_NODE /\ ToSet(g.acc) = ThroughFirst(r, g.node, q2)
  <2>1. ToSet(f.acc) = ThroughFirst(r, f.node, q)
    BY <1>2 DEF FrameOK
  <2>2. ThroughFirst(r, f.node, q + 1)
          = ThroughFirst(r, f.node, q) \cup Behind(f.node, PathsFrom(r, r.succ[f.node][q + 1].to))
    BY <1>1, ThroughFacts
  <2>3. ToSet(g.acc) = ThroughFirst(r, f.node, q + 1)
    BY <1>2, <2>1, <2>2
  <2>4. Len(g.acc) \in Nat /\ ~(Len(g.acc) >= MAX_PATHS_PER_NODE)
    BY <1>2, FrameFields DEF Capped, SuffixLists
  <2>5. Len(g.acc) < MAX_PATHS_PER_NODE
    BY <2>4, PathRequestAssumption
  <2>. QED
    BY <1>2, <2>3, <2>5
<1>. QED
  BY <1>1, <1>2 DEF FrameOK

\* The list of a frame for u after the suffixes of its next child v have been
\* added to it.
TakesIn(r, acc, u, v, sufs, fired) ==
    LET longer == Extended(acc, u, sufs) IN
    /\ longer \in SuffixLists
    /\ ToSet(longer) \subseteq PathsFrom(r, u)
    /\ ~fired /\ (sufs = <<>> \/ ~Capped(longer))
         => ~Capped(longer) /\ ToSet(longer) = ToSet(acc) \cup Behind(u, PathsFrom(r, v))

LEMMA SuffixesAdded ==
    ASSUME NEW r \in PathRequests, NEW f \in Frames, NEW q \in Nat, q + 1 <= Len(r.succ[f.node]),
           NEW c1 \in BOOLEAN, FrameOK(r, f, q, c1), NEW sufs \in SuffixLists,
           NEW v \in Nodes, v = r.succ[f.node][q + 1].to,
           ToSet(sufs) \subseteq PathsFrom(r, v), ~c1 => ToSet(sufs) = PathsFrom(r, v)
    PROVE  TakesIn(r, f.acc, f.node, v, sufs, c1)
<1>. DEFINE longer == Extended(f.acc, f.node, sufs)
<1>1. f.node \in Nodes /\ f.node # r.end_idx /\ f.acc \in SuffixLists
  BY FrameFields DEF FrameOK
<1>2. v \in Succs(r, f.node)
  <2>1. q + 1 \in 1..Len(r.succ[f.node])
    BY <1>1, HopFacts
  <2>. QED
    BY <1>1, <2>1, SuccsFacts
<1>3. /\ longer \in SuffixLists
      /\ ToSet(longer) \subseteq ToSet(f.acc) \cup Behind(f.node, ToSet(sufs))
      /\ sufs = <<>> => longer = f.acc
      /\ ~Capped(longer) => ToSet(longer) = ToSet(f.acc) \cup Behind(f.node, ToSet(sufs))
  BY <1>1, ExtendedIs
<1>. HIDE DEF longer
<1>4. \A p \in ToSet(sufs) : <<f.node>> \o p \in PathsFrom(r, f.node)
  BY <1>1, <1>2, PathGrows
<1>5. ToSet(longer) \subseteq PathsFrom(r, f.node)
  BY <1>3, <1>4 DEF FrameOK, Behind
<1>6. ASSUME ~c1, sufs = <<>> \/ ~Capped(longer) PROVE ~Capped(longer)
  <2>1. CASE sufs = <<>>
    <3>1. longer = f.acc /\ Len(f.acc) < MAX_PATHS_PER_NODE
      BY <1>3, <1>6, <2>1 DEF FrameOK
    <3>2. Len(f.acc) \in Nat
      BY <1>1 DEF SuffixLists
    <3>3. ~(Len(f.acc) >= MAX_PATHS_PER_NODE)
      BY <3>1, <3>2, PathRequestAssumption
    <3>. QED
      BY <3>1, <3>3 DEF Capped
  <2>. QED
    BY <1>6, <2>1
<1>7. ASSUME ~c1, ~Capped(longer) PROVE ToSet(longer) = ToSet(f.acc) \cup Behind(f.node, PathsFrom(r, v))
  BY <1>3, <1>7
<1>. QED
  BY <1>3, <1>5, <1>6, <1>7 DEF longer, TakesIn

-----------------------------------------------------------------------------
(* The steps of the exact search. *)

LEMMA TopFacts ==
    ASSUME ExactInv, Searching
    PROVE  /\ pathRequest \in PathRequests /\ searchStep = "exact" /\ ~pathRequest.is_large
           /\ stack \in Seq(Frames) /\ Len(stack) \in Nat \ {0}
           /\ Top = stack[Len(stack)] /\ Top \in Frames
           /\ FrameOK(pathRequest, Top, Top.ci - 1, cap_fired)
           /\ Children = pathRequest.succ[Top.node]
<1>1. pathRequest \in PathRequests /\ searchStep = "exact" /\ stack \in Seq(Frames) /\ stack # <<>>
  BY DEF ExactInv, Searching, StackOK
<1>2. ~pathRequest.is_large
  BY <1>1 DEF ExactInv
<1>3. Len(stack) \in Nat \ {0} /\ Top = stack[Len(stack)]
  BY <1>1 DEF Top, Last
<1>4. Top \in Frames /\ Len(stack) \in 1..Len(stack)
  BY <1>1, <1>3
<1>5. FrameOK(pathRequest, stack[Len(stack)], Tried(stack, Len(stack)), cap_fired)
  BY <1>4 DEF ExactInv, StackOK
<1>. QED
  BY <1>1, <1>2, <1>3, <1>4, <1>5 DEF Tried, Children, succ

LEMMA FrontFacts ==
    ASSUME NEW s \in Seq(Frames), Len(s) \in Nat \ {0}
    PROVE  /\ Front(s) \in Seq(Frames) /\ Len(Front(s)) = Len(s) - 1
           /\ \A k \in 1..(Len(s) - 1) : Front(s)[k] = s[k]
<1>. DEFINE n == Len(s) - 1
<1>1. n \in Nat /\ \A k \in 1..n : s[k] \in Frames
  OBVIOUS
<1>2. Front(s) = SubSeq(s, 1, n)
  BY DEF Front
<1>. HIDE DEF n
<1>3. /\ SubSeq(s, 1, n) \in Seq(Frames) /\ Len(SubSeq(s, 1, n)) = IF 1 <= n THEN n - 1 + 1 ELSE 0
      /\ \A k \in 1..(n - 1 + 1) : SubSeq(s, 1, n)[k] = s[1 + k - 1]
  BY <1>1, SubSeqProperties
<1>4. Front(s) \in Seq(Frames) /\ Len(Front(s)) = n /\ \A k \in 1..n : Front(s)[k] = s[k]
  BY <1>1, <1>2, <1>3
<1>. QED
  BY <1>4 DEF n

LEMMA TopReplaced ==
    ASSUME NEW s \in Seq(Frames), Len(s) \in Nat \ {0}, NEW f \in Frames
    PROVE  LET t == Append(Front(s), f) IN
           /\ t \in Seq(Frames) /\ Len(t) = Len(s) /\ t[Len(s)] = f
           /\ \A k \in 1..(Len(s) - 1) : t[k] = s[k]
<1>1. /\ Front(s) \in Seq(Frames) /\ Len(Front(s)) = Len(s) - 1
      /\ \A k \in 1..(Len(s) - 1) : Front(s)[k] = s[k]
  BY FrontFacts
<1>. QED
  BY <1>1

\* A step that replaces the top frame by one that has gone past its child.
LEMMA GoesOn ==
    ASSUME ExactInv, Searching, NEW longer \in SuffixLists, NEW c2 \in BOOLEAN, Top.ci <= Len(Children),
           ToSet(longer) \subseteq PathsFrom(pathRequest, Top.node), cap_fired => c2,
           ~c2 => /\ ~cap_fired /\ ~Capped(longer)
                  /\ ToSet(longer) = ToSet(Top.acc) \cup Behind(Top.node, PathsFrom(pathRequest, Child))
    PROVE  StackOK(pathRequest, Append(Front(stack), Advance(longer)), c2)
<1>. DEFINE r == pathRequest
            g == Advance(longer)
            f == Top
            n == Len(stack)
            t == Append(Front(stack), g)
<1>1. /\ r \in PathRequests /\ stack \in Seq(Frames) /\ n \in Nat \ {0} /\ f = stack[n]
      /\ f \in Frames /\ FrameOK(r, f, f.ci - 1, cap_fired) /\ Children = r.succ[f.node]
  BY TopFacts
<1>2. f.node \in Nodes /\ f.ci \in Nat \ {0} /\ f.acc \in SuffixLists /\ Len(Children) \in Nat
  BY <1>1, FrameFields, HopFacts
<1>3. g.node = f.node /\ g.acc = longer /\ g.ci = IF Capped(longer) THEN Len(Children) + 1 ELSE f.ci + 1
  BY DEF Advance
<1>4. g \in Frames /\ g.ci <= Len(Children) + 1
  <2>1. g.ci \in Nat \ {0} /\ g.ci <= Len(Children) + 1
    BY <1>2, <1>3
  <2>2. g = [node |-> f.node, ci |-> g.ci, acc |-> longer]
    BY <1>3 DEF Advance
  <2>. HIDE DEF g
  <2>. QED
    BY <1>2, <2>1, <2>2 DEF Frames
<1>5. Child = r.succ[f.node][(f.ci - 1) + 1].to
  BY <1>1, <1>2 DEF Child
<1>6. FrameOK(r, g, g.ci - 1, c2)
  <2>1. f.ci - 1 \in Nat /\ (~Capped(longer) => g.ci - 1 = (f.ci - 1) + 1)
    BY <1>2, <1>3
  <2>2. cap_fired \in BOOLEAN
    BY DEF ExactInv
  <2>3. g.ci <= Len(r.succ[f.node]) + 1
    BY <1>1, <1>4
  <2>4. ToSet(g.acc) \subseteq PathsFrom(r, f.node)
    BY <1>3
  <2>5. ~c2 => /\ ~cap_fired /\ ~Capped(g.acc) /\ g.ci - 1 = (f.ci - 1) + 1
               /\ ToSet(g.acc) = ToSet(f.acc)
                     \cup Behind(f.node, PathsFrom(r, r.succ[f.node][(f.ci - 1) + 1].to))
    BY <1>3, <1>5, <2>1
  <2>. HIDE DEF g, f, r
  <2>. DEFINE q == f.ci - 1
              q2 == g.ci - 1
  <2>6. q \in Nat /\ FrameOK(r, f, q, cap_fired)
    BY <1>1, <2>1
  <2>7. ~c2 => /\ ~cap_fired /\ ~Capped(g.acc) /\ q2 = q + 1
               /\ ToSet(g.acc) = ToSet(f.acc)
                     \cup Behind(f.node, PathsFrom(r, r.succ[f.node][q + 1].to))
    BY <2>5
  <2>. HIDE DEF q, q2
  <2>8. FrameOK(r, g, q2, c2)
    BY <1>1, <1>3, <1>4, <2>2, <2>3, <2>4, <2>6, <2>7, FrameGrows
  <2>. QED
    BY <2>8 DEF q2
<1>7. t \in Seq(Frames) /\ Len(t) = n /\ t[n] = g /\ \A k \in 1..(n - 1) : t[k] = stack[k]
  <2>. HIDE DEF g
  <2>. QED
    BY <1>1, <1>4, TopReplaced
<1>8. StackOK(r, stack, cap_fired) /\ cap_fired \in BOOLEAN
  BY DEF ExactInv
<1>. HIDE DEF g, f, r, t
<1>9. StackOK(r, t, c2)
  <2>. DEFINE m == n - 1
  <2>1. m \in Nat /\ m + 1 = n /\ m < n
    BY <1>1
  <2>2. /\ m < Len(stack) /\ m < Len(t) /\ t[m + 1].node = stack[m + 1].node
        /\ \A k \in 1..m : t[k] = stack[k]
    BY <1>1, <1>3, <1>7, <2>1
  <2>3. ASSUME NEW k \in (m + 1)..Len(t) PROVE FrameOK(r, t[k], Tried(t, k), c2)
    <3>1. k = n /\ n = Len(t)
      BY <1>1, <1>7, <2>1
    <3>. QED
      BY <1>6, <1>7, <3>1 DEF Tried
  <2>4. (m + 1)..(Len(t) - 1) = {}
    BY <1>1, <1>7
  <2>. HIDE DEF m, n
  <2>5. \A k \in (m + 1)..(Len(t) - 1) : Linked(r, t[k], t[k + 1])
    BY <2>4
  <2>. QED
    BY <1>1, <1>7, <1>8, <2>1, <2>2, <2>3, <2>5, SameBelow
<1>. QED
  BY <1>9 DEF t, g, r

\* A step that only searches on.
LEMMA SearchesOn ==
    ASSUME ExactInv, Searching, UNCHANGED <<pathRequest, out, truncated, searchStep>>,
           cap_fired' \in BOOLEAN, StackOK(pathRequest, stack', cap_fired'),
           MemoOK(pathRequest, memo', cap_fired'),
           stack' = <<>> => start_idx \in DOMAIN memo'
    PROVE  ExactInv'
<1>1. /\ pathRequest' \in PathRequests /\ truncated' \in BOOLEAN /\ searchStep' = "exact"
      /\ ~pathRequest'.is_large
  BY TopFacts DEF ExactInv
<1>2. OutInv'
  BY <1>1, TopFacts DEF ExactInv, OutInv
<1>3. StackOK(pathRequest', stack', cap_fired') /\ MemoOK(pathRequest', memo', cap_fired')
  OBVIOUS
<1>4. start_idx' = start_idx
  BY DEF start_idx
<1>. QED
  BY <1>1, <1>2, <1>3, <1>4 DEF ExactInv

LEMMA MemoLater ==
    ASSUME NEW r, NEW m, NEW c1 \in BOOLEAN, NEW c2 \in BOOLEAN, c1 => c2, MemoOK(r, m, c1)
    PROVE  MemoOK(r, m, c2)
BY DEF MemoOK

LEMMA ChildFacts ==
    ASSUME ExactInv, Searching, Top.ci <= Len(Children)
    PROVE  /\ Top.node \in Nodes /\ Top.ci \in Nat \ {0} /\ Top.acc \in SuffixLists
           /\ Child = pathRequest.succ[Top.node][Top.ci].to
           /\ Child \in Succs(pathRequest, Top.node) /\ Child \in Nodes
           /\ Top.node # end_idx /\ end_idx = pathRequest.end_idx
<1>1. Top.node \in Nodes /\ Top.ci \in Nat \ {0} /\ Top.acc \in SuffixLists
  BY TopFacts, FrameFields
<1>2. Top.ci \in 1..Len(pathRequest.succ[Top.node])
  BY <1>1, TopFacts, HopFacts
<1>3. Child = pathRequest.succ[Top.node][Top.ci].to
  BY TopFacts DEF Child
<1>4. Child \in Succs(pathRequest, Top.node)
  BY <1>1, <1>2, <1>3, TopFacts, SuccsFacts
<1>5. Child \in Nodes
  BY <1>1, <1>4, TopFacts, SuccsFacts
<1>6. Top.node # end_idx /\ end_idx = pathRequest.end_idx
  BY TopFacts DEF FrameOK, end_idx
<1>. QED
  BY <1>1, <1>3, <1>4, <1>5, <1>6

LEMMA AppendFacts ==
    ASSUME NEW T, NEW s \in Seq(T), NEW x \in T
    PROVE  /\ Append(s, x) \in Seq(T) /\ Len(Append(s, x)) = Len(s) + 1
           /\ \A k \in 1..Len(s) : Append(s, x)[k] = s[k]
           /\ Append(s, x)[Len(s) + 1] = x
           /\ ToSet(Append(s, x)) = ToSet(s) \cup {x}
<1>. DEFINE t == Append(s, x)
<1>1. /\ t \in Seq(T) /\ Len(t) = Len(s) + 1 /\ Len(s) \in Nat
      /\ DOMAIN s = 1..Len(s) /\ DOMAIN t = 1..(Len(s) + 1)
      /\ \A k \in 1..Len(s) : t[k] = s[k]
      /\ t[Len(s) + 1] = x
  OBVIOUS
<1>. HIDE DEF t
<1>2. \A k : k \in 1..(Len(s) + 1) <=> k \in 1..Len(s) \/ k = Len(s) + 1
  BY <1>1
<1>3. ToSet(t) = ToSet(s) \cup {x}
  BY <1>1, <1>2 DEF ToSet
<1>. QED
  BY <1>1, <1>3 DEF t

LEMMA StackGoesOn ==
    ASSUME ExactInv, Searching, NEW longer \in SuffixLists
    PROVE  Advance(longer) \in Frames /\ Append(Front(stack), Advance(longer)) # <<>>
<1>1. stack \in Seq(Frames) /\ Len(stack) \in Nat \ {0} /\ Top \in Frames /\ Children = pathRequest.succ[Top.node]
  BY TopFacts
<1>2. Top.node \in Nodes /\ Top.ci \in Nat \ {0} /\ Len(Children) \in Nat
  BY <1>1, TopFacts, FrameFields, HopFacts
<1>3. Advance(longer) \in Frames
  BY <1>2 DEF Advance, Frames
<1>4. Len(Append(Front(stack), Advance(longer))) = Len(stack)
  BY <1>1, <1>3, TopReplaced
<1>. QED
  BY <1>1, <1>3, <1>4

LEMMA ReachEndKeeps == ExactInv /\ ReachEnd => ExactInv'
<1>. SUFFICES ASSUME ExactInv, ReachEnd PROVE ExactInv'
  OBVIOUS
<1>. DEFINE p == <<Top.node, end_idx>>
            longer == Append(Top.acc, p)
            c2 == cap_fired \/ Capped(longer)
<1>1. /\ Searching /\ Top.ci <= Len(Children) /\ Child = end_idx
      /\ stack' = Append(Front(stack), Advance(longer)) /\ cap_fired' = c2
      /\ UNCHANGED <<pathRequest, memo, out, truncated, searchStep>>
  BY DEF ReachEnd
<1>2. p = <<Top.node>> \o <<end_idx>>
  BY <1>1, ChildFacts
<1>3. PathsFrom(pathRequest, Child) = {<<end_idx>>}
  BY <1>1, ChildFacts, PathOfEnd
<1>4. Behind(Top.node, PathsFrom(pathRequest, Child)) = {p}
  BY <1>2, <1>3 DEF Behind
<1>5. p \in PathsFrom(pathRequest, Top.node)
  <2>1. Top.node \in Nodes /\ Top.node # pathRequest.end_idx /\ Child \in Succs(pathRequest, Top.node)
    BY <1>1, ChildFacts
  <2>2. <<end_idx>> \in PathsFrom(pathRequest, Child)
    BY <1>3
  <2>3. <<Top.node>> \o <<end_idx>> \in PathsFrom(pathRequest, Top.node)
    BY <2>1, <2>2, PathGrows
  <2>. QED
    BY <1>2, <2>3
<1>6. longer \in SuffixLists /\ ToSet(longer) = ToSet(Top.acc) \cup {p}
  <2>. DEFINE T == Seq(Nodes)
  <2>1. Top.acc \in Seq(T) /\ p \in T
    BY <1>1, <1>5, ChildFacts DEF SuffixLists, PathsFrom
  <2>. HIDE DEF T, p
  <2>2. longer \in Seq(T) /\ ToSet(longer) = ToSet(Top.acc) \cup {p}
    BY <2>1, AppendFacts
  <2>. QED
    BY <2>2 DEF SuffixLists, T
<1>7. ToSet(longer) \subseteq PathsFrom(pathRequest, Top.node)
  BY <1>1, <1>5, <1>6, TopFacts DEF FrameOK
<1>8. /\ cap_fired \in BOOLEAN /\ c2 \in BOOLEAN /\ (cap_fired => c2)
      /\ MemoOK(pathRequest, memo, cap_fired) /\ memo' = memo
  BY <1>1 DEF ExactInv
<1>. HIDE DEF p, longer
<1>9. ~c2 => /\ ~cap_fired /\ ~Capped(longer)
             /\ ToSet(longer) = ToSet(Top.acc) \cup Behind(Top.node, PathsFrom(pathRequest, Child))
  BY <1>4, <1>6
<1>. HIDE DEF c2
<1>10. StackOK(pathRequest, stack', c2)
  BY <1>1, <1>6, <1>7, <1>8, <1>9, GoesOn
<1>11. stack' # <<>>
  BY <1>1, <1>6, StackGoesOn
<1>. QED
  BY <1>1, <1>8, <1>10, <1>11, MemoLater, SearchesOn

LEMMA UseMemoKeeps == ExactInv /\ UseMemo => ExactInv'
<1>. SUFFICES ASSUME ExactInv, UseMemo PROVE ExactInv'
  OBVIOUS
<1>. DEFINE longer == Extended(Top.acc, Top.node, memo[Child])
            c2 == cap_fired \/ (memo[Child] # <<>> /\ Capped(longer))
<1>1. /\ Searching /\ Top.ci <= Len(Children) /\ Child \in DOMAIN memo
      /\ stack' = Append(Front(stack), Advance(longer)) /\ cap_fired' = c2
      /\ UNCHANGED <<pathRequest, memo, out, truncated, searchStep>>
  BY DEF UseMemo
<1>2. /\ cap_fired \in BOOLEAN /\ c2 \in BOOLEAN /\ (cap_fired => c2)
      /\ MemoOK(pathRequest, memo, cap_fired) /\ memo' = memo
  BY <1>1 DEF ExactInv
<1>3. /\ memo[Child] \in SuffixLists /\ ToSet(memo[Child]) \subseteq PathsFrom(pathRequest, Child)
      /\ ~cap_fired => ToSet(memo[Child]) = PathsFrom(pathRequest, Child)
  BY <1>1, <1>2 DEF MemoOK
<1>4. /\ longer \in SuffixLists
      /\ ToSet(longer) \subseteq PathsFrom(pathRequest, Top.node)
      /\ ~c2 => /\ ~cap_fired /\ ~Capped(longer)
                /\ ToSet(longer) = ToSet(Top.acc) \cup Behind(Top.node, PathsFrom(pathRequest, Child))
  <2>. DEFINE q == Top.ci - 1
  <2>1. q \in Nat /\ q + 1 = Top.ci
    BY <1>1, ChildFacts
  <2>2. /\ pathRequest \in PathRequests /\ Top \in Frames /\ FrameOK(pathRequest, Top, q, cap_fired)
        /\ q + 1 <= Len(pathRequest.succ[Top.node])
    BY <1>1, <2>1, TopFacts
  <2>3. Child = pathRequest.succ[Top.node][q + 1].to
    BY <1>1, <2>1, ChildFacts
  <2>4. /\ ~c2 => ~cap_fired /\ (memo[Child] = <<>> \/ ~Capped(longer))
        /\ longer = Extended(Top.acc, Top.node, memo[Child])
    OBVIOUS
  <2>. HIDE DEF q, c2, longer
  <2>. DEFINE v == Child
              sufs == memo[Child]
  <2>5. /\ sufs \in SuffixLists /\ ToSet(sufs) \subseteq PathsFrom(pathRequest, v)
        /\ ~cap_fired => ToSet(sufs) = PathsFrom(pathRequest, v)
        /\ ~c2 => ~cap_fired /\ (sufs = <<>> \/ ~Capped(Extended(Top.acc, Top.node, sufs)))
        /\ longer = Extended(Top.acc, Top.node, sufs)
        /\ v = pathRequest.succ[Top.node][q + 1].to /\ v \in Nodes
    BY <1>1, <1>3, <2>3, <2>4, ChildFacts
  <2>. HIDE DEF v, sufs
  <2>. DEFINE r == pathRequest
              f == Top
  <2>6. /\ r \in PathRequests /\ f \in Frames /\ FrameOK(r, f, q, cap_fired) /\ q + 1 <= Len(r.succ[f.node])
        /\ ToSet(sufs) \subseteq PathsFrom(r, v)
        /\ ~cap_fired => ToSet(sufs) = PathsFrom(r, v)
        /\ v = r.succ[f.node][q + 1].to /\ v \in Nodes
        /\ cap_fired \in BOOLEAN /\ q \in Nat /\ sufs \in SuffixLists
    BY <1>2, <2>1, <2>2, <2>5
  <2>. HIDE DEF r, f
  <2>7. TakesIn(r, f.acc, f.node, v, sufs, cap_fired)
    BY <2>6, SuffixesAdded
  <2>. QED
    BY <2>5, <2>7 DEF TakesIn, v, r, f
<1>. HIDE DEF c2, longer
<1>5. StackOK(pathRequest, stack', c2)
  BY <1>1, <1>2, <1>4, GoesOn
<1>6. stack' # <<>>
  BY <1>1, <1>4, StackGoesOn
<1>. QED
  BY <1>1, <1>2, <1>5, <1>6, MemoLater, SearchesOn

LEMMA DescendKeeps == ExactInv /\ Descend => ExactInv'
<1>. SUFFICES ASSUME ExactInv, Descend PROVE ExactInv'
  OBVIOUS
<1>. DEFINE r == pathRequest
            n == Len(stack)
            f == Top
            g == [Top EXCEPT !.ci = @ + 1]
            h == Frame(Child)
            t == Front(stack) \o <<g, h>>
<1>1. /\ Searching /\ Top.ci <= Len(Children) /\ Child # end_idx /\ stack' = t
      /\ UNCHANGED <<pathRequest, memo, cap_fired, out, truncated, searchStep>>
  BY DEF Descend
<1>2. /\ r \in PathRequests /\ stack \in Seq(Frames) /\ n \in Nat \ {0} /\ f = stack[n]
      /\ f \in Frames /\ FrameOK(r, f, f.ci - 1, cap_fired) /\ Children = r.succ[f.node]
      /\ StackOK(r, stack, cap_fired) /\ cap_fired \in BOOLEAN /\ MemoOK(r, memo, cap_fired)
  BY <1>1, TopFacts DEF ExactInv
<1>3. /\ f.node \in Nodes /\ f.ci \in Nat \ {0} /\ f.acc \in SuffixLists
      /\ Child = r.succ[f.node][f.ci].to /\ Child \in Nodes /\ Child # r.end_idx
  BY <1>1, ChildFacts
<1>4. g = [node |-> f.node, ci |-> f.ci + 1, acc |-> f.acc]
  <2>1. f \in [node : Nodes, ci : Nat \ {0}, acc : SuffixLists]
    BY <1>2 DEF Frames
  <2>. HIDE DEF f
  <2>2. [f EXCEPT !.ci = f.ci + 1] = [node |-> f.node, ci |-> f.ci + 1, acc |-> f.acc]
    BY <2>1
  <2>. QED
    BY <2>2 DEF f
<1>. HIDE DEF g
<1>5. g \in Frames /\ g.node = f.node /\ g.ci = f.ci + 1 /\ g.acc = f.acc
  BY <1>3, <1>4 DEF Frames
<1>6. h \in Frames /\ h.node = Child /\ h.ci = 1 /\ h.acc = <<>>
  BY <1>3 DEF Frame, Frames, SuffixLists
<1>. HIDE DEF f, h
<1>7. /\ t \in Seq(Frames) /\ Len(t) = n + 1 /\ t[n] = g /\ t[n + 1] = h
      /\ \A k \in 1..(n - 1) : t[k] = stack[k]
  <2>. DEFINE s == Append(Front(stack), g)
  <2>1. s \in Seq(Frames) /\ Len(s) = n /\ s[n] = g /\ \A k \in 1..(n - 1) : s[k] = stack[k]
    BY <1>2, <1>5, TopReplaced
  <2>2. Front(stack) \in Seq(Frames)
    BY <1>2, FrontFacts
  <2>3. t = Append(s, h)
    BY <2>2, <1>5, <1>6
  <2>. HIDE DEF s, t
  <2>. QED
    BY <1>2, <1>6, <2>1, <2>3
<1>. HIDE DEF t, n
<1>8. FrameOK(r, g, f.ci - 1, cap_fired) /\ Tried(t, n) = f.ci - 1
  <2>1. n # Len(t) /\ g.ci - 2 = f.ci - 1
    BY <1>2, <1>3, <1>5, <1>7
  <2>2. g.ci <= Len(r.succ[g.node]) + 1
    BY <1>1, <1>2, <1>3, <1>5, HopFacts DEF f
  <2>3. FrameOK(r, g, f.ci - 1, cap_fired)
    BY <1>2, <1>5, <2>2 DEF FrameOK
  <2>. QED
    BY <1>7, <2>1, <2>3 DEF Tried
<1>9. FrameOK(r, h, 0, cap_fired) /\ Tried(t, n + 1) = 0
  <2>1. ToSet(<<>>) = {} /\ Len(<<>>) = 0 /\ 0 < MAX_PATHS_PER_NODE
    BY PathRequestAssumption DEF ToSet
  <2>2. ThroughFirst(r, h.node, 0) = {} /\ Len(r.succ[h.node]) \in Nat
    BY <1>2, <1>3, <1>6, ThroughFacts, HopFacts
  <2>3. h.ci <= Len(r.succ[h.node]) + 1
    BY <1>6, <2>2
  <2>4. FrameOK(r, h, 0, cap_fired)
    BY <1>3, <1>6, <2>1, <2>2, <2>3 DEF FrameOK
  <2>. QED
    BY <1>6, <1>7, <2>4 DEF Tried
<1>10. Linked(r, g, h)
  <2>1. g.ci >= 2 /\ g.ci - 1 = f.ci
    BY <1>3, <1>5
  <2>. QED
    BY <1>3, <1>5, <1>6, <2>1 DEF Linked
<1>. HIDE DEF t, r
<1>11. StackOK(r, t, cap_fired)
  <2>. DEFINE m == n - 1
  <2>1. m \in Nat /\ m + 1 = n /\ m < n /\ m < n + 1
    BY <1>2
  <2>2. /\ m < Len(stack) /\ m < Len(t) /\ t[m + 1].node = stack[m + 1].node
        /\ \A k \in 1..m : t[k] = stack[k]
    BY <1>2, <1>5, <1>7, <2>1 DEF n
  <2>3. ASSUME NEW k \in (m + 1)..Len(t) PROVE FrameOK(r, t[k], Tried(t, k), cap_fired)
    <3>1. k = n \/ k = n + 1
      BY <1>2, <1>7, <2>1
    <3>. QED
      BY <1>7, <1>8, <1>9, <3>1
  <2>4. ASSUME NEW k \in (m + 1)..(Len(t) - 1) PROVE Linked(r, t[k], t[k + 1])
    <3>1. k = n
      BY <1>2, <1>7, <2>1
    <3>. QED
      BY <1>7, <1>10, <3>1
  <2>. HIDE DEF m, n
  <2>. QED
    BY <1>2, <1>7, <2>1, <2>2, <2>3, <2>4, SameBelow
<1>12. stack' # <<>>
  <2>1. t # <<>>
    BY <1>2, <1>7
  <2>. QED
    BY <1>1, <2>1 DEF t
<1>13. StackOK(pathRequest, stack', cap_fired') /\ MemoOK(pathRequest, memo', cap_fired') /\ cap_fired' \in BOOLEAN
  BY <1>1, <1>2, <1>11 DEF t, r
<1>. QED
  BY <1>1, <1>12, <1>13, SearchesOn

\* The suffixes of a finished frame go into the memo.
LEMMA Memoises ==
    ASSUME ExactInv, Searching, Top.ci > Len(Children), NEW c2 \in BOOLEAN, cap_fired => c2
    PROVE  /\ Top.acc \in SuffixLists /\ ToSet(Top.acc) \subseteq PathsFrom(pathRequest, Top.node)
           /\ ~cap_fired => ToSet(Top.acc) = PathsFrom(pathRequest, Top.node)
           /\ MemoOK(pathRequest, [u \in DOMAIN memo \cup {Top.node} |-> IF u = Top.node THEN Top.acc ELSE memo[u]], c2)
<1>. DEFINE r == pathRequest
            f == Top
            m == [u \in DOMAIN memo \cup {f.node} |-> IF u = f.node THEN f.acc ELSE memo[u]]
<1>1. /\ r \in PathRequests /\ f \in Frames /\ FrameOK(r, f, f.ci - 1, cap_fired)
      /\ Children = r.succ[f.node] /\ MemoOK(r, memo, cap_fired) /\ cap_fired \in BOOLEAN
  BY TopFacts DEF ExactInv
<1>2. f.node \in Nodes /\ f.ci \in Nat \ {0} /\ f.acc \in SuffixLists /\ Len(Children) \in Nat /\ f.node # r.end_idx
  BY <1>1, FrameFields, HopFacts DEF FrameOK
<1>3. f.ci - 1 = Len(r.succ[f.node])
  <2>1. f.ci <= Len(Children) + 1 /\ f.ci > Len(Children)
    BY <1>1 DEF FrameOK
  <2>. HIDE DEF f
  <2>. QED
    BY <1>1, <1>2, <2>1
<1>4. /\ ToSet(f.acc) \subseteq PathsFrom(r, f.node)
      /\ ~cap_fired => ToSet(f.acc) = ThroughFirst(r, f.node, Len(r.succ[f.node]))
  BY <1>1, <1>3 DEF FrameOK
<1>. HIDE DEF f, r
<1>5. ~cap_fired => ToSet(f.acc) = PathsFrom(r, f.node)
  BY <1>1, <1>2, <1>4, ThroughFacts
<1>6. MemoOK(r, memo, c2)
  BY <1>1, MemoLater
<1>7. MemoOK(r, m, c2)
  <2>1. DOMAIN m \subseteq Nodes \ {r.end_idx}
    BY <1>1, <1>2 DEF MemoOK
  <2>2. ASSUME NEW u \in DOMAIN m
        PROVE  /\ m[u] \in SuffixLists /\ ToSet(m[u]) \subseteq PathsFrom(r, u)
               /\ ~c2 => ToSet(m[u]) = PathsFrom(r, u)
    <3>1. CASE u = f.node
      BY <1>2, <1>4, <1>5, <3>1
    <3>2. CASE u # f.node
      <4>1. m[u] = memo[u] /\ u \in DOMAIN memo
        BY <2>2, <3>2
      <4>. HIDE DEF m
      <4>. QED
        BY <1>6, <4>1 DEF MemoOK
    <3>. QED
      BY <3>1, <3>2
  <2>. HIDE DEF m
  <2>. QED
    BY <2>1, <2>2 DEF MemoOK
<1>. QED
  BY <1>2, <1>4, <1>5, <1>7 DEF f, r

LEMMA FinishKeeps == ExactInv /\ Finish => ExactInv'
<1>. SUFFICES ASSUME ExactInv, Finish PROVE ExactInv'
  OBVIOUS
<1>. DEFINE r == pathRequest
            n == Len(stack)
            f == Top
<1>1. /\ Searching /\ Top.ci > Len(Children)
      /\ memo' = [u \in DOMAIN memo \cup {f.node} |-> IF u = f.node THEN f.acc ELSE memo[u]]
      /\ UNCHANGED <<pathRequest, out, truncated, searchStep>>
  BY DEF Finish
<1>2. /\ r \in PathRequests /\ stack \in Seq(Frames) /\ n \in Nat \ {0} /\ f = stack[n] /\ f \in Frames
      /\ StackOK(r, stack, cap_fired) /\ cap_fired \in BOOLEAN /\ r = pathRequest
  BY <1>1, TopFacts DEF ExactInv
<1>6. Len(stack) = n /\ stack # <<>>
  BY <1>2
<1>3. /\ f.acc \in SuffixLists /\ ToSet(f.acc) \subseteq PathsFrom(r, f.node)
      /\ ~cap_fired => ToSet(f.acc) = PathsFrom(r, f.node)
  BY <1>1, <1>2, Memoises
<1>. HIDE DEF n, f, r
<1>4. CASE n = 1
  <2>1. stack' = <<>> /\ cap_fired' = cap_fired
    BY <1>4, <1>6 DEF Finish
  <2>2. StackOK(r, <<>>, cap_fired)
    BY DEF StackOK
  <2>3. start_idx \in DOMAIN memo'
    <3>1. f.node = start_idx
      BY <1>2, <1>4, <1>6 DEF StackOK, start_idx
    <3>. QED
      BY <1>1, <3>1
  <2>4. MemoOK(r, memo', cap_fired)
    BY <1>1, <1>2, Memoises DEF f
  <2>. QED
    BY <1>1, <1>2, <2>1, <2>2, <2>3, <2>4, SearchesOn
<1>5. CASE n # 1
  <2>. DEFINE below == Front(stack)
              e == stack[n - 1]
              longer == Extended(e.acc, e.node, f.acc)
              g == [e EXCEPT !.acc = longer]
              q == e.ci - 2
              t == Append(Front(below), g)
              c2 == cap_fired \/ (f.acc # <<>> /\ Capped(longer))
  <2>1. n - 1 \in Nat \ {0} /\ n - 1 \in 1..n /\ n - 1 # n /\ (n - 1) + 1 = n /\ n - 1 \in 1..(n - 1)
    BY <1>2, <1>5
  <2>2. /\ below \in Seq(Frames) /\ Len(below) = n - 1
        /\ \A k \in 1..(n - 1) : below[k] = stack[k]
    BY <1>2, <1>6, FrontFacts
  <2>3. Last(below) = e
    BY <2>1, <2>2 DEF Last
  <2>4. stack' = t /\ cap_fired' = c2
    BY <1>5, <1>6, <2>3 DEF Finish, f
  <2>5. e \in Frames /\ FrameOK(r, e, q, cap_fired) /\ Linked(r, e, f)
    <3>. HIDE DEF longer, g, t, c2
    <3>1. e \in Frames
      BY <1>2, <1>6, <2>1
    <3>2. FrameOK(r, e, Tried(stack, n - 1), cap_fired)
      BY <1>2, <1>6, <2>1 DEF StackOK
    <3>3. Tried(stack, n - 1) = q
      BY <1>6, <2>1 DEF Tried
    <3>4. Linked(r, e, stack[(n - 1) + 1])
      BY <1>2, <1>6, <2>1 DEF StackOK
    <3>. QED
      BY <1>2, <2>1, <3>1, <3>2, <3>3, <3>4
  <2>. HIDE DEF e, below
  <2>6. /\ e.node \in Nodes /\ e.ci \in Nat \ {0} /\ e.acc \in SuffixLists /\ e.ci >= 2
        /\ f.node = r.succ[e.node][e.ci - 1].to /\ e.ci <= Len(r.succ[e.node]) + 1
        /\ Len(r.succ[e.node]) \in Nat /\ f.node \in Nodes
    BY <1>2, <2>5, FrameFields, HopFacts DEF Linked, FrameOK
  <2>7. q \in Nat /\ q + 1 = e.ci - 1 /\ q + 1 <= Len(r.succ[e.node])
    BY <2>6
  <2>8. TakesIn(r, e.acc, e.node, f.node, f.acc, cap_fired)
    <3>1. f.node = r.succ[e.node][q + 1].to
      BY <2>6, <2>7
    <3>. HIDE DEF q
    <3>. DEFINE v == f.node
                sufs == f.acc
    <3>2. /\ v \in Nodes /\ v = r.succ[e.node][q + 1].to /\ sufs \in SuffixLists
          /\ ToSet(sufs) \subseteq PathsFrom(r, v) /\ (~cap_fired => ToSet(sufs) = PathsFrom(r, v))
      BY <1>3, <2>6, <3>1
    <3>. HIDE DEF v, sufs
    <3>3. TakesIn(r, e.acc, e.node, v, sufs, cap_fired)
      BY <1>2, <2>5, <2>7, <3>2, SuffixesAdded
    <3>. QED
      BY <3>3 DEF v, sufs
  <2>9. /\ longer \in SuffixLists /\ ToSet(longer) \subseteq PathsFrom(r, e.node)
        /\ c2 \in BOOLEAN /\ (cap_fired => c2)
        /\ ~c2 => /\ ~cap_fired /\ ~Capped(longer)
                  /\ ToSet(longer) = ToSet(e.acc) \cup Behind(e.node, PathsFrom(r, f.node))
    BY <1>2, <2>8 DEF TakesIn
  <2>. HIDE DEF longer, c2
  <2>10. g = [node |-> e.node, ci |-> e.ci, acc |-> longer]
    <3>1. e \in [node : Nodes, ci : Nat \ {0}, acc : SuffixLists]
      BY <2>5 DEF Frames
    <3>. QED
      BY <3>1
  <2>. HIDE DEF g
  <2>11. g \in Frames /\ g.node = e.node /\ g.ci = e.ci /\ g.acc = longer
    BY <2>6, <2>9, <2>10 DEF Frames
  <2>12. FrameOK(r, g, g.ci - 1, c2)
    <3>. DEFINE q2 == g.ci - 1
    <3>1. q2 = q + 1 /\ g.ci <= Len(r.succ[e.node]) + 1 /\ ToSet(g.acc) \subseteq PathsFrom(r, e.node)
      BY <2>6, <2>7, <2>9, <2>11
    <3>2. f.node = r.succ[e.node][q + 1].to
      BY <2>6, <2>7
    <3>3. ~c2 => /\ ~cap_fired /\ ~Capped(g.acc) /\ q2 = q + 1
                 /\ ToSet(g.acc) = ToSet(e.acc) \cup Behind(e.node, PathsFrom(r, r.succ[e.node][q + 1].to))
      BY <2>9, <2>11, <3>1, <3>2
    <3>. HIDE DEF q, q2
    <3>4. FrameOK(r, g, q2, c2)
      BY <1>2, <2>5, <2>7, <2>9, <2>11, <3>1, <3>3, FrameGrows
    <3>. QED
      BY <3>4 DEF q2
  <2>13. /\ t \in Seq(Frames) /\ Len(t) = n - 1 /\ t[n - 1] = g
         /\ \A k \in 1..((n - 1) - 1) : t[k] = below[k]
    <3>1. below \in Seq(Frames) /\ Len(below) \in Nat \ {0} /\ g \in Frames /\ Len(below) = n - 1
      BY <2>1, <2>2, <2>11
    <3>2. /\ t \in Seq(Frames) /\ Len(t) = Len(below) /\ t[Len(below)] = g
          /\ \A k \in 1..(Len(below) - 1) : t[k] = below[k]
      BY <3>1, TopReplaced
    <3>. HIDE DEF t, n
    <3>. QED
      BY <3>1, <3>2
  <2>. HIDE DEF t
  <2>14. StackOK(r, t, c2)
    <3>. DEFINE m == n - 2
    <3>1. m \in Nat /\ m + 1 = n - 1 /\ m < n /\ m < n - 1 /\ (n - 1) - 1 = m
      BY <1>2, <2>1
    <3>2. /\ m < Len(stack) /\ m < Len(t) /\ t[m + 1].node = stack[m + 1].node
          /\ \A k \in 1..m : t[k] = stack[k]
      <4>1. \A k \in 1..m : k \in 1..(n - 1)
        BY <3>1, <2>1
      <4>2. t[m + 1] = g /\ stack[m + 1] = e /\ Len(stack) = n
        BY <2>13, <3>1 DEF e, n
      <4>. HIDE DEF m
      <4>. QED
        BY <2>2, <2>11, <2>13, <3>1, <4>1, <4>2
    <3>3. ASSUME NEW k \in (m + 1)..Len(t) PROVE FrameOK(r, t[k], Tried(t, k), c2)
      <4>1. k = n - 1 /\ k = Len(t)
        BY <2>1, <2>13, <3>1
      <4>. QED
        BY <2>12, <2>13, <4>1 DEF Tried
    <3>4. (m + 1)..(Len(t) - 1) = {}
      BY <2>1, <2>13, <3>1
    <3>. HIDE DEF m
    <3>5. \A k \in (m + 1)..(Len(t) - 1) : Linked(r, t[k], t[k + 1])
      BY <3>4
    <3>. QED
      BY <1>2, <2>9, <2>13, <3>1, <3>2, <3>3, <3>5, SameBelow
  <2>15. t # <<>>
    BY <2>1, <2>13
  <2>16. MemoOK(pathRequest, memo', c2)
    BY <1>1, <2>9, Memoises DEF f, r
  <2>17. StackOK(pathRequest, stack', cap_fired') /\ MemoOK(pathRequest, memo', cap_fired') /\ cap_fired' \in BOOLEAN
    BY <2>4, <2>9, <2>14, <2>16 DEF r
  <2>. QED
    BY <1>1, <2>4, <2>15, <2>17, SearchesOn
<1>. QED
  BY <1>4, <1>5

LEMMA SubSeqFirst ==
    ASSUME NEW T, NEW s \in Seq(T), NEW n \in Nat, n < Len(s)
    PROVE  LET t == SubSeq(s, 1, n) IN
           t \in Seq(T) /\ Len(t) = n /\ DOMAIN t = 1..n /\ \A k \in 1..n : t[k] = s[k]
<1>. DEFINE t == SubSeq(s, 1, n)
<1>1. \A k \in 1..n : s[k] \in T
  OBVIOUS
<1>2. /\ t \in Seq(T) /\ Len(t) = IF 1 <= n THEN n - 1 + 1 ELSE 0
      /\ \A k \in 1..(n - 1 + 1) : t[k] = s[1 + k - 1]
  BY <1>1, SubSeqProperties
<1>. HIDE DEF t
<1>3. Len(t) = n /\ \A k \in 1..n : t[k] = s[k]
  BY <1>2
<1>4. DOMAIN t = 1..n
  BY <1>2, <1>3
<1>. QED
  BY <1>2, <1>3, <1>4 DEF t

LEMMA CollectKeeps == ExactInv /\ Collect => ExactInv'
<1>. SUFFICES ASSUME ExactInv, Collect PROVE ExactInv'
  OBVIOUS
<1>. DEFINE r == pathRequest
            all == Distinct(memo[start_idx])
            P == PathsFrom(r, start_idx)
<1>1. /\ searchStep = "exact" /\ stack = <<>> /\ searchStep' = "done"
      /\ out' = (IF Len(all) > max_paths THEN SubSeq(all, 1, max_paths) ELSE all)
      /\ truncated' = (cap_fired \/ Len(all) > max_paths)
      /\ UNCHANGED <<pathRequest, stack, memo, cap_fired>>
  BY DEF Collect
<1>2. /\ r \in PathRequests /\ ~r.is_large /\ cap_fired \in BOOLEAN
      /\ memo[start_idx] \in SuffixLists /\ ToSet(memo[start_idx]) \subseteq P
      /\ ~cap_fired => ToSet(memo[start_idx]) = P
      /\ max_paths \in Nat \ {0}
  BY <1>1, RequestFacts DEF ExactInv, MemoOK, max_paths
<1>3. /\ all \in SuffixLists /\ IsInjective(all) /\ ToSet(all) \subseteq P
      /\ ~cap_fired => ToSet(all) = P
  <2>. DEFINE T == Seq(Nodes)
              s == memo[start_idx]
  <2>1. s \in Seq(T)
    BY <1>2 DEF SuffixLists
  <2>. HIDE DEF T, s
  <2>2. Distinct(s) \in Seq(T) /\ IsInjective(Distinct(s)) /\ ToSet(Distinct(s)) = ToSet(s)
    BY <2>1, DistinctIs
  <2>. QED
    BY <1>2, <2>2 DEF T, s, SuffixLists
<1>. HIDE DEF all, P
<1>4. Len(all) \in Nat /\ DOMAIN all = 1..Len(all) /\ ToSet(all) = {all[k] : k \in 1..Len(all)}
  BY <1>3 DEF SuffixLists, ToSet
<1>5. /\ out' \in SuffixLists /\ IsInjective(out') /\ Len(out') <= max_paths
      /\ ToSet(out') \subseteq P
      /\ ~truncated' => ToSet(out') = P
      /\ truncated' /\ ~cap_fired => ToSet(out') # P
      /\ truncated' \in BOOLEAN
  <2>1. CASE Len(all) > max_paths
    <3>. DEFINE t == SubSeq(all, 1, max_paths)
    <3>1. out' = t /\ truncated' = TRUE
      BY <1>1, <2>1
    <3>2. t \in SuffixLists /\ Len(t) = max_paths /\ DOMAIN t = 1..max_paths /\ \A k \in 1..max_paths : t[k] = all[k]
      <4>. DEFINE T == Seq(Nodes)
      <4>1. all \in Seq(T) /\ max_paths \in Nat /\ max_paths < Len(all)
        BY <1>2, <1>3, <1>4, <2>1 DEF SuffixLists
      <4>. HIDE DEF T
      <4>2. t \in Seq(T) /\ Len(t) = max_paths /\ DOMAIN t = 1..max_paths /\ \A k \in 1..max_paths : t[k] = all[k]
        BY <4>1, SubSeqFirst
      <4>. QED
        BY <4>2 DEF T, SuffixLists
    <3>. HIDE DEF t
    <3>3. \A k \in 1..max_paths : k \in 1..Len(all) /\ k # max_paths + 1
      BY <1>2, <1>4, <2>1
    <3>4. IsInjective(t)
      BY <1>3, <1>4, <3>2, <3>3 DEF IsInjective
    <3>5. ToSet(t) \subseteq ToSet(all)
      BY <1>4, <3>2, <3>3 DEF ToSet
    <3>6. max_paths + 1 \in 1..Len(all)
      BY <1>2, <1>4, <2>1
    <3>7. all[max_paths + 1] \in ToSet(all) /\ all[max_paths + 1] \notin ToSet(t)
      <4>1. \A k \in 1..max_paths : all[k] # all[max_paths + 1]
        BY <1>3, <1>4, <3>3, <3>6 DEF IsInjective
      <4>. QED
        BY <1>4, <3>2, <3>6, <4>1 DEF ToSet
    <3>8. ~cap_fired => ToSet(t) # P
      BY <1>3, <3>7
    <3>9. ToSet(t) \subseteq P /\ Len(t) <= max_paths
      BY <1>2, <1>3, <3>2, <3>5
    <3>. QED
      BY <3>1, <3>2, <3>4, <3>8, <3>9
  <2>2. CASE ~(Len(all) > max_paths)
    <3>1. out' = all /\ truncated' = cap_fired
      BY <1>1, <1>2, <2>2
    <3>2. Len(all) <= max_paths
      BY <1>2, <1>4, <2>2
    <3>. QED
      BY <1>2, <1>3, <3>1, <3>2
  <2>. QED
    BY <2>1, <2>2
<1>6. OutInv'
  <2>1. max_paths' = max_paths /\ start_idx' = start_idx
    BY <1>1 DEF max_paths, start_idx
  <2>2. ~pathRequest'.is_large /\ searchStep' = "done" /\ pathRequest' = r /\ cap_fired' = cap_fired
    BY <1>1, <1>2
  <2>. QED
    BY <1>5, <2>1, <2>2 DEF OutInv, P
<1>7. /\ StackOK(pathRequest', stack', cap_fired') /\ MemoOK(pathRequest', memo', cap_fired')
      /\ (stack' = <<>> => start_idx' \in DOMAIN memo') /\ pathRequest' \in PathRequests /\ cap_fired' \in BOOLEAN
  BY <1>1 DEF ExactInv, start_idx
<1>8. searchStep' \in (IF pathRequest'.is_large THEN {"longest_first", "done"} ELSE {"exact", "done"})
  BY <1>1, <1>2
<1>. QED
  BY <1>5, <1>6, <1>7, <1>8 DEF ExactInv

\* The other search leaves the exact one alone.
LEMMA OtherKeepsExact ==
    ASSUME ExactInv, LongestNext, UNCHANGED exactVars
    PROVE  ExactInv'
<1>1. pathRequest' = pathRequest /\ searchStep = "longest_first" /\ searchStep' \in {"longest_first", "done"}
  BY DEF LongestNext, GiveUp, SkipState, Expand, Complete, Stop, Pop
<1>2. pathRequest.is_large
  BY <1>1 DEF ExactInv
<1>3. OutInv'
  BY <1>1, <1>2 DEF OutInv, ExactInv, exactVars
<1>4. start_idx' = start_idx /\ UNCHANGED <<stack, memo, cap_fired, out, truncated>>
  BY <1>1 DEF start_idx, exactVars
<1>. QED
  BY <1>1, <1>2, <1>3, <1>4 DEF ExactInv

-----------------------------------------------------------------------------
(* The search longest first: its states, what it has yet to do, its tracker. *)

Ended(r, p) == p[Len(p)] = r.end_idx
\* Part of a path from the start.
Started(r, p) == p # <<>> /\ p[1] = r.start_idx /\ IsWalk(r, p)
AllStarted(r, S) == S \subseteq States /\ \A s \in S : Started(r, s.path)

Holds(S, path) == \E s \in S : s.path = path

\* What a search that gave nothing up has yet to expand is on its heap.
Closed(r, h, cache) ==
    /\ Holds(cache \cup DOMAIN h, <<r.start_idx>>)
    /\ \A c \in cache : ~Ended(r, c.path) =>
          \A v \in Succs(r, Last(c.path)) : Holds(cache \cup DOMAIN h, Append(c.path, v))

Fuller(n, S) == Cardinality(S) >= n
TrackerOK(n, kept, met, drop) ==
    /\ kept \subseteq met /\ IsFiniteSet(kept) /\ Cardinality(kept) <= n
    /\ \A t \in kept : \A u \in kept : t.path = u.path => t = u
    /\ \A c \in met : ~Holds(kept, c.path) => \A t \in kept : c.est <= t.est
    /\ \A c \in met : \A t \in kept : c.path = t.path => c.est <= t.est
    /\ ~Fuller(n, kept) \/ ~drop => \A c \in met : Holds(kept, c.path)

CountsInv ==
    /\ expansions \in 0..max_expansions
    /\ expansions_since_improve \in 0..no_improvement_cap
    /\ searchStep # "done" => expansions_since_improve < no_improvement_cap
    /\ searchStep = "done" /\ pathRequest.is_large /\ ~budget_exit => DOMAIN heap = {}
    /\ budget_exit \in BOOLEAN /\ dropped \in BOOLEAN /\ heap_trimmed \in BOOLEAN

StatesInv ==
    /\ heap \in Heaps
    /\ AllStarted(pathRequest, DOMAIN heap) /\ AllStarted(pathRequest, state_cache)
    /\ AllStarted(pathRequest, completed)
    /\ \A c \in completed : Ended(pathRequest, c.path)
    /\ \A c \in state_cache : Ended(pathRequest, c.path) => Holds(completed, c.path)

LongestInv ==
    /\ StatesInv
    /\ ~heap_trimmed /\ ~budget_exit => Closed(pathRequest, heap, state_cache)
    /\ TrackerOK(max_paths, tracker, completed, dropped)
    /\ CountsInv

\* A path comes in, and the tracker has room for it.
LEMMA TrackerAdds ==
    ASSUME NEW n \in Nat, NEW kept, NEW met, met \subseteq States, NEW drop \in BOOLEAN, TrackerOK(n, kept, met, drop),
           NEW s \in States, ~Holds(kept, s.path), ~Fuller(n, kept)
    PROVE  TrackerOK(n, kept \cup {s}, met \cup {s}, drop)
<1>1. s \notin kept
  BY DEF Holds
<1>2. \A c \in met : Holds(kept, c.path)
  BY DEF TrackerOK
<1>3. \A c \in met \cup {s} : Holds(kept \cup {s}, c.path)
  BY <1>2 DEF Holds
<1>4. /\ IsFiniteSet(kept \cup {s}) /\ Cardinality(kept \cup {s}) <= n
  <2>1. IsFiniteSet(kept) /\ Cardinality(kept) \in Nat
    BY FS_CardinalityType DEF TrackerOK
  <2>2. IsFiniteSet(kept \cup {s}) /\ Cardinality(kept \cup {s}) = Cardinality(kept) + 1
    BY <1>1, <2>1, FS_AddElement
  <2>. QED
    BY <2>1, <2>2 DEF Fuller
<1>5. ASSUME NEW c \in met \cup {s}, NEW t \in kept \cup {s}, c.path = t.path PROVE c.est <= t.est
  <2>1. CASE c \in met /\ t \in kept
    BY <1>5, <2>1 DEF TrackerOK
  <2>2. CASE c = s /\ t = s
    BY <2>2 DEF States
  <2>3. CASE c \in met /\ t = s
    BY <1>2, <1>5, <2>3
  <2>4. CASE c = s /\ t \in kept
    BY <1>5, <2>4 DEF Holds
  <2>. QED
    BY <1>5, <2>1, <2>2, <2>3, <2>4
<1>6. \A t \in kept \cup {s} : \A u \in kept \cup {s} : t.path = u.path => t = u
  BY DEF TrackerOK, Holds
<1>. QED
  BY <1>3, <1>4, <1>5, <1>6 DEF TrackerOK

\* A longer path takes the place of the shortest that the full tracker keeps.
LEMMA TrackerEvicts ==
    ASSUME NEW n \in Nat \ {0}, NEW kept, NEW met, met \subseteq States, NEW drop, TrackerOK(n, kept, met, drop),
           NEW s \in States, ~Holds(kept, s.path), Fuller(n, kept),
           NEW t \in kept, \A u \in kept : t.est <= u.est, s.est > t.est
    PROVE  TrackerOK(n, (kept \ {t}) \cup {s}, met \cup {s}, TRUE)
<1>. DEFINE kept2 == (kept \ {t}) \cup {s}
<1>1. s \notin kept /\ s \notin kept \ {t}
  BY DEF Holds
<1>2. IsFiniteSet(kept2) /\ Cardinality(kept2) <= n /\ Fuller(n, kept2)
  <2>1. IsFiniteSet(kept) /\ Cardinality(kept) \in Nat /\ Cardinality(kept) <= n
    BY FS_CardinalityType DEF TrackerOK
  <2>2. IsFiniteSet(kept \ {t}) /\ Cardinality(kept \ {t}) = Cardinality(kept) - 1
    BY <2>1, FS_RemoveElement
  <2>3. IsFiniteSet(kept2) /\ Cardinality(kept2) = (Cardinality(kept) - 1) + 1
    BY <1>1, <2>2, FS_AddElement
  <2>. QED
    BY <2>1, <2>3 DEF Fuller
<1>3. kept2 \subseteq met \cup {s}
  BY DEF TrackerOK
<1>4. \A u \in kept2 : u \in States /\ u.est \in Int /\ t.est \in Int /\ s.est \in Int /\ t.est <= u.est
  <2>1. kept \subseteq States
    BY DEF TrackerOK
  <2>2. \A u \in kept : u.est \in Int
    BY <2>1, StateFacts
  <2>3. s.est \in Int
    BY StateFacts
  <2>4. t.est <= s.est
    BY <2>2, <2>3
  <2>. QED
    BY <2>1, <2>2, <2>3, <2>4
<1>5. ASSUME NEW u \in kept2, NEW v \in kept2, u.path = v.path PROVE u = v
  BY <1>5 DEF TrackerOK, Holds
<1>6. ASSUME NEW c \in met \cup {s}, ~Holds(kept2, c.path), NEW u \in kept2 PROVE c.est <= u.est
  <2>1. c \in met /\ c.est \in Int
    BY <1>6, StateFacts DEF Holds
  <2>2. CASE Holds(kept, c.path)
    <3>1. PICK x \in kept : x.path = c.path
      BY <2>2 DEF Holds
    <3>2. x = t
      BY <1>6, <3>1 DEF Holds
    <3>3. c.est <= t.est
      BY <2>1, <3>1, <3>2 DEF TrackerOK
    <3>. QED
      BY <1>4, <2>1, <3>3
  <2>3. CASE ~Holds(kept, c.path)
    <3>1. c.est <= t.est
      BY <2>1, <2>3 DEF TrackerOK
    <3>. QED
      BY <1>4, <2>1, <3>1
  <2>. QED
    BY <2>2, <2>3
<1>7. ASSUME NEW c \in met \cup {s}, NEW u \in kept2, c.path = u.path PROVE c.est <= u.est
  <2>1. CASE c \in met /\ u \in kept
    BY <1>7, <2>1 DEF TrackerOK
  <2>2. CASE c = s /\ u = s
    BY <1>4, <2>2
  <2>3. CASE c \in met /\ u = s
    <3>1. ~Holds(kept, c.path) /\ c.est \in Int
      BY <1>7, <2>3, StateFacts
    <3>2. c.est <= t.est
      BY <2>3, <3>1 DEF TrackerOK
    <3>. QED
      BY <1>4, <2>3, <3>1, <3>2
  <2>4. CASE c = s /\ u \in kept
    BY <1>7, <2>4 DEF Holds
  <2>. QED
    BY <1>7, <2>1, <2>2, <2>3, <2>4
<1>. HIDE DEF kept2
<1>8. TrackerOK(n, kept2, met \cup {s}, TRUE)
  BY <1>2, <1>3, <1>5, <1>6, <1>7 DEF TrackerOK
<1>. QED
  BY <1>8 DEF kept2

\* A path that is no longer than any that the full tracker keeps is turned away.
LEMMA TrackerRejects ==
    ASSUME NEW n \in Nat, NEW kept, NEW met, met \subseteq States, NEW drop, TrackerOK(n, kept, met, drop),
           NEW s \in States, ~Holds(kept, s.path), Fuller(n, kept),
           NEW t \in kept, \A u \in kept : t.est <= u.est, s.est <= t.est
    PROVE  TrackerOK(n, kept, met \cup {s}, TRUE)
<1>1. kept \subseteq States
  BY DEF TrackerOK
<1>2. \A u \in kept : s.est <= u.est
  <2>1. \A u \in kept : u.est \in Int /\ s.est \in Int
    BY <1>1, StateFacts
  <2>. QED
    BY <2>1
<1>3. ASSUME NEW c \in met \cup {s}, ~Holds(kept, c.path), NEW u \in kept PROVE c.est <= u.est
  BY <1>2, <1>3 DEF TrackerOK
<1>4. ASSUME NEW c \in met \cup {s}, NEW u \in kept, c.path = u.path PROVE c.est <= u.est
  BY <1>2, <1>4 DEF TrackerOK
<1>. QED
  BY <1>3, <1>4 DEF TrackerOK

-----------------------------------------------------------------------------
(* The steps of the search longest first. *)

LEMMA HoldsMore ==
    ASSUME NEW S, NEW T, NEW p, Holds(S, p), \A s \in S : Holds(T, s.path)
    PROVE  Holds(T, p)
BY DEF Holds

LEMMA PopFacts ==
    ASSUME ExactInv, LongestInv, NEW s, Pop(s)
    PROVE  /\ pathRequest \in PathRequests /\ searchStep = "longest_first" /\ pathRequest.is_large
           /\ s \in DOMAIN heap /\ s \in States /\ heap \in Heaps
           /\ Started(pathRequest, s.path) /\ Len(s.path) \in Nat \ {0} /\ Last(s.path) = s.path[Len(s.path)]
           /\ Last(s.path) \in Nodes /\ (Last(s.path) = end_idx <=> Ended(pathRequest, s.path))
           /\ expansions' \in 0..max_expansions
           /\ max_paths \in Nat \ {0} /\ no_improvement_cap \in Nat \ {0}
           /\ expansions_since_improve \in Nat /\ expansions_since_improve < no_improvement_cap
           /\ budget_exit \in BOOLEAN /\ dropped \in BOOLEAN /\ heap_trimmed \in BOOLEAN
<1>1. /\ searchStep = "longest_first" /\ expansions < max_expansions /\ s \in DOMAIN heap /\ expansions' = expansions + 1
  BY DEF Pop, BagToSet
<1>2. pathRequest \in PathRequests /\ pathRequest.is_large
  BY <1>1 DEF ExactInv
<1>3. heap \in Heaps /\ s \in States /\ Started(pathRequest, s.path)
  BY <1>1 DEF LongestInv, StatesInv, AllStarted
<1>4. Len(s.path) \in Nat \ {0} /\ Last(s.path) = s.path[Len(s.path)] /\ Last(s.path) \in Nodes
  BY <1>3, StateFacts DEF Started, Last
<1>5. expansions \in 0..max_expansions /\ expansions_since_improve \in 0..no_improvement_cap /\ max_expansions \in Nat
      /\ no_improvement_cap \in Nat \ {0} /\ expansions_since_improve < no_improvement_cap
  BY <1>1, PathRequestAssumption DEF LongestInv, CountsInv
<1>6. max_paths \in Nat \ {0}
  BY <1>2, RequestFacts DEF max_paths
<1>7. Last(s.path) = end_idx <=> Ended(pathRequest, s.path)
  BY <1>4 DEF Ended, end_idx
<1>8. expansions' \in 0..max_expansions
  BY <1>1, <1>5
<1>9. budget_exit \in BOOLEAN /\ dropped \in BOOLEAN /\ heap_trimmed \in BOOLEAN
  BY DEF LongestInv, CountsInv
<1>. QED
  BY <1>1, <1>2, <1>3, <1>4, <1>5, <1>6, <1>7, <1>8, <1>9

LEMMA SinceFacts ==
    ASSUME ExactInv, LongestInv, NEW s, Pop(s)
    PROVE  /\ SinceImproved \in 0..no_improvement_cap
           /\ ~OutOfBudget => SinceImproved < no_improvement_cap
<1>1. /\ expansions_since_improve \in Nat /\ expansions_since_improve < no_improvement_cap
      /\ no_improvement_cap \in Nat \ {0}
  BY PopFacts
<1>2. CASE is_full
  BY <1>1, <1>2 DEF SinceImproved, OutOfBudget
<1>3. CASE ~is_full
  BY <1>1, <1>3 DEF SinceImproved, OutOfBudget
<1>. QED
  BY <1>2, <1>3

\* The heap without the state that was taken off it.
LEMMA LessHeap ==
    ASSUME NEW h \in Heaps, NEW r, AllStarted(r, DOMAIN h), NEW s
    PROVE  /\ h (-) SetToBag({s}) \in Heaps
           /\ AllStarted(r, DOMAIN (h (-) SetToBag({s})))
           /\ \A x \in DOMAIN h : x = s \/ x \in DOMAIN (h (-) SetToBag({s}))
BY OneLess DEF AllStarted

\* A state that is taken off and is visited, or was, leaves nothing undone.
LEMMA ClosedStays ==
    ASSUME NEW r, NEW h, NEW h2, NEW cache, Closed(r, h, cache),
           NEW s, Holds(cache, s.path), \A x \in DOMAIN h : x = s \/ x \in DOMAIN h2
    PROVE  Closed(r, h2, cache)
<1>1. \A p : Holds(cache \cup DOMAIN h, p) => Holds(cache \cup DOMAIN h2, p)
  BY DEF Holds
<1>. QED
  BY <1>1 DEF Closed

LEMMA ClosedGrows ==
    ASSUME NEW r, NEW h, NEW h2, NEW cache, Closed(r, h, cache), NEW s,
           \A x \in DOMAIN h : x = s \/ x \in DOMAIN h2,
           ~Ended(r, s.path) => \A v \in Succs(r, Last(s.path)) : Holds(DOMAIN h2, Append(s.path, v))
    PROVE  Closed(r, h2, {c \in cache : c.path # s.path} \cup {s})
<1>. DEFINE cache2 == {c \in cache : c.path # s.path} \cup {s}
<1>1. \A p : Holds(cache \cup DOMAIN h, p) => Holds(cache2 \cup DOMAIN h2, p)
  <2>. SUFFICES ASSUME NEW p, Holds(cache \cup DOMAIN h, p) PROVE Holds(cache2 \cup DOMAIN h2, p)
    OBVIOUS
  <2>1. PICK x \in cache \cup DOMAIN h : x.path = p
    BY DEF Holds
  <2>2. CASE s.path = p
    BY <2>2 DEF Holds
  <2>3. CASE s.path # p
    <3>1. x \in cache2 \cup DOMAIN h2
      BY <2>1, <2>3
    <3>. HIDE DEF cache2
    <3>. QED
      BY <2>1, <3>1 DEF Holds
  <2>. QED
    BY <2>2, <2>3
<1>2. ASSUME NEW c \in cache2, ~Ended(r, c.path), NEW v \in Succs(r, Last(c.path))
      PROVE  Holds(cache2 \cup DOMAIN h2, Append(c.path, v))
  <2>1. CASE c = s
    BY <1>2, <2>1 DEF Holds
  <2>2. CASE c \in cache
    <3>1. Holds(cache \cup DOMAIN h, Append(c.path, v))
      BY <1>2, <2>2 DEF Closed
    <3>. HIDE DEF cache2
    <3>. QED
      BY <1>1, <3>1
  <2>. QED
    BY <2>1, <2>2
<1>3. Holds(cache2 \cup DOMAIN h2, <<r.start_idx>>)
  <2>. HIDE DEF cache2
  <2>. QED
    BY <1>1 DEF Closed
<1>. HIDE DEF cache2
<1>4. Closed(r, h2, cache2)
  BY <1>2, <1>3 DEF Closed
<1>. QED
  BY <1>4 DEF cache2

LEMMA GiveUpKeeps ==
    ASSUME ExactInv, LongestInv, NEW s, GiveUp(s)
    PROVE  LongestInv'
<1>1. /\ Pop(s) /\ heap' = heap (-) SetToBag({s}) /\ budget_exit' = TRUE
      /\ expansions_since_improve' = SinceImproved /\ searchStep' = "done"
      /\ UNCHANGED <<pathRequest, state_cache, tracker, dropped, heap_trimmed, completed>>
  BY DEF GiveUp
<1>2. StatesInv'
  BY <1>1, PopFacts, LessHeap DEF LongestInv, StatesInv
<1>3. CountsInv'
  BY <1>1, PopFacts, SinceFacts DEF CountsInv
<1>4. max_paths' = max_paths
  BY <1>1 DEF max_paths
<1>. QED
  BY <1>1, <1>2, <1>3, <1>4 DEF LongestInv

LEMMA SkipStateKeeps ==
    ASSUME ExactInv, LongestInv, NEW s, SkipState(s)
    PROVE  LongestInv'
<1>1. /\ Pop(s) /\ ~OutOfBudget /\ Memoised(s) /\ heap' = heap (-) SetToBag({s})
      /\ expansions_since_improve' = SinceImproved
      /\ UNCHANGED <<pathRequest, state_cache, tracker, budget_exit, dropped, heap_trimmed, completed, searchStep>>
  BY DEF SkipState, flags
<1>2. StatesInv'
  BY <1>1, PopFacts, LessHeap DEF LongestInv, StatesInv
<1>3. CountsInv'
  BY <1>1, PopFacts, SinceFacts DEF CountsInv
<1>4. max_paths' = max_paths
  BY <1>1 DEF max_paths
<1>5. Holds(state_cache, s.path)
  BY <1>1 DEF Memoised, Holds
<1>6. \A x \in DOMAIN heap : x = s \/ x \in DOMAIN heap'
  BY <1>1, PopFacts, LessHeap DEF LongestInv, StatesInv
<1>7. (~heap_trimmed /\ ~budget_exit => Closed(pathRequest, heap, state_cache))'
  BY <1>1, <1>5, <1>6, ClosedStays DEF LongestInv
<1>. QED
  BY <1>1, <1>2, <1>3, <1>4, <1>7 DEF LongestInv

LEMMA StopKeeps ==
    ASSUME ExactInv, LongestInv, Stop
    PROVE  LongestInv'
<1>1. /\ budget_exit' = (budget_exit \/ DOMAIN heap # {}) /\ searchStep' = "done"
      /\ UNCHANGED <<pathRequest, heap, state_cache, tracker, expansions, expansions_since_improve,
                     dropped, heap_trimmed, completed>>
  BY DEF Stop, BagToSet
<1>2. StatesInv' /\ max_paths' = max_paths
  BY <1>1 DEF LongestInv, StatesInv, max_paths
<1>3. CountsInv'
  BY <1>1 DEF LongestInv, CountsInv
<1>4. ~budget_exit' => ~budget_exit
  BY <1>1 DEF LongestInv, CountsInv
<1>. QED
  BY <1>1, <1>2, <1>3, <1>4 DEF LongestInv

LEMMA OtherKeepsLongest ==
    ASSUME ExactInv, LongestInv, ExactNext, UNCHANGED longestVars
    PROVE  LongestInv'
<1>1. pathRequest' = pathRequest /\ searchStep = "exact"
  BY DEF ExactNext, ReachEnd, UseMemo, Descend, Finish, Collect, Searching
<1>2. ~pathRequest.is_large
  BY <1>1 DEF ExactInv
<1>3. UNCHANGED <<heap, state_cache, tracker, expansions, expansions_since_improve, budget_exit, dropped,
                  heap_trimmed, completed>>
  BY DEF longestVars
<1>4. StatesInv' /\ max_paths' = max_paths
  BY <1>1, <1>3 DEF LongestInv, StatesInv, max_paths
<1>5. CountsInv'
  BY <1>1, <1>2, <1>3 DEF LongestInv, CountsInv
<1>. QED
  BY <1>1, <1>3, <1>4, <1>5 DEF LongestInv

LEMMA WalkGrows ==
    ASSUME NEW r \in PathRequests, NEW p \in Seq(Nodes), Started(r, p), ~Ended(r, p), NEW v \in Succs(r, Last(p))
    PROVE  Append(p, v) \in Seq(Nodes) /\ Started(r, Append(p, v))
<1>. DEFINE q == Append(p, v)
            n == Len(p)
<1>1. n \in Nat \ {0} /\ p[1] = r.start_idx /\ Last(p) = p[n] /\ Last(p) \in Nodes /\ IsWalk(r, p)
  BY DEF Started, Last
<1>2. v \in Nodes
  BY <1>1, SuccsFacts
<1>3. q \in Seq(Nodes) /\ Len(q) = n + 1 /\ q[n + 1] = v /\ \A k \in 1..n : q[k] = p[k]
  BY <1>2, AppendFacts
<1>. HIDE DEF q, n
<1>4. IsWalk(r, q)
  <2>. SUFFICES ASSUME NEW k \in 1..n PROVE q[k] # r.end_idx /\ q[k + 1] \in Succs(r, q[k])
    BY <1>1, <1>3 DEF IsWalk
  <2>1. CASE k = n
    BY <1>1, <1>3, <2>1 DEF Ended, n
  <2>2. CASE k # n
    <3>1. k \in 1..(n - 1) /\ k + 1 \in 1..n
      BY <1>1, <2>2
    <3>2. p[k] # r.end_idx /\ p[k + 1] \in Succs(r, p[k])
      BY <1>1, <3>1 DEF IsWalk, n
    <3>. QED
      BY <1>3, <3>1, <3>2
  <2>. QED
    BY <2>1, <2>2
<1>5. q # <<>> /\ q[1] = r.start_idx
  BY <1>1, <1>3
<1>. QED
  BY <1>3, <1>4, <1>5 DEF Started, q

LEMMA ExpandKeeps ==
    ASSUME ExactInv, LongestInv, NEW s, Expand(s)
    PROVE  LongestInv'
<1>. DEFINE r == pathRequest
            less == heap (-) SetToBag({s})
            h == Pushed(less, s)
            cache2 == {c \in state_cache : c.path # s.path} \cup {s}
<1>1. /\ Pop(s) /\ ~OutOfBudget /\ Last(s.path) # end_idx /\ state_cache' = cache2
      /\ heap' \in Trimmed(h) /\ heap_trimmed' = (heap_trimmed \/ heap' # h)
      /\ expansions_since_improve' = SinceImproved
      /\ UNCHANGED <<pathRequest, tracker, budget_exit, dropped, completed, searchStep>>
  BY DEF Expand, Cache
<1>2. /\ r \in PathRequests /\ s \in States /\ heap \in Heaps /\ Started(r, s.path) /\ ~Ended(r, s.path)
      /\ Last(s.path) \in Nodes /\ s \in DOMAIN heap /\ s.path # <<>> /\ heap_trimmed \in BOOLEAN
  BY <1>1, PopFacts DEF Started
<1>3. /\ less \in Heaps /\ AllStarted(r, DOMAIN less)
      /\ \A x \in DOMAIN heap : x = s \/ x \in DOMAIN less
  BY <1>2, LessHeap DEF LongestInv, StatesInv
<1>. HIDE DEF less
<1>4. h \in Heaps /\ DOMAIN h = DOMAIN less \cup {Hop(s, e) : e \in ToSet(succ[Last(s.path)])}
  BY <1>2, <1>3, PushedIs
<1>. HIDE DEF h
<1>5. ASSUME NEW e \in ToSet(succ[Last(s.path)])
      PROVE  Hop(s, e) \in States /\ Started(r, Hop(s, e).path)
  <2>1. e.to \in Succs(r, Last(s.path))
    BY DEF Succs, succ
  <2>2. PICK k \in 1..Len(r.succ[Last(s.path)]) : e = r.succ[Last(s.path)][k]
    <3>1. succ[Last(s.path)] = r.succ[Last(s.path)]
      BY DEF succ
    <3>2. e \in ToSet(r.succ[Last(s.path)])
      BY <3>1
    <3>. QED
      BY <3>2 DEF ToSet
  <2>3. e.weight \in Int /\ s.est \in Int /\ s.path \in Seq(Nodes)
    BY <1>2, <2>2, HopFacts, StateFacts
  <2>4. Append(s.path, e.to) \in Seq(Nodes) /\ Started(r, Append(s.path, e.to))
    BY <1>2, <2>1, <2>3, WalkGrows
  <2>5. Hop(s, e).path = Append(s.path, e.to) /\ Hop(s, e) \in States
    BY <2>3, <2>4 DEF Hop, States
  <2>. QED
    BY <2>4, <2>5
<1>6. AllStarted(r, DOMAIN h)
  BY <1>3, <1>4, <1>5 DEF AllStarted
<1>7. heap' \in Heaps /\ DOMAIN heap' \subseteq DOMAIN h
  <2>1. pathRequest.max_paths \in Nat \ {0}
    BY <1>2, RequestFacts
  <2>. QED
    BY <1>1, <1>4, <2>1, TrimmedIs
<1>8. AllStarted(r, DOMAIN heap') /\ AllStarted(r, cache2)
  <2>1. AllStarted(r, state_cache)
    BY DEF LongestInv, StatesInv
  <2>. QED
    BY <1>2, <1>6, <1>7, <2>1 DEF AllStarted
<1>9. \A c \in cache2 : Ended(r, c.path) => Holds(completed, c.path)
  BY <1>2 DEF LongestInv, StatesInv
<1>. HIDE DEF cache2
<1>10. StatesInv'
  BY <1>1, <1>7, <1>8, <1>9 DEF LongestInv, StatesInv
<1>11. ASSUME ~heap_trimmed', ~budget_exit' PROVE Closed(r, heap', cache2)
  <2>1. ~heap_trimmed /\ ~budget_exit /\ heap' = h
    BY <1>1, <1>2, <1>11
  <2>2. Closed(r, heap, state_cache)
    BY <2>1 DEF LongestInv
  <2>3. \A x \in DOMAIN heap : x = s \/ x \in DOMAIN h
    BY <1>3, <1>4
  <2>4. ASSUME NEW v \in Succs(r, Last(s.path)) PROVE Holds(DOMAIN h, Append(s.path, v))
    <3>1. PICK e \in ToSet(succ[Last(s.path)]) : v = e.to
      BY DEF Succs, succ
    <3>2. Hop(s, e) \in DOMAIN h /\ Hop(s, e).path = Append(s.path, v)
      BY <1>4, <3>1 DEF Hop
    <3>. QED
      BY <3>2 DEF Holds
  <2>5. Closed(r, h, cache2)
    BY <2>2, <2>3, <2>4, ClosedGrows DEF cache2
  <2>. QED
    BY <2>1, <2>5
<1>12. CountsInv'
  <2>1. heap_trimmed' \in BOOLEAN
    BY <1>1, <1>2
  <2>. QED
    BY <1>1, <2>1, PopFacts, SinceFacts DEF CountsInv
<1>13. max_paths' = max_paths
  BY <1>1 DEF max_paths
<1>. QED
  BY <1>1, <1>10, <1>11, <1>12, <1>13 DEF LongestInv

LEMMA TrackerStep ==
    ASSUME ExactInv, LongestInv, NEW s, Complete(s)
    PROVE  /\ TrackerOK(max_paths, tracker', completed', dropped')
           /\ dropped' \in BOOLEAN /\ expansions_since_improve' \in 0..no_improvement_cap
           /\ expansions_since_improve' < no_improvement_cap
           /\ completed' \subseteq completed \cup {s} /\ completed \subseteq completed'
           /\ Holds(completed', s.path)
<1>1. /\ Pop(s) /\ ~OutOfBudget
      /\ \/ (Add(s) \/ Evict(s)) /\ expansions_since_improve' = 0
         \/ Keep(s) /\ expansions_since_improve' = SinceImproved
      /\ completed' = IF Tracked(s.path) THEN completed ELSE completed \cup {s}
  BY DEF Complete
<1>2. /\ max_paths \in Nat \ {0} /\ s \in States /\ completed \subseteq States /\ dropped \in BOOLEAN
      /\ TrackerOK(max_paths, tracker, completed, dropped) /\ tracker \subseteq completed
      /\ no_improvement_cap \in Nat \ {0}
  BY <1>1, PopFacts DEF LongestInv, StatesInv, AllStarted, TrackerOK
<1>3. (Tracked(s.path) <=> Holds(tracker, s.path)) /\ (is_full <=> Fuller(max_paths, tracker))
  BY DEF Tracked, Holds, is_full, Fuller
<1>4. expansions_since_improve' \in 0..no_improvement_cap /\ expansions_since_improve' < no_improvement_cap
  BY <1>1, <1>2, SinceFacts
<1>5. completed' \subseteq completed \cup {s} /\ completed \subseteq completed' /\ Holds(completed', s.path)
  BY <1>1, <1>2, <1>3 DEF Holds
<1>6. ASSUME ~is_full \/ Shortest \in SUBSET tracker
      PROVE  TrackerOK(max_paths, tracker', completed', dropped') /\ dropped' \in BOOLEAN
  <2>1. CASE Add(s)
    <3>1. ~Holds(tracker, s.path) /\ ~Fuller(max_paths, tracker) /\ tracker' = tracker \cup {s} /\ dropped' = dropped
          /\ completed' = completed \cup {s}
      BY <1>1, <1>3, <2>1 DEF Add
    <3>. QED
      BY <1>2, <3>1, TrackerAdds
  <2>2. CASE Evict(s)
    <3>1. /\ ~Holds(tracker, s.path) /\ Fuller(max_paths, tracker) /\ dropped' = TRUE
          /\ completed' = completed \cup {s}
      BY <1>1, <1>3, <2>2 DEF Evict
    <3>2. PICK t \in Shortest : tracker' = (tracker \ {t}) \cup {s}
      BY <2>2 DEF Evict
    <3>3. PICK x \in Shortest : s.est > x.est
      BY <2>2 DEF Evict
    <3>4. /\ t \in tracker /\ (\A u \in tracker : t.est <= u.est)
          /\ x \in tracker /\ (\A u \in tracker : x.est <= u.est)
      BY <3>2, <3>3 DEF Shortest
    <3>5. t.est \in Int /\ x.est \in Int /\ s.est \in Int
      BY <1>2, <3>4, StateFacts
    <3>6. s.est > t.est
      BY <3>3, <3>4, <3>5
    <3>7. TrackerOK(max_paths, (tracker \ {t}) \cup {s}, completed \cup {s}, TRUE)
      BY <1>2, <3>1, <3>4, <3>6, TrackerEvicts
    <3>. QED
      BY <3>1, <3>2, <3>7
  <2>3. CASE Keep(s)
    <3>1. CASE Tracked(s.path) /\ dropped' = dropped
      BY <1>1, <1>2, <2>3, <3>1 DEF Keep
    <3>2. CASE ~Tracked(s.path) /\ is_full /\ (\E t \in Shortest : s.est <= t.est) /\ dropped' = TRUE
      <4>1. PICK t \in Shortest : s.est <= t.est
        BY <3>2
      <4>2. t \in tracker /\ \A u \in tracker : t.est <= u.est
        BY DEF Shortest
      <4>3. /\ tracker' = tracker /\ dropped' = TRUE /\ completed' = completed \cup {s}
            /\ ~Holds(tracker, s.path) /\ Fuller(max_paths, tracker)
        BY <1>1, <1>3, <2>3, <3>2 DEF Keep
      <4>4. TrackerOK(max_paths, tracker, completed \cup {s}, TRUE)
        BY <1>2, <4>1, <4>2, <4>3, TrackerRejects
      <4>. QED
        BY <4>3, <4>4
    <3>. QED
      BY <2>3, <3>1, <3>2 DEF Keep
  <2>. QED
    BY <1>1, <2>1, <2>2, <2>3
<1>7. Shortest \in SUBSET tracker
  BY DEF Shortest
<1>. QED
  BY <1>4, <1>5, <1>6, <1>7

LEMMA CompleteKeeps ==
    ASSUME ExactInv, LongestInv, NEW s, Complete(s)
    PROVE  LongestInv'
<1>. DEFINE r == pathRequest
            cache2 == {c \in state_cache : c.path # s.path} \cup {s}
<1>1. /\ Pop(s) /\ Last(s.path) = end_idx /\ state_cache' = cache2
      /\ heap' = heap (-) SetToBag({s})
      /\ UNCHANGED <<pathRequest, budget_exit, heap_trimmed, searchStep>>
  BY DEF Complete, Cache
<1>2. /\ r \in PathRequests /\ s \in States /\ heap \in Heaps /\ Started(r, s.path) /\ Ended(r, s.path)
  BY <1>1, PopFacts
<1>3. /\ heap' \in Heaps /\ AllStarted(r, DOMAIN heap')
      /\ \A x \in DOMAIN heap : x = s \/ x \in DOMAIN heap'
  BY <1>1, <1>2, LessHeap DEF LongestInv, StatesInv
<1>4. AllStarted(r, cache2) /\ AllStarted(r, completed') /\ \A c \in completed' : Ended(r, c.path)
  <2>1. AllStarted(r, state_cache) /\ AllStarted(r, completed) /\ \A c \in completed : Ended(r, c.path)
    BY DEF LongestInv, StatesInv
  <2>2. completed' \subseteq completed \cup {s}
    BY TrackerStep
  <2>. QED
    BY <1>2, <2>1, <2>2 DEF AllStarted
<1>5. \A c \in cache2 : Ended(r, c.path) => Holds(completed', c.path)
  <2>1. Holds(completed', s.path) /\ completed \subseteq completed'
    BY TrackerStep
  <2>2. \A c \in state_cache : Ended(r, c.path) => Holds(completed, c.path)
    BY DEF LongestInv, StatesInv
  <2>3. \A p : Holds(completed, p) => Holds(completed', p)
    BY <2>1 DEF Holds
  <2>. QED
    BY <2>1, <2>2, <2>3
<1>. HIDE DEF cache2
<1>6. StatesInv'
  BY <1>1, <1>3, <1>4, <1>5 DEF StatesInv
<1>7. ASSUME ~heap_trimmed', ~budget_exit' PROVE Closed(r, heap', cache2)
  <2>1. Closed(r, heap, state_cache)
    BY <1>1, <1>7 DEF LongestInv
  <2>. QED
    BY <1>2, <1>3, <2>1, ClosedGrows DEF cache2
<1>8. CountsInv'
  BY <1>1, PopFacts, TrackerStep DEF CountsInv
<1>9. TrackerOK(max_paths', tracker', completed', dropped')
  BY <1>1, TrackerStep DEF max_paths
<1>. QED
  BY <1>1, <1>6, <1>7, <1>8, <1>9 DEF LongestInv

-----------------------------------------------------------------------------
(* The two searches together. *)

LEMMA StartsExact == SearchInit => ExactInv
<1>. SUFFICES ASSUME SearchInit PROVE ExactInv
  OBVIOUS
<1>. DEFINE r == pathRequest
            f == Frame(start_idx)
<1>1. /\ r \in PathRequests /\ stack = <<f>> /\ memo = [u \in {} |-> <<>>]
      /\ cap_fired = FALSE /\ out = <<>> /\ truncated = FALSE
      /\ searchStep = IF r.is_large THEN "longest_first" ELSE "exact"
  BY DEF SearchInit, ExactInit
<1>2. /\ start_idx = r.start_idx /\ start_idx \in Nodes /\ start_idx # r.end_idx
      /\ f.node = start_idx /\ f.ci = 1 /\ f.acc = <<>> /\ Len(r.succ[start_idx]) \in Nat
  BY <1>1, RequestFacts, HopFacts DEF start_idx, Frame
<1>3. f \in Frames
  BY <1>2 DEF Frame, Frames, SuffixLists
<1>4. MAX_PATHS_PER_NODE \in Nat \ {0}
  BY PathRequestAssumption
<1>. HIDE DEF f
<1>5. FrameOK(r, f, 0, FALSE)
  <2>1. ThroughFirst(r, f.node, 0) = {}
    <3>1. f.node \in Nodes /\ f.node # r.end_idx
      BY <1>2
    <3>. QED
      BY <1>1, <3>1, ThroughFacts
  <2>2. ToSet(f.acc) = {} /\ Len(f.acc) = 0
    BY <1>2 DEF ToSet
  <2>3. f.node # r.end_idx /\ f.ci <= Len(r.succ[f.node]) + 1
    BY <1>2
  <2>4. ToSet(f.acc) \subseteq PathsFrom(r, f.node)
    BY <2>2
  <2>5. Len(f.acc) < MAX_PATHS_PER_NODE /\ ToSet(f.acc) = ThroughFirst(r, f.node, 0)
    BY <1>4, <2>1, <2>2
  <2>. QED
    BY <2>3, <2>4, <2>5 DEF FrameOK
<1>6. stack \in Seq(Frames) /\ Len(stack) = 1 /\ stack[1] = f
  BY <1>1, <1>3
<1>7. StackOK(r, stack, cap_fired)
  <2>1. Tried(stack, 1) = 0
    BY <1>2, <1>6 DEF Tried
  <2>2. \A k \in 1..Len(stack) : k = 1
    BY <1>6
  <2>3. \A k \in 1..(Len(stack) - 1) : FALSE
    BY <1>6
  <2>4. \A k \in 1..Len(stack) : FrameOK(r, stack[k], Tried(stack, k), FALSE)
    BY <1>5, <1>6, <2>1, <2>2
  <2>5. stack[1].node = r.start_idx
    BY <1>2, <1>6
  <2>. QED
    BY <1>1, <1>6, <2>3, <2>4, <2>5 DEF StackOK
<1>8. MemoOK(r, memo, cap_fired)
  BY <1>1 DEF MemoOK
<1>9. OutInv
  BY <1>1 DEF OutInv
<1>10. stack # <<>>
  BY <1>6
<1>. QED
  BY <1>1, <1>7, <1>8, <1>9, <1>10 DEF ExactInv

LEMMA StartsLongest == SearchInit => LongestInv
<1>. SUFFICES ASSUME SearchInit PROVE LongestInv
  OBVIOUS
<1>. DEFINE r == pathRequest
            s == [path |-> <<start_idx>>, est |-> 0]
<1>1. /\ r \in PathRequests /\ heap = SetToBag({s}) /\ state_cache = {} /\ tracker = {}
      /\ expansions = 0 /\ expansions_since_improve = 0
      /\ budget_exit = FALSE /\ dropped = FALSE /\ heap_trimmed = FALSE
      /\ completed = {} /\ searchStep # "done"
  BY DEF SearchInit, LongestInit
<1>2. start_idx = r.start_idx /\ start_idx \in Nodes /\ max_paths \in Nat \ {0}
  BY <1>1, RequestFacts DEF start_idx, max_paths
<1>3. s \in States /\ s.path = <<start_idx>>
  BY <1>2 DEF States
<1>. HIDE DEF s
<1>4. heap \in [{s} -> Nat \ {0}] /\ DOMAIN heap = {s}
  BY <1>1 DEF SetToBag
<1>5. heap \in Heaps
  <2>1. {s} \in SUBSET States
    BY <1>3
  <2>. QED
    BY <1>4, <2>1 DEF Heaps
<1>6. Started(r, s.path)
  <2>1. Len(s.path) = 1 /\ s.path[1] = start_idx
    BY <1>3
  <2>. QED
    BY <1>2, <2>1 DEF Started, IsWalk
<1>7. StatesInv
  BY <1>1, <1>3, <1>4, <1>5, <1>6 DEF StatesInv, AllStarted
<1>8. Closed(r, heap, state_cache)
  BY <1>1, <1>2, <1>3, <1>4 DEF Closed, Holds
<1>9. TrackerOK(max_paths, tracker, completed, dropped)
  <2>1. IsFiniteSet(tracker) /\ Cardinality(tracker) = 0
    BY <1>1, FS_EmptySet
  <2>. QED
    BY <1>1, <1>2, <2>1 DEF TrackerOK
<1>10. CountsInv
  <2>1. max_expansions \in Nat /\ no_improvement_cap \in Nat \ {0}
    BY PathRequestAssumption
  <2>2. 0 \in 0..max_expansions /\ 0 \in 0..no_improvement_cap /\ 0 < no_improvement_cap
    BY <2>1
  <2>3. budget_exit \in BOOLEAN /\ dropped \in BOOLEAN /\ heap_trimmed \in BOOLEAN
    BY <1>1
  <2>. QED
    BY <1>1, <2>2, <2>3 DEF CountsInv
<1>. QED
  BY <1>7, <1>8, <1>9, <1>10 DEF LongestInv

LEMMA SearchesKeep == ExactInv /\ LongestInv /\ [SearchNext]_searchVars => (ExactInv /\ LongestInv)'
<1>. SUFFICES ASSUME ExactInv, LongestInv, [SearchNext]_searchVars PROVE ExactInv' /\ LongestInv'
  OBVIOUS
<1>1. CASE ExactSearch
  <2>1. LongestInv'
    BY <1>1, OtherKeepsLongest DEF ExactSearch
  <2>2. ExactInv'
    BY <1>1, ReachEndKeeps, UseMemoKeeps, DescendKeeps, FinishKeeps, CollectKeeps DEF ExactSearch, ExactNext
  <2>. QED
    BY <2>1, <2>2
<1>2. CASE LongestSearch
  <2>1. ExactInv'
    BY <1>2, OtherKeepsExact DEF LongestSearch
  <2>2. LongestInv'
    BY <1>2, GiveUpKeeps, SkipStateKeeps, ExpandKeeps, CompleteKeeps, StopKeeps DEF LongestSearch, LongestNext
  <2>. QED
    BY <2>1, <2>2
<1>3. CASE UNCHANGED searchVars
  <2>1. UNCHANGED <<pathRequest, searchStep, stack, memo, cap_fired, out, truncated, heap, state_cache, tracker,
                    expansions, expansions_since_improve, budget_exit, dropped, heap_trimmed, completed>>
    BY <1>3 DEF searchVars, exactVars, longestVars
  <2>2. start_idx' = start_idx /\ max_paths' = max_paths
    BY <2>1 DEF start_idx, max_paths
  <2>3. OutInv' /\ StatesInv' /\ CountsInv'
    BY <2>1, <2>2 DEF ExactInv, LongestInv, OutInv, StatesInv, CountsInv
  <2>4. ExactInv'
    BY <2>1, <2>2, <2>3 DEF ExactInv
  <2>5. LongestInv'
    BY <2>1, <2>2, <2>3 DEF LongestInv
  <2>. QED
    BY <2>4, <2>5
<1>. QED
  BY <1>1, <1>2, <1>3 DEF SearchNext

\* At every moment each frame of the exact search holds the paths from its node
\* through the children it has tried, all of them while no list has reached the
\* cap; and the search longest first has, while it gave nothing up, a partial
\* path on its heap for every one that it has still to follow, and in its
\* tracker the longest of the complete ones it met.
THEOREM SearchInvariance == SearchSpec => [](ExactInv /\ LongestInv)
<1>1. SearchInit => ExactInv /\ LongestInv
  BY StartsExact, StartsLongest
<1>. QED
  BY <1>1, SearchesKeep, PTL DEF SearchSpec

-----------------------------------------------------------------------------
(* The answer. *)

LEMMA TypesHold == ExactInv /\ LongestInv => SearchTypeOK
<1>. SUFFICES ASSUME ExactInv, LongestInv PROVE SearchTypeOK
  OBVIOUS
<1>1. /\ pathRequest \in PathRequests /\ searchStep \in {"exact", "longest_first", "done"}
      /\ cap_fired \in BOOLEAN /\ truncated \in BOOLEAN
  BY DEF ExactInv
<1>2. start_idx = pathRequest.start_idx /\ max_paths \in Nat \ {0} /\ succ = pathRequest.succ
  BY <1>1, RequestFacts DEF start_idx, max_paths, succ
<1>3. ASSUME NEW k \in 1..Len(stack)
      PROVE  /\ stack[k].node \in Nodes
             /\ stack[k].ci \in 1..(Len(succ[stack[k].node]) + 1)
             /\ stack[k].acc \in Seq(Seq(Nodes))
  <2>1. stack \in Seq(Frames) /\ FrameOK(pathRequest, stack[k], Tried(stack, k), cap_fired)
    BY DEF ExactInv, StackOK
  <2>2. stack[k] \in Frames
    BY <2>1
  <2>3. stack[k].node \in Nodes /\ stack[k].ci \in Nat \ {0} /\ stack[k].acc \in Seq(Seq(Nodes))
    BY <2>2 DEF Frames, SuffixLists
  <2>4. Len(succ[stack[k].node]) \in Nat
    BY <1>1, <1>2, <2>3, HopFacts
  <2>5. stack[k].ci <= Len(succ[stack[k].node]) + 1
    BY <1>2, <2>1 DEF FrameOK
  <2>. QED
    BY <2>3, <2>4, <2>5
<1>4. DOMAIN memo \subseteq Nodes
  BY DEF ExactInv, MemoOK
<1>5. out \in Seq(Seq(Nodes)) /\ Len(out) <= max_paths
  <2>1. CASE pathRequest.is_large \/ searchStep # "done"
    <3>1. out = <<>>
      BY <2>1 DEF ExactInv, OutInv
    <3>. QED
      BY <1>2, <3>1
  <2>2. CASE ~(pathRequest.is_large \/ searchStep # "done")
    BY <2>2 DEF ExactInv, OutInv, SuffixLists
  <2>. QED
    BY <2>1, <2>2
<1>6. ExactTypeOK
  BY <1>1, <1>3, <1>4, <1>5 DEF ExactTypeOK
<1>7. \A s \in BagToSet(heap) \cup state_cache \cup completed : Head(s.path) = start_idx
  <2>1. ASSUME NEW S, AllStarted(pathRequest, S), NEW s \in S PROVE Head(s.path) = start_idx
    <3>1. s.path \in Seq(Nodes) /\ s.path # <<>> /\ s.path[1] = start_idx
      BY <1>2, <2>1, StateFacts DEF AllStarted, Started
    <3>. QED
      BY <3>1
  <2>. QED
    BY <2>1 DEF LongestInv, StatesInv, BagToSet
<1>8. tracker \subseteq completed /\ Cardinality(tracker) <= max_paths
  BY DEF LongestInv, TrackerOK
<1>9. /\ expansions \in 0..max_expansions /\ expansions_since_improve \in 0..no_improvement_cap
      /\ flags \in BOOLEAN \X BOOLEAN \X BOOLEAN
  BY DEF LongestInv, CountsInv, flags
<1>10. LongestTypeOK
  BY <1>7, <1>8, <1>9 DEF LongestTypeOK
<1>. QED
  BY <1>1, <1>6, <1>10 DEF SearchTypeOK

LEMMA LongestKept == LongestInv => KeepsLongest
BY DEF LongestInv, TrackerOK, KeepsLongest, Tracked, Holds

\* A search that has nothing left to expand has expanded every path.
LEMMA EveryPathMet ==
    ASSUME NEW r \in PathRequests, NEW h, DOMAIN h = {}, NEW cache, AllStarted(r, cache), Closed(r, h, cache),
           NEW p \in PathsFrom(r, r.start_idx)
    PROVE  Holds(cache, p)
<1>. DEFINE n == Len(p)
            upto(k) == SubSeq(p, 1, k)
            Met == {k \in 0..n : k = 0 \/ Holds(cache, upto(k))}
<1>1. p \in Seq(Nodes) /\ n \in Nat \ {0} /\ p[1] = r.start_idx /\ IsWalk(r, p)
  BY DEF PathsFrom, IsPath
<1>2. ASSUME NEW k \in 1..n
      PROVE  /\ upto(k) \in Seq(Nodes) /\ Len(upto(k)) = k
             /\ \A j \in 1..k : upto(k)[j] = p[j]
  BY <1>1
<1>3. cache \cup DOMAIN h = cache
  OBVIOUS
<1>4. 0 \in Met
  BY <1>1
<1>5. ASSUME NEW k \in 0..n, k < n, k \in Met PROVE k + 1 \in Met
  <2>1. k + 1 \in 1..n /\ k + 1 \in 0..n
    BY <1>1, <1>5
  <2>2. CASE k = 0
    <3>1. k + 1 = 1 /\ 1 \in 1..n /\ 1 \in 1..1 /\ r.start_idx \in Nodes
      BY <2>1, <2>2, RequestFacts
    <3>2. upto(1) \in Seq(Nodes) /\ Len(upto(1)) = 1 /\ upto(1)[1] = r.start_idx
      BY <1>1, <1>2, <3>1
    <3>. HIDE DEF upto
    <3>3. upto(1) = <<r.start_idx>>
      BY <3>2
    <3>4. Holds(cache, <<r.start_idx>>)
      BY <1>3 DEF Closed
    <3>. QED
      BY <2>1, <3>1, <3>3, <3>4
  <2>3. CASE k # 0
    <3>1. k \in 1..n /\ k \in 1..(n - 1)
      BY <1>1, <1>5, <2>3
    <3>2. PICK c \in cache : c.path = upto(k)
      BY <1>5, <2>3 DEF Holds
    <3>3. p[k] # r.end_idx /\ p[k + 1] \in Succs(r, p[k])
      BY <1>1, <3>1 DEF IsWalk
    <3>4. /\ upto(k) \in Seq(Nodes) /\ Len(upto(k)) = k /\ upto(k)[k] = p[k]
          /\ \A j \in 1..k : upto(k)[j] = p[j]
      BY <1>2, <3>1
    <3>5. /\ upto(k + 1) \in Seq(Nodes) /\ Len(upto(k + 1)) = k + 1
          /\ \A j \in 1..(k + 1) : upto(k + 1)[j] = p[j]
      BY <1>2, <2>1
    <3>6. p[k + 1] \in Nodes
      BY <1>1, <2>1
    <3>. HIDE DEF upto
    <3>7. ~Ended(r, c.path) /\ Last(c.path) = p[k]
      BY <3>2, <3>3, <3>4 DEF Ended, Last
    <3>8. Holds(cache, Append(c.path, p[k + 1]))
      BY <1>3, <3>3, <3>7 DEF Closed
    <3>9. Append(upto(k), p[k + 1]) = upto(k + 1)
      <4>. DEFINE a == Append(upto(k), p[k + 1])
      <4>1. a \in Seq(Nodes) /\ Len(a) = k + 1 /\ a[k + 1] = p[k + 1] /\ \A j \in 1..k : a[j] = upto(k)[j]
        BY <3>1, <3>4, <3>6
      <4>2. \A j \in 1..(k + 1) : j \in 1..k \/ j = k + 1
        BY <3>1
      <4>. HIDE DEF a
      <4>3. \A j \in 1..(k + 1) : a[j] = upto(k + 1)[j]
        BY <3>4, <3>5, <4>1, <4>2
      <4>4. a = upto(k + 1)
        BY <3>5, <4>1, <4>3, SeqEqual
      <4>. QED
        BY <4>4 DEF a
    <3>. QED
      BY <2>1, <3>2, <3>8, <3>9
  <2>. QED
    BY <2>2, <2>3
<1>6. n \in Met
  <2>. HIDE DEF Met
  <2>1. n \in Nat
    BY <1>1
  <2>. HIDE DEF n
  <2>2. 0..n \subseteq Met
    BY <1>4, <1>5, <2>1, ClimbsTo
  <2>. QED
    BY <2>1, <2>2
<1>7. upto(n) = p
  <2>1. n \in 1..n
    BY <1>1
  <2>2. upto(n) \in Seq(Nodes) /\ Len(upto(n)) = n /\ \A j \in 1..n : upto(n)[j] = p[j]
    BY <1>2, <2>1
  <2>. HIDE DEF upto
  <2>. QED
    BY <1>1, <2>2, SeqEqual
<1>. QED
  BY <1>1, <1>6, <1>7

LEMMA InjectiveSize ==
    ASSUME NEW T, NEW s \in Seq(T), IsInjective(s)
    PROVE  IsFiniteSet(ToSet(s)) /\ Cardinality(ToSet(s)) = Len(s)
<1>1. s \in Bijection(1..Len(s), ToSet(s))
  <2>1. s \in [1..Len(s) -> ToSet(s)]
    BY LenProperties DEF ToSet
  <2>. QED
    BY <2>1 DEF ToSet, Bijection, Injection, Surjection, IsInjective
<1>2. Len(s) \in Nat /\ ExistsBijection(1..Len(s), ToSet(s))
  BY <1>1, LenProperties DEF ExistsBijection
<1>. QED
  BY <1>2, FS_CountingElements, FS_NatBijection

LEMMA ExactAnswer ==
    ASSUME ExactInv, ~pathRequest.is_large, searchStep = "done"
    PROVE  /\ paths \subseteq PathsFrom(pathRequest, start_idx) /\ Cardinality(paths) <= max_paths
           /\ Cardinality(paths) = Len(out)
           /\ ~corpus_truncated => paths = PathsFrom(pathRequest, start_idx)
           /\ corpus_truncated /\ ~cap_fired => paths # PathsFrom(pathRequest, start_idx)
<1>1. paths = ToSet(out) /\ corpus_truncated = truncated
  BY DEF paths, corpus_truncated
<1>2. /\ out \in SuffixLists /\ IsInjective(out) /\ Len(out) <= max_paths
      /\ ToSet(out) \subseteq PathsFrom(pathRequest, start_idx)
      /\ ~truncated => ToSet(out) = PathsFrom(pathRequest, start_idx)
      /\ truncated /\ ~cap_fired => ToSet(out) # PathsFrom(pathRequest, start_idx)
  BY DEF ExactInv, OutInv
<1>3. Cardinality(ToSet(out)) = Len(out)
  BY <1>2, InjectiveSize DEF SuffixLists
<1>. QED
  BY <1>1, <1>2, <1>3

LEMMA LongestAnswer ==
    ASSUME ExactInv, LongestInv, pathRequest.is_large, searchStep = "done"
    PROVE  /\ paths \subseteq PathsFrom(pathRequest, start_idx) /\ Cardinality(paths) <= max_paths
           /\ Cardinality(paths) = Cardinality(tracker)
           /\ ~corpus_truncated => paths = PathsFrom(pathRequest, start_idx)
<1>. DEFINE r == pathRequest
<1>1. paths = {t.path : t \in tracker} /\ corpus_truncated = sampled
  BY DEF paths, corpus_truncated, result
<1>2. r \in PathRequests /\ start_idx = r.start_idx
  BY DEF ExactInv, start_idx
<1>3. /\ tracker \subseteq completed /\ IsFiniteSet(tracker) /\ Cardinality(tracker) <= max_paths
      /\ \A t, u \in tracker : t.path = u.path => t = u
      /\ ~dropped => \A c \in completed : Holds(tracker, c.path)
  BY DEF LongestInv, TrackerOK
<1>4. paths \subseteq PathsFrom(r, r.start_idx)
  <2>1. \A c \in completed : c \in States /\ Started(r, c.path) /\ Ended(r, c.path)
    BY DEF LongestInv, StatesInv, AllStarted
  <2>2. \A c \in completed : c.path \in PathsFrom(r, r.start_idx)
    BY <2>1, StateFacts DEF Started, Ended, PathsFrom, IsPath
  <2>. QED
    BY <1>1, <1>3, <2>2
<1>5. Cardinality(paths) = Cardinality(tracker)
  <2>. DEFINE g == [t \in tracker |-> t.path]
  <2>1. g \in Bijection(tracker, paths)
    BY <1>1, <1>3 DEF Bijection, Injection, Surjection, IsInjective
  <2>. HIDE DEF g
  <2>2. ExistsBijection(tracker, paths)
    BY <2>1 DEF ExistsBijection
  <2>. QED
    BY <1>3, <2>2, FS_Bijection
<1>6. ASSUME ~sampled, NEW p \in PathsFrom(r, r.start_idx) PROVE p \in paths
  <2>1. ~budget_exit /\ ~dropped /\ ~heap_trimmed
    BY <1>6 DEF sampled
  <2>2. Closed(r, heap, state_cache) /\ AllStarted(r, state_cache) /\ DOMAIN heap = {}
    BY <2>1 DEF LongestInv, StatesInv, CountsInv
  <2>3. Holds(state_cache, p)
    BY <1>2, <1>6, <2>2, EveryPathMet
  <2>4. Ended(r, p)
    BY <1>6 DEF PathsFrom, IsPath, Ended
  <2>5. Holds(completed, p)
    BY <2>3, <2>4 DEF LongestInv, StatesInv, Holds
  <2>6. Holds(tracker, p)
    BY <1>3, <2>1, <2>5 DEF Holds
  <2>. QED
    BY <1>1, <2>6 DEF Holds
<1>. QED
  BY <1>1, <1>2, <1>3, <1>4, <1>5, <1>6

LEMMA AnswerComplete == ExactInv /\ LongestInv => UntruncatedIsExhaustive
<1>. SUFFICES ASSUME ExactInv, LongestInv, searchStep = "done" PROVE UntruncatedIsExhaustive
  BY DEF UntruncatedIsExhaustive
<1>1. pathRequest \in PathRequests /\ start_idx \in Nodes
  BY RequestFacts DEF ExactInv, start_idx
<1>2. AllPaths[start_idx] = PathsFrom(pathRequest, start_idx)
  BY <1>1, AllPathsAre
<1>3. CASE pathRequest.is_large
  BY <1>2, <1>3, LongestAnswer DEF UntruncatedIsExhaustive
<1>4. CASE ~pathRequest.is_large
  BY <1>2, <1>4, ExactAnswer DEF UntruncatedIsExhaustive
<1>. QED
  BY <1>3, <1>4

\* Whatever find_all_paths is asked about a schedule in topological order, in
\* whatever order the heap gives its partial paths and whichever of them the
\* blow-up guard and the budget give up: the answer lists paths from start to
\* end only, each once, no more than were asked for, and all of them when it
\* does not say that the corpus is truncated; and no path that the tracker
\* let go of is longer than one it kept.
THEOREM SearchIsSound == SearchSpec => []SearchSound
<1>1. ExactInv /\ LongestInv => SearchSound
  BY TypesHold, LongestKept, AnswerComplete DEF SearchSound
<1>. QED
  BY <1>1, SearchInvariance, PTL
=============================================================================
