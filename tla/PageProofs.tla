----------------------------- MODULE PageProofs -----------------------------
(* Theorems about EvmPage, CompletionPage, GroupInsights, RiskPipeline,         *)
(* GroupCosts and RiskPage, for any number of refreshes, edits, analyses,       *)
(* requests, groups, batches, risks, estimates and assessments.                 *)
EXTENDS EvmPage, CompletionPage, GroupInsights, RiskPipeline, GroupCosts,
        RiskPage, FiniteSetTheorems, SequenceTheorems, WellFoundedInduction, TLAPS

-----------------------------------------------------------------------------
(* The inductive invariant. *)

Prints == [content : Nat, key : Nat]
Data == [content : Nat, calendar : Nat]
Request == [fingerprint : Prints, data : Data,
            phase : {"headers", "body", "answered", "failed", "settled"}]
RefreshRecord == [view : Views, data : Data, request : Nat, over : BOOLEAN,
                  by : {"none", "backend", "local"}]

\* Requests and refreshes are numbered from one, without gaps.
NumberedFromOne(f, S) == \E k \in Nat : f \in [1..k -> S]

Shape ==
    /\ page \in [arrays : Nat, content : Nat, calendar : Nat, key : Nat, milestone : BOOLEAN]
    /\ NumberedFromOne(requests, Request) /\ NumberedFromOne(refreshes, RefreshRecord)
    /\ fingerprintCache = <<>> \/ fingerprintCache \in [arrays : Nat, key : Nat] \X Prints
    /\ evmInFlight = <<>> \/ evmInFlight \in Prints \X (DOMAIN requests)
    /\ edits \in Nat /\ unannounced \in BOOLEAN

\* Identity and key only grow, so a fingerprint that was cached for those of
\* now was taken from the content of now, unless an edit went unannounced.
CacheInv ==
    /\ page.arrays <= edits
    /\ fingerprintCache # <<>> =>
         /\ fingerprintCache[1].arrays <= page.arrays /\ fingerprintCache[1].key <= page.key
         /\ ~unannounced /\ fingerprintCache[1] = cacheKey => fingerprintCache[2] = ContentFingerprint

\* A request has the fingerprint of what it sends, the slot that of its request.
RequestInv == ~unannounced => \A n \in DOMAIN requests :
                  requests[n].fingerprint.content = requests[n].data.content
SlotInv == evmInFlight # <<>> =>
              /\ requests[evmInFlight[2]].fingerprint = evmInFlight[1]
              /\ requests[evmInFlight[2]].phase # "settled"

\* A refresh has been given what the request that it awaits, or has awaited, sends.
RefreshInv == \A r \in DOMAIN refreshes :
                  IF refreshes[r].by = "local" THEN refreshes[r].over
                  ELSE /\ refreshes[r].request \in DOMAIN requests
                       /\ ~unannounced => requests[refreshes[r].request].data.content = refreshes[r].data.content

PageInv == Shape /\ CacheInv /\ RequestInv /\ SlotInv /\ RefreshInv

-----------------------------------------------------------------------------
(* Lemmas *)

\* The next number is one that is not taken.
LEMMA NextNumber ==
    ASSUME NEW S, NEW f, NumberedFromOne(f, S)
    PROVE  /\ Cardinality(DOMAIN f) + 1 \in Nat /\ Cardinality(DOMAIN f) + 1 \notin DOMAIN f
           /\ \A g : /\ DOMAIN g = DOMAIN f \cup {Cardinality(DOMAIN f) + 1}
                     /\ g = [x \in DOMAIN g |-> g[x]]
                     /\ \A x \in DOMAIN g : g[x] \in S
                     => NumberedFromOne(g, S)
<1>1. PICK k \in Nat : f \in [1..k -> S]
  BY DEF NumberedFromOne
<1>2. Cardinality(1..k) = k
  BY FS_Interval
<1>3. DOMAIN f = 1..k /\ Cardinality(DOMAIN f) = k
  BY <1>1, <1>2
<1>4. (1..k) \cup {k + 1} = 1..(k + 1)
  BY <1>1
<1>5. k + 1 \in Nat
  BY <1>1
<1>6. ASSUME NEW g, DOMAIN g = DOMAIN f \cup {Cardinality(DOMAIN f) + 1},
             g = [x \in DOMAIN g |-> g[x]], \A x \in DOMAIN g : g[x] \in S
      PROVE  NumberedFromOne(g, S)
  <2>1. DOMAIN g = 1..(k + 1)
    BY <1>3, <1>4, <1>6
  <2>2. g \in [1..(k + 1) -> S]
    BY <1>6, <2>1
  <2>. QED
    BY <1>5, <2>2 DEF NumberedFromOne
<1>7. Cardinality(DOMAIN f) + 1 \in Nat /\ Cardinality(DOMAIN f) + 1 \notin DOMAIN f
  BY <1>1, <1>3, <1>5
<1>. QED
  BY <1>6, <1>7

\* A fingerprint that is asked for is that of the content, cached or not.
LEMMA FingerprintOfContent ==
    ASSUME PageInv
    PROVE  /\ Fingerprint \in Prints /\ cacheKey \in [arrays : Nat, key : Nat]
           /\ ~unannounced => Fingerprint = ContentFingerprint
<1>1. page.arrays \in Nat /\ page.key \in Nat /\ page.content \in Nat
  BY DEF PageInv, Shape
<1>2. cacheKey \in [arrays : Nat, key : Nat] /\ ContentFingerprint \in Prints
  BY <1>1 DEF cacheKey, ContentFingerprint, Prints
<1>3. CASE fingerprintCache # <<>> /\ fingerprintCache[1] = cacheKey
  <2>1. Fingerprint = fingerprintCache[2]
    BY <1>3 DEF Fingerprint
  <2>2. fingerprintCache[2] \in Prints
    BY <1>3 DEF PageInv, Shape
  <2>3. ~unannounced => fingerprintCache[2] = ContentFingerprint
    BY <1>3 DEF PageInv, CacheInv
  <2>. QED
    BY <1>2, <2>1, <2>2, <2>3
<1>4. CASE ~(fingerprintCache # <<>> /\ fingerprintCache[1] = cacheKey)
  <2>1. Fingerprint = ContentFingerprint
    BY <1>4 DEF Fingerprint
  <2>. QED
    BY <1>2, <2>1
<1>. QED
  BY <1>3, <1>4

LEMMA PageInitInv == PageInit => PageInv
<1>. SUFFICES ASSUME PageInit PROVE PageInv
  OBVIOUS
<1>1. [n \in {} |-> 0] \in [1..0 -> Request] /\ [n \in {} |-> 0] \in [1..0 -> RefreshRecord]
  BY 1..0 = {}
<1>2. Shape
  BY <1>1 DEF PageInit, Shape, NumberedFromOne
<1>3. CacheInv /\ RequestInv /\ SlotInv /\ RefreshInv
  BY DEF PageInit, CacheInv, RequestInv, SlotInv, RefreshInv
<1>. QED
  BY <1>2, <1>3 DEF PageInv

-----------------------------------------------------------------------------
(* Each action keeps the invariant. *)

\* What a refresh remembers of the page on its way to the backend.
LEMMA CacheFilled ==
    ASSUME PageInv, page' = page, edits' = edits, unannounced' = unannounced,
           fingerprintCache' = <<cacheKey, Fingerprint>>
    PROVE  /\ CacheInv'
           /\ fingerprintCache' \in [arrays : Nat, key : Nat] \X Prints
<1>1. /\ Fingerprint \in Prints /\ cacheKey \in [arrays : Nat, key : Nat]
      /\ ~unannounced => Fingerprint = ContentFingerprint
  BY FingerprintOfContent
<1>2. fingerprintCache'[1] = cacheKey /\ fingerprintCache'[2] = Fingerprint
  OBVIOUS
<1>3. cacheKey' = cacheKey /\ ContentFingerprint' = ContentFingerprint
  BY DEF cacheKey, ContentFingerprint
<1>4. cacheKey.arrays = page.arrays /\ cacheKey.key = page.key
  BY DEF cacheKey
<1>5. page.arrays \in Nat /\ page.key \in Nat /\ page.arrays <= edits
  BY DEF PageInv, Shape, CacheInv
<1>. QED
  BY <1>1, <1>2, <1>3, <1>4, <1>5 DEF CacheInv

\* A new refresh of request n, whose data is what the refresh was given.
LEMMA AskKeeps ==
    ASSUME PageInv, NEW view \in Views, NEW n \in Nat, n \in (DOMAIN requests)',
           Ask(Cardinality(DOMAIN refreshes) + 1, view, n),
           unannounced' = unannounced,
           DOMAIN requests \subseteq (DOMAIN requests)',
           \A k \in DOMAIN requests : requests'[k].data = requests[k].data,
           ~unannounced => requests'[n].data.content = page.content
    PROVE  NumberedFromOne(refreshes', RefreshRecord) /\ RefreshInv'
<1>. DEFINE r == Cardinality(DOMAIN refreshes) + 1
            new == [view |-> view, data |-> Body, request |-> n, over |-> FALSE, by |-> "none"]
<1>1. NumberedFromOne(refreshes, RefreshRecord)
  BY DEF PageInv, Shape
<1>2. Body \in Data /\ Body.content = page.content
  BY DEF Body, Data, PageInv, Shape
<1>3. new \in RefreshRecord /\ new.data = Body /\ new.request = n /\ new.by = "none"
  BY <1>2 DEF RefreshRecord
<1>4. \A q \in DOMAIN refreshes : refreshes[q] \in RefreshRecord
  BY <1>1 DEF NumberedFromOne
<1>5. refreshes' = [q \in DOMAIN refreshes \cup {r} |-> IF q = r THEN new ELSE refreshes[q]]
  BY DEF Ask
<1>6. /\ DOMAIN refreshes' = DOMAIN refreshes \cup {r}
      /\ refreshes' = [x \in DOMAIN refreshes' |-> refreshes'[x]]
      /\ \A q \in DOMAIN refreshes' : refreshes'[q] = IF q = r THEN new ELSE refreshes[q]
  BY <1>5
<1>. HIDE DEF new
<1>7. NumberedFromOne(refreshes', RefreshRecord)
  BY <1>1, <1>3, <1>4, <1>6, NextNumber
<1>8. RefreshInv'
  <2>. SUFFICES ASSUME NEW q \in DOMAIN refreshes'
                PROVE  IF refreshes'[q].by = "local" THEN refreshes'[q].over
                       ELSE /\ refreshes'[q].request \in DOMAIN requests'
                            /\ ~unannounced =>
                                 requests'[refreshes'[q].request].data.content = refreshes'[q].data.content
    BY DEF RefreshInv
  <2>1. CASE q = r
    BY <2>1, <1>2, <1>3, <1>6
  <2>2. CASE q # r
    BY <2>2, <1>6 DEF PageInv, RefreshInv
  <2>. QED
    BY <2>1, <2>2
<1>. QED
  BY <1>7, <1>8

\* Joining: the slot holds a request with the fingerprint of now, so it sends
\* the content of now, and it is not yet settled.
LEMMA JoinKeeps == PageInv /\ (\E view \in Views : JoinRequest(view)) => PageInv'
<1>. SUFFICES ASSUME PageInv, NEW view \in Views, JoinRequest(view) PROVE PageInv'
  OBVIOUS
<1>. DEFINE n == evmInFlight[2]
<1>1. /\ page' = page /\ evmInFlight' = evmInFlight /\ requests' = requests
      /\ edits' = edits /\ unannounced' = unannounced
      /\ fingerprintCache' = <<cacheKey, Fingerprint>>
      /\ evmInFlight # <<>> /\ evmInFlight[1] = Fingerprint
      /\ Ask(Cardinality(DOMAIN refreshes) + 1, view, n)
  BY DEF JoinRequest, Joinable
<1>2. n \in DOMAIN requests /\ n \in Nat
  BY <1>1 DEF PageInv, Shape, NumberedFromOne
<1>3. ~unannounced => requests[n].data.content = page.content
  BY <1>1, <1>2, FingerprintOfContent DEF PageInv, RequestInv, SlotInv, ContentFingerprint
<1>4. NumberedFromOne(refreshes', RefreshRecord) /\ RefreshInv'
  BY <1>1, <1>2, <1>3, AskKeeps
<1>5. CacheInv' /\ fingerprintCache' \in [arrays : Nat, key : Nat] \X Prints
  BY <1>1, CacheFilled
<1>6. Shape'
  BY <1>1, <1>4, <1>5 DEF PageInv, Shape
<1>7. RequestInv' /\ SlotInv'
  BY <1>1 DEF PageInv, RequestInv, SlotInv
<1>. QED
  BY <1>4, <1>5, <1>6, <1>7 DEF PageInv

LEMMA StartKeeps == PageInv /\ (\E view \in Views : StartRequest(view)) => PageInv'
<1>. SUFFICES ASSUME PageInv, NEW view \in Views, StartRequest(view) PROVE PageInv'
  OBVIOUS
<1>. DEFINE n == NewRequest
            new == [fingerprint |-> Fingerprint, data |-> Body,
                    phase |-> IF page.milestone THEN "headers" ELSE "failed"]
<1>1. /\ page' = page /\ edits' = edits /\ unannounced' = unannounced
      /\ fingerprintCache' = <<cacheKey, Fingerprint>> /\ evmInFlight' = <<Fingerprint, n>>
      /\ requests' = [k \in DOMAIN requests \cup {n} |-> IF k = n THEN new ELSE requests[k]]
      /\ Ask(Cardinality(DOMAIN refreshes) + 1, view, n)
  BY DEF StartRequest
<1>2. /\ Fingerprint \in Prints
      /\ ~unannounced => Fingerprint.content = page.content
  BY FingerprintOfContent DEF ContentFingerprint
<1>3. Body \in Data /\ Body.content = page.content
  BY DEF Body, Data, PageInv, Shape
<1>4. /\ new \in Request /\ new.fingerprint = Fingerprint /\ new.data = Body
      /\ new.phase # "settled"
  BY <1>2, <1>3 DEF Request
<1>. HIDE DEF new
<1>5. NumberedFromOne(requests, Request) /\ \A k \in DOMAIN requests : requests[k] \in Request
  BY DEF PageInv, Shape, NumberedFromOne
<1>6. /\ DOMAIN requests' = DOMAIN requests \cup {n}
      /\ requests' = [x \in DOMAIN requests' |-> requests'[x]]
      /\ \A k \in DOMAIN requests' : requests'[k] = IF k = n THEN new ELSE requests[k]
  BY <1>1
<1>7. n \in Nat /\ n \notin DOMAIN requests /\ NumberedFromOne(requests', Request)
  BY <1>4, <1>5, <1>6, NextNumber DEF NewRequest
<1>8. NumberedFromOne(refreshes', RefreshRecord) /\ RefreshInv'
  <2>1. ~unannounced => requests'[n].data.content = page.content
    BY <1>3, <1>4, <1>6
  <2>2. \A k \in DOMAIN requests : requests'[k].data = requests[k].data
    BY <1>6, <1>7
  <2>. QED
    BY <1>1, <1>6, <1>7, <2>1, <2>2, AskKeeps
<1>9. CacheInv' /\ fingerprintCache' \in [arrays : Nat, key : Nat] \X Prints
  BY <1>1, CacheFilled
<1>10. Shape'
  <2>1. evmInFlight' \in Prints \X (DOMAIN requests')
    BY <1>1, <1>2, <1>6
  <2>. QED
    BY <1>1, <1>7, <1>8, <1>9, <2>1 DEF PageInv, Shape
<1>11. RequestInv'
  BY <1>1, <1>2, <1>3, <1>4, <1>6 DEF PageInv, RequestInv
<1>12. SlotInv'
  <2>1. evmInFlight'[1] = Fingerprint /\ evmInFlight'[2] = n
    BY <1>1
  <2>. QED
    BY <1>4, <1>6, <2>1 DEF SlotInv
<1>. QED
  BY <1>8, <1>9, <1>10, <1>11, <1>12 DEF PageInv

LEMMA LocalKeeps == PageInv /\ (\E view \in Views : RefreshLocally(view)) => PageInv'
<1>. SUFFICES ASSUME PageInv, NEW view \in Views, RefreshLocally(view) PROVE PageInv'
  OBVIOUS
<1>. DEFINE r == Cardinality(DOMAIN refreshes) + 1
            new == [view |-> view, data |-> Body, request |-> NoRequest, over |-> TRUE, by |-> "local"]
<1>1. /\ page' = page /\ edits' = edits /\ unannounced' = unannounced
      /\ fingerprintCache' = fingerprintCache /\ evmInFlight' = evmInFlight /\ requests' = requests
      /\ refreshes' = [q \in DOMAIN refreshes \cup {r} |-> IF q = r THEN new ELSE refreshes[q]]
  BY DEF RefreshLocally
<1>2. Body \in Data
  BY DEF Body, Data, PageInv, Shape
<1>3. new \in RefreshRecord /\ new.by = "local" /\ new.over
  BY <1>2 DEF RefreshRecord, NoRequest
<1>. HIDE DEF new
<1>4. NumberedFromOne(refreshes, RefreshRecord) /\ \A q \in DOMAIN refreshes : refreshes[q] \in RefreshRecord
  BY DEF PageInv, Shape, NumberedFromOne
<1>5. /\ DOMAIN refreshes' = DOMAIN refreshes \cup {r}
      /\ refreshes' = [x \in DOMAIN refreshes' |-> refreshes'[x]]
      /\ \A q \in DOMAIN refreshes' : refreshes'[q] = IF q = r THEN new ELSE refreshes[q]
  BY <1>1
<1>6. NumberedFromOne(refreshes', RefreshRecord)
  BY <1>3, <1>4, <1>5, NextNumber
<1>7. Shape'
  BY <1>1, <1>6 DEF PageInv, Shape
<1>8. CacheInv' /\ RequestInv' /\ SlotInv'
  BY <1>1 DEF PageInv, CacheInv, RequestInv, SlotInv, cacheKey, ContentFingerprint
<1>9. RefreshInv'
  BY <1>1, <1>3, <1>5 DEF PageInv, RefreshInv
<1>. QED
  BY <1>7, <1>8, <1>9 DEF PageInv

\* What a change of one request's phase leaves as it was.
LEMMA PhaseChanges ==
    ASSUME PageInv, NEW n \in DOMAIN requests,
           NEW p \in {"headers", "body", "answered", "failed", "settled"},
           requests' = [requests EXCEPT ![n].phase = p]
    PROVE  /\ NumberedFromOne(requests', Request) /\ DOMAIN requests' = DOMAIN requests
           /\ \A k \in DOMAIN requests :
                /\ requests'[k].fingerprint = requests[k].fingerprint
                /\ requests'[k].data = requests[k].data
                /\ requests'[k].phase = IF k = n THEN p ELSE requests[k].phase
<1>1. PICK m \in Nat : requests \in [1..m -> Request]
  BY DEF PageInv, Shape, NumberedFromOne
<1>2. requests' \in [1..m -> Request]
  BY <1>1 DEF Request
<1>3. NumberedFromOne(requests', Request)
  BY <1>1, <1>2 DEF NumberedFromOne
<1>4. ASSUME NEW k \in DOMAIN requests
      PROVE  /\ requests'[k].fingerprint = requests[k].fingerprint
             /\ requests'[k].data = requests[k].data
             /\ requests'[k].phase = IF k = n THEN p ELSE requests[k].phase
  BY <1>1, <1>4 DEF Request
<1>. QED
  BY <1>3, <1>4

\* An answer on its way, or its end before it is taken.
LEMMA AnswerKeeps ==
    PageInv /\ (\E n \in Refreshes, ok \in BOOLEAN : Headers(n, ok) \/ EndBody(n, ok) \/ GiveUp(n)) => PageInv'
<1>. SUFFICES ASSUME PageInv, NEW n \in Refreshes, NEW ok \in BOOLEAN,
                     Headers(n, ok) \/ EndBody(n, ok) \/ GiveUp(n)
              PROVE  PageInv'
  OBVIOUS
<1>1. PICK p \in {"body", "answered", "failed"} : requests' = [requests EXCEPT ![n].phase = p]
  BY DEF Headers, EndBody, GiveUp
<1>2. /\ n \in DOMAIN requests /\ page' = page /\ fingerprintCache' = fingerprintCache
      /\ evmInFlight' = evmInFlight /\ refreshes' = refreshes
      /\ edits' = edits /\ unannounced' = unannounced
  BY DEF Headers, EndBody, GiveUp, Unanswered
<1>3. /\ NumberedFromOne(requests', Request) /\ DOMAIN requests' = DOMAIN requests
      /\ \A k \in DOMAIN requests :
           /\ requests'[k].fingerprint = requests[k].fingerprint
           /\ requests'[k].data = requests[k].data
           /\ requests'[k].phase = IF k = n THEN p ELSE requests[k].phase
  <2>1. p \in {"headers", "body", "answered", "failed", "settled"}
    OBVIOUS
  <2>. QED
    BY <1>1, <1>2, <2>1, PhaseChanges
<1>4. Shape'
  BY <1>2, <1>3 DEF PageInv, Shape
<1>7. CacheInv'
  BY <1>2 DEF PageInv, CacheInv, cacheKey, ContentFingerprint
<1>5. RequestInv' /\ RefreshInv'
  BY <1>2, <1>3 DEF PageInv, RequestInv, RefreshInv
<1>6. SlotInv'
  <2>1. evmInFlight # <<>> => evmInFlight[2] \in DOMAIN requests
    BY DEF PageInv, Shape
  <2>. QED
    BY <1>2, <1>3, <2>1 DEF PageInv, SlotInv
<1>. QED
  BY <1>4, <1>5, <1>6, <1>7 DEF PageInv

\* A promise that settles leaves the slot: what it has put there has its own
\* fingerprint.
LEMMA SettleKeeps == PageInv /\ (\E n \in Refreshes : Settle(n)) => PageInv'
<1>. SUFFICES ASSUME PageInv, NEW n \in Refreshes, Settle(n) PROVE PageInv'
  OBVIOUS
<1>. DEFINE how == IF requests[n].phase = "answered" THEN "backend" ELSE "local"
<1>1. /\ n \in DOMAIN requests /\ page' = page /\ fingerprintCache' = fingerprintCache
      /\ evmInFlight' = Cleared(n) /\ edits' = edits /\ unannounced' = unannounced
      /\ requests' = [requests EXCEPT ![n].phase = "settled"]
      /\ refreshes' = [r \in DOMAIN refreshes |->
              IF r \in Awaiting(n) THEN [refreshes[r] EXCEPT !.over = TRUE, !.by = how] ELSE refreshes[r]]
  BY DEF Settle
<1>2. /\ NumberedFromOne(requests', Request) /\ DOMAIN requests' = DOMAIN requests
      /\ \A k \in DOMAIN requests :
           /\ requests'[k].fingerprint = requests[k].fingerprint
           /\ requests'[k].data = requests[k].data
           /\ requests'[k].phase = IF k = n THEN "settled" ELSE requests[k].phase
  BY <1>1, PhaseChanges
<1>3. PICK m \in Nat : refreshes \in [1..m -> RefreshRecord]
  BY DEF PageInv, Shape, NumberedFromOne
<1>4. ASSUME NEW r \in 1..m
      PROVE  /\ refreshes'[r] \in RefreshRecord
             /\ refreshes'[r].request = refreshes[r].request /\ refreshes'[r].data = refreshes[r].data
             /\ refreshes'[r].by # "local" => refreshes[r].by # "local"
             /\ refreshes'[r].by = "local" => refreshes'[r].over
  <2>1. refreshes[r].by = "local" => refreshes[r].over
    BY <1>3 DEF PageInv, RefreshInv
  <2>2. CASE r \in Awaiting(n)
    <3>1. refreshes'[r] = [refreshes[r] EXCEPT !.over = TRUE, !.by = how]
      BY <1>1, <1>3, <2>2
    <3>2. refreshes[r] \in RefreshRecord /\ ~refreshes[r].over
      BY <1>3, <2>2 DEF Awaiting
    <3>. QED
      BY <2>1, <3>1, <3>2 DEF RefreshRecord
  <2>3. CASE r \notin Awaiting(n)
    BY <1>1, <1>3, <2>1, <2>3
  <2>. QED
    BY <2>2, <2>3
<1>5. refreshes' \in [1..m -> RefreshRecord]
  BY <1>1, <1>3, <1>4
<1>6. evmInFlight # <<>> => evmInFlight \in Prints \X (DOMAIN requests)
  BY DEF PageInv, Shape
<1>7. Shape'
  <2>1. NumberedFromOne(refreshes', RefreshRecord)
    BY <1>3, <1>5 DEF NumberedFromOne
  <2>2. evmInFlight' = <<>> \/ evmInFlight' \in Prints \X (DOMAIN requests')
    BY <1>1, <1>2, <1>6 DEF Cleared
  <2>. QED
    BY <1>1, <1>2, <2>1, <2>2 DEF PageInv, Shape
<1>8. CacheInv'
  BY <1>1 DEF PageInv, CacheInv, cacheKey, ContentFingerprint
<1>9. RequestInv'
  BY <1>1, <1>2 DEF PageInv, RequestInv
<1>10. SlotInv'
  <2>. SUFFICES ASSUME evmInFlight' # <<>>
                PROVE  /\ requests'[evmInFlight[2]].fingerprint = evmInFlight[1]
                       /\ requests'[evmInFlight[2]].phase # "settled"
                       /\ evmInFlight' = evmInFlight
    BY DEF SlotInv
  <2>1. evmInFlight' = evmInFlight /\ evmInFlight # <<>> /\ evmInFlight[1] # requests[n].fingerprint
    BY <1>1 DEF Cleared
  <2>2. evmInFlight[2] \in DOMAIN requests /\ requests[evmInFlight[2]].fingerprint = evmInFlight[1]
        /\ requests[evmInFlight[2]].phase # "settled"
    BY <1>6, <2>1 DEF PageInv, SlotInv
  <2>. QED
    BY <1>2, <2>1, <2>2
<1>11. RefreshInv'
  <2>1. DOMAIN refreshes = 1..m /\ DOMAIN refreshes' = 1..m
    BY <1>3, <1>5
  <2>2. ASSUME NEW r \in 1..m, refreshes'[r].by # "local"
        PROVE  /\ refreshes'[r].request \in DOMAIN requests'
               /\ ~unannounced' => requests'[refreshes'[r].request].data.content = refreshes'[r].data.content
    <3>1. /\ refreshes[r].request \in DOMAIN requests
          /\ ~unannounced => requests[refreshes[r].request].data.content = refreshes[r].data.content
      BY <1>4, <2>1, <2>2 DEF PageInv, RefreshInv
    <3>. QED
      BY ZenonT(60), <1>1, <1>2, <1>4, <3>1
  <2>. QED
    BY <1>4, <2>1, <2>2 DEF RefreshInv
<1>. QED
  BY <1>7, <1>8, <1>9, <1>10, <1>11 DEF PageInv

\* An edit that changes the content and is announced makes the cached
\* fingerprint one of other arrays or of another key.
LEMMA EditKeeps == PageInv /\ Edit => PageInv'
<1>. SUFFICES ASSUME PageInv, Edit PROVE PageInv'
  OBVIOUS
<1>1. /\ fingerprintCache' = fingerprintCache /\ evmInFlight' = evmInFlight
      /\ requests' = requests /\ refreshes' = refreshes /\ edits' = edits + 1
      /\ unannounced' \in BOOLEAN /\ (unannounced => unannounced')
  BY DEF Edit, NewArrays, EditInPlace, ChangeCalendar, PageInv, Shape
<1>2. page \in [arrays : Nat, content : Nat, calendar : Nat, key : Nat, milestone : BOOLEAN] /\ edits \in Nat
  BY DEF PageInv, Shape
<1>. DEFINE Pages == [arrays : Nat, content : Nat, calendar : Nat, key : Nat, milestone : BOOLEAN]
            Newer == ~unannounced' => \/ /\ page'.content = page.content
                                         /\ page'.arrays = page.arrays /\ page'.key = page.key
                                      \/ page.arrays < page'.arrays
                                      \/ page.key < page'.key
            Grown == /\ page' \in Pages /\ Newer
                     /\ page'.arrays <= edits' /\ page.arrays <= page'.arrays /\ page.key <= page'.key
<1>3. Grown
  <2>1. /\ page.arrays <= edits /\ page.arrays \in Nat /\ page.key \in Nat
        /\ edits \in Nat /\ edits + 1 \in Nat /\ page.key + 1 \in Nat
    BY <1>2 DEF PageInv, CacheInv
  <2>2. CASE NewArrays
    <3>1. PICK m \in BOOLEAN :
            page' = [page EXCEPT !.arrays = edits + 1, !.content = edits + 1, !.milestone = m]
      BY <2>2 DEF NewArrays
    <3>2. page' \in Pages /\ page'.arrays = edits + 1 /\ page'.key = page.key
      BY <1>2, <2>1, <3>1
    <3>3. page.arrays < edits + 1 /\ page.arrays <= edits + 1
      BY <2>1
    <3>. QED
      BY <1>1, <2>1, <3>2, <3>3
  <2>3. ASSUME NEW announced \in BOOLEAN, EditInPlace(announced)
        PROVE  Grown
    <3>. DEFINE key == IF announced THEN page.key + 1 ELSE page.key
    <3>1. page' = [page EXCEPT !.content = edits + 1, !.key = key] /\ unannounced' = (unannounced \/ ~announced)
      BY <2>3 DEF EditInPlace
    <3>2. key \in Nat /\ page.key <= key /\ (announced => page.key < key)
      BY <2>1
    <3>. HIDE DEF key
    <3>3. page' \in Pages /\ page'.arrays = page.arrays /\ page'.key = key
      BY <1>2, <2>1, <3>1, <3>2
    <3>4. Newer
      BY <3>1, <3>2, <3>3
    <3>5. page'.arrays <= edits' /\ page.arrays <= page'.arrays
      BY <1>1, <2>1, <3>3
    <3>. QED
      BY <3>2, <3>3, <3>4, <3>5
  <2>4. CASE ChangeCalendar
    BY <1>2, <2>1, <2>4 DEF ChangeCalendar
  <2>. QED
    BY <2>2, <2>3, <2>4 DEF Edit
<1>4. Shape'
  BY <1>1, <1>2, <1>3 DEF PageInv, Shape
<1>5. CacheInv'
  <2>4. ASSUME fingerprintCache # <<>>
        PROVE  /\ fingerprintCache[1].arrays <= page'.arrays /\ fingerprintCache[1].key <= page'.key
               /\ ~unannounced' /\ fingerprintCache[1] = [arrays |-> page'.arrays, key |-> page'.key]
                   => fingerprintCache[2] = [content |-> page'.content, key |-> page'.key]
    <3>1. /\ fingerprintCache[1] \in [arrays : Nat, key : Nat]
          /\ fingerprintCache[1].arrays <= page.arrays /\ fingerprintCache[1].key <= page.key
          /\ ~unannounced /\ fingerprintCache[1] = [arrays |-> page.arrays, key |-> page.key]
               => fingerprintCache[2] = [content |-> page.content, key |-> page.key]
      BY <2>4 DEF PageInv, Shape, CacheInv, cacheKey, ContentFingerprint
    <3>2. fingerprintCache[1].arrays \in Nat /\ fingerprintCache[1].key \in Nat
      BY <3>1
    <3>3. page.arrays \in Nat /\ page.key \in Nat /\ page'.arrays \in Nat /\ page'.key \in Nat
      BY <1>2, <1>3
    <3>. QED
      BY <1>1, <1>3, <3>1, <3>2, <3>3
  <2>. QED
    BY <1>1, <1>3, <2>4 DEF CacheInv, cacheKey, ContentFingerprint
<1>6. RequestInv' /\ SlotInv' /\ RefreshInv'
  BY <1>1 DEF PageInv, RequestInv, SlotInv, RefreshInv
<1>. QED
  BY <1>4, <1>5, <1>6 DEF PageInv

\* evmMetrics and telemetry are no part of the invariant.
LEMMA PageInvariance == PageSpec => []PageInv
<1>1. PageInv /\ [PageNext]_pageVars => PageInv'
  <2>. SUFFICES ASSUME PageInv, [PageNext]_pageVars PROVE PageInv'
    OBVIOUS
  <2>1. CASE Refresh
    BY <2>1, JoinKeeps, StartKeeps, LocalKeeps DEF Refresh
  <2>2. CASE Edit
    BY <2>2, EditKeeps
  <2>3. CASE \E n \in Refreshes, ok \in BOOLEAN : Headers(n, ok) \/ EndBody(n, ok)
    BY <2>3, AnswerKeeps
  <2>4. CASE \E n \in Refreshes : GiveUp(n) \/ Settle(n)
    BY <2>4, AnswerKeeps, SettleKeeps
  <2>5. CASE UNCHANGED pageVars
    BY <2>5 DEF pageVars, PageInv, Shape, CacheInv, RequestInv, SlotInv, RefreshInv, cacheKey,
                ContentFingerprint
  <2>. QED
    BY <2>1, <2>2, <2>3, <2>4, <2>5 DEF PageNext
<1>. QED
  BY <1>1, PageInitInv, PTL DEF PageSpec

-----------------------------------------------------------------------------
(* Theorems *)

\* Whatever is edited while requests are out, and whoever joins whose request:
\* a refresh that the backend answered shows the content it was given, and none
\* is answered with a result from before it was asked for.
THEOREM RefreshesAnsweredRight == PageSpec => []AnsweredRight
<1>1. PageInv => AnsweredRight
  BY DEF PageInv, RefreshInv, SlotInv, AnsweredRight, AnswersTheDataAsked, NeverJoinsSettled
<1>. QED
  BY <1>1, PageInvariance, PTL


-----------------------------------------------------------------------------
(* CompletionPage: the inductive invariant. *)

Phases == {"headers", "body", "answered", "non_ok", "error"}
Call == [service : Services, analysis : Int, mitigations : SUBSET RiskCards, phase : Phases]
Steps == Stages \cup {"render", "over", "failed"}
Analysis == [asks : SUBSET Stages, throws : SUBSET Stages, step : Steps, curvesOf : Int]

PredictionShape ==
    /\ NumberedFromOne(analyses, Analysis) /\ NumberedFromOne(calls, Call)
    /\ \A c \in DOMAIN calls :
         /\ calls[c].service \in Stages => calls[c].analysis \in DOMAIN analyses
         /\ calls[c].mitigations # {} => calls[c].service = "monte_carlo"
    /\ dashboard # NoRun => dashboard \in DOMAIN analyses /\ dashboard \in Runs
    /\ selectedMitigations \in [Runs -> SUBSET RiskCards] /\ written \in Int

\* A banner that is wrong will be put right: an answer for its dashboard is out.
CorrectionIsDue ==
    /\ dashboard # NoRun /\ riskShown.analysis = dashboard
    /\ "monte_carlo" \notin analyses[dashboard].throws
    /\ riskShown.count # Cardinality(selectedMitigations[dashboard])
    => \E c \in DOMAIN calls : /\ InFlight(c) /\ calls[c].mitigations # {}
                               /\ calls[c].analysis = dashboard

PredictionInv == PredictionShape /\ CorrectionIsDue

-----------------------------------------------------------------------------
(* Lemmas *)

LEMMA PredictionInitInv == PredictionInit => PredictionInv
<1>. SUFFICES ASSUME PredictionInit PROVE PredictionInv
  OBVIOUS
<1>1. [a \in {} |-> 0] \in [1..0 -> Analysis] /\ [c \in {} |-> 0] \in [1..0 -> Call]
  BY 1..0 = {}
<1>2. NumberedFromOne(analyses, Analysis) /\ NumberedFromOne(calls, Call)
  BY <1>1 DEF PredictionInit, NumberedFromOne
<1>3. DOMAIN calls = {} /\ dashboard = NoRun /\ written \in Int
  BY DEF PredictionInit, NoRun
<1>4. selectedMitigations \in [Runs -> SUBSET RiskCards]
  BY DEF PredictionInit
<1>5. PredictionShape
  BY <1>2, <1>3, <1>4 DEF PredictionShape
<1>. QED
  BY <1>3, <1>5 DEF PredictionInv, CorrectionIsDue

\* One more request, which is in flight, beside those there were.
LEMMA SentAdds ==
    ASSUME PredictionShape, NEW known, NumberedFromOne(known, Call), DOMAIN known = DOMAIN calls,
           NEW s \in Services, NEW a \in Int, NEW mitigations \in SUBSET RiskCards
    PROVE  LET sent == Sent(known, s, a, mitigations)
           IN  /\ NumberedFromOne(sent, Call) /\ NewCall \notin DOMAIN calls
               /\ DOMAIN sent = DOMAIN calls \cup {NewCall}
               /\ \A c \in DOMAIN calls : sent[c] = known[c]
               /\ sent[NewCall] = [service |-> s, analysis |-> a, mitigations |-> mitigations, phase |-> "headers"]
<1>. DEFINE sent == Sent(known, s, a, mitigations)
            new == [service |-> s, analysis |-> a, mitigations |-> mitigations, phase |-> "headers"]
<1>1. new \in Call
  BY DEF Call, Phases
<1>2. sent = [c \in DOMAIN known \cup {NewCall} |-> IF c = NewCall THEN new ELSE known[c]]
  BY DEF Sent
<1>. HIDE DEF new, sent
<1>3. /\ DOMAIN sent = DOMAIN known \cup {NewCall} /\ sent = [x \in DOMAIN sent |-> sent[x]]
      /\ \A c \in DOMAIN sent : sent[c] = IF c = NewCall THEN new ELSE known[c]
  BY <1>2
<1>4. NewCall = Cardinality(DOMAIN known) + 1 /\ NewCall \notin DOMAIN known
  BY NextNumber DEF NewCall
<1>5. \A c \in DOMAIN known : known[c] \in Call
  BY DEF NumberedFromOne
<1>6. NumberedFromOne(sent, Call)
  BY <1>1, <1>3, <1>4, <1>5, NextNumber
<1>. QED
  BY <1>3, <1>4, <1>6 DEF new, sent

\* The phase of one request changes.
LEMMA CallEnds ==
    ASSUME PredictionShape, NEW c \in DOMAIN calls, NEW how \in Phases
    PROVE  LET ended == [calls EXCEPT ![c].phase = how]
           IN  /\ NumberedFromOne(ended, Call) /\ DOMAIN ended = DOMAIN calls
               /\ \A d \in DOMAIN calls :
                    /\ ended[d].service = calls[d].service /\ ended[d].analysis = calls[d].analysis
                    /\ ended[d].mitigations = calls[d].mitigations
                    /\ ended[d].phase = IF d = c THEN how ELSE calls[d].phase
<1>. DEFINE ended == [calls EXCEPT ![c].phase = how]
<1>1. PICK m \in Nat : calls \in [1..m -> Call]
  BY DEF PredictionShape, NumberedFromOne
<1>2. ended \in [1..m -> Call]
  BY <1>1 DEF Call
<1>3. NumberedFromOne(ended, Call)
  BY <1>1, <1>2 DEF NumberedFromOne
<1>4. ASSUME NEW d \in DOMAIN calls
      PROVE  /\ ended[d].service = calls[d].service /\ ended[d].analysis = calls[d].analysis
             /\ ended[d].mitigations = calls[d].mitigations
             /\ ended[d].phase = IF d = c THEN how ELSE calls[d].phase
  BY <1>1, <1>4 DEF Call
<1>. QED
  BY <1>3, <1>4

\* What an analysis does next concerns no other, and leaves the calls there are
\* as known has them.
LEMMA ContinueKeeps ==
    ASSUME PredictionShape, NEW a \in DOMAIN analyses \cup {Cardinality(DOMAIN analyses) + 1},
           NEW r \in Analysis, NEW stage, NEW known, NEW t, NEW writer \in Int,
           NumberedFromOne(known, Call), DOMAIN known = DOMAIN calls,
           Continue(a, r, stage, known, t, writer)
    PROVE  /\ NumberedFromOne(analyses', Analysis) /\ DOMAIN analyses' = DOMAIN analyses \cup {a}
           /\ \A b \in DOMAIN analyses \ {a} : analyses'[b] = analyses[b]
           /\ analyses'[a].throws = r.throws
           /\ NumberedFromOne(calls', Call) /\ DOMAIN calls \subseteq DOMAIN calls'
           /\ \A c \in DOMAIN calls : calls'[c] = known[c]
           /\ \A c \in DOMAIN calls' \ DOMAIN calls :
                 calls'[c].mitigations = {} /\ calls'[c].analysis = a
<1>. DEFINE step == StepFrom(r, stage)
            new == [r EXCEPT !.step = step, !.curvesOf = IF step = "render" THEN writer ELSE @]
<1>1. /\ analyses' = [b \in DOMAIN analyses \cup {a} |-> IF b = a THEN new ELSE analyses[b]]
      /\ calls' = IF step \in Stages THEN Sent(known, step, a, {}) ELSE known
  BY DEF Continue
<1>2. step \in Steps
  BY DEF StepFrom, Stop, Steps, Stages
<1>. HIDE DEF step
<1>3. new \in Analysis /\ new.throws = r.throws
  BY <1>2 DEF Analysis
<1>. HIDE DEF new
<1>4. PICK k \in Nat : analyses \in [1..k -> Analysis]
  BY DEF PredictionShape, NumberedFromOne
<1>5. /\ DOMAIN analyses' = DOMAIN analyses \cup {a} /\ analyses' = [x \in DOMAIN analyses' |-> analyses'[x]]
      /\ \A b \in DOMAIN analyses' : analyses'[b] = IF b = a THEN new ELSE analyses[b]
  BY <1>1
<1>6. NumberedFromOne(analyses', Analysis) /\ a \in Int
  <2>1. NumberedFromOne(analyses, Analysis) /\ Cardinality(DOMAIN analyses) + 1 \in Nat
    BY NextNumber DEF PredictionShape
  <2>2. \A b \in DOMAIN analyses' : analyses'[b] \in Analysis
    BY <1>3, <1>4, <1>5
  <2>3. CASE a \in DOMAIN analyses
    <3>1. DOMAIN analyses' = 1..k
      BY <1>4, <1>5, <2>3
    <3>2. analyses' \in [1..k -> Analysis]
      BY <1>5, <2>2, <3>1
    <3>. QED
      BY <1>4, <2>3, <3>2 DEF NumberedFromOne
  <2>4. CASE a = Cardinality(DOMAIN analyses) + 1
    BY <1>5, <2>1, <2>2, <2>4, NextNumber
  <2>. QED
    BY <2>3, <2>4
<1>7. CASE step \in Stages
  <2>1. step \in Services /\ {} \in SUBSET RiskCards
    BY <1>7 DEF Services
  <2>2. calls' = Sent(known, step, a, {})
    BY <1>1, <1>7
  <2>3. /\ NumberedFromOne(calls', Call) /\ DOMAIN calls' = DOMAIN calls \cup {NewCall}
        /\ \A c \in DOMAIN calls : calls'[c] = known[c]
        /\ calls'[NewCall] = [service |-> step, analysis |-> a, mitigations |-> {}, phase |-> "headers"]
    BY SMTT(20), <1>6, <2>1, <2>2, SentAdds
  <2>4. \A c \in DOMAIN calls' \ DOMAIN calls : calls'[c].mitigations = {} /\ calls'[c].analysis = a
    BY <2>3
  <2>. QED
    BY <1>3, <1>5, <1>6, <2>3, <2>4
<1>8. CASE step \notin Stages
  BY <1>1, <1>3, <1>5, <1>6, <1>8
<1>. QED
  BY <1>7, <1>8

-----------------------------------------------------------------------------
(* Each action keeps the invariant. *)

\* What is left when the requests of known go on as they were, except those
\* that have nothing to do with mitigations.
LEMMA WitnessStays ==
    ASSUME PredictionInv, NumberedFromOne(analyses', Analysis), NumberedFromOne(calls', Call),
           DOMAIN analyses \subseteq DOMAIN analyses', DOMAIN calls \subseteq DOMAIN calls',
           \A b \in DOMAIN analyses : analyses'[b].throws = analyses[b].throws,
           \A c \in DOMAIN calls :
              /\ calls'[c].service = calls[c].service /\ calls'[c].analysis = calls[c].analysis
              /\ calls'[c].mitigations = calls[c].mitigations
              /\ calls[c].mitigations # {} /\ InFlight(c) => calls'[c].phase \in {"headers", "body"},
           \A c \in DOMAIN calls' \ DOMAIN calls :
              /\ calls'[c].service \in Stages => calls'[c].analysis \in DOMAIN analyses'
              /\ calls'[c].mitigations = {},
           dashboard' = dashboard, riskShown' = riskShown, selectedMitigations' = selectedMitigations,
           written' \in Int
    PROVE  PredictionInv'
<1>1. PredictionShape'
  BY DEF PredictionInv, PredictionShape
<1>2. CorrectionIsDue'
  <2>. SUFFICES ASSUME dashboard # NoRun, riskShown.analysis = dashboard,
                       "monte_carlo" \notin analyses'[dashboard].throws,
                       riskShown.count # Cardinality(selectedMitigations[dashboard])
                PROVE  \E c \in DOMAIN calls' : /\ InFlight(c)' /\ calls'[c].mitigations # {}
                                               /\ calls'[c].analysis = dashboard
    BY DEF CorrectionIsDue
  <2>1. PICK c \in DOMAIN calls : /\ InFlight(c) /\ calls[c].mitigations # {}
                                  /\ calls[c].analysis = dashboard
    BY DEF PredictionInv, PredictionShape, CorrectionIsDue
  <2>2. c \in DOMAIN calls' /\ calls'[c].phase \in {"headers", "body"}
    BY <2>1
  <2>3. InFlight(c)'
    BY <2>2 DEF InFlight
  <2>. QED
    BY <2>1, <2>2, <2>3
<1>. QED
  BY <1>1, <1>2 DEF PredictionInv

\* Runs are numbered, so the dashboards there have been stay what they are.
LEMMA StartAnalysisKeeps == PredictionInv /\ StartAnalysis => PredictionInv'
<1>. SUFFICES ASSUME PredictionInv, StartAnalysis PROVE PredictionInv'
  OBVIOUS
<1>. DEFINE a == Cardinality(DOMAIN analyses) + 1
<1>1. PICK backend \in Backends :
         Continue(a, [asks |-> backend[1], throws |-> backend[2], step |-> "monte_carlo", curvesOf |-> NoRun],
                  "monte_carlo", calls, predictionTelemetry, a)
  BY DEF StartAnalysis
<1>. DEFINE r == [asks |-> backend[1], throws |-> backend[2], step |-> "monte_carlo", curvesOf |-> NoRun]
<1>2. r \in Analysis
  BY BackendsAssumption DEF Analysis, Steps, Stages, NoRun
<1>3. NumberedFromOne(analyses, Analysis) /\ NumberedFromOne(calls, Call) /\ PredictionShape
  BY DEF PredictionInv, PredictionShape
<1>. HIDE DEF r
<1>4. a \in Int /\ a \notin DOMAIN analyses
  <2>1. /\ Cardinality(DOMAIN analyses) + 1 \in Nat
        /\ Cardinality(DOMAIN analyses) + 1 \notin DOMAIN analyses
    BY <1>3, NextNumber
  <2>. QED
    BY <2>1
<1>. HIDE DEF a
<1>5. /\ NumberedFromOne(analyses', Analysis) /\ DOMAIN analyses' = DOMAIN analyses \cup {a}
      /\ \A b \in DOMAIN analyses \ {a} : analyses'[b] = analyses[b]
      /\ NumberedFromOne(calls', Call) /\ DOMAIN calls \subseteq DOMAIN calls'
      /\ \A c \in DOMAIN calls : calls'[c] = calls[c]
      /\ \A c \in DOMAIN calls' \ DOMAIN calls : calls'[c].mitigations = {} /\ calls'[c].analysis = a
  <2>1. Continue(a, r, "monte_carlo", calls, predictionTelemetry, a)
    BY <1>1 DEF r
  <2>2. a \in DOMAIN analyses \cup {Cardinality(DOMAIN analyses) + 1}
    BY DEF a
  <2>3. DOMAIN calls = DOMAIN calls
    OBVIOUS
  <2>4. /\ NumberedFromOne(analyses', Analysis) /\ DOMAIN analyses' = DOMAIN analyses \cup {a}
        /\ \A b \in DOMAIN analyses \ {a} : analyses'[b] = analyses[b]
        /\ analyses'[a].throws = r.throws
        /\ NumberedFromOne(calls', Call) /\ DOMAIN calls \subseteq DOMAIN calls'
        /\ \A c \in DOMAIN calls : calls'[c] = calls[c]
        /\ \A c \in DOMAIN calls' \ DOMAIN calls :
              calls'[c].mitigations = {} /\ calls'[c].analysis = a
    BY <1>2, <1>3, <1>4, <2>1, <2>2, <2>3, ContinueKeeps
  <2>. QED
    BY <2>4
<1>6. /\ dashboard' = dashboard /\ riskShown' = riskShown /\ selectedMitigations' = selectedMitigations
      /\ written' \in Int
  BY <1>4 DEF StartAnalysis, a
<1>. QED
  BY <1>4, <1>5, <1>6, WitnessStays DEF InFlight

\* The banner of a new dashboard counts none, which is what is selected on it.
LEMMA RenderKeeps == PredictionInv /\ (\E a \in Runs : RenderDashboard(a)) => PredictionInv'
<1>. SUFFICES ASSUME PredictionInv, NEW a \in Runs, RenderDashboard(a) PROVE PredictionInv'
  OBVIOUS
<1>1. /\ a \in DOMAIN analyses /\ analyses' = [analyses EXCEPT ![a].step = "over"]
      /\ dashboard' = a /\ selectedMitigations' = [selectedMitigations EXCEPT ![a] = {}]
      /\ riskShown' = [analysis |-> a, mitigations |-> {}, count |-> 0] /\ calls' = calls
      /\ written' = written
  BY DEF RenderDashboard
<1>2. PICK k \in Nat : analyses \in [1..k -> Analysis]
  BY DEF PredictionInv, PredictionShape, NumberedFromOne
<1>3. analyses' \in [1..k -> Analysis]
  BY <1>1, <1>2 DEF Analysis, Steps
<1>4. PredictionShape'
  <2>1. NumberedFromOne(analyses', Analysis) /\ DOMAIN analyses' = DOMAIN analyses
    BY <1>2, <1>3 DEF NumberedFromOne
  <2>2. selectedMitigations' \in [Runs -> SUBSET RiskCards]
    BY <1>1 DEF PredictionInv, PredictionShape
  <2>. QED
    BY <1>1, <2>1, <2>2 DEF PredictionInv, PredictionShape
<1>5. selectedMitigations'[a] = {} /\ riskShown'.count = 0
  BY <1>1 DEF PredictionInv, PredictionShape
<1>6. CorrectionIsDue'
  BY <1>1, <1>5, FS_EmptySet DEF CorrectionIsDue
<1>. QED
  BY <1>4, <1>6 DEF PredictionInv

LEMMA RespondedKeeps == PredictionInv /\ (\E c \in DOMAIN calls : Responded(c)) => PredictionInv'
<1>. SUFFICES ASSUME PredictionInv, NEW c \in DOMAIN calls, Responded(c) PROVE PredictionInv'
  OBVIOUS
<1>1. /\ calls' = [calls EXCEPT ![c].phase = "body"] /\ analyses' = analyses
      /\ dashboard' = dashboard /\ riskShown' = riskShown /\ selectedMitigations' = selectedMitigations
      /\ written' = written
  BY DEF Responded
<1>2. PredictionShape /\ NumberedFromOne(analyses, Analysis) /\ "body" \in Phases /\ written \in Int
  BY DEF PredictionInv, PredictionShape, Phases
<1>3. /\ NumberedFromOne(calls', Call) /\ DOMAIN calls' = DOMAIN calls
      /\ \A d \in DOMAIN calls :
           /\ calls'[d].service = calls[d].service /\ calls'[d].analysis = calls[d].analysis
           /\ calls'[d].mitigations = calls[d].mitigations
           /\ calls'[d].phase = IF d = c THEN "body" ELSE calls[d].phase
  BY ZenonT(60), <1>1, <1>2, CallEnds
<1>. QED
  BY <1>1, <1>2, <1>3, WitnessStays DEF InFlight

\* A request that is not about mitigations ends: nobody waits for its banner.
LEMMA OtherCallEnds ==
    ASSUME PredictionInv, NEW c \in DOMAIN calls, NEW how \in Phases, Over(c, how),
           calls[c].service \notin Stages \/ calls[c].mitigations = {}
    PROVE  PredictionInv'
<1>. DEFINE ended == [calls EXCEPT ![c].phase = how]
            a == calls[c].analysis
            r == analyses[a]
<1>1. PredictionShape /\ NumberedFromOne(analyses, Analysis) /\ NumberedFromOne(calls, Call)
  BY DEF PredictionInv, PredictionShape
<1>2. /\ NumberedFromOne(ended, Call) /\ DOMAIN ended = DOMAIN calls
      /\ \A d \in DOMAIN calls :
           /\ ended[d].service = calls[d].service /\ ended[d].analysis = calls[d].analysis
           /\ ended[d].mitigations = calls[d].mitigations
           /\ ended[d].phase = IF d = c THEN how ELSE calls[d].phase
  BY <1>1, CallEnds
<1>3. /\ dashboard' = dashboard /\ riskShown' = riskShown /\ selectedMitigations' = selectedMitigations
      /\ written' = written /\ written \in Int
  BY <1>1 DEF Over, PredictionShape
<1>4. calls[c].mitigations = {}
  BY <1>1 DEF PredictionShape, Stages
<1>5. CASE calls[c].service \notin Stages
  <2>1. calls' = ended /\ analyses' = analyses
    BY <1>5 DEF Over
  <2>. HIDE DEF ended
  <2>. QED
    BY <1>1, <1>2, <1>3, <1>4, <2>1, WitnessStays DEF InFlight
<1>6. CASE calls[c].service \in Stages
  <2>1. a \in DOMAIN analyses /\ r \in Analysis
    BY <1>1, <1>6 DEF PredictionShape, NumberedFromOne
  <2>2. CASE analyses' = [analyses EXCEPT ![a].step = "failed"] /\ calls' = ended
    <3>1. PICK k \in Nat : analyses \in [1..k -> Analysis]
      BY <1>1 DEF NumberedFromOne
    <3>2. analyses' \in [1..k -> Analysis] /\ \A b \in DOMAIN analyses : analyses'[b].throws = analyses[b].throws
      BY <2>2, <3>1 DEF Analysis, Steps
    <3>3. NumberedFromOne(analyses', Analysis) /\ DOMAIN analyses' = DOMAIN analyses
      BY <3>1, <3>2 DEF NumberedFromOne
    <3>. HIDE DEF ended
    <3>. QED
      BY <1>2, <1>3, <1>4, <2>2, <3>2, <3>3, WitnessStays DEF InFlight
  <2>3. ASSUME NEW stage, NEW t, Continue(a, r, stage, ended, t, written)
        PROVE  PredictionInv'
    <3>. HIDE DEF ended, r
    <3>1. a \in DOMAIN analyses \cup {Cardinality(DOMAIN analyses) + 1}
      BY <2>1
    <3>2. /\ NumberedFromOne(analyses', Analysis) /\ DOMAIN analyses' = DOMAIN analyses \cup {a}
          /\ \A b \in DOMAIN analyses \ {a} : analyses'[b] = analyses[b]
          /\ analyses'[a].throws = r.throws
          /\ NumberedFromOne(calls', Call) /\ DOMAIN calls \subseteq DOMAIN calls'
          /\ \A d \in DOMAIN calls : calls'[d] = ended[d]
          /\ \A d \in DOMAIN calls' \ DOMAIN calls :
                calls'[d].mitigations = {} /\ calls'[d].analysis = a
      BY <1>1, <1>2, <1>3, <2>1, <2>3, <3>1, ContinueKeeps
    <3>3. \A b \in DOMAIN analyses : analyses'[b].throws = analyses[b].throws
      BY <3>2 DEF r
    <3>. QED
      BY <1>2, <1>3, <1>4, <2>1, <3>2, <3>3, WitnessStays DEF InFlight
  <2>. QED
    BY <1>4, <1>6, <2>2, <2>3 DEF Over
<1>. QED
  BY <1>5, <1>6

\* An answer about mitigations puts the banner right, for its own dashboard;
\* where it shows nothing, its dashboard's local calculation throws.
LEMMA MitigationsEnd ==
    ASSUME PredictionInv, NEW c \in DOMAIN calls, NEW how \in Phases, Over(c, how),
           calls[c].service \in Stages, calls[c].mitigations # {}
    PROVE  PredictionInv'
<1>. DEFINE ended == [calls EXCEPT ![c].phase = how]
            a == calls[c].analysis
<1>1. PredictionShape /\ calls[c].service = "monte_carlo" /\ a \in DOMAIN analyses
  BY DEF PredictionInv, PredictionShape
<1>2. /\ NumberedFromOne(ended, Call) /\ DOMAIN ended = DOMAIN calls
      /\ \A d \in DOMAIN calls :
           /\ ended[d].service = calls[d].service /\ ended[d].analysis = calls[d].analysis
           /\ ended[d].mitigations = calls[d].mitigations
           /\ ended[d].phase = IF d = c THEN how ELSE calls[d].phase
  BY <1>1, CallEnds
<1>3. /\ calls' = ended /\ analyses' = analyses /\ dashboard' = dashboard
      /\ selectedMitigations' = selectedMitigations /\ written' = written
      /\ \/ how # "answered" /\ "monte_carlo" \in analyses[a].throws /\ riskShown' = riskShown
         \/ ShowMitigations(c)
  BY <1>1 DEF Over
<1>. HIDE DEF ended
<1>4. PredictionShape'
  BY <1>1, <1>2, <1>3 DEF PredictionShape
<1>5. CASE ShowMitigations(c)
  <2>1. riskShown'.analysis = a /\ riskShown'.count = Cardinality(selectedMitigations[a])
    BY <1>5 DEF ShowMitigations, CountNow
  <2>. QED
    BY <1>3, <1>4, <2>1 DEF PredictionInv, CorrectionIsDue
<1>6. CASE "monte_carlo" \in analyses[a].throws /\ riskShown' = riskShown
  <2>. SUFFICES ASSUME dashboard # NoRun, riskShown.analysis = dashboard,
                       "monte_carlo" \notin analyses[dashboard].throws,
                       riskShown.count # Cardinality(selectedMitigations[dashboard])
                PROVE  \E d \in DOMAIN calls' : /\ InFlight(d)' /\ calls'[d].mitigations # {}
                                               /\ calls'[d].analysis = dashboard
    BY <1>3, <1>4, <1>6 DEF CorrectionIsDue, PredictionInv
  <2>1. PICK d \in DOMAIN calls : /\ InFlight(d) /\ calls[d].mitigations # {}
                                  /\ calls[d].analysis = dashboard
    BY DEF PredictionInv, CorrectionIsDue
  <2>2. d # c
    BY <1>6, <2>1
  <2>. QED
    BY <1>2, <1>3, <2>1, <2>2 DEF InFlight
<1>. QED
  BY <1>3, <1>5, <1>6

LEMMA OverKeeps == ASSUME PredictionInv, NEW c \in DOMAIN calls, NEW how \in Phases, Over(c, how)
                   PROVE  PredictionInv'
BY OtherCallEnds, MitigationsEnd

\* A click leaves the banner right, or asks for what will put it right.
LEMMA ClickKeeps == PredictionInv /\ (\E card \in RiskCards : ClickRisk(card)) => PredictionInv'
<1>. SUFFICES ASSUME PredictionInv, NEW card \in RiskCards, ClickRisk(card) PROVE PredictionInv'
  OBVIOUS
<1>. DEFINE a == dashboard
            chosen == IF card \in selectedMitigations[a] THEN selectedMitigations[a] \ {card}
                   ELSE selectedMitigations[a] \cup {card}
<1>1. PredictionShape /\ a # NoRun /\ a \in DOMAIN analyses /\ a \in Runs /\ NumberedFromOne(calls, Call)
  BY DEF PredictionInv, PredictionShape, ClickRisk
<1>2. chosen \in SUBSET RiskCards
  BY <1>1 DEF PredictionShape
<1>3. /\ selectedMitigations' = [selectedMitigations EXCEPT ![a] = chosen]
      /\ analyses' = analyses /\ dashboard' = dashboard /\ written' = written
      /\ \/ /\ riskShown' = [analysis |-> a, mitigations |-> chosen, count |-> Cardinality(chosen)]
            /\ calls' = calls
         \/ riskShown' = [analysis |-> a, mitigations |-> {}, count |-> 0] /\ chosen = {} /\ calls' = calls
         \/ chosen # {} /\ calls' = Sent(calls, "monte_carlo", a, chosen)
         \/ "monte_carlo" \in analyses[a].throws /\ riskShown' = riskShown /\ calls' = calls
  BY DEF ClickRisk
<1>. HIDE DEF chosen
<1>4. selectedMitigations' \in [Runs -> SUBSET RiskCards] /\ selectedMitigations'[a] = chosen
  BY <1>1, <1>2, <1>3 DEF PredictionShape
<1>5. CASE chosen # {} /\ calls' = Sent(calls, "monte_carlo", a, chosen)
  <2>1. "monte_carlo" \in Services /\ a \in Int
    BY <1>1 DEF Services, Stages, Runs
  <2>2. /\ NumberedFromOne(calls', Call) /\ NewCall \notin DOMAIN calls /\ DOMAIN calls' = DOMAIN calls \cup {NewCall}
        /\ \A c \in DOMAIN calls : calls'[c] = calls[c]
        /\ calls'[NewCall] = [service |-> "monte_carlo", analysis |-> a, mitigations |-> chosen, phase |-> "headers"]
    BY <1>1, <1>2, <1>5, <2>1, SentAdds
  <2>3. /\ NewCall \in DOMAIN calls' /\ calls'[NewCall].mitigations # {}
        /\ calls'[NewCall].analysis = a /\ calls'[NewCall].phase = "headers"
        /\ calls'[NewCall].service = "monte_carlo"
    BY <1>5, <2>2
  <2>4. PredictionShape'
    BY <1>1, <1>3, <1>4, <2>2, <2>3 DEF PredictionShape
  <2>5. CorrectionIsDue'
    BY <1>3, <2>3 DEF CorrectionIsDue, InFlight
  <2>. QED
    BY <2>4, <2>5 DEF PredictionInv
<1>6. CASE ~(chosen # {} /\ calls' = Sent(calls, "monte_carlo", a, chosen))
  <2>1. calls' = calls
    BY <1>3, <1>6
  <2>2. PredictionShape'
    BY <1>1, <1>3, <1>4, <2>1 DEF PredictionShape
  <2>3. CASE riskShown' = [analysis |-> a, mitigations |-> chosen, count |-> Cardinality(chosen)]
    <3>1. riskShown'.count = Cardinality(chosen)
      BY <2>3
    <3>. QED
      BY <1>3, <1>4, <2>2, <3>1 DEF PredictionInv, CorrectionIsDue
  <2>4. CASE chosen = {} /\ riskShown' = [analysis |-> a, mitigations |-> {}, count |-> 0]
    <3>1. riskShown'.count = 0 /\ Cardinality(chosen) = 0
      BY <2>4, FS_EmptySet
    <3>. QED
      BY <1>3, <1>4, <2>2, <3>1 DEF PredictionInv, CorrectionIsDue
  <2>5. CASE "monte_carlo" \in analyses[a].throws
    BY <1>3, <2>2, <2>5 DEF PredictionInv, CorrectionIsDue
  <2>. QED
    BY <1>3, <1>6, <2>3, <2>4, <2>5
<1>. QED
  BY <1>5, <1>6

LEMMA AskServiceKeeps ==
    PredictionInv /\ (\E s \in Services, enabled \in BOOLEAN : AskService(s, enabled)) => PredictionInv'
<1>. SUFFICES ASSUME PredictionInv, NEW s \in Services, NEW enabled \in BOOLEAN, AskService(s, enabled)
              PROVE  PredictionInv'
  OBVIOUS
<1>1. /\ s \notin Stages /\ analyses' = analyses /\ dashboard' = dashboard /\ riskShown' = riskShown
      /\ selectedMitigations' = selectedMitigations /\ written' = written
      /\ calls' = calls \/ calls' = Sent(calls, s, 1, {})
  BY DEF AskService
<1>2. PredictionShape /\ NumberedFromOne(calls, Call) /\ NumberedFromOne(analyses, Analysis) /\ written \in Int
  BY DEF PredictionInv, PredictionShape
<1>3. CASE calls' = calls
  BY <1>1, <1>2, <1>3, WitnessStays DEF InFlight
<1>4. CASE calls' = Sent(calls, s, 1, {})
  <2>1. {} \in SUBSET RiskCards
    OBVIOUS
  <2>2. /\ NumberedFromOne(calls', Call) /\ NewCall \notin DOMAIN calls /\ DOMAIN calls' = DOMAIN calls \cup {NewCall}
        /\ \A c \in DOMAIN calls : calls'[c] = calls[c]
        /\ calls'[NewCall] = [service |-> s, analysis |-> 1, mitigations |-> {}, phase |-> "headers"]
    BY <1>2, <1>4, <2>1, SentAdds
  <2>3. \A c \in DOMAIN calls' \ DOMAIN calls : calls'[c].mitigations = {} /\ calls'[c].service \notin Stages
    BY <1>1, <2>2
  <2>. QED
    BY <1>1, <1>2, <2>2, <2>3, WitnessStays DEF InFlight
<1>. QED
  BY <1>1, <1>3, <1>4

LEMMA PredictionInvariance == PredictionSpec => []PredictionInv
<1>1. PredictionInv /\ [PredictionNext]_predictionVars => PredictionInv'
  <2>. SUFFICES ASSUME PredictionInv, [PredictionNext]_predictionVars PROVE PredictionInv'
    OBVIOUS
  <2>1. CASE StartAnalysis
    BY <2>1, StartAnalysisKeeps
  <2>2. CASE \E a \in Runs : RenderDashboard(a)
    BY <2>2, RenderKeeps
  <2>3. ASSUME NEW c \in DOMAIN calls, Refused(c) \/ NetworkFails(c) \/ TimesOut(c) \/ BodyEnds(c)
        PROVE  PredictionInv'
    BY <2>3, OverKeeps DEF Refused, NetworkFails, TimesOut, BodyEnds, Phases
  <2>4. CASE \E c \in DOMAIN calls : Responded(c)
    BY <2>4, RespondedKeeps
  <2>5. CASE \E card \in RiskCards : ClickRisk(card)
    BY <2>5, ClickKeeps
  <2>6. CASE \E s \in Services, enabled \in BOOLEAN : AskService(s, enabled)
    BY <2>6, AskServiceKeeps
  <2>7. CASE Destroy \/ UNCHANGED predictionVars
    BY <2>7 DEF Destroy, predictionVars, PredictionInv, PredictionShape, CorrectionIsDue, InFlight
  <2>. QED
    BY <2>1, <2>2, <2>3, <2>4, <2>5, <2>6, <2>7 DEF PredictionNext
<1>. QED
  BY <1>1, PredictionInitInv, PTL DEF PredictionSpec

\* However many answers about mitigations are out, and in whichever order they
\* come: when none is out, the banner counts the cards that are selected.
THEOREM CountIsOfTheSelection == PredictionSpec => []CountFollowsSelection
<1>1. PredictionInv => CountFollowsSelection
  BY DEF PredictionInv, CorrectionIsDue, CountFollowsSelection
<1>. QED
  BY <1>1, PredictionInvariance, PTL

-----------------------------------------------------------------------------
(* Theorems about GroupInsights, for any groups, batches, retries and bounds. *)
-----------------------------------------------------------------------------
(* The inductive invariant. *)

\* Fetches by their number, 0 where there is no insight.
Fetches == [GroupKeys -> Int]

InsightShape ==
    /\ insights \in Fetches /\ deferred \in Fetches
    /\ tab \in [type : GroupTypes \cup {"none"}, open : SUBSET GroupKeys, shown : Fetches]

\* An insight is shown or kept for later, never both, and what is kept is as
\* new as what the project has: for a group that is opened after its insight.
KeptIsNewest ==
    \A k \in GroupKeys :
        /\ k \in tab.open => deferred[k] = 0
        /\ deferred[k] # 0 /\ insights[k] # 0 => deferred[k] = insights[k]

InsightInv == InsightShape /\ KeptIsNewest /\ ShownIsNewest

-----------------------------------------------------------------------------
(* Each action keeps the invariant. *)

LEMMA InsightInitInv == GroupInit => InsightInv
BY DEF GroupInit, InsightInv, InsightShape, KeptIsNewest, ShownIsNewest, Fetches

\* What neither brings an insight nor opens, shows or leaves a group.
LEMMA OthersKeep ==
    InsightInv /\ insights' = insights /\ deferred' = deferred /\ tab' = tab => InsightInv'
BY DEF InsightInv, InsightShape, KeptIsNewest, ShownIsNewest

\* The insights of a batch go at once to the groups that are open, and are kept
\* for the others.
LEMMA EndBatchKeeps ==
    ASSUME InsightInv, NEW f \in Int, NEW ids, EndBatch(f, ids)
    PROVE  InsightInv'
<1>. DEFINE t == insightFetches[f].type
            InBatch(k) == k[1] = t /\ k[2] \in ids
<1>1. /\ insights' = [k \in GroupKeys |-> IF InBatch(k) THEN f ELSE insights[k]]
      /\ deferred' = [k \in GroupKeys |-> IF InBatch(k) /\ k \notin tab.open THEN f ELSE deferred[k]]
      /\ tab' = [tab EXCEPT !.shown =
                   [k \in GroupKeys |-> IF k \in tab.open /\ InBatch(k) THEN f ELSE @[k]]]
  BY DEF EndBatch, setGroupInsight, updateGroupUI, Kept
<1>. HIDE DEF InBatch
<1>2. InsightShape
  BY DEF InsightInv
<1>3. /\ tab'.open = tab.open
      /\ \A k \in GroupKeys : tab'.shown[k] = IF k \in tab.open /\ InBatch(k) THEN f ELSE tab.shown[k]
  BY <1>1, <1>2 DEF InsightShape, Fetches
<1>4. InsightShape'
  BY <1>1, <1>2 DEF InsightShape, Fetches
<1>5. KeptIsNewest'
  BY <1>1, <1>3 DEF InsightInv, KeptIsNewest
<1>6. ShownIsNewest'
  BY <1>1, <1>2, <1>3 DEF InsightInv, InsightShape, ShownIsNewest
<1>. QED
  BY <1>4, <1>5, <1>6 DEF InsightInv

\* A tab that is rendered anew has no group open.
LEMMA ShowTabKeeps ==
    ASSUME InsightInv, NEW t \in GroupTypes, ShowTab(t)
    PROVE  InsightInv'
<1>1. /\ insights' = insights /\ deferred' = deferred
      /\ tab' = [type |-> t, open |-> {}, shown |-> [k \in GroupKeys |-> 0]]
  BY DEF ShowTab
<1>. QED
  BY <1>1 DEF InsightInv, InsightShape, KeptIsNewest, ShownIsNewest, Fetches

LEMMA OpenGroupKeeps ==
    ASSUME InsightInv, NEW g \in GroupKeys, OpenGroup(g)
    PROVE  InsightInv'
<1>1. /\ insights' = insights /\ deferred' = [deferred EXCEPT ![g] = 0]
      /\ tab' = [tab EXCEPT !.open = @ \cup {g}, !.shown[g] = deferred[g]]
  BY DEF OpenGroup, applyDeferredInsight
<1>2. InsightShape
  BY DEF InsightInv
<1>3. /\ tab'.open = tab.open \cup {g}
      /\ tab'.shown = [tab.shown EXCEPT ![g] = deferred[g]]
  BY <1>1, <1>2 DEF InsightShape
<1>4. InsightShape'
  <2>1. insights \in Fetches /\ deferred \in Fetches /\ tab.shown \in Fetches /\ tab.open \subseteq GroupKeys
    BY <1>2 DEF InsightShape
  <2>2. deferred' \in Fetches /\ [tab.shown EXCEPT ![g] = deferred[g]] \in Fetches
    BY <1>1, <2>1 DEF Fetches
  <2>3. tab' = [type |-> tab.type, open |-> tab.open \cup {g}, shown |-> [tab.shown EXCEPT ![g] = deferred[g]]]
    BY <1>1, <1>2 DEF InsightShape
  <2>4. tab.type \in GroupTypes \cup {"none"} /\ tab.open \cup {g} \in SUBSET GroupKeys
    BY <1>2, <2>1 DEF InsightShape
  <2>. QED
    BY <1>1, <2>1, <2>2, <2>3, <2>4 DEF InsightShape
<1>5. KeptIsNewest' /\ ShownIsNewest'
  BY <1>1, <1>2, <1>3 DEF InsightInv, InsightShape, KeptIsNewest, ShownIsNewest, Fetches
<1>. QED
  BY <1>4, <1>5 DEF InsightInv

\* A project that replaces another has no insights yet, but what was kept for
\* the groups of the last is kept.
LEMMA CleanupKeeps == InsightInv /\ cleanupBeforeProjectLoad => InsightInv'
BY DEF cleanupBeforeProjectLoad, InsightInv, InsightShape, KeptIsNewest, ShownIsNewest, Fetches

LEMMA InsightStep == InsightInv /\ [GroupNext]_groupVars => InsightInv'
<1>. SUFFICES ASSUME InsightInv, [GroupNext]_groupVars PROVE InsightInv'
  OBVIOUS
<1>1. ASSUME NEW f \in 1..MaxShows, BatchAnswered(f) \/ BatchFails(f) PROVE InsightInv'
  BY <1>1, EndBatchKeeps, OthersKeep DEF BatchAnswered, BatchFails
<1>2. ASSUME NEW r \in 1..MaxShows, SystemsAnswered(r) \/ SystemsFail(r) \/ InjectButton(r) PROVE InsightInv'
  BY <1>2, OthersKeep DEF SystemsAnswered, SystemsFail, InjectButton
<1>3. ASSUME NEW t \in GroupTypes, RenderTimer(t) \/ ClickTab(t) PROVE InsightInv'
  BY <1>3, ShowTabKeeps, OthersKeep DEF RenderTimer, ClickTab
<1>4. ASSUME NEW made \in synthesisRuns, NEW ok \in BOOLEAN, SynthesisEnds(made, ok) PROVE InsightInv'
  BY <1>4, OthersKeep DEF SynthesisEnds
<1>5. ASSUME NEW k \in GroupKeys, OpenGroup(k) PROVE InsightInv'
  BY <1>5, OpenGroupKeeps
<1>6. CASE AskSynthesis
  BY <1>6, OthersKeep DEF AskSynthesis
<1>7. CASE cleanupBeforeProjectLoad
  BY <1>7, CleanupKeeps
<1>8. CASE LoadProject
  BY <1>8, ShowTabKeeps, GroupsAssumption DEF LoadProject
<1>9. CASE UNCHANGED groupVars
  BY <1>9, OthersKeep DEF groupVars
<1>. QED
  BY <1>1, <1>2, <1>3, <1>4, <1>5, <1>6, <1>7, <1>8, <1>9 DEF GroupNext

-----------------------------------------------------------------------------
(* Theorems *)

\* Whatever is fetched again, opened, replaced or loaded while answers are out:
\* an opened group shows the newest insight that its project has for it.
THEOREM NewestIsShown == GroupSpec => []ShownIsNewest
<1>1. InsightInv => ShownIsNewest
  BY DEF InsightInv
<1>. QED
  BY <1>1, InsightInitInv, InsightStep, PTL DEF GroupSpec

-----------------------------------------------------------------------------
(* Theorems about RiskPipeline, for any candidates, metrics and answers. *)
-----------------------------------------------------------------------------
(* Ranking *)

LEMMA LeastOf ==
    ASSUME NEW S \in SUBSET Nat, S # {}
    PROVE  Min(S) \in S /\ \A k \in S : Min(S) <= k
<1>1. PICK m \in S : \A y \in S : <<y, m>> \notin OpToRel(<, Nat)
  BY NatLessThanWellFounded, WFMin
<1>2. \A k \in S : ~(k < m)
  BY <1>1 DEF OpToRel
<1>3. \A k \in S : m <= k
  BY <1>2
<1>. QED
  BY <1>3 DEF Min

LEMMA IntervalFacts == \A n \in Nat : IsFiniteSet(1..n) /\ Cardinality(1..n) = n /\ 1..n \subseteq Int
BY FS_Interval

\* Ranking lists each member of the set once.
LEMMA RankedLists ==
    ASSUME NEW J, J \subseteq Int, IsFiniteSet(J), NEW keys \in [J -> Int]
    PROVE  /\ Cardinality(J) \in Nat
           /\ Ranked(J, keys) \in [1..Cardinality(J) -> J]
           /\ \A j \in J : \E p \in 1..Cardinality(J) : Ranked(J, keys)[p] = j
<1>. DEFINE N == Cardinality(J)
            Ahead(j) == {i \in J : Before(keys, i, j)}
            rank == [j \in J |-> Cardinality(Ahead(j)) + 1]
<1>1. N \in Nat
  BY FS_CardinalityType
<1>2. ASSUME NEW j \in J PROVE IsFiniteSet(Ahead(j)) /\ Cardinality(Ahead(j)) \in Nat
  BY FS_Subset, FS_CardinalityType
<1>3. ASSUME NEW j \in J PROVE rank[j] \in 1..N
  <2>1. j \notin Ahead(j)
    BY DEF Before
  <2>2. Ahead(j) \subseteq J \ {j} /\ IsFiniteSet(J \ {j}) /\ Cardinality(J \ {j}) = N - 1
    BY <2>1, FS_RemoveElement
  <2>3. Cardinality(Ahead(j)) <= N - 1
    BY <2>2, FS_Subset
  <2>. QED
    BY <2>3, <1>1, <1>2
<1>4. ASSUME NEW i \in J, NEW j \in J, Before(keys, i, j) PROVE rank[i] < rank[j]
  <2>1. keys[i] \in Int /\ keys[j] \in Int /\ \A k \in J : keys[k] \in Int
    OBVIOUS
  <2>2. i \notin Ahead(i)
    BY <2>1 DEF Before
  <2>3. \A k \in J : Before(keys, k, i) => Before(keys, k, j)
    BY <2>1, <1>4 DEF Before
  <2>4. i \notin Ahead(i) /\ Ahead(i) \cup {i} \subseteq Ahead(j)
    BY <2>2, <2>3, <1>4
  <2>5. IsFiniteSet(Ahead(i) \cup {i}) /\ Cardinality(Ahead(i) \cup {i}) = Cardinality(Ahead(i)) + 1
    BY <2>4, <1>2, FS_AddElement
  <2>6. Cardinality(Ahead(i) \cup {i}) <= Cardinality(Ahead(j))
    BY <2>4, <1>2, FS_Subset
  <2>. QED
    BY <2>5, <2>6, <1>2
<1>5. ASSUME NEW i \in J, NEW j \in J, rank[i] = rank[j] PROVE i = j
  <2>1. i # j => Before(keys, i, j) \/ Before(keys, j, i)
    BY DEF Before
  <2>. QED
    BY <2>1, <1>3, <1>4, <1>5
<1>6. rank \in Injection(J, 1..N)
  <2>1. rank \in [J -> 1..N]
    BY <1>3
  <2>. QED
    BY <2>1, <1>5 DEF Injection, IsInjective
<1>7. IsFiniteSet(1..N) /\ Cardinality(1..N) = N
  BY <1>1, FS_Interval
<1>8. rank \in Surjection(J, 1..N)
  BY <1>6, <1>7, FS_Injection
<1>9. ASSUME NEW p \in 1..N PROVE Ranked(J, keys)[p] \in J /\ rank[Ranked(J, keys)[p]] = p
  <2>1. PICK j \in J : rank[j] = p
    BY <1>8 DEF Surjection
  <2>2. Cardinality(Ahead(j)) = p - 1
    BY <2>1, <1>2
  <2>3. Ranked(J, keys)[p] = CHOOSE k \in J : Cardinality(Ahead(k)) = p - 1
    BY DEF Ranked
  <2>4. Ranked(J, keys)[p] \in J /\ Cardinality(Ahead(Ranked(J, keys)[p])) = p - 1
    BY <2>2, <2>3
  <2>. QED
    BY <2>4
<1>10. Ranked(J, keys) \in [1..N -> J]
  BY <1>9 DEF Ranked
<1>. QED
  BY <1>1, <1>3, <1>5, <1>9, <1>10

\* What is sorted was there before.
LEMMA SortedType ==
    ASSUME NEW S, NEW seq \in Seq(S), NEW keys \in [DOMAIN seq -> Int]
    PROVE  [k \in DOMAIN seq |-> seq[Ranked(DOMAIN seq, keys)[k]]] \in Seq(S)
<1>1. Len(seq) \in Nat /\ DOMAIN seq = 1..Len(seq)
  BY LenProperties
<1>2. \A n \in Nat : IsFiniteSet(1..n) /\ Cardinality(1..n) = n /\ 1..n \subseteq Int
  BY IntervalFacts
<1>3. IsFiniteSet(DOMAIN seq) /\ Cardinality(DOMAIN seq) = Len(seq) /\ DOMAIN seq \subseteq Int
  BY <1>1, <1>2, Zenon
<1>4. Ranked(DOMAIN seq, keys) \in [1..Cardinality(DOMAIN seq) -> DOMAIN seq]
  BY <1>3, RankedLists, Zenon
<1>5. Ranked(DOMAIN seq, keys) \in [1..Len(seq) -> DOMAIN seq]
  BY <1>3, <1>4, Zenon
<1>6. \A k \in 1..Len(seq) : seq[Ranked(DOMAIN seq, keys)[k]] \in S
  BY <1>1, <1>5, ElementOfSeq
<1>7. [k \in 1..Len(seq) |-> seq[Ranked(DOMAIN seq, keys)[k]]] \in [1..Len(seq) -> S]
  BY <1>6
<1>. QED
  BY <1>1, <1>7

-----------------------------------------------------------------------------
(* Types of what the calibration computes. *)

LEMMA MarkType == ASSUME NEW r, NEW mark, NEW worth \in Nat PROVE Mark(r, mark, worth) \in Nat
BY DEF Mark

LEMMA LeastType == ASSUME NEW a \in Int, NEW b \in Int PROVE Least(a, b) \in Int /\ Most(a, b) \in Int
BY DEF Least, Most

LEMMA ScoreType == ASSUME NEW r \in Candidate PROVE scoreRisk(r) \in Int
<1>1. scoreSpecificity(r) \in Int
  <2>1. /\ Mark(r, "quantity", 200) \in Nat /\ Mark(r, "equipment", 150) \in Nat
        /\ Mark(r, "construction", 100) \in Nat /\ Mark(r, "justification", 150) \in Nat
        /\ Mark(r, "citations", 150) \in Nat /\ Mark(r, "party", 100) \in Nat
    BY MarkType
  <2>. QED
    BY <2>1 DEF scoreSpecificity, Least
<1>2. scoreGrounding(r) \in Int
  <2>1. /\ Mark(r, "sector", 150) \in Nat /\ Mark(r, "region", 250) \in Nat /\ Mark(r, "country", 200) \in Nat
        /\ Mark(r, "category", 150) \in Nat /\ Mark(r, "threeCategories", 100) \in Nat
        /\ Mark(r, "reasoning", 100) \in Nat /\ Mark(r, "source", 50) \in Nat
    BY MarkType
  <2>. QED
    BY <2>1 DEF scoreGrounding, Least
<1>3. scoreCompleteness(r) \in Int
  <2>1. /\ Mark(r, "name", 150) \in Nat /\ Mark(r, "type", 100) \in Nat /\ Mark(r, "description", 150) \in Nat
        /\ Mark(r, "probability", 100) \in Nat /\ Mark(r, "cost", 100) \in Nat /\ Mark(r, "schedule", 100) \in Nat
        /\ Mark(r, "mitigation", 150) \in Nat /\ Mark(r, "twoMitigations", 100) \in Nat
        /\ Mark(r, "indicator", 100) \in Nat
    BY MarkType
  <2>. QED
    BY <2>1 DEF scoreCompleteness, Least
<1>4. calculateSeverity(r) \in Int
  <2>1. r.probability \in Int /\ r.cost \in Int /\ r.schedule \in Int
    BY DEF Candidate
  <2>2. OrHalf(r.probability) \in Int /\ Most(OrHalf(r.cost), OrHalf(r.schedule)) \in Int
    BY <2>1 DEF OrHalf, Most
  <2>. QED
    BY <2>2 DEF calculateSeverity, Times
<1>5. OwnConfidence(r) \in Int
  BY DEF OwnConfidence, Candidate, Unscored
<1>. QED
  BY <1>1, <1>2, <1>3, <1>4, <1>5 DEF scoreRisk

LEMMA MultiplierType == ASSUME NEW words PROVE getSectorMultiplier(words) \in Nat
<1>. DEFINE found == {k \in DOMAIN SectorMultipliers : SectorMultipliers[k][1] \in words}
<1>1. DOMAIN SectorMultipliers = 1..24
  BY DEF SectorMultipliers
<1>2. \A k \in 1..24 : SectorMultipliers[k][2] \in Nat
  BY DEF SectorMultipliers
<1>3. ASSUME found # {} PROVE Min(found) \in 1..24
  <2>1. found \subseteq 1..24
    BY <1>1
  <2>2. Min(found) \in found
    BY <2>1, <1>3, LeastOf
  <2>. QED
    BY <2>1, <2>2
<1>. QED
  BY <1>2, <1>3 DEF getSectorMultiplier

LEMMA TargetType == ASSUME NEW p \in Metrics PROVE calibrateRiskPipeline(p).targets.final \in Nat
<1>1. p.activityCount \in Nat /\ p.durationDays \in Nat /\ p.capex \in Nat
  BY DEF Metrics
<1>2. calculateComplexity(p) \in Int
  <2>1. getSectorMultiplier(p.sector) \in Nat
    BY MultiplierType
  <2>2. \A a, b \in Int : b > 0 => RoundDiv(a, b) \in Int
    BY DEF RoundDiv
  <2>3. /\ Least(2500, 5 * p.activityCount) \in Int /\ Least(2500, (5 * p.durationDays) \div 3) \in Int
        /\ Least(2500, p.capex \div 2) \in Int
    BY <1>1 DEF Least
  <2>. DEFINE bonus == IF p.activityCount > 1000 THEN 1000 ELSE IF p.activityCount > 500 THEN 500 ELSE 0
              all == Least(2500, 5 * p.activityCount) + Least(2500, (5 * p.durationDays) \div 3) + Least(2500, p.capex \div 2)
                     + bonus
  <2>4. all * getSectorMultiplier(p.sector) \in Int
    BY <2>1, <2>3
  <2>5. RoundDiv(all * getSectorMultiplier(p.sector), 10000) \in Int
    BY <2>4, <2>2
  <2>. QED
    BY <2>5, LeastType DEF calculateComplexity
<1>. DEFINE score == calculateComplexity(p)
            mega == IF p.capex > 1000 THEN 25 ELSE IF p.capex > 500 THEN 15 ELSE 0
            critical == IF isCriticalSector(p.sector) THEN 15 ELSE 0
            sum == baseRisks + RoundDiv(score * maxRisks * 80, 10000) + mega + critical
<1>3. sum \in Int
  <2>1. score * maxRisks * 80 \in Int
    BY <1>2, PipelineAssumption
  <2>2. RoundDiv(score * maxRisks * 80, 10000) \in Int
    BY <2>1 DEF RoundDiv
  <2>. QED
    BY <2>2, PipelineAssumption
<1>4. Least(maxRisks, Most(baseRisks, sum)) \in Nat
  BY <1>3, PipelineAssumption DEF Least, Most
<1>. QED
  BY <1>4 DEF calibrateRiskPipeline, calculateTargets

-----------------------------------------------------------------------------
(* The inductive invariant. *)

PipeStages == {"generating", "clustering", "selecting", "validating", "done", "fallback", "single shot", "failed"}
Heads == {mergeClusters(J) : J \in (SUBSET DOMAIN Candidates) \ {{}}}

\* What has been looked at was selected, unless it was deferred or not worth it.
LookedAt ==
    \A k \in 1..looked :
        \/ k \in Range(selected)
        \/ /\ merged[k].score > 100 => k \in Range(deferredRisks)
           /\ merged[k].risk.type \in Calibration.requiredTypes => merged[k].risk.type \in CoveredTypes

\* The risks that are validated have their positions for ids.
NumberedRisks ==
    /\ \E n \in Nat : DOMAIN synthesis.risks = 1..n
    /\ \A k \in DOMAIN synthesis.risks :
          /\ synthesis.risks[k].risk.id = k
          /\ [synthesis.risks[k].risk EXCEPT !.confidence = 1000].id = k

PipelineInv ==
    /\ pipeCase \in PipeCases /\ pipeStage \in PipeStages
    /\ merged \in Seq(Heads)
    /\ looked \in Nat /\ looked <= Len(merged)
    /\ pipeStage \in {"generating", "clustering"} => looked = 0 /\ selected = <<>> /\ deferredRisks = <<>>
    /\ selected \in Seq(1..looked) /\ deferredRisks \in Seq(1..looked)
    /\ Len(selected) <= Target
    /\ LookedAt
    /\ pipeStage = "validating" => NumberedRisks
    /\ ConfidentRisksSurvive /\ SelectionUsesItsRoom

LEMMA CaseFacts ==
    ASSUME pipeCase \in PipeCases
    PROVE  /\ Target \in Nat
           /\ Candidates \in Seq(Candidate)
           /\ Len(Candidates) \in Nat /\ DOMAIN Candidates = 1..Len(Candidates)
           /\ \A j \in DOMAIN Candidates : Candidates[j] \in Candidate /\ scoreRisk(Candidates[j]) \in Int
<1>1. pipeCase.project \in Metrics /\ Candidates \in Seq(Candidate)
  BY PipelineAssumption DEF Candidates
<1>2. Target \in Nat
  BY <1>1, TargetType DEF Target, Calibration
<1>3. Len(Candidates) \in Nat /\ DOMAIN Candidates = 1..Len(Candidates)
  BY <1>1, LenProperties
<1>4. ASSUME NEW j \in DOMAIN Candidates PROVE Candidates[j] \in Candidate
  BY <1>1, <1>3, ElementOfSeq
<1>. QED
  BY <1>1, <1>2, <1>3, <1>4, ScoreType

\* A merged risk is one of the candidates, with more mitigations perhaps.
LEMMA HeadFacts ==
    ASSUME pipeCase \in PipeCases, NEW m \in Heads
    PROVE  /\ m.score \in Int
           /\ \A v : /\ [m.risk EXCEPT !.id = v].id = v
                    /\ [m.risk EXCEPT !.id = v].type = m.risk.type
                    /\ [[m.risk EXCEPT !.id = v] EXCEPT !.confidence = 1000].id = v
<1>1. PICK J \in (SUBSET DOMAIN Candidates) \ {{}} : m = mergeClusters(J)
  BY DEF Heads
<1>. DEFINE keys == [j \in J |-> scoreRisk(Candidates[j])]
            order == Ranked(J, keys)
            best == Candidates[order[1]]
            a == MergedMitigations(order)
            b == MergedIndicators(order)
            c == UNION {Candidates[j].categories : j \in J}
<1>2. Len(Candidates) \in Nat /\ J \subseteq 1..Len(Candidates) /\ J \subseteq DOMAIN Candidates /\ J # {}
  BY CaseFacts
<1>3. IsFiniteSet(J) /\ J \subseteq Int
  <2>1. \A n \in Nat : IsFiniteSet(1..n) /\ 1..n \subseteq Int
    BY IntervalFacts
  <2>. QED
    BY <1>2, <2>1, FS_Subset
<1>4. keys \in [J -> Int]
  BY <1>2, CaseFacts
<1>5. order \in [1..Cardinality(J) -> J] /\ Cardinality(J) \in Nat
  BY <1>3, <1>4, RankedLists
<1>6. 1 \in 1..Cardinality(J)
  BY <1>2, <1>3, <1>5, FS_EmptySet
<1>7. order[1] \in DOMAIN Candidates
  BY <1>2, <1>5, <1>6
<1>8. best \in Candidate /\ scoreRisk(best) \in Int
  BY <1>7, CaseFacts
<1>9. m = [score |-> scoreRisk(best),
           risk |-> IF Cardinality(J) = 1 THEN best
                    ELSE [best EXCEPT !.mitigations = a, !.indicators = b, !.categories = c]]
  BY <1>1 DEF mergeClusters
<1>10. m.score \in Int
  BY <1>8, <1>9
<1>11. m.risk = best \/ m.risk = [best EXCEPT !.mitigations = a, !.indicators = b, !.categories = c]
  BY <1>9
<1>. HIDE DEF best, a, b, c
<1>12. "id" \in DOMAIN m.risk /\ "type" \in DOMAIN m.risk /\ m.risk = [x \in DOMAIN m.risk |-> m.risk[x]]
  BY <1>8, <1>11 DEF Candidate
<1>. QED
  BY <1>10, <1>12

-----------------------------------------------------------------------------
(* Selection. *)

LEMMA UptoFacts ==
    ASSUME NEW S, NEW seq \in Seq(S), NEW k \in Nat
    PROVE  /\ Upto(seq, k) \in Seq(S)
           /\ Len(Upto(seq, k)) = Least(k, Len(seq))
           /\ Len(seq) <= k => Upto(seq, k) = seq
<1>1. Len(seq) \in Nat
  BY LenProperties
<1>2. Least(k, Len(seq)) \in 0..Len(seq)
  BY <1>1 DEF Least
<1>3. \A i \in 1..Least(k, Len(seq)) : seq[i] \in S
  BY <1>1, <1>2, ElementOfSeq
<1>4. Upto(seq, k) \in Seq(S) /\ Len(Upto(seq, k)) = Least(k, Len(seq))
  BY <1>1, <1>2, <1>3, SubSeqProperties DEF Upto
<1>5. ASSUME Len(seq) <= k PROVE Upto(seq, k) = seq
  <2>1. Least(k, Len(seq)) = Len(seq)
    BY <1>1, <1>5 DEF Least
  <2>. QED
    BY <2>1, SubSeqFull DEF Upto
<1>. QED
  BY <1>4, <1>5

\* When the selection ends, what was chosen is one sequence of merged risks,
\* no longer than the target, and shorter only if everything deferred is in it.
LEMMA ChosenFacts ==
    ASSUME PipelineInv, pipeStage = "selecting", ~Looking
    PROVE  /\ selected \o Fill \in Seq(1..looked)
           /\ Len(selected \o Fill) \in Nat /\ Len(selected \o Fill) <= Target
           /\ DOMAIN (selected \o Fill) = 1..Len(selected \o Fill)
           /\ Range(selected \o Fill) = Range(selected) \cup Range(Fill)
           /\ Len(selected \o Fill) < Target => looked = Len(merged) /\ Fill = deferredRisks
<1>1. Target \in Nat /\ Len(selected) \in Nat /\ Len(deferredRisks) \in Nat /\ Len(merged) \in Nat
  BY CaseFacts, LenProperties DEF PipelineInv
<1>2. Target - Len(selected) \in Nat
  BY <1>1 DEF PipelineInv
<1>3. /\ Fill \in Seq(1..looked) /\ Len(Fill) = Least(Target - Len(selected), Len(deferredRisks))
      /\ Len(deferredRisks) <= Target - Len(selected) => Fill = deferredRisks
  BY <1>2, UptoFacts DEF Fill, PipelineInv
<1>4. selected \o Fill \in Seq(1..looked) /\ Len(selected \o Fill) = Len(selected) + Len(Fill)
  BY <1>3, ConcatProperties DEF PipelineInv
<1>5. Len(selected \o Fill) \in Nat /\ Len(selected \o Fill) <= Target
  BY <1>1, <1>3, <1>4 DEF Least
<1>6. ASSUME Len(selected \o Fill) < Target PROVE looked = Len(merged) /\ Fill = deferredRisks
  <2>1. Len(selected) < Target
    BY <1>1, <1>3, <1>4, <1>6 DEF Least
  <2>2. Len(deferredRisks) <= Target - Len(selected)
    BY <1>1, <1>3, <1>4, <1>6 DEF Least
  <2>3. ~(looked < Len(merged))
    BY <2>1 DEF Looking
  <2>. QED
    BY <1>1, <1>3, <2>2, <2>3 DEF PipelineInv
<1>7. Range(selected \o Fill) = Range(selected) \cup Range(Fill)
  <2>1. /\ DOMAIN selected = 1..Len(selected) /\ DOMAIN Fill = 1..Len(Fill) /\ Len(Fill) \in Nat
        /\ DOMAIN (selected \o Fill) = 1..(Len(selected) + Len(Fill))
    BY <1>3, <1>4, LenProperties DEF PipelineInv
  <2>2. \A i \in 1..(Len(selected) + Len(Fill)) :
            (selected \o Fill)[i] = IF i <= Len(selected) THEN selected[i] ELSE Fill[i - Len(selected)]
    BY <1>3, ConcatProperties DEF PipelineInv
  <2>3. ASSUME NEW x \in Range(selected \o Fill) PROVE x \in Range(selected) \cup Range(Fill)
    <3>1. PICK i \in 1..(Len(selected) + Len(Fill)) : x = (selected \o Fill)[i]
      BY <2>1 DEF Range
    <3>2. CASE i <= Len(selected)
      BY <1>1, <2>1, <2>2, <3>1, <3>2 DEF Range
    <3>3. CASE ~(i <= Len(selected))
      <4>1. i - Len(selected) \in 1..Len(Fill)
        BY <1>1, <2>1, <3>3
      <4>. QED
        BY <2>1, <2>2, <3>1, <3>3, <4>1 DEF Range
    <3>. QED
      BY <3>2, <3>3
  <2>4. ASSUME NEW x \in Range(selected) PROVE x \in Range(selected \o Fill)
    <3>1. PICK i \in 1..Len(selected) : x = selected[i]
      BY <2>1 DEF Range
    <3>2. i \in 1..(Len(selected) + Len(Fill)) /\ (selected \o Fill)[i] = x
      BY <1>1, <2>1, <2>2, <3>1
    <3>. QED
      BY <2>1, <3>2 DEF Range
  <2>5. ASSUME NEW x \in Range(Fill) PROVE x \in Range(selected \o Fill)
    <3>1. PICK i \in 1..Len(Fill) : x = Fill[i]
      BY <2>1 DEF Range
    <3>2. i + Len(selected) \in 1..(Len(selected) + Len(Fill)) /\ ~(i + Len(selected) <= Len(selected))
          /\ (i + Len(selected)) - Len(selected) = i
      BY <1>1, <2>1
    <3>3. (selected \o Fill)[i + Len(selected)] = x
      BY <2>2, <3>1, <3>2
    <3>. QED
      BY <2>1, <3>2, <3>3 DEF Range
  <2>. QED
    BY <2>3, <2>4, <2>5
<1>8. DOMAIN (selected \o Fill) = 1..Len(selected \o Fill)
  BY <1>4, LenProperties
<1>. QED
  BY <1>4, <1>5, <1>6, <1>7, <1>8

LEMMA MergedFacts ==
    ASSUME PipelineInv, NEW k \in 1..looked
    PROVE  k \in 1..Len(merged) /\ k \in DOMAIN merged /\ merged[k] \in Heads /\ merged[k] \in Range(merged)
<1>1. Len(merged) \in Nat /\ DOMAIN merged = 1..Len(merged)
  BY LenProperties DEF PipelineInv
<1>2. k \in 1..Len(merged)
  BY <1>1 DEF PipelineInv
<1>3. merged[k] \in Heads
  BY <1>2, ElementOfSeq DEF PipelineInv
<1>. QED
  BY <1>1, <1>2, <1>3 DEF Range

\* What is synthesised: numbered from one, and short of its target only if
\* nothing of worth was left.
LEMMA SynthesisFacts ==
    ASSUME PipelineInv, pipeStage = "selecting", ~Looking, NEW s, s = Synthesised
    PROVE  /\ \E n \in Nat : DOMAIN s.risks = 1..n
           /\ \A k \in DOMAIN s.risks : /\ s.risks[k].risk.id = k
                                        /\ [s.risks[k].risk EXCEPT !.confidence = 1000].id = k
           /\ Len(s.risks) <= Target
           /\ Len(s.risks) < Target =>
                 \A m \in Range(merged) :
                    /\ m.score > 100 => m.risk.id \in {r.originalId : r \in Range(s.risks)}
                    /\ m.risk.type \in Calibration.requiredTypes => m.risk.type \in {r.risk.type : r \in Range(s.risks)}
<1>. DEFINE chosen == selected \o Fill
            n == Len(chosen)
            new(k) == [merged[chosen[k]].risk EXCEPT !.id = k]
            risk(k) == [risk |-> new(k), originalId |-> merged[chosen[k]].risk.id]
<1>1. /\ chosen \in Seq(1..looked) /\ n \in Nat /\ n <= Target /\ DOMAIN chosen = 1..n
      /\ Range(chosen) = Range(selected) \cup Range(Fill)
      /\ n < Target => looked = Len(merged) /\ Fill = deferredRisks
  BY ChosenFacts
<1>2. s.risks = [k \in 1..n |-> risk(k)]
  BY <1>1 DEF Synthesised, NumberedAnew
<1>3. \A k \in 1..n : chosen[k] \in 1..looked
  BY <1>1, ElementOfSeq
<1>4. ASSUME NEW k \in 1..n
      PROVE  new(k).id = k /\ new(k).type = merged[chosen[k]].risk.type /\ [new(k) EXCEPT !.confidence = 1000].id = k
  <2>1. merged[chosen[k]] \in Heads
    BY <1>3, MergedFacts
  <2>2. pipeCase \in PipeCases
    BY DEF PipelineInv
  <2>. HIDE DEF chosen
  <2>. QED
    BY <2>1, <2>2, HeadFacts
<1>5. DOMAIN s.risks = 1..n /\ Len(s.risks) = n
  <2>. HIDE DEF risk, chosen, n
  <2>1. s.risks \in Seq(Range(s.risks)) /\ DOMAIN s.risks = 1..n
    BY <1>1, <1>2 DEF Range
  <2>. QED
    BY <1>1, <1>2
<1>9. ASSUME NEW k \in 1..n
      PROVE  s.risks[k].risk = new(k) /\ s.risks[k].originalId = merged[chosen[k]].risk.id
  <2>1. s.risks[k] = risk(k)
    BY <1>2
  <2>. HIDE DEF new
  <2>2. risk(k).risk = new(k) /\ risk(k).originalId = merged[chosen[k]].risk.id
    OBVIOUS
  <2>. HIDE DEF risk
  <2>. QED
    BY <2>1, <2>2
<1>6. ASSUME NEW z \in Range(selected) \cup Range(Fill)
      PROVE  /\ merged[z].risk.id \in {r.originalId : r \in Range(s.risks)}
             /\ merged[z].risk.type \in {r.risk.type : r \in Range(s.risks)}
  <2>1. PICK k \in 1..n : chosen[k] = z
    BY <1>1 DEF Range
  <2>2. s.risks[k] \in Range(s.risks)
    BY <1>5 DEF Range
  <2>. HIDE DEF new, risk, chosen, n
  <2>3. s.risks[k].originalId = merged[z].risk.id /\ s.risks[k].risk.type = merged[z].risk.type
    BY <2>1, <1>9, <1>4
  <2>. QED
    BY <2>2, <2>3
<1>7. ASSUME n < Target, NEW m \in Range(merged)
      PROVE  /\ m.score > 100 => m.risk.id \in {r.originalId : r \in Range(s.risks)}
             /\ m.risk.type \in Calibration.requiredTypes => m.risk.type \in {r.risk.type : r \in Range(s.risks)}
  <2>1. looked = Len(merged) /\ Fill = deferredRisks
    BY <1>1, <1>7
  <2>2. PICK k \in 1..looked : m = merged[k]
    BY <2>1, LenProperties DEF PipelineInv, Range
  <2>3. CASE k \in Range(selected)
    BY <2>2, <2>3, <1>6
  <2>4. CASE /\ m.score > 100 => k \in Range(deferredRisks)
             /\ m.risk.type \in Calibration.requiredTypes => m.risk.type \in CoveredTypes
    <3>1. ASSUME m.score > 100 PROVE m.risk.id \in {r.originalId : r \in Range(s.risks)}
      BY <2>1, <2>2, <2>4, <3>1, <1>6
    <3>2. ASSUME m.risk.type \in Calibration.requiredTypes PROVE m.risk.type \in {r.risk.type : r \in Range(s.risks)}
      <4>1. PICK z \in Range(selected) : m.risk.type = merged[z].risk.type
        BY <2>4, <3>2 DEF CoveredTypes
      <4>. QED
        BY <4>1, <1>6
    <3>. QED
      BY <3>1, <3>2
  <2>. QED
    BY <2>2, <2>3, <2>4 DEF PipelineInv, LookedAt
<1>. HIDE DEF new, risk, chosen, n
<1>8. \A k \in DOMAIN s.risks : /\ s.risks[k].risk.id = k
                                /\ [s.risks[k].risk EXCEPT !.confidence = 1000].id = k
  BY <1>9, <1>4, <1>5
<1>. QED
  BY <1>1, <1>5, <1>7, <1>8

-----------------------------------------------------------------------------
(* Validation. *)

LEMMA PlainSurvive ==
    ASSUME NEW s, NEW r \in Range(s.risks)
    PROVE  \E f \in Range(Plain(s)) : f.id = r.risk.id
<1>1. PICK k \in DOMAIN s.risks : r = s.risks[k]
  BY DEF Range
<1>2. Plain(s)[k] = r.risk /\ k \in DOMAIN Plain(s)
  BY <1>1 DEF Plain
<1>. QED
  BY <1>2 DEF Range

\* What is discarded was asked about, so it is borderline.
LEMMA AnswerSurvives ==
    ASSUME NumberedRisks,
           NEW ids \in SUBSET {synthesis.risks[k].risk.id : k \in ToValidate(synthesis)},
           NEW says \in [ids -> {"keep", "discard", "enhance"}],
           NEW r \in Range(synthesis.risks), r.originalId \notin synthesis.borderline \cup {NoId}
    PROVE  \E f \in Range(Validated(synthesis, says)) : f.id = r.risk.id
<1>. DEFINE D == DOMAIN synthesis.risks
            kept == {k \in D : ~(synthesis.risks[k].risk.id \in DOMAIN says /\ says[synthesis.risks[k].risk.id] = "discard")}
            keys == [k \in kept |-> 0]
            order == Ranked(kept, keys)
<1>1. PICK n \in Nat : D = 1..n
  BY DEF NumberedRisks
<1>2. PICK k \in D : r = synthesis.risks[k]
  BY DEF Range
<1>3. r.risk.id = k /\ [r.risk EXCEPT !.confidence = 1000].id = k
  BY <1>2 DEF NumberedRisks
<1>4. k \notin DOMAIN says
  <2>1. SUFFICES ASSUME k \in ids PROVE FALSE
    OBVIOUS
  <2>2. PICK j \in ToValidate(synthesis) : k = synthesis.risks[j].risk.id
    BY <2>1
  <2>3. j \in D /\ KnownAs(synthesis.risks[j]) \in synthesis.borderline
    BY DEF ToValidate, FirstOf
  <2>4. j = k
    BY <2>2, <2>3 DEF NumberedRisks
  <2>. QED
    BY <2>3, <2>4, <1>2 DEF KnownAs
<1>5. k \in kept
  BY <1>2, <1>3, <1>4
<1>6. IsFiniteSet(kept) /\ kept \subseteq Int
  <2>1. IsFiniteSet(1..n) /\ 1..n \subseteq Int
    BY IntervalFacts, Zenon
  <2>2. kept \subseteq 1..n
    BY <1>1
  <2>. QED
    BY <2>1, <2>2, FS_Subset
<1>7. PICK p \in 1..Cardinality(kept) : order[p] = k
  <2>1. keys \in [kept -> Int]
    OBVIOUS
  <2>. HIDE DEF kept, keys
  <2>. QED
    BY <1>5, <1>6, <2>1, RankedLists
<1>8. DOMAIN order = 1..Cardinality(kept)
  BY DEF Ranked
<1>9. Validated(synthesis, says) = [q \in DOMAIN order |-> Enhanced(synthesis.risks[order[q]].risk, says)]
  BY DEF Validated
<1>10. p \in DOMAIN Validated(synthesis, says) /\ Validated(synthesis, says)[p] = Enhanced(r.risk, says)
  BY <1>2, <1>7, <1>8, <1>9
<1>11. Enhanced(r.risk, says).id = k
  BY <1>3 DEF Enhanced
<1>. QED
  BY <1>3, <1>10, <1>11 DEF Range

-----------------------------------------------------------------------------
(* The steps. *)

LEMMA PipelineStart == PipelineInit => PipelineInv
<1>. SUFFICES ASSUME PipelineInit PROVE PipelineInv
  OBVIOUS
<1>1. Target \in Nat
  BY CaseFacts DEF PipelineInit
<1>2. merged \in Seq(Heads) /\ selected \in Seq(1..looked) /\ deferredRisks \in Seq(1..looked)
      /\ Len(merged) = 0 /\ Len(selected) = 0
  BY DEF PipelineInit
<1>. QED
  BY <1>1, <1>2 DEF PipelineInit, PipelineInv, PipeStages, LookedAt, ConfidentRisksSurvive, SelectionUsesItsRoom

\* While the case and what has been worked out stay, so does what is said of it.
LEMMA WorkStays ==
    ASSUME PipelineInv, UNCHANGED <<pipeCase, working>>, pipeStage' \in PipeStages,
           pipeStage' \in {"generating", "clustering"} => pipeStage \in {"generating", "clustering"}
    PROVE  /\ (pipeCase \in PipeCases)' /\ (pipeStage \in PipeStages)'
           /\ (merged \in Seq(Heads))'
           /\ (looked \in Nat /\ looked <= Len(merged))'
           /\ (pipeStage \in {"generating", "clustering"} => looked = 0 /\ selected = <<>> /\ deferredRisks = <<>>)'
           /\ (selected \in Seq(1..looked) /\ deferredRisks \in Seq(1..looked))'
           /\ (Len(selected) <= Target)' /\ LookedAt'
           /\ Calibration' = Calibration /\ Target' = Target /\ Candidates' = Candidates /\ merged' = merged
<1>1. Calibration' = Calibration /\ Target' = Target /\ Candidates' = Candidates
  BY DEF Calibration, Target, Candidates
<1>2. Heads' = Heads
  BY <1>1 DEF Heads, mergeClusters, MergedMitigations, MergedIndicators
<1>3. LookedAt' = LookedAt
  BY <1>1 DEF LookedAt, CoveredTypes, working
<1>. QED
  BY <1>1, <1>2, <1>3 DEF PipelineInv, working

LEMMA GeneratedKeeps == PipelineInv /\ Generated => PipelineInv'
<1>. SUFFICES ASSUME PipelineInv, Generated PROVE PipelineInv'
  OBVIOUS
<1>1. CASE Calibration.depth = "LIGHT"
  <2>1. pipeStage' = "done" /\ pipeRegister' = Plain(synthesis') /\ UNCHANGED <<pipeCase, working>>
    BY <1>1 DEF Generated
  <2>2. ConfidentRisksSurvive'
    BY <2>1, PlainSurvive DEF ConfidentRisksSurvive
  <2>3. SelectionUsesItsRoom'
    BY <1>1, <2>1, WorkStays DEF SelectionUsesItsRoom, PipeStages
  <2>. QED
    BY <2>1, <2>2, <2>3, WorkStays DEF PipelineInv, PipeStages
<1>2. CASE Calibration.depth # "LIGHT"
  <2>1. pipeStage = "generating" /\ pipeStage' = "clustering" /\ UNCHANGED <<pipeCase, working>>
    BY <1>2 DEF Generated
  <2>. QED
    BY <2>1, WorkStays DEF PipelineInv, PipeStages, ConfidentRisksSurvive, SelectionUsesItsRoom
<1>. QED
  BY <1>1, <1>2

LEMMA ClusterKeeps == PipelineInv /\ Cluster => PipelineInv'
<1>. SUFFICES ASSUME PipelineInv, Cluster PROVE PipelineInv'
  OBVIOUS
<1>. DEFINE cluster == {j \in Left : j = Min(Left) \/ Similar(Candidates[Min(Left)], Candidates[j])}
<1>1. /\ pipeStage = "clustering" /\ Left # {} /\ merged' = Append(merged, mergeClusters(cluster))
      /\ UNCHANGED <<pipeCase, pipeStage, looked, selected, deferredRisks, synthesis, pipeRegister>>
  BY DEF Cluster
<1>2. Min(Left) \in Left
  <2>1. Left \subseteq Nat
    BY CaseFacts DEF Left, PipelineInv
  <2>. QED
    BY <1>1, <2>1, LeastOf
<1>3. mergeClusters(cluster) \in Heads
  <2>1. cluster \in (SUBSET DOMAIN Candidates) \ {{}}
    BY <1>2 DEF Left
  <2>. QED
    BY <2>1 DEF Heads
<1>4. merged' \in Seq(Heads) /\ Len(merged') = Len(merged) + 1
  <2>. HIDE DEF cluster
  <2>. QED
    BY <1>1, <1>3 DEF PipelineInv
<1>5. Calibration' = Calibration /\ Target' = Target /\ Candidates' = Candidates
  BY <1>1 DEF Calibration, Target, Candidates
<1>6. Heads' = Heads
  BY <1>5 DEF Heads, mergeClusters, MergedMitigations, MergedIndicators
<1>7. looked = 0 /\ selected = <<>> /\ deferredRisks = <<>> /\ Len(merged) \in Nat
  BY <1>1, LenProperties DEF PipelineInv
<1>8. LookedAt'
  BY <1>1, <1>7 DEF LookedAt
<1>. QED
  BY <1>1, <1>4, <1>5, <1>6, <1>7, <1>8 DEF PipelineInv, ConfidentRisksSurvive, SelectionUsesItsRoom

LEMMA SortKeeps == PipelineInv /\ SortMerged => PipelineInv'
<1>. SUFFICES ASSUME PipelineInv, SortMerged PROVE PipelineInv'
  OBVIOUS
<1>. DEFINE keys == [k \in DOMAIN merged |-> merged[k].score]
<1>1. /\ pipeStage = "clustering" /\ pipeStage' = "selecting"
      /\ merged' = [k \in DOMAIN merged |-> merged[Ranked(DOMAIN merged, keys)[k]]]
      /\ UNCHANGED <<pipeCase, assigned, looked, selected, deferredRisks, synthesis, pipeRegister>>
  BY DEF SortMerged, Descending
<1>2. keys \in [DOMAIN merged -> Int]
  <2>1. \A k \in DOMAIN merged : merged[k] \in Heads
    BY LenProperties, ElementOfSeq DEF PipelineInv
  <2>. QED
    BY <2>1, HeadFacts DEF PipelineInv
<1>3. merged' \in Seq(Heads)
  <2>. HIDE DEF keys
  <2>. QED
    BY <1>1, <1>2, SortedType DEF PipelineInv
<1>4. Calibration' = Calibration /\ Target' = Target /\ Candidates' = Candidates
  BY <1>1 DEF Calibration, Target, Candidates
<1>5. Heads' = Heads
  BY <1>4 DEF Heads, mergeClusters, MergedMitigations, MergedIndicators
<1>6. looked = 0 /\ selected = <<>> /\ deferredRisks = <<>> /\ Len(merged') \in Nat
  BY <1>1, <1>3, LenProperties DEF PipelineInv
<1>7. LookedAt'
  BY <1>1, <1>6 DEF LookedAt
<1>. QED
  BY <1>1, <1>3, <1>4, <1>5, <1>6, <1>7 DEF PipelineInv, PipeStages, ConfidentRisksSurvive, SelectionUsesItsRoom

LEMMA LookKeeps == PipelineInv /\ Look => PipelineInv'
<1>. SUFFICES ASSUME PipelineInv, Look PROVE PipelineInv'
  OBVIOUS
<1>. DEFINE k == looked + 1
            required == Calibration.requiredTypes
            takes == Adjusted(merged[k].score, merged[k].risk) >= qualityThreshold
                     \/ merged[k].risk.type \in required \ CoveredTypes
<1>1. /\ pipeStage = "selecting" /\ looked < Len(merged) /\ Len(selected) < Target
      /\ looked' = k
      /\ UNCHANGED <<pipeCase, pipeStage, assigned, merged, synthesis, pipeRegister>>
  BY DEF Look, Looking
<1>2. /\ takes => selected' = Append(selected, k) /\ deferredRisks' = deferredRisks
      /\ ~takes => /\ selected' = selected
                   /\ deferredRisks' = IF merged[k].score > 100 THEN Append(deferredRisks, k) ELSE deferredRisks
  BY DEF Look, WorthDeferring
<1>3. /\ looked \in Nat /\ Len(merged) \in Nat /\ Target \in Nat /\ Len(selected) \in Nat
      /\ k \in Nat /\ k <= Len(merged) /\ 1..looked \subseteq 1..k /\ k \in 1..k
  BY <1>1, CaseFacts, LenProperties DEF PipelineInv
<1>4. Calibration' = Calibration /\ Target' = Target /\ Candidates' = Candidates
  BY <1>1 DEF Calibration, Target, Candidates
<1>5. Heads' = Heads
  BY <1>4 DEF Heads, mergeClusters, MergedMitigations, MergedIndicators
<1>6. selected \in Seq(1..k) /\ deferredRisks \in Seq(1..k)
  BY <1>3, SeqMonotonic DEF PipelineInv
<1>. HIDE DEF takes
<1>7. /\ selected' \in Seq(1..k) /\ deferredRisks' \in Seq(1..k) /\ Len(selected') <= Target
      /\ Range(selected) \subseteq Range(selected') /\ Range(deferredRisks) \subseteq Range(deferredRisks')
      /\ takes => k \in Range(selected')
      /\ ~takes /\ merged[k].score > 100 => k \in Range(deferredRisks')
  <2>1. ASSUME NEW q \in Seq(1..k)
        PROVE  /\ Append(q, k) \in Seq(1..k) /\ Len(Append(q, k)) = Len(q) + 1
               /\ Range(q) \subseteq Range(Append(q, k)) /\ k \in Range(Append(q, k))
    <3>. HIDE DEF k
    <3>1. Append(q, k) \in Seq(1..k) /\ Len(Append(q, k)) = Len(q) + 1 /\ Len(q) \in Nat
      BY <1>3, LenProperties
    <3>2. DOMAIN q = 1..Len(q) /\ DOMAIN Append(q, k) = 1..(Len(q) + 1)
      BY <3>1, LenProperties
    <3>3. \A i \in 1..Len(q) : Append(q, k)[i] = q[i]
      BY <3>1
    <3>4. Append(q, k)[Len(q) + 1] = k
      BY <3>1
    <3>5. 1..Len(q) \subseteq 1..(Len(q) + 1) /\ Len(q) + 1 \in 1..(Len(q) + 1)
      BY <3>1
    <3>. QED
      BY <3>1, <3>2, <3>3, <3>4, <3>5 DEF Range
  <2>. HIDE DEF k
  <2>. HIDE DEF required
  <2>4. Len(selected) + 1 <= Target /\ Len(selected) <= Target
    BY <1>1, <1>3
  <2>2. CASE takes
    <3>1. selected' = Append(selected, k) /\ deferredRisks' = deferredRisks
      BY <1>2, <2>2
    <3>2. /\ Append(selected, k) \in Seq(1..k) /\ Len(Append(selected, k)) = Len(selected) + 1
          /\ Range(selected) \subseteq Range(Append(selected, k)) /\ k \in Range(Append(selected, k))
      BY <1>6, <2>1
    <3>. QED
      BY <1>6, <2>2, <2>4, <3>1, <3>2, Zenon
  <2>3. CASE ~takes
    <3>1. /\ selected' = selected
          /\ deferredRisks' = IF merged[k].score > 100 THEN Append(deferredRisks, k) ELSE deferredRisks
      BY <1>2, <2>3
    <3>2. /\ Append(deferredRisks, k) \in Seq(1..k)
          /\ Range(deferredRisks) \subseteq Range(Append(deferredRisks, k)) /\ k \in Range(Append(deferredRisks, k))
      BY <1>6, <2>1
    <3>3. CASE merged[k].score > 100
      <4>1. deferredRisks' = Append(deferredRisks, k)
        BY <3>1, <3>3
      <4>. QED
        BY <1>6, <2>3, <2>4, <3>1, <3>2, <4>1, Zenon
    <3>4. CASE ~(merged[k].score > 100)
      <4>1. deferredRisks' = deferredRisks
        BY <3>1, <3>4
      <4>. QED
        BY <1>6, <2>3, <2>4, <3>1, <3>4, <4>1, Zenon
    <3>. QED
      BY <3>3, <3>4
  <2>. QED
    BY <2>2, <2>3
<1>8. CoveredTypes \subseteq CoveredTypes' /\ (takes => merged[k].risk.type \in CoveredTypes')
  BY <1>1, <1>7 DEF CoveredTypes
<1>9. ~takes /\ merged[k].risk.type \in required => merged[k].risk.type \in CoveredTypes
  BY DEF takes
<1>10. LookedAt'
  <2>. SUFFICES ASSUME NEW i \in 1..k
                PROVE  \/ i \in Range(selected')
                       \/ /\ merged[i].score > 100 => i \in Range(deferredRisks')
                          /\ merged[i].risk.type \in required => merged[i].risk.type \in CoveredTypes'
    BY <1>1, <1>4 DEF LookedAt
  <2>1. CASE i \in 1..looked
    BY <1>7, <1>8, <2>1 DEF PipelineInv, LookedAt
  <2>2. CASE i = k
    BY <1>7, <1>8, <1>9, <2>2
  <2>. QED
    BY <1>3, <2>1, <2>2
<1>. QED
  BY <1>1, <1>3, <1>4, <1>5, <1>7, <1>10 DEF PipelineInv, ConfidentRisksSurvive, SelectionUsesItsRoom

LEMMA SelectKeeps == PipelineInv /\ Select => PipelineInv'
<1>. SUFFICES ASSUME PipelineInv, Select PROVE PipelineInv'
  OBVIOUS
<1>1. /\ pipeStage = "selecting" /\ ~Looking /\ synthesis' = Synthesised /\ UNCHANGED <<pipeCase, working>>
      /\ \/ pipeStage' = "validating"
         \/ pipeStage' = "done" /\ pipeRegister' = Plain(synthesis')
  BY DEF Select
<1>2. /\ \E n \in Nat : DOMAIN synthesis'.risks = 1..n
      /\ \A k \in DOMAIN synthesis'.risks : /\ synthesis'.risks[k].risk.id = k
                                            /\ [synthesis'.risks[k].risk EXCEPT !.confidence = 1000].id = k
      /\ Len(synthesis'.risks) <= Target
      /\ Len(synthesis'.risks) < Target =>
            \A m \in Range(merged) :
               /\ m.score > 100 => m.risk.id \in {r.originalId : r \in Range(synthesis'.risks)}
               /\ m.risk.type \in Calibration.requiredTypes =>
                      m.risk.type \in {r.risk.type : r \in Range(synthesis'.risks)}
  BY <1>1, SynthesisFacts
<1>3. NumberedRisks'
  BY <1>2 DEF NumberedRisks
<1>4. ConfidentRisksSurvive'
  BY <1>1, PlainSurvive DEF ConfidentRisksSurvive
<1>5. pipeStage' \in PipeStages \ {"generating", "clustering"}
  BY <1>1 DEF PipeStages
<1>6. Calibration' = Calibration /\ Target' = Target /\ merged' = merged
  BY <1>1, <1>5, WorkStays
<1>7. SelectionUsesItsRoom'
  BY <1>2, <1>6 DEF SelectionUsesItsRoom
<1>. QED
  BY <1>1, <1>3, <1>4, <1>5, <1>7, WorkStays DEF PipelineInv

\* Validation, whatever it answers, leaves the selection as it was.
LEMMA ValidatedKeeps ==
    ASSUME PipelineInv, pipeStage = "validating", pipeStage' = "done", UNCHANGED <<pipeCase, working, synthesis>>,
           \A r \in Range(synthesis.risks) :
               r.originalId \notin synthesis.borderline \cup {NoId} => \E f \in Range(pipeRegister') : f.id = r.risk.id
    PROVE  PipelineInv'
<1>1. pipeStage' \in PipeStages \ {"generating", "clustering"}
  BY DEF PipeStages
<1>2. ConfidentRisksSurvive'
  BY DEF ConfidentRisksSurvive
<1>3. SelectionUsesItsRoom'
  BY <1>1, WorkStays DEF PipelineInv, SelectionUsesItsRoom
<1>. QED
  BY <1>1, <1>2, <1>3, WorkStays DEF PipelineInv

LEMMA FallbackKeeps ==
    ASSUME PipelineInv, UNCHANGED <<pipeCase, working, synthesis>>, pipeStage' \in {"fallback", "single shot", "failed"}
    PROVE  PipelineInv'
<1>1. pipeStage' \in PipeStages \ {"generating", "clustering"}
  BY DEF PipeStages
<1>. QED
  BY <1>1, WorkStays DEF PipelineInv, ConfidentRisksSurvive, SelectionUsesItsRoom

LEMMA PipelineStep == PipelineInv /\ [PipelineNext]_pipeVars => PipelineInv'
<1>. SUFFICES ASSUME PipelineInv, [PipelineNext]_pipeVars PROVE PipelineInv'
  OBVIOUS
<1>1. CASE Generated
  BY <1>1, GeneratedKeeps
<1>2. CASE Cluster
  BY <1>2, ClusterKeeps
<1>3. CASE SortMerged
  BY <1>3, SortKeeps
<1>4. CASE Look
  BY <1>4, LookKeeps
<1>5. CASE Select
  BY <1>5, SelectKeeps
<1>6. CASE GenerationFails
  BY <1>6, FallbackKeeps DEF GenerationFails
<1>7. CASE ValidationAnswers
  <2>1. pipeStage = "validating" /\ pipeStage' = "done" /\ UNCHANGED <<pipeCase, working, synthesis>>
    BY <1>7 DEF ValidationAnswers
  <2>2. PICK ids \in SUBSET {synthesis.risks[k].risk.id : k \in ToValidate(synthesis)} :
             \E says \in [ids -> {"keep", "discard", "enhance"}] : pipeRegister' = Validated(synthesis, says)
    BY <1>7 DEF ValidationAnswers
  <2>3. PICK says \in [ids -> {"keep", "discard", "enhance"}] : pipeRegister' = Validated(synthesis, says)
    BY <2>2
  <2>4. NumberedRisks
    BY <2>1 DEF PipelineInv
  <2>5. \A r \in Range(synthesis.risks) :
            r.originalId \notin synthesis.borderline \cup {NoId} => \E f \in Range(pipeRegister') : f.id = r.risk.id
    BY <2>3, <2>4, AnswerSurvives
  <2>. QED
    BY <2>1, <2>5, ValidatedKeeps
<1>8. CASE ValidationFails
  BY <1>8, PlainSurvive, ValidatedKeeps DEF ValidationFails
<1>9. CASE FallbackAnswers
  BY <1>9, FallbackKeeps DEF FallbackAnswers
<1>10. CASE FallbackFails
  BY <1>10, FallbackKeeps DEF FallbackFails
<1>11. CASE UNCHANGED pipeVars
  <2>1. pipeStage' \in PipeStages /\ UNCHANGED <<pipeCase, working>> /\ UNCHANGED <<pipeStage, synthesis, pipeRegister>>
    BY <1>11 DEF pipeVars, PipelineInv
  <2>2. NumberedRisks' = NumberedRisks
    BY <2>1 DEF NumberedRisks
  <2>3. ConfidentRisksSurvive' = ConfidentRisksSurvive
    BY <2>1 DEF ConfidentRisksSurvive
  <2>4. SelectionUsesItsRoom'
    BY <2>1, WorkStays DEF PipelineInv, SelectionUsesItsRoom
  <2>. QED
    BY <2>1, <2>2, <2>3, <2>4, WorkStays DEF PipelineInv
<1>. QED
  BY <1>1, <1>2, <1>3, <1>4, <1>5, <1>6, <1>7, <1>8, <1>9, <1>10, <1>11 DEF PipelineNext

-----------------------------------------------------------------------------
(* Theorems *)

LEMMA PipelineInvariance == PipelineSpec => []PipelineInv
BY PipelineStart, PipelineStep, PTL DEF PipelineSpec

\* Of the risks that came with an id, validation takes away only what selection
\* had found borderline, whatever the service says of however many risks.
THEOREM ConfidentRisksAlwaysSurvive == PipelineSpec => []ConfidentRisksSurvive
<1>1. PipelineInv => ConfidentRisksSurvive
  BY DEF PipelineInv
<1>. QED
  BY <1>1, PipelineInvariance, PTL

\* Selection never passes its target and leaves out nothing of worth while it
\* has room, for any candidates and any metrics.
THEOREM RoomIsUsed == PipelineSpec => []SelectionUsesItsRoom
<1>1. PipelineInv => SelectionUsesItsRoom
  BY DEF PipelineInv
<1>. QED
  BY <1>1, PipelineInvariance, PTL

-----------------------------------------------------------------------------
(* GroupCosts: the tables, and what is written to them. *)

\* A table is a record of amounts, whatever its values.
CBSFields == {"hours", "rate", "quantity", "unitCost", "days", "dayRate", "percentage", "labor", "material", "equipment",
              "subcontracts", "indirect", "total"}
IsTable(cbs) == DOMAIN cbs = CBSFields /\ cbs = [f \in CBSFields |-> cbs[f]]

\* The total is that of the amounts in the table it is written to.
LEMMA TotalWritten ==
    ASSUME NEW cbs, IsTable(cbs)
    PROVE  /\ IsTable(WithTotal(cbs))
           /\ WithTotal(cbs).total = DirectCost(WithTotal(cbs)) + WithTotal(cbs).indirect
           /\ WithTotal(cbs).labor = cbs.labor /\ WithTotal(cbs).material = cbs.material
BY DEF IsTable, CBSFields, WithTotal, DirectCost

\* A table that is inferred or edited is still a table.
LEMMA InferredIsTable == ASSUME NEW activities PROVE IsTable(inferCBSFromActivities(activities))
<1>1. ASSUME NEW a, NEW b, NEW c, NEW d, NEW e, NEW f, NEW g, NEW h
      PROVE  IsTable([hours |-> a, rate |-> 75, quantity |-> b, unitCost |-> 100, days |-> c, dayRate |-> 500, percentage |-> 10,
                      labor |-> d, material |-> e, equipment |-> f, subcontracts |-> g, indirect |-> h, total |-> 0])
  BY DEF IsTable, CBSFields
<1>2. ASSUME NEW cbs, IsTable(cbs), NEW v PROVE IsTable([cbs EXCEPT !.indirect = v])
  BY <1>2 DEF IsTable, CBSFields
<1>. DEFINE days(kind) == MapThenSumSet(LAMBDA k : IF activities[k].kind = kind THEN activities[k].duration ELSE 0, DOMAIN activities)
            count(kind) == Cardinality({k \in DOMAIN activities : activities[k].kind = kind})
            hours == 8 * days("install") + 4 * days("other")
            direct == [hours |-> hours, rate |-> 75, quantity |-> count("material"), unitCost |-> 100,
                       days |-> days("equipment"), dayRate |-> 500, percentage |-> 10,
                       labor |-> 75 * hours, material |-> count("material") * 100 * 100, equipment |-> 500 * days("equipment"),
                       subcontracts |-> 10000 * count("subcontract"), indirect |-> 0, total |-> 0]
<1>3. inferCBSFromActivities(activities) = WithTotal([direct EXCEPT !.indirect = Overhead(direct)])
  BY Zenon DEF inferCBSFromActivities
<1>. HIDE DEF days, count, hours
<1>4. IsTable(direct)
  BY <1>1
<1>. HIDE DEF direct
<1>. QED
  BY <1>2, <1>3, <1>4, TotalWritten

LEMMA EditedIsTable == ASSUME NEW cbs, IsTable(cbs), NEW field, NEW v PROVE IsTable(Edited(cbs, field, v))
<1>1. ASSUME NEW c, IsTable(c), NEW f, NEW w PROVE IsTable([c EXCEPT ![f] = w])
  <2>1. [c EXCEPT ![f] = w] = [x \in CBSFields |-> IF x = f THEN w ELSE c[x]]
    BY <1>1 DEF IsTable
  <2>. QED
    BY <2>1 DEF IsTable
<1>2. ASSUME NEW c, IsTable(c) PROVE IsTable(Recalculated(c))
  <2>1. IsTable([c EXCEPT !.labor = c.hours * c.rate, !.material = c.quantity * c.unitCost, !.equipment = c.days * c.dayRate])
    BY <1>2 DEF IsTable, CBSFields
  <2>. QED
    BY <2>1, <1>1, TotalWritten DEF Recalculated
<1>. QED
  BY <1>1, <1>2 DEF Edited

\* A field that is written changes no other.
LEMMA FieldWritten ==
    ASSUME NEW c, IsTable(c), NEW f \in CBSFields, NEW v
    PROVE  LET q == [c EXCEPT ![f] = v] IN IsTable(q) /\ q[f] = v /\ \A g \in CBSFields : g # f => q[g] = c[g]
<1>1. [c EXCEPT ![f] = v] = [x \in CBSFields |-> IF x = f THEN v ELSE c[x]]
  BY DEF IsTable
<1>. QED
  BY <1>1 DEF IsTable

\* What an estimate says of a category is written to that category alone.
LEMMA LaborTaken ==
    ASSUME NEW cbs, IsTable(cbs), NEW b
    PROVE  IsTable(Labored(cbs, b)) /\ ("labor" \in DOMAIN b => Labored(cbs, b).labor = b.labor.amount)
<1>. DEFINE c1 == [cbs EXCEPT !.hours = b.labor.count]
            c2 == [c1 EXCEPT !.rate = OrDefault(b.labor.rate, 75)]
            c3 == [c2 EXCEPT !.labor = b.labor.amount]
<1>1. IsTable(c1)
  BY FieldWritten DEF CBSFields
<1>. HIDE DEF c1
<1>2. IsTable(c2)
  BY <1>1, FieldWritten DEF CBSFields
<1>. HIDE DEF c2
<1>3. IsTable(c3) /\ c3.labor = b.labor.amount
  BY <1>2, FieldWritten DEF CBSFields
<1>4. Labored(cbs, b) = IF "labor" \in DOMAIN b THEN c3 ELSE cbs
  BY Zenon DEF Labored, c1, c2
<1>. HIDE DEF c3
<1>. QED
  BY <1>3, <1>4

LEMMA MaterialTaken ==
    ASSUME NEW cbs, IsTable(cbs), NEW b
    PROVE  IsTable(Supplied(cbs, b)) /\ Supplied(cbs, b).labor = cbs.labor /\ ("material" \in DOMAIN b => Supplied(cbs, b).material = b.material.amount)
<1>. DEFINE c1 == [cbs EXCEPT !.quantity = b.material.count]
            c2 == [c1 EXCEPT !.unitCost = OrDefault(b.material.rate, 100)]
            c3 == [c2 EXCEPT !.material = b.material.amount]
<1>1. IsTable(c1) /\ c1.labor = cbs.labor
  BY FieldWritten DEF CBSFields
<1>. HIDE DEF c1
<1>2. IsTable(c2) /\ c2.labor = cbs.labor
  BY <1>1, FieldWritten DEF CBSFields
<1>. HIDE DEF c2
<1>3. IsTable(c3) /\ c3.labor = cbs.labor /\ c3.material = b.material.amount
  BY <1>2, FieldWritten DEF CBSFields
<1>4. Supplied(cbs, b) = IF "material" \in DOMAIN b THEN c3 ELSE cbs
  BY Zenon DEF Supplied, c1, c2
<1>. HIDE DEF c3
<1>. QED
  BY <1>3, <1>4

LEMMA EquipmentTaken ==
    ASSUME NEW cbs, IsTable(cbs), NEW b
    PROVE  IsTable(Equipped(cbs, b)) /\ Equipped(cbs, b).labor = cbs.labor /\ Equipped(cbs, b).material = cbs.material
<1>. DEFINE c1 == [cbs EXCEPT !.days = b.equipment.count]
            c2 == [c1 EXCEPT !.dayRate = OrDefault(b.equipment.rate, 500)]
            c3 == [c2 EXCEPT !.equipment = b.equipment.amount]
<1>1. IsTable(c1) /\ c1.labor = cbs.labor /\ c1.material = cbs.material
  BY FieldWritten DEF CBSFields
<1>. HIDE DEF c1
<1>2. IsTable(c2) /\ c2.labor = cbs.labor /\ c2.material = cbs.material
  BY <1>1, FieldWritten DEF CBSFields
<1>. HIDE DEF c2
<1>3. IsTable(c3) /\ c3.labor = cbs.labor /\ c3.material = cbs.material
  BY <1>2, FieldWritten DEF CBSFields
<1>4. Equipped(cbs, b) = IF "equipment" \in DOMAIN b THEN c3 ELSE cbs
  BY Zenon DEF Equipped, c1, c2
<1>. HIDE DEF c3
<1>. QED
  BY <1>3, <1>4

\* An estimate leaves a table, with its amounts and the total of all.
LEMMA EstimateWritten ==
    ASSUME NEW cbs, IsTable(cbs), NEW b
    PROVE  /\ IsTable(WithEstimate(cbs, b))
           /\ Taken(WithEstimate(cbs, b), b)
           /\ WithEstimate(cbs, b).total = DirectCost(WithEstimate(cbs, b)) + WithEstimate(cbs, b).indirect
<1>. DEFINE t1 == Labored(cbs, b)
            t2 == Supplied(t1, b)
            t3 == Equipped(t2, b)
            t4 == Subcontracted(t3, b)
            t5 == Overheaded(t4, b)
<1>1. IsTable(t1) /\ ("labor" \in DOMAIN b => t1.labor = b.labor.amount)
  BY LaborTaken
<1>. HIDE DEF t1
<1>2. IsTable(t2) /\ t2.labor = t1.labor /\ ("material" \in DOMAIN b => t2.material = b.material.amount)
  BY <1>1, MaterialTaken
<1>. HIDE DEF t2
<1>3. IsTable(t3) /\ t3.labor = t2.labor /\ t3.material = t2.material
  BY <1>2, EquipmentTaken
<1>. HIDE DEF t3
<1>4. IsTable(t4) /\ t4.labor = t3.labor /\ t4.material = t3.material
  BY <1>3, FieldWritten DEF Subcontracted, CBSFields
<1>. HIDE DEF t4
<1>5. IsTable(t5) /\ t5.labor = t4.labor /\ t5.material = t4.material
  <2>. DEFINE c == [t4 EXCEPT !.percentage = OrDefault(b.indirect.rate, 10)]
  <2>1. IsTable(c) /\ c.labor = t4.labor /\ c.material = t4.material
    BY <1>4, FieldWritten DEF CBSFields
  <2>2. t5 = IF "indirect" \in DOMAIN b THEN [c EXCEPT !.indirect = b.indirect.amount] ELSE t4
    BY Zenon DEF Overheaded
  <2>. HIDE DEF c, t5
  <2>. QED
    BY <1>4, <2>1, <2>2, FieldWritten DEF CBSFields
<1>. HIDE DEF t5
<1>6. WithEstimate(cbs, b) = WithTotal(t5)
  BY DEF WithEstimate, t1, t2, t3, t4, t5
<1>. QED
  BY <1>1, <1>2, <1>3, <1>4, <1>5, <1>6, TotalWritten DEF Taken

-----------------------------------------------------------------------------
(* GroupCosts: groups and batches. *)

\* The groups of a tab are finitely many, and no two have one table.
LEMMA GroupFacts ==
    ASSUME NEW t \in CostTabs
    PROVE  /\ WorkGroups(t) \subseteq Nat /\ IsFiniteSet(WorkGroups(t)) /\ Size(t) \in Nat
           /\ \A i, h \in WorkGroups(t) : KeyOf(t, i) = KeyOf(t, h) => i = h
<1>1. WorkGroups(t) \subseteq DOMAIN TabGroups[t] /\ DOMAIN TabGroups[t] \subseteq Nat /\ IsFiniteSet(DOMAIN TabGroups[t])
  BY CostsAssumption DEF WorkGroups
<1>2. IsFiniteSet(WorkGroups(t))
  BY <1>1, FS_Subset
<1>3. Size(t) \in Nat
  BY <1>2, FS_CardinalityType DEF Size
<1>4. ASSUME NEW i \in WorkGroups(t), NEW h \in WorkGroups(t), KeyOf(t, i) = KeyOf(t, h) PROVE i = h
  <2>1. TabGroups[t][i].group = TabGroups[t][h].group
    BY <1>4 DEF KeyOf
  <2>. QED
    BY <1>1, <2>1, CostsAssumption
<1>. QED
  BY <1>1, <1>2, <1>3, <1>4

\* The group an estimate goes to has the id of the one it was asked for.
LEMMA FirstWithId ==
    ASSUME NEW t \in CostTabs, NEW i \in WorkGroups(t)
    PROVE  /\ GroupFor(t, IdOf(t, i)) \in WorkGroups(t)
           /\ IdOf(t, GroupFor(t, IdOf(t, i))) = IdOf(t, i)
<1>. DEFINE same == {h \in WorkGroups(t) : IdOf(t, h) = IdOf(t, i)}
<1>1. same \subseteq Nat /\ i \in same
  BY GroupFacts
<1>2. Min(same) \in same
  BY <1>1, LeastOf
<1>. QED
  BY <1>2 DEF GroupFor

\* Each work group is in one of the batches.
LEMMA BatchOfGroup ==
    ASSUME NEW t \in CostTabs, NEW i \in WorkGroups(t)
    PROVE  \E n \in 1..Batches(t) : i \in Batch(t, n)
<1>. DEFINE p == Place(t, i)
            n == p \div COST_BATCH + 1
<1>1. p \in Nat /\ p < Size(t) /\ Size(t) \in Nat /\ COST_BATCH \in Nat /\ COST_BATCH > 0
  <2>1. {h \in WorkGroups(t) : h < i} \subseteq WorkGroups(t) \ {i} /\ IsFiniteSet(WorkGroups(t) \ {i})
        /\ Cardinality(WorkGroups(t) \ {i}) = Size(t) - 1 /\ Size(t) \in Nat
    BY GroupFacts, FS_RemoveElement DEF Size
  <2>2. p \in Nat /\ p <= Size(t) - 1
    BY <2>1, FS_Subset, FS_CardinalityType DEF Place
  <2>. QED
    BY <2>1, <2>2, CostsAssumption
<1>2. CASE ~AsksInBatches(t)
  BY <1>2 DEF Batches, Batch
<1>3. CASE AsksInBatches(t)
  <2>1. ASSUME NEW a \in Nat, NEW c \in Nat, c > 0
        PROVE  a \div c \in Nat /\ (a \div c) * c <= a /\ a < (a \div c + 1) * c
    BY <2>1
  <2>. DEFINE last == (Size(t) + COST_BATCH - 1) \div COST_BATCH
  <2>2. n \in Nat /\ n >= 1 /\ (n - 1) * COST_BATCH <= p /\ p < n * COST_BATCH
    <3>1. p \div COST_BATCH \in Nat /\ (p \div COST_BATCH) * COST_BATCH <= p /\ p < (p \div COST_BATCH + 1) * COST_BATCH
      BY <1>1, <2>1
    <3>. QED
      BY <3>1
  <2>3. last \in Nat /\ Size(t) + COST_BATCH - 1 < (last + 1) * COST_BATCH
    <3>1. Size(t) + COST_BATCH - 1 \in Nat
      BY <1>1
    <3>. QED
      BY <1>1, <3>1, <2>1
  <2>4. n <= last
    <3>. DEFINE q == p \div COST_BATCH
    <3>1. q \in Nat /\ q * COST_BATCH <= p
      BY <1>1, <2>1
    <3>. HIDE DEF q, last
    <3>2. Size(t) <= last * COST_BATCH
      BY <1>1, <2>3
    <3>3. q * COST_BATCH < last * COST_BATCH
      <4>1. q * COST_BATCH \in Nat /\ last * COST_BATCH \in Nat
        BY <1>1, <2>3, <3>1
      <4>. HIDE DEF p
      <4>. QED
        BY <1>1, <3>1, <3>2, <4>1
    <3>4. q < last
      BY <1>1, <2>3, <3>1, <3>3
    <3>5. q + 1 <= last
      BY <2>3, <3>1, <3>4
    <3>. QED
      BY <3>5 DEF q
  <2>. HIDE DEF n, last
  <2>5. i \in Batch(t, n)
    BY <2>2 DEF Batch
  <2>6. n \in 1..Batches(t)
    BY <1>3, <2>2, <2>3, <2>4 DEF Batches, last
  <2>. QED
    BY <2>5, <2>6
<1>. QED
  BY <1>2, <1>3

-----------------------------------------------------------------------------
(* GroupCosts: the inductive invariant. *)

LiveStates == {"asking", "reading", "backoff", "pause"}
CostStates == LiveStates \cup {"idle", "failed", "done"}
CostJob == [state : CostStates, tab : CostTabs \cup {"none"}, drawn : Nat, batch : Nat,
            attempt : Nat, lists : Nat, got : SUBSET Nat]

\* The groups of a tab that the service estimates, and those of the first n batches.
Estimable(t) == {i \in WorkGroups(t) : IdOf(t, i) \in DOMAIN EstimateOf}
AnsweredBy(t, n) == {i \in Estimable(t) : \E m \in 1..n : i \in Batch(t, m)}

\* A job that has a list for each batch behind it has all estimates of those.
JobOK(job) ==
    job.state \in LiveStates =>
        /\ job.tab \in CostTabs /\ job.batch \in 1..Batches(job.tab) /\ job.lists < job.batch
        /\ job.got \subseteq Estimable(job.tab)
        /\ job.lists = job.batch - 1 => job.got = AnsweredBy(job.tab, job.lists)

TablesInv ==
    /\ groupCBSData = [k \in DOMAIN groupCBSData |-> groupCBSData[k]]
    /\ \A k \in DOMAIN groupCBSData : IsTable(groupCBSData[k])
    /\ DOMAIN costValue \subseteq DOMAIN groupCBSData
ShownInv ==
    /\ shownTab \in CostTabs \cup {"none"}
    /\ shownTab # "none" => DOMAIN costValue = TablesOf(shownTab)
    /\ shownTab = "none" => ~costButton /\ DOMAIN costValue = {} /\ \A j \in DOMAIN jobs : jobs[j].state = "idle"
CostsInv ==
    /\ jobs \in [1..MaxJobs -> CostJob] /\ shows \in Nat
    /\ \A j \in DOMAIN jobs : JobOK(jobs[j])
    /\ TablesInv /\ ShownInv

-----------------------------------------------------------------------------
(* GroupCosts: how a job's record is written. *)

Moved(job, s, batch, attempt) == [[[job EXCEPT !.state = s] EXCEPT !.batch = batch] EXCEPT !.attempt = attempt]
Filled(job, lists, got) == [[job EXCEPT !.lists = lists] EXCEPT !.got = got]

LEMMA JobMoved ==
    ASSUME NEW job \in CostJob, NEW s \in CostStates, NEW batch \in Nat, NEW attempt \in Nat,
           NEW q, q = Moved(job, s, batch, attempt)
    PROVE  q \in CostJob /\ q.state = s /\ q.batch = batch /\ q.tab = job.tab /\ q.lists = job.lists /\ q.got = job.got
BY DEF CostJob, Moved

LEMMA JobFilled ==
    ASSUME NEW job \in CostJob, NEW lists \in Nat, NEW got \in SUBSET Nat, NEW q, q = Filled(job, lists, got)
    PROVE  q \in CostJob /\ q.state = job.state /\ q.batch = job.batch /\ q.tab = job.tab /\ q.lists = lists /\ q.got = got
BY DEF CostJob, Filled

Begun(t, d) == [[[[NoJob EXCEPT !.state = "asking"] EXCEPT !.tab = t] EXCEPT !.drawn = d] EXCEPT !.batch = 1]

LEMMA JobBegun ==
    ASSUME NEW t \in CostTabs, NEW d \in Nat, NEW q, q = Begun(t, d)
    PROVE  q \in CostJob /\ q.state = "asking" /\ q.tab = t /\ q.batch = 1 /\ q.lists = 0 /\ q.got = {}
<1>1. NoJob \in CostJob /\ NoJob.lists = 0 /\ NoJob.got = {}
  BY DEF NoJob, CostJob, CostStates
<1>. DEFINE half == [[NoJob EXCEPT !.state = "asking"] EXCEPT !.tab = t]
<1>2. half \in CostJob /\ half.lists = 0 /\ half.got = {} /\ half.state = "asking" /\ half.tab = t
  BY <1>1 DEF CostJob, CostStates, LiveStates
<1>3. ASSUME NEW h \in CostJob, NEW r, r = [[h EXCEPT !.drawn = d] EXCEPT !.batch = 1]
      PROVE  r \in CostJob /\ r.state = h.state /\ r.tab = h.tab /\ r.batch = 1 /\ r.lists = h.lists /\ r.got = h.got
  BY <1>3 DEF CostJob
<1>4. q = [[half EXCEPT !.drawn = d] EXCEPT !.batch = 1]
  BY DEF Begun
<1>. HIDE DEF half
<1>. QED
  BY <1>2, <1>3, <1>4

LEMMA JobPauses ==
    ASSUME CostsInv, NEW j \in DOMAIN jobs, NEW lists, NEW got, NextBatch(j, lists, got)
    PROVE  jobs' = [jobs EXCEPT ![j] = Filled(Moved(jobs[j], "pause", jobs[j].batch + 1, 0), lists, got)]
<1>. jobs \in [1..MaxJobs -> CostJob]
  BY DEF CostsInv
<1>. QED
  BY DEF NextBatch, Filled, Moved

LEMMA JobFinishes ==
    ASSUME CostsInv, NEW j \in DOMAIN jobs, NEW lists, NEW got, Finish(j, lists, got)
    PROVE  jobs' = [jobs EXCEPT ![j] = Filled(Moved(jobs[j], "done", jobs[j].batch, jobs[j].attempt), lists, got)]
<1>1. jobs \in [1..MaxJobs -> CostJob] /\ jobs[j] \in CostJob
  BY DEF CostsInv
<1>2. jobs' = [jobs EXCEPT ![j] = Filled([jobs[j] EXCEPT !.state = "done"], lists, got)]
  BY <1>1 DEF Finish, Filled
<1>3. Moved(jobs[j], "done", jobs[j].batch, jobs[j].attempt) = [jobs[j] EXCEPT !.state = "done"]
  BY <1>1 DEF Moved, CostJob
<1>. QED
  BY <1>2, <1>3

-----------------------------------------------------------------------------
(* GroupCosts: each action keeps the invariant. *)

LEMMA CostStart == CostInit => CostsInv
<1>. SUFFICES ASSUME CostInit PROVE CostsInv
  OBVIOUS
<1>1. NoJob \in CostJob /\ JobOK(NoJob) /\ NoJob.state = "idle"
  BY DEF NoJob, CostJob, CostStates, JobOK, LiveStates
<1>2. groupCBSData = <<>> /\ costValue = <<>> /\ DOMAIN groupCBSData = {} /\ DOMAIN costValue = {}
  BY DEF CostInit
<1>3. TablesInv
  BY <1>2 DEF TablesInv
<1>. QED
  BY <1>1, <1>2, <1>3 DEF CostInit, CostsInv, ShownInv

\* A job that goes on, while the page stays on its tab and the tables are tables.
LEMMA JobGoesOn ==
    ASSUME CostsInv, NEW j \in DOMAIN jobs, NEW job \in CostJob, JobOK(job), jobs' = [jobs EXCEPT ![j] = job],
           shownTab' = shownTab, shows' = shows, shownTab # "none", DOMAIN costValue' = DOMAIN costValue, TablesInv'
    PROVE  CostsInv'
<1>1. jobs' \in [1..MaxJobs -> CostJob] /\ \A i \in DOMAIN jobs' : JobOK(jobs'[i])
  BY DEF CostsInv
<1>2. ShownInv'
  BY DEF CostsInv, ShownInv, TablesOf, WorkGroups, KeyOf
<1>. QED
  BY <1>1, <1>2 DEF CostsInv

LEMMA JobFacts ==
    ASSUME CostsInv, NEW j \in DOMAIN jobs
    PROVE  /\ jobs[j] \in CostJob /\ JobOK(jobs[j])
           /\ jobs[j].state # "idle" => shownTab # "none" /\ shownTab \in CostTabs
BY DEF CostsInv, ShownInv

LEMMA ShowCostTabKeeps == CostsInv /\ (\E t \in CostTabs : ShowCostTab(t)) => CostsInv'
<1>. SUFFICES ASSUME CostsInv, NEW t \in CostTabs, ShowCostTab(t) PROVE CostsInv'
  OBVIOUS
<1>1. /\ shows' = shows + 1 /\ shownTab' = t /\ jobs' = jobs
      /\ groupCBSData' = [k \in TablesOf(t) \cup DOMAIN groupCBSData |->
                            IF k \in TablesOf(t) THEN InferredTables(t)[k] ELSE groupCBSData[k]]
      /\ costValue' = [k \in TablesOf(t) |-> Hidden]
  BY DEF ShowCostTab
<1>2. \A k \in TablesOf(t) : IsTable(InferredTables(t)[k])
  BY InferredIsTable DEF InferredTables
<1>3. DOMAIN groupCBSData' = TablesOf(t) \cup DOMAIN groupCBSData /\ DOMAIN costValue' = TablesOf(t)
  BY <1>1
<1>4. \A k \in DOMAIN groupCBSData' : IsTable(groupCBSData'[k])
  BY <1>1, <1>2, <1>3 DEF CostsInv, TablesInv
<1>5. TablesInv'
  BY <1>1, <1>3, <1>4 DEF TablesInv
<1>6. ShownInv'
  BY <1>1, <1>3, CostsAssumption DEF ShownInv, TablesOf, WorkGroups, KeyOf
<1>. QED
  BY <1>1, <1>5, <1>6 DEF CostsInv

LEMMA EditCostKeeps ==
    CostsInv /\ (\E k \in DOMAIN costValue, f \in EditableFields, v \in EditedValues : EditCost(k, f, v)) => CostsInv'
<1>. SUFFICES ASSUME CostsInv, NEW k \in DOMAIN costValue, NEW f, NEW v, EditCost(k, f, v) PROVE CostsInv'
  OBVIOUS
<1>1. /\ groupCBSData' = [groupCBSData EXCEPT ![k] = Edited(groupCBSData[k], f, v)]
      /\ DOMAIN costValue' = DOMAIN costValue /\ UNCHANGED <<shownTab, jobs, costButton, shows>>
  BY DEF EditCost
<1>2. k \in DOMAIN groupCBSData /\ IsTable(Edited(groupCBSData[k], f, v))
  BY EditedIsTable DEF CostsInv, TablesInv
<1>3. TablesInv'
  BY <1>1, <1>2 DEF CostsInv, TablesInv
<1>4. ShownInv'
  BY <1>1 DEF CostsInv, ShownInv, TablesOf, WorkGroups, KeyOf
<1>. QED
  BY <1>1, <1>3, <1>4 DEF CostsInv

LEMMA EstimateCostsKeeps == ASSUME CostsInv, NEW j \in DOMAIN jobs, EstimateCosts(j) PROVE CostsInv'
<1>. DEFINE job == Begun(shownTab, shows)
<1>1. /\ costButton /\ jobs' = [jobs EXCEPT ![j] = job] /\ UNCHANGED <<groupCBSData, costValue, shownTab, shows>>
  BY DEF EstimateCosts, Begun
<1>2. shownTab # "none" /\ shownTab \in CostTabs
  <2>1. shownTab \in CostTabs \cup {"none"} /\ (shownTab = "none" => ~costButton)
    BY Zenon DEF CostsInv, ShownInv
  <2>2. shownTab # "none"
    BY Zenon, <1>1, <2>1
  <2>. QED
    BY <2>1, <2>2
<1>3. job \in CostJob /\ job.tab = shownTab /\ job.batch = 1 /\ job.lists = 0 /\ job.got = {}
  BY <1>2, JobBegun DEF CostsInv
<1>4. 1 \in 1..Batches(shownTab)
  <2>1. \E i \in WorkGroups(shownTab) : TRUE
    BY DEF EstimateCosts
  <2>2. \E n \in 1..Batches(shownTab) : TRUE
    BY <1>2, <2>1, BatchOfGroup
  <2>3. Batches(shownTab) \in Int
    BY <1>2, GroupFacts, CostsAssumption DEF Batches
  <2>. QED
    BY <2>2, <2>3
<1>5. AnsweredBy(shownTab, 0) = {}
  BY DEF AnsweredBy
<1>. HIDE DEF job
<1>6. JobOK(job)
  BY <1>2, <1>3, <1>4, <1>5 DEF JobOK
<1>. QED
  BY <1>1, <1>2, <1>3, <1>6, JobGoesOn DEF CostsInv, TablesInv

\* Headers, failures and pauses change only where a job is, not what it has.
LEMMA AttemptKeeps ==
    ASSUME CostsInv, NEW j \in DOMAIN jobs, Answers(j) \/ AttemptFails(j) \/ AskAgain(j) \/ WholeWithoutList(j)
    PROVE  CostsInv'
<1>1. jobs[j].state \in LiveStates /\ UNCHANGED <<groupCBSData, costValue, shownTab, shows>>
  BY DEF Answers, AttemptFails, AskAgain, WholeWithoutList, LiveStates
<1>2. jobs[j] \in CostJob /\ JobOK(jobs[j]) /\ shownTab # "none"
  BY <1>1, JobFacts DEF LiveStates
<1>3. ASSUME NEW s \in LiveStates \cup {"failed"}, NEW n \in Nat
      PROVE  /\ [jobs[j] EXCEPT !.state = s] \in CostJob /\ JobOK([jobs[j] EXCEPT !.state = s])
             /\ [jobs[j] EXCEPT !.state = s, !.attempt = n] \in CostJob
             /\ JobOK([jobs[j] EXCEPT !.state = s, !.attempt = n])
  BY <1>1, <1>2 DEF CostJob, CostStates, JobOK, LiveStates
<1>4. \E job \in CostJob : JobOK(job) /\ jobs' = [jobs EXCEPT ![j] = job]
  <2>1. jobs[j].attempt + 1 \in Nat
    BY <1>2 DEF CostJob
  <2>2. CASE jobs' = [jobs EXCEPT ![j].state = "backoff", ![j].attempt = @ + 1]
    <3>1. jobs' = [jobs EXCEPT ![j] = [jobs[j] EXCEPT !.state = "backoff", !.attempt = jobs[j].attempt + 1]]
      BY <1>2, <2>2 DEF CostsInv
    <3>. QED
      BY <1>3, <2>1, <3>1 DEF LiveStates
  <2>3. CASE \E s \in LiveStates \cup {"failed"} : jobs' = [jobs EXCEPT ![j] = [jobs[j] EXCEPT !.state = s]]
    BY <1>3, <2>3
  <2>4. \/ jobs' = [jobs EXCEPT ![j].state = "backoff", ![j].attempt = @ + 1]
        \/ \E s \in LiveStates \cup {"failed"} : jobs' = [jobs EXCEPT ![j] = [jobs[j] EXCEPT !.state = s]]
    BY DEF Answers, AttemptFails, AskAgain, WholeWithoutList, LiveStates
  <2>. QED
    BY <2>2, <2>3, <2>4
<1>. QED
  <2>1. PICK job \in CostJob : JobOK(job) /\ jobs' = [jobs EXCEPT ![j] = job]
    BY <1>4
  <2>. QED
    BY <1>1, <1>2, <2>1, JobGoesOn DEF CostsInv, TablesInv

LEMMA TablesEstimated ==
    ASSUME CostsInv, NEW t, NEW got, groupCBSData' = Estimated(t, got), costValue' = ValueShown(t, got)
    PROVE  DOMAIN costValue' = DOMAIN costValue /\ TablesInv'
<1>1. DOMAIN groupCBSData' = DOMAIN groupCBSData /\ DOMAIN costValue' = DOMAIN costValue
      /\ groupCBSData' = [k \in DOMAIN groupCBSData' |-> groupCBSData'[k]]
  BY DEF Estimated, ValueShown
<1>2. \A k \in DOMAIN groupCBSData : IsTable(groupCBSData[k])
  BY DEF CostsInv, TablesInv
<1>3. ASSUME NEW k \in DOMAIN groupCBSData PROVE IsTable(groupCBSData'[k])
  <2>1. \/ groupCBSData'[k] = groupCBSData[k]
        \/ \E b : groupCBSData'[k] = WithEstimate(groupCBSData[k], b)
    BY DEF Estimated
  <2>. QED
    BY <1>2, <2>1, EstimateWritten
<1>. QED
  BY <1>1, <1>3 DEF CostsInv, TablesInv

\* What a batch answers, or does not, is what the job then has of it.
LEMMA ReceivedKeeps ==
    ASSUME CostsInv, NEW j \in DOMAIN jobs, jobs[j].state = "reading", NEW lists \in Nat, NEW got,
           lists <= jobs[j].batch, got \subseteq Estimable(jobs[j].tab),
           lists = jobs[j].batch => got = AnsweredBy(jobs[j].tab, lists), Received(j, lists, got)
    PROVE  CostsInv'
<1>. DEFINE t == jobs[j].tab
<1>1. /\ jobs[j] \in CostJob /\ shownTab # "none" /\ t \in CostTabs /\ jobs[j].batch \in 1..Batches(t)
      /\ Batches(t) \in Int
  <2>1. jobs[j] \in CostJob /\ shownTab # "none" /\ t \in CostTabs /\ jobs[j].batch \in 1..Batches(t)
    BY JobFacts DEF LiveStates, JobOK
  <2>. QED
    BY <2>1, GroupFacts, CostsAssumption DEF Batches
<1>2. got \subseteq Nat
  BY <1>1, GroupFacts DEF Estimable
<1>3. CASE NextBatch(j, lists, got) /\ jobs[j].batch < Batches(t)
  <2>. DEFINE moved == Moved(jobs[j], "pause", jobs[j].batch + 1, 0)
              job == Filled(moved, lists, got)
  <2>1. jobs' = [jobs EXCEPT ![j] = job]
    BY <1>3, JobPauses, Zenon
  <2>7. UNCHANGED <<groupCBSData, costValue, shownTab, shows>>
    BY <1>3 DEF NextBatch
  <2>2. jobs[j].batch + 1 \in 1..Batches(t) /\ lists < jobs[j].batch + 1 /\ jobs[j].batch + 1 \in Nat
        /\ jobs[j].batch + 1 - 1 = jobs[j].batch
    BY <1>1, <1>3
  <2>. HIDE DEF moved
  <2>3. moved \in CostJob /\ moved.batch = jobs[j].batch + 1 /\ moved.tab = t
    <3>1. jobs[j] \in CostJob /\ "pause" \in CostStates /\ jobs[j].batch + 1 \in Nat /\ 0 \in Nat
      BY <1>1, <2>2 DEF CostStates, LiveStates
    <3>. QED
      BY <3>1, JobMoved DEF moved
  <2>. HIDE DEF job
  <2>4. job \in CostJob /\ job.batch = jobs[j].batch + 1 /\ job.tab = t /\ job.lists = lists /\ job.got = got
    BY <1>2, <2>3, JobFilled DEF job
  <2>. HIDE DEF t
  <2>5. JobOK(job)
    BY <1>1, <2>2, <2>4 DEF JobOK, t
  <2>. QED
    BY <1>1, <2>1, <2>4, <2>5, <2>7, JobGoesOn DEF CostsInv, TablesInv
<1>4. CASE Finish(j, lists, got)
  <2>. DEFINE moved == Moved(jobs[j], "done", jobs[j].batch, jobs[j].attempt)
              job == Filled(moved, lists, got)
  <2>1. jobs' = [jobs EXCEPT ![j] = job]
    BY <1>4, JobFinishes, Zenon
  <2>2. UNCHANGED <<shownTab, shows>> /\ groupCBSData' = Estimated(t, got) /\ costValue' = ValueShown(t, got)
    BY <1>4 DEF Finish
  <2>. HIDE DEF moved
  <2>3. moved \in CostJob /\ moved.state = "done"
    <3>1. jobs[j] \in CostJob /\ "done" \in CostStates /\ jobs[j].batch \in Nat /\ jobs[j].attempt \in Nat
      BY <1>1 DEF CostJob, CostStates
    <3>. QED
      BY <3>1, JobMoved DEF moved
  <2>. HIDE DEF job
  <2>4. job \in CostJob /\ job.state = "done"
    BY <1>2, <2>3, JobFilled DEF job
  <2>5. JobOK(job)
    BY <2>4 DEF JobOK, LiveStates
  <2>6. DOMAIN costValue' = DOMAIN costValue /\ TablesInv'
    BY <2>2, TablesEstimated
  <2>. QED
    BY <1>1, <2>1, <2>2, <2>4, <2>5, <2>6, JobGoesOn
<1>. QED
  BY <1>3, <1>4 DEF Received

\* What the first n batches list is what the ones before list, and the last.
LEMMA AnsweredGrows ==
    ASSUME NEW t \in CostTabs, NEW n \in Nat, n > 0
    PROVE  AnsweredBy(t, n) = AnsweredBy(t, n - 1) \cup {i \in Batch(t, n) : IdOf(t, i) \in DOMAIN EstimateOf}
<1>1. 1..n = 1..(n - 1) \cup {n}
  OBVIOUS
<1>2. Batch(t, n) \subseteq WorkGroups(t)
  BY DEF Batch
<1>4. ASSUME NEW i PROVE i \in AnsweredBy(t, n) <=> i \in AnsweredBy(t, n - 1) \/ (i \in Estimable(t) /\ i \in Batch(t, n))
  BY <1>1, Zenon DEF AnsweredBy
<1>5. ASSUME NEW i PROVE i \in Estimable(t) /\ i \in Batch(t, n) <=> i \in {h \in Batch(t, n) : IdOf(t, h) \in DOMAIN EstimateOf}
  BY <1>2 DEF Estimable
<1>. QED
  BY <1>4, <1>5, Zenon

LEMMA AnswerOfBatchKeeps ==
    ASSUME CostsInv, NEW j \in DOMAIN jobs, Estimates(j) \/ BatchWithoutList(j)
    PROVE  CostsInv'
<1>. DEFINE t == jobs[j].tab
            listed == {i \in Batch(t, jobs[j].batch) : IdOf(t, i) \in DOMAIN EstimateOf}
<1>1. jobs[j].state = "reading"
  BY DEF Estimates, BatchWithoutList
<1>2. /\ t \in CostTabs /\ jobs[j].batch \in 1..Batches(t) /\ jobs[j].lists < jobs[j].batch
      /\ jobs[j].got \subseteq Estimable(t)
      /\ jobs[j].lists = jobs[j].batch - 1 => jobs[j].got = AnsweredBy(t, jobs[j].lists)
  BY <1>1, JobFacts DEF JobOK, LiveStates
<1>3. jobs[j].lists \in Nat /\ jobs[j].batch \in Nat
  BY JobFacts DEF CostJob
<1>4. CASE Estimates(j)
  <2>1. Received(j, jobs[j].lists + 1, jobs[j].got \cup listed)
    BY <1>4, Zenon DEF Estimates
  <2>2. listed \subseteq Estimable(t)
    BY DEF Batch, Estimable
  <2>3. jobs[j].lists + 1 \in Nat /\ jobs[j].lists + 1 <= jobs[j].batch /\ jobs[j].batch > 0
    BY <1>2, <1>3
  <2>4. ASSUME jobs[j].lists + 1 = jobs[j].batch PROVE jobs[j].got \cup listed = AnsweredBy(t, jobs[j].lists + 1)
    <3>1. jobs[j].lists = jobs[j].batch - 1
      BY <1>3, <2>4
    <3>. QED
      BY <1>2, <1>3, <2>3, <2>4, <3>1, AnsweredGrows
  <2>. HIDE DEF listed
  <2>5. jobs[j].got \cup listed \subseteq Estimable(t)
    BY <1>2, <2>2
  <2>. QED
    BY <1>1, <2>1, <2>3, <2>4, <2>5, ReceivedKeeps
<1>5. CASE BatchWithoutList(j)
  <2>1. Received(j, jobs[j].lists, jobs[j].got)
    BY <1>5 DEF BatchWithoutList
  <2>2. jobs[j].lists <= jobs[j].batch /\ jobs[j].lists # jobs[j].batch
    BY <1>2, <1>3
  <2>. QED
    BY <1>1, <1>2, <1>3, <2>1, <2>2, ReceivedKeeps
<1>. QED
  BY <1>4, <1>5

LEMMA CostsStep == CostsInv /\ [CostNext]_costVars => CostsInv'
<1>1. ASSUME CostsInv, UNCHANGED costVars PROVE CostsInv'
  <2>1. UNCHANGED <<groupCBSData, costValue, shownTab, jobs, costButton, shows>>
    BY <1>1 DEF costVars
  <2>2. TablesInv' /\ ShownInv'
    BY <1>1, <2>1 DEF CostsInv, TablesInv, ShownInv
  <2>. QED
    BY <1>1, <2>1, <2>2 DEF CostsInv
<1>2. ASSUME CostsInv, CostNext PROVE CostsInv'
  BY <1>2, ShowCostTabKeeps, EditCostKeeps, EstimateCostsKeeps, AttemptKeeps, AnswerOfBatchKeeps DEF CostNext
<1>. QED
  BY <1>1, <1>2

\* Every job under way has the estimates of the batches that were answered with a
\* list, and no others, and the tables shown are those of the tab.
THEOREM CostsInvariance == CostSpec => []CostsInv
BY CostStart, CostsStep, PTL DEF CostSpec

-----------------------------------------------------------------------------
(* What a step does to a job that is under way. *)

LastAnswer(j) ==
    LET t == jobs[j].tab
        listed == {i \in Batch(t, jobs[j].batch) : IdOf(t, i) \in DOMAIN EstimateOf}
    IN  /\ jobs[j].state = "reading" /\ ~(jobs[j].batch < Batches(t))
        /\ \/ Finish(j, jobs[j].lists + 1, jobs[j].got \cup listed)
           \/ Finish(j, jobs[j].lists, jobs[j].got)

\* A job leaves the others as they are.
LEMMA AnswerOfOther ==
    ASSUME CostsInv, NEW j \in DOMAIN jobs, NEW i \in DOMAIN jobs, i # j,
           EstimateCosts(i) \/ Answers(i) \/ AttemptFails(i) \/ AskAgain(i)
             \/ Estimates(i) \/ BatchWithoutList(i) \/ WholeWithoutList(i)
    PROVE  jobs'[j] = jobs[j]
<1>1. jobs = [x \in DOMAIN jobs |-> jobs[x]]
  BY DEF CostsInv
<1>2. ASSUME NEW lists, NEW got, NextBatch(i, lists, got) \/ Finish(i, lists, got) PROVE jobs'[j] = jobs[j]
  BY <1>2, JobPauses, JobFinishes
<1>3. ASSUME NEW lists, NEW got, Received(i, lists, got) PROVE jobs'[j] = jobs[j]
  BY <1>2, <1>3 DEF Received
<1>4. CASE EstimateCosts(i)
  BY <1>1, <1>4 DEF EstimateCosts
<1>5. CASE Answers(i) \/ AttemptFails(i) \/ AskAgain(i) \/ WholeWithoutList(i)
  BY <1>1, <1>5 DEF Answers, AttemptFails, AskAgain, WholeWithoutList
<1>6. CASE Estimates(i) \/ BatchWithoutList(i)
  BY <1>3, <1>6, Zenon DEF Estimates, BatchWithoutList
<1>. QED
  BY <1>4, <1>5, <1>6

\* A job under way stays, goes on without touching the tables, or has its last answer.
LEMMA JobStep ==
    ASSUME CostsInv, CostNext, NEW j \in DOMAIN jobs, Live(j)
    PROVE  \/ jobs'[j] = jobs[j]
           \/ groupCBSData' = groupCBSData /\ jobs'[j].state # "done"
           \/ LastAnswer(j)
<1>1. jobs \in [1..MaxJobs -> CostJob] /\ jobs[j] \in CostJob
  BY DEF CostsInv
<1>2. ASSUME NEW lists, NEW got, NextBatch(j, lists, got)
      PROVE  groupCBSData' = groupCBSData /\ jobs'[j].state # "done"
  BY <1>1, <1>2 DEF NextBatch, CostJob
<1>3. CASE Estimates(j)
  <2>. DEFINE t == jobs[j].tab
              listed == {i \in Batch(t, jobs[j].batch) : IdOf(t, i) \in DOMAIN EstimateOf}
  <2>1. jobs[j].state = "reading" /\ Received(j, jobs[j].lists + 1, jobs[j].got \cup listed)
    BY <1>3, Zenon DEF Estimates
  <2>2. CASE NextBatch(j, jobs[j].lists + 1, jobs[j].got \cup listed)
    BY <1>2, <2>2
  <2>3. CASE ~(jobs[j].batch < Batches(t)) /\ Finish(j, jobs[j].lists + 1, jobs[j].got \cup listed)
    BY <2>1, <2>3, Zenon DEF LastAnswer
  <2>. QED
    BY <2>1, <2>2, <2>3, Zenon DEF Received
<1>4. CASE BatchWithoutList(j)
  <2>1. jobs[j].state = "reading" /\ Received(j, jobs[j].lists, jobs[j].got)
    BY <1>4 DEF BatchWithoutList
  <2>2. CASE NextBatch(j, jobs[j].lists, jobs[j].got)
    BY <1>2, <2>2
  <2>3. CASE ~(jobs[j].batch < Batches(jobs[j].tab)) /\ Finish(j, jobs[j].lists, jobs[j].got)
    BY <2>1, <2>3, Zenon DEF LastAnswer
  <2>. QED
    BY <2>1, <2>2, <2>3, Zenon DEF Received
<1>5. CASE Answers(j) \/ AttemptFails(j) \/ AskAgain(j) \/ WholeWithoutList(j)
  <2>1. groupCBSData' = groupCBSData
    BY <1>5 DEF Answers, AttemptFails, AskAgain, WholeWithoutList
  <2>2. jobs'[j].state \in {"reading", "backoff", "failed", "asking"}
    BY <1>1, <1>5 DEF Answers, AttemptFails, AskAgain, WholeWithoutList, CostJob
  <2>. QED
    BY <2>1, <2>2
<1>6. ~EstimateCosts(j)
  BY DEF EstimateCosts, Live
<1>7. CASE (\E t \in CostTabs : ShowCostTab(t))
             \/ \E k \in DOMAIN costValue, f \in EditableFields, v \in EditedValues : EditCost(k, f, v)
  BY <1>7 DEF ShowCostTab, EditCost
<1>8. CASE \E i \in DOMAIN jobs : \/ EstimateCosts(i) \/ Answers(i) \/ AttemptFails(i) \/ AskAgain(i)
                                 \/ Estimates(i) \/ BatchWithoutList(i) \/ WholeWithoutList(i)
  BY <1>3, <1>4, <1>5, <1>6, <1>8, AnswerOfOther
<1>. QED
  BY <1>7, <1>8, Zenon DEF CostNext

\* The estimates of a tab, all there, written to the tab that is shown.
LEMMA EstimatesReachTheirGroups ==
    ASSUME CostsInv, shownTab \in CostTabs, groupCBSData' = Estimated(shownTab, Estimable(shownTab)),
           costValue' = ValueShown(shownTab, Estimable(shownTab)), NEW i \in WorkGroups(shownTab), OwnId(shownTab, i)
    PROVE  LET k == KeyOf(shownTab, i)
               id == IdOf(shownTab, i)
           IN  IF id \in DOMAIN EstimateOf
               THEN /\ groupCBSData'[k] = WithEstimate(groupCBSData[k], EstimateOf[id].breakdown)
                    /\ costValue'[k] = groupCBSData'[k].total
                    /\ IsTable(groupCBSData[k])
               ELSE groupCBSData'[k] = groupCBSData[k]
<1>. DEFINE t == shownTab
            k == KeyOf(t, i)
            id == IdOf(t, i)
            to(x) == KeyOf(t, GroupFor(t, IdOf(t, x)))
<1>1. k \in DOMAIN groupCBSData /\ k \in DOMAIN costValue /\ IsTable(groupCBSData[k])
  <2>1. k \in TablesOf(t) /\ t # "none"
    BY CostsAssumption DEF TablesOf
  <2>. QED
    BY <2>1 DEF CostsInv, ShownInv, TablesInv
<1>2. ASSUME NEW x \in WorkGroups(t), to(x) = k PROVE IdOf(t, x) = id
  BY <1>2, FirstWithId, GroupFacts
<1>3. to(i) = k
  BY FirstWithId DEF OwnId
<1>4. Estimable(t) \subseteq WorkGroups(t)
  BY DEF Estimable
<1>5. CASE id \in DOMAIN EstimateOf
  <2>1. i \in Estimable(t)
    BY <1>5 DEF Estimable
  <2>2. k \in Receivers(t, Estimable(t))
    BY <1>3, <2>1 DEF Receivers
  <2>. DEFINE x == CHOOSE x \in Estimable(t) : to(x) = k
  <2>3. x \in Estimable(t) /\ to(x) = k
    BY <1>3, <2>1
  <2>4. IdOf(t, x) = id
    BY <1>2, <1>4, <2>3
  <2>5. Estimated(t, Estimable(t))[k] = WithEstimate(groupCBSData[k], EstimateOf[IdOf(t, x)].breakdown)
    BY <1>1, <2>2 DEF Estimated
  <2>6. costValue'[k] = Estimated(t, Estimable(t))[k].total
    BY <1>1, <2>2 DEF ValueShown
  <2>. QED
    BY <1>1, <1>5, <2>4, <2>5, <2>6
<1>6. CASE id \notin DOMAIN EstimateOf
  <2>1. k \notin Receivers(t, Estimable(t))
    BY <1>2, <1>4, <1>6 DEF Receivers, Estimable
  <2>. QED
    BY <1>1, <1>6, <2>1 DEF Estimated
<1>. QED
  BY <1>5, <1>6

\* Each step keeps both halves of the property, for each job.
LEMMA CostsKept ==
    ASSUME CostsInv, CostNext, NEW j \in DOMAIN jobs
    PROVE  NothingBeforeTheLast(j) /\ AllWhenAnswered(j)
<1>. DEFINE t == jobs[j].tab
            listed == {i \in Batch(t, jobs[j].batch) : IdOf(t, i) \in DOMAIN EstimateOf}
<1>1. jobs[j] \in CostJob /\ JobOK(jobs[j])
  BY JobFacts
<1>2. ASSUME NEW lists \in Nat, NEW got \in SUBSET Nat, Finish(j, lists, got)
      PROVE  /\ jobs'[j].state = "done" /\ jobs'[j].tab = t /\ jobs'[j].lists = lists /\ jobs'[j].got = got
             /\ groupCBSData' = Estimated(t, got) /\ costValue' = ValueShown(t, got)
  <2>. DEFINE moved == Moved(jobs[j], "done", jobs[j].batch, jobs[j].attempt)
  <2>1. jobs[j].batch \in Nat /\ jobs[j].attempt \in Nat /\ "done" \in CostStates
    BY <1>1 DEF CostJob, CostStates
  <2>2. jobs'[j] = Filled(moved, lists, got)
    BY <1>2, JobFinishes
  <2>. HIDE DEF moved
  <2>3. moved \in CostJob /\ moved.state = "done" /\ moved.tab = t
    BY <1>1, <2>1, JobMoved DEF moved
  <2>4. jobs'[j].state = "done" /\ jobs'[j].tab = t /\ jobs'[j].lists = lists /\ jobs'[j].got = got
    <3>. HIDE DEF t
    <3>. QED
      BY <2>2, <2>3, JobFilled
  <2>5. groupCBSData' = Estimated(t, got) /\ costValue' = ValueShown(t, got)
    BY <1>2 DEF Finish
  <2>. QED
    BY <2>4, <2>5
<1>3. NothingBeforeTheLast(j)
  <2>. SUFFICES ASSUME Live(j), LastAnswer(j) PROVE jobs'[j].state = "done"
    BY JobStep DEF NothingBeforeTheLast
  <2>. QED
    <3>1. ASSUME NEW lists, NEW got, Finish(j, lists, got) PROVE jobs'[j].state = "done"
      BY <1>1, <3>1 DEF Finish, CostsInv, CostJob
    <3>. QED
      BY <3>1, Zenon DEF LastAnswer
<1>4. AllWhenAnswered(j)
  <2>. SUFFICES ASSUME Live(j), jobs'[j].state = "done", t = shownTab, jobs'[j].lists = Batches(shownTab),
                       NEW i \in WorkGroups(shownTab), OwnId(shownTab, i)
                PROVE  LET k == KeyOf(shownTab, i)
                           id == IdOf(shownTab, i)
                       IN  IF id \in DOMAIN EstimateOf
                           THEN /\ Taken(groupCBSData'[k], EstimateOf[id].breakdown)
                                /\ costValue'[k] = DirectCost(groupCBSData'[k]) + groupCBSData'[k].indirect
                                /\ ExportedRows(j)'[i] = EstimateOf[id].cost
                           ELSE groupCBSData'[k] = groupCBSData[k] /\ ExportedRows(j)'[i] = 0
    BY Zenon DEF AllWhenAnswered
  <2>1. LastAnswer(j)
    BY JobStep DEF Live
  <2>2. /\ t \in CostTabs /\ jobs[j].batch \in 1..Batches(t) /\ jobs[j].lists < jobs[j].batch
        /\ jobs[j].got \subseteq Estimable(t)
        /\ jobs[j].lists = jobs[j].batch - 1 => jobs[j].got = AnsweredBy(t, jobs[j].lists)
    BY <1>1 DEF Live, JobOK, LiveStates
  <2>3. jobs[j].lists \in Nat /\ jobs[j].batch \in Nat /\ jobs[j].got \in SUBSET Nat /\ Batches(t) \in Int
    BY <1>1, <2>2, GroupFacts, CostsAssumption DEF CostJob, Batches
  <2>4. jobs[j].batch = Batches(t) /\ jobs[j].batch > 0
    BY <2>1, <2>2, <2>3 DEF LastAnswer
  <2>5. jobs[j].lists + 1 \in Nat /\ jobs[j].got \cup listed \in SUBSET Nat
    <3>1. listed \subseteq Nat
      BY <2>2, GroupFacts DEF Batch
    <3>2. \A A, B \in SUBSET Nat : A \cup B \in SUBSET Nat
      OBVIOUS
    <3>3. jobs[j].got \cup listed \in SUBSET Nat
      BY <2>3, <3>1, <3>2, Zenon
    <3>. QED
      BY <2>3, <3>3
  <2>6. Finish(j, jobs[j].lists + 1, jobs[j].got \cup listed) /\ jobs[j].lists + 1 = Batches(t)
    <3>1. CASE Finish(j, jobs[j].lists, jobs[j].got)
      <4>1. jobs'[j].lists = jobs[j].lists
        BY <1>2, <2>3, <3>1
      <4>. QED
        BY <2>2, <2>3, <2>4, <4>1
    <3>2. CASE Finish(j, jobs[j].lists + 1, jobs[j].got \cup listed)
      <4>1. jobs'[j].lists = jobs[j].lists + 1
        <5>. HIDE DEF listed
        <5>. QED
          BY <1>2, <2>5, <3>2
      <4>. QED
        BY <3>2, <4>1
    <3>. QED
      BY <2>1, <3>1, <3>2, Zenon DEF LastAnswer
  <2>7. jobs[j].got \cup listed = Estimable(t)
    <3>1. jobs[j].got \cup listed = AnsweredBy(t, Batches(t))
      BY <2>2, <2>3, <2>4, <2>6, AnsweredGrows
    <3>2. Estimable(t) \subseteq AnsweredBy(t, Batches(t))
      BY <2>2, BatchOfGroup DEF AnsweredBy, Estimable
    <3>3. AnsweredBy(t, Batches(t)) \subseteq Estimable(t)
      BY DEF AnsweredBy
    <3>. QED
      BY <3>1, <3>2, <3>3
  <2>8. /\ jobs'[j].tab = t /\ jobs'[j].got = Estimable(t)
        /\ groupCBSData' = Estimated(t, Estimable(t)) /\ costValue' = ValueShown(t, Estimable(t))
    <3>. HIDE DEF listed, t
    <3>2. Finish(j, jobs[j].lists + 1, Estimable(t))
      BY <2>6, <2>7
    <3>. QED
      BY <1>2, <2>5, <2>7, <3>2
  <2>9. ExportedRows(j)'[i] = IF \E h \in Estimable(t) : IdOf(t, h) = IdOf(t, i) THEN EstimateOf[IdOf(t, i)].cost ELSE 0
    BY <2>8 DEF ExportedRows
  <2>10. (\E h \in Estimable(t) : IdOf(t, h) = IdOf(t, i)) <=> IdOf(t, i) \in DOMAIN EstimateOf
    BY DEF Estimable
  <2>. QED
    BY <2>2, <2>8, <2>9, <2>10, EstimatesReachTheirGroups, EstimateWritten
<1>. QED
  BY <1>3, <1>4

\* An estimate is written as a whole and to its own groups (estimateWorkGroupCosts,
\* updateAllCBSTables): no table changes before a job's last answer, and when all
\* its batches were answered, each group whose id is its own has its estimate's
\* amounts, shows the total of its table and is exported with the same cost.
THEOREM EstimatesAlwaysKeepTheirGroup == CostSpec => EstimatesKeepTheirGroup
<1>1. CostsInv /\ [CostNext]_costVars => [\A j \in DOMAIN jobs : NothingBeforeTheLast(j) /\ AllWhenAnswered(j)]_costVars
  BY CostsKept
<1>. QED
  BY <1>1, CostsInvariance, PTL DEF CostSpec, EstimatesKeepTheirGroup

-----------------------------------------------------------------------------
(* RiskPage: scores. *)

\* What an activity is given, and what has been saved of it.
ActivityFields == {"riskScore", "overrun", "internalRisk", "internalOverrun", "externalRisks", "externalRiskScore",
                   "externalCostRisk", "externalScheduleRisk", "combined"}
IsActivity(r) == DOMAIN r = ActivityFields /\ r = [f \in ActivityFields |-> r[f]]

\* What is saved of an activity, once something is, is what it came with; and until
\* then it has that itself.
ScoresOK(r, own) ==
    /\ IsActivity(r)
    /\ \/ r.internalRisk = Unscored /\ r.internalOverrun = Unscored /\ r.riskScore = own.riskScore /\ r.overrun = own.overrun
       \/ /\ r.internalRisk = own.riskScore /\ r.internalOverrun = own.overrun
          /\ own.riskScore > 0 /\ own.overrun > 0 => r.overrun <= 5 * own.overrun

\* Setting one field leaves the others.
LEMMA FieldOfActivity ==
    ASSUME NEW r, IsActivity(r), NEW f \in ActivityFields, NEW v
    PROVE  LET q == [r EXCEPT ![f] = v] IN IsActivity(q) /\ q[f] = v /\ \A g \in ActivityFields : g # f => q[g] = r[g]
<1>1. [r EXCEPT ![f] = v] = [x \in ActivityFields |-> IF x = f THEN v ELSE r[x]]
  BY DEF IsActivity
<1>. QED
  BY <1>1 DEF IsActivity

\* The overrun is multiplied by five at most.
LEMMA RaisedAtMost ==
    ASSUME NEW overrun \in Nat, NEW ratio \in Int
    PROVE  Unit(Times(overrun, Least(ratio, 5000))) <= 5 * overrun
<1>1. Least(ratio, 5000) \in Int /\ Least(ratio, 5000) <= 5000
  BY DEF Least
<1>. DEFINE l == Least(ratio, 5000)
<1>. HIDE DEF l
<1>2. l \in Int /\ l <= 5000
  BY <1>1 DEF l
<1>3. overrun * l \in Int /\ overrun * l <= overrun * 5000
  BY <1>2
<1>4. \A p \in Int : p <= overrun * 5000 => p \div 1000 \in Int /\ p \div 1000 <= 5 * overrun
  OBVIOUS
<1>5. Times(overrun, l) \in Int /\ Times(overrun, l) <= 5 * overrun
  BY <1>3, <1>4 DEF Times
<1>6. \A x \in Int : x <= 5 * overrun => Unit(x) <= 5 * overrun
  BY DEF Unit, Most, Least
<1>. QED
  BY <1>5, <1>6 DEF l

\* Writing an assessment's scores, and propagating them, keeps what was saved.
LEMMA ScoresKept ==
    ASSUME NEW r, NEW own, own.riskScore \in Nat, own.overrun \in Nat, ScoresOK(r, own), NEW e
    PROVE  ScoresOK(Propagated(Written(r, e)), own)
<1>. DEFINE w1 == [r EXCEPT !.externalRisks = e.externalRisks]
            w2 == [w1 EXCEPT !.externalRiskScore = e.externalRiskScore]
            w3 == [w2 EXCEPT !.externalCostRisk = e.externalCostRisk]
            w4 == [w3 EXCEPT !.externalScheduleRisk = e.externalScheduleRisk]
            w == [w4 EXCEPT !.combined = e.combined]
            Same(q) == /\ IsActivity(q) /\ q.internalRisk = r.internalRisk /\ q.internalOverrun = r.internalOverrun
                       /\ q.riskScore = r.riskScore /\ q.overrun = r.overrun
<1>1. Same(w1)
  BY FieldOfActivity DEF ActivityFields, ScoresOK
<1>. HIDE DEF w1
<1>2. Same(w2)
  BY <1>1, FieldOfActivity DEF ActivityFields
<1>. HIDE DEF w2
<1>3. Same(w3)
  BY <1>2, FieldOfActivity DEF ActivityFields
<1>. HIDE DEF w3
<1>4. Same(w4)
  BY <1>3, FieldOfActivity DEF ActivityFields
<1>. HIDE DEF w4
<1>5. Same(w)
  BY <1>4, FieldOfActivity DEF ActivityFields
<1>6. Written(r, e) = w
  BY DEF Written, w1, w2, w3, w4
<1>. HIDE DEF w
<1>7. ScoresOK(w, own)
  BY <1>5 DEF ScoresOK
<1>. DEFINE combined == OrZero(w.combined)
            internal == Saved(w.internalRisk, OrZero(w.riskScore))
            overrun == Saved(w.internalOverrun, OrZero(w.overrun))
            raised == IF internal > 0 /\ overrun > 0 THEN Times(overrun, Least((combined * 1000) \div internal, 5000))
                      ELSE Times(combined, 300)
            q1 == [w EXCEPT !.internalRisk = internal]
            q2 == [q1 EXCEPT !.internalOverrun = overrun]
            q3 == [q2 EXCEPT !.riskScore = combined]
            q == [q3 EXCEPT !.overrun = Unit(raised)]
<1>8. internal = own.riskScore /\ overrun = own.overrun /\ combined \in Int
  BY <1>7 DEF ScoresOK, Saved, OrZero, Unscored
<1>9. Propagated(w) = IF combined <= 0 THEN w ELSE q
  BY Zenon DEF Propagated
<1>10. own.riskScore > 0 /\ own.overrun > 0 => Unit(raised) <= 5 * own.overrun
  <2>. SUFFICES ASSUME own.riskScore > 0, own.overrun > 0 PROVE Unit(raised) <= 5 * own.overrun
    OBVIOUS
  <2>1. (combined * 1000) \div own.riskScore \in Int
    BY <1>8
  <2>2. raised = Times(own.overrun, Least((combined * 1000) \div own.riskScore, 5000))
    BY <1>8
  <2>. QED
    BY <2>1, <2>2, RaisedAtMost
<1>. HIDE DEF raised, internal, overrun, combined
<1>11. IsActivity(q1) /\ q1.internalRisk = internal
  BY <1>7, FieldOfActivity DEF ActivityFields, ScoresOK
<1>. HIDE DEF q1
<1>12. IsActivity(q2) /\ q2.internalRisk = internal /\ q2.internalOverrun = overrun
  BY <1>11, FieldOfActivity DEF ActivityFields
<1>. HIDE DEF q2
<1>13. IsActivity(q3) /\ q3.internalRisk = internal /\ q3.internalOverrun = overrun
  BY <1>12, FieldOfActivity DEF ActivityFields
<1>. HIDE DEF q3
<1>14. IsActivity(q) /\ q.internalRisk = internal /\ q.internalOverrun = overrun /\ q.overrun = Unit(raised)
  BY <1>13, FieldOfActivity DEF ActivityFields
<1>. HIDE DEF q
<1>. QED
  BY <1>6, <1>7, <1>8, <1>9, <1>10, <1>14 DEF ScoresOK

-----------------------------------------------------------------------------
(* RiskPage: the network that accepted mitigations join. *)

\* A list without repetitions.
Once(s) == s \in Seq(Range(s)) /\ IsInjective(s)

\* What is needed of such a list.
LEMMA OnceFacts ==
    ASSUME NEW s, s \in Seq(Range(s))
    PROVE  /\ Len(s) \in Nat /\ DOMAIN s = 1..Len(s) /\ Range(s) = {s[i] : i \in 1..Len(s)} /\ IsFiniteSet(Range(s))
           /\ \A e : Contains(s, e) <=> e \in Range(s)
<1>1. Len(s) \in Nat /\ DOMAIN s = 1..Len(s) /\ s \in [1..Len(s) -> Range(s)]
  OBVIOUS
<1>2. Range(s) = {s[i] : i \in 1..Len(s)}
  BY <1>1 DEF Range
<1>3. IsFiniteSet(Range(s))
  <2>1. s \in Surjection(1..Len(s), Range(s))
    BY <1>1, <1>2 DEF Surjection
  <2>. QED
    BY <1>1, <2>1, FS_Interval, FS_Surjection
<1>. QED
  BY <1>1, <1>2, <1>3 DEF Contains

\* A node that is appended only when it is not there yet.
LEMMA NodeAdded ==
    ASSUME NEW nodes, Once(nodes), NEW id, NEW q, q = IF Contains(nodes, id) THEN nodes ELSE Append(nodes, id)
    PROVE  Once(q) /\ Range(q) = Range(nodes) \cup {id}
<1>1. Len(nodes) \in Nat /\ DOMAIN nodes = 1..Len(nodes) /\ Range(nodes) = {nodes[i] : i \in 1..Len(nodes)}
      /\ (Contains(nodes, id) <=> id \in Range(nodes))
  BY OnceFacts DEF Once
<1>2. CASE Contains(nodes, id)
  BY <1>1, <1>2 DEF Once
<1>3. CASE ~Contains(nodes, id)
  <2>. DEFINE V == Range(nodes) \cup {id}
  <2>1. nodes \in Seq(V) /\ id \in V
    BY <1>1 DEF Once
  <2>2. q = Append(nodes, id) /\ q \in Seq(V) /\ Len(q) = Len(nodes) + 1 /\ q[Len(nodes) + 1] = id
        /\ \A i \in 1..Len(nodes) : q[i] = nodes[i]
    BY <1>3, <2>1
  <2>3. DOMAIN q = 1..(Len(nodes) + 1)
    BY <1>1, <2>2
  <2>4. Range(q) = V
    BY <1>1, <2>2, <2>3 DEF Range
  <2>5. IsInjective(q)
    BY <1>1, <1>3, <2>2, <2>3 DEF Once, IsInjective
  <2>. QED
    BY <2>2, <2>4, <2>5 DEF Once
<1>. QED
  BY <1>2, <1>3

\* New links are told from those that are there, and from each other.
LEMMA LinksAdded ==
    ASSUME NEW links, Once(links), NEW V, NEW new \in Seq(V)
    PROVE  Once(LinkedOnce(links, new)) /\ Range(LinkedOnce(links, new)) \subseteq Range(links) \cup Range(new)
<1>. DEFINE first == {i \in DOMAIN new : ~Contains(links, new[i]) /\ \A h \in 1..(i - 1) : new[h] # new[i]}
            keys == [i \in first |-> 0]
            place == Ranked(first, keys)
            more == [p \in DOMAIN place |-> new[place[p]]]
            n == Cardinality(first)
            all == links \o more
<1>1. /\ Len(links) \in Nat /\ DOMAIN links = 1..Len(links) /\ Range(links) = {links[i] : i \in 1..Len(links)}
      /\ \A e : Contains(links, e) <=> e \in Range(links)
  BY OnceFacts DEF Once
<1>2. DOMAIN new = 1..Len(new) /\ Len(new) \in Nat
  OBVIOUS
<1>3. first \subseteq 1..Len(new) /\ IsFiniteSet(first)
  <2>1. first \subseteq 1..Len(new) /\ IsFiniteSet(1..Len(new))
    BY <1>2, FS_Interval
  <2>. HIDE DEF first
  <2>. QED
    BY <2>1, FS_Subset
<1>4. n \in Nat /\ place \in [1..n -> first] /\ \A j \in first : \E p \in 1..n : place[p] = j
  <2>1. first \subseteq Int /\ keys \in [first -> Int]
    BY <1>3
  <2>. HIDE DEF first, keys
  <2>. QED
    BY <1>3, <2>1, RankedLists
<1>5. \A p, r \in 1..n : place[p] = place[r] => p = r
  <2>1. place \in Surjection(1..n, first)
    BY <1>4 DEF Surjection
  <2>2. IsFiniteSet(1..n) /\ Cardinality(1..n) = n
    BY <1>4, FS_Interval
  <2>3. place \in Injection(1..n, first)
    BY <2>1, <2>2, FS_SurjSameCardinalityImpliesInj
  <2>. QED
    BY <2>3 DEF Injection, IsInjective
<1>6. \A p \in 1..n : place[p] \in first
  BY <1>4
<1>7. \A i, h \in first : new[i] = new[h] => i = h
  BY <1>2, <1>3
<1>8. DOMAIN more = 1..n /\ \A p \in 1..n : more[p] = new[place[p]]
  BY <1>4
<1>9. \A p \in 1..n : more[p] \in Range(new) /\ more[p] \notin Range(links)
  BY <1>1, <1>6, <1>8 DEF Range
<1>10. \A p, r \in 1..n : more[p] = more[r] => p = r
  <2>. HIDE DEF first, place, more
  <2>. QED
    BY <1>5, <1>6, <1>7, <1>8
<1>. DEFINE W == Range(links) \cup Range(new)
<1>11. more = [p \in 1..n |-> more[p]]
  BY <1>8
<1>. HIDE DEF first, keys, place, more, n
<1>12. links \in Seq(W) /\ more \in Seq(W)
  BY <1>4, <1>9, <1>11 DEF Once
<1>13. Len(more) = n
  BY <1>4, <1>8, <1>12
<1>20. all = links \o more
  OBVIOUS
<1>. HIDE DEF all
<1>14. /\ all \in Seq(W) /\ Len(all) = Len(links) + n /\ DOMAIN all = 1..(Len(links) + n)
       /\ \A i \in 1..Len(links) : all[i] = links[i]
       /\ \A i \in (Len(links) + 1)..(Len(links) + n) : all[i] = more[i - Len(links)]
  <2>1. /\ all \in Seq(W) /\ Len(all) = Len(links) + Len(more) /\ DOMAIN all = 1..(Len(links) + Len(more))
        /\ \A i \in 1..Len(links) : all[i] = links[i]
        /\ \A i \in (Len(links) + 1)..(Len(links) + Len(more)) : all[i] = more[i - Len(links)]
    <3>. HIDE DEF W
    <3>. QED
      BY <1>12, <1>20
  <2>. QED
    BY <1>13, <2>1
<1>15. DOMAIN all = 1..(Len(links) + n)
  BY <1>14
<1>16. ASSUME NEW i \in 1..(Len(links) + n), NEW h \in 1..(Len(links) + n), all[i] = all[h] PROVE i = h
  <2>1. CASE i <= Len(links) /\ h <= Len(links)
    <3>1. i \in 1..Len(links) /\ h \in 1..Len(links)
      BY <1>1, <1>4, <2>1
    <3>. QED
      BY <1>1, <1>14, <1>16, <3>1 DEF Once, IsInjective
  <2>2. CASE i > Len(links) /\ h > Len(links)
    <3>1. i - Len(links) \in 1..n /\ h - Len(links) \in 1..n
      BY <1>1, <1>4, <2>2
    <3>2. more[i - Len(links)] = more[h - Len(links)]
      <4>1. i \in (Len(links) + 1)..(Len(links) + n) /\ h \in (Len(links) + 1)..(Len(links) + n)
        BY <1>1, <1>4, <2>2
      <4>. QED
        BY <1>14, <1>16, <4>1
    <3>3. i - Len(links) = h - Len(links)
      BY <1>10, <3>1, <3>2
    <3>. QED
      BY <1>1, <1>4, <3>3
  <2>3. ASSUME NEW k \in 1..(Len(links) + n), k > Len(links) PROVE all[k] \notin Range(links)
    <3>1. k - Len(links) \in 1..n /\ all[k] = more[k - Len(links)]
      BY <1>1, <1>4, <1>14, <2>3
    <3>. QED
      BY <1>9, <3>1
  <2>4. ASSUME NEW k \in 1..(Len(links) + n), k <= Len(links) PROVE all[k] \in Range(links)
    BY <1>1, <1>4, <1>14, <2>4
  <2>. QED
    BY <1>1, <1>4, <1>16, <2>1, <2>2, <2>3, <2>4
<1>17. IsInjective(all)
  BY <1>15, <1>16 DEF IsInjective
<1>18. Range(all) \subseteq W /\ all \in Seq(Range(all))
  <2>1. all \in [1..(Len(links) + n) -> W] /\ Len(links) + n \in Nat
    BY <1>1, <1>4, <1>14
  <2>2. Range(all) = {all[i] : i \in 1..(Len(links) + n)}
    BY <1>15 DEF Range
  <2>. QED
    BY <2>1, <2>2
<1>19. LinkedOnce(links, new) = all
  BY DEF LinkedOnce, all, more, place, keys, first
<1>. QED
  BY <1>17, <1>18, <1>19 DEF Once

\* A finite set can be listed.
LEMMA SetListed == ASSUME NEW S, IsFiniteSet(S) PROVE SetToSeq(S) \in Seq(S)
<1>1. Cardinality(S) \in Nat /\ ExistsBijection(1..Cardinality(S), S)
  BY FS_CardinalityType
<1>2. \E f \in [1..Cardinality(S) -> S] : IsInjective(f)
  BY <1>1 DEF ExistsBijection, Bijection, Injection
<1>3. SetToSeq(S) \in [1..Cardinality(S) -> S]
  BY <1>2 DEF SetToSeq
<1>. QED
  BY <1>1, <1>3

\* So can the images of one.
LEMMA ImageListed ==
    ASSUME NEW S, IsFiniteSet(S), NEW f, NEW T, T = {f[p] : p \in S}
    PROVE  SetToSeq(T) \in Seq(T)
<1>. DEFINE g == [p \in S |-> f[p]]
<1>1. g \in Surjection(S, T)
  BY DEF Surjection
<1>2. IsFiniteSet(T)
  BY <1>1, FS_Surjection
<1>. QED
  BY <1>2, SetListed

\* Links are between nodes of the network, which has each node and each link once.
Joined(links, nodes) == \A l \in Range(links) : {l.source, l.target} \subseteq Range(nodes)
NetworkOK(net) == Once(net.nodes) /\ Once(net.links) /\ Joined(net.links, net.nodes)

\* A mitigation whose links are to nodes of the network can join it.
LEMMA Accepted ==
    ASSUME NetworkOK(network), NEW m, m.predecessors \subseteq Range(network.nodes), m.successors \subseteq Range(network.nodes)
    PROVE  /\ NetworkOK(applyAcceptedMitigation(m))
           /\ Range(network.nodes) \subseteq Range(applyAcceptedMitigation(m).nodes)
<1>. DEFINE P == {[source |-> p, target |-> m.id] : p \in m.predecessors}
            S == {[source |-> m.id, target |-> s] : s \in m.successors}
            new == SetToSeq(P) \o SetToSeq(S)
            nodes == IF Contains(network.nodes, m.id) THEN network.nodes ELSE Append(network.nodes, m.id)
            links == LinkedOnce(network.links, new)
<1>1. applyAcceptedMitigation(m) = [nodes |-> nodes, links |-> links]
  BY Zenon DEF applyAcceptedMitigation
<1>2. Once(nodes) /\ Range(nodes) = Range(network.nodes) \cup {m.id}
  BY NodeAdded DEF NetworkOK
<1>3. IsFiniteSet(m.predecessors) /\ IsFiniteSet(m.successors)
  <2>1. IsFiniteSet(Range(network.nodes))
    BY OnceFacts DEF NetworkOK, Once
  <2>. QED
    BY <2>1, FS_Subset
<1>4. SetToSeq(P) \in Seq(P)
  <2>. DEFINE K == m.predecessors
              f == [p \in K |-> [source |-> p, target |-> m.id]]
  <2>1. P = {f[p] : p \in K} /\ DOMAIN f = K
    OBVIOUS
  <2>2. IsFiniteSet(K)
    BY <1>3
  <2>. HIDE DEF P, S, K, f
  <2>. QED
    BY <2>1, <2>2, ImageListed
<1>5. SetToSeq(S) \in Seq(S)
  <2>. DEFINE K == m.successors
              f == [s \in K |-> [source |-> m.id, target |-> s]]
  <2>1. S = {f[s] : s \in K} /\ DOMAIN f = K
    OBVIOUS
  <2>2. IsFiniteSet(K)
    BY <1>3
  <2>. HIDE DEF P, S, K, f
  <2>. QED
    BY <2>1, <2>2, ImageListed
<1>. HIDE DEF nodes
<1>6. \A l \in P \cup S : {l.source, l.target} \subseteq Range(nodes)
  BY <1>2
<1>. HIDE DEF P, S
<1>7. new \in Seq(P \cup S) /\ Range(new) \subseteq P \cup S
  <2>1. new \in Seq(P \cup S)
    BY <1>4, <1>5
  <2>. QED
    BY <2>1 DEF Range
<1>. HIDE DEF new
<1>8. Once(links) /\ Range(links) \subseteq Range(network.links) \cup Range(new)
  BY <1>7, LinksAdded DEF NetworkOK
<1>. HIDE DEF links
<1>9. Joined(links, nodes)
  BY <1>2, <1>6, <1>7, <1>8 DEF Joined, NetworkOK
<1>. QED
  BY <1>1, <1>2, <1>8, <1>9 DEF NetworkOK

-----------------------------------------------------------------------------
(* RiskPage: the inductive invariant. *)

\* The rows that mitigations are offered in.
RowsOK(rows) == \A k \in DOMAIN rows : DOMAIN rows[k] = {"id", "predecessors", "successors"}
\* A row that can be accepted offers only what is in the network.
RowsShown(rows, nodes) ==
    \A k \in DOMAIN rows : rows[k].predecessors \subseteq Range(nodes) /\ rows[k].successors \subseteq Range(nodes)

\* The inductive invariant: the scores, the network, and the rows that were made
\* and that are offered.
RiskPageInv ==
    /\ \A a \in Ids : ScoresOK(activity[a], Own[a])
    /\ NetworkOK(network)
    /\ RowsOK(mitigationResult.activities)
    /\ RowsShown(shownMitigations, network.nodes)

\* A row is offered without the nodes that the network does not have.
LEMMA RowsDisplayed == ASSUME NEW rows, RowsOK(rows), NEW nodes PROVE RowsShown(Displayed(rows, nodes), nodes)
<1>. SUFFICES ASSUME NEW k \in DOMAIN rows
              PROVE  /\ Displayed(rows, nodes)[k].predecessors \subseteq Range(nodes)
                     /\ Displayed(rows, nodes)[k].successors \subseteq Range(nodes)
  BY DEF RowsShown, Displayed
<1>1. DOMAIN rows[k] = {"id", "predecessors", "successors"}
  BY DEF RowsOK
<1>2. Displayed(rows, nodes)[k] =
        [rows[k] EXCEPT !.predecessors = rows[k].predecessors \cap Range(nodes), !.successors = rows[k].successors \cap Range(nodes)]
  BY DEF Displayed
<1>. QED
  BY <1>1, <1>2

\* The rows made without the service offer no node.
LEMMA BasicRows == ASSUME NEW register PROVE RowsOK(generateBasicMitigationActivities(register))
<1>1. ASSUME NEW x PROVE DOMAIN [id |-> x, predecessors |-> {}, successors |-> {}] = {"id", "predecessors", "successors"}
  OBVIOUS
<1>. QED
  BY <1>1, Zenon DEF RowsOK, generateBasicMitigationActivities

\* It holds of a page that has just been opened.
LEMMA RiskPageStart == RiskPageInit => RiskPageInv
<1>. SUFFICES ASSUME RiskPageInit PROVE RiskPageInv
  OBVIOUS
<1>1. ASSUME NEW a \in Ids PROVE ScoresOK(activity[a], Own[a])
  <2>1. activity[a] = [riskScore |-> Own[a].riskScore, overrun |-> Own[a].overrun, internalRisk |-> Unscored,
                       internalOverrun |-> Unscored, externalRisks |-> <<>>, externalRiskScore |-> 0,
                       externalCostRisk |-> 0, externalScheduleRisk |-> 0, combined |-> 0]
    BY DEF RiskPageInit
  <2>. QED
    BY <2>1 DEF ScoresOK, IsActivity, ActivityFields
<1>2. network = [nodes |-> Activities, links |-> <<>>] /\ shownMitigations = <<>> /\ mitigationResult = NoMitigations
  BY DEF RiskPageInit
<1>3. NetworkOK(network)
  <2>1. network.nodes = Activities /\ network.links = <<>> /\ Range(<<>>) = {} /\ <<>> \in Seq({}) /\ DOMAIN <<>> = {}
    BY <1>2 DEF Range
  <2>2. IsInjective(<<>>)
    BY <2>1 DEF IsInjective
  <2>. QED
    BY <2>1, <2>2, MappingAssumption DEF NetworkOK, Once, Joined
<1>4. RowsOK(mitigationResult.activities) /\ RowsShown(shownMitigations, network.nodes)
  BY <1>2 DEF NoMitigations, RowsOK, RowsShown
<1>. QED
  BY <1>1, <1>3, <1>4 DEF RiskPageInv

\* An assessment that goes on, with the scores that it comes to, keeps it.
LEMMA GoesKeeps ==
    ASSUME RiskPageInv, NEW n, NEW next, NEW result, RowsOK(result.activities), Goes(n, next, result)
    PROVE  RiskPageInv'
<1>1. network' = network /\ mitigationResult' = result
  BY DEF Goes, Scored
<1>2. CASE next.run.step = "score"
  <2>1. Scored(n, next.run, next.cache, result)
    BY <1>2 DEF Goes
  <2>2. \E e : activity' = [a \in Ids |-> Propagated(Written(activity[a], e[a]))]
    BY <2>1, Zenon DEF Scored
  <2>3. \A a \in Ids : Own[a].riskScore \in Nat /\ Own[a].overrun \in Nat
    BY RiskPageAssumption DEF Ids
  <2>4. \A a \in Ids : ScoresOK(activity'[a], Own[a])
    BY <2>2, <2>3, ScoresKept DEF RiskPageInv
  <2>5. shownMitigations' = Displayed(result.activities, network.nodes) \/ shownMitigations' = shownMitigations
    BY <2>1, Zenon DEF Scored
  <2>6. RowsShown(shownMitigations', network.nodes)
    BY <2>5, RowsDisplayed DEF RiskPageInv
  <2>. QED
    BY <1>1, <2>4, <2>6 DEF RiskPageInv
<1>3. CASE next.run.step # "score"
  <2>1. activity' = activity /\ shownMitigations' = shownMitigations
    BY <1>3 DEF Goes
  <2>. QED
    BY <1>1, <2>1 DEF RiskPageInv
<1>. QED
  BY <1>2, <1>3

-----------------------------------------------------------------------------
(* RiskPage: each action keeps the invariant. *)

LEMMA RiskPageStep == RiskPageInv /\ [RiskPageNext]_riskVars => RiskPageInv'
<1>. SUFFICES ASSUME RiskPageInv, [RiskPageNext]_riskVars PROVE RiskPageInv'
  OBVIOUS
<1>1. RowsOK(mitigationResult.activities)
  BY DEF RiskPageInv
<1>2. ASSUME NEW answer, NEW register, answer \in MitigationAnswers \cup {generateBasicMitigationActivities(register)}
      PROVE  RowsOK(answer) /\ Made(answer).activities = answer
  <2>1. answer \in MitigationAnswers => RowsOK(answer)
    BY RiskPageAssumption DEF RowsOK
  <2>. QED
    BY <1>2, <2>1, BasicRows DEF Made
<1>3. CASE StartAssessment
  <2>1. \E n, next : Goes(n, next, mitigationResult)
    BY <1>3, Zenon DEF StartAssessment
  <2>. QED
    BY <1>1, <2>1, GoesKeeps
<1>4. ASSUME NEW n, RegisterAnswered(n) PROVE RiskPageInv'
  <2>1. \E next : Goes(n, next, mitigationResult)
    BY <1>4, Zenon DEF RegisterAnswered
  <2>. QED
    BY <1>1, <2>1, GoesKeeps
<1>5. ASSUME NEW n, MappingAnswered(n) PROVE RiskPageInv'
  <2>1. \E next : Goes(n, next, mitigationResult)
    BY <1>5, Zenon DEF MappingAnswered
  <2>. QED
    BY <1>1, <2>1, GoesKeeps
<1>6. ASSUME NEW n, MitigationAnswered(n) PROVE RiskPageInv'
  <2>1. PICK answer \in MitigationAnswers \cup {generateBasicMitigationActivities(riskRuns[n].register)} :
            \E next : Goes(n, next, Made(answer))
    BY <1>6, Zenon DEF MitigationAnswered
  <2>2. RowsOK(Made(answer).activities)
    BY <1>2
  <2>. QED
    BY <2>1, <2>2, GoesKeeps
<1>7. ASSUME NEW n, OwnMitigationAnswered(n) PROVE RiskPageInv'
  <2>1. PICK answer \in MitigationAnswers \cup {generateBasicMitigationActivities(userRiskRegister)} :
            /\ mitigationResult' = Made(answer)
            /\ shownMitigations' = IF answer # <<>> THEN Displayed(answer, network.nodes) ELSE shownMitigations
    BY <1>7, Zenon DEF OwnMitigationAnswered
  <2>2. activity' = activity /\ network' = network
    BY <1>7 DEF OwnMitigationAnswered
  <2>3. RowsOK(answer) /\ Made(answer).activities = answer
    BY <1>2
  <2>4. RowsShown(shownMitigations', network.nodes)
    BY <2>1, <2>3, RowsDisplayed DEF RiskPageInv
  <2>. QED
    BY <2>1, <2>2, <2>3, <2>4 DEF RiskPageInv
<1>8. ASSUME NEW k \in DOMAIN shownMitigations, Accept(k) PROVE RiskPageInv'
  <2>1. /\ network' = applyAcceptedMitigation(shownMitigations[k]) /\ activity' = activity
        /\ mitigationResult' = mitigationResult /\ shownMitigations' = shownMitigations
    BY <1>8 DEF Accept
  <2>2. NetworkOK(network') /\ Range(network.nodes) \subseteq Range(network'.nodes)
    BY <2>1, Accepted DEF RiskPageInv, RowsShown
  <2>3. RowsShown(shownMitigations, network'.nodes)
    BY <2>2 DEF RiskPageInv, RowsShown
  <2>. QED
    BY <2>1, <2>2, <2>3 DEF RiskPageInv
<1>9. CASE UNCHANGED <<activity, network, mitigationResult, shownMitigations>>
  BY <1>9 DEF RiskPageInv
<1>10. (\E k \in DOMAIN userRiskRegister, r \in SeedRisks : EditRow(k, r.name)) \/ (\E r \in SeedRisks : AddSeed(r))
         \/ Tick \/ WorkProgresses \/ UNCHANGED riskVars
       => UNCHANGED <<activity, network, mitigationResult, shownMitigations>>
  BY DEF EditRow, AddSeed, Tick, WorkProgresses, riskVars
<1>. QED
  BY <1>3, <1>4, <1>5, <1>6, <1>7, <1>8, <1>9, <1>10 DEF RiskPageNext

\* What an activity came with is saved once, whichever assessments end in which
\* order, and the network has each accepted mitigation once.
THEOREM RiskPageInvariance == RiskPageSpec => []RiskPageInv
BY RiskPageStart, RiskPageStep, PTL DEF RiskPageSpec

\* However often the page is assessed, and whichever mitigations are accepted and
\* accepted again, propagateExternalRiskAndRefreshCharts raises an activity's overrun
\* to five times what it came with at most, and applyAcceptedMitigation leaves no
\* node and no link of the network twice, and no link to a node that is not there.
THEOREM NothingIsCountedTwice == RiskPageSpec => []NothingCountedTwice
<1>1. RiskPageInv => NothingCountedTwice
  <2>. SUFFICES ASSUME RiskPageInv PROVE NothingCountedTwice
    OBVIOUS
  <2>1. AcceptedOnce
    BY DEF RiskPageInv, NetworkOK, Once, Joined, AcceptedOnce
  <2>2. ASSUME NEW a \in Ids, Own[a].riskScore > 0, Own[a].overrun > 0 PROVE activity[a].overrun <= 5 * Own[a].overrun
    <3>1. ScoresOK(activity[a], Own[a]) /\ Own[a].overrun \in Nat
      BY RiskPageAssumption DEF RiskPageInv, Ids
    <3>. QED
      BY <2>2, <3>1 DEF ScoresOK
  <2>. QED
    BY <2>1, <2>2 DEF NothingCountedTwice, OverrunNotCompounded
<1>. QED
  BY <1>1, RiskPageInvariance, PTL


-----------------------------------------------------------------------------
(* RiskPage: folds over sequences, element after element. *)

\* A set of numbers with 0 that is closed under successor, up to n, has n.
LEMMA UpTo ==
    ASSUME NEW G, NEW n \in Nat, 0 \in G, \A k \in 0..(n - 1) : k \in G => k + 1 \in G
    PROVE  n \in G
<1>. SUFFICES ASSUME n \notin G PROVE FALSE
  OBVIOUS
<1>. DEFINE Bad == {k \in 0..n : k \notin G}
<1>1. Bad \in SUBSET Nat /\ Bad # {}
  OBVIOUS
<1>2. Min(Bad) \in Bad /\ \A k \in Bad : Min(Bad) <= k
  BY <1>1, LeastOf
<1>. DEFINE m == Min(Bad)
<1>3. m \in Bad /\ \A k \in Bad : m <= k
  BY <1>2
<1>. HIDE DEF m
<1>4. m # 0 /\ m - 1 \in 0..(n - 1) /\ m - 1 \notin Bad
  BY <1>3
<1>. QED
  BY <1>3, <1>4

\* The greatest of a set of places.
LEMMA GreatestPlace ==
    ASSUME NEW n \in Nat, NEW S \in SUBSET (1..n), S # {}
    PROVE  Max(S) \in S /\ \A x \in S : x <= Max(S)
<1>. DEFINE U == {k \in 0..n : \A x \in S : x <= k}
<1>1. U \in SUBSET Nat /\ U # {}
  OBVIOUS
<1>. DEFINE m == Min(U)
<1>2. m \in U /\ \A k \in U : m <= k
  BY <1>1, LeastOf
<1>. HIDE DEF m
<1>3. m \in S
  <2>. SUFFICES ASSUME m \notin S PROVE FALSE
    OBVIOUS
  <2>1. \A x \in S : x <= m - 1 /\ 1 <= x
    BY <1>2
  <2>2. \E x : x \in S
    OBVIOUS
  <2>3. m \in 0..n /\ m - 1 \in 0..n
    BY <1>2, <2>1, <2>2
  <2>4. m - 1 \in U
    BY <2>1, <2>3
  <2>5. m <= m - 1
    BY <1>2, <2>4
  <2>. QED
    BY <2>3, <2>5
<1>4. \E x \in S : \A y \in S : x >= y
  BY <1>2, <1>3
<1>. QED
  BY <1>4 DEF Max

\* A fold is a function of sets of places, taken from the last place down.
IsFold(h, n, T, base, op) ==
    /\ h \in [SUBSET (1..n) -> T]
    /\ \A S \in SUBSET (1..n) : h[S] = IF S = {} THEN base ELSE op[<<Max(S), h[S \ {Max(S)}]>>]

LEMMA FoldExists ==
    ASSUME NEW n \in Nat, NEW T, NEW base \in T, NEW op \in [(1..n) \X T -> T]
    PROVE  \E h : IsFold(h, n, T, base, op)
<1>. DEFINE D == SUBSET (1..n)
            Inside(f, S) == IF S = {} THEN base ELSE op[<<Max(S), f[S \ {Max(S)}]>>]
            Right(k, f) == \A S \in D : S \subseteq 1..k => f[S] = Inside(f, S)
            G == {k \in Nat : \E f \in [D -> T] : Right(k, f)}
<1>1. 0 \in G
  <2>. DEFINE f == [S \in D |-> base]
  <2>1. f \in [D -> T] /\ \A S \in D : S \subseteq 1..0 => S = {}
    OBVIOUS
  <2>. QED
    BY <2>1
<1>2. ASSUME NEW k \in 0..(n - 1), k \in G PROVE k + 1 \in G
  <2>1. PICK f \in [D -> T] : Right(k, f)
    BY <1>2
  <2>. DEFINE g == [S \in D |-> Inside(f, S)]
  <2>2. ASSUME NEW S \in D PROVE Inside(f, S) \in T
    <3>1. CASE S = {}
      BY <3>1
    <3>2. CASE S # {}
      <4>1. Max(S) \in 1..n /\ S \ {Max(S)} \in D
        BY <3>2, GreatestPlace
      <4>. QED
        BY <3>2, <4>1
    <3>. QED
      BY <3>1, <3>2
  <2>3. g \in [D -> T]
    BY <2>2
  <2>4. \A S \in D : S \subseteq 1..k => g[S] = f[S]
    BY <2>1
  <2>5. ASSUME NEW S \in D, S \subseteq 1..(k + 1) PROVE g[S] = Inside(g, S)
    <3>1. CASE S = {}
      BY <3>1
    <3>2. CASE S # {}
      <4>1. Max(S) \in S /\ \A x \in S : x <= Max(S)
        BY <3>2, GreatestPlace
      <4>. DEFINE m == Max(S)
                  R == S \ {m}
      <4>2. R \in D
        OBVIOUS
      <4>3. R \subseteq 1..k
        <5>1. m \in S /\ \A x \in S : x <= m
          BY <4>1
        <5>. HIDE DEF m
        <5>. QED
          BY <2>5, <5>1
      <4>4. g[R] = f[R]
        BY <2>4, <4>2, <4>3
      <4>. QED
        BY <3>2, <4>4
    <3>. QED
      BY <3>1, <3>2
  <2>. HIDE DEF g
  <2>6. \E q \in [D -> T] : Right(k + 1, q)
    BY <2>3, <2>5
  <2>7. k + 1 \in Nat
    OBVIOUS
  <2>. QED
    BY <2>6, <2>7, Zenon
<1>3. n \in G
  <2>. HIDE DEF G
  <2>. QED
    BY <1>1, <1>2, UpTo
<1>4. PICK f \in [D -> T] : Right(n, f)
  BY <1>3
<1>5. \A S \in D : f[S] = Inside(f, S)
  BY <1>4
<1>. QED
  BY <1>4, <1>5 DEF IsFold

\* The places up to k, without the last.
LEMMA PlacesUpTo ==
    ASSUME NEW n \in Nat, NEW k \in 1..n
    PROVE  /\ 1..k \in SUBSET (1..n) /\ 1..k # {} /\ {} \in SUBSET (1..n)
           /\ Max(1..k) = k /\ (1..k) \ {k} = 1..(k - 1)
<1>1. 1..k \in SUBSET (1..n) /\ k \in 1..k /\ \A x \in 1..k : x <= k
  OBVIOUS
<1>2. Max(1..k) \in 1..k /\ k <= Max(1..k)
  BY <1>1, GreatestPlace
<1>. QED
  BY <1>1, <1>2

\* What each element takes from one property to the next, the fold takes from the
\* first to the last.
LEMMA FoldKeeps ==
    ASSUME NEW n \in Nat, NEW G, NEW iter, iter[{}] \in G[0],
           \A k \in 1..n : iter[1..(k - 1)] \in G[k - 1] => iter[1..k] \in G[k]
    PROVE  iter[1..n] \in G[n]
<1>. DEFINE H == {k \in Nat : k <= n => iter[1..k] \in G[k]}
<1>1. 0 \in H
  <2>1. 1..0 = {}
    OBVIOUS
  <2>. QED
    BY <2>1
<1>2. ASSUME NEW k \in 0..(n - 1), k \in H PROVE k + 1 \in H
  <2>1. k + 1 \in 1..n /\ (k + 1) - 1 = k /\ k + 1 \in Nat
    OBVIOUS
  <2>2. iter[1..((k + 1) - 1)] \in G[(k + 1) - 1]
    BY <1>2, <2>1
  <2>. QED
    BY <2>1, <2>2
<1>3. n \in H
  <2>. HIDE DEF H
  <2>. QED
    BY <1>1, <1>2, UpTo
<1>. QED
  BY <1>3

\* The register, a risk after another.
LEMMA CoverageGoesOn ==
    ASSUME NEW riskScore, NEW register, NEW n \in Nat, DOMAIN register = 1..n, Len(register) = n,
           NEW T, NEW links \in T,
           \A k \in 1..n : \A t \in T : Covered(t, register[k], riskScore) \in T,
           NEW G, links \in G[0],
           \A k \in 1..n : \A t \in G[k - 1] : Covered(t, register[k], riskScore) \in G[k]
    PROVE  ensureExternalRiskCoverage(links, register, riskScore) \in G[n]
<1>. DEFINE op == [q \in (1..n) \X T |-> Covered(q[2], register[q[1]], riskScore)]
            iter == CHOOSE g : g = [S \in SUBSET DOMAIN register |-> IF S = {} THEN links
                                      ELSE LET x == Max(S) IN Covered(g[S \ {x}], register[x], riskScore)]
<1>1. op \in [(1..n) \X T -> T] /\ \A k \in 1..n, t \in T : op[<<k, t>>] = Covered(t, register[k], riskScore)
  OBVIOUS
<1>. HIDE DEF op
<1>2. PICK h : IsFold(h, n, T, links, op)
  BY <1>1, FoldExists
<1>3. h = [S \in SUBSET DOMAIN register |-> IF S = {} THEN links
             ELSE LET x == Max(S) IN Covered(h[S \ {x}], register[x], riskScore)]
  <2>1. ASSUME NEW S \in SUBSET (1..n), S # {}
        PROVE  h[S] = Covered(h[S \ {Max(S)}], register[Max(S)], riskScore)
    <3>1. Max(S) \in 1..n /\ S \ {Max(S)} \in SUBSET (1..n)
      BY <2>1, GreatestPlace
    <3>2. h[S \ {Max(S)}] \in T
      BY <1>2, <3>1 DEF IsFold
    <3>. QED
      BY <1>1, <1>2, <2>1, <3>1, <3>2 DEF IsFold
  <2>2. h = [S \in SUBSET (1..n) |-> h[S]] /\ h[{}] = links
    BY <1>2 DEF IsFold
  <2>3. \A S \in SUBSET (1..n) :
           h[S] = IF S = {} THEN links ELSE LET x == Max(S) IN Covered(h[S \ {x}], register[x], riskScore)
    BY <2>1, <2>2, Zenon
  <2>. QED
    BY <2>2, <2>3, Zenon
<1>4. iter = [S \in SUBSET DOMAIN register |-> IF S = {} THEN links
                ELSE LET x == Max(S) IN Covered(iter[S \ {x}], register[x], riskScore)]
  BY <1>3, Zenon
<1>5. ensureExternalRiskCoverage(links, register, riskScore) = iter[1..n]
  BY Zenon DEF ensureExternalRiskCoverage, FoldLeft, MapThenFoldSet
<1>. HIDE DEF iter
<1>6. iter[{}] = links
  BY <1>4, Zenon
<1>7. ASSUME NEW k \in 1..n, iter[1..(k - 1)] \in G[k - 1] PROVE iter[1..k] \in G[k]
  <2>1. 1..k \in SUBSET DOMAIN register /\ 1..k # {} /\ Max(1..k) = k /\ (1..k) \ {k} = 1..(k - 1)
    BY PlacesUpTo
  <2>2. iter[1..k] = Covered(iter[(1..k) \ {Max(1..k)}], register[Max(1..k)], riskScore)
    BY <1>4, <2>1, Zenon
  <2>3. iter[1..k] = Covered(iter[1..(k - 1)], register[k], riskScore)
    BY <2>1, <2>2
  <2>. QED
    BY <1>7, <2>3
<1>8. iter[1..n] \in G[n]
  BY <1>6, <1>7, FoldKeeps
<1>. QED
  BY <1>5, <1>8

-----------------------------------------------------------------------------
(* RiskPage: what activities are given. *)

Whys == {"coverage", "mapped", "category", "basic"}
\* Assignments of risks, those by coverage not of the ids that the mapping has.
Entries(R, A) == {e \in {Assignment(r, v, w) : r \in R, v \in Int, w \in Whys} : e.why = "coverage" => e.id \notin A}
Links(E) == [Ids -> Seq(E)]
Mapping(E, K) == {links \in Links(E) : K \subseteq Mapped(links)}
AreRisks(R) == \A r \in R : r.probability \in Int /\ r.cost \in Int /\ r.schedule \in Int

LEMMA ActivityIds == \A a \in Ids : \E k \in DOMAIN Activities : Activities[k] = a
BY DEF Ids, Range

LEMMA SixFields ==
    ASSUME NEW a, NEW b, NEW c, NEW d, NEW e, NEW f, NEW g, NEW h
    PROVE  LET q == [id |-> a, name |-> b, type |-> c, confidence |-> d, influence |-> e, why |-> f, weightedCost |-> g, weightedSchedule |-> h]
           IN  q.id = a /\ q.why = f /\ q.weightedCost = g /\ q.weightedSchedule = h
OBVIOUS

LEMMA AssignmentFacts ==
    ASSUME NEW r, r.probability \in Int, r.cost \in Int, r.schedule \in Int, NEW v \in Int, NEW w
    PROVE  /\ Assignment(r, v, w).id = r.id /\ Assignment(r, v, w).why = w
           /\ Impact(Assignment(r, v, w)) \in Int
<1>1. \A x \in Int, y \in Int : Times(x, y) \in Int
  BY DEF Times
<1>. DEFINE q == Assignment(r, v, w)
<1>2. /\ q.id = r.id /\ q.why = w /\ q.weightedCost = Times(Times(r.probability, r.cost), v)
      /\ q.weightedSchedule = Times(Times(r.probability, r.schedule), v)
  BY SixFields DEF Assignment
<1>. HIDE DEF q
<1>3. q.weightedCost \in Int /\ q.weightedSchedule \in Int
  <2>1. Times(r.probability, r.cost) \in Int /\ Times(r.probability, r.schedule) \in Int
    BY <1>1
  <2>2. Times(Times(r.probability, r.cost), v) \in Int /\ Times(Times(r.probability, r.schedule), v) \in Int
    BY <1>1, <2>1
  <2>. QED
    BY <1>2, <2>2
<1>4. Impact(q) \in Int
  BY <1>3 DEF Impact, Most
<1>. QED
  BY <1>2, <1>4 DEF q

LEMMA EntryFacts ==
    ASSUME NEW R, AreRisks(R), NEW A
    PROVE  /\ \A e \in Entries(R, A) : Impact(e) \in Int /\ \E r \in R : e.id = r.id
           /\ \A e \in Entries(R, A) : e.why = "coverage" => e.id \notin A
<1>1. \A r \in R, v \in Int, w \in Whys : /\ Assignment(r, v, w).id = r.id /\ Assignment(r, v, w).why = w
                                         /\ Impact(Assignment(r, v, w)) \in Int
  BY AssignmentFacts DEF AreRisks
<1>2. ASSUME NEW e \in Entries(R, A) PROVE Impact(e) \in Int /\ (\E r \in R : e.id = r.id) /\ (e.why = "coverage" => e.id \notin A)
  <2>1. e.why = "coverage" => e.id \notin A
    BY DEF Entries
  <2>2. PICK r \in R, v \in Int, w \in Whys : e = Assignment(r, v, w)
    BY DEF Entries
  <2>. QED
    BY <1>1, <2>1, <2>2, Zenon
<1>. QED
  BY <1>2, Zenon

LEMMA EntryIs ==
    ASSUME NEW R, AreRisks(R), NEW A, NEW r \in R, NEW v \in Int, NEW w \in Whys, w = "coverage" => r.id \notin A
    PROVE  Assignment(r, v, w) \in Entries(R, A) /\ Assignment(r, v, w).id = r.id
<1>. DEFINE e == Assignment(r, v, w)
<1>1. e.id = r.id /\ e.why = w
  BY AssignmentFacts DEF AreRisks
<1>2. e \in {Assignment(q, x, y) : q \in R, x \in Int, y \in Whys}
  OBVIOUS
<1>. HIDE DEF e
<1>3. e \in Entries(R, A)
  BY <1>1, <1>2 DEF Entries
<1>. QED
  BY <1>1, <1>3 DEF e

\* An assignment more maps its risk, and takes none away.
LEMMA AssignedMaps ==
    ASSUME NEW E, NEW K, NEW links \in Mapping(E, K), NEW a, NEW e \in E
    PROVE  /\ Assigned(links, a, e) \in Mapping(E, K)
           /\ a \in Ids => Assigned(links, a, e) \in Mapping(E, K \cup {e.id})
<1>. DEFINE more == Assigned(links, a, e)
<1>1. links \in [Ids -> Seq(E)] /\ K \subseteq Mapped(links)
  BY DEF Mapping, Links
<1>2. \A b \in Ids : more[b] = IF b = a THEN Append(links[a], e) ELSE links[b]
  BY <1>1 DEF Assigned
<1>3. more \in [Ids -> Seq(E)]
  <2>1. \A s \in Seq(E) : Append(s, e) \in Seq(E)
    OBVIOUS
  <2>. QED
    BY <1>1, <2>1 DEF Assigned
<1>4. \A b \in Ids : Range(links[b]) \subseteq Range(more[b])
  <2>1. ASSUME NEW s \in Seq(E) PROVE Range(s) \subseteq Range(Append(s, e)) /\ e \in Range(Append(s, e))
    <3>1. DOMAIN s = 1..Len(s) /\ DOMAIN Append(s, e) = 1..(Len(s) + 1) /\ Len(s) \in Nat
      OBVIOUS
    <3>2. \A k \in 1..Len(s) : Append(s, e)[k] = s[k]
      OBVIOUS
    <3>3. Append(s, e)[Len(s) + 1] = e /\ Len(s) + 1 \in 1..(Len(s) + 1)
      BY <3>1
    <3>. QED
      BY <3>1, <3>2, <3>3 DEF Range
  <2>. QED
    BY <1>1, <1>2, <2>1
<1>5. a \in Ids => e \in Range(more[a])
  <2>1. ASSUME NEW s \in Seq(E) PROVE e \in Range(Append(s, e))
    <3>1. DOMAIN Append(s, e) = 1..(Len(s) + 1) /\ Append(s, e)[Len(s) + 1] = e /\ Len(s) + 1 \in 1..(Len(s) + 1)
      OBVIOUS
    <3>. QED
      BY <3>1 DEF Range
  <2>. QED
    BY <1>1, <1>2, <2>1
<1>. HIDE DEF more
<1>6. Mapped(links) \subseteq Mapped(more)
  BY <1>4 DEF Mapped
<1>7. a \in Ids => e.id \in Mapped(more)
  BY <1>5 DEF Mapped
<1>. QED
  BY <1>1, <1>3, <1>6, <1>7 DEF Mapping, Links, more

\* An influence is a number.
LEMMA InfluenceType == ASSUME NEW a, NEW s, NEW risk PROVE getBasicInfluenceScore(a, s, risk) \in Int
<1>. DEFINE t == Traits[a]
            topic == IF risk.type \in DOMAIN TypeMapping
                     THEN IF t.category \in Concerned(risk.type) THEN 400 ELSE 0
                     ELSE CASE WordMatch[a, risk.name] = "strong" -> 350
                            [] WordMatch[a, risk.name] = "weak" -> 250
                            [] OTHER -> 0
            critical == IF t.critical THEN 200 ELSE 0
            internal == IF s > 700 THEN 150 ELSE IF s > 500 THEN 80 ELSE 0
            important == IF t.importance > 700 THEN 100 ELSE 0
            supplied == IF risk.type \notin SupplyTypes THEN 0
                        ELSE CASE t.supplier = "external_equipment" -> 200
                               [] t.supplier = "external_material" -> 150
                               [] t.supplier = "external_service" -> 120
                               [] OTHER -> 0
<1>1. topic \in Int
  OBVIOUS
<1>2. critical \in Int
  OBVIOUS
<1>3. internal \in Int
  OBVIOUS
<1>4. important \in Int
  OBVIOUS
<1>5. supplied \in Int
  OBVIOUS
<1>6. getBasicInfluenceScore(a, s, risk) = Least(1000, topic + critical + internal + important + supplied)
  BY Zenon DEF getBasicInfluenceScore
<1>. HIDE DEF topic, critical, internal, important, supplied
<1>. QED
  BY <1>1, <1>2, <1>3, <1>4, <1>5, <1>6 DEF Least

\* The first of a sorted list is of the list.
LEMMA FirstSorted ==
    ASSUME NEW S, NEW seq \in Seq(S), seq # <<>>, NEW keys \in [DOMAIN seq -> Int]
    PROVE  [k \in DOMAIN seq |-> seq[Ranked(DOMAIN seq, keys)[k]]][1] \in S
<1>1. [k \in DOMAIN seq |-> seq[Ranked(DOMAIN seq, keys)[k]]] \in Seq(S)
  BY SortedType
<1>2. DOMAIN seq = 1..Len(seq) /\ Len(seq) \in Nat /\ Len(seq) # 0 /\ 1 \in DOMAIN seq
  OBVIOUS
<1>. DEFINE order == [k \in DOMAIN seq |-> seq[Ranked(DOMAIN seq, keys)[k]]]
<1>3. DOMAIN order = DOMAIN seq
  OBVIOUS
<1>. HIDE DEF order
<1>4. order[1] \in S
  BY <1>1, <1>2, <1>3, ElementOfSeq DEF order
<1>. QED
  BY <1>4 DEF order

LEMMA BestIsThere == ASSUME NEW risk, NEW riskScore, Ids # {} PROVE BestFor(risk, riskScore) \in Ids
<1>. DEFINE keys == [k \in DOMAIN Activities |-> getBasicInfluenceScore(Activities[k], riskScore[Activities[k]], risk)]
<1>1. keys \in [DOMAIN Activities -> Int]
  BY InfluenceType
<1>2. Activities \in Seq(Ids) /\ Activities # <<>>
  <2>1. Range(<<>>) = {}
    BY DEF Range
  <2>. QED
    BY <2>1, MappingAssumption DEF Ids
<1>3. BestFor(risk, riskScore) = [k \in DOMAIN Activities |-> Activities[Ranked(DOMAIN Activities, keys)[k]]][1]
  BY DEF BestFor, Descending
<1>. HIDE DEF keys
<1>. QED
  BY <1>1, <1>2, <1>3, FirstSorted

LEMMA CoveredMaps ==
    ASSUME NEW R, AreRisks(R), NEW A, NEW K, A \subseteq K, NEW links \in Mapping(Entries(R, A), K), NEW risk \in R, NEW riskScore, Ids # {}
    PROVE  Covered(links, risk, riskScore) \in Mapping(Entries(R, A), K \cup {risk.id})
<1>. DEFINE best == BestFor(risk, riskScore)
            score == getBasicInfluenceScore(best, riskScore[best], risk)
            e == Assignment(risk, Most(200, score), "coverage")
<1>1. CASE risk.id \in Mapped(links)
  <2>1. Covered(links, risk, riskScore) = links
    BY <1>1 DEF Covered
  <2>. QED
    BY <1>1, <2>1 DEF Mapping
<1>2. CASE risk.id \notin Mapped(links)
  <2>1. risk.id \notin A
    BY <1>2 DEF Mapping
  <2>2. best \in Ids /\ score \in Int
    BY BestIsThere, InfluenceType
  <2>3. Most(200, score) \in Int
    BY <2>2 DEF Most
  <2>4. e \in Entries(R, A) /\ e.id = risk.id
    <3>1. "coverage" \in Whys
      BY DEF Whys
    <3>. HIDE DEF score
    <3>. QED
      BY <2>1, <2>3, <3>1, EntryIs
  <2>5. Covered(links, risk, riskScore) = Assigned(links, best, e)
    BY <1>2, Zenon DEF Covered
  <2>. HIDE DEF best, e
  <2>. QED
    BY <2>2, <2>4, <2>5, AssignedMaps
<1>. QED
  BY <1>1, <1>2

\* The activities that a mapping names.
LEMMA NamingGoesOn ==
    ASSUME NEW risk, NEW mapping, NEW n \in Nat, DOMAIN mapping.activities = 1..n, Len(mapping.activities) = n,
           NEW T, NEW links \in T,
           \A k \in 1..n : \A t \in T : NamedAt(t, risk, mapping.activities[k]) \in T,
           NEW G, links \in G[0],
           \A k \in 1..n : \A t \in G[k - 1] : NamedAt(t, risk, mapping.activities[k]) \in G[k]
    PROVE  Named(links, risk, mapping) \in G[n]
<1>. DEFINE op == [q \in (1..n) \X T |-> NamedAt(q[2], risk, mapping.activities[q[1]])]
            iter == CHOOSE g : g = [S \in SUBSET DOMAIN mapping.activities |-> IF S = {} THEN links
                                      ELSE LET x == Max(S) IN NamedAt(g[S \ {x}], risk, mapping.activities[x])]
<1>1. op \in [(1..n) \X T -> T] /\ \A k \in 1..n, t \in T : op[<<k, t>>] = NamedAt(t, risk, mapping.activities[k])
  OBVIOUS
<1>. HIDE DEF op
<1>2. PICK h : IsFold(h, n, T, links, op)
  BY <1>1, FoldExists
<1>3. h = [S \in SUBSET DOMAIN mapping.activities |-> IF S = {} THEN links
             ELSE LET x == Max(S) IN NamedAt(h[S \ {x}], risk, mapping.activities[x])]
  <2>1. ASSUME NEW S \in SUBSET (1..n), S # {}
        PROVE  h[S] = NamedAt(h[S \ {Max(S)}], risk, mapping.activities[Max(S)])
    <3>1. Max(S) \in 1..n /\ S \ {Max(S)} \in SUBSET (1..n)
      BY <2>1, GreatestPlace
    <3>2. h[S \ {Max(S)}] \in T
      BY <1>2, <3>1 DEF IsFold
    <3>. QED
      BY <1>1, <1>2, <2>1, <3>1, <3>2 DEF IsFold
  <2>2. h = [S \in SUBSET (1..n) |-> h[S]] /\ h[{}] = links
    BY <1>2 DEF IsFold
  <2>3. \A S \in SUBSET (1..n) :
           h[S] = IF S = {} THEN links ELSE LET x == Max(S) IN NamedAt(h[S \ {x}], risk, mapping.activities[x])
    BY <2>1, <2>2, Zenon
  <2>. QED
    BY <2>2, <2>3, Zenon
<1>4. iter = [S \in SUBSET DOMAIN mapping.activities |-> IF S = {} THEN links
                ELSE LET x == Max(S) IN NamedAt(iter[S \ {x}], risk, mapping.activities[x])]
  BY <1>3, Zenon
<1>5. Named(links, risk, mapping) = iter[1..n]
  BY Zenon DEF Named, FoldLeft, MapThenFoldSet
<1>. HIDE DEF iter
<1>6. iter[{}] = links
  BY <1>4, Zenon
<1>7. ASSUME NEW k \in 1..n, iter[1..(k - 1)] \in G[k - 1] PROVE iter[1..k] \in G[k]
  <2>1. 1..k \in SUBSET DOMAIN mapping.activities /\ 1..k # {} /\ Max(1..k) = k /\ (1..k) \ {k} = 1..(k - 1)
    BY PlacesUpTo
  <2>2. iter[1..k] = NamedAt(iter[(1..k) \ {Max(1..k)}], risk, mapping.activities[Max(1..k)])
    BY <1>4, <2>1, Zenon
  <2>3. iter[1..k] = NamedAt(iter[1..(k - 1)], risk, mapping.activities[k])
    BY <2>1, <2>2
  <2>. QED
    BY <1>7, <2>3
<1>8. iter[1..n] \in G[n]
  BY <1>6, <1>7, FoldKeeps
<1>. QED
  BY <1>5, <1>8

\* The activities that a risk influences most.
LEMMA MatchingGoesOn ==
    ASSUME NEW risk, NEW riskScore, NEW n \in Nat, DOMAIN mostInfluenced(risk, riskScore) = 1..n, Len(mostInfluenced(risk, riskScore)) = n,
           NEW T, NEW links \in T,
           \A k \in 1..n : \A t \in T : MatchedAt(t, risk, riskScore, mostInfluenced(risk, riskScore)[k]) \in T,
           NEW G, links \in G[0],
           \A k \in 1..n : \A t \in G[k - 1] : MatchedAt(t, risk, riskScore, mostInfluenced(risk, riskScore)[k]) \in G[k]
    PROVE  Matched(links, risk, riskScore) \in G[n]
<1>. DEFINE op == [q \in (1..n) \X T |-> MatchedAt(q[2], risk, riskScore, mostInfluenced(risk, riskScore)[q[1]])]
            iter == CHOOSE g : g = [S \in SUBSET DOMAIN mostInfluenced(risk, riskScore) |-> IF S = {} THEN links
                                      ELSE LET x == Max(S) IN MatchedAt(g[S \ {x}], risk, riskScore, mostInfluenced(risk, riskScore)[x])]
<1>1. op \in [(1..n) \X T -> T] /\ \A k \in 1..n, t \in T : op[<<k, t>>] = MatchedAt(t, risk, riskScore, mostInfluenced(risk, riskScore)[k])
  OBVIOUS
<1>. HIDE DEF op
<1>2. PICK h : IsFold(h, n, T, links, op)
  BY <1>1, FoldExists
<1>3. h = [S \in SUBSET DOMAIN mostInfluenced(risk, riskScore) |-> IF S = {} THEN links
             ELSE LET x == Max(S) IN MatchedAt(h[S \ {x}], risk, riskScore, mostInfluenced(risk, riskScore)[x])]
  <2>1. ASSUME NEW S \in SUBSET (1..n), S # {}
        PROVE  h[S] = MatchedAt(h[S \ {Max(S)}], risk, riskScore, mostInfluenced(risk, riskScore)[Max(S)])
    <3>1. Max(S) \in 1..n /\ S \ {Max(S)} \in SUBSET (1..n)
      BY <2>1, GreatestPlace
    <3>2. h[S \ {Max(S)}] \in T
      BY <1>2, <3>1 DEF IsFold
    <3>. QED
      BY <1>1, <1>2, <2>1, <3>1, <3>2 DEF IsFold
  <2>2. h = [S \in SUBSET (1..n) |-> h[S]] /\ h[{}] = links
    BY <1>2 DEF IsFold
  <2>3. \A S \in SUBSET (1..n) :
           h[S] = IF S = {} THEN links ELSE LET x == Max(S) IN MatchedAt(h[S \ {x}], risk, riskScore, mostInfluenced(risk, riskScore)[x])
    BY <2>1, <2>2, Zenon
  <2>. QED
    BY <2>2, <2>3, Zenon
<1>4. iter = [S \in SUBSET DOMAIN mostInfluenced(risk, riskScore) |-> IF S = {} THEN links
                ELSE LET x == Max(S) IN MatchedAt(iter[S \ {x}], risk, riskScore, mostInfluenced(risk, riskScore)[x])]
  BY <1>3, Zenon
<1>5. Matched(links, risk, riskScore) = iter[1..n]
  BY Zenon DEF Matched, FoldLeft, MapThenFoldSet
<1>. HIDE DEF iter
<1>6. iter[{}] = links
  BY <1>4, Zenon
<1>7. ASSUME NEW k \in 1..n, iter[1..(k - 1)] \in G[k - 1] PROVE iter[1..k] \in G[k]
  <2>1. 1..k \in SUBSET DOMAIN mostInfluenced(risk, riskScore) /\ 1..k # {} /\ Max(1..k) = k /\ (1..k) \ {k} = 1..(k - 1)
    BY PlacesUpTo
  <2>2. iter[1..k] = MatchedAt(iter[(1..k) \ {Max(1..k)}], risk, riskScore, mostInfluenced(risk, riskScore)[Max(1..k)])
    BY <1>4, <2>1, Zenon
  <2>3. iter[1..k] = MatchedAt(iter[1..(k - 1)], risk, riskScore, mostInfluenced(risk, riskScore)[k])
    BY <2>1, <2>2
  <2>. QED
    BY <1>7, <2>3
<1>8. iter[1..n] \in G[n]
  BY <1>6, <1>7, FoldKeeps
<1>. QED
  BY <1>5, <1>8

\* The entries of a mapping.
LEMMA ExplicitGoesOn ==
    ASSUME NEW register, NEW mapping, NEW riskScore, NEW n \in Nat, DOMAIN mapping = 1..n, Len(mapping) = n,
           NEW T, NoLinks \in T,
           \A k \in 1..n : \A t \in T : processIndividualMapping(t, register, mapping[k], riskScore) \in T,
           NEW G, NoLinks \in G[0],
           \A k \in 1..n : \A t \in G[k - 1] : processIndividualMapping(t, register, mapping[k], riskScore) \in G[k]
    PROVE  Explicitly(register, mapping, riskScore) \in G[n]
<1>. DEFINE op == [q \in (1..n) \X T |-> processIndividualMapping(q[2], register, mapping[q[1]], riskScore)]
            iter == CHOOSE g : g = [S \in SUBSET DOMAIN mapping |-> IF S = {} THEN NoLinks
                                      ELSE LET x == Max(S) IN processIndividualMapping(g[S \ {x}], register, mapping[x], riskScore)]
<1>1. op \in [(1..n) \X T -> T] /\ \A k \in 1..n, t \in T : op[<<k, t>>] = processIndividualMapping(t, register, mapping[k], riskScore)
  OBVIOUS
<1>. HIDE DEF op
<1>2. PICK h : IsFold(h, n, T, NoLinks, op)
  BY <1>1, FoldExists
<1>3. h = [S \in SUBSET DOMAIN mapping |-> IF S = {} THEN NoLinks
             ELSE LET x == Max(S) IN processIndividualMapping(h[S \ {x}], register, mapping[x], riskScore)]
  <2>1. ASSUME NEW S \in SUBSET (1..n), S # {}
        PROVE  h[S] = processIndividualMapping(h[S \ {Max(S)}], register, mapping[Max(S)], riskScore)
    <3>1. Max(S) \in 1..n /\ S \ {Max(S)} \in SUBSET (1..n)
      BY <2>1, GreatestPlace
    <3>2. h[S \ {Max(S)}] \in T
      BY <1>2, <3>1 DEF IsFold
    <3>. QED
      BY <1>1, <1>2, <2>1, <3>1, <3>2 DEF IsFold
  <2>2. h = [S \in SUBSET (1..n) |-> h[S]] /\ h[{}] = NoLinks
    BY <1>2 DEF IsFold
  <2>3. \A S \in SUBSET (1..n) :
           h[S] = IF S = {} THEN NoLinks ELSE LET x == Max(S) IN processIndividualMapping(h[S \ {x}], register, mapping[x], riskScore)
    BY <2>1, <2>2, Zenon
  <2>. QED
    BY <2>2, <2>3, Zenon
<1>4. iter = [S \in SUBSET DOMAIN mapping |-> IF S = {} THEN NoLinks
                ELSE LET x == Max(S) IN processIndividualMapping(iter[S \ {x}], register, mapping[x], riskScore)]
  BY <1>3, Zenon
<1>5. Explicitly(register, mapping, riskScore) = iter[1..n]
  BY Zenon DEF Explicitly, FoldLeft, MapThenFoldSet
<1>. HIDE DEF iter
<1>6. iter[{}] = NoLinks
  BY <1>4, Zenon
<1>7. ASSUME NEW k \in 1..n, iter[1..(k - 1)] \in G[k - 1] PROVE iter[1..k] \in G[k]
  <2>1. 1..k \in SUBSET DOMAIN mapping /\ 1..k # {} /\ Max(1..k) = k /\ (1..k) \ {k} = 1..(k - 1)
    BY PlacesUpTo
  <2>2. iter[1..k] = processIndividualMapping(iter[(1..k) \ {Max(1..k)}], register, mapping[Max(1..k)], riskScore)
    BY <1>4, <2>1, Zenon
  <2>3. iter[1..k] = processIndividualMapping(iter[1..(k - 1)], register, mapping[k], riskScore)
    BY <2>1, <2>2
  <2>. QED
    BY <1>7, <2>3
<1>8. iter[1..n] \in G[n]
  BY <1>6, <1>7, FoldKeeps
<1>. QED
  BY <1>5, <1>8

\* The register, without a mapping.
LEMMA BasicGoesOn ==
    ASSUME NEW riskMappings, NEW riskScore, NEW register, NEW n \in Nat, DOMAIN register = 1..n, Len(register) = n,
           NEW T, NoLinks \in T,
           \A k \in 1..n : \A t \in T : Linked(t, register[k], Affected(register[k], riskMappings, riskScore)) \in T,
           NEW G, NoLinks \in G[0],
           \A k \in 1..n : \A t \in G[k - 1] : Linked(t, register[k], Affected(register[k], riskMappings, riskScore)) \in G[k]
    PROVE  basicLinks(register, riskMappings, riskScore) \in G[n]
<1>. DEFINE op == [q \in (1..n) \X T |-> Linked(q[2], register[q[1]], Affected(register[q[1]], riskMappings, riskScore))]
            iter == CHOOSE g : g = [S \in SUBSET DOMAIN register |-> IF S = {} THEN NoLinks
                                      ELSE LET x == Max(S) IN Linked(g[S \ {x}], register[x], Affected(register[x], riskMappings, riskScore))]
<1>1. op \in [(1..n) \X T -> T] /\ \A k \in 1..n, t \in T : op[<<k, t>>] = Linked(t, register[k], Affected(register[k], riskMappings, riskScore))
  OBVIOUS
<1>. HIDE DEF op
<1>2. PICK h : IsFold(h, n, T, NoLinks, op)
  BY <1>1, FoldExists
<1>3. h = [S \in SUBSET DOMAIN register |-> IF S = {} THEN NoLinks
             ELSE LET x == Max(S) IN Linked(h[S \ {x}], register[x], Affected(register[x], riskMappings, riskScore))]
  <2>1. ASSUME NEW S \in SUBSET (1..n), S # {}
        PROVE  h[S] = Linked(h[S \ {Max(S)}], register[Max(S)], Affected(register[Max(S)], riskMappings, riskScore))
    <3>1. Max(S) \in 1..n /\ S \ {Max(S)} \in SUBSET (1..n)
      BY <2>1, GreatestPlace
    <3>2. h[S \ {Max(S)}] \in T
      BY <1>2, <3>1 DEF IsFold
    <3>. QED
      BY <1>1, <1>2, <2>1, <3>1, <3>2 DEF IsFold
  <2>2. h = [S \in SUBSET (1..n) |-> h[S]] /\ h[{}] = NoLinks
    BY <1>2 DEF IsFold
  <2>3. \A S \in SUBSET (1..n) :
           h[S] = IF S = {} THEN NoLinks ELSE LET x == Max(S) IN Linked(h[S \ {x}], register[x], Affected(register[x], riskMappings, riskScore))
    BY <2>1, <2>2, Zenon
  <2>. QED
    BY <2>2, <2>3, Zenon
<1>4. iter = [S \in SUBSET DOMAIN register |-> IF S = {} THEN NoLinks
                ELSE LET x == Max(S) IN Linked(iter[S \ {x}], register[x], Affected(register[x], riskMappings, riskScore))]
  BY <1>3, Zenon
<1>5. basicLinks(register, riskMappings, riskScore) = iter[1..n]
  BY Zenon DEF basicLinks, FoldLeft, MapThenFoldSet
<1>. HIDE DEF iter
<1>6. iter[{}] = NoLinks
  BY <1>4, Zenon
<1>7. ASSUME NEW k \in 1..n, iter[1..(k - 1)] \in G[k - 1] PROVE iter[1..k] \in G[k]
  <2>1. 1..k \in SUBSET DOMAIN register /\ 1..k # {} /\ Max(1..k) = k /\ (1..k) \ {k} = 1..(k - 1)
    BY PlacesUpTo
  <2>2. iter[1..k] = Linked(iter[(1..k) \ {Max(1..k)}], register[Max(1..k)], Affected(register[Max(1..k)], riskMappings, riskScore))
    BY <1>4, <2>1, Zenon
  <2>3. iter[1..k] = Linked(iter[1..(k - 1)], register[k], Affected(register[k], riskMappings, riskScore))
    BY <2>1, <2>2
  <2>. QED
    BY <1>7, <2>3
<1>8. iter[1..n] \in G[n]
  BY <1>6, <1>7, FoldKeeps
<1>. QED
  BY <1>5, <1>8

Anchored(m) == \E x \in Range(m.activities) : x.id \in Ids
AnchoredIds(register, entries) == {m.risk : m \in {m \in Range(entries) : Anchored(m)}} \cap {r.id : r \in Range(register)}

LEMMA ListFacts ==
    ASSUME NEW s, s \in Seq(Range(s))
    PROVE  /\ Len(s) \in Nat /\ DOMAIN s = 1..Len(s) /\ \A k \in 1..Len(s) : s[k] \in Range(s)
           /\ \A x \in Range(s) : \E k \in 1..Len(s) : s[k] = x
BY DEF Range

\* A mapping puts the risk on the activities that there are.
LEMMA NamedMaps ==
    ASSUME NEW R, AreRisks(R), NEW A, NEW K, NEW links \in Mapping(Entries(R, A), K), NEW risk \in R, NEW mapping,
           mapping.activities \in Seq(Range(mapping.activities)), \A x \in Range(mapping.activities) : x.influence \in Int
    PROVE  /\ Named(links, risk, mapping) \in Mapping(Entries(R, A), K)
           /\ Anchored(mapping) => Named(links, risk, mapping) \in Mapping(Entries(R, A), K \cup {risk.id})
<1>. DEFINE E == Entries(R, A)
            list == mapping.activities
            n == Len(list)
            T == Mapping(E, K)
            Some(k) == \E j \in 1..k : list[j].id \in Ids
            G == [k \in 0..n |-> IF Some(k) THEN Mapping(E, K \cup {risk.id}) ELSE T]
            e(k) == Assignment(risk, OrHalf(list[k].influence), "mapped")
<1>1. n \in Nat /\ DOMAIN list = 1..n /\ \A k \in 1..n : list[k] \in Range(list)
  BY ListFacts
<1>2. \A k \in 1..n : e(k) \in E /\ e(k).id = risk.id
  <2>. SUFFICES ASSUME NEW k \in 1..n PROVE e(k) \in E /\ e(k).id = risk.id
    OBVIOUS
  <2>1. OrHalf(list[k].influence) \in Int
    BY <1>1 DEF OrHalf
  <2>2. "mapped" \in Whys /\ "mapped" # "coverage"
    BY DEF Whys
  <2>. QED
    BY <2>1, <2>2, EntryIs
<1>. HIDE DEF E, list, n, e
<1>3. \A k \in 1..n : \A t \in T : Assigned(t, list[k].id, e(k)) \in T
  BY <1>2, AssignedMaps
<1>4. \A k \in 1..n : \A t \in Mapping(E, K \cup {risk.id}) : Assigned(t, list[k].id, e(k)) \in Mapping(E, K \cup {risk.id})
  BY <1>2, AssignedMaps
<1>5. \A k \in 1..n : \A t \in T : list[k].id \in Ids => Assigned(t, list[k].id, e(k)) \in Mapping(E, K \cup {risk.id})
  BY <1>2, AssignedMaps
<1>6. Mapping(E, K \cup {risk.id}) \subseteq T
  BY DEF Mapping
<1>7. links \in G[0]
  BY <1>1 DEF E
<1>8. \A k \in 1..n : \A t \in G[k - 1] : Assigned(t, list[k].id, e(k)) \in G[k]
  <2>. SUFFICES ASSUME NEW k \in 1..n, NEW t \in G[k - 1] PROVE Assigned(t, list[k].id, e(k)) \in G[k]
    OBVIOUS
  <2>1. k - 1 \in 0..n /\ k \in 0..n /\ (Some(k) <=> Some(k - 1) \/ list[k].id \in Ids)
    BY <1>1
  <2>. HIDE DEF Some
  <2>2. CASE Some(k - 1)
    BY <2>1, <2>2, <1>4
  <2>3. CASE ~Some(k - 1)
    BY <2>1, <2>3, <1>3, <1>5
  <2>. QED
    BY <2>2, <2>3
<1>. HIDE DEF G
<1>9. Named(links, risk, mapping) \in G[n]
  <2>1. links \in T
    BY DEF E
  <2>. HIDE DEF T
  <2>. QED
    BY <1>1, <1>3, <1>7, <1>8, <2>1, NamingGoesOn DEF NamedAt, e, list, n
<1>10. n \in 0..n /\ (Anchored(mapping) => Some(n))
  <2>1. ASSUME Anchored(mapping) PROVE Some(n)
    <3>1. PICK x \in Range(list) : x.id \in Ids
      BY <2>1 DEF Anchored, list
    <3>2. PICK j \in 1..n : list[j] = x
      BY ListFacts DEF list, n
    <3>. QED
      BY <3>1, <3>2
  <2>. QED
    BY <1>1, <2>1
<1>. QED
  BY <1>6, <1>9, <1>10 DEF G, E

\* One that names none of them puts it on those that it influences most.
LEMMA MatchedMaps ==
    ASSUME NEW R, AreRisks(R), NEW A, NEW K, NEW links \in Mapping(Entries(R, A), K), NEW risk \in R, NEW riskScore
    PROVE  Matched(links, risk, riskScore) \in Mapping(Entries(R, A), K)
<1>. DEFINE E == Entries(R, A)
            list == mostInfluenced(risk, riskScore)
            n == Len(list)
            T == Mapping(E, K)
            G == [k \in 0..n |-> T]
            e(k) == Assignment(risk, getBasicInfluenceScore(list[k], riskScore[list[k]], risk), "category")
<1>1. n \in Nat /\ DOMAIN list = 1..n
  <2>. DEFINE graded == [k \in DOMAIN Activities |-> getBasicInfluenceScore(Activities[k], riskScore[Activities[k]], risk)]
              candidates == {k \in DOMAIN Activities : graded[k] >= 250}
  <2>1. DOMAIN Activities = 1..Len(Activities) /\ Len(Activities) \in Nat
    BY MappingAssumption
  <2>2. IsFiniteSet(candidates)
    <3>1. IsFiniteSet(DOMAIN Activities)
      BY <2>1, IntervalFacts
    <3>2. candidates \in SUBSET DOMAIN Activities
      OBVIOUS
    <3>. HIDE DEF candidates
    <3>. QED
      BY <3>1, <3>2, FS_Subset
  <2>3. Cardinality(candidates) \in Nat
    BY <2>2, FS_CardinalityType
  <2>. HIDE DEF candidates
  <2>4. Least(maxFallbackActivities, Cardinality(candidates)) \in Nat
    BY <2>3, MappingAssumption DEF Least
  <2>5. \E f : list = [k \in 1..Least(maxFallbackActivities, Cardinality(candidates)) |-> f[k]]
    <3>. DEFINE f == [k \in 1..Least(maxFallbackActivities, Cardinality(candidates)) |-> Activities[Ranked(candidates, graded)[k]]]
    <3>1. list = f
      BY DEF mostInfluenced, candidates
    <3>. QED
      BY <3>1
  <2>. QED
    BY <2>4, <2>5
<1>2. \A k \in 1..n : e(k) \in E
  <2>1. "category" \in Whys /\ "category" # "coverage"
    BY DEF Whys
  <2>. QED
    BY <2>1, InfluenceType, EntryIs
<1>. HIDE DEF E, list, n, e
<1>3. \A k \in 1..n : \A t \in T : Assigned(t, list[k], e(k)) \in T
  BY <1>2, AssignedMaps
<1>4. links \in T
  BY DEF E
<1>5. links \in G[0] /\ \A k \in 1..n : \A t \in G[k - 1] : Assigned(t, list[k], e(k)) \in G[k]
  <2>. HIDE DEF T
  <2>. QED
    BY <1>1, <1>3, <1>4
<1>. HIDE DEF G
<1>6. Matched(links, risk, riskScore) \in G[n]
  <2>. HIDE DEF T
  <2>. QED
    BY <1>1, <1>3, <1>4, <1>5, MatchingGoesOn DEF MatchedAt, e, list, n
<1>. QED
  BY <1>1, <1>6 DEF G, E

LEMMA LastWith ==
    ASSUME NEW register, register \in Seq(Range(register)), NEW id, \E r \in Range(register) : r.id = id
    PROVE  RiskOf(register, id) \in Range(register) /\ RiskOf(register, id).id = id
<1>. DEFINE n == Len(register)
            I == {i \in 1..n : register[i].id = id}
<1>1. n \in Nat /\ (\A k \in 1..n : register[k] \in Range(register)) /\ \A x \in Range(register) : \E k \in 1..n : register[k] = x
  BY ListFacts
<1>2. I \in SUBSET (1..n) /\ I # {}
  BY <1>1
<1>3. Max(I) \in I
  BY <1>1, <1>2, GreatestPlace
<1>4. RiskOf(register, id) = register[Max(I)]
  BY <1>2 DEF RiskOf, SelectLastInSeq
<1>. HIDE DEF n
<1>. QED
  BY <1>1, <1>3, <1>4

\* An entry of the mapping.
LEMMA ProcessMaps ==
    ASSUME NEW register, register \in Seq(Range(register)), AreRisks(Range(register)), NEW A, NEW K,
           NEW links \in Mapping(Entries(Range(register), A), K), NEW riskScore, NEW mapping,
           mapping.activities \in Seq(Range(mapping.activities)), \A x \in Range(mapping.activities) : x.influence \in Int
    PROVE  LET next == processIndividualMapping(links, register, mapping, riskScore)
           IN  /\ next \in Mapping(Entries(Range(register), A), K)
               /\ Anchored(mapping) /\ (\E r \in Range(register) : r.id = mapping.risk) =>
                     next \in Mapping(Entries(Range(register), A), K \cup {mapping.risk})
<1>. DEFINE next == processIndividualMapping(links, register, mapping, riskScore)
            risk == RiskOf(register, mapping.risk)
<1>1. CASE \A r \in Range(register) : r.id # mapping.risk
  <2>1. next = links
    BY <1>1, Zenon DEF processIndividualMapping
  <2>. QED
    BY <1>1, <2>1
<1>2. CASE (\E r \in Range(register) : r.id = mapping.risk) /\ Anchored(mapping)
  <2>1. risk \in Range(register) /\ risk.id = mapping.risk
    BY <1>2, LastWith
  <2>2. next = Named(links, risk, mapping)
    BY <1>2, Zenon DEF processIndividualMapping, Anchored
  <2>. HIDE DEF risk, next
  <2>3. next \in Mapping(Entries(Range(register), A), K) /\ next \in Mapping(Entries(Range(register), A), K \cup {mapping.risk})
    BY <1>2, <2>1, <2>2, NamedMaps
  <2>. QED
    BY <2>3 DEF next
<1>3. CASE (\E r \in Range(register) : r.id = mapping.risk) /\ ~Anchored(mapping)
  <2>1. risk \in Range(register) /\ risk.id = mapping.risk
    BY <1>3, LastWith
  <2>2. next = Matched(links, risk, riskScore)
    BY <1>3, Zenon DEF processIndividualMapping, Anchored
  <2>. HIDE DEF risk, next
  <2>3. next \in Mapping(Entries(Range(register), A), K)
    BY <2>1, <2>2, MatchedMaps
  <2>. QED
    BY <1>3, <2>3 DEF next
<1>. QED
  BY <1>1, <1>2, <1>3

\* Nothing is mapped to begin with.
LEMMA NoneLinked == ASSUME NEW E PROVE NoLinks \in Mapping(E, {})
<1>1. <<>> \in Seq(E)
  OBVIOUS
<1>. QED
  BY <1>1 DEF NoLinks, Mapping, Links

\* Every risk that the mapping puts on an activity that there is, is on one.
LEMMA ExplicitMaps ==
    ASSUME NEW register, register \in Seq(Range(register)), AreRisks(Range(register)), NEW entries, entries \in Seq(Range(entries)),
           \A m \in Range(entries) : /\ m.activities \in Seq(Range(m.activities))
                                     /\ \A x \in Range(m.activities) : x.influence \in Int,
           NEW riskScore
    PROVE  LET A == AnchoredIds(register, entries)
           IN  Explicitly(register, entries, riskScore) \in Mapping(Entries(Range(register), A), A)
<1>. DEFINE A == AnchoredIds(register, entries)
            E == Entries(Range(register), A)
            n == Len(entries)
            T == Mapping(E, {})
            InRegister(m) == \E r \in Range(register) : r.id = m.risk
            SomeTo(k) == {entries[j].risk : j \in {j \in 1..k : Anchored(entries[j]) /\ InRegister(entries[j])}}
            G == [k \in 0..n |-> Mapping(E, SomeTo(k))]
            next(t, k) == processIndividualMapping(t, register, entries[k], riskScore)
<1>1. n \in Nat /\ DOMAIN entries = 1..n /\ \A k \in 1..n : entries[k] \in Range(entries)
  BY ListFacts
<1>2. ASSUME NEW k \in 1..n, NEW L, NEW t \in Mapping(E, L)
      PROVE  next(t, k) \in Mapping(E, L) /\ (Anchored(entries[k]) /\ InRegister(entries[k]) => next(t, k) \in Mapping(E, L \cup {entries[k].risk}))
  BY <1>1, <1>2, ProcessMaps
<1>. HIDE DEF E, next, n
<1>3. \A k \in 1..n : \A t \in T : next(t, k) \in T
  BY <1>2
<1>4. NoLinks \in T
  BY NoneLinked
<1>5. NoLinks \in G[0]
  <2>1. SomeTo(0) = {} /\ 0 \in 0..n
    BY <1>1
  <2>. HIDE DEF SomeTo
  <2>. QED
    BY <1>4, <2>1
<1>6. \A k \in 1..n : \A t \in G[k - 1] : next(t, k) \in G[k]
  <2>. SUFFICES ASSUME NEW k \in 1..n, NEW t \in G[k - 1] PROVE next(t, k) \in G[k]
    OBVIOUS
  <2>1. k - 1 \in 0..n /\ k \in 0..n /\ 1..k = (1..(k - 1)) \cup {k}
    BY <1>1
  <2>2. t \in Mapping(E, SomeTo(k - 1))
    BY <2>1
  <2>3. CASE Anchored(entries[k]) /\ InRegister(entries[k])
    <3>1. SomeTo(k) = SomeTo(k - 1) \cup {entries[k].risk}
      <4>. HIDE DEF InRegister
      <4>. QED
        BY <2>1, <2>3
    <3>. HIDE DEF SomeTo
    <3>2. next(t, k) \in Mapping(E, SomeTo(k - 1) \cup {entries[k].risk})
      BY <1>2, <2>2, <2>3
    <3>. QED
      BY <2>1, <3>1, <3>2
  <2>4. CASE ~(Anchored(entries[k]) /\ InRegister(entries[k]))
    <3>1. SomeTo(k) = SomeTo(k - 1)
      <4>. HIDE DEF InRegister
      <4>. QED
        BY <2>1, <2>4
    <3>. HIDE DEF SomeTo
    <3>. QED
      BY <1>2, <2>1, <2>2, <3>1
  <2>. QED
    BY <2>3, <2>4
<1>. HIDE DEF G
<1>7. Explicitly(register, entries, riskScore) \in G[n]
  <2>. HIDE DEF T
  <2>. QED
    BY <1>1, <1>3, <1>4, <1>5, <1>6, ExplicitGoesOn DEF next, n
<1>8. G[n] = Mapping(E, SomeTo(n))
  BY <1>1 DEF G
<1>9. A \subseteq SomeTo(n)
  <2>. SUFFICES ASSUME NEW id \in A PROVE id \in SomeTo(n)
    OBVIOUS
  <2>1. PICK m \in Range(entries), r \in Range(register) : Anchored(m) /\ m.risk = id /\ r.id = id
    BY Zenon DEF AnchoredIds
  <2>2. PICK j \in 1..n : entries[j] = m
    BY ListFacts DEF n
  <2>. QED
    BY <2>1, <2>2
<1>. HIDE DEF A, SomeTo
<1>10. Explicitly(register, entries, riskScore) \in Mapping(E, A)
  BY <1>7, <1>8, <1>9 DEF Mapping
<1>. QED
  BY <1>10 DEF A, E

Listed(register) == {r.id : r \in Range(register)}

\* The coverage leaves no risk of the register without an activity.
LEMMA CoverageMaps ==
    ASSUME NEW register, register \in Seq(Range(register)), AreRisks(Range(register)), NEW A, NEW riskScore,
           NEW links \in Mapping(Entries(Range(register), A), A), Ids # {}
    PROVE  ensureExternalRiskCoverage(links, register, riskScore) \in Mapping(Entries(Range(register), A), A \cup Listed(register))
<1>. DEFINE E == Entries(Range(register), A)
            n == Len(register)
            T == Mapping(E, A)
            SomeTo(k) == {register[j].id : j \in 1..k}
            G == [k \in 0..n |-> Mapping(E, A \cup SomeTo(k))]
            next(t, k) == Covered(t, register[k], riskScore)
<1>1. n \in Nat /\ DOMAIN register = 1..n /\ \A k \in 1..n : register[k] \in Range(register)
  BY ListFacts
<1>2. ASSUME NEW k \in 1..n, NEW L, A \subseteq L, NEW t \in Mapping(E, L)
      PROVE  next(t, k) \in Mapping(E, L \cup {register[k].id})
  BY <1>1, <1>2, CoveredMaps
<1>. HIDE DEF E, next, n
<1>3. \A k \in 1..n : \A t \in T : next(t, k) \in T
  <2>1. \A L : Mapping(E, A \cup L) \subseteq T
    BY DEF Mapping
  <2>. QED
    BY <1>2, <2>1
<1>4. links \in T
  BY DEF E
<1>5. links \in G[0]
  <2>1. A \cup SomeTo(0) = A /\ 0 \in 0..n
    BY <1>1
  <2>. HIDE DEF SomeTo
  <2>. QED
    BY <1>4, <2>1
<1>6. \A k \in 1..n : \A t \in G[k - 1] : next(t, k) \in G[k]
  <2>. SUFFICES ASSUME NEW k \in 1..n, NEW t \in G[k - 1] PROVE next(t, k) \in G[k]
    OBVIOUS
  <2>1. k - 1 \in 0..n /\ k \in 0..n /\ 1..k = (1..(k - 1)) \cup {k}
    BY <1>1
  <2>2. t \in Mapping(E, A \cup SomeTo(k - 1))
    BY <2>1
  <2>3. A \cup SomeTo(k) = (A \cup SomeTo(k - 1)) \cup {register[k].id}
    BY <2>1
  <2>. HIDE DEF SomeTo
  <2>4. next(t, k) \in Mapping(E, (A \cup SomeTo(k - 1)) \cup {register[k].id})
    BY <1>2, <2>2
  <2>. QED
    BY <2>1, <2>3, <2>4
<1>. HIDE DEF G
<1>7. ensureExternalRiskCoverage(links, register, riskScore) \in G[n]
  <2>. HIDE DEF T
  <2>. QED
    BY <1>1, <1>3, <1>4, <1>5, <1>6, CoverageGoesOn DEF next, n
<1>8. G[n] = Mapping(E, A \cup SomeTo(n))
  BY <1>1 DEF G
<1>9. Listed(register) = SomeTo(n)
  <2>1. \A x \in Range(register) : \E k \in 1..n : register[k] = x
    BY ListFacts DEF n
  <2>. QED
    BY <1>1, <2>1 DEF Listed
<1>. HIDE DEF SomeTo
<1>. QED
  BY <1>7, <1>8, <1>9 DEF E

\* Without a mapping of its own, a risk affects some activity.
LEMMA AffectedSome ==
    ASSUME NEW risk, NEW riskMappings, DOMAIN riskMappings = {}, NEW riskScore \in [Ids -> Int], Ids # {}
    PROVE  \E D \in SUBSET Ids : D # {} /\ Affected(risk, riskMappings, riskScore) \in [D -> Int]
<1>. DEFINE found == findAffectedActivities(risk, riskMappings, riskScore)
            D == DOMAIN found
<1>1. found \in [D -> Int] /\ D \subseteq Ids
  <2>. DEFINE influence(a) ==
            IF risk.id \notin DOMAIN riskMappings THEN getBasicInfluenceScore(a, riskScore[a], risk)
            ELSE Times((IF Traits[a].category \in riskMappings[risk.id].categories THEN 600 ELSE 0)
                         + (IF Traits[a].critical THEN 200 ELSE 0), riskMappings[risk.id].impact_factor)
                 + (IF riskScore[a] > 500 THEN 100 ELSE 0)
              S == {b \in Ids : influence(b) > 50}
  <2>1. found = [a \in S |-> Least(1000, influence(a))]
    BY DEF findAffectedActivities
  <2>2. ASSUME NEW a PROVE influence(a) \in Int
    <3>1. influence(a) = getBasicInfluenceScore(a, riskScore[a], risk)
      OBVIOUS
    <3>. QED
      BY <3>1, InfluenceType
  <2>. HIDE DEF influence
  <2>3. \A a : Least(1000, influence(a)) \in Int
    BY <2>2 DEF Least
  <2>4. S \subseteq Ids
    OBVIOUS
  <2>. HIDE DEF S, found
  <2>5. D = S
    BY <2>1
  <2>. QED
    BY <2>1, <2>3, <2>4, <2>5
<1>2. CASE D # {}
  <2>1. Affected(risk, riskMappings, riskScore) = found
    BY <1>2 DEF Affected
  <2>. QED
    BY <1>1, <1>2, <2>1
<1>3. CASE D = {}
  <2>1. Affected(risk, riskMappings, riskScore) = [a \in {fallbackActivity(riskScore)} |-> 150]
    BY <1>3 DEF Affected
  <2>2. fallbackActivity(riskScore) \in Ids
    <3>. DEFINE key(a) == (IF Traits[a].critical THEN 3000 ELSE 0) + 2 * riskScore[a] + Traits[a].importance
                keys == [k \in DOMAIN Activities |-> key(Activities[k])]
    <3>1. Activities \in Seq(Ids) /\ Activities # <<>>
      <4>1. Range(<<>>) = {}
        BY DEF Range
      <4>. QED
        BY <4>1, MappingAssumption DEF Ids
    <3>2. ASSUME NEW a \in Ids PROVE key(a) \in Int
      <4>1. riskScore[a] \in Int /\ Traits[a].importance \in Int
        BY MappingAssumption DEF Ids
      <4>. QED
        BY <4>1
    <3>3. fallbackActivity(riskScore) = [k \in DOMAIN Activities |-> Activities[Ranked(DOMAIN Activities, keys)[k]]][1]
      BY DEF fallbackActivity, Descending
    <3>. HIDE DEF key
    <3>4. keys \in [DOMAIN Activities -> Int]
      <4>1. \A k \in DOMAIN Activities : Activities[k] \in Ids
        BY <3>1
      <4>. QED
        BY <3>2, <4>1
    <3>. HIDE DEF keys
    <3>. QED
      BY <3>1, <3>3, <3>4, FirstSorted
  <2>3. {fallbackActivity(riskScore)} \in SUBSET Ids /\ {fallbackActivity(riskScore)} # {} /\ 150 \in Int
    BY <2>2
  <2>4. Affected(risk, riskMappings, riskScore) \in [{fallbackActivity(riskScore)} -> Int]
    BY <2>1, <2>3
  <2>. QED
    BY <2>3, <2>4
<1>. QED
  BY <1>2, <1>3

LEMMA LinkedMaps ==
    ASSUME NEW R, AreRisks(R), NEW A, NEW K, NEW links \in Mapping(Entries(R, A), K), NEW risk \in R,
           NEW D \in SUBSET Ids, D # {}, NEW affected \in [D -> Int]
    PROVE  Linked(links, risk, affected) \in Mapping(Entries(R, A), K \cup {risk.id})
<1>. DEFINE E == Entries(R, A)
            more == Linked(links, risk, affected)
            e(a) == Assignment(risk, affected[a], "basic")
<1>1. \A a \in D : e(a) \in E /\ e(a).id = risk.id
  <2>1. "basic" \in Whys /\ "basic" # "coverage"
    BY DEF Whys
  <2>. QED
    BY <2>1, EntryIs
<1>2. \A a \in Ids : more[a] = IF a \in D THEN Append(links[a], e(a)) ELSE links[a]
  BY DEF Linked
<1>3. more = [a \in Ids |-> more[a]]
  BY DEF Linked
<1>. HIDE DEF E, e, more
<1>4. links \in [Ids -> Seq(E)] /\ K \subseteq Mapped(links)
  BY DEF Mapping, Links, E
<1>5. ASSUME NEW s \in Seq(E), NEW x \in E PROVE Append(s, x) \in Seq(E) /\ Range(s) \subseteq Range(Append(s, x)) /\ x \in Range(Append(s, x))
  <2>1. DOMAIN s = 1..Len(s) /\ DOMAIN Append(s, x) = 1..(Len(s) + 1) /\ Len(s) \in Nat
    OBVIOUS
  <2>2. \A k \in 1..Len(s) : Append(s, x)[k] = s[k]
    OBVIOUS
  <2>3. Append(s, x)[Len(s) + 1] = x /\ Len(s) + 1 \in 1..(Len(s) + 1)
    BY <2>1
  <2>. QED
    BY <2>1, <2>2, <2>3 DEF Range
<1>6. \A a \in Ids : more[a] \in Seq(E) /\ Range(links[a]) \subseteq Range(more[a])
  <2>. SUFFICES ASSUME NEW a \in Ids PROVE more[a] \in Seq(E) /\ Range(links[a]) \subseteq Range(more[a])
    OBVIOUS
  <2>1. links[a] \in Seq(E)
    BY <1>4
  <2>2. CASE a \in D
    <3>1. e(a) \in E /\ more[a] = Append(links[a], e(a))
      BY <1>1, <1>2, <2>2
    <3>. QED
      BY <1>5, <2>1, <3>1
  <2>3. CASE a \notin D
    BY <1>2, <2>1, <2>3
  <2>. QED
    BY <2>2, <2>3
<1>7. \A a \in D : e(a) \in Range(more[a])
  <2>. SUFFICES ASSUME NEW a \in D PROVE e(a) \in Range(more[a])
    OBVIOUS
  <2>1. e(a) \in E /\ links[a] \in Seq(E) /\ more[a] = Append(links[a], e(a))
    BY <1>1, <1>2, <1>4
  <2>. QED
    BY <1>5, <2>1
<1>8. Mapped(links) \subseteq Mapped(more)
  <2>. SUFFICES ASSUME NEW y \in Mapped(links) PROVE y \in Mapped(more)
    OBVIOUS
  <2>1. PICK a \in Ids : \E r \in Range(links[a]) : r.id = y
    BY DEF Mapped
  <2>2. PICK r \in Range(links[a]) : r.id = y
    BY <2>1
  <2>3. r \in Range(more[a])
    BY <1>6
  <2>. QED
    BY <2>2, <2>3 DEF Mapped
<1>9. risk.id \in Mapped(more)
  <2>1. PICK a \in D : TRUE
    OBVIOUS
  <2>. QED
    BY <1>1, <1>7, <2>1 DEF Mapped
<1>10. more \in [Ids -> Seq(E)]
  BY <1>3, <1>6
<1>11. K \cup {risk.id} \subseteq Mapped(more)
  BY <1>4, <1>8, <1>9
<1>. QED
  BY <1>10, <1>11 DEF Mapping, Links, more, E

\* Without a mapping, every risk is on an activity.
LEMMA BasicMaps ==
    ASSUME NEW register, register \in Seq(Range(register)), AreRisks(Range(register)), NEW A,
           NEW riskMappings, DOMAIN riskMappings = {}, NEW riskScore \in [Ids -> Int], Ids # {}
    PROVE  basicLinks(register, riskMappings, riskScore) \in Mapping(Entries(Range(register), A), Listed(register))
<1>. DEFINE E == Entries(Range(register), A)
            n == Len(register)
            T == Mapping(E, {})
            SomeTo(k) == {register[j].id : j \in 1..k}
            G == [k \in 0..n |-> Mapping(E, SomeTo(k))]
            next(t, k) == Linked(t, register[k], Affected(register[k], riskMappings, riskScore))
<1>1. n \in Nat /\ DOMAIN register = 1..n /\ \A k \in 1..n : register[k] \in Range(register)
  BY ListFacts
<1>2. ASSUME NEW k \in 1..n, NEW L, NEW t \in Mapping(E, L)
      PROVE  next(t, k) \in Mapping(E, L \cup {register[k].id})
  <2>1. PICK D \in SUBSET Ids : D # {} /\ Affected(register[k], riskMappings, riskScore) \in [D -> Int]
    BY AffectedSome
  <2>. QED
    BY <1>1, <1>2, <2>1, LinkedMaps
<1>. HIDE DEF E, next, n
<1>3. \A k \in 1..n : \A t \in T : next(t, k) \in T
  <2>1. \A L : Mapping(E, {} \cup L) \subseteq T
    BY DEF Mapping
  <2>. QED
    BY <1>2, <2>1
<1>4. NoLinks \in T
  BY NoneLinked
<1>5. NoLinks \in G[0]
  <2>1. SomeTo(0) = {} /\ 0 \in 0..n
    BY <1>1
  <2>. HIDE DEF SomeTo
  <2>. QED
    BY <1>4, <2>1
<1>6. \A k \in 1..n : \A t \in G[k - 1] : next(t, k) \in G[k]
  <2>. SUFFICES ASSUME NEW k \in 1..n, NEW t \in G[k - 1] PROVE next(t, k) \in G[k]
    OBVIOUS
  <2>1. k - 1 \in 0..n /\ k \in 0..n /\ 1..k = (1..(k - 1)) \cup {k}
    BY <1>1
  <2>2. t \in Mapping(E, SomeTo(k - 1))
    BY <2>1
  <2>3. SomeTo(k) = SomeTo(k - 1) \cup {register[k].id}
    BY <2>1
  <2>. HIDE DEF SomeTo
  <2>4. next(t, k) \in Mapping(E, SomeTo(k - 1) \cup {register[k].id})
    BY <1>2, <2>2
  <2>. QED
    BY <2>1, <2>3, <2>4
<1>. HIDE DEF G
<1>7. basicLinks(register, riskMappings, riskScore) \in G[n]
  <2>. HIDE DEF T
  <2>. QED
    BY <1>1, <1>3, <1>4, <1>5, <1>6, BasicGoesOn DEF next, n
<1>8. G[n] = Mapping(E, SomeTo(n))
  BY <1>1 DEF G
<1>9. Listed(register) = SomeTo(n)
  <2>1. \A x \in Range(register) : \E k \in 1..n : register[k] = x
    BY ListFacts DEF n
  <2>. QED
    BY <1>1, <2>1 DEF Listed
<1>. HIDE DEF SomeTo
<1>. QED
  BY <1>7, <1>8, <1>9 DEF E

-----------------------------------------------------------------------------
(* RiskPage: the cap. *)

\* What is above the cap, the weakest last.
LEMMA TrimmingGoesOn ==
    ASSUME NEW rest, NEW n \in Nat, DOMAIN rest = 1..n, Len(rest) = n,
           NEW T, NEW state \in T,
           \A k \in 1..n : \A t \in T : Trimmed(t, rest[k]) \in T,
           NEW G, state \in G[0],
           \A k \in 1..n : \A t \in G[k - 1] : Trimmed(t, rest[k]) \in G[k]
    PROVE  TrimmedAll(state, rest) \in G[n]
<1>. DEFINE op == [q \in (1..n) \X T |-> Trimmed(q[2], rest[q[1]])]
            iter == CHOOSE g : g = [S \in SUBSET DOMAIN rest |-> IF S = {} THEN state
                                      ELSE LET x == Max(S) IN Trimmed(g[S \ {x}], rest[x])]
<1>1. op \in [(1..n) \X T -> T] /\ \A k \in 1..n, t \in T : op[<<k, t>>] = Trimmed(t, rest[k])
  OBVIOUS
<1>. HIDE DEF op
<1>2. PICK h : IsFold(h, n, T, state, op)
  BY <1>1, FoldExists
<1>3. h = [S \in SUBSET DOMAIN rest |-> IF S = {} THEN state
             ELSE LET x == Max(S) IN Trimmed(h[S \ {x}], rest[x])]
  <2>1. ASSUME NEW S \in SUBSET (1..n), S # {}
        PROVE  h[S] = Trimmed(h[S \ {Max(S)}], rest[Max(S)])
    <3>1. Max(S) \in 1..n /\ S \ {Max(S)} \in SUBSET (1..n)
      BY <2>1, GreatestPlace
    <3>2. h[S \ {Max(S)}] \in T
      BY <1>2, <3>1 DEF IsFold
    <3>. QED
      BY <1>1, <1>2, <2>1, <3>1, <3>2 DEF IsFold
  <2>2. h = [S \in SUBSET (1..n) |-> h[S]] /\ h[{}] = state
    BY <1>2 DEF IsFold
  <2>3. \A S \in SUBSET (1..n) :
           h[S] = IF S = {} THEN state ELSE LET x == Max(S) IN Trimmed(h[S \ {x}], rest[x])
    BY <2>1, <2>2, Zenon
  <2>. QED
    BY <2>2, <2>3, Zenon
<1>4. iter = [S \in SUBSET DOMAIN rest |-> IF S = {} THEN state
                ELSE LET x == Max(S) IN Trimmed(iter[S \ {x}], rest[x])]
  BY <1>3, Zenon
<1>5. TrimmedAll(state, rest) = iter[1..n]
  BY Zenon DEF TrimmedAll, FoldLeft, MapThenFoldSet
<1>. HIDE DEF iter
<1>6. iter[{}] = state
  BY <1>4, Zenon
<1>7. ASSUME NEW k \in 1..n, iter[1..(k - 1)] \in G[k - 1] PROVE iter[1..k] \in G[k]
  <2>1. 1..k \in SUBSET DOMAIN rest /\ 1..k # {} /\ Max(1..k) = k /\ (1..k) \ {k} = 1..(k - 1)
    BY PlacesUpTo
  <2>2. iter[1..k] = Trimmed(iter[(1..k) \ {Max(1..k)}], rest[Max(1..k)])
    BY <1>4, <2>1, Zenon
  <2>3. iter[1..k] = Trimmed(iter[1..(k - 1)], rest[k])
    BY <2>1, <2>2
  <2>. QED
    BY <1>7, <2>3
<1>8. iter[1..n] \in G[n]
  BY <1>6, <1>7, FoldKeeps
<1>. QED
  BY <1>5, <1>8

\* One activity after another.
LEMMA CutsGoOn ==
    ASSUME NEW n \in Nat, DOMAIN Activities = 1..n, Len(Activities) = n,
           NEW T, NEW state \in T,
           \A k \in 1..n : \A t \in T : CutAt(t, Activities[k]) \in T,
           NEW G, state \in G[0],
           \A k \in 1..n : \A t \in G[k - 1] : CutAt(t, Activities[k]) \in G[k]
    PROVE  CutAll(state) \in G[n]
<1>. DEFINE op == [q \in (1..n) \X T |-> CutAt(q[2], Activities[q[1]])]
            iter == CHOOSE g : g = [S \in SUBSET DOMAIN Activities |-> IF S = {} THEN state
                                      ELSE LET x == Max(S) IN CutAt(g[S \ {x}], Activities[x])]
<1>1. op \in [(1..n) \X T -> T] /\ \A k \in 1..n, t \in T : op[<<k, t>>] = CutAt(t, Activities[k])
  OBVIOUS
<1>. HIDE DEF op
<1>2. PICK h : IsFold(h, n, T, state, op)
  BY <1>1, FoldExists
<1>3. h = [S \in SUBSET DOMAIN Activities |-> IF S = {} THEN state
             ELSE LET x == Max(S) IN CutAt(h[S \ {x}], Activities[x])]
  <2>1. ASSUME NEW S \in SUBSET (1..n), S # {}
        PROVE  h[S] = CutAt(h[S \ {Max(S)}], Activities[Max(S)])
    <3>1. Max(S) \in 1..n /\ S \ {Max(S)} \in SUBSET (1..n)
      BY <2>1, GreatestPlace
    <3>2. h[S \ {Max(S)}] \in T
      BY <1>2, <3>1 DEF IsFold
    <3>. QED
      BY <1>1, <1>2, <2>1, <3>1, <3>2 DEF IsFold
  <2>2. h = [S \in SUBSET (1..n) |-> h[S]] /\ h[{}] = state
    BY <1>2 DEF IsFold
  <2>3. \A S \in SUBSET (1..n) :
           h[S] = IF S = {} THEN state ELSE LET x == Max(S) IN CutAt(h[S \ {x}], Activities[x])
    BY <2>1, <2>2, Zenon
  <2>. QED
    BY <2>2, <2>3, Zenon
<1>4. iter = [S \in SUBSET DOMAIN Activities |-> IF S = {} THEN state
                ELSE LET x == Max(S) IN CutAt(iter[S \ {x}], Activities[x])]
  BY <1>3, Zenon
<1>5. CutAll(state) = iter[1..n]
  BY Zenon DEF CutAll, FoldLeft, MapThenFoldSet
<1>. HIDE DEF iter
<1>6. iter[{}] = state
  BY <1>4, Zenon
<1>7. ASSUME NEW k \in 1..n, iter[1..(k - 1)] \in G[k - 1] PROVE iter[1..k] \in G[k]
  <2>1. 1..k \in SUBSET DOMAIN Activities /\ 1..k # {} /\ Max(1..k) = k /\ (1..k) \ {k} = 1..(k - 1)
    BY PlacesUpTo
  <2>2. iter[1..k] = CutAt(iter[(1..k) \ {Max(1..k)}], Activities[Max(1..k)])
    BY <1>4, <2>1, Zenon
  <2>3. iter[1..k] = CutAt(iter[1..(k - 1)], Activities[k])
    BY <2>1, <2>2
  <2>. QED
    BY <1>7, <2>3
<1>8. iter[1..n] \in G[n]
  BY <1>6, <1>7, FoldKeeps
<1>. QED
  BY <1>5, <1>8

PlacesIn(s, id) == {k \in DOMAIN s : s[k].id = id}
NumberOf(s, id) == Cardinality(PlacesIn(s, id))

LEMMA NumberType == ASSUME NEW E, NEW s \in Seq(E), NEW id PROVE IsFiniteSet(PlacesIn(s, id)) /\ NumberOf(s, id) \in Nat
<1>1. DOMAIN s = 1..Len(s) /\ Len(s) \in Nat
  OBVIOUS
<1>2. IsFiniteSet(DOMAIN s) /\ PlacesIn(s, id) \in SUBSET DOMAIN s
  BY <1>1, IntervalFacts DEF PlacesIn
<1>3. IsFiniteSet(PlacesIn(s, id))
  BY <1>2, FS_Subset
<1>. QED
  BY <1>3, FS_CardinalityType DEF NumberOf

LEMMA AppendedNumber ==
    ASSUME NEW E, NEW s \in Seq(E), NEW e \in E, NEW id
    PROVE  NumberOf(Append(s, e), id) = NumberOf(s, id) + (IF e.id = id THEN 1 ELSE 0)
<1>. DEFINE more == Append(s, e)
            n == Len(s)
<1>1. DOMAIN s = 1..n /\ DOMAIN more = 1..(n + 1) /\ n \in Nat
  OBVIOUS
<1>2. more[n + 1] = e /\ \A k \in 1..n : more[k] = s[k]
  OBVIOUS
<1>3. IsFiniteSet(PlacesIn(s, id)) /\ NumberOf(s, id) \in Nat
  BY NumberType
<1>. HIDE DEF more, n
<1>4. CASE e.id = id
  <2>1. PlacesIn(more, id) = PlacesIn(s, id) \cup {n + 1} /\ n + 1 \notin PlacesIn(s, id)
    BY <1>1, <1>2, <1>4 DEF PlacesIn
  <2>2. Cardinality(PlacesIn(s, id) \cup {n + 1}) = Cardinality(PlacesIn(s, id)) + 1
    BY <1>3, <2>1, FS_AddElement
  <2>. QED
    BY <1>4, <2>1, <2>2 DEF NumberOf, more
<1>5. CASE e.id # id
  <2>1. PlacesIn(more, id) = PlacesIn(s, id)
    BY <1>1, <1>2, <1>5 DEF PlacesIn
  <2>. QED
    BY <1>3, <1>5, <2>1 DEF NumberOf, more
<1>. QED
  BY <1>4, <1>5

\* Sorting loses none.
LEMMA SortedNumber ==
    ASSUME NEW E, NEW seq \in Seq(E), NEW keys \in [DOMAIN seq -> Int], NEW id
    PROVE  NumberOf(seq, id) <= NumberOf([k \in DOMAIN seq |-> seq[Ranked(DOMAIN seq, keys)[k]]], id)
<1>. DEFINE n == Len(seq)
            order == Ranked(DOMAIN seq, keys)
            sorted == [k \in DOMAIN seq |-> seq[order[k]]]
            f == [k \in PlacesIn(sorted, id) |-> order[k]]
<1>1. n \in Nat /\ DOMAIN seq = 1..n
  OBVIOUS
<1>2. IsFiniteSet(1..n) /\ Cardinality(1..n) = n /\ 1..n \subseteq Int
  BY <1>1, IntervalFacts
<1>3. order \in [1..n -> 1..n] /\ \A j \in 1..n : \E p \in 1..n : order[p] = j
  <2>. HIDE DEF n
  <2>1. IsFiniteSet(DOMAIN seq) /\ Cardinality(DOMAIN seq) = n /\ DOMAIN seq \subseteq Int
    BY <1>1, <1>2, Zenon
  <2>2. /\ Ranked(DOMAIN seq, keys) \in [1..Cardinality(DOMAIN seq) -> DOMAIN seq]
        /\ \A j \in DOMAIN seq : \E p \in 1..Cardinality(DOMAIN seq) : Ranked(DOMAIN seq, keys)[p] = j
    BY <2>1, RankedLists, Zenon
  <2>. QED
    BY <1>1, <2>1, <2>2, Zenon
<1>4. sorted \in Seq(E)
  BY SortedType
<1>5. IsFiniteSet(PlacesIn(sorted, id)) /\ NumberOf(sorted, id) \in Nat
  BY <1>4, NumberType
<1>. HIDE DEF order, n
<1>6. f \in Surjection(PlacesIn(sorted, id), PlacesIn(seq, id))
  <2>1. \A k \in PlacesIn(sorted, id) : k \in 1..n /\ seq[order[k]].id = id
    BY <1>1 DEF PlacesIn
  <2>2. f \in [PlacesIn(sorted, id) -> PlacesIn(seq, id)]
    BY <1>1, <1>3, <2>1 DEF PlacesIn
  <2>3. ASSUME NEW j \in PlacesIn(seq, id) PROVE \E k \in PlacesIn(sorted, id) : f[k] = j
    <3>1. j \in 1..n /\ seq[j].id = id
      BY <1>1 DEF PlacesIn
    <3>2. PICK p \in 1..n : order[p] = j
      BY <1>3, <3>1
    <3>3. p \in PlacesIn(sorted, id)
      BY <1>1, <3>1, <3>2 DEF PlacesIn
    <3>. QED
      BY <3>2, <3>3
  <2>. HIDE DEF f, sorted
  <2>. QED
    BY <2>2, <2>3 DEF Surjection
<1>. HIDE DEF f, sorted
<1>7. Cardinality(PlacesIn(seq, id)) <= Cardinality(PlacesIn(sorted, id))
  BY <1>5, <1>6, FS_Surjection
<1>. QED
  BY <1>7 DEF NumberOf, sorted, order

\* Cutting an activity's assignments down to the cap takes as many of a risk away as
\* are counted off, and never counts the last one off.
LEMMA CutDownKeeps ==
    ASSUME NEW E, NEW D, \A e \in E : Impact(e) \in Int /\ e.id \in D, NEW assignments \in Seq(E),
           NEW counts \in [D -> Int], \A id \in D : counts[id] >= 1, Len(assignments) > MAX_RISKS_PER_ACTIVITY
    PROVE  LET end == CutDown(assignments, counts)
           IN  /\ end.kept \in Seq(E) /\ end.counts \in [D -> Int] /\ \A id \in D : end.counts[id] >= 1
               /\ \A id \in D : NumberOf(assignments, id) - counts[id] <= NumberOf(end.kept, id) - end.counts[id]
<1>. DEFINE M == MAX_RISKS_PER_ACTIVITY
            L == Len(assignments)
            keys == [k \in DOMAIN assignments |-> Impact(assignments[k])]
            ranked == [k \in DOMAIN assignments |-> assignments[Ranked(DOMAIN assignments, keys)[k]]]
            n == L - M
            rest == SubSeq(ranked, M + 1, L)
            first == [kept |-> SubSeq(ranked, 1, M), counts |-> counts]
            Leftover(k, id) == {p \in (M + k + 1)..L : ranked[p].id = id}
            T == {s \in [kept : Seq(E), counts : [D -> Int]] : \A id \in D : s.counts[id] >= 1}
            Even(s, k) == \A id \in D : NumberOf(assignments, id) - counts[id] <= NumberOf(s.kept, id) + Cardinality(Leftover(k, id)) - s.counts[id]
            G == [k \in 0..n |-> {s \in T : Even(s, k)}]
<1>1. M \in Nat /\ L \in Nat /\ n \in Nat /\ M <= L /\ DOMAIN assignments = 1..L /\ n = L - M
  BY MappingAssumption
<1>2. keys \in [DOMAIN assignments -> Int]
  <2>1. \A k \in DOMAIN assignments : assignments[k] \in E
    OBVIOUS
  <2>. QED
    BY <2>1
<1>3. Descending(assignments, Impact) = ranked
  BY DEF Descending
<1>. HIDE DEF keys
<1>4. ranked \in Seq(E) /\ \A id : NumberOf(assignments, id) <= NumberOf(ranked, id)
  BY <1>2, SortedType, SortedNumber
<1>5. DOMAIN ranked = 1..L /\ Len(ranked) = L
  <2>1. DOMAIN ranked = DOMAIN assignments
    OBVIOUS
  <2>. HIDE DEF ranked
  <2>. QED
    BY <1>1, <1>4, <2>1
<1>6. CutDown(assignments, counts) = TrimmedAll(first, rest)
  <2>. HIDE DEF ranked
  <2>. QED
    BY <1>3, <1>5 DEF CutDown
<1>. HIDE DEF ranked, M, L, n
<1>7. first.kept \in Seq(E) /\ rest \in Seq(E) /\ Len(rest) = n /\ DOMAIN rest = 1..n /\ \A k \in 1..n : rest[k] = ranked[M + k]
  <2>1. \A k \in 1..L : ranked[k] \in E
    BY <1>4, <1>5
  <2>2. SubSeq(ranked, 1, M) = [k \in 1..M |-> ranked[k]]
    BY <1>1, <1>4, <1>5
  <2>3. rest = [k \in 1..n |-> ranked[M + k]]
    BY <1>1, <1>4, <1>5
  <2>4. first.kept \in Seq(E)
    BY <1>1, <2>1, <2>2
  <2>5. rest \in Seq(E)
    BY <1>1, <2>1, <2>3
  <2>. QED
    BY <1>1, <2>3, <2>4, <2>5
<1>. HIDE DEF rest
<1>8. \A k \in 0..n : \A id : IsFiniteSet(Leftover(k, id)) /\ Cardinality(Leftover(k, id)) \in Nat
  <2>. SUFFICES ASSUME NEW k \in 0..n, NEW id PROVE IsFiniteSet(Leftover(k, id)) /\ Cardinality(Leftover(k, id)) \in Nat
    OBVIOUS
  <2>1. IsFiniteSet(1..L) /\ Leftover(k, id) \in SUBSET (1..L)
    BY <1>1, IntervalFacts
  <2>2. IsFiniteSet(Leftover(k, id))
    BY <2>1, FS_Subset
  <2>. QED
    BY <2>2, FS_CardinalityType
<1>9. first \in G[0]
  <2>1. first \in T
    BY <1>7
  <2>2. Even(first, 0)
    <3>. SUFFICES ASSUME NEW id \in D
                  PROVE  NumberOf(assignments, id) - counts[id] <= NumberOf(first.kept, id) + Cardinality(Leftover(0, id)) - first.counts[id]
      OBVIOUS
    <3>. DEFINE kept == SubSeq(ranked, 1, M)
    <3>1. kept = [k \in 1..M |-> ranked[k]]
      BY <1>1, <1>4, <1>5
    <3>2. PlacesIn(ranked, id) \subseteq PlacesIn(kept, id) \cup Leftover(0, id)
      <4>. HIDE DEF kept
      <4>. QED
        BY <1>1, <1>5, <3>1 DEF PlacesIn
    <3>3. kept \in Seq(E) /\ first.kept = kept /\ first.counts = counts
      BY <1>7
    <3>. HIDE DEF kept, first, Leftover
    <3>4. IsFiniteSet(PlacesIn(kept, id)) /\ NumberOf(kept, id) \in Nat /\ NumberOf(ranked, id) \in Nat /\ NumberOf(assignments, id) \in Nat
      BY <1>4, <3>3, NumberType
    <3>5. IsFiniteSet(Leftover(0, id)) /\ Cardinality(Leftover(0, id)) \in Nat
      BY <1>1, <1>8
    <3>6. /\ IsFiniteSet(PlacesIn(kept, id) \cup Leftover(0, id))
          /\ Cardinality(PlacesIn(kept, id) \cup Leftover(0, id)) 
                = NumberOf(kept, id) + Cardinality(Leftover(0, id)) - Cardinality(PlacesIn(kept, id) \cap Leftover(0, id))
      BY <3>4, <3>5, FS_Union DEF NumberOf
    <3>7. Cardinality(PlacesIn(kept, id) \cap Leftover(0, id)) \in Nat
      <4>1. IsFiniteSet(PlacesIn(kept, id) \cap Leftover(0, id))
        BY <3>4, FS_Subset
      <4>. QED
        BY <4>1, FS_CardinalityType
    <3>8. NumberOf(ranked, id) <= Cardinality(PlacesIn(kept, id) \cup Leftover(0, id))
      BY <3>2, <3>6, FS_Subset DEF NumberOf
    <3>9. Cardinality(PlacesIn(kept, id) \cup Leftover(0, id)) \in Nat
      BY <3>6, FS_CardinalityType
    <3>10. NumberOf(assignments, id) <= NumberOf(ranked, id) /\ counts[id] \in Int
      BY <1>4
    <3>. QED
      BY <3>3, <3>4, <3>5, <3>6, <3>7, <3>8, <3>9, <3>10
  <2>. HIDE DEF T, Even, first
  <2>. QED
    BY <1>1, <2>1, <2>2
<1>. HIDE DEF first
<1>10. ASSUME NEW k \in 1..n, NEW s \in T PROVE Trimmed(s, rest[k]) \in T /\ (Even(s, k - 1) => Even(Trimmed(s, rest[k]), k))
  <2>. DEFINE r == rest[k]
              next == Trimmed(s, r)
  <2>1. r \in E /\ r.id \in D /\ s.kept \in Seq(E) /\ s.counts \in [D -> Int] /\ r = ranked[M + k]
    BY <1>7
  <2>. HIDE DEF r
  <2>2. \A id \in D : Leftover(k - 1, id) = Leftover(k, id) \cup (IF r.id = id THEN {M + k} ELSE {}) /\ M + k \notin Leftover(k, id)
    <3>1. (M + (k - 1) + 1)..L = ((M + k + 1)..L) \cup {M + k} /\ M + k \notin (M + k + 1)..L
      BY <1>1
    <3>. QED
      BY <2>1, <3>1
  <2>3. \A id \in D : Cardinality(Leftover(k - 1, id)) = Cardinality(Leftover(k, id)) + (IF r.id = id THEN 1 ELSE 0)
    <3>. SUFFICES ASSUME NEW id \in D PROVE Cardinality(Leftover(k - 1, id)) = Cardinality(Leftover(k, id)) + (IF r.id = id THEN 1 ELSE 0)
      OBVIOUS
    <3>1. IsFiniteSet(Leftover(k, id)) /\ Cardinality(Leftover(k, id)) \in Nat
      <4>1. k \in 0..n
        BY <1>1
      <4>. HIDE DEF Leftover
      <4>. QED
        BY <1>8, <4>1
    <3>2. Leftover(k - 1, id) = Leftover(k, id) \cup (IF r.id = id THEN {M + k} ELSE {}) /\ M + k \notin Leftover(k, id)
      BY <2>2
    <3>. HIDE DEF Leftover, r
    <3>3. Cardinality(Leftover(k, id) \cup {M + k}) = Cardinality(Leftover(k, id)) + 1
      BY <3>1, <3>2, FS_AddElement
    <3>4. CASE r.id = id
      BY <3>2, <3>3, <3>4
    <3>5. CASE r.id # id
      <4>1. Leftover(k - 1, id) = Leftover(k, id)
        BY <3>2, <3>5
      <4>. QED
        BY <3>1, <3>5, <4>1
    <3>. QED
      BY <3>4, <3>5
  <2>4. \A id \in D : /\ Cardinality(Leftover(k, id)) \in Nat /\ Cardinality(Leftover(k - 1, id)) \in Nat
                     /\ NumberOf(s.kept, id) \in Nat /\ NumberOf(assignments, id) \in Nat
    <3>1. k \in 0..n /\ k - 1 \in 0..n
      BY <1>1
    <3>. HIDE DEF Leftover
    <3>. QED
      BY <1>8, <2>1, <3>1, NumberType
  <2>5. s = [kept |-> s.kept, counts |-> s.counts] /\ \A id \in D : s.counts[id] \in Int /\ s.counts[id] >= 1
    BY <2>1
  <2>. HIDE DEF r, Leftover
  <2>6. CASE s.counts[r.id] <= 1
    <3>1. next = [kept |-> Append(s.kept, r), counts |-> s.counts]
      BY <2>5, <2>6 DEF Trimmed
    <3>2. Append(s.kept, r) \in Seq(E)
      BY <2>1
    <3>3. next \in T
      BY <2>1, <2>5, <3>1, <3>2
    <3>4. \A id \in D : NumberOf(Append(s.kept, r), id) = NumberOf(s.kept, id) + (IF r.id = id THEN 1 ELSE 0)
      BY <2>1, AppendedNumber
    <3>5. next.kept = Append(s.kept, r) /\ next.counts = s.counts
      BY <3>1
    <3>. HIDE DEF next
    <3>6. ASSUME Even(s, k - 1) PROVE Even(next, k)
      <4>. SUFFICES ASSUME NEW id \in D
                    PROVE  NumberOf(assignments, id) - counts[id] <= NumberOf(next.kept, id) + Cardinality(Leftover(k, id)) - next.counts[id]
        OBVIOUS
      <4>1. NumberOf(assignments, id) - counts[id] <= NumberOf(s.kept, id) + Cardinality(Leftover(k - 1, id)) - s.counts[id]
        BY <3>6
      <4>. DEFINE one == IF r.id = id THEN 1 ELSE 0
      <4>2. NumberOf(next.kept, id) = NumberOf(s.kept, id) + one /\ Cardinality(Leftover(k - 1, id)) = Cardinality(Leftover(k, id)) + one
        BY <2>3, <3>4, <3>5
      <4>3. one \in Int /\ Cardinality(Leftover(k, id)) \in Int /\ NumberOf(s.kept, id) \in Int
        BY <2>4
      <4>. HIDE DEF one
      <4>4. NumberOf(next.kept, id) + Cardinality(Leftover(k, id)) - s.counts[id]
              = NumberOf(s.kept, id) + Cardinality(Leftover(k - 1, id)) - s.counts[id]
        BY <4>2, <4>3
      <4>. QED
        BY <3>5, <4>1, <4>4
    <3>. QED
      BY <3>3, <3>6 DEF next, r
  <2>7. CASE ~(s.counts[r.id] <= 1)
    <3>. DEFINE fewer == [s.counts EXCEPT ![r.id] = @ - 1]
    <3>1. next = [kept |-> s.kept, counts |-> fewer]
      BY <2>5, <2>7 DEF Trimmed, Dropped
    <3>2. fewer \in [D -> Int] /\ \A id \in D : fewer[id] = s.counts[id] - (IF r.id = id THEN 1 ELSE 0)
      BY <2>1, <2>5
    <3>3. \A id \in D : fewer[id] >= 1
      BY <2>1, <2>5, <2>7, <3>2
    <3>. HIDE DEF fewer
    <3>4. next \in T
      BY <2>1, <3>1, <3>2, <3>3
    <3>5. next.kept = s.kept /\ next.counts = fewer
      BY <3>1
    <3>. HIDE DEF next
    <3>6. ASSUME Even(s, k - 1) PROVE Even(next, k)
      <4>. SUFFICES ASSUME NEW id \in D
                    PROVE  NumberOf(assignments, id) - counts[id] <= NumberOf(next.kept, id) + Cardinality(Leftover(k, id)) - next.counts[id]
        OBVIOUS
      <4>1. NumberOf(assignments, id) - counts[id] <= NumberOf(s.kept, id) + Cardinality(Leftover(k - 1, id)) - s.counts[id]
        BY <3>6
      <4>. DEFINE one == IF r.id = id THEN 1 ELSE 0
      <4>2. fewer[id] = s.counts[id] - one /\ Cardinality(Leftover(k - 1, id)) = Cardinality(Leftover(k, id)) + one
        BY <2>3, <3>2
      <4>3. one \in Int /\ Cardinality(Leftover(k, id)) \in Int /\ NumberOf(s.kept, id) \in Int /\ s.counts[id] \in Int
        BY <2>4, <2>5
      <4>. HIDE DEF one
      <4>4. NumberOf(s.kept, id) + Cardinality(Leftover(k, id)) - fewer[id] = NumberOf(s.kept, id) + Cardinality(Leftover(k - 1, id)) - s.counts[id]
        BY <4>2, <4>3
      <4>. QED
        BY <3>5, <4>1, <4>4
    <3>. QED
      BY <3>4, <3>6 DEF next, r
  <2>. QED
    BY <2>6, <2>7
<1>11. first \in T /\ Even(first, 0)
  <2>. HIDE DEF T, Even
  <2>. QED
    BY <1>1, <1>9
<1>. HIDE DEF T, Even
<1>12. \A k \in 1..n : \A s \in G[k - 1] : Trimmed(s, rest[k]) \in G[k]
  <2>. SUFFICES ASSUME NEW k \in 1..n, NEW s \in G[k - 1] PROVE Trimmed(s, rest[k]) \in G[k]
    OBVIOUS
  <2>1. k - 1 \in 0..n /\ k \in 0..n
    BY <1>1
  <2>2. s \in T /\ Even(s, k - 1)
    BY <2>1
  <2>. QED
    BY <1>10, <2>1, <2>2
<1>13. TrimmedAll(first, rest) \in G[n]
  <2>. HIDE DEF G, rest
  <2>1. \A k \in 1..n : \A s \in T : Trimmed(s, rest[k]) \in T
    BY <1>10
  <2>. QED
    BY <1>1, <1>7, <1>9, <1>11, <1>12, <2>1, TrimmingGoesOn
<1>. DEFINE end == CutDown(assignments, counts)
<1>14. end \in T /\ Even(end, n)
  BY <1>1, <1>6, <1>13
<1>. HIDE DEF end
<1>15. \A id \in D : Leftover(n, id) = {} /\ Cardinality(Leftover(n, id)) = 0
  <2>1. \A id \in D : Leftover(n, id) = {}
    BY <1>1
  <2>. QED
    BY <2>1, FS_EmptySet
<1>16. end.kept \in Seq(E) /\ end.counts \in [D -> Int] /\ \A id \in D : end.counts[id] >= 1
  BY <1>14 DEF T
<1>17. ASSUME NEW id \in D PROVE NumberOf(assignments, id) - counts[id] <= NumberOf(end.kept, id) - end.counts[id]
  <2>1. NumberOf(assignments, id) - counts[id] <= NumberOf(end.kept, id) + Cardinality(Leftover(n, id)) - end.counts[id]
    BY <1>14 DEF Even
  <2>2. NumberOf(end.kept, id) \in Int /\ NumberOf(assignments, id) \in Int /\ counts[id] \in Int /\ end.counts[id] \in Int
    BY <1>16, NumberType
  <2>. HIDE DEF Leftover
  <2>. QED
    BY <1>15, <2>1, <2>2
<1>. QED
  BY <1>16, <1>17 DEF end

Elsewhere(links, a, id) == UNION {{b} \X PlacesIn(links[b], id) : b \in Ids \ {a}}

\* The places of a risk: those on one activity, and those elsewhere.
LEMMA PlacesSplit ==
    ASSUME NEW E, NEW links \in Links(E), NEW id
    PROVE  /\ IsFiniteSet(Places(links, id)) /\ Cardinality(Places(links, id)) \in Nat
           /\ \A a \in Ids : /\ Cardinality(Elsewhere(links, a, id)) \in Nat
                             /\ Cardinality(Places(links, id)) = Cardinality(Elsewhere(links, a, id)) + NumberOf(links[a], id)
<1>1. Places(links, id) = UNION {{a} \X PlacesIn(links[a], id) : a \in Ids}
  BY DEF Places, PlacesIn
<1>2. \A a \in Ids : IsFiniteSet(PlacesIn(links[a], id)) /\ NumberOf(links[a], id) \in Nat
  BY NumberType DEF Links
<1>3. ASSUME NEW a \in Ids
      PROVE  IsFiniteSet({a} \X PlacesIn(links[a], id)) /\ Cardinality({a} \X PlacesIn(links[a], id)) = NumberOf(links[a], id)
  <2>1. IsFiniteSet({a}) /\ Cardinality({a}) = 1
    BY FS_Singleton
  <2>2. /\ IsFiniteSet({a} \X PlacesIn(links[a], id))
        /\ Cardinality({a} \X PlacesIn(links[a], id)) = Cardinality({a}) * Cardinality(PlacesIn(links[a], id))
    BY <1>2, <2>1, FS_Product
  <2>. QED
    BY <1>2, <2>1, <2>2 DEF NumberOf
<1>4. IsFiniteSet(Ids)
  <2>1. Len(Activities) \in Nat /\ DOMAIN Activities = 1..Len(Activities)
    BY MappingAssumption
  <2>2. Activities \in Surjection(1..Len(Activities), Ids)
    <3>1. \A a \in Ids : \E k \in 1..Len(Activities) : Activities[k] = a
      BY <2>1, ActivityIds
    <3>2. Activities \in [1..Len(Activities) -> Ids]
      BY MappingAssumption DEF Ids
    <3>. QED
      BY <3>1, <3>2 DEF Surjection
  <2>3. IsFiniteSet(1..Len(Activities))
    BY <2>1, IntervalFacts
  <2>. QED
    BY <2>2, <2>3, FS_Surjection
<1>5. ASSUME NEW S \in SUBSET Ids PROVE IsFiniteSet(UNION {{b} \X PlacesIn(links[b], id) : b \in S})
  <2>. DEFINE f == [b \in S |-> {b} \X PlacesIn(links[b], id)]
              U == {{b} \X PlacesIn(links[b], id) : b \in S}
  <2>1. IsFiniteSet(S)
    BY <1>4, FS_Subset
  <2>2. f \in Surjection(S, U)
    BY DEF Surjection
  <2>3. IsFiniteSet(U)
    <3>. HIDE DEF f, U
    <3>. QED
      BY <2>1, <2>2, FS_Surjection
  <2>4. \A W \in U : IsFiniteSet(W)
    BY <1>3
  <2>. HIDE DEF U
  <2>5. IsFiniteSet(UNION U)
    BY <2>3, <2>4, FS_UNION
  <2>. QED
    BY <2>5 DEF U
<1>6. IsFiniteSet(Places(links, id))
  <2>1. Ids \in SUBSET Ids
    OBVIOUS
  <2>. QED
    BY <1>1, <1>5, <2>1
<1>7. ASSUME NEW a \in Ids
      PROVE  /\ Cardinality(Elsewhere(links, a, id)) \in Nat
             /\ Cardinality(Places(links, id)) = Cardinality(Elsewhere(links, a, id)) + NumberOf(links[a], id)
  <2>. DEFINE here == {a} \X PlacesIn(links[a], id)
              there == Elsewhere(links, a, id)
  <2>1. IsFiniteSet(there)
    <3>1. Ids \ {a} \in SUBSET Ids
      OBVIOUS
    <3>. QED
      BY <1>5, <3>1 DEF Elsewhere
  <2>2. Places(links, id) = there \cup here
    BY <1>1 DEF Elsewhere
  <2>3. there \cap here = {}
    BY DEF Elsewhere
  <2>. HIDE DEF here, there
  <2>4. IsFiniteSet(here) /\ Cardinality(here) = NumberOf(links[a], id)
    BY <1>3 DEF here
  <2>5. Cardinality(there \cup here) = Cardinality(there) + Cardinality(here) - Cardinality(there \cap here)
    BY <2>1, <2>4, FS_Union
  <2>6. Cardinality(there \cap here) = 0 /\ Cardinality(there) \in Nat
    BY <2>1, <2>3, FS_EmptySet, FS_CardinalityType
  <2>. QED
    BY <1>2, <2>2, <2>4, <2>5, <2>6 DEF there
<1>8. Cardinality(Places(links, id)) \in Nat
  BY <1>6, FS_CardinalityType
<1>. QED
  BY <1>6, <1>7, <1>8

\* The counts do not exceed the places that are left.
Tallied(E, D) ==
    {s \in [links : Links(E), counts : [D -> Int]] :
        \A id \in D : s.counts[id] >= 1 /\ s.counts[id] <= Cardinality(Places(s.links, id))}

LEMMA CutKeeps ==
    ASSUME NEW E, NEW D, \A e \in E : Impact(e) \in Int /\ e.id \in D, NEW s \in Tallied(E, D), NEW a \in Ids
    PROVE  CutAt(s, a) \in Tallied(E, D)
<1>. DEFINE end == CutDown(s.links[a], s.counts)
            cut == [s.links EXCEPT ![a] = end.kept]
<1>1. s.links \in [Ids -> Seq(E)] /\ s.counts \in [D -> Int] /\ s.links[a] \in Seq(E) /\ Len(s.links[a]) \in Nat
  BY DEF Tallied, Links
<1>2. \A id \in D : s.counts[id] >= 1 /\ s.counts[id] <= Cardinality(Places(s.links, id))
  BY DEF Tallied
<1>3. CASE Len(s.links[a]) <= MAX_RISKS_PER_ACTIVITY
  <2>1. CutAt(s, a) = s
    BY <1>3 DEF CutAt
  <2>. QED
    BY <2>1
<1>4. CASE ~(Len(s.links[a]) <= MAX_RISKS_PER_ACTIVITY)
  <2>1. Len(s.links[a]) > MAX_RISKS_PER_ACTIVITY
    BY <1>1, <1>4, MappingAssumption
  <2>2. CutAt(s, a) = [links |-> cut, counts |-> end.counts]
    BY <1>4, Zenon DEF CutAt
  <2>3. /\ end.kept \in Seq(E) /\ end.counts \in [D -> Int] /\ \A id \in D : end.counts[id] >= 1
        /\ \A id \in D : NumberOf(s.links[a], id) - s.counts[id] <= NumberOf(end.kept, id) - end.counts[id]
    <3>1. \A id \in D : s.counts[id] >= 1
      BY <1>2
    <3>. QED
      BY <1>1, <2>1, <3>1, CutDownKeeps
  <2>. HIDE DEF end
  <2>4. cut \in Links(E) /\ cut[a] = end.kept /\ \A b \in Ids \ {a} : cut[b] = s.links[b]
    BY <1>1, <2>3 DEF Links
  <2>. HIDE DEF cut
  <2>5. ASSUME NEW id \in D PROVE end.counts[id] <= Cardinality(Places(cut, id))
    <3>1. Elsewhere(cut, a, id) = Elsewhere(s.links, a, id)
      BY <2>4 DEF Elsewhere
    <3>2. /\ Cardinality(Places(cut, id)) = Cardinality(Elsewhere(cut, a, id)) + NumberOf(end.kept, id)
          /\ Cardinality(Elsewhere(cut, a, id)) \in Nat
      BY <2>4, PlacesSplit
    <3>3. Cardinality(Places(s.links, id)) = Cardinality(Elsewhere(s.links, a, id)) + NumberOf(s.links[a], id)
      BY <1>1, PlacesSplit DEF Links
    <3>4. NumberOf(s.links[a], id) \in Int /\ NumberOf(end.kept, id) \in Int /\ s.counts[id] \in Int /\ end.counts[id] \in Int
      BY <1>1, <2>3, NumberType
    <3>5. NumberOf(s.links[a], id) - s.counts[id] <= NumberOf(end.kept, id) - end.counts[id]
      BY <2>3
    <3>. QED
      BY <1>2, <3>1, <3>2, <3>3, <3>4, <3>5
  <2>6. CutAt(s, a) \in [links : Links(E), counts : [D -> Int]] /\ CutAt(s, a).links = cut /\ CutAt(s, a).counts = end.counts
    BY <2>2, <2>3, <2>4
  <2>. QED
    BY <2>3, <2>5, <2>6 DEF Tallied
<1>. QED
  BY <1>3, <1>4

\* Capping leaves every risk on an activity that was on one.
LEMMA CapMaps ==
    ASSUME NEW E, \A e \in E : Impact(e) \in Int, NEW K, NEW links \in Mapping(E, K)
    PROVE  Capped(links) \in Mapping(E, K)
<1>. DEFINE D == Mapped(links)
            F == {e \in E : e.id \in D}
            T == Tallied(F, D)
            n == Len(Activities)
            G == [k \in 0..n |-> T]
            state == [links |-> links, counts |-> [id \in D |-> Cardinality(Places(links, id))]]
<1>1. links \in Links(E) /\ K \subseteq D
  BY DEF Mapping
<1>2. links \in Links(F)
  <2>1. ASSUME NEW a \in Ids PROVE links[a] \in Seq(F)
    <3>1. links[a] \in Seq(E) /\ DOMAIN links[a] = 1..Len(links[a]) /\ Len(links[a]) \in Nat
      BY <1>1 DEF Links
    <3>2. \A k \in 1..Len(links[a]) : links[a][k] \in E /\ links[a][k] \in Range(links[a])
      BY <3>1 DEF Range
    <3>3. \A k \in 1..Len(links[a]) : links[a][k].id \in D
      BY <3>2 DEF Mapped
    <3>. QED
      BY <3>1, <3>2, <3>3
  <2>. HIDE DEF F
  <2>. QED
    BY <1>1, <2>1 DEF Links
<1>3. \A e \in F : Impact(e) \in Int /\ e.id \in D
  OBVIOUS
<1>. HIDE DEF F
<1>4. ASSUME NEW id \in D PROVE Cardinality(Places(links, id)) \in Nat /\ Cardinality(Places(links, id)) >= 1
  <2>1. IsFiniteSet(Places(links, id)) /\ Cardinality(Places(links, id)) \in Nat
    BY <1>1, PlacesSplit
  <2>2. PICK a \in Ids : \E r \in Range(links[a]) : r.id = id
    BY DEF Mapped
  <2>3. PICK k \in DOMAIN links[a] : links[a][k].id = id
    BY <2>2 DEF Range
  <2>4. <<a, k>> \in Places(links, id)
    BY <2>3 DEF Places
  <2>5. Cardinality(Places(links, id)) # 0
    BY <2>1, <2>4, FS_EmptySet
  <2>. QED
    BY <2>1, <2>5
<1>5. state \in T
  <2>1. \A id \in D : state.counts[id] = Cardinality(Places(links, id)) /\ Cardinality(Places(links, id)) \in Int
    BY <1>4
  <2>2. state.counts \in [D -> Int] /\ state.links = links
    BY <2>1
  <2>3. state \in [links : Links(F), counts : [D -> Int]]
    BY <1>2, <2>2
  <2>. HIDE DEF state, D
  <2>. QED
    BY <1>4, <2>1, <2>2, <2>3 DEF Tallied
<1>. HIDE DEF D
<1>6. n \in Nat /\ DOMAIN Activities = 1..n /\ \A k \in 1..n : Activities[k] \in Ids
  BY MappingAssumption, ListFacts DEF Ids
<1>7. \A k \in 1..n : \A t \in T : CutAt(t, Activities[k]) \in T
  BY <1>3, <1>6, CutKeeps
<1>. HIDE DEF T
<1>8. state \in G[0] /\ \A k \in 1..n : \A t \in G[k - 1] : CutAt(t, Activities[k]) \in G[k]
  <2>1. 0 \in 0..n /\ \A k \in 1..n : k \in 0..n /\ k - 1 \in 0..n
    BY <1>6
  <2>. HIDE DEF n, state
  <2>. QED
    BY <1>5, <1>7, <2>1
<1>9. CutAll(state) \in G[n]
  <2>. HIDE DEF G, state
  <2>. QED
    BY <1>5, <1>6, <1>7, <1>8, CutsGoOn
<1>. DEFINE end == CutAll(state)
<1>10. end \in T
  <2>1. n \in 0..n
    BY <1>6
  <2>. HIDE DEF n
  <2>. QED
    BY <1>9, <2>1
<1>11. Capped(links) = end.links
  BY DEF Capped, D
<1>. HIDE DEF end
<1>12. /\ end.links \in Links(F) /\ end.counts \in [D -> Int]
       /\ \A id \in D : end.counts[id] >= 1 /\ end.counts[id] <= Cardinality(Places(end.links, id))
  BY <1>10 DEF T, Tallied
<1>13. D \subseteq Mapped(end.links)
  <2>. SUFFICES ASSUME NEW id \in D PROVE id \in Mapped(end.links)
    OBVIOUS
  <2>1. Cardinality(Places(end.links, id)) \in Nat /\ end.counts[id] \in Int
    BY <1>12, PlacesSplit
  <2>2. Cardinality(Places(end.links, id)) # 0
    BY <1>12, <2>1
  <2>3. Places(end.links, id) # {}
    BY <2>2, FS_EmptySet
  <2>4. PICK a \in Ids : \E k \in DOMAIN end.links[a] : end.links[a][k].id = id
    BY <2>3 DEF Places
  <2>5. \E r \in Range(end.links[a]) : r.id = id
    BY <2>4 DEF Range
  <2>. QED
    BY <2>5 DEF Mapped
<1>14. end.links \in Links(E)
  <2>1. \A s \in Seq(F) : s \in Seq(E)
    BY DEF F
  <2>. QED
    BY <1>12, <2>1 DEF Links
<1>. QED
  BY <1>1, <1>11, <1>13, <1>14 DEF Mapping

-----------------------------------------------------------------------------
(* RiskPage: what an assessment leaves on the activities. *)

LEMMA IntelligentMaps ==
    ASSUME NEW register, IsRegister(register), NEW mapping, IsMapping(mapping), NEW riskScore, Ids # {}
    PROVE  LET A == AnchoredIds(register, mapping.entries)
           IN  intelligentLinks(register, mapping.entries, riskScore) \in Mapping(Entries(Range(register), A), A \cup Listed(register))
<1>. DEFINE A == AnchoredIds(register, mapping.entries)
            E == Entries(Range(register), A)
            K == A \cup Listed(register)
            explicit == Explicitly(register, mapping.entries, riskScore)
            covered == ensureExternalRiskCoverage(explicit, register, riskScore)
            capped == Capped(covered)
<1>1. register \in Seq(Range(register)) /\ AreRisks(Range(register))
  BY DEF IsRegister, AreRisks
<1>2. explicit \in Mapping(E, A)
  BY <1>1, ExplicitMaps DEF IsMapping
<1>. HIDE DEF A, explicit
<1>3. covered \in Mapping(E, K)
  BY <1>1, <1>2, CoverageMaps
<1>4. \A e \in E : Impact(e) \in Int
  BY <1>1, EntryFacts
<1>. HIDE DEF E, covered
<1>5. capped \in Mapping(E, K)
  BY <1>3, <1>4, CapMaps
<1>. HIDE DEF capped
<1>6. capped \in Mapping(E, A)
  BY <1>5 DEF Mapping
<1>7. ensureExternalRiskCoverage(capped, register, riskScore) \in Mapping(E, K)
  BY <1>1, <1>6, CoverageMaps DEF E
<1>8. intelligentLinks(register, mapping.entries, riskScore) = ensureExternalRiskCoverage(capped, register, riskScore)
  BY Zenon DEF intelligentLinks, capped, covered, explicit
<1>. QED
  BY <1>7, <1>8 DEF A, E

LEMMA EnrichedKeeps == ASSUME NEW links, NEW riskScore, NEW amp, NEW a \in Ids
                       PROVE  Enriched(links, riskScore, amp)[a].externalRisks = links[a]
<1>. DEFINE cost(b) == Highest(links[b], LAMBDA r : r.weightedCost)
            schedule(b) == Highest(links[b], LAMBDA r : r.weightedSchedule)
            top == Max({0} \cup {Most(cost(b), schedule(b)) : b \in Ids})
            external(b) == Unit(Normalised(schedule(b), top))
            confidence(b) == IF links[b] = <<>> THEN 500 ELSE Confidence(links[b])
            combined(b) == computeCombinedRisk(riskScore[b], external(b), Traits[b].phase, confidence(b), Traits[b].critical, amp)
            c(b) == Unit(Normalised(cost(b), top))
            s(b) == Unit(Normalised(Most(cost(b), schedule(b)), top))
            scores(b) == [externalRisks |-> links[b], externalCostRisk |-> c(b), externalScheduleRisk |-> external(b),
                          externalRiskScore |-> s(b), confidence |-> confidence(b), combined |-> combined(b)]
<1>1. Enriched(links, riskScore, amp) = [b \in Ids |-> scores(b)]
  BY Zenon DEF Enriched
<1>. HIDE DEF cost, schedule, top, external, confidence, combined, c, s
<1>2. scores(a).externalRisks = links[a]
  OBVIOUS
<1>. HIDE DEF scores
<1>. QED
  BY <1>1, <1>2

\* Links that map something are not of an emergency.
LEMMA SomeMapped ==
    ASSUME NEW E, NEW K, K # {}, NEW links \in Mapping(E, K), NEW enriched, \A a \in Ids : enriched[a].externalRisks = links[a]
    PROVE  ~NoneMapped(enriched)
<1>1. PICK id \in K : id \in Mapped(links)
  BY DEF Mapping
<1>2. PICK a \in Ids : \E r \in Range(links[a]) : r.id = id
  BY <1>1 DEF Mapped
<1>3. links[a] # <<>>
  BY <1>2 DEF Range
<1>. QED
  BY <1>3 DEF NoneMapped

\* An assessment of a register puts each of its risks on an activity, by the coverage
\* only those that the mapping has on none.
Assessable(register, mapping, riskScore) ==
    IsRegister(register) /\ register # <<>> /\ IsMapping(mapping) /\ riskScore \in [Ids -> Int] /\ Ids # {}
Assessed(register, mapping, enriched) ==
    \E links \in Mapping(Entries(Range(register), AnchoredIds(register, mapping.entries)), Listed(register)) :
        \A a \in Ids : enriched[a].externalRisks = links[a]
LEMMA ApplyMaps ==
    ASSUME NEW register, NEW mapping, NEW riskScore, Assessable(register, mapping, riskScore),
           NEW riskMappings, DOMAIN riskMappings = {}, NEW amp
    PROVE  Assessed(register, mapping, applyRisks(register, mapping.entries, riskMappings, riskScore, amp))
<1>. USE DEF Assessable, Assessed
<1>. DEFINE A == AnchoredIds(register, mapping.entries)
            E == Entries(Range(register), A)
            K == Listed(register)
            intelligent == intelligentLinks(register, mapping.entries, riskScore)
            basic == basicLinks(register, riskMappings, riskScore)
            byMapping == Enriched(intelligent, riskScore, amp)
            byCategory == Enriched(basic, riskScore, amp)
            Right(enriched) == \E links \in Mapping(E, K) : \A a \in Ids : enriched[a].externalRisks = links[a]
<1>1. register \in Seq(Range(register)) /\ AreRisks(Range(register))
  BY DEF IsRegister, AreRisks
<1>2. K # {}
  <2>1. register[1] \in Range(register)
    BY <1>1 DEF Range
  <2>. QED
    BY <2>1 DEF Listed
<1>3. basic \in Mapping(E, K)
  BY <1>1, BasicMaps
<1>4. intelligent \in Mapping(E, K)
  <2>1. intelligent \in Mapping(E, A \cup K)
    BY IntelligentMaps
  <2>. QED
    BY <2>1 DEF Mapping
<1>. HIDE DEF A, E, K, intelligent, basic
<1>5. Right(byCategory) /\ ~NoneMapped(byCategory)
  <2>1. \A a \in Ids : byCategory[a].externalRisks = basic[a]
    BY EnrichedKeeps
  <2>. HIDE DEF byCategory
  <2>. QED
    BY <1>2, <1>3, <2>1, SomeMapped
<1>6. Right(byMapping) /\ ~NoneMapped(byMapping)
  <2>1. \A a \in Ids : byMapping[a].externalRisks = intelligent[a]
    BY EnrichedKeeps
  <2>. HIDE DEF byMapping
  <2>. QED
    BY <1>2, <1>4, <2>1, SomeMapped
<1>7. applyRisks(register, mapping.entries, riskMappings, riskScore, amp) =
        InEmergency(IF mapping.entries = <<>> THEN byCategory ELSE Unless(byMapping, byCategory), register)
  BY Zenon DEF applyRisks, intelligent, basic
<1>. HIDE DEF byMapping, byCategory
<1>8. \/ applyRisks(register, mapping.entries, riskMappings, riskScore, amp) = byCategory
      \/ applyRisks(register, mapping.entries, riskMappings, riskScore, amp) = byMapping
  <2>1. \A e : ~NoneMapped(e) => InEmergency(e, register) = e /\ Unless(e, byCategory) = e
    BY DEF InEmergency, Unless
  <2>. QED
    BY <1>5, <1>6, <1>7, <2>1
<1>. QED
  BY <1>5, <1>6, <1>8 DEF A, E, K

\* What is written to an activity is on it, and its score is a number.
LEMMA RisksWritten ==
    ASSUME NEW r, IsActivity(r), r.riskScore \in Int, NEW e
    PROVE  LET q == Propagated(Written(r, e)) IN IsActivity(q) /\ q.riskScore \in Int /\ q.externalRisks = e.externalRisks
<1>. DEFINE w1 == [r EXCEPT !.externalRisks = e.externalRisks]
            w2 == [w1 EXCEPT !.externalRiskScore = e.externalRiskScore]
            w3 == [w2 EXCEPT !.externalCostRisk = e.externalCostRisk]
            w4 == [w3 EXCEPT !.externalScheduleRisk = e.externalScheduleRisk]
            w == [w4 EXCEPT !.combined = e.combined]
            Same(q) == IsActivity(q) /\ q.riskScore = r.riskScore /\ q.externalRisks = e.externalRisks
<1>1. Same(w1)
  BY FieldOfActivity DEF ActivityFields
<1>. HIDE DEF w1
<1>2. Same(w2)
  BY <1>1, FieldOfActivity DEF ActivityFields
<1>. HIDE DEF w2
<1>3. Same(w3)
  BY <1>2, FieldOfActivity DEF ActivityFields
<1>. HIDE DEF w3
<1>4. Same(w4)
  BY <1>3, FieldOfActivity DEF ActivityFields
<1>. HIDE DEF w4
<1>5. Same(w)
  BY <1>4, FieldOfActivity DEF ActivityFields
<1>6. Written(r, e) = w
  BY DEF Written, w1, w2, w3, w4
<1>. HIDE DEF w
<1>. DEFINE combined == OrZero(w.combined)
            internal == Saved(w.internalRisk, OrZero(w.riskScore))
            overrun == Saved(w.internalOverrun, OrZero(w.overrun))
            raised == IF internal > 0 /\ overrun > 0 THEN Times(overrun, Least((combined * 1000) \div internal, 5000))
                      ELSE Times(combined, 300)
            q1 == [w EXCEPT !.internalRisk = internal]
            q2 == [q1 EXCEPT !.internalOverrun = overrun]
            q3 == [q2 EXCEPT !.riskScore = combined]
            q == [q3 EXCEPT !.overrun = Unit(raised)]
<1>7. combined \in Int
  BY DEF OrZero
<1>8. Propagated(w) = IF combined <= 0 THEN w ELSE q
  BY Zenon DEF Propagated
<1>. HIDE DEF raised, internal, overrun, combined
<1>9. IsActivity(q1) /\ q1.externalRisks = e.externalRisks
  BY <1>5, FieldOfActivity DEF ActivityFields
<1>. HIDE DEF q1
<1>10. IsActivity(q2) /\ q2.externalRisks = e.externalRisks
  BY <1>9, FieldOfActivity DEF ActivityFields
<1>. HIDE DEF q2
<1>11. IsActivity(q3) /\ q3.externalRisks = e.externalRisks /\ q3.riskScore = combined
  BY <1>10, FieldOfActivity DEF ActivityFields
<1>. HIDE DEF q3
<1>12. IsActivity(q) /\ q.externalRisks = e.externalRisks /\ q.riskScore = combined
  BY <1>11, FieldOfActivity DEF ActivityFields
<1>. HIDE DEF q
<1>. QED
  BY <1>5, <1>6, <1>7, <1>8, <1>12

-----------------------------------------------------------------------------
(* RiskPage: what is cached, and what the assessments are at. *)

Listing(s) == s \in Seq(Range(s))
KeptIn(kind, data) == IF kind = "assessments" THEN IsRegister(data[1]) ELSE IF kind = "mappings" THEN IsMapping(data) ELSE TRUE
Kinds == {"assessments", "mappings", "mitigations"}
CacheOK(cache) ==
    /\ cache = [kind \in Kinds |-> cache[kind]]
    /\ \A kind \in Kinds : Listing(cache[kind]) /\ \A e \in Range(cache[kind]) : KeptIn(kind, e.data)
RunOK(run) ==
    /\ run = [step |-> run.step, key |-> run.key, register |-> run.register, signals |-> run.signals,
              mapping |-> run.mapping, mitigation |-> run.mitigation]
    /\ IsRegister(run.register) /\ IsMapping(run.mapping)

\* Lists that are added to, shortened and changed.
LEMMA ListChanges ==
    ASSUME NEW s, Listing(s)
    PROVE  /\ \A e : Listing(Append(s, e)) /\ Range(Append(s, e)) \subseteq Range(s) \cup {e}
           /\ s # <<>> => Listing(Tail(s)) /\ Range(Tail(s)) \subseteq Range(s)
           /\ \A k \in DOMAIN s : Listing(RemoveAt(s, k)) /\ Range(RemoveAt(s, k)) \subseteq Range(s)
           /\ \A k \in DOMAIN s : \A e : Listing([s EXCEPT ![k] = e]) /\ Range([s EXCEPT ![k] = e]) \subseteq Range(s) \cup {e}
<1>. DEFINE n == Len(s)
<1>1. n \in Nat /\ DOMAIN s = 1..n /\ \A k \in 1..n : s[k] \in Range(s)
  BY ListFacts DEF Listing
<1>2. ASSUME NEW S, NEW t \in Seq(S) PROVE Listing(t) /\ Range(t) \subseteq S
  <2>1. DOMAIN t = 1..Len(t) /\ Len(t) \in Nat /\ \A k \in 1..Len(t) : t[k] \in S
    OBVIOUS
  <2>2. Range(t) \subseteq S
    BY <2>1 DEF Range
  <2>3. t \in [1..Len(t) -> Range(t)]
    BY <2>1 DEF Range
  <2>4. t \in Seq(Range(t))
    BY <2>1, <2>3
  <2>. QED
    BY <2>2, <2>4 DEF Listing
<1>3. s \in Seq(Range(s))
  BY DEF Listing
<1>4. ASSUME NEW e PROVE Listing(Append(s, e)) /\ Range(Append(s, e)) \subseteq Range(s) \cup {e}
  <2>. DEFINE U == Range(s) \cup {e}
  <2>1. s \in Seq(U)
    <3>1. Range(s) \subseteq U
      OBVIOUS
    <3>. HIDE DEF U
    <3>. QED
      BY <1>3, <3>1
  <2>2. Append(s, e) \in Seq(Range(s) \cup {e})
    BY <2>1
  <2>. QED
    BY <1>2, <2>2
<1>5. ASSUME s # <<>> PROVE Listing(Tail(s)) /\ Range(Tail(s)) \subseteq Range(s)
  <2>1. Tail(s) \in Seq(Range(s))
    BY <1>3, <1>5
  <2>. QED
    BY <1>2, <2>1
<1>6. ASSUME NEW k \in DOMAIN s PROVE Listing(RemoveAt(s, k)) /\ Range(RemoveAt(s, k)) \subseteq Range(s)
  <2>1. SubSeq(s, 1, k - 1) \in Seq(Range(s)) /\ SubSeq(s, k + 1, n) \in Seq(Range(s))
    BY <1>1, <1>3
  <2>2. RemoveAt(s, k) \in Seq(Range(s))
    BY <2>1 DEF RemoveAt
  <2>. QED
    BY <1>2, <2>2
<1>7. ASSUME NEW k \in DOMAIN s, NEW e PROVE Listing([s EXCEPT ![k] = e]) /\ Range([s EXCEPT ![k] = e]) \subseteq Range(s) \cup {e}
  <2>1. [s EXCEPT ![k] = e] \in [1..n -> Range(s) \cup {e}]
    BY <1>1
  <2>2. [s EXCEPT ![k] = e] \in Seq(Range(s) \cup {e})
    BY <1>1, <2>1
  <2>. QED
    BY <1>2, <2>2
<1>. QED
  BY <1>4, <1>5, <1>6, <1>7

\* What is in the cache is of its kind, and a place that is found is there.
LEMMA CacheFacts ==
    ASSUME NEW cache, CacheOK(cache), NEW kind \in Kinds, NEW key
    PROVE  /\ At(cache, kind, key) # 0 => At(cache, kind, key) \in DOMAIN cache[kind]
           /\ At(cache, kind, key) # 0 => KeptIn(kind, Got(cache, kind, key))
<1>. DEFINE s == cache[kind]
            I == {i \in 1..Len(s) : s[i].key = key}
<1>1. Listing(s) /\ \A e \in Range(s) : KeptIn(kind, e.data)
  BY DEF CacheOK
<1>2. Len(s) \in Nat /\ DOMAIN s = 1..Len(s) /\ \A k \in 1..Len(s) : s[k] \in Range(s)
  BY <1>1, ListFacts DEF Listing
<1>3. At(cache, kind, key) = IF I # {} THEN Min(I) ELSE 0
  BY DEF At, SelectInSeq
<1>4. I # {} => Min(I) \in I
  <2>1. I \in SUBSET Nat
    OBVIOUS
  <2>. HIDE DEF I
  <2>. QED
    BY <2>1, LeastOf
<1>. HIDE DEF s
<1>5. At(cache, kind, key) # 0 => At(cache, kind, key) \in 1..Len(s)
  BY <1>3, <1>4
<1>6. At(cache, kind, key) # 0 => s[At(cache, kind, key)] \in Range(s)
  BY <1>2, <1>5
<1>. QED
  BY <1>1, <1>2, <1>5, <1>6 DEF Got, s

LEMMA LookedOK == ASSUME NEW cache, CacheOK(cache), NEW kind \in Kinds, NEW key PROVE CacheOK(Looked(cache, kind, key))
<1>. DEFINE k == At(cache, kind, key)
            fewer == RemoveAt(cache[kind], k)
<1>1. CASE k = 0 \/ Fresh(cache, kind, key)
  BY <1>1 DEF Looked
<1>2. CASE ~(k = 0 \/ Fresh(cache, kind, key))
  <2>1. k \in DOMAIN cache[kind]
    BY <1>2, CacheFacts
  <2>2. Looked(cache, kind, key) = [cache EXCEPT ![kind] = fewer]
    BY <1>2, Zenon DEF Looked
  <2>3. Listing(fewer) /\ Range(fewer) \subseteq Range(cache[kind])
    BY <2>1, ListChanges DEF CacheOK
  <2>. HIDE DEF fewer
  <2>. QED
    BY <2>2, <2>3 DEF CacheOK
<1>. QED
  BY <1>1, <1>2

LEMMA CachedOK ==
    ASSUME NEW cache, CacheOK(cache), NEW kind \in Kinds, NEW key, NEW data, KeptIn(kind, data)
    PROVE  CacheOK(Cached(cache, kind, key, data))
<1>. DEFINE room == IF Len(cache[kind]) > cacheLimit THEN [cache EXCEPT ![kind] = Tail(@)] ELSE cache
            k == At(room, kind, key)
            entry == [key |-> key, data |-> data, time |-> now]
            list == IF k = 0 THEN Append(room[kind], entry) ELSE [room[kind] EXCEPT ![k] = entry]
<1>1. CacheOK(room)
  <2>1. CASE cache[kind] = <<>> \/ ~(Len(cache[kind]) > cacheLimit)
    <3>1. cache[kind] = <<>> => Tail(cache[kind]) = <<>>
      OBVIOUS
    <3>2. cache[kind] = <<>> => [cache EXCEPT ![kind] = Tail(cache[kind])] = cache
      BY <3>1 DEF CacheOK
    <3>. QED
      BY <2>1, <3>2
  <2>2. CASE cache[kind] # <<>> /\ Len(cache[kind]) > cacheLimit
    <3>. DEFINE rest == Tail(cache[kind])
    <3>1. Listing(rest) /\ Range(rest) \subseteq Range(cache[kind])
      BY <2>2, ListChanges DEF CacheOK
    <3>2. room = [cache EXCEPT ![kind] = rest]
      BY <2>2
    <3>. HIDE DEF rest, room
    <3>. QED
      BY <3>1, <3>2 DEF CacheOK
  <2>. QED
    BY <2>1, <2>2
<1>2. Cached(cache, kind, key, data) = [room EXCEPT ![kind] = list]
  BY Zenon DEF Cached
<1>. HIDE DEF room
<1>3. Listing(list) /\ Range(list) \subseteq Range(room[kind]) \cup {entry}
  <2>1. Listing(room[kind]) /\ (k # 0 => k \in DOMAIN room[kind])
    BY <1>1, CacheFacts DEF CacheOK
  <2>. HIDE DEF k, entry
  <2>2. /\ Listing(Append(room[kind], entry)) /\ Range(Append(room[kind], entry)) \subseteq Range(room[kind]) \cup {entry}
        /\ k # 0 => Listing([room[kind] EXCEPT ![k] = entry]) /\ Range([room[kind] EXCEPT ![k] = entry]) \subseteq Range(room[kind]) \cup {entry}
    BY <2>1, ListChanges
  <2>. QED
    BY <2>2
<1>4. entry.data = data
  OBVIOUS
<1>. HIDE DEF list, entry
<1>. QED
  BY <1>1, <1>2, <1>3, <1>4 DEF CacheOK

LEMMA RunChanges ==
    ASSUME NEW run, RunOK(run)
    PROVE  /\ \A step : LET q == [run EXCEPT !.step = step] IN RunOK(q) /\ q.step = step /\ q.register = run.register /\ q.mapping = run.mapping
           /\ \A register, signals : IsRegister(register) => RunOK([run EXCEPT !.register = register, !.signals = signals])
           /\ \A mapping : IsMapping(mapping) => RunOK([run EXCEPT !.mapping = mapping])
           /\ \A mitigation : RunOK([run EXCEPT !.mitigation = mitigation])
<1>. DEFINE R(step, register, signals, mapping, mitigation) ==
                [step |-> step, key |-> run.key, register |-> register, signals |-> signals, mapping |-> mapping, mitigation |-> mitigation]
<1>1. run = R(run.step, run.register, run.signals, run.mapping, run.mitigation) /\ IsRegister(run.register) /\ IsMapping(run.mapping)
  BY DEF RunOK
<1>2. \A step, register, signals, mapping, mitigation :
         IsRegister(register) /\ IsMapping(mapping) => RunOK(R(step, register, signals, mapping, mitigation))
  BY DEF RunOK
<1>3. ASSUME NEW step PROVE [run EXCEPT !.step = step] = R(step, run.register, run.signals, run.mapping, run.mitigation)
  BY <1>1
<1>4. ASSUME NEW register, NEW signals
      PROVE  [run EXCEPT !.register = register, !.signals = signals] = R(run.step, register, signals, run.mapping, run.mitigation)
  <2>. DEFINE q == [run EXCEPT !.register = register]
  <2>1. q = R(run.step, register, run.signals, run.mapping, run.mitigation)
    BY <1>1
  <2>. HIDE DEF q
  <2>2. [q EXCEPT !.signals = signals] = R(run.step, register, signals, run.mapping, run.mitigation)
    BY <2>1
  <2>. QED
    BY <2>2 DEF q
<1>5. ASSUME NEW mapping PROVE [run EXCEPT !.mapping = mapping] = R(run.step, run.register, run.signals, mapping, run.mitigation)
  BY <1>1
<1>6. ASSUME NEW mitigation PROVE [run EXCEPT !.mitigation = mitigation] = R(run.step, run.register, run.signals, run.mapping, mitigation)
  BY <1>1
<1>7. \A step, register, signals, mapping, mitigation : LET q == R(step, register, signals, mapping, mitigation)
                                                      IN  q.step = step /\ q.register = register /\ q.mapping = mapping
  OBVIOUS
<1>. HIDE DEF R
<1>8. ASSUME NEW step
      PROVE  LET q == [run EXCEPT !.step = step] IN RunOK(q) /\ q.step = step /\ q.register = run.register /\ q.mapping = run.mapping
  BY <1>1, <1>2, <1>3, <1>7
<1>9. ASSUME NEW register, NEW signals, IsRegister(register) PROVE RunOK([run EXCEPT !.register = register, !.signals = signals])
  <2>1. RunOK(R(run.step, register, signals, run.mapping, run.mitigation))
    BY <1>1, <1>2, <1>9
  <2>2. [run EXCEPT !.register = register, !.signals = signals] = R(run.step, register, signals, run.mapping, run.mitigation)
    BY <1>4
  <2>. QED
    BY <2>1, <2>2, Zenon
<1>10. ASSUME NEW mapping, IsMapping(mapping) PROVE RunOK([run EXCEPT !.mapping = mapping])
  BY <1>1, <1>2, <1>5, <1>10
<1>11. ASSUME NEW mitigation PROVE RunOK([run EXCEPT !.mitigation = mitigation])
  BY <1>1, <1>2, <1>6
<1>. QED
  BY <1>8, <1>9, <1>10, <1>11, Zenon

\* A run that goes on has its register, and what was cached for it.
LEMMA OnwardKeeps ==
    ASSUME NEW run, RunOK(run), NEW cache, CacheOK(cache), NEW key
    PROVE  RunOK(Onward(run, cache, key).run) /\ CacheOK(Onward(run, cache, key).cache)
<1>. DEFINE Fine(x) == RunOK(x.run) /\ CacheOK(x.cache)
            afterMapping(r, c) ==
                LET seen == Looked(c, "mitigations", key)
                IN  IF Fresh(c, "mitigations", key)
                    THEN [run |-> [r EXCEPT !.step = "score", !.mitigation = Got(c, "mitigations", key)], cache |-> seen]
                    ELSE [run |-> [r EXCEPT !.step = "mitigation"], cache |-> seen]
            afterRegister(r, c) ==
                LET seen == Looked(c, "mappings", key)
                IN  IF r.register = <<>> THEN [run |-> [r EXCEPT !.step = "score"], cache |-> c]
                    ELSE IF Fresh(c, "mappings", key) /\ Got(c, "mappings", key) # NoMapping
                    THEN afterMapping([r EXCEPT !.mapping = Got(c, "mappings", key)], seen)
                    ELSE [run |-> [r EXCEPT !.step = "mapping"], cache |-> seen]
<1>1. \A x, y : RunOK(x) /\ CacheOK(y) => Fine([run |-> x, cache |-> y])
  OBVIOUS
<1>. HIDE DEF Fine
<1>2. ASSUME NEW r, RunOK(r), NEW c, CacheOK(c) PROVE Fine(afterMapping(r, c))
  <2>1. CacheOK(Looked(c, "mitigations", key))
    BY <1>2, LookedOK DEF Kinds
  <2>2. RunOK([r EXCEPT !.step = "mitigation"])
    BY <1>2, RunChanges
  <2>3. RunOK([r EXCEPT !.step = "score", !.mitigation = Got(c, "mitigations", key)])
    <3>. DEFINE q == [r EXCEPT !.step = "score"]
    <3>1. RunOK(q)
      BY <1>2, RunChanges
    <3>2. RunOK([q EXCEPT !.mitigation = Got(c, "mitigations", key)])
      <4>. HIDE DEF q
      <4>. QED
        BY <3>1, RunChanges
    <3>. QED
      BY <3>2
  <2>. QED
    BY <1>1, <2>1, <2>2, <2>3, Zenon
<1>. HIDE DEF afterMapping
<1>3. ASSUME NEW r, RunOK(r), NEW c, CacheOK(c) PROVE Fine(afterRegister(r, c))
  <2>. DEFINE seen == Looked(c, "mappings", key)
              data == Got(c, "mappings", key)
  <2>1. CacheOK(seen)
    BY <1>3, LookedOK DEF Kinds
  <2>2. CASE r.register = <<>>
    <3>1. RunOK([r EXCEPT !.step = "score"])
      BY <1>3, RunChanges
    <3>2. afterRegister(r, c) = [run |-> [r EXCEPT !.step = "score"], cache |-> c]
      BY <2>2, Zenon
    <3>. HIDE DEF afterRegister
    <3>. QED
      BY <1>1, <1>3, <3>1, <3>2, Zenon
  <2>3. CASE r.register # <<>> /\ Fresh(c, "mappings", key) /\ data # NoMapping
    <3>1. IsMapping(data)
      BY <1>3, <2>3, CacheFacts DEF Kinds, KeptIn, Fresh
    <3>2. RunOK([r EXCEPT !.mapping = data])
      BY <1>3, <3>1, RunChanges
    <3>3. afterRegister(r, c) = afterMapping([r EXCEPT !.mapping = data], seen)
      BY <2>3, Zenon
    <3>. HIDE DEF afterRegister, seen, data
    <3>. QED
      BY <1>2, <2>1, <3>2, <3>3, Zenon
  <2>4. CASE r.register # <<>> /\ ~(Fresh(c, "mappings", key) /\ data # NoMapping)
    <3>1. RunOK([r EXCEPT !.step = "mapping"])
      BY <1>3, RunChanges
    <3>2. afterRegister(r, c) = [run |-> [r EXCEPT !.step = "mapping"], cache |-> seen]
      BY <2>4, Zenon
    <3>. HIDE DEF afterRegister, seen, data
    <3>. QED
      BY <1>1, <2>1, <3>1, <3>2, Zenon
  <2>. QED
    BY <2>2, <2>3, <2>4, Zenon
<1>4. Onward(run, cache, key) = IF run.step = "mapped" THEN afterMapping(run, cache) ELSE afterRegister(run, cache)
  BY Zenon DEF Onward, afterMapping
<1>. HIDE DEF afterRegister
<1>5. Fine(Onward(run, cache, key))
  BY <1>2, <1>3, <1>4, Zenon
<1>. QED
  BY <1>5 DEF Fine

\* What the property says of a run, and of what is on the activities.
Explained(run, on) ==
    ~run.mapping.malformed =>
    LET linked == UNION {Range(on[a].externalRisks) : a \in Ids}
    IN  /\ Ids # {} => \A r \in Range(run.register) : \E e \in linked : e.id = r.id
        /\ \A e \in linked : e.why = "coverage" =>
               \A m \in Range(run.mapping.entries) : m.risk = e.id => \A x \in Range(m.activities) : x.id \notin Ids

\* Links that map the register, and cover only what the mapping has not, are such.
LEMMA MappedExplains ==
    ASSUME NEW run, RunOK(run), NEW on,
           NEW links \in Mapping(Entries(Range(run.register), AnchoredIds(run.register, run.mapping.entries)), Listed(run.register)),
           \A a \in Ids : on[a].externalRisks = links[a]
    PROVE  Explained(run, on)
<1>. DEFINE A == AnchoredIds(run.register, run.mapping.entries)
            E == Entries(Range(run.register), A)
            linked == UNION {Range(on[a].externalRisks) : a \in Ids}
<1>1. AreRisks(Range(run.register))
  BY DEF RunOK, IsRegister, AreRisks
<1>2. links \in Links(E) /\ Listed(run.register) \subseteq Mapped(links)
  BY DEF Mapping
<1>3. ASSUME NEW r \in Range(run.register) PROVE \E e \in linked : e.id = r.id
  <2>1. r.id \in Mapped(links)
    BY <1>2 DEF Listed
  <2>2. PICK a \in Ids : \E e \in Range(links[a]) : e.id = r.id
    BY <2>1 DEF Mapped
  <2>3. Range(on[a].externalRisks) \subseteq linked /\ on[a].externalRisks = links[a]
    OBVIOUS
  <2>. QED
    BY <2>2, <2>3
<1>4. linked \subseteq E
  <2>. SUFFICES ASSUME NEW a \in Ids, NEW e \in Range(links[a]) PROVE e \in E
    OBVIOUS
  <2>1. links[a] \in Seq(E)
    BY <1>2 DEF Links
  <2>. QED
    BY <2>1 DEF Range
<1>5. ASSUME NEW e \in linked, e.why = "coverage", NEW m \in Range(run.mapping.entries), m.risk = e.id
      PROVE  \A x \in Range(m.activities) : x.id \notin Ids
  <2>1. e.id \notin A /\ \E r \in Range(run.register) : e.id = r.id
    BY <1>1, <1>4, <1>5, EntryFacts
  <2>2. ASSUME Anchored(m) PROVE FALSE
    <3>1. m.risk \in A
      BY <1>5, <2>1, <2>2 DEF AnchoredIds
    <3>. QED
      BY <1>5, <2>1, <3>1
  <2>. QED
    BY <2>2 DEF Anchored
<1>. HIDE DEF linked
<1>6. /\ \A r \in Range(run.register) : \E e \in linked : e.id = r.id
      /\ \A e \in linked : e.why = "coverage" =>
               \A m \in Range(run.mapping.entries) : m.risk = e.id => \A x \in Range(m.activities) : x.id \notin Ids
  BY <1>3, <1>5
<1>. QED
  BY <1>6, Zenon DEF Explained, linked

-----------------------------------------------------------------------------
(* RiskPage: risks stay where they are linked. *)

\* Overlapping assessments write the same activities: those of the last to be scored
\* are explained by its register and its mapping, and its run is beyond both.
Ended == {"own mitigation", "over"}
RisksInv ==
    /\ \A a \in Ids : IsActivity(activity[a]) /\ activity[a].riskScore \in Int
    /\ \E k \in Nat : DOMAIN riskRuns = 1..k
    /\ \A n \in DOMAIN riskRuns : RunOK(riskRuns[n])
    /\ CacheOK(riskCache)
    /\ scored # NoRisks => /\ scored \in DOMAIN riskRuns /\ riskRuns[scored].step \in Ended
                           /\ Explained(riskRuns[scored], activity)

LEMMA RisksStart == RiskPageInit => RisksInv
<1>. SUFFICES ASSUME RiskPageInit PROVE RisksInv
  OBVIOUS
<1>1. ASSUME NEW a \in Ids PROVE IsActivity(activity[a]) /\ activity[a].riskScore \in Int
  <2>1. activity[a] = [riskScore |-> Own[a].riskScore, overrun |-> Own[a].overrun, internalRisk |-> Unscored,
                       internalOverrun |-> Unscored, externalRisks |-> <<>>, externalRiskScore |-> 0,
                       externalCostRisk |-> 0, externalScheduleRisk |-> 0, combined |-> 0]
    BY DEF RiskPageInit
  <2>2. Own[a].riskScore \in Int
    BY RiskPageAssumption DEF Ids
  <2>. QED
    BY <2>1, <2>2 DEF IsActivity, ActivityFields
<1>2. DOMAIN riskRuns = {} /\ {} = 1..0 /\ scored = NoRisks
  BY DEF RiskPageInit
<1>3. riskCache = [kind \in Kinds |-> <<>>]
  BY DEF RiskPageInit, Kinds
<1>4. Listing(<<>>) /\ Range(<<>>) = {}
  <2>1. Range(<<>>) = {}
    BY DEF Range
  <2>. QED
    BY <2>1 DEF Listing
<1>5. CacheOK(riskCache)
  BY <1>3, <1>4 DEF CacheOK
<1>. QED
  BY <1>1, <1>2, <1>5 DEF RisksInv

\* An assessment's scores.
LEMMA ScoredExplains ==
    ASSUME RisksInv, NEW n, NEW run, RunOK(run), NEW cache, NEW result, Scored(n, run, cache, result)
    PROVE  /\ \A a \in Ids : IsActivity(activity'[a]) /\ activity'[a].riskScore \in Int
           /\ \E last : RunOK(last) /\ last.step \in Ended /\ Explained(last, activity') /\ riskRuns' = With(riskRuns, n, last)
           /\ scored' = n /\ riskCache' = cache
<1>. DEFINE empty == run.register = <<>> \/ run.mapping.malformed
            none == [r \in {} |-> 0]
            enriched == IF empty THEN initializeEmptyExternalRisks(CurrentRisk)
                        ELSE applyRisks(run.register, run.mapping.entries, none, CurrentRisk, amplification)
<1>1. activity' = [a \in Ids |-> Propagated(Written(activity[a], enriched[a]))]
  BY Zenon DEF Scored
<1>2. scored' = n /\ riskCache' = cache
  BY DEF Scored
<1>3. PICK step \in Ended : riskRuns' = With(riskRuns, n, [run EXCEPT !.step = step])
  <2>1. \E asks : riskRuns' = With(riskRuns, n, [run EXCEPT !.step = IF asks THEN "own mitigation" ELSE "over"])
    BY Zenon DEF Scored
  <2>. QED
    BY <2>1 DEF Ended
<1>. DEFINE last == [run EXCEPT !.step = step]
<1>4. RunOK(last) /\ last.step = step /\ last.register = run.register /\ last.mapping = run.mapping
  BY RunChanges
<1>. HIDE DEF enriched, last
<1>5. ASSUME NEW a \in Ids
      PROVE  IsActivity(activity'[a]) /\ activity'[a].riskScore \in Int /\ activity'[a].externalRisks = enriched[a].externalRisks
  <2>1. IsActivity(activity[a]) /\ activity[a].riskScore \in Int
    BY DEF RisksInv
  <2>2. activity'[a] = Propagated(Written(activity[a], enriched[a]))
    BY <1>1
  <2>. QED
    BY <2>1, <2>2, RisksWritten
<1>6. CASE run.mapping.malformed
  <2>1. Explained(last, activity')
    BY <1>4, <1>6 DEF Explained
  <2>. QED
    BY <1>2, <1>3, <1>4, <1>5, <2>1 DEF last
<1>7. CASE run.register = <<>> \/ Ids = {}
  <2>1. \A a \in Ids : activity'[a].externalRisks = <<>>
    <3>1. ASSUME NEW a \in Ids PROVE enriched[a].externalRisks = <<>>
      <4>1. enriched = initializeEmptyExternalRisks(CurrentRisk)
        BY <1>7, <3>1 DEF enriched
      <4>. QED
        BY <4>1 DEF initializeEmptyExternalRisks
    <3>. QED
      BY <1>5, <3>1
  <2>2. UNION {Range(activity'[a].externalRisks) : a \in Ids} = {}
    BY <2>1 DEF Range
  <2>3. Ids # {} => Range(last.register) = {}
    BY <1>4, <1>7 DEF Range
  <2>4. Explained(last, activity')
    BY <2>2, <2>3 DEF Explained
  <2>. QED
    BY <1>2, <1>3, <1>4, <1>5, <2>4 DEF last
<1>8. CASE ~run.mapping.malformed /\ run.register # <<>> /\ Ids # {}
  <2>1. CurrentRisk \in [Ids -> Int]
    BY DEF CurrentRisk, RisksInv
  <2>2. enriched = applyRisks(run.register, run.mapping.entries, none, CurrentRisk, amplification)
    BY <1>8 DEF enriched
  <2>3. DOMAIN none = {}
    OBVIOUS
  <2>. HIDE DEF none
  <2>. DEFINE register == run.register
              mapping == run.mapping
              riskScore == CurrentRisk
              amp == amplification
  <2>31. Assessable(register, mapping, riskScore)
    BY <1>8, <2>1 DEF RunOK, Assessable
  <2>32. enriched = applyRisks(register, mapping.entries, none, riskScore, amp)
    BY <2>2
  <2>. HIDE DEF register, mapping, riskScore, amp
  <2>33. Assessed(register, mapping, enriched)
    BY <2>31, <2>32, <2>3, ApplyMaps
  <2>4. PICK links \in Mapping(Entries(Range(run.register), AnchoredIds(run.register, run.mapping.entries)), Listed(run.register)) :
             \A a \in Ids : enriched[a].externalRisks = links[a]
    BY <2>33 DEF register, mapping, Assessed
  <2>5. \A a \in Ids : activity'[a].externalRisks = links[a]
    BY <1>5, <2>4
  <2>6. links \in Mapping(Entries(Range(last.register), AnchoredIds(last.register, last.mapping.entries)), Listed(last.register))
    BY <1>4
  <2>7. Explained(last, activity')
    BY <1>4, <2>5, <2>6, MappedExplains
  <2>. QED
    BY <1>2, <1>3, <1>4, <1>5, <2>7 DEF last
<1>. QED
  BY <1>6, <1>7, <1>8

\* A run that goes on: a new one, or one that is not yet scored.
LEMMA GoesExplains ==
    ASSUME RisksInv, NEW n, n = NewRun \/ (n \in DOMAIN riskRuns /\ riskRuns[n].step \notin Ended),
           NEW next, RunOK(next.run), CacheOK(next.cache), NEW result, Goes(n, next, result)
    PROVE  RisksInv'
<1>1. PICK k \in Nat : DOMAIN riskRuns = 1..k
  BY DEF RisksInv
<1>2. NewRun = k + 1
  BY <1>1, IntervalFacts DEF NewRun
<1>3. \E j \in Nat : DOMAIN riskRuns \cup {n} = 1..j
  <2>1. CASE n = NewRun
    <3>1. (1..k) \cup {k + 1} = 1..(k + 1) /\ k + 1 \in Nat
      OBVIOUS
    <3>. QED
      BY <1>1, <1>2, <2>1, <3>1
  <2>2. CASE n \in DOMAIN riskRuns
    <3>1. DOMAIN riskRuns \cup {n} = 1..k
      BY <1>1, <2>2
    <3>. QED
      BY <3>1
  <2>. QED
    BY <2>1, <2>2
<1>4. ASSUME NEW r, RunOK(r), riskRuns' = With(riskRuns, n, r)
      PROVE  /\ DOMAIN riskRuns' = DOMAIN riskRuns \cup {n} /\ riskRuns'[n] = r
             /\ \A m \in DOMAIN riskRuns' : RunOK(riskRuns'[m])
             /\ \A m \in DOMAIN riskRuns \ {n} : riskRuns'[m] = riskRuns[m]
  BY <1>4 DEF With, RisksInv
<1>5. CASE next.run.step = "score"
  <2>1. Scored(n, next.run, next.cache, result)
    BY <1>5 DEF Goes
  <2>2. /\ \A a \in Ids : IsActivity(activity'[a]) /\ activity'[a].riskScore \in Int
        /\ scored' = n /\ riskCache' = next.cache
    BY <2>1, ScoredExplains
  <2>3. PICK last : RunOK(last) /\ last.step \in Ended /\ Explained(last, activity') /\ riskRuns' = With(riskRuns, n, last)
    BY <2>1, ScoredExplains
  <2>4. /\ DOMAIN riskRuns' = DOMAIN riskRuns \cup {n} /\ riskRuns'[n] = last
        /\ \A m \in DOMAIN riskRuns' : RunOK(riskRuns'[m])
    BY <1>4, <2>3
  <2>. QED
    BY <1>3, <2>2, <2>3, <2>4 DEF RisksInv
<1>6. CASE next.run.step # "score"
  <2>1. riskRuns' = With(riskRuns, n, next.run) /\ riskCache' = next.cache /\ activity' = activity /\ scored' = scored
    BY <1>6 DEF Goes
  <2>2. /\ DOMAIN riskRuns' = DOMAIN riskRuns \cup {n}
        /\ \A m \in DOMAIN riskRuns' : RunOK(riskRuns'[m])
        /\ \A m \in DOMAIN riskRuns \ {n} : riskRuns'[m] = riskRuns[m]
    BY <1>4, <2>1
  <2>3. scored # NoRisks => scored \in DOMAIN riskRuns \ {n}
    <3>1. scored # NoRisks => scored \in DOMAIN riskRuns /\ riskRuns[scored].step \in Ended
      BY DEF RisksInv
    <3>2. k + 1 \notin 1..k
      OBVIOUS
    <3>. QED
      BY <1>1, <1>2, <3>1, <3>2
  <2>. QED
    BY <1>3, <2>1, <2>2, <2>3 DEF RisksInv
<1>. QED
  BY <1>5, <1>6

\* An assessment begins: with what is cached, or by asking for a register.
LEMMA AssessmentStarts == ASSUME RisksInv, StartAssessment PROVE RisksInv'
<1>. DEFINE run == [step |-> "register", key |-> progress, register |-> <<>>, signals |-> {}, mapping |-> NoMapping, mitigation |-> <<>>]
            data == Got(riskCache, "assessments", progress)
            seen == Looked(riskCache, "assessments", progress)
            known == [run EXCEPT !.register = data[1], !.signals = data[2]]
            next == IF Fresh(riskCache, "assessments", progress) THEN Onward(known, seen, progress) ELSE [run |-> run, cache |-> seen]
<1>1. Goes(NewRun, next, mitigationResult)
  BY Zenon DEF StartAssessment
<1>2. RunOK(run)
  <2>1. Range(<<>>) = {} /\ <<>> \in Seq({})
    BY DEF Range
  <2>2. IsRegister(<<>>)
    BY <2>1 DEF IsRegister
  <2>3. IsMapping(NoMapping)
    BY <2>1 DEF IsMapping, NoMapping
  <2>. HIDE DEF NoMapping
  <2>. QED
    BY <2>2, <2>3 DEF RunOK
<1>3. CacheOK(riskCache)
  BY DEF RisksInv
<1>4. CacheOK(seen)
  BY <1>3, LookedOK DEF Kinds
<1>5. Fresh(riskCache, "assessments", progress) => IsRegister(data[1])
  BY <1>3, CacheFacts DEF Kinds, KeptIn, Fresh
<1>6. Fresh(riskCache, "assessments", progress) => RunOK(known)
  <2>. HIDE DEF run, data
  <2>. QED
    BY <1>2, <1>5, RunChanges
<1>7. RunOK(next.run) /\ CacheOK(next.cache)
  <2>. HIDE DEF run, data, seen, known
  <2>1. CASE Fresh(riskCache, "assessments", progress)
    BY <1>4, <1>6, <2>1, OnwardKeeps
  <2>2. CASE ~Fresh(riskCache, "assessments", progress)
    BY <1>2, <1>4, <2>2
  <2>. QED
    BY <2>1, <2>2
<1>. HIDE DEF next
<1>. QED
  BY <1>1, <1>7, GoesExplains

\* A run that awaits an answer is not yet scored.
LEMMA AwaitsFacts ==
    ASSUME RisksInv, NEW n, NEW step, step \notin Ended, Awaits(n, step)
    PROVE  n \in DOMAIN riskRuns /\ riskRuns[n].step \notin Ended /\ RunOK(riskRuns[n]) /\ CacheOK(riskCache)
BY DEF Awaits, RisksInv

\* A register that is answered is cached, unless the service has failed.
LEMMA RegisterKeeps == RisksInv /\ (\E n \in DOMAIN riskRuns : RegisterAnswered(n)) => RisksInv'
<1>. SUFFICES ASSUME RisksInv, NEW n \in DOMAIN riskRuns, RegisterAnswered(n) PROVE RisksInv'
  OBVIOUS
<1>1. n \in DOMAIN riskRuns /\ riskRuns[n].step \notin Ended /\ RunOK(riskRuns[n]) /\ CacheOK(riskCache)
  BY AwaitsFacts DEF RegisterAnswered, Ended
<1>. DEFINE run(answer) == [riskRuns[n] EXCEPT !.register = answer[1], !.signals = answer[2]]
            cache(answer) == IF answer[1] = <<>> THEN riskCache ELSE Cached(riskCache, "assessments", run(answer).key, answer)
<1>2. PICK answer \in RegisterAnswers : Goes(n, Onward(run(answer), cache(answer), run(answer).key), mitigationResult)
  BY Zenon DEF RegisterAnswered
<1>. DEFINE key == run(answer).key
            next == Onward(run(answer), cache(answer), key)
<1>3. IsRegister(answer[1])
  BY RiskPageAssumption
<1>4. RunOK(run(answer))
  BY <1>1, <1>3, RunChanges
<1>5. CacheOK(cache(answer))
  <2>1. KeptIn("assessments", answer) /\ "assessments" \in Kinds
    BY <1>3 DEF KeptIn, Kinds
  <2>2. CacheOK(Cached(riskCache, "assessments", key, answer))
    <3>. HIDE DEF run, key
    <3>. QED
      BY <1>1, <2>1, CachedOK
  <2>. QED
    BY <1>1, <2>2
<1>6. RunOK(next.run) /\ CacheOK(next.cache)
  <2>. HIDE DEF run, cache, key
  <2>. QED
    BY <1>4, <1>5, OnwardKeeps
<1>. HIDE DEF next
<1>7. Goes(n, next, mitigationResult)
  BY <1>2 DEF next
<1>. QED
  BY <1>1, <1>6, <1>7, GoesExplains

\* So is a mapping, which a failure replaces by one without activities.
LEMMA MappingKeeps == RisksInv /\ (\E n \in DOMAIN riskRuns : MappingAnswered(n)) => RisksInv'
<1>. SUFFICES ASSUME RisksInv, NEW n \in DOMAIN riskRuns, MappingAnswered(n) PROVE RisksInv'
  OBVIOUS
<1>1. n \in DOMAIN riskRuns /\ riskRuns[n].step \notin Ended /\ RunOK(riskRuns[n]) /\ CacheOK(riskCache)
  BY AwaitsFacts DEF MappingAnswered, Ended
<1>. DEFINE register == riskRuns[n].register
            basic == [entries |-> generateBasicRiskMappings(register), malformed |-> FALSE]
            run(answer) == [riskRuns[n] EXCEPT !.mapping = answer, !.step = "mapped"]
            cache(answer) == Cached(riskCache, "mappings", run(answer).key, answer)
<1>2. PICK answer \in MappingAnswers \cup {basic} : Goes(n, Onward(run(answer), cache(answer), run(answer).key), mitigationResult)
  BY Zenon DEF MappingAnswered
<1>. DEFINE key == run(answer).key
            next == Onward(run(answer), cache(answer), key)
<1>3. IsMapping(basic)
  <2>. DEFINE f == generateBasicRiskMappings(register)
  <2>1. register \in Seq(Range(register))
    BY <1>1 DEF RunOK, IsRegister
  <2>2. Len(register) \in Nat /\ DOMAIN register = 1..Len(register)
    BY <2>1
  <2>3. DOMAIN f = 1..Len(register) /\ \A k \in DOMAIN f : f[k] = [risk |-> register[k].id, activities |-> <<>>]
    BY <2>2 DEF generateBasicRiskMappings
  <2>4. f = [k \in 1..Len(register) |-> f[k]]
    BY <2>2 DEF generateBasicRiskMappings
  <2>. HIDE DEF f, register
  <2>5. \A k \in 1..Len(register) : f[k] \in Range(f)
    BY <2>3 DEF Range
  <2>6. f \in Seq(Range(f))
    BY <2>2, <2>4, <2>5
  <2>7. Range(<<>>) = {}
    BY DEF Range
  <2>8. ASSUME NEW m \in Range(f) PROVE m.activities \in Seq(Range(m.activities)) /\ \A x \in Range(m.activities) : x.influence \in Int
    <3>1. m.activities = <<>>
      BY <2>3 DEF Range
    <3>. QED
      BY <2>7, <3>1
  <2>. QED
    BY <2>6, <2>8 DEF IsMapping, f
<1>. HIDE DEF basic, register
<1>4. IsMapping(answer)
  BY <1>3, RiskPageAssumption
<1>5. RunOK(run(answer))
  <2>. DEFINE q == [riskRuns[n] EXCEPT !.mapping = answer]
  <2>1. RunOK(q)
    BY <1>1, <1>4, RunChanges
  <2>2. RunOK([q EXCEPT !.step = "mapped"])
    <3>. HIDE DEF q
    <3>. QED
      BY <2>1, RunChanges
  <2>. QED
    BY <2>2
<1>6. CacheOK(cache(answer))
  <2>1. KeptIn("mappings", answer) /\ "mappings" \in Kinds
    BY <1>4 DEF KeptIn, Kinds
  <2>. HIDE DEF run
  <2>. QED
    BY <1>1, <2>1, CachedOK
<1>7. RunOK(next.run) /\ CacheOK(next.cache)
  <2>. HIDE DEF run, cache, key
  <2>. QED
    BY <1>5, <1>6, OnwardKeeps
<1>. HIDE DEF next
<1>8. Goes(n, next, mitigationResult)
  BY <1>2 DEF next
<1>. QED
  BY <1>1, <1>7, <1>8, GoesExplains

\* Mitigations that are answered are the last that a run waits for before it scores.
LEMMA MitigationKeeps == RisksInv /\ (\E n \in DOMAIN riskRuns : MitigationAnswered(n)) => RisksInv'
<1>. SUFFICES ASSUME RisksInv, NEW n \in DOMAIN riskRuns, MitigationAnswered(n) PROVE RisksInv'
  OBVIOUS
<1>1. n \in DOMAIN riskRuns /\ riskRuns[n].step \notin Ended /\ RunOK(riskRuns[n]) /\ CacheOK(riskCache)
  BY AwaitsFacts DEF MitigationAnswered, Ended
<1>. DEFINE run(answer) == [riskRuns[n] EXCEPT !.mitigation = answer, !.step = "score"]
            next(answer) == [run |-> run(answer), cache |-> Cached(riskCache, "mitigations", run(answer).key, answer)]
<1>2. PICK answer : Goes(n, next(answer), Made(answer))
  BY Zenon DEF MitigationAnswered
<1>3. RunOK(run(answer))
  <2>. DEFINE q == [riskRuns[n] EXCEPT !.mitigation = answer]
  <2>1. RunOK(q)
    BY <1>1, RunChanges
  <2>2. RunOK([q EXCEPT !.step = "score"])
    <3>. HIDE DEF q
    <3>. QED
      BY <2>1, RunChanges
  <2>. QED
    BY <2>2
<1>. HIDE DEF run
<1>4. KeptIn("mitigations", answer) /\ "mitigations" \in Kinds
  BY DEF KeptIn, Kinds
<1>5. CacheOK(Cached(riskCache, "mitigations", run(answer).key, answer))
  BY <1>1, <1>4, CachedOK
<1>6. RunOK(next(answer).run) /\ CacheOK(next(answer).cache)
  BY <1>3, <1>5
<1>. HIDE DEF next
<1>. QED
  BY <1>1, <1>2, <1>6, GoesExplains

\* The page's own mitigations end a run, and change no link.
LEMMA OwnMitigationKeeps == RisksInv /\ (\E n \in DOMAIN riskRuns : OwnMitigationAnswered(n)) => RisksInv'
<1>. SUFFICES ASSUME RisksInv, NEW n \in DOMAIN riskRuns, OwnMitigationAnswered(n) PROVE RisksInv'
  OBVIOUS
<1>. DEFINE last == [riskRuns[n] EXCEPT !.step = "over"]
<1>1. activity' = activity /\ riskCache' = riskCache /\ scored' = scored /\ riskRuns' = [riskRuns EXCEPT ![n] = last]
  BY DEF OwnMitigationAnswered
<1>2. RunOK(riskRuns[n])
  BY DEF RisksInv
<1>3. RunOK(last) /\ last.step = "over" /\ last.register = riskRuns[n].register /\ last.mapping = riskRuns[n].mapping
  BY <1>2, RunChanges
<1>. HIDE DEF last
<1>4. DOMAIN riskRuns' = DOMAIN riskRuns /\ riskRuns'[n] = last /\ \A m \in DOMAIN riskRuns \ {n} : riskRuns'[m] = riskRuns[m]
  BY <1>1
<1>5. Explained(riskRuns[n], activity) => Explained(last, activity)
  BY <1>3 DEF Explained
<1>6. \A m \in DOMAIN riskRuns' : RunOK(riskRuns'[m])
  BY <1>3, <1>4 DEF RisksInv
<1>7. scored # NoRisks => /\ scored \in DOMAIN riskRuns /\ riskRuns'[scored].step \in Ended
                          /\ Explained(riskRuns'[scored], activity)
  <2>1. CASE scored = n
    BY <1>3, <1>4, <1>5, <2>1 DEF RisksInv, Ended
  <2>2. CASE scored # n
    BY <1>4, <2>2 DEF RisksInv
  <2>. QED
    BY <2>1, <2>2
<1>. QED
  BY <1>1, <1>4, <1>6, <1>7 DEF RisksInv

LEMMA RisksStep == RisksInv /\ [RiskPageNext]_riskVars => RisksInv'
<1>1. RisksInv /\ UNCHANGED <<activity, riskCache, riskRuns, scored>> => RisksInv'
  BY DEF RisksInv
<1>2. \A k : Accept(k) => UNCHANGED <<activity, riskCache, riskRuns, scored>>
  BY DEF Accept
<1>3. \A k, name : EditRow(k, name) => UNCHANGED <<activity, riskCache, riskRuns, scored>>
  BY DEF EditRow
<1>4. \A r : AddSeed(r) => UNCHANGED <<activity, riskCache, riskRuns, scored>>
  BY DEF AddSeed
<1>5. Tick \/ WorkProgresses \/ UNCHANGED riskVars => UNCHANGED <<activity, riskCache, riskRuns, scored>>
  BY DEF Tick, WorkProgresses, riskVars
<1>6. (\E n \in DOMAIN riskRuns : RegisterAnswered(n) \/ MappingAnswered(n) \/ MitigationAnswered(n) \/ OwnMitigationAnswered(n))
       => \/ \E n \in DOMAIN riskRuns : RegisterAnswered(n)
          \/ \E n \in DOMAIN riskRuns : MappingAnswered(n)
          \/ \E n \in DOMAIN riskRuns : MitigationAnswered(n)
          \/ \E n \in DOMAIN riskRuns : OwnMitigationAnswered(n)
  BY Zenon
<1>7. [RiskPageNext]_riskVars =>
         \/ StartAssessment
         \/ \E n \in DOMAIN riskRuns : RegisterAnswered(n)
         \/ \E n \in DOMAIN riskRuns : MappingAnswered(n)
         \/ \E n \in DOMAIN riskRuns : MitigationAnswered(n)
         \/ \E n \in DOMAIN riskRuns : OwnMitigationAnswered(n)
         \/ UNCHANGED <<activity, riskCache, riskRuns, scored>>
  BY <1>2, <1>3, <1>4, <1>5, <1>6, Zenon DEF RiskPageNext
<1>. QED
  BY <1>1, <1>7, AssessmentStarts, RegisterKeeps, MappingKeeps, MitigationKeeps, OwnMitigationKeeps, Zenon

\* Overlapping assessments, their answers in any order and what the cache still has
\* for them keep the activities as the run that was scored last explains them.
THEOREM RisksInvariance == RiskPageSpec => []RisksInv
BY RisksStart, RisksStep, PTL DEF RiskPageSpec

\* For every register and every mapping that the service answers: each risk of the
\* register that was scored last is on some activity, also when activities have been
\* cut down to MAX_RISKS_PER_ACTIVITY, and ensureExternalRiskCoverage has put none
\* elsewhere that the mapping has on an activity there is.
THEOREM RisksAlwaysStayWhereLinked == RiskPageSpec => []RisksStayWhereLinked
<1>1. RisksInv => RisksStayWhereLinked
  BY DEF RisksInv, Explained, RisksStayWhereLinked
<1>. QED
  BY <1>1, RisksInvariance, PTL
=============================================================================
