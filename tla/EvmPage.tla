------------------------------ MODULE EvmPage ------------------------------
(***************************************************************************)
(* The backend-first wrappers of EVM.js, getCumulativeDistributionAsync and  *)
(* createActualEVMChartAsync: a refresh of either view asks the backend for  *)
(* both, shares a request that is in flight for the same fingerprint, and    *)
(* falls back to the local calculation on any error.  The page's data is     *)
(* replaced, or changed in place, while requests are out.                    *)
(***************************************************************************)
EXTENDS Integers, FiniteSets

CONSTANTS
    MaxRefreshes,   \* bound: refreshes asked for
    MaxEdits        \* bound: changes of the page's data

Views == {"forecasted", "actual"}
NoRequest == 0
Refreshes == 1..MaxRefreshes

VARIABLES
    page,           \* the arrays (their identity), their content, the calendar,
                    \* evmInvalidationKey and whether there is a start milestone
    fingerprintCache, \* the identity and key of the last fingerprint, and it
    evmInFlight,    \* the fingerprint and number of the request to join
    requests,       \* per number: fingerprint, data sent, phase
    refreshes,      \* per refresh: its view, the data it was given, its request
    evmMetrics,     \* window.evmMetrics: what each view was calculated from
    telemetry,
    edits, unannounced \* history: edits made; one was in place without a new key

pageVars == <<page, fingerprintCache, evmInFlight, requests, refreshes, evmMetrics, telemetry, edits, unannounced>>

-----------------------------------------------------------------------------
\* _evmFingerprint: the cached one while the arrays are the same objects and
\* the key is the same; else that of their content.  The calendar is no part.
cacheKey == [arrays |-> page.arrays, key |-> page.key]
ContentFingerprint == [content |-> page.content, key |-> page.key]
\* Mutant: the cached one is kept whatever the arrays.
FingerprintKept == IF fingerprintCache # <<>> THEN fingerprintCache[2] ELSE ContentFingerprint
Fingerprint == IF fingerprintCache # <<>> /\ fingerprintCache[1] = cacheKey
               THEN fingerprintCache[2] ELSE ContentFingerprint

\* _evmBuildRequestBody gives nothing without a start milestone.
Body == [content |-> page.content, calendar |-> page.calendar]
Unanswered == {n \in DOMAIN requests : requests[n].phase \in {"headers", "body"}}
Awaiting(n) == {r \in DOMAIN refreshes : refreshes[r].request = n /\ ~refreshes[r].over}
NewRequest == Cardinality(DOMAIN requests) + 1

Ask(r, view, n) ==
    refreshes' = [q \in DOMAIN refreshes \cup {r} |->
                    IF q = r THEN [view |-> view, data |-> Body, request |-> n, over |-> FALSE, by |-> "none"]
                    ELSE refreshes[q]]

Joinable == evmInFlight # <<>> /\ evmInFlight[1] = Fingerprint

\* A refresh joins the request in flight for its fingerprint ...
JoinRequest(view) ==
    LET r == Cardinality(DOMAIN refreshes) + 1
    IN  /\ r \in Refreshes
        /\ Joinable
        /\ fingerprintCache' = <<cacheKey, Fingerprint>>
        /\ Ask(r, view, evmInFlight[2])
        /\ UNCHANGED <<page, evmInFlight, requests, evmMetrics, telemetry, edits, unannounced>>

\* ... or sends one of its own, which takes the place of any other to join.
StartRequest(view) ==
    LET r == Cardinality(DOMAIN refreshes) + 1
        n == NewRequest
    IN  /\ r \in Refreshes
        /\ ~Joinable
        /\ fingerprintCache' = <<cacheKey, Fingerprint>>
        /\ requests' = [k \in DOMAIN requests \cup {n} |->
                          IF k = n THEN [fingerprint |-> Fingerprint, data |-> Body,
                                         phase |-> IF page.milestone THEN "headers" ELSE "failed"]
                          ELSE requests[k]]
        /\ evmInFlight' = <<Fingerprint, n>>
        /\ telemetry' = [telemetry EXCEPT !.calls = @ + 1]
        /\ Ask(r, view, n)
        /\ UNCHANGED <<page, evmMetrics, edits, unannounced>>

\* With the backend switched off, or without fetch, the view is local at once.
RefreshLocally(view) ==
    LET r == Cardinality(DOMAIN refreshes) + 1
    IN  /\ r \in Refreshes
        /\ refreshes' = [q \in DOMAIN refreshes \cup {r} |->
                           IF q = r THEN [view |-> view, data |-> Body, request |-> NoRequest, over |-> TRUE, by |-> "local"]
                           ELSE refreshes[q]]
        /\ telemetry' = [telemetry EXCEPT !.fallbacks = @ + 1]
        /\ evmMetrics' = [evmMetrics EXCEPT ![view] = Body]
        /\ UNCHANGED <<page, fingerprintCache, evmInFlight, requests, edits, unannounced>>

\* The response has begun: the timer is cleared, and an error status ends it.
Headers(n, ok) ==
    /\ n \in Unanswered /\ requests[n].phase = "headers"
    /\ requests' = [requests EXCEPT ![n].phase = IF ok THEN "body" ELSE "failed"]
    /\ UNCHANGED <<page, fingerprintCache, evmInFlight, refreshes, evmMetrics, telemetry, edits, unannounced>>

\* The timer, or the network, ends a request whose response has not begun.
\* Nothing bounds the time that the body takes.
\* Mutant: the timer is not connected to the request.
GiveUpNever(n) == FALSE
GiveUp(n) ==
    /\ n \in Unanswered /\ requests[n].phase = "headers"
    /\ requests' = [requests EXCEPT ![n].phase = "failed"]
    /\ UNCHANGED <<page, fingerprintCache, evmInFlight, refreshes, evmMetrics, telemetry, edits, unannounced>>

\* The body is read, or does not parse.
EndBody(n, ok) ==
    /\ n \in Unanswered /\ requests[n].phase = "body"
    /\ requests' = [requests EXCEPT ![n].phase = IF ok THEN "answered" ELSE "failed"]
    /\ telemetry' = [telemetry EXCEPT !.successes = @ + (IF ok THEN 1 ELSE 0)]
    /\ UNCHANGED <<page, fingerprintCache, evmInFlight, refreshes, evmMetrics, edits, unannounced>>

\* When the promise settles, its finally clears the slot if that holds the same
\* fingerprint, and every refresh that awaits it goes on: with the result, of
\* which both views are taken into window.evmMetrics, or with the local
\* calculation of its own view from the arrays as they are now.
Cleared(n) == IF evmInFlight # <<>> /\ evmInFlight[1] = requests[n].fingerprint THEN <<>> ELSE evmInFlight
Settle(n) ==
    /\ n \in DOMAIN requests /\ requests[n].phase \in {"answered", "failed"}
    /\ LET ok == requests[n].phase = "answered"
           waiting == Awaiting(n)
       IN  /\ evmMetrics' = [v \in Views |->
                  IF ok /\ waiting # {} THEN requests[n].data
                  ELSE IF \E r \in waiting : refreshes[r].view = v THEN Body
                  ELSE evmMetrics[v]]
           /\ refreshes' = [r \in DOMAIN refreshes |->
                  IF r \in waiting THEN [refreshes[r] EXCEPT !.over = TRUE, !.by = IF ok THEN "backend" ELSE "local"]
                  ELSE refreshes[r]]
           /\ telemetry' = [telemetry EXCEPT !.fallbacks = @ + (IF ok THEN 0 ELSE Cardinality(waiting))]
    /\ evmInFlight' = Cleared(n)
    /\ requests' = [requests EXCEPT ![n].phase = "settled"]
    /\ UNCHANGED <<page, fingerprintCache, edits, unannounced>>

-----------------------------------------------------------------------------
(* What the rest of the page does to the data meanwhile.                      *)
NewArrays ==
    /\ edits < MaxEdits /\ edits' = edits + 1
    /\ \E m \in BOOLEAN : page' = [page EXCEPT !.arrays = edits + 1, !.content = edits + 1, !.milestone = m]
    /\ UNCHANGED <<fingerprintCache, evmInFlight, requests, refreshes, evmMetrics, telemetry, unannounced>>
EditInPlace(announced) ==
    /\ edits < MaxEdits /\ edits' = edits + 1
    /\ page' = [page EXCEPT !.content = edits + 1, !.key = IF announced THEN @ + 1 ELSE @]
    /\ unannounced' = (unannounced \/ ~announced)
    /\ UNCHANGED <<fingerprintCache, evmInFlight, requests, refreshes, evmMetrics, telemetry>>
ChangeCalendar ==
    /\ edits < MaxEdits /\ edits' = edits + 1
    /\ page' = [page EXCEPT !.calendar = edits + 1]
    /\ UNCHANGED <<fingerprintCache, evmInFlight, requests, refreshes, evmMetrics, telemetry, unannounced>>

-----------------------------------------------------------------------------
PageInit ==
    /\ page = [arrays |-> 0, content |-> 0, calendar |-> 0, key |-> 0, milestone |-> TRUE]
    /\ fingerprintCache = <<>> /\ evmInFlight = <<>>
    /\ requests = [n \in {} |-> 0] /\ refreshes = [r \in {} |-> 0]
    /\ evmMetrics = [v \in Views |-> Body]
    /\ telemetry = [calls |-> 0, successes |-> 0, fallbacks |-> 0]
    /\ edits = 0 /\ unannounced = FALSE

Refresh == \E view \in Views : JoinRequest(view) \/ StartRequest(view) \/ RefreshLocally(view)
Edit == NewArrays \/ ChangeCalendar \/ \E announced \in BOOLEAN : EditInPlace(announced)
PageNext ==
    \/ Refresh \/ Edit
    \/ \E n \in Refreshes, ok \in BOOLEAN : Headers(n, ok) \/ EndBody(n, ok)
    \/ \E n \in Refreshes : GiveUp(n) \/ Settle(n)

\* The timer fires, a body that has begun ends, and settled promises run their
\* reactions.  No response need ever begin.
PageFairness ==
    \A n \in Refreshes : /\ WF_pageVars(GiveUp(n)) /\ WF_pageVars(Settle(n))
                         /\ WF_pageVars(\E ok \in BOOLEAN : EndBody(n, ok))

PageSpec == PageInit /\ [][PageNext]_pageVars /\ PageFairness

-----------------------------------------------------------------------------
(* Properties *)

\* A refresh that the backend answered shows the content that the refresh was
\* given, although it may have joined a request of another: unless activities
\* were changed in place and evmInvalidationKey was not raised.
AnswersTheDataAsked ==
    \A r \in DOMAIN refreshes :
        refreshes[r].by = "backend" /\ ~unannounced =>
            requests[refreshes[r].request].data.content = refreshes[r].data.content

\* The slot never holds a promise that has settled: no refresh is answered with
\* a result from before it was asked for, and every failure is tried again.
NeverJoinsSettled == evmInFlight # <<>> => requests[evmInFlight[2]].phase # "settled"

\* No refresh is answered with other data than its own, nor with an old answer.
AnsweredRight == AnswersTheDataAsked /\ NeverJoinsSettled

\* Every refresh ends with its view drawn, though no response need ever begin.
RefreshEnds == \A r \in Refreshes : r \in DOMAIN refreshes ~> r \in DOMAIN refreshes /\ refreshes[r].over
=============================================================================
