-------------------------- MODULE AnalysisService --------------------------
(***************************************************************************)
(* What a caller of the service may rely on, with no cache in sight: a      *)
(* request is answered with the analysis of its payload, or with an error   *)
(* if that cannot be analysed.  At the graph endpoint the analysis is that  *)
(* of the release the worker runs; at those of the packages it may be any   *)
(* release's.  A worker that is replaced drops the requests it works on.    *)
(***************************************************************************)
CONSTANTS
    Workers, Handlers,  \* a handler is a worker's thread: <<worker, slot>>
    Releases, Requests,
    Nothing,            \* in place of a request or an answer
    Analysis(_, _)      \* of a payload, by a release

VARIABLES release, asked, answer

vars == <<release, asked, answer>>

Init ==
    /\ release \in [Workers -> Releases]
    /\ asked = [h \in Handlers |-> Nothing]
    /\ answer = [h \in Handlers |-> Nothing]

Submit(h, request) ==
    /\ asked[h] = Nothing /\ answer[h] = Nothing
    /\ asked' = [asked EXCEPT ![h] = request]
    /\ UNCHANGED <<release, answer>>

Answer(h) ==
    /\ asked[h] # Nothing
    /\ \E r \in IF asked[h].endpoint = "graph" THEN {release[h[1]]} ELSE Releases :
          answer' = [answer EXCEPT ![h] = Analysis(asked[h].payload, r)]
    /\ asked' = [asked EXCEPT ![h] = Nothing]
    /\ UNCHANGED release

Take(h) ==
    /\ answer[h] # Nothing
    /\ answer' = [answer EXCEPT ![h] = Nothing]
    /\ UNCHANGED <<release, asked>>

Replace(w) ==
    /\ \E r \in Releases : release' = [release EXCEPT ![w] = r]
    /\ asked' = [h \in Handlers |-> IF h[1] = w THEN Nothing ELSE asked[h]]
    /\ answer' = [h \in Handlers |-> IF h[1] = w THEN Nothing ELSE answer[h]]

Next ==
    \/ \E h \in Handlers : Answer(h) \/ Take(h) \/ \E request \in Requests : Submit(h, request)
    \/ \E w \in Workers : Replace(w)

Spec == Init /\ [][Next]_vars
=============================================================================
