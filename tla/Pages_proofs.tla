---------------------------- MODULE Pages_proofs ----------------------------
(***************************************************************************)
(* Proofs about the parts of the pages that share no state: useResource,   *)
(* for any dependencies and options; the maps index, for any filters,      *)
(* pages and toggles; the radar's time line, for any ranges, intervals and *)
(* spans; the search field, for any inputs and any mapping to terms; the   *)
(* live events, for any sizes of the ring, the history and the page, and   *)
(* any number of events, connections and lost events; and the auto join of *)
(* a tab, for any lists, targets, arms, places in the back/forward cache,  *)
(* and number of timers and lost streams.                                  *)
(***************************************************************************)
EXTENDS Resource, MapsIndex, Timeline, SuggestSearch, LiveFeed, AutoJoin, Lists_proofs

(* useResource *)

(* A request is under way exactly when inFlight says so, and for the key. *)
FetchInv ==
  /\ hook.inFlight <=> hook.pending # None
  /\ hook.pending # None => hook.pending = key /\ key \notin Locked

HookInv == ResourceTypeOK /\ FetchInv /\ ShownIsAsked /\ LoadingIsUnderWay

Hooks ==
  [data : Keys \union {None}, error : Errors \union {None}, loading : BOOLEAN,
   inFlight : BOOLEAN, pending : Keys \union {None}, stale : SUBSET Keys]

Retries == [timer : {None, "initial", "steady"}, once : BOOLEAN]

-----------------------------------------------------------------------------
(* What the effect makes of what the hook holds, for the key it runs for. *)
LEMMA FetchedHolds ==
  ASSUME ResourceAssumption, NEW h \in Hooks, NEW k \in Keys
  PROVE  LET g == Fetched(Aborted(h), k) IN
           /\ g \in Hooks
           /\ k \notin Locked => g.pending = k /\ g.inFlight = TRUE /\ g.loading = TRUE
           /\ k \in Locked => g.pending = None /\ g.inFlight = FALSE
<1> DEFINE a == Aborted(h)
<1>1. a \in Hooks /\ a.pending = None
  BY DEF Aborted, Hooks
<1> HIDE DEF a
<1>2. CASE k \notin Locked
  <2> DEFINE g == [a EXCEPT !.pending = k, !.inFlight = TRUE, !.loading = TRUE,
                            !.error = IF options.keepError THEN @ ELSE None,
                            !.data = IF options.keepData THEN @ ELSE None]
  <2>1. Fetched(a, k) = g
    BY <1>2 DEF Fetched
  <2>2. g \in Hooks /\ g.pending = k /\ g.inFlight = TRUE /\ g.loading = TRUE
    BY <1>1 DEF Hooks
  <2> QED
    BY <1>2, <2>1, <2>2 DEF a
<1>3. CASE k \in Locked /\ a.inFlight
  <2> DEFINE g == [a EXCEPT !.inFlight = FALSE, !.loading = FALSE,
                            !.data = IF options.keepData THEN @ ELSE None]
  <2>1. Fetched(a, k) = g
    BY <1>3 DEF Fetched
  <2>2. g \in Hooks /\ g.pending = None /\ g.inFlight = FALSE
    BY <1>1 DEF Hooks
  <2> QED
    BY <1>3, <2>1, <2>2 DEF a
<1>4. CASE k \in Locked /\ ~a.inFlight
  <2>1. Fetched(a, k) = a
    BY <1>4 DEF Fetched
  <2>2. a.inFlight = FALSE
    BY <1>1, <1>4 DEF Hooks
  <2> QED
    BY <1>1, <1>4, <2>1, <2>2 DEF a
<1> QED
  BY <1>2, <1>3, <1>4

LEMMA RenderTypes ==
  ASSUME NEW r \in Retries, NEW h \in Hooks, Render(r, h)
  PROVE  hook' = h /\ retry' \in Retries
BY DEF Render, Waiting, Idle, Retries

(* Answers end the request. *)
LEMMA AnswersHold ==
  ASSUME ResourceAssumption, NEW h \in Hooks, NEW k \in Keys, NEW kind \in {"notReady", "failed"}
  PROVE  /\ Resolved(h, k) \in Hooks /\ Rejected(h, k, kind) \in Hooks
         /\ \A g \in {Resolved(h, k), Rejected(h, k, kind)} :
              g.pending = None /\ g.inFlight = FALSE /\ g.loading = FALSE
         /\ Resolved(h, k).data = k /\ Resolved(h, k).error = None
         /\ Rejected(h, k, kind).error = Failure(k, kind)
<1> DEFINE d == Done(h)
<1>1. d \in Hooks /\ d.pending = None /\ d.inFlight = FALSE /\ d.loading = FALSE
  BY DEF Done, Hooks
<1> HIDE DEF d
<1>2. Failure(k, kind) \in Errors
  BY DEF Failure, Errors
<1>3. /\ [d EXCEPT !.data = k, !.error = None] \in Hooks
      /\ [d EXCEPT !.data = k, !.error = None].pending = None
      /\ [d EXCEPT !.data = k, !.error = None].inFlight = FALSE
      /\ [d EXCEPT !.data = k, !.error = None].loading = FALSE
      /\ [d EXCEPT !.data = k, !.error = None].data = k
      /\ [d EXCEPT !.data = k, !.error = None].error = None
  BY <1>1 DEF Hooks
<1>4. /\ [d EXCEPT !.error = Failure(k, kind)] \in Hooks
      /\ [d EXCEPT !.error = Failure(k, kind)].pending = None
      /\ [d EXCEPT !.error = Failure(k, kind)].inFlight = FALSE
      /\ [d EXCEPT !.error = Failure(k, kind)].loading = FALSE
      /\ [d EXCEPT !.error = Failure(k, kind)].error = Failure(k, kind)
  BY <1>1, <1>2 DEF Hooks
<1> QED
  BY <1>3, <1>4 DEF d, Resolved, Rejected

-----------------------------------------------------------------------------
LEMMA InvariantBegins ==
  ASSUME ResourceAssumption, ResourceInit
  PROVE  HookInv
<1>1. /\ FreshHook \in Hooks /\ FreshHook.pending = None /\ FreshHook.inFlight = FALSE /\ FreshHook.error = None
      /\ FreshHook.data = seed /\ FreshHook.loading = (seed = None)
  BY DEF ResourceInit, FreshHook, Hooks
<1>2. Aborted(FreshHook) = FreshHook
  BY <1>1 DEF Aborted, Hooks
<1>3. /\ key \in Keys /\ options \in OptionSet /\ seed \in {None, key} /\ options \in Options
      /\ calculated = {} /\ retry = Idle
  BY DEF ResourceInit, ResourceAssumption
<1>4. retry \in Retries
  BY <1>3 DEF Idle, Retries
<1>5. CASE SkipFirst
  <2>1. hook = FreshHook
    BY <1>5 DEF ResourceInit
  <2>2. seed = None => SkipsUnseeded
    <3>1. CASE options.skipFirst = None
      BY <1>5, <3>1 DEF SkipFirst
    <3>2. CASE options.skipFirst \in BOOLEAN
      <4>1. options.skipFirst # None
        BY <3>2 DEF ResourceAssumption
      <4>2. options.skipFirst
        BY <1>5, <4>1 DEF SkipFirst
      <4>3. options.skipFirst = TRUE
        BY <3>2, <4>2
      <4> QED
        BY <4>3 DEF SkipsUnseeded
    <3>3. options.skipFirst \in BOOLEAN \union {None}
      BY <1>3 DEF OptionSet
    <3> QED
      BY <3>1, <3>2, <3>3
  <2>3. FetchInv
    BY <1>1, <2>1 DEF FetchInv
  <2>4. ShownIsAsked /\ LoadingIsUnderWay
    BY <1>1, <1>3, <2>1, <2>2 DEF ShownIsAsked, LoadingIsUnderWay
  <2> QED
    BY <1>1, <1>3, <1>4, <2>1, <2>3, <2>4 DEF HookInv, ResourceTypeOK, Hooks, Retries
<1>6. CASE ~SkipFirst
  <2>1. hook = Fetched(Aborted(FreshHook), key)
    BY <1>2, <1>6 DEF ResourceInit
  <2>2. /\ hook \in Hooks
        /\ key \notin Locked => hook.pending = key /\ hook.inFlight = TRUE /\ hook.loading = TRUE
        /\ key \in Locked => hook.pending = None /\ hook.inFlight = FALSE
    BY <1>1, <1>3, <2>1, FetchedHolds
  <2>3. FetchInv /\ ShownIsAsked /\ LoadingIsUnderWay
    BY <1>3, <2>2 DEF FetchInv, ShownIsAsked, LoadingIsUnderWay, ResourceAssumption
  <2> QED
    BY <1>3, <1>4, <2>2, <2>3 DEF HookInv, ResourceTypeOK, Hooks, Retries
<1> QED
  BY <1>5, <1>6

(* The effect ran anew, for the key or another. *)
LEMMA EffectStep ==
  ASSUME ResourceAssumption, HookInv, NEW k \in Keys, key' = k, NEW r \in Retries,
         Render(r, Fetched(Aborted(hook), k)), UNCHANGED <<options, seed, calculated>>
  PROVE  HookInv'
<1>1. hook \in Hooks
  BY DEF HookInv, ResourceTypeOK, Hooks
<1>2. /\ Fetched(Aborted(hook), k) \in Hooks
      /\ k \notin Locked => LET g == Fetched(Aborted(hook), k) IN
                              g.pending = k /\ g.inFlight = TRUE /\ g.loading = TRUE
      /\ k \in Locked => LET g == Fetched(Aborted(hook), k) IN g.pending = None /\ g.inFlight = FALSE
  BY <1>1, FetchedHolds
<1>3. hook' = Fetched(Aborted(hook), k) /\ retry' \in Retries
  BY <1>2, RenderTypes
<1>4. FetchInv' /\ ShownIsAsked' /\ LoadingIsUnderWay'
  <2>1. CASE k \notin Locked
    <3>1. hook'.pending = k /\ hook'.inFlight = TRUE /\ hook'.loading = TRUE /\ key' = k /\ k # None
      BY <1>2, <1>3, <2>1 DEF ResourceAssumption
    <3> QED
      BY <2>1, <3>1 DEF FetchInv, ShownIsAsked, LoadingIsUnderWay
  <2>2. CASE k \in Locked
    <3>1. hook'.pending = None /\ hook'.inFlight = FALSE /\ key' = k
      BY <1>2, <1>3, <2>2
    <3> QED
      BY <2>2, <3>1 DEF FetchInv, ShownIsAsked, LoadingIsUnderWay
  <2> QED
    BY <2>1, <2>2
<1>5. ResourceTypeOK'
  BY <1>2, <1>3 DEF HookInv, ResourceTypeOK, Hooks, Retries
<1> QED
  BY <1>4, <1>5 DEF HookInv

(* The request for the key was answered. *)
LEMMA AnswerStep ==
  ASSUME ResourceAssumption, HookInv, hook.pending # None, NEW kind \in {"notReady", "failed"},
         \/ Render(retry, Resolved(hook, hook.pending))
         \/ Render(retry, Rejected(hook, hook.pending, kind)),
         UNCHANGED <<options, seed, key, calculated>>
  PROVE  HookInv'
<1>1. hook \in Hooks /\ retry \in Retries /\ key \in Keys /\ hook.pending = key
  BY DEF HookInv, ResourceTypeOK, Hooks, Retries, FetchInv
<1>2. /\ hook' \in Hooks /\ retry' \in Retries
      /\ hook'.pending = None /\ hook'.inFlight = FALSE /\ hook'.loading = FALSE
      /\ \/ hook'.data = key /\ hook'.error = None
         \/ hook'.error = Failure(key, kind)
  <2>1. CASE Render(retry, Resolved(hook, hook.pending))
    <3>1. hook' = Resolved(hook, key) /\ retry' \in Retries
      BY <1>1, <2>1, AnswersHold, RenderTypes
    <3> QED
      BY <1>1, <3>1, AnswersHold
  <2>2. CASE Render(retry, Rejected(hook, hook.pending, kind))
    <3>1. hook' = Rejected(hook, key, kind) /\ retry' \in Retries
      BY <1>1, <2>2, AnswersHold, RenderTypes
    <3> QED
      BY <1>1, <3>1, AnswersHold
  <2> QED
    BY <2>1, <2>2
<1>3. Failure(key, kind) \in Errors /\ Failure(key, kind).of = key
  BY <1>1 DEF Failure, Errors
<1>4. ShownIsAsked'
  <2>1. hook'.error = Failure(key, kind) => hook'.error # None /\ hook'.error.of = key
    BY <1>3 DEF ResourceAssumption
  <2>2. key' = key
    OBVIOUS
  <2> QED
    BY <1>2, <2>1, <2>2 DEF ShownIsAsked
<1>5. FetchInv' /\ LoadingIsUnderWay'
  BY <1>2 DEF FetchInv, LoadingIsUnderWay
<1>6. ResourceTypeOK'
  BY <1>1, <1>2 DEF HookInv, ResourceTypeOK, Hooks, Retries
<1> QED
  BY <1>4, <1>5, <1>6 DEF HookInv

LEMMA InvariantKept ==
  ASSUME ResourceAssumption, HookInv, [ResourceNext]_resourceVars
  PROVE  HookInv'
<1>1. hook \in Hooks /\ retry \in Retries /\ key \in Keys
  BY DEF HookInv, ResourceTypeOK, Hooks, Retries
<1>2. CASE ChangeKey
  BY <1>1, <1>2, EffectStep DEF ChangeKey
<1>3. CASE Answer
  BY <1>3, AnswerStep DEF Answer
<1>4. CASE Fail
  BY <1>4, AnswerStep DEF Fail
<1>5. CASE TimerFires
  <2>1. [timer |-> None, once |-> TRUE] \in Retries
    BY DEF Retries
  <2> QED
    BY <1>1, <1>5, <2>1, EffectStep DEF TimerFires
<1>6. ASSUME NEW k \in Keys, StaleAnswer(k)
      PROVE  HookInv'
  <2>1. /\ hook' \in Hooks
        /\ hook'.pending = hook.pending /\ hook'.inFlight = hook.inFlight
        /\ hook'.loading = hook.loading /\ hook'.data = hook.data /\ hook'.error = hook.error
    BY <1>1, <1>6 DEF StaleAnswer, Hooks
  <2>2. FetchInv' /\ ShownIsAsked' /\ LoadingIsUnderWay'
    BY <1>6, <2>1 DEF StaleAnswer, HookInv, FetchInv, ShownIsAsked, LoadingIsUnderWay, SkipsUnseeded
  <2>3. ResourceTypeOK'
    BY <1>6, <2>1 DEF StaleAnswer, HookInv, ResourceTypeOK, Hooks
  <2> QED
    BY <2>2, <2>3 DEF HookInv
<1>7. ASSUME NEW k \in Keys, Calculate(k)
      PROVE  HookInv'
  BY <1>7 DEF Calculate, HookInv, ResourceTypeOK, FetchInv, ShownIsAsked, LoadingIsUnderWay, SkipsUnseeded
<1>8. CASE UNCHANGED resourceVars
  BY <1>8 DEF resourceVars, HookInv, ResourceTypeOK, FetchInv, ShownIsAsked, LoadingIsUnderWay, SkipsUnseeded
<1> QED
  BY <1>2, <1>3, <1>4, <1>5, <1>6, <1>7, <1>8 DEF ResourceNext

LEMMA ResourceInvariant ==
  ASSUME ResourceAssumption
  PROVE  ResourceSpec => []HookInv
<1>1. ResourceInit => HookInv
  BY InvariantBegins
<1>2. HookInv /\ [ResourceNext]_resourceVars => HookInv'
  BY InvariantKept
<1> QED
  BY <1>1, <1>2, PTL DEF ResourceSpec

(* Every state of the hooks is well typed. *)
THEOREM ResourceTypes ==
  ASSUME ResourceAssumption
  PROVE  ResourceSpec => []ResourceTypeOK
<1>1. HookInv => ResourceTypeOK
  BY DEF HookInv
<1> QED
  BY <1>1, ResourceInvariant, PTL

(* Whatever was kept and whatever came late, what is shown out of loading is *)
(* the data or the error of the key.                                         *)
THEOREM AnswersMatchTheirKey ==
  ASSUME ResourceAssumption
  PROVE  ResourceSpec => []ShownIsAsked
<1>1. HookInv => ShownIsAsked
  BY DEF HookInv
<1> QED
  BY <1>1, ResourceInvariant, PTL

(* Loading is shown while the answer for the key is under way, or the key is *)
(* one for which nothing is fetched.                                         *)
THEOREM LoadingHasItsRequest ==
  ASSUME ResourceAssumption
  PROVE  ResourceSpec => []LoadingIsUnderWay
<1>1. HookInv => LoadingIsUnderWay
  BY DEF HookInv
<1> QED
  BY <1>1, ResourceInvariant, PTL

-----------------------------------------------------------------------------
(* The maps index *)

(* A request's rows have what was recorded when it was made. *)
RequestInv ==
  /\ recorded \subseteq applied
  /\ \A k \in PageKeys : k.filter = "Favorite" /\ requests[k] # None =>
       /\ requests[k].version \subseteq recorded
       /\ requests[k].rows # None => requests[k].version \subseteq requests[k].rows

(* The view has its rows or its error, or waits for a request. *)
ViewInv == shown = pageKey \/ failed = pageKey \/ (awaited /\ requests[pageKey] # None)

IInv == MapsTypeOK /\ RequestInv /\ ViewInv /\ FavoritesAreFresh

Tables == [PageKeys -> Requested \union {None}]

(* Requests as they were, and new ones of what is recorded now. *)
Grown(rs, is) == \A k \in PageKeys : is[k] = rs[k] \/ is[k] = Request(k)

-----------------------------------------------------------------------------
LEMMA RowsAre ==
  /\ None \in Rows /\ \A s \in SUBSET Toggles : s \in Rows
  /\ \A r \in Rows : r # None => r \in SUBSET Toggles
BY DEF Rows

LEMMA RequestTypes ==
  ASSUME MapsTypeOK, NEW k \in PageKeys
  PROVE  /\ Request(k) \in Requested /\ Request(k).rows = None
         /\ k.filter = "Favorite" => Request(k).version = recorded
<1> DEFINE v == IF k.filter = "Favorite" THEN recorded ELSE {}
<1>1. v \in SUBSET Toggles
  BY DEF MapsTypeOK
<1>2. Request(k) = [version |-> v, rows |-> None]
  BY DEF Request
<1> HIDE DEF v
<1>3. /\ Request(k) \in Requested /\ Request(k).rows = None /\ Request(k).version = v
  BY <1>1, <1>2, RowsAre DEF Requested
<1> QED
  BY <1>3 DEF v

LEMMA KeyFields ==
  ASSUME NEW k \in PageKeys
  PROVE  k.filter \in Filters /\ k.page \in 0..LastPage[k.filter] /\ k = [filter |-> k.filter, page |-> k.page]
<1>1. PICK f \in Filters : k \in [filter : {f}, page : 0..LastPage[f]]
  BY DEF PageKeys
<1> QED
  BY <1>1

LEMMA KeysOf ==
  ASSUME NEW f \in Filters, NEW p \in 0..LastPage[f]
  PROVE  [filter |-> f, page |-> p] \in PageKeys
<1>1. [filter |-> f, page |-> p] \in [filter : {f}, page : 0..LastPage[f]]
  OBVIOUS
<1> QED
  BY <1>1 DEF PageKeys

LEMMA NextPage ==
  ASSUME MapsAssumption, NEW k \in PageKeys, k.page < LastPage[k.filter]
  PROVE  [k EXCEPT !.page = @ + 1] \in PageKeys
<1>1. /\ k.filter \in Filters /\ k.page \in 0..LastPage[k.filter]
      /\ k = [filter |-> k.filter, page |-> k.page]
  BY KeyFields
<1>2. LastPage[k.filter] \in Nat
  BY <1>1 DEF MapsAssumption
<1>3. k.page + 1 \in 0..LastPage[k.filter]
  BY <1>1, <1>2
<1>4. [k EXCEPT !.page = @ + 1] = [filter |-> k.filter, page |-> k.page + 1]
  BY <1>1
<1> QED
  BY <1>1, <1>3, <1>4, KeysOf

LEMMA StartedGrows ==
  ASSUME MapsTypeOK, NEW rs \in Tables, NEW k \in PageKeys
  PROVE  /\ Started(rs, k) \in Tables /\ Grown(rs, Started(rs, k))
         /\ cache[k] = None => \/ Started(rs, k)[k] = rs[k] /\ rs[k] # None
                               \/ Started(rs, k)[k] = Request(k)
BY RequestTypes DEF Started, Tables, Grown

LEMMA AheadGrows ==
  ASSUME MapsAssumption, MapsTypeOK, NEW rs \in Tables, NEW k \in PageKeys
  PROVE  /\ Ahead(rs, k) \in Tables /\ Grown(rs, Ahead(rs, k))
         /\ \A j \in PageKeys : rs[j] # None => Ahead(rs, k)[j] = rs[j]
<1>1. CASE k.page < LastPage[k.filter]
  <2> DEFINE n == [k EXCEPT !.page = @ + 1]
  <2>1. n \in PageKeys
    BY <1>1, NextPage
  <2> HIDE DEF n
  <2>2. Ahead(rs, k) = Started(rs, n)
    BY <1>1 DEF Ahead, n
  <2>3. \A j \in PageKeys : rs[j] # None => Started(rs, n)[j] = rs[j]
    BY <2>1 DEF Started, Tables
  <2> QED
    BY <2>1, <2>2, <2>3, StartedGrows
<1>2. CASE ~(k.page < LastPage[k.filter])
  BY <1>2 DEF Ahead, Grown
<1> QED
  BY <1>1, <1>2

(* Requests that grow keep their invariant, as long as what is recorded stays. *)
LEMMA GrownKeeps ==
  ASSUME MapsTypeOK, RequestInv, NEW rs \in Tables, Grown(rs, requests'),
         \A k \in PageKeys : rs[k] = requests[k] \/ rs[k] = None,
         requests' \in Tables, UNCHANGED favs
  PROVE  RequestInv'
BY RequestTypes DEF RequestInv, Grown, Tables, favs

-----------------------------------------------------------------------------
LEMMA InitHolds ==
  ASSUME MapsAssumption, MapsInit
  PROVE  IInv
<1> DEFINE empty == [k \in PageKeys |-> None]
<1>1. PICK f \in Filters : f # "Favorite" /\ filter = f /\ page = 0
  BY DEF MapsInit
<1>2. 0 \in 0..LastPage[f]
  BY DEF MapsAssumption
<1>3. pageKey \in PageKeys /\ pageKey.filter # "Favorite"
  BY <1>1, <1>2, KeysOf DEF pageKey
<1>4. /\ applied = {} /\ recorded = {} /\ sent = {} /\ shown = pageKey /\ failed = None /\ awaited = FALSE
      /\ cache = [k \in PageKeys |-> IF k = pageKey THEN {} ELSE None]
      /\ requests = Ahead(empty, pageKey)
  BY DEF MapsInit
<1>5. empty \in Tables /\ \A k \in PageKeys : empty[k] = None
  BY DEF Tables
<1>6. /\ cache \in [PageKeys -> Rows]
      /\ \A k \in PageKeys : k.filter = "Favorite" => cache[k] = None
  BY <1>3, <1>4, RowsAre
<1> HIDE DEF empty
<1>7. CASE pageKey.page < LastPage[pageKey.filter]
  <2> DEFINE n == [pageKey EXCEPT !.page = @ + 1]
  <2>1. n \in PageKeys
    BY <1>3, <1>7, NextPage
  <2>2. n.filter # "Favorite"
    BY <1>3 DEF pageKey
  <2> HIDE DEF n
  <2>3. requests = Started(empty, n)
    BY <1>4, <1>7 DEF Ahead, n
  <2>4. Request(n) = [version |-> {}, rows |-> None]
    BY <2>2 DEF Request
  <2>5. Request(n) \in Requested
    BY <2>4, RowsAre DEF Requested
  <2>6. requests = empty \/ requests = [empty EXCEPT ![n] = Request(n)]
    BY <2>3 DEF Started
  <2>7. /\ requests \in Tables
        /\ \A k \in PageKeys : k.filter = "Favorite" => requests[k] = None
    BY <1>5, <2>1, <2>2, <2>5, <2>6 DEF Tables
  <2> QED
    BY <1>3, <1>4, <1>6, <2>7 DEF IInv, MapsTypeOK, RequestInv, ViewInv, FavoritesAreFresh, Tables
<1>8. CASE ~(pageKey.page < LastPage[pageKey.filter])
  <2>1. requests = empty
    BY <1>4, <1>8 DEF Ahead
  <2> QED
    BY <1>3, <1>4, <1>5, <1>6, <2>1 DEF IInv, MapsTypeOK, RequestInv, ViewInv, FavoritesAreFresh, Tables
<1> QED
  BY <1>7, <1>8

(* A view of a new key, and what it does to the requests. *)
LEMMA ViewHolds ==
  ASSUME MapsAssumption, IInv, pageKey' \in PageKeys, View(pageKey'), UNCHANGED <<cache, favs>>
  PROVE  IInv'
<1> DEFINE k == pageKey'
<1>1. MapsTypeOK /\ RequestInv /\ k \in PageKeys /\ requests \in Tables /\ Grown(requests, requests)
  BY DEF IInv, MapsTypeOK, Tables, Grown
<1>2. View(k)
  OBVIOUS
<1>a. pageKey' = k
  OBVIOUS
<1> HIDE DEF k
<1>3. CASE cache[k] # None
  <2>1. requests' = Ahead(requests, k) /\ shown' = k /\ failed' = None /\ awaited' = FALSE
    BY <1>2, <1>3 DEF View
  <2>2. requests' \in Tables /\ Grown(requests, requests')
    BY <1>1, <2>1, AheadGrows
  <2>3. RequestInv'
    BY <1>1, <2>2, GrownKeeps
  <2> QED
    BY <1>1, <1>a, <2>1, <2>2, <2>3 DEF IInv, MapsTypeOK, ViewInv, FavoritesAreFresh, favs, Tables
<1>4. CASE cache[k] = None
  <2> DEFINE s == Started(requests, k)
  <2>1. /\ s \in Tables /\ Grown(requests, s)
        /\ s[k] # None
    <3>1. s \in Tables /\ Grown(requests, s)
          /\ ((s[k] = requests[k] /\ requests[k] # None) \/ s[k] = Request(k))
      BY <1>1, <1>4, StartedGrows
    <3>2. Request(k) # None
      BY <1>1, RequestTypes DEF MapsAssumption
    <3> QED
      BY <3>1, <3>2
  <2>2. /\ awaited' = TRUE /\ UNCHANGED <<shown, failed>>
        /\ requests' = s \/ requests' = Ahead(s, k)
    BY <1>2, <1>4 DEF View
  <2> HIDE DEF s
  <2>3. /\ Ahead(s, k) \in Tables /\ Grown(s, Ahead(s, k))
        /\ Ahead(s, k)[k] # None
    BY <1>1, <2>1, AheadGrows
  <2>4. requests' \in Tables /\ Grown(requests, requests') /\ requests'[k] # None
    BY <2>1, <2>2, <2>3 DEF Grown
  <2>5. RequestInv'
    BY <1>1, <2>4, GrownKeeps
  <2> QED
    BY <1>1, <1>a, <2>2, <2>4, <2>5 DEF IInv, MapsTypeOK, ViewInv, FavoritesAreFresh, favs, Tables
<1> QED
  BY <1>3, <1>4

LEMMA SetFilterHolds ==
  ASSUME MapsAssumption, IInv, NEW f \in Filters, SetFilter(f)
  PROVE  IInv'
<1>1. 0 \in 0..LastPage[f]
  BY DEF MapsAssumption
<1>2. pageKey' \in PageKeys
  BY <1>1, KeysOf DEF SetFilter, pageKey
<1>3. CASE pageKey' = pageKey
  BY <1>2, <1>3 DEF SetFilter, SameView, IInv, MapsTypeOK, RequestInv, ViewInv, FavoritesAreFresh, favs, viewVars
<1>4. CASE pageKey' # pageKey
  BY <1>2, <1>4, ViewHolds DEF SetFilter
<1> QED
  BY <1>3, <1>4

LEMMA SetPageHolds ==
  ASSUME MapsAssumption, IInv, NEW p \in 0..LastPage[filter], SetPage(p)
  PROVE  IInv'
<1>1. filter \in Filters
  BY KeyFields DEF IInv, MapsTypeOK, pageKey
<1>2. pageKey' \in PageKeys
  BY <1>1, KeysOf DEF SetPage, pageKey
<1> QED
  BY <1>2, ViewHolds DEF SetPage

LEMMA RemountHolds ==
  ASSUME MapsAssumption, IInv, Remount
  PROVE  IInv'
<1>1. PICK f \in Filters \ {"Favorite"} :
        LET k == [filter |-> f, page |-> 0] IN
          /\ filter' = f /\ page' = 0
          /\ cache' = [cache EXCEPT ![k] = {}]
          /\ shown' = k /\ failed' = None /\ awaited' = FALSE
          /\ requests' = Ahead(requests, k)
          /\ UNCHANGED favs
  BY DEF Remount
<1> DEFINE k == [filter |-> f, page |-> 0]
<1>2. 0 \in 0..LastPage[f]
  BY DEF MapsAssumption
<1>3. k \in PageKeys /\ k.filter # "Favorite" /\ pageKey' = k
  BY <1>1, <1>2, KeysOf DEF pageKey
<1>4. /\ cache' = [cache EXCEPT ![k] = {}] /\ UNCHANGED favs
      /\ shown' = k /\ failed' = None /\ awaited' = FALSE
      /\ requests' = Ahead(requests, k)
  BY <1>1
<1> HIDE DEF k
<1>5. MapsTypeOK /\ RequestInv /\ FavoritesAreFresh /\ requests \in Tables
  BY DEF IInv, MapsTypeOK, Tables
<1>6. requests' \in Tables /\ Grown(requests, requests')
  BY <1>3, <1>4, <1>5, AheadGrows
<1>7. RequestInv'
  BY <1>4, <1>5, <1>6, GrownKeeps
<1>8. cache' \in [PageKeys -> Rows]
      /\ \A j \in PageKeys : j.filter = "Favorite" => cache'[j] = cache[j]
  BY <1>3, <1>4, <1>5, RowsAre DEF MapsTypeOK
<1> QED
  BY <1>3, <1>4, <1>5, <1>6, <1>7, <1>8 DEF IInv, MapsTypeOK, ViewInv, FavoritesAreFresh, favs, Tables

(* An answer or an error: the key's request is gone, and the view had it if it waited. *)
LEMMA LeftHolds ==
  ASSUME MapsAssumption, IInv, NEW k \in PageKeys,
         NEW left, left = [requests EXCEPT ![k] = None],
         requests' = left \/ requests' = Ahead(left, k),
         cache' \in [PageKeys -> Rows], UNCHANGED <<favs, filter, page>>
  PROVE  /\ requests' \in Tables /\ RequestInv' /\ pageKey' = pageKey
         /\ pageKey # k /\ requests[pageKey] # None => requests'[pageKey] # None
<1>1. MapsTypeOK /\ RequestInv /\ requests \in Tables
  BY DEF IInv, MapsTypeOK, Tables
<1>2. /\ left \in Tables
      /\ \A j \in PageKeys : left[j] = requests[j] \/ left[j] = None
      /\ \A j \in PageKeys : j # k => left[j] = requests[j]
  BY <1>1 DEF Tables
<1>3. /\ requests' \in Tables /\ Grown(left, requests')
      /\ \A j \in PageKeys : left[j] # None => requests'[j] = left[j]
  <2>1. CASE requests' = left
    BY <1>2, <2>1 DEF Grown
  <2>2. CASE requests' = Ahead(left, k)
    BY <1>1, <1>2, <2>2, AheadGrows
  <2> QED
    BY <2>1, <2>2
<1>4. RequestInv'
  BY <1>1, <1>2, <1>3, GrownKeeps
<1>5. pageKey' = pageKey /\ pageKey \in PageKeys
  BY <1>1 DEF MapsTypeOK, pageKey
<1> QED
  BY <1>2, <1>3, <1>4, <1>5

LEMMA AnswerHolds ==
  ASSUME MapsAssumption, IInv, NEW k \in PageKeys, PageArrives(k)
  PROVE  IInv'
<1> DEFINE left == [requests EXCEPT ![k] = None]
<1>1. /\ MapsTypeOK /\ RequestInv /\ ViewInv /\ FavoritesAreFresh
      /\ requests[k] \in Requested /\ requests[k].rows \in SUBSET Toggles
  BY RowsAre DEF IInv, MapsTypeOK, PageArrives, Requested
<1>2. /\ cache' \in [PageKeys -> Rows]
      /\ \A j \in PageKeys : cache'[j] = cache[j] \/ (j = k /\ Cacheable(k) /\ cache'[j] = requests[k].rows)
  BY <1>1, RowsAre DEF PageArrives, MapsTypeOK
<1>3. UNCHANGED <<favs, filter, page>> /\ (requests' = left \/ requests' = Ahead(left, k))
  BY DEF PageArrives
<1>4. /\ requests' \in Tables /\ RequestInv' /\ pageKey' = pageKey
      /\ pageKey # k /\ requests[pageKey] # None => requests'[pageKey] # None
  BY <1>2, <1>3, LeftHolds
<1>5. FavoritesAreFresh'
  <2> SUFFICES ASSUME NEW j \in PageKeys, j.filter = "Favorite", cache'[j] # None
               PROVE  recorded \subseteq cache'[j]
    BY <1>3 DEF FavoritesAreFresh, favs
  <2>1. CASE cache'[j] = cache[j]
    BY <1>1, <2>1 DEF FavoritesAreFresh
  <2>2. CASE j = k /\ Cacheable(k) /\ cache'[j] = requests[k].rows
    BY <1>1, <2>2 DEF Cacheable, RequestInv, PageArrives
  <2> QED
    BY <1>2, <2>1, <2>2
<1>6. ViewInv' /\ (pageKey \in PageKeys /\ shown \in PageKeys /\ failed \in PageKeys \union {None} /\ awaited \in BOOLEAN)'
  <2>1. CASE awaited /\ k = pageKey
    BY <1>1, <1>4, <2>1 DEF PageArrives, Delivered, ViewInv, MapsTypeOK
  <2>2. CASE ~(awaited /\ k = pageKey)
    <3>1. UNCHANGED viewVars
      BY <2>2 DEF PageArrives, Delivered
    <3> QED
      BY <1>1, <1>4, <2>2, <3>1 DEF ViewInv, MapsTypeOK, viewVars
  <2> QED
    BY <2>1, <2>2
<1> QED
  BY <1>1, <1>2, <1>3, <1>4, <1>5, <1>6 DEF IInv, MapsTypeOK, favs, Tables

LEMMA FailHolds ==
  ASSUME MapsAssumption, IInv, NEW k \in PageKeys, PageFails(k)
  PROVE  IInv'
<1> DEFINE left == [requests EXCEPT ![k] = None]
<1>1. MapsTypeOK /\ RequestInv /\ ViewInv /\ FavoritesAreFresh
  BY DEF IInv
<1>2. UNCHANGED <<cache, favs, filter, page, shown>> /\ (requests' = left \/ requests' = Ahead(left, k))
  BY DEF PageFails
<1>3. cache' \in [PageKeys -> Rows]
  BY <1>1, <1>2 DEF MapsTypeOK
<1>4. /\ requests' \in Tables /\ RequestInv' /\ pageKey' = pageKey
      /\ pageKey # k /\ requests[pageKey] # None => requests'[pageKey] # None
  BY <1>2, <1>3, LeftHolds
<1>5. ViewInv' /\ (failed \in PageKeys \union {None} /\ awaited \in BOOLEAN)'
  <2>1. CASE awaited /\ k = pageKey
    BY <1>1, <1>2, <1>4, <2>1 DEF PageFails, ViewInv, MapsTypeOK
  <2>2. CASE ~(awaited /\ k = pageKey)
    <3>1. UNCHANGED <<failed, awaited>>
      BY <2>2 DEF PageFails
    <3> QED
      BY <1>1, <1>2, <1>4, <2>2, <3>1 DEF ViewInv, MapsTypeOK
  <2> QED
    BY <2>1, <2>2
<1> QED
  BY <1>1, <1>2, <1>4, <1>5 DEF IInv, MapsTypeOK, FavoritesAreFresh, favs, Tables

LEMMA ReadHolds ==
  ASSUME MapsAssumption, IInv, NEW k \in PageKeys, Read(k)
  PROVE  IInv'
<1> DEFINE rows == IF k.filter = "Favorite" THEN applied ELSE {}
<1>1. MapsTypeOK /\ RequestInv /\ ViewInv /\ FavoritesAreFresh
  BY DEF IInv
<1>2. rows \in Rows /\ (k.filter = "Favorite" => rows = applied)
  BY <1>1, RowsAre DEF MapsTypeOK
<1>3. /\ requests[k] # None
      /\ requests' = [requests EXCEPT ![k].rows = rows]
      /\ UNCHANGED <<cache, favs, filter, page, viewVars>>
  BY DEF Read
<1> HIDE DEF rows
<1>4. requests \in Tables /\ requests[k] \in Requested
  BY <1>1, <1>3 DEF MapsTypeOK, Tables
<1>5. /\ [requests[k] EXCEPT !.rows = rows] \in Requested
      /\ [requests[k] EXCEPT !.rows = rows].version = requests[k].version
      /\ [requests[k] EXCEPT !.rows = rows].rows = rows
  BY <1>2, <1>4 DEF Requested
<1>6. /\ requests' \in Tables
      /\ requests'[k] = [requests[k] EXCEPT !.rows = rows]
      /\ \A j \in PageKeys : j # k => requests'[j] = requests[j]
  BY <1>3, <1>4, <1>5 DEF Tables
<1>7. requests'[k] # None
  BY <1>5, <1>6 DEF MapsAssumption
<1>8. RequestInv'
  BY <1>1, <1>2, <1>3, <1>5, <1>6 DEF RequestInv, favs
<1>9. ViewInv' /\ pageKey' = pageKey
  BY <1>1, <1>3, <1>6, <1>7 DEF ViewInv, MapsTypeOK, pageKey, viewVars
<1> QED
  BY <1>1, <1>3, <1>6, <1>8, <1>9 DEF IInv, MapsTypeOK, FavoritesAreFresh, favs, viewVars, Tables

LEMMA ExpireHolds ==
  ASSUME MapsAssumption, IInv, NEW k \in PageKeys, Expire(k)
  PROVE  IInv'
<1>1. /\ cache' \in [PageKeys -> Rows]
      /\ \A j \in PageKeys : cache'[j] = cache[j] \/ cache'[j] = None
  BY RowsAre DEF Expire, IInv, MapsTypeOK
<1> QED
  BY <1>1 DEF Expire, IInv, MapsTypeOK, RequestInv, ViewInv, FavoritesAreFresh, favs, viewVars, pageKey

LEMMA FavoriteHolds ==
  ASSUME MapsAssumption, IInv, NEW t \in Toggles,
         Click(t) \/ Apply(t) \/ RecordToggle(t) \/ ToggleFails(t)
  PROVE  IInv'
<1>1. CASE Click(t)
  BY <1>1 DEF Click, loads, viewVars, IInv, MapsTypeOK, RequestInv, ViewInv, FavoritesAreFresh, pageKey
<1>2. CASE Apply(t)
  BY <1>2 DEF Apply, loads, viewVars, IInv, MapsTypeOK, RequestInv, ViewInv, FavoritesAreFresh, pageKey
<1>3. CASE RecordToggle(t)
  <2>1. /\ cache' \in [PageKeys -> Rows]
        /\ \A k \in PageKeys : k.filter = "Favorite" => cache'[k] = None
    BY <1>3, RowsAre DEF RecordToggle, Forgotten, IInv, MapsTypeOK
  <2> QED
    BY <1>3, <2>1 DEF RecordToggle, viewVars, IInv, MapsTypeOK, RequestInv, ViewInv, FavoritesAreFresh, pageKey
<1>4. CASE ToggleFails(t)
  BY <1>4 DEF ToggleFails, loads, viewVars, IInv, MapsTypeOK, RequestInv, ViewInv, FavoritesAreFresh, pageKey
<1> QED
  BY <1>1, <1>2, <1>3, <1>4

(* What every behaviour keeps. *)
THEOREM MapsInvariant == ASSUME MapsAssumption PROVE MapsSpec => []IInv
<1>1. MapsInit => IInv
  BY InitHolds
<1>2. IInv /\ [MapsNext]_mapsVars => IInv'
  <2> SUFFICES ASSUME IInv, [MapsNext]_mapsVars PROVE IInv'
    OBVIOUS
  <2>1. CASE UNCHANGED mapsVars
    BY <2>1 DEF mapsVars, loads, favs, viewVars, IInv, MapsTypeOK, RequestInv, ViewInv, FavoritesAreFresh, pageKey
  <2>2. CASE MapsNext
    BY <2>2, SetFilterHolds, SetPageHolds, RemountHolds, AnswerHolds, FailHolds, ReadHolds,
       ExpireHolds, FavoriteHolds DEF MapsNext
  <2> QED
    BY <2>1, <2>2
<1> QED
  BY <1>1, <1>2, PTL DEF MapsSpec

(* The variables of the index keep their types. *)
THEOREM MapsTypes == ASSUME MapsAssumption PROVE MapsSpec => []MapsTypeOK
<1>1. IInv => MapsTypeOK
  BY DEF IInv
<1> QED
  BY <1>1, MapsInvariant, PTL

(* A cached page of the Favorite filter reflects every toggle whose answer was *)
(* recorded: recordFavorite drops those of before, and the version keeps out   *)
(* the answers of requests made before.                                        *)
THEOREM CachedFavoritesAreFresh == ASSUME MapsAssumption PROVE MapsSpec => []FavoritesAreFresh
<1>1. IInv => FavoritesAreFresh
  BY DEF IInv
<1> QED
  BY <1>1, MapsInvariant, PTL

(* A skeleton is only shown while the request of its key is under way. *)
THEOREM SkeletonsEnd == ASSUME MapsAssumption PROVE MapsSpec => []SkeletonIsUnderWay
<1>1. IInv => SkeletonIsUnderWay
  BY DEF IInv, ViewInv, SkeletonIsUnderWay, Loading
<1> QED
  BY <1>1, MapsInvariant, PTL

-----------------------------------------------------------------------------
(* The window's end only moves forward, to the clock, and playback keeps the   *)
(* end of a window that was shown before.                                      *)
TimelineInv ==
  /\ TimelineTypeOK
  /\ window.end <= now /\ playFrom.end <= window.end

LEMMA TimelineStart ==
  ASSUME TimelineAssumption, TimelineInit
  PROVE  TimelineInv
<1>1. /\ now = Opened /\ range = FirstRange /\ interval = Shortest /\ cursor = now
      /\ window = WindowOf(FirstRange)
      /\ liveFrom = [start |-> 0, end |-> Opened]
      /\ playFrom = [interval |-> Shortest, end |-> Opened]
  BY DEF TimelineInit, Window
<1>2. Opened \in Int /\ Shortest \in Intervals /\ FirstRange \in Ranges
  BY DEF TimelineAssumption, Intervals
<1>3. window \in [start : Int, end : Int] /\ window.end = now
  BY <1>1, <1>2 DEF TimelineAssumption, WindowOf, Window
<1>4. isLive \in BOOLEAN /\ playing \in BOOLEAN
  BY DEF TimelineInit
<1> QED
  BY <1>1, <1>2, <1>3, <1>4 DEF TimelineInv, TimelineTypeOK

(* Live mode moves the window to the clock, or leaves it. *)
LEMMA ToLiveMoves ==
  ASSUME TimelineInv, NEW seen \in [start : Int, end : Int], ToLive(seen), now' = now
  PROVE  /\ window' \in [start : Int, end : Int] /\ cursor' \in Int
         /\ window.end <= window'.end /\ window'.end <= now'
BY DEF ToLive, TimelineInv, TimelineTypeOK, Window, Length

(* A range has a shortest interval. *)
LEMMA RangeStep ==
  ASSUME TimelineAssumption, TimelineInv, NEW r \in Ranges \union {"all"}, handleRangeChange(r)
  PROVE  TimelineInv'
<1>1. window' = WindowOf(r) /\ cursor' = Later(cursor, window'.start) /\ range' = r
  BY DEF handleRangeChange
<1>2. window' \in [start : Int, end : Int] /\ window'.end = now
  BY <1>1 DEF TimelineAssumption, TimelineInv, TimelineTypeOK, WindowOf, Window
<1>3. cursor' \in Int
  BY <1>1, <1>2 DEF Later, TimelineInv, TimelineTypeOK
<1>4. interval' \in Intervals
  <2> DEFINE i == CHOOSE x \in Offered[r] : \A j \in Offered[r] : StepOf[x] <= StepOf[j]
  <2>1. i \in Offered[r] /\ Offered[r] \subseteq Intervals
    BY DEF TimelineAssumption, Intervals
  <2>2. interval \in Intervals /\ interval' = IF interval \in Offered[r] THEN interval ELSE i
    BY DEF handleRangeChange, TimelineInv, TimelineTypeOK
  <2> QED
    BY <2>1, <2>2
<1> QED
  BY <1>1, <1>2, <1>3, <1>4 DEF handleRangeChange, TimelineInv, TimelineTypeOK

(* The slider stops at times. *)
LEMMA SliderStep ==
  ASSUME TimelineAssumption, TimelineInv, NEW n \in Stops, handleSliderChange(n)
  PROVE  TimelineInv'
<1>1. StepOf[interval] \in Int /\ window.start \in Int /\ n \in Int
  BY DEF TimelineAssumption, TimelineInv, TimelineTypeOK, Intervals, Stops
<1>2. cursor' \in Int
  BY <1>1 DEF handleSliderChange
<1> QED
  BY <1>2 DEF handleSliderChange, TimelineInv, TimelineTypeOK

(* A step to a time, of either button. *)
LEMMA StepToTime ==
  ASSUME TimelineInv, NEW t \in Int, stepTo(t)
  PROVE  TimelineInv'
BY DEF stepTo, TimelineInv, TimelineTypeOK

LEMMA TimelineStep ==
  ASSUME TimelineAssumption, TimelineInv, [TimelineNext]_timelineVars
  PROVE  TimelineInv'
<1>1. CASE Elapse
  BY <1>1 DEF Elapse, TimelineInv, TimelineTypeOK
<1>2. CASE LiveTick
  <2>1. liveFrom \in [start : Int, end : Int] /\ ToLive(liveFrom) /\ now' = now
    BY <1>2 DEF LiveTick, TimelineInv, TimelineTypeOK
  <2> QED
    BY <1>2, <2>1, ToLiveMoves DEF LiveTick, TimelineInv, TimelineTypeOK
<1>3. CASE toggleLiveMode
  <2>1. CASE isLive'
    <3>1. ToLive(window) /\ window \in [start : Int, end : Int] /\ now' = now
      BY <1>3, <2>1 DEF toggleLiveMode, TimelineInv, TimelineTypeOK
    <3>2. Shortest \in Intervals
      BY DEF TimelineAssumption, Intervals
    <3>3. isLive' \in BOOLEAN /\ playing' \in BOOLEAN
      BY <1>3, <2>1 DEF toggleLiveMode
    <3>4. /\ interval' = Shortest /\ liveFrom' = window
          /\ UNCHANGED <<now, range, playFrom>>
      BY <1>3, <2>1 DEF toggleLiveMode
    <3> QED
      BY <3>1, <3>2, <3>3, <3>4, ToLiveMoves DEF TimelineInv, TimelineTypeOK
  <2>2. CASE ~isLive'
    BY <1>3, <2>2 DEF toggleLiveMode, TimelineInv, TimelineTypeOK
  <2> QED
    BY <2>1, <2>2
<1>4. ASSUME NEW r \in Ranges \union {"all"}, handleRangeChange(r)
      PROVE  TimelineInv'
  BY <1>4, RangeStep
<1>5. ASSUME NEW i \in Intervals, handleIntervalChange(i)
      PROVE  TimelineInv'
  BY <1>5 DEF handleIntervalChange, TimelineInv, TimelineTypeOK
<1>6. ASSUME NEW n \in Stops, handleSliderChange(n)
      PROVE  TimelineInv'
  BY <1>6, SliderStep
<1>7. CASE Play
  <2>1. isLive' \in BOOLEAN /\ playing' \in BOOLEAN
    BY <1>7 DEF Play
  <2>2. /\ playFrom' = [interval |-> interval, end |-> window.end]
        /\ UNCHANGED <<now, window, cursor, range, interval, liveFrom>>
    BY <1>7 DEF Play
  <2> QED
    BY <2>1, <2>2 DEF TimelineInv, TimelineTypeOK
<1>8. CASE Pause
  BY <1>8 DEF Pause, TimelineInv, TimelineTypeOK
<1>9. CASE animate
  <2>1. cursor + StepOf[playFrom.interval] \in Int
    BY DEF TimelineAssumption, TimelineInv, TimelineTypeOK, Intervals
  <2> QED
    BY <1>9, <2>1 DEF animate, TimelineInv, TimelineTypeOK
<1>10. StepOf[interval] \in Int /\ cursor \in Int /\ window.start \in Int /\ window.end \in Int
  BY DEF TimelineAssumption, TimelineInv, TimelineTypeOK, Intervals
<1>11. CASE stepBackward
  BY <1>10, <1>11, StepToTime DEF stepBackward, Later
<1>12. CASE stepForward
  BY <1>10, <1>12, StepToTime DEF stepForward, Earlier
<1>13. CASE UNCHANGED timelineVars
  BY <1>13 DEF timelineVars, TimelineInv, TimelineTypeOK
<1> QED
  BY <1>1, <1>2, <1>3, <1>4, <1>5, <1>6, <1>7, <1>8, <1>9, <1>11, <1>12, <1>13 DEF TimelineNext

THEOREM TimelineInvariant ==
  ASSUME TimelineAssumption
  PROVE  TimelineSpec => []TimelineInv
<1>1. TimelineInit => TimelineInv
  BY TimelineStart
<1>2. TimelineInv /\ [TimelineNext]_timelineVars => TimelineInv'
  BY TimelineStep
<1> QED
  BY <1>1, <1>2, PTL DEF TimelineSpec

(* Playback never carries the cursor past the end of the window that is shown, *)
(* whatever range or live window was shown since it began.                      *)
THEOREM PlaybackEndsInside ==
  ASSUME TimelineAssumption
  PROVE  TimelineSpec => PlaybackStaysInside
<1>1. TimelineInv /\ [TimelineNext]_timelineVars =>
        [animate => cursor' <= cursor \/ cursor' <= window.end]_timelineVars
  <2> SUFFICES ASSUME TimelineInv, animate
               PROVE  cursor' <= cursor \/ cursor' <= window.end
    OBVIOUS
  <2>1. cursor \in Int /\ playFrom.end <= window.end /\ playFrom.end \in Int /\ window.end \in Int
    BY DEF TimelineInv, TimelineTypeOK
  <2>2. cursor + StepOf[playFrom.interval] \in Int
    BY DEF TimelineAssumption, TimelineInv, TimelineTypeOK, Intervals
  <2>3. \/ cursor' = cursor
        \/ cursor' = cursor + StepOf[playFrom.interval] /\ ~(cursor + StepOf[playFrom.interval] > playFrom.end)
    BY DEF animate
  <2> QED
    BY <2>1, <2>2, <2>3
<1> QED
  BY <1>1, TimelineInvariant, PTL DEF TimelineSpec, PlaybackStaysInside

-----------------------------------------------------------------------------
(* Inductive: TypedIsSearched holds because whatever changes the input either  *)
(* commits it or schedules its commit, and SuggestionsFit because an input that *)
(* is not fetched any more has had its answer, or is too short for one.         *)
SearchInv == SearchTypeOK /\ SuggestionsFit /\ TypedIsSearched

LEMMA SearchStart ==
  ASSUME SearchAssumption, SearchInit
  PROVE  SearchInv
BY DEF SearchAssumption, SearchInit, SearchInv, SearchTypeOK, SuggestionsFit, TypedIsSearched

(* The effect of suggestions leaves the field typed, and fit for the new input. *)
LEMMA SuggestFits ==
  ASSUME SearchAssumption, SearchTypeOK, NEW v \in Inputs, input' = v, Suggest(v)
  PROVE  /\ loading' \in BOOLEAN /\ suggestions' \in Inputs \union {None}
         /\ fetch' \in {"none", "scheduled", "sent"} /\ dropped' \subseteq Inputs
         /\ SuggestionsFit'
BY DEF SearchTypeOK, Suggest, SuggestionsFit

LEMMA TypeStep ==
  ASSUME SearchAssumption, SearchInv, NEW v \in Inputs, Type(v)
  PROVE  SearchInv'
<1>1. SearchTypeOK /\ input' = v /\ Suggest(v)
  BY DEF SearchInv, Type
<1>2. /\ commits' = (TermOf[v] # TermOf[Empty])
      /\ term' = IF TermOf[v] = TermOf[Empty] THEN TermOf[v] ELSE term
  BY DEF Type, Scheduled
<1>3. SearchTypeOK'
  BY <1>1, <1>2, SuggestFits DEF SearchTypeOK
<1>4. TypedIsSearched'
  BY <1>1, <1>2 DEF TypedIsSearched
<1> QED
  BY <1>1, <1>3, <1>4, SuggestFits DEF SearchInv

LEMMA ChooseStep ==
  ASSUME SearchAssumption, SearchInv, NEW v \in Inputs, choose(v)
  PROVE  SearchInv'
<1>1. SearchTypeOK /\ SuggestionsFit /\ input' = v /\ term' = TermOf[v]
  BY DEF SearchInv, choose
<1>2. TypedIsSearched'
  BY <1>1 DEF TypedIsSearched
<1>3. CASE v = input
  BY <1>1, <1>2, <1>3 DEF choose, SearchInv, SearchTypeOK, SuggestionsFit
<1>4. CASE v # input
  <2>1. commits' = (TermOf[v] # TermOf[Empty]) /\ Suggest(v)
    BY <1>4 DEF choose, Scheduled
  <2>2. SearchTypeOK'
    BY <1>1, <2>1, SuggestFits DEF SearchTypeOK
  <2> QED
    BY <1>1, <1>2, <2>1, <2>2, SuggestFits DEF SearchInv
<1> QED
  BY <1>3, <1>4

LEMMA ResetStep ==
  ASSUME SearchAssumption, SearchInv, reset
  PROVE  SearchInv'
<1>1. /\ SearchTypeOK /\ SuggestionsFit /\ Empty \in Inputs
      /\ input' = Empty /\ term' = TermOf[Empty] /\ suggestions' = None
  BY DEF SearchAssumption, SearchInv, reset
<1>2. CASE input = Empty
  BY <1>1, <1>2 DEF reset, SearchInv, SearchTypeOK, SuggestionsFit, TypedIsSearched
<1>3. CASE input # Empty
  <2>1. commits' = FALSE /\ Suggest(Empty)
    BY <1>3 DEF reset
  <2>2. SearchTypeOK'
    BY <1>1, <2>1, SuggestFits DEF SearchTypeOK
  <2> QED
    BY <1>1, <2>1, <2>2, SuggestFits DEF SearchInv, TypedIsSearched
<1> QED
  BY <1>2, <1>3

LEMMA SearchStep ==
  ASSUME SearchAssumption, SearchInv, [SearchNext]_searchVars
  PROVE  SearchInv'
<1>1. ASSUME NEW v \in Inputs, Type(v)
      PROVE  SearchInv'
  BY <1>1, TypeStep
<1>2. ASSUME NEW v \in Inputs, choose(v)
      PROVE  SearchInv'
  BY <1>2, ChooseStep
<1>3. ASSUME NEW v \in Inputs, FoundLate(v)
      PROVE  SearchInv'
  BY <1>3 DEF FoundLate, SearchInv, SearchTypeOK, SuggestionsFit, TypedIsSearched
<1>4. CASE CommitTimer
  BY <1>4 DEF CommitTimer, SearchInv, SearchTypeOK, SuggestionsFit, TypedIsSearched
<1>5. CASE reset
  BY <1>5, ResetStep
<1>6. CASE SuggestTimer
  BY <1>6 DEF SuggestTimer, SearchInv, SearchTypeOK, SuggestionsFit, TypedIsSearched
<1>7. CASE Found
  BY <1>7 DEF Found, SearchInv, SearchTypeOK, SuggestionsFit, TypedIsSearched
<1>8. CASE UNCHANGED searchVars
  BY <1>8 DEF searchVars, SearchInv, SearchTypeOK, SuggestionsFit, TypedIsSearched
<1> QED
  BY <1>1, <1>2, <1>3, <1>4, <1>5, <1>6, <1>7, <1>8 DEF SearchNext

THEOREM SearchInvariant ==
  ASSUME SearchAssumption
  PROVE  SearchSpec => []SearchInv
<1>1. SearchInit => SearchInv
  BY SearchStart
<1>2. SearchInv /\ [SearchNext]_searchVars => SearchInv'
  BY SearchStep
<1> QED
  BY <1>1, <1>2, PTL DEF SearchSpec

(* An input that is not being fetched for shows its own suggestions or none: *)
(* no answer of an earlier input is ever taken for its own.                   *)
THEOREM SuggestionsBelong ==
  ASSUME SearchAssumption
  PROVE  SearchSpec => []SuggestionsFit
<1>1. SearchInv => SuggestionsFit
  BY DEF SearchInv
<1> QED
  BY <1>1, SearchInvariant, PTL

(* What is typed is the search term, or its commit is scheduled. *)
THEOREM NothingTypedIsForgotten ==
  ASSUME SearchAssumption
  PROVE  SearchSpec => []TypedIsSearched
<1>1. SearchInv => TypedIsSearched
  BY DEF SearchInv
<1> QED
  BY <1>1, SearchInvariant, PTL

-----------------------------------------------------------------------------
(* The live events *)

-----------------------------------------------------------------------------
(* mergeEvents *)

(* A list that holds no event twice. *)
Distinct(list) == \A i, j \in DOMAIN list : list[i].id = list[j].id => i = j

LEMMA IdsJoin ==
  ASSUME NEW a \in Seq(Events), NEW b \in Seq(Events)
  PROVE  a \o b \in Seq(Events) /\ Ids(a \o b) = Ids(a) \union Ids(b)
<1>1. /\ a \o b \in Seq(Events) /\ Len(a \o b) = Len(a) + Len(b)
      /\ Len(a) \in Nat /\ Len(b) \in Nat
      /\ \A i \in 1..Len(a) : (a \o b)[i] = a[i]
      /\ \A i \in 1..Len(b) : (a \o b)[Len(a) + i] = b[i]
      /\ DOMAIN a = 1..Len(a) /\ DOMAIN b = 1..Len(b) /\ DOMAIN (a \o b) = 1..Len(a \o b)
  OBVIOUS
<1>2. ASSUME NEW i \in DOMAIN (a \o b)
      PROVE  (a \o b)[i].id \in Ids(a) \union Ids(b)
  <2>1. CASE i \in 1..Len(a)
    BY <1>1, <2>1 DEF Ids
  <2>2. CASE i \notin 1..Len(a)
    <3>1. i - Len(a) \in 1..Len(b) /\ i = Len(a) + (i - Len(a))
      BY <1>1, <2>2
    <3>2. (a \o b)[i] = b[i - Len(a)]
      BY <1>1, <3>1
    <3> QED
      BY <1>1, <3>1, <3>2 DEF Ids
  <2> QED
    BY <2>1, <2>2
<1>3. \A i \in 1..Len(a) : i \in DOMAIN (a \o b) /\ (a \o b)[i].id = a[i].id
  BY <1>1
<1>4. \A i \in 1..Len(b) : Len(a) + i \in DOMAIN (a \o b) /\ (a \o b)[Len(a) + i].id = b[i].id
  BY <1>1
<1>5. Ids(a \o b) \subseteq Ids(a) \union Ids(b)
  BY <1>2 DEF Ids
<1>6. Ids(a) \subseteq Ids(a \o b)
  BY <1>1, <1>3 DEF Ids
<1>7. \A i \in 1..Len(b) : b[i].id \in Ids(a \o b)
  BY <1>4 DEF Ids
<1>8. Ids(b) \subseteq Ids(a \o b)
  BY <1>1, <1>7 DEF Ids
<1> QED
  BY <1>1, <1>5, <1>6, <1>8

(* A list without doubles is no longer than one that has all its events. *)
LEMMA NoLonger ==
  ASSUME NEW a \in Seq(Events), NEW b \in Seq(Events), Distinct(a), Ids(a) \subseteq Ids(b)
  PROVE  Len(a) <= Len(b)
<1> DEFINE in == [i \in 1..Len(a) |-> CHOOSE j \in 1..Len(b) : b[j].id = a[i].id]
<1>0. /\ DOMAIN a = 1..Len(a) /\ DOMAIN b = 1..Len(b)
      /\ Len(a) \in Nat /\ Len(b) \in Nat
  OBVIOUS
<1>1. \A i \in 1..Len(a) : in[i] \in 1..Len(b) /\ b[in[i]].id = a[i].id
  <2>1. \A i \in 1..Len(a) : \E j \in 1..Len(b) : b[j].id = a[i].id
    BY <1>0 DEF Ids
  <2> QED
    BY <2>1
<1>2. in \in Injection(1..Len(a), 1..Len(b))
  <2>1. in \in [1..Len(a) -> 1..Len(b)]
    BY <1>1
  <2>2. \A i, j \in 1..Len(a) : in[i] = in[j] => i = j
    <3> HIDE DEF in
    <3> QED
      BY <1>0, <1>1 DEF Distinct
  <2> HIDE DEF in
  <2> QED
    BY <2>1, <2>2 DEF Injection, IsInjective
<1>3. /\ IsFiniteSet(1..Len(b)) /\ Cardinality(1..Len(b)) = Len(b)
      /\ IsFiniteSet(1..Len(a)) /\ Cardinality(1..Len(a)) = Len(a)
  BY <1>0, Numbered
<1> HIDE DEF in
<1> QED
  BY <1>2, <1>3, FS_Injection

(* What mergeEvents returns: events of its list, each once, all of them unless *)
(* they are more than the page shows.                                        *)
LEMMA MergeIs ==
  ASSUME FeedAssumption, NEW list \in Seq(Events)
  PROVE  /\ mergeEvents(list) \in Seq(Events) /\ Len(mergeEvents(list)) <= MaxShown
         /\ Distinct(mergeEvents(list))
         /\ Len(mergeEvents(list)) < MaxShown => Ids(list) \subseteq Ids(mergeEvents(list))
<1> DEFINE firsts == Firsts(list)
           firstOnes == Entries(list, firsts)
           merged == mergeEvents(list)
<1>1. firsts \in SUBSET (DOMAIN list) /\ MaxShown \in Nat
  BY DEF Firsts, FeedAssumption
<1>2. /\ firstOnes \in Seq(Events) /\ Len(firstOnes) = Cardinality(firsts) /\ Cardinality(firsts) \in Nat
      /\ \A k \in 1..Cardinality(firsts) : Nth(firsts, k) \in firsts /\ firstOnes[k] = list[Nth(firsts, k)]
      /\ \A i \in firsts : \E k \in 1..Cardinality(firsts) : firstOnes[k] = list[i]
      /\ \A k, l \in 1..Cardinality(firsts) : k # l => Nth(firsts, k) # Nth(firsts, l)
  BY <1>1, EntriesAre
<1>3. DOMAIN firstOnes = 1..Cardinality(firsts)
  BY <1>2
<1>4. \A i, j \in firsts : list[i].id = list[j].id => i = j
  <2> SUFFICES ASSUME NEW i \in firsts, NEW j \in firsts, list[i].id = list[j].id, i # j
               PROVE  FALSE
    OBVIOUS
  <2>1. i \in DOMAIN list /\ j \in DOMAIN list /\ i \in Nat \ {0} /\ j \in Nat \ {0}
    BY <1>1
  <2>2. i \in 1..(j - 1) \/ j \in 1..(i - 1)
    BY <2>1
  <2> QED
    BY <2>2 DEF Firsts
<1>5. Distinct(firstOnes)
  <2> SUFFICES ASSUME NEW k \in 1..Cardinality(firsts), NEW l \in 1..Cardinality(firsts), firstOnes[k].id = firstOnes[l].id
               PROVE  k = l
    BY <1>3 DEF Distinct
  <2> HIDE DEF firsts, firstOnes
  <2>0. /\ Nth(firsts, k) \in firsts /\ firstOnes[k] = list[Nth(firsts, k)]
        /\ Nth(firsts, l) \in firsts /\ firstOnes[l] = list[Nth(firsts, l)]
    BY <1>2
  <2>1. Nth(firsts, k) = Nth(firsts, l)
    BY <1>4, <2>0
  <2> QED
    BY <1>2, <2>1
<1>6. merged = Capped(firstOnes, MaxShown)
  BY DEF mergeEvents
<1>7. /\ merged \in Seq(Events) /\ Len(merged) <= MaxShown
      /\ \A i \in DOMAIN merged : i \in DOMAIN firstOnes /\ merged[i] = firstOnes[i]
      /\ Len(merged) < MaxShown => merged = firstOnes
  <2> HIDE DEF firstOnes, merged
  <2> QED
    BY <1>1, <1>2, <1>6, CappedIs
<1>8. Distinct(merged)
  BY <1>5, <1>7 DEF Distinct
<1>9. ASSUME NEW i \in DOMAIN list
      PROVE  list[i].id \in Ids(firstOnes)
  <2> DEFINE same == {j \in DOMAIN list : list[j].id = list[i].id}
  <2>1. same \in SUBSET (1..Len(list)) /\ same # {} /\ Len(list) \in Nat
    OBVIOUS
  <2>2. PICK f \in same : \A j \in same : f <= j
    BY <2>1, Smallest
  <2>3. f \in DOMAIN list /\ list[f].id = list[i].id /\ f \in Nat
    BY <2>1, <2>2
  <2>4. \A j \in 1..(f - 1) : list[j].id # list[f].id
    <3> SUFFICES ASSUME NEW j \in 1..(f - 1), list[j].id = list[f].id PROVE FALSE
      OBVIOUS
    <3>1. j \in DOMAIN list /\ j \in Int /\ j < f
      BY <2>3
    <3>2. f <= j
      BY <2>2, <2>3, <3>1
    <3> QED
      BY <2>3, <3>1, <3>2
  <2>5. f \in firsts
    BY <2>3, <2>4 DEF Firsts
  <2>6. PICK k \in 1..Cardinality(firsts) : firstOnes[k] = list[f]
    BY <1>2, <2>5
  <2> HIDE DEF firstOnes, firsts
  <2> QED
    BY <1>3, <2>3, <2>6 DEF Ids
<1>10. Ids(list) \subseteq Ids(firstOnes)
  BY <1>9 DEF Ids
<1> HIDE DEF firstOnes, merged
<1>11. Len(merged) < MaxShown => Ids(list) \subseteq Ids(merged)
  BY <1>7, <1>10
<1> QED
  BY <1>7, <1>8, <1>11 DEF merged

(* A merge that takes in a list keeps its events, or is full; and it is full  *)
(* if the list was.                                                          *)
LEMMA MergeKeeps ==
  ASSUME FeedAssumption, NEW had \in Seq(Events), NEW list \in Seq(Events),
         Distinct(had), Ids(had) \subseteq Ids(list)
  PROVE  /\ Len(mergeEvents(list)) = MaxShown \/ Ids(list) \subseteq Ids(mergeEvents(list))
         /\ Len(had) = MaxShown => Len(mergeEvents(list)) = MaxShown
<1> DEFINE merged == mergeEvents(list)
<1>1. /\ merged \in Seq(Events) /\ Len(merged) <= MaxShown
      /\ Len(merged) < MaxShown => Ids(list) \subseteq Ids(merged)
  BY MergeIs
<1>2. MaxShown \in Nat /\ Len(merged) \in Nat
  BY <1>1 DEF FeedAssumption
<1> HIDE DEF merged
<1>3. Len(merged) < MaxShown => Len(had) <= Len(merged)
  BY <1>1, NoLonger
<1>4. Len(merged) = MaxShown \/ Ids(list) \subseteq Ids(merged)
  BY <1>1, <1>2
<1>5. Len(had) = MaxShown => Len(merged) = MaxShown
  BY <1>1, <1>2, <1>3
<1> QED
  BY <1>4, <1>5 DEF merged

-----------------------------------------------------------------------------
(* What the page's reducer keeps *)

Sound(f) ==
  /\ f \in [events : Seq(Events), queued : Seq(Events), paused : BOOLEAN]
  /\ Len(f.events) <= MaxShown /\ Len(f.queued) <= MaxShown
  /\ Distinct(f.events) /\ Distinct(f.queued)

ShownIn(f) == Ids(f.events) \union Ids(f.queued)
FullIn(f) == Len(f.events) = MaxShown \/ Len(f.queued) = MaxShown

(* A step from one feed to another that takes some events in. *)
Keeps(f, g, new) ==
  /\ Sound(g)
  /\ FullIn(g) \/ ShownIn(f) \union new \subseteq ShownIn(g)
  /\ FullIn(f) => FullIn(g)

LEMMA ReceivedKeeps ==
  ASSUME FeedAssumption, NEW f, Sound(f), NEW e \in Events
  PROVE  Keeps(f, Received(f, e), {e.id})
<1>1. /\ <<e>> \in Seq(Events) /\ Ids(<<e>>) = {e.id}
      /\ f.events \in Seq(Events) /\ f.queued \in Seq(Events)
  BY DEF Sound, Ids
<1>2. ASSUME NEW had \in Seq(Events), Distinct(had)
      PROVE  LET merged == mergeEvents(<<e>> \o had) IN
             /\ merged \in Seq(Events) /\ Len(merged) <= MaxShown /\ Distinct(merged)
             /\ Len(merged) = MaxShown \/ Ids(had) \union {e.id} \subseteq Ids(merged)
             /\ Len(had) = MaxShown => Len(merged) = MaxShown
  <2>1. <<e>> \o had \in Seq(Events) /\ Ids(<<e>> \o had) = {e.id} \union Ids(had)
    BY <1>1, IdsJoin
  <2> DEFINE list == <<e>> \o had
  <2> HIDE DEF list
  <2>2. list \in Seq(Events) /\ Ids(list) = {e.id} \union Ids(had)
    BY <2>1 DEF list
  <2>3. /\ Len(mergeEvents(list)) = MaxShown \/ Ids(list) \subseteq Ids(mergeEvents(list))
        /\ Len(had) = MaxShown => Len(mergeEvents(list)) = MaxShown
    BY <1>2, <2>2, MergeKeeps
  <2>4. /\ mergeEvents(list) \in Seq(Events) /\ Len(mergeEvents(list)) <= MaxShown
        /\ Distinct(mergeEvents(list))
    BY <2>2, MergeIs
  <2> QED
    BY <2>2, <2>3, <2>4 DEF list
<1>3. CASE f.paused
  <2> DEFINE merged == mergeEvents(<<e>> \o f.queued)
  <2>1. Received(f, e) = [f EXCEPT !.queued = merged]
    BY <1>3 DEF Received
  <2>2. /\ merged \in Seq(Events) /\ Len(merged) <= MaxShown /\ Distinct(merged)
        /\ Len(merged) = MaxShown \/ Ids(f.queued) \union {e.id} \subseteq Ids(merged)
        /\ Len(f.queued) = MaxShown => Len(merged) = MaxShown
    BY <1>1, <1>2 DEF Sound
  <2> HIDE DEF merged
  <2> DEFINE g == [f EXCEPT !.queued = merged]
  <2>3. /\ g \in [events : Seq(Events), queued : Seq(Events), paused : BOOLEAN]
        /\ g.events = f.events /\ g.queued = merged
    BY <2>2 DEF Sound
  <2> HIDE DEF g
  <2>4. Keeps(f, g, {e.id})
    BY <2>2, <2>3 DEF Keeps, Sound, FullIn, ShownIn
  <2> QED
    BY <2>1, <2>4 DEF g
<1>4. CASE ~f.paused
  <2> DEFINE merged == mergeEvents(<<e>> \o f.events)
  <2>1. Received(f, e) = [f EXCEPT !.events = merged]
    BY <1>4 DEF Received
  <2>2. /\ merged \in Seq(Events) /\ Len(merged) <= MaxShown /\ Distinct(merged)
        /\ Len(merged) = MaxShown \/ Ids(f.events) \union {e.id} \subseteq Ids(merged)
        /\ Len(f.events) = MaxShown => Len(merged) = MaxShown
    BY <1>1, <1>2 DEF Sound
  <2> HIDE DEF merged
  <2> DEFINE g == [f EXCEPT !.events = merged]
  <2>3. /\ g \in [events : Seq(Events), queued : Seq(Events), paused : BOOLEAN]
        /\ g.queued = f.queued /\ g.events = merged
    BY <2>2 DEF Sound
  <2> HIDE DEF g
  <2>4. Keeps(f, g, {e.id})
    BY <2>2, <2>3 DEF Keeps, Sound, FullIn, ShownIn
  <2> QED
    BY <2>1, <2>4 DEF g
<1> QED
  BY <1>3, <1>4

LEMMA WithHistoryKeeps ==
  ASSUME FeedAssumption, NEW f, Sound(f), NEW history \in Seq(Events), NEW since \in Nat
  PROVE  Keeps(f, WithHistory(f, history, since), Ids(history))
<1> DEFINE fresh == {i \in DOMAIN f.events : f.events[i].from >= since}
           aged == {i \in DOMAIN f.events : f.events[i].from < since}
           newer == Entries(f.events, fresh)
           older == Entries(f.events, aged)
           list == newer \o history \o older
           merged == mergeEvents(list)
<1>1. f.events \in Seq(Events) /\ f.queued \in Seq(Events) /\ Distinct(f.events)
  BY DEF Sound
<1>2. fresh \in SUBSET (DOMAIN f.events) /\ aged \in SUBSET (DOMAIN f.events)
  OBVIOUS
<1>3. \A i \in DOMAIN f.events : i \in fresh \/ i \in aged
  <2>1. \A i \in DOMAIN f.events : f.events[i] \in Events
    BY <1>1
  <2>2. \A i \in DOMAIN f.events : f.events[i].from \in Nat
    BY <2>1 DEF Events, FeedAssumption
  <2> QED
    BY <2>2
<1> HIDE DEF fresh, aged
<1>4. newer \in Seq(Events) /\ older \in Seq(Events)
  BY <1>1, <1>2, EntriesAre
<1>5. /\ \A i \in fresh : f.events[i].id \in Ids(newer)
      /\ \A i \in aged : f.events[i].id \in Ids(older)
  <2>1. \A i \in fresh : \E k \in DOMAIN newer : newer[k] = f.events[i]
    <3>1. Len(newer) = Cardinality(fresh)
      BY <1>1, <1>2, EntriesAre
    <3>2. \A i \in fresh : \E k \in 1..Cardinality(fresh) : newer[k] = f.events[i]
      BY <1>1, <1>2, EntriesAre
    <3> HIDE DEF newer
    <3> QED
      BY <1>4, <3>1, <3>2
  <2>2. \A i \in aged : \E k \in DOMAIN older : older[k] = f.events[i]
    <3>1. Len(older) = Cardinality(aged)
      BY <1>1, <1>2, EntriesAre
    <3>2. \A i \in aged : \E k \in 1..Cardinality(aged) : older[k] = f.events[i]
      BY <1>1, <1>2, EntriesAre
    <3> HIDE DEF older
    <3> QED
      BY <1>4, <3>1, <3>2
  <2> QED
    BY <2>1, <2>2 DEF Ids
<1> HIDE DEF newer, older
<1>6. Ids(f.events) \subseteq Ids(newer) \union Ids(older)
  BY <1>3, <1>5 DEF Ids
<1>7. list \in Seq(Events) /\ Ids(list) = (Ids(newer) \union Ids(history)) \union Ids(older)
  <2>1. newer \o history \in Seq(Events) /\ Ids(newer \o history) = Ids(newer) \union Ids(history)
    BY <1>4, IdsJoin
  <2> QED
    BY <1>4, <2>1, IdsJoin
<1> HIDE DEF list
<1>8. /\ merged \in Seq(Events) /\ Len(merged) <= MaxShown /\ Distinct(merged)
      /\ Len(merged) = MaxShown \/ Ids(list) \subseteq Ids(merged)
      /\ Len(f.events) = MaxShown => Len(merged) = MaxShown
  BY <1>1, <1>6, <1>7, MergeIs, MergeKeeps
<1>9. WithHistory(f, history, since) = [f EXCEPT !.events = merged]
  BY DEF WithHistory, merged, list, newer, older, fresh, aged
<1> HIDE DEF merged
<1> DEFINE g == [f EXCEPT !.events = merged]
<1>10. /\ g \in [events : Seq(Events), queued : Seq(Events), paused : BOOLEAN]
       /\ g.queued = f.queued /\ g.events = merged
  BY <1>8 DEF Sound
<1> HIDE DEF g
<1>11. Keeps(f, g, Ids(history))
  BY <1>6, <1>7, <1>8, <1>10 DEF Keeps, Sound, FullIn, ShownIn
<1> QED
  BY <1>9, <1>11 DEF g

LEMMA ResumedKeeps ==
  ASSUME FeedAssumption, NEW f, Sound(f)
  PROVE  Keeps(f, Resumed(f), {})
<1> DEFINE list == f.queued \o f.events
           merged == mergeEvents(list)
<1>1. /\ f.events \in Seq(Events) /\ f.queued \in Seq(Events)
      /\ Distinct(f.events) /\ Distinct(f.queued)
  BY DEF Sound
<1>2. list \in Seq(Events) /\ Ids(list) = Ids(f.queued) \union Ids(f.events)
  BY <1>1, IdsJoin
<1> HIDE DEF list
<1>3. /\ merged \in Seq(Events) /\ Len(merged) <= MaxShown /\ Distinct(merged)
      /\ Len(merged) = MaxShown \/ Ids(list) \subseteq Ids(merged)
      /\ FullIn(f) => Len(merged) = MaxShown
  BY <1>1, <1>2, MergeIs, MergeKeeps DEF FullIn
<1>4. Resumed(f) = [events |-> merged, queued |-> <<>>, paused |-> FALSE]
  BY DEF Resumed, merged, list
<1> HIDE DEF merged
<1>5. <<>> \in Seq(Events) /\ Len(<<>>) = 0 /\ Distinct(<<>>) /\ 0 <= MaxShown
  BY DEF Distinct, FeedAssumption
<1> QED
  BY <1>2, <1>3, <1>4, <1>5 DEF Keeps, Sound, FullIn, ShownIn

-----------------------------------------------------------------------------
(* The inductive invariant *)

Members(list) == {list[i] : i \in DOMAIN list}

(* An event that is, or will be, on the page. *)
Reaches(e) == Full \/ e \in Shown \/ e \in Members(wire) \/ e > taken

FeedInv ==
  /\ FeedTypeOK /\ taken <= published
  /\ Distinct(feed.events) /\ Distinct(feed.queued)
  /\ \A e \in Members(stored) : e <= published
  /\ unsaved # None => unsaved <= published
  /\ asked # "none" => ~filled

(* While the connection has skipped nothing: what is being recorded reaches the *)
(* page, and so does what is recorded once the history has been read.          *)
CatchesUp ==
  link = "open" /\ ~skipped =>
    /\ unsaved \in {None, early} \/ Reaches(unsaved)
    /\ asked = "answered" =>
         \A e \in Members(stored) : e = early \/ Reaches(e) \/ e \in Members(answer)
    /\ filled => \A e \in Members(stored) : e = early \/ Reaches(e)

-----------------------------------------------------------------------------
(* Each step *)

(* A list holds what it is a list of. *)
LEMMA SoundFeed ==
  ASSUME FeedAssumption, FeedInv
  PROVE  /\ Sound(feed) /\ Shown = ShownIn(feed) /\ (Full <=> FullIn(feed))
         /\ Shown' = ShownIn(feed') /\ (Full' <=> FullIn(feed'))
BY DEF FeedInv, FeedTypeOK, Sound, Shown, ShownIn, Full, FullIn

(* What a step does to the feed: nothing, or it takes something in. *)
LEMMA FeedMoves ==
  ASSUME FeedAssumption, FeedInv
  PROVE  /\ UNCHANGED feed => Keeps(feed, feed', {})
         /\ OnMessage => Keeps(feed, feed', {Head(wire)})
         /\ OnHistory => Keeps(feed, feed', Members(answer))
         /\ PauseFeed => Keeps(feed, feed', {})
         /\ ResumeFeed => Keeps(feed, feed', {})
<1>1. Sound(feed)
  BY SoundFeed
<1>2. UNCHANGED feed => Keeps(feed, feed', {})
  BY <1>1 DEF Keeps
<1>3. OnMessage => Keeps(feed, feed', {Head(wire)})
  <2> SUFFICES ASSUME OnMessage PROVE Keeps(feed, feed', {Head(wire)})
    OBVIOUS
  <2> DEFINE e == [id |-> Head(wire), from |-> conn]
  <2>1. wire \in Seq(1..MaxEvents) /\ wire # <<>> /\ conn \in 0..MaxConns
    BY DEF OnMessage, FeedInv, FeedTypeOK
  <2>2. Head(wire) \in 1..MaxEvents
    BY <2>1, ElementsAre
  <2>3. e \in Events /\ e.id = Head(wire)
    BY <2>1, <2>2 DEF Events
  <2>4. feed' = Received(feed, e)
    BY DEF OnMessage
  <2> HIDE DEF e
  <2> QED
    BY <1>1, <2>3, <2>4, ReceivedKeeps
<1>4. OnHistory => Keeps(feed, feed', Members(answer))
  <2> SUFFICES ASSUME OnHistory PROVE Keeps(feed, feed', Members(answer))
    OBVIOUS
  <2> DEFINE history == [i \in DOMAIN answer |-> FromHistory(answer[i])]
  <2>1. answer \in Seq(1..MaxEvents) /\ conn \in Nat /\ MaxConns \in Nat
    BY DEF FeedInv, FeedTypeOK, FeedAssumption
  <2>2. \A i \in DOMAIN answer : FromHistory(answer[i]) \in Events /\ FromHistory(answer[i]).id = answer[i]
    <3>1. \A i \in DOMAIN answer : answer[i] \in 1..MaxEvents
      BY <2>1, ElementsAre
    <3> QED
      BY <2>1, <3>1 DEF FromHistory, Events
  <2>3. history \in Seq(Events)
    <3>1. DOMAIN answer = 1..Len(answer) /\ Len(answer) \in Nat
      BY <2>1
    <3>2. history \in [1..Len(answer) -> Events]
      BY <2>2, <3>1
    <3> QED
      BY <3>1, <3>2
  <2>4. Ids(history) = Members(answer)
    BY <2>2 DEF Ids, Members
  <2>5. feed' = WithHistory(feed, history, conn)
    BY DEF OnHistory
  <2> HIDE DEF history
  <2> QED
    BY <1>1, <2>1, <2>3, <2>4, <2>5, WithHistoryKeeps
<1>5. PauseFeed => Keeps(feed, feed', {})
  <2> SUFFICES ASSUME PauseFeed PROVE Keeps(feed, feed', {})
    OBVIOUS
  <2>1. feed' = [feed EXCEPT !.paused = TRUE]
    BY DEF PauseFeed
  <2>2. /\ feed' \in [events : Seq(Events), queued : Seq(Events), paused : BOOLEAN]
        /\ feed'.events = feed.events /\ feed'.queued = feed.queued
    BY <1>1, <2>1 DEF Sound
  <2> QED
    BY <1>1, <2>2 DEF Keeps, Sound, ShownIn, FullIn
<1>6. ResumeFeed => Keeps(feed, feed', {})
  BY <1>1, ResumedKeeps DEF ResumeFeed
<1> QED
  BY <1>2, <1>3, <1>4, <1>5, <1>6

LEMMA AnyFeedMove ==
  ASSUME FeedAssumption, FeedInv, [FeedNext]_feedVars
  PROVE  \E new : Keeps(feed, feed', new)
<1>1. \/ UNCHANGED feed \/ OnMessage \/ OnHistory \/ PauseFeed \/ ResumeFeed
  BY DEF FeedNext, feedVars, hubVars, linkVars, Publish, RecordEvent, RecordFails, Open, Forward,
         ReadHistory, HistoryFails, OnError
<1> QED
  BY <1>1, FeedMoves

(* The lists of events of the hub and of the link. *)
LEMMA CappedMembers ==
  ASSUME FeedAssumption, NEW e \in 1..MaxEvents, NEW list \in Seq(1..MaxEvents)
  PROVE  LET capped == Capped(<<e>> \o list, HistorySize) IN
         /\ capped \in Seq(1..MaxEvents) /\ Len(capped) <= HistorySize
         /\ Members(capped) \subseteq Members(list) \union {e}
<1> DEFINE all == <<e>> \o list
           capped == Capped(all, HistorySize)
<1>1. /\ all \in Seq(1..MaxEvents) /\ Len(all) = Len(list) + 1 /\ Len(list) \in Nat
      /\ DOMAIN list = 1..Len(list) /\ DOMAIN all = 1..Len(all)
      /\ all[1] = e /\ \A i \in 2..Len(all) : all[i] = list[i - 1]
  OBVIOUS
<1> HIDE DEF all
<1>2. /\ capped \in Seq(1..MaxEvents) /\ Len(capped) <= HistorySize
      /\ \A i \in DOMAIN capped : i \in DOMAIN all /\ capped[i] = all[i]
  BY <1>1, CappedIs DEF FeedAssumption
<1> HIDE DEF capped
<1>3. ASSUME NEW i \in DOMAIN all
      PROVE  all[i] \in Members(list) \union {e}
  <2>1. CASE i = 1
    BY <1>1, <2>1
  <2>2. CASE i # 1
    <3>1. i - 1 \in DOMAIN list /\ all[i] = list[i - 1]
      BY <1>1, <2>2
    <3> QED
      BY <3>1 DEF Members
  <2> QED
    BY <2>1, <2>2
<1>4. Members(capped) \subseteq Members(list) \union {e}
  BY <1>2, <1>3 DEF Members
<1> QED
  BY <1>2, <1>4 DEF capped, all

LEMMA WireMembers ==
  ASSUME NEW list \in Seq(1..MaxEvents), NEW e \in 1..MaxEvents
  PROVE  /\ Append(list, e) \in Seq(1..MaxEvents) /\ Members(Append(list, e)) = Members(list) \union {e}
         /\ list # <<>> => /\ Tail(list) \in Seq(1..MaxEvents)
                           /\ Members(list) \subseteq Members(Tail(list)) \union {Head(list)}
<1>1. DOMAIN list = 1..Len(list) /\ Len(list) \in Nat
  OBVIOUS
<1>2. /\ Append(list, e) \in Seq(1..MaxEvents) /\ DOMAIN Append(list, e) = 1..(Len(list) + 1)
      /\ \A i \in 1..Len(list) : Append(list, e)[i] = list[i]
      /\ Append(list, e)[Len(list) + 1] = e
  OBVIOUS
<1>3. Members(Append(list, e)) = Members(list) \union {e}
  <2>1. \A i \in DOMAIN Append(list, e) : i \in DOMAIN list \/ i = Len(list) + 1
    BY <1>1, <1>2
  <2>2. Members(Append(list, e)) \subseteq Members(list) \union {e}
    BY <1>1, <1>2, <2>1 DEF Members
  <2>3. Len(list) + 1 \in DOMAIN Append(list, e) /\ \A i \in DOMAIN list : i \in DOMAIN Append(list, e)
    BY <1>1, <1>2
  <2>4. Members(list) \union {e} \subseteq Members(Append(list, e))
    BY <1>1, <1>2, <2>3 DEF Members
  <2> QED
    BY <2>2, <2>4
<1>4. ASSUME list # <<>>
      PROVE  /\ Tail(list) \in Seq(1..MaxEvents)
             /\ Members(list) \subseteq Members(Tail(list)) \union {Head(list)}
  <2>1. /\ Tail(list) \in Seq(1..MaxEvents) /\ DOMAIN Tail(list) = 1..(Len(list) - 1)
        /\ \A i \in 1..(Len(list) - 1) : Tail(list)[i] = list[i + 1]
        /\ Head(list) = list[1]
    BY <1>4
  <2>2. ASSUME NEW i \in DOMAIN list
        PROVE  list[i] \in Members(Tail(list)) \union {Head(list)}
    <3>1. CASE i = 1
      BY <2>1, <3>1
    <3>2. CASE i # 1
      <4>1. i - 1 \in DOMAIN Tail(list) /\ Tail(list)[i - 1] = list[i]
        BY <1>1, <2>1, <3>2
      <4> QED
        BY <4>1 DEF Members
    <3> QED
      BY <3>1, <3>2
  <2> QED
    BY <2>1, <2>2 DEF Members
<1> QED
  BY <1>2, <1>3, <1>4

LEMMA FeedStart ==
  ASSUME FeedAssumption, FeedInit
  PROVE  FeedInv /\ CatchesUp
<1>1. <<>> \in Seq(1..MaxEvents) /\ <<>> \in Seq(Events) /\ Len(<<>>) = 0 /\ Distinct(<<>>)
  BY DEF Distinct
<1>2. feed \in [events : Seq(Events), queued : Seq(Events), paused : BOOLEAN]
      /\ feed.events = <<>> /\ feed.queued = <<>>
  BY <1>1 DEF FeedInit
<1>3. FeedTypeOK
  <2>1. published = 0 /\ lost = 0 /\ conn = 0 /\ taken = 0 /\ unsaved = None /\ early = None
    BY DEF FeedInit
  <2>2. /\ published \in 0..MaxEvents /\ lost \in 0..MaxLost /\ conn \in 0..MaxConns
        /\ taken \in 0..MaxEvents
    BY <2>1 DEF FeedAssumption
  <2>3. 0 <= HistorySize /\ 0 <= MaxShown
    BY DEF FeedAssumption
  <2>4. stored = <<>> /\ wire = <<>> /\ answer = <<>> /\ link = "down" /\ asked = "none"
        /\ skipped = FALSE /\ filled = FALSE
    BY DEF FeedInit
  <2> QED
    BY <1>1, <1>2, <2>1, <2>2, <2>3, <2>4 DEF FeedTypeOK
<1>4. FeedInv
  BY <1>1, <1>2, <1>3 DEF FeedAssumption, FeedInit, FeedInv, Members
<1>5. CatchesUp
  BY DEF FeedInit, CatchesUp
<1> QED
  BY <1>4, <1>5

LEMMA FeedInvStep ==
  ASSUME FeedAssumption, FeedInv, [FeedNext]_feedVars
  PROVE  FeedInv'
<1>1. /\ feed' \in [events : Seq(Events), queued : Seq(Events), paused : BOOLEAN]
      /\ Len(feed.events)' <= MaxShown /\ Len(feed.queued)' <= MaxShown
      /\ Distinct(feed.events)' /\ Distinct(feed.queued)'
  <2>1. Sound(feed')
    BY AnyFeedMove DEF Keeps
  <2> QED
    BY <2>1 DEF Sound
<1>2. /\ published \in 0..MaxEvents /\ taken \in 0..MaxEvents /\ taken <= published
      /\ stored \in Seq(1..MaxEvents) /\ wire \in Seq(1..MaxEvents) /\ answer \in Seq(1..MaxEvents)
      /\ unsaved \in 1..MaxEvents \union {None} /\ early \in 1..MaxEvents \union {None}
      /\ lost \in 0..MaxLost /\ conn \in 0..MaxConns /\ link \in {"down", "open"}
      /\ asked \in {"none", "sent", "answered"} /\ skipped \in BOOLEAN /\ filled \in BOOLEAN
      /\ Len(stored) <= HistorySize /\ (asked # "none" => ~filled)
      /\ (\A e \in Members(stored) : e <= published) /\ (unsaved # None => unsaved <= published)
      /\ <<>> \in Seq(1..MaxEvents) /\ published \in Int
  BY DEF FeedInv, FeedTypeOK
<1>3. SUFFICES
      /\ published' \in 0..MaxEvents /\ taken' \in 0..MaxEvents /\ taken' <= published'
      /\ stored' \in Seq(1..MaxEvents) /\ wire' \in Seq(1..MaxEvents) /\ answer' \in Seq(1..MaxEvents)
      /\ unsaved' \in 1..MaxEvents \union {None} /\ early' \in 1..MaxEvents \union {None}
      /\ lost' \in 0..MaxLost /\ conn' \in 0..MaxConns /\ link' \in {"down", "open"}
      /\ asked' \in {"none", "sent", "answered"} /\ skipped' \in BOOLEAN /\ filled' \in BOOLEAN
      /\ Len(stored') <= HistorySize /\ (asked' # "none" => ~filled')
      /\ (\A e \in Members(stored') : e <= published') /\ (unsaved' # None => unsaved' <= published')
  BY <1>1 DEF FeedInv, FeedTypeOK
<1> USE DEF FeedAssumption
<1>4. CASE Publish
  <2>1. \A e \in Members(stored) : e \in 1..MaxEvents
    BY <1>2, ElementsAre DEF Members
  <2>2. \A e \in Members(stored) : e <= published'
    BY <1>2, <1>4, <2>1 DEF Publish
  <2> QED
    BY <1>2, <1>4, <2>2 DEF Publish, linkVars
<1>5. CASE RecordEvent
  <2>1. /\ stored' \in Seq(1..MaxEvents) /\ Len(stored') <= HistorySize
        /\ Members(stored') \subseteq Members(stored) \union {unsaved}
    <3>1. unsaved \in 1..MaxEvents
      BY <1>2, <1>5 DEF RecordEvent
    <3> QED
      BY <1>2, <1>5, <3>1, CappedMembers DEF RecordEvent
  <2>2. \A e \in Members(stored') : e <= published
    BY <1>2, <1>5, <2>1 DEF RecordEvent
  <2> QED
    BY <1>2, <1>5, <2>1, <2>2 DEF RecordEvent, linkVars
<1>6. CASE RecordFails
  BY <1>2, <1>6 DEF RecordFails, linkVars
<1>7. CASE Open
  <2>1. conn + 1 \in 0..MaxConns
    BY <1>2, <1>7 DEF Open
  <2>2. /\ published' = published /\ unsaved' = unsaved /\ stored' = stored /\ lost' = lost
        /\ link' = "open" /\ conn' = conn + 1
        /\ taken' = published /\ wire' = <<>> /\ asked' = "sent" /\ answer' = <<>>
        /\ skipped' = FALSE /\ filled' = FALSE /\ early' = unsaved
    BY <1>7 DEF Open, hubVars
  <2>3. published <= published
    BY <1>2
  <2> QED
    BY <1>2, <2>1, <2>2, <2>3
<1>8. CASE Forward
  <2>1. CASE published - taken > EventBuffer
    BY <1>2, <1>8, <2>1 DEF Forward, hubVars
  <2>2. CASE ~(published - taken > EventBuffer)
    <3>1. taken + 1 \in 1..MaxEvents /\ taken + 1 <= published
      BY <1>2, <1>8 DEF Forward
    <3>2. wire' \in Seq(1..MaxEvents)
      <4>1. wire' = Append(wire, taken + 1)
        BY <1>8, <2>2 DEF Forward
      <4>2. Append(wire, taken + 1) \in Seq(1..MaxEvents)
        BY <1>2, <3>1, WireMembers
      <4> QED
        BY <4>1, <4>2
    <3> QED
      BY <1>2, <1>8, <2>2, <3>1, <3>2 DEF Forward, hubVars
  <2> QED
    BY <2>1, <2>2
<1>9. CASE OnMessage
  <2>1. wire' \in Seq(1..MaxEvents)
    BY <1>2, <1>9 DEF OnMessage
  <2> QED
    BY <1>2, <1>9, <2>1 DEF OnMessage, hubVars
<1>10. CASE ReadHistory
  BY <1>2, <1>10 DEF ReadHistory, hubVars
<1>11. CASE OnHistory
  BY <1>2, <1>11 DEF OnHistory, hubVars
<1>12. CASE HistoryFails
  BY <1>2, <1>12 DEF HistoryFails, hubVars
<1>13. CASE OnError
  BY <1>2, <1>13 DEF OnError, hubVars
<1>14. CASE PauseFeed \/ ResumeFeed \/ UNCHANGED feedVars
  BY <1>2, <1>14 DEF PauseFeed, ResumeFeed, hubVars, linkVars, feedVars
<1> QED
  BY <1>4, <1>5, <1>6, <1>7, <1>8, <1>9, <1>10, <1>11, <1>12, <1>13, <1>14 DEF FeedNext

(* What reaches the page goes on to, while the link takes up what it leaves behind. *)
LEMMA ReachesOn ==
  ASSUME FeedAssumption, FeedInv, NEW new, Keeps(feed, feed', new), NEW e,
         Members(wire) \subseteq Members(wire') \union new,
         e > taken => e > taken' \/ e \in Members(wire'),
         Reaches(e)
  PROVE  Reaches(e)'
<1>1. /\ Shown = ShownIn(feed) /\ (Full <=> FullIn(feed))
      /\ Shown' = ShownIn(feed') /\ (Full' <=> FullIn(feed'))
  BY SoundFeed
<1>2. FullIn(feed) => FullIn(feed')
  BY DEF Keeps
<1>3. FullIn(feed') \/ ShownIn(feed) \union new \subseteq ShownIn(feed')
  BY DEF Keeps
<1> QED
  BY <1>1, <1>2, <1>3 DEF Reaches

LEMMA CatchesUpStep ==
  ASSUME FeedAssumption, FeedInv, CatchesUp, [FeedNext]_feedVars
  PROVE  CatchesUp'
<1>1. /\ published \in Nat /\ taken \in Nat /\ taken <= published /\ None \notin Nat
      /\ wire \in Seq(1..MaxEvents) /\ stored \in Seq(1..MaxEvents)
      /\ unsaved \in 1..MaxEvents \union {None} /\ (asked # "none" => ~filled)
      /\ \A e \in Members(stored) : e \in 1..MaxEvents
  BY ElementsAre DEF FeedAssumption, FeedInv, FeedTypeOK, Members
<1>2. ASSUME UNCHANGED <<feed, wire, taken>>
      PROVE  \A e : Reaches(e) => Reaches(e)'
  BY <1>2 DEF Reaches, Full, Shown
<1>3. CASE Publish
  <2>1. unsaved' > taken'
    BY <1>1, <1>3 DEF Publish, linkVars
  <2>2. Reaches(unsaved)'
    BY <2>1 DEF Reaches
  <2>3. \A e : Reaches(e) => Reaches(e)'
    BY <1>2, <1>3 DEF Publish, linkVars
  <2>4. UNCHANGED <<link, skipped, asked, filled, early, stored, answer>>
    BY <1>3 DEF Publish, linkVars
  <2> QED
    BY <2>2, <2>3, <2>4 DEF CatchesUp
<1>4. CASE RecordEvent
  <2>1. \A e : Reaches(e) => Reaches(e)'
    BY <1>2, <1>4 DEF RecordEvent, linkVars
  <2>2. unsaved # None /\ unsaved' = None /\ UNCHANGED <<link, skipped, asked, filled, early, answer>>
    BY <1>4 DEF RecordEvent, linkVars
  <2>3. Members(stored') \subseteq Members(stored) \union {unsaved}
    BY <1>1, <1>4, <2>2, CappedMembers DEF RecordEvent
  <2> QED
    BY <2>1, <2>2, <2>3 DEF CatchesUp
<1>5. CASE RecordFails
  <2>1. \A e : Reaches(e) => Reaches(e)'
    BY <1>2, <1>5 DEF RecordFails, linkVars
  <2>2. unsaved' = None /\ UNCHANGED <<link, skipped, asked, filled, early, answer, stored>>
    BY <1>5 DEF RecordFails, linkVars
  <2> QED
    BY <2>1, <2>2 DEF CatchesUp
<1>6. CASE Open
  BY <1>6 DEF Open, hubVars, CatchesUp
<1>7. CASE Forward
  <2>1. CASE published - taken > EventBuffer
    BY <1>7, <2>1 DEF Forward, CatchesUp
  <2>2. CASE ~(published - taken > EventBuffer)
    <3>1. /\ taken' = taken + 1 /\ wire' = Append(wire, taken + 1)
          /\ UNCHANGED <<unsaved, stored, link, skipped, asked, filled, early, answer, feed>>
      BY <1>7, <2>2 DEF Forward, hubVars
    <3>2. taken + 1 \in 1..MaxEvents
      BY <1>1, <1>7 DEF Forward, FeedInv, FeedTypeOK, FeedAssumption
    <3>3. Members(wire') = Members(wire) \union {taken + 1}
      BY <1>1, <3>1, <3>2, WireMembers
    <3>4. ASSUME NEW e \in 1..MaxEvents, Reaches(e)
          PROVE  Reaches(e)'
      <4>1. Keeps(feed, feed', {})
        BY <3>1, FeedMoves
      <4>2. e > taken => e > taken' \/ e \in Members(wire')
        BY <1>1, <3>1, <3>3
      <4> QED
        BY <3>3, <3>4, <4>1, <4>2, ReachesOn
    <3> QED
      BY <1>1, <3>1, <3>4 DEF CatchesUp
  <2> QED
    BY <2>1, <2>2
<1>8. CASE OnMessage
  <2>1. wire # <<>> /\ wire' = Tail(wire) /\ taken' = taken
        /\ UNCHANGED <<unsaved, stored, link, skipped, asked, filled, early, answer>>
    BY <1>8 DEF OnMessage, hubVars
  <2>2. Members(wire) \subseteq Members(wire') \union {Head(wire)}
    <3>1. Head(wire) \in 1..MaxEvents
      BY <1>1, <2>1, ElementsAre
    <3> QED
      BY <1>1, <2>1, <3>1, WireMembers
  <2>3. \A e : Reaches(e) => Reaches(e)'
    BY <1>8, <2>1, <2>2, FeedMoves, ReachesOn
  <2> QED
    BY <2>1, <2>3 DEF CatchesUp
<1>9. CASE ReadHistory
  <2>1. \A e : Reaches(e) => Reaches(e)'
    BY <1>2, <1>9 DEF ReadHistory
  <2>2. /\ asked = "sent" /\ asked' = "answered" /\ UNCHANGED <<unsaved, stored, link, filled>>
        /\ (answer' = stored /\ skipped' = skipped) \/ skipped' = TRUE
        /\ early' = early \/ (early # unsaved /\ early' = None)
    BY <1>9 DEF ReadHistory, hubVars
  <2>3. ~filled'
    BY <1>1, <2>2
  <2> QED
    BY <2>1, <2>2, <2>3 DEF CatchesUp
<1>10. CASE OnHistory
  <2>1. /\ asked = "answered" /\ asked' = "none"
        /\ UNCHANGED <<unsaved, stored, link, skipped, early, wire, taken>>
    BY <1>10 DEF OnHistory, hubVars
  <2>2. Keeps(feed, feed', Members(answer))
    BY <1>10, FeedMoves
  <2>3. \A e : Reaches(e) => Reaches(e)'
    BY <2>1, <2>2, ReachesOn
  <2>4. \A e \in Members(answer) : Reaches(e)'
    BY <2>2, SoundFeed DEF Keeps, Reaches
  <2> QED
    BY <2>1, <2>3, <2>4 DEF CatchesUp
<1>11. CASE HistoryFails
  <2>1. \A e : Reaches(e) => Reaches(e)'
    BY <1>2, <1>11 DEF HistoryFails
  <2> QED
    BY <1>11, <2>1 DEF HistoryFails, hubVars, CatchesUp
<1>12. CASE OnError
  BY <1>12 DEF OnError, CatchesUp
<1>13. CASE PauseFeed \/ ResumeFeed \/ UNCHANGED feedVars
  <2>1. UNCHANGED <<hubVars, linkVars>> /\ Keeps(feed, feed', {})
    BY <1>13, FeedMoves DEF PauseFeed, ResumeFeed, feedVars
  <2>2. UNCHANGED <<unsaved, stored, link, skipped, asked, filled, early, answer, wire, taken>>
    BY <2>1 DEF hubVars, linkVars
  <2>3. \A e : Reaches(e) => Reaches(e)'
    BY <2>1, <2>2, ReachesOn
  <2> QED
    BY <2>2, <2>3 DEF CatchesUp
<1> QED
  BY <1>3, <1>4, <1>5, <1>6, <1>7, <1>8, <1>9, <1>10, <1>11, <1>12, <1>13 DEF FeedNext

-----------------------------------------------------------------------------
(* The inductive invariant holds in every reachable state: among others, a page *)
(* never lists an event twice.                                                *)
THEOREM FeedInvariant ==
  ASSUME FeedAssumption
  PROVE  FeedSpec => [](FeedInv /\ CatchesUp)
<1>1. FeedInit => FeedInv /\ CatchesUp
  BY FeedStart
<1>2. FeedInv /\ CatchesUp /\ [FeedNext]_feedVars => FeedInv' /\ CatchesUp'
  BY FeedInvStep, CatchesUpStep
<1> QED
  BY <1>1, <1>2, PTL DEF FeedSpec

(* Every state of the listener, the link and the page is well typed. *)
THEOREM FeedTypes ==
  ASSUME FeedAssumption
  PROVE  FeedSpec => []FeedTypeOK
<1>1. FeedInv => FeedTypeOK
  BY DEF FeedInv
<1> QED
  BY <1>1, FeedInvariant, PTL

(* useLiveEvents: a page whose connection has brought its history and skipped   *)
(* nothing shows every recorded event, however often it lost its connection,    *)
(* was paused, or raced the listener, save the one the code loses between its    *)
(* subscription and its history.                                               *)
THEOREM PagesAreBackfilled ==
  ASSUME FeedAssumption
  PROVE  FeedSpec => []Backfilled
<1>1. FeedInv /\ CatchesUp => Backfilled
  <2> SUFFICES ASSUME FeedInv, CatchesUp,
                      link = "open", filled, ~skipped, taken = published, wire = <<>>, ~Full,
                      NEW i \in DOMAIN stored
               PROVE  stored[i] \in Shown \union {early}
    BY DEF Backfilled
  <2>1. stored[i] \in Members(stored) /\ Members(wire) = {}
    BY DEF Members
  <2>2. stored[i] = early \/ Reaches(stored[i])
    BY <2>1 DEF CatchesUp
  <2>3. stored[i] <= taken /\ stored[i] \in Int /\ taken \in Int
    <3>1. stored[i] \in 1..MaxEvents
      BY ElementsAre DEF FeedInv, FeedTypeOK
    <3> QED
      BY <2>1, <3>1 DEF FeedInv, FeedTypeOK
  <2> QED
    BY <2>1, <2>2, <2>3 DEF Reaches
<1> QED
  BY <1>1, FeedInvariant, PTL

(* feedReducer: no action takes an event off the page before the cap is reached. *)
THEOREM NothingShownVanishes ==
  ASSUME FeedAssumption
  PROVE  FeedSpec => NothingVanishes
<1>1. FeedInv /\ [FeedNext]_feedVars => [Shown \subseteq Shown' \/ Full']_feedVars
  BY AnyFeedMove, SoundFeed DEF Keeps
<1> QED
  BY <1>1, FeedInvariant, PTL DEF FeedSpec, NothingVanishes


-----------------------------------------------------------------------------
(* The auto join: check *)

(* What check makes of a status and a hold: only an armed one changes, it     *)
(* fires only without a hold, and it drops a hold only above the goal.        *)
LEMMA CheckedCases ==
  ASSUME NEW s, NEW t, NEW h \in BOOLEAN, NEW l \in Lists \cup {None}
  PROVE  /\ Checked(s, t, h, l).hold \in BOOLEAN
         /\ s # "armed" => Checked(s, t, h, l).status = s /\ Checked(s, t, h, l).hold = h
         /\ s = "armed" => Checked(s, t, h, l).status \in {"armed", "fired", "already-in"}
         /\ s = "armed" /\ Checked(s, t, h, l).status = "fired" => ~h
         /\ s = "armed" /\ ~Checked(s, t, h, l).hold => ~h \/ AboveGoal(t, l)
<1>1. CASE l = None
  BY <1>1 DEF Checked
<1>2. CASE l \in Lists /\ l # None
  <2> DEFINE above == Rules!PlayersOf(l.players, l.meta) > Rules!EffectiveTarget(t, l.meta.max_players)
  <2>1. AboveGoal(t, l) <=> l.meta.online /\ l.meta.max_players > 0 /\ above
    BY <1>2 DEF AboveGoal
  <2>2. \/ Checked(s, t, h, l) = [status |-> s, hold |-> h]
        \/ s = "armed" /\ Checked(s, t, h, l) = [status |-> "already-in", hold |-> h]
        \/ /\ s = "armed" /\ l.meta.online /\ ~(l.meta.max_players <= 0) /\ above
           /\ Checked(s, t, h, l) = [status |-> "armed", hold |-> FALSE]
        \/ s = "armed" /\ ~h /\ Checked(s, t, h, l) = [status |-> "fired", hold |-> FALSE]
    BY <1>2 DEF Checked, Rules!Check
  <2>3. l.meta.max_players <= 0 \/ l.meta.max_players > 0
    BY <1>2, AutoJoinAssumption
  <2>4. above /\ l.meta.online /\ ~(l.meta.max_players <= 0) => AboveGoal(t, l)
    BY <2>1, <2>3
  <2> HIDE DEF above
  <2>5. CASE Checked(s, t, h, l) = [status |-> s, hold |-> h]
    BY <2>5
  <2>6. CASE s = "armed" /\ Checked(s, t, h, l) = [status |-> "already-in", hold |-> h]
    BY <2>6
  <2>7. CASE /\ s = "armed" /\ l.meta.online /\ ~(l.meta.max_players <= 0) /\ above
             /\ Checked(s, t, h, l) = [status |-> "armed", hold |-> FALSE]
    <3>1. Checked(s, t, h, l).status = "armed" /\ Checked(s, t, h, l).hold = FALSE
      BY <2>7
    <3>2. "armed" # "fired"
      OBVIOUS
    <3> QED
      BY <2>4, <2>7, <3>1, <3>2
  <2>8. CASE s = "armed" /\ ~h /\ Checked(s, t, h, l) = [status |-> "fired", hold |-> FALSE]
    <3>1. Checked(s, t, h, l).status = "fired" /\ Checked(s, t, h, l).hold = FALSE
      BY <2>8
    <3>2. "armed" # "fired"
      OBVIOUS
    <3> QED
      BY <2>4, <2>8, <3>1, <3>2
  <2> QED
    BY <2>2, <2>5, <2>6, <2>7, <2>8
<1> QED
  BY <1>1, <1>2

-----------------------------------------------------------------------------
(* Types *)

Statuses == {"idle", "confirming", "armed", "fired", "already-in"}

(* An armed document, in front or kept, and no other, has an arm. *)
ArmIsKnown ==
  /\ status = "armed" <=> arm # None
  /\ \A o \in Others : kept[o] # None => (kept[o].status = "armed" <=> kept[o].arm # None)

TypedTab == TabTypeOK /\ ArmIsKnown

(* The part of the state that a check or a disarming click writes is typed. *)
ArmTyped ==
  /\ status \in Statuses /\ hold \in BOOLEAN /\ waived \in BOOLEAN /\ misled \in BOOLEAN
  /\ target \in Targets \cup {None} /\ arm \in Arms \cup {None}
  /\ saved \in Saved \cup {None} /\ stale \subseteq Others
  /\ launches \in [Arms -> 0..2] /\ revived \subseteq Arms
  /\ status = "armed" <=> arm # None

LEMMA ArmTypedHere == TypedTab => ArmTyped
BY DEF TypedTab, TabTypeOK, ArmIsKnown, ArmTyped, Statuses

(* What is written is what storage holds. *)
LEMMA WrittenTypes ==
  ASSUME TypedTab, NEW x \in Saved \cup {None}, Written(x) \/ (NothingWritten /\ x = saved)
  PROVE  saved' = x /\ misled' \in BOOLEAN /\ stale' \subseteq Others
BY DEF TypedTab, TabTypeOK, Written, NothingWritten

LEMMA CheckTypes ==
  ASSUME TypedTab, NEW s \in Statuses, NEW t \in Targets \cup {None}, NEW h \in BOOLEAN,
         NEW l \in Lists \cup {None}, NEW a \in Arms \cup {None}, NEW wrote \in BOOLEAN,
         NEW n \in [Arms -> 0..2], NEW w \in BOOLEAN,
         s = "armed" => a # None,
         CheckWith(s, t, h, l, a, wrote), Tally(s, t, h, l, a, n, w),
         revived' \subseteq Arms
  PROVE  ArmTyped'
<1> DEFINE c == Checked(s, t, h, l)
<1>1. c.status \in Statuses /\ c.hold \in BOOLEAN /\ (c.status = "armed" => s = "armed")
  BY CheckedCases DEF Statuses
<1>2. /\ status' = c.status /\ hold' = c.hold /\ target' = t
      /\ arm' = IF c.status = "armed" THEN a ELSE None
  BY DEF CheckWith
<1>3. launches' \in [Arms -> 0..2] /\ waived' \in BOOLEAN
  BY DEF Tally
<1>4. s = "armed" => [target |-> t, fresh |-> TRUE, arm |-> a] \in Saved
  BY DEF Saved
<1>5. saved' \in Saved \cup {None} /\ misled' \in BOOLEAN /\ stale' \subseteq Others
  <2>1. saved \in Saved \cup {None}
    BY DEF TypedTab, TabTypeOK
  <2>2. \E x \in Saved \cup {None} : Written(x) \/ (NothingWritten /\ x = saved)
    BY <1>4, <2>1 DEF CheckWith
  <2> QED
    BY <2>2, WrittenTypes
<1> HIDE DEF c
<1> QED
  BY <1>1, <1>2, <1>3, <1>5, TabNoneAssumption DEF ArmTyped

LEMMA DisarmTypes ==
  ASSUME TypedTab, NEW s \in {"idle", "confirming"}, Disarm(s)
  PROVE  ArmTyped'
<1>1. ArmTyped
  BY ArmTypedHere
<1>2. saved' = None /\ misled' \in BOOLEAN /\ stale' \subseteq Others
  BY WrittenTypes DEF Disarm
<1> QED
  BY <1>1, <1>2 DEF ArmTyped, Disarm, Statuses

LEMMA ArmNowTypes ==
  ASSUME TypedTab, NEW h \in BOOLEAN, ArmNow(h)
  PROVE  ArmTyped'
<1>1. /\ target \in Targets \cup {None} /\ live \in Lists \cup {None} /\ "armed" \in Statuses
      /\ CountedAnew \in [Arms -> 0..2]
  BY DEF TypedTab, TabTypeOK, Statuses, CountedAnew
<1>2. TRUE \in BOOLEAN /\ (~h) \in BOOLEAN
  BY Zenon
<1>3. PICK a \in Arms : /\ CheckWith("armed", target, h, live, a, TRUE)
                        /\ Tally("armed", target, h, live, a, CountedAnew, ~h)
                        /\ revived' = {b \in revived : ~Free(b)}
  BY DEF ArmNow
<1>4. a # None /\ a \in Arms \cup {None}
  BY TabNoneAssumption
<1>5. revived' \subseteq Arms
  BY <1>3 DEF TypedTab, TabTypeOK
<1> QED
  BY <1>1, <1>2, <1>3, <1>4, <1>5, CheckTypes, Zenon

LEMMA InitTypes == TabInit => TypedTab
<1>1. 0 \in 0..MaxLoose /\ 0 \in 0..2 /\ TRUE \in BOOLEAN /\ FALSE \in BOOLEAN
  BY AutoJoinAssumption
<1> QED
  BY <1>1 DEF TabInit, TypedTab, TabTypeOK, ArmIsKnown

(* The rest of the tab's types. *)
LEMMA ArmTypesSuffice ==
  ASSUME TypedTab, ArmTyped',
         document' \in {"absent", "shown"}, modal' \in BOOLEAN, confirmed' \in BOOLEAN,
         UNCHANGED <<view, ticket, asking, streaming, kept>>
  PROVE  TypedTab'
BY DEF TypedTab, TabTypeOK, ArmIsKnown, ArmTyped, Statuses, streaming

LEMMA UserTypes ==
  ASSUME TypedTab,
         \/ OpenModal \/ CloseModal \/ Arm \/ TestLaunch \/ ConfirmArm \/ Cancel
         \/ (\E t \in Targets : SetTarget(t)) \/ ReportNotLaunched
  PROVE  TypedTab'
<1>1. ArmTyped
  BY ArmTypedHere
<1>2. ArmTyped'
  <2>1. \A s \in {"idle", "confirming"} : Disarm(s) => ArmTyped'
    BY DisarmTypes
  <2>2. \A h \in BOOLEAN : ArmNow(h) => ArmTyped'
    BY ArmNowTypes
  <2>3. UNCHANGED <<arming, storage>> => ArmTyped'
    BY <1>1 DEF arming, storage, ArmTyped
  <2>4. ASSUME NEW t \in Targets, SetTarget(t) PROVE ArmTyped'
    <3>1. /\ status \in Statuses /\ hold \in BOOLEAN /\ live \in Lists \cup {None}
          /\ arm \in Arms \cup {None} /\ (status = "armed" => arm # None)
          /\ launches \in [Arms -> 0..2] /\ waived \in BOOLEAN /\ TRUE \in BOOLEAN
      BY <1>1 DEF ArmTyped, TypedTab, TabTypeOK
    <3>2. revived' \subseteq Arms
      BY <1>1, <2>4 DEF ArmTyped, SetTarget
    <3> QED
      BY <2>4, <3>1, <3>2, CheckTypes DEF SetTarget
  <2> QED
    BY <2>1, <2>2, <2>3, <2>4 DEF OpenModal, CloseModal, Arm, TestLaunch, ConfirmArm, Cancel, ReportNotLaunched
<1>3. /\ document' \in {"absent", "shown"} /\ modal' \in BOOLEAN /\ confirmed' \in BOOLEAN
      /\ UNCHANGED <<view, ticket, asking, streaming, kept>>
  BY DEF TypedTab, TabTypeOK, OpenModal, CloseModal, Arm, TestLaunch, ConfirmArm, Cancel, SetTarget, ReportNotLaunched
<1> QED
  BY <1>2, <1>3, ArmTypesSuffice

LEMMA BlankTypes ==
  ASSUME TypedTab, Blank, strays' \in 0..MaxLoose, overlap' \in BOOLEAN,
         kept' \in [Others -> Documents \cup {None}], stale' \subseteq Others,
         \A o \in Others : kept'[o] # None => (kept'[o].status = "armed" <=> kept'[o].arm # None)
  PROVE  TypedTab'
<1>1. 0 \in 0..MaxLoose /\ FALSE \in BOOLEAN
  BY AutoJoinAssumption
<1> QED
  BY <1>1 DEF Blank, TypedTab, TabTypeOK, ArmIsKnown

LEMMA PageTypes ==
  ASSUME TypedTab, Mount \/ Unload \/ Unmount \/ Age
  PROVE  TypedTab'
<1>1. CASE Mount
  <2>1. ArmTyped
    BY ArmTypedHere
  <2>2. saved # None => saved.target \in Targets \cup {None} /\ saved.arm \in Arms /\ saved.arm # None
    BY <2>1, TabNoneAssumption DEF ArmTyped, Saved
  <2>3. /\ NothingWritten \/ Written(None)
        /\ launches' = launches /\ revived' = revived
    BY <1>1 DEF Mount
  <2>4. saved' \in Saved \cup {None} /\ misled' \in BOOLEAN /\ stale' \subseteq Others
    BY <2>1, <2>3, WrittenTypes DEF ArmTyped
  <2>5. ArmTyped'
    BY <1>1, <2>1, <2>2, <2>3, <2>4 DEF Mount, ArmTyped, Statuses, arming
  <2>6. document' = "shown" /\ UNCHANGED <<modal, confirmed, view, ticket, asking, streaming, kept>>
    BY <1>1 DEF Mount
  <2> QED
    BY <2>5, <2>6, ArmTypesSuffice DEF TypedTab, TabTypeOK
<1>2. CASE Unload \/ Unmount
  <2>1. 0 \in 0..MaxLoose /\ FALSE \in BOOLEAN
    BY AutoJoinAssumption
  <2> QED
    BY <1>2, <2>1, BlankTypes DEF Unload, Unmount, TypedTab, TabTypeOK, ArmIsKnown
<1>3. CASE Age
  <2>1. [saved EXCEPT !.fresh = FALSE] \in Saved
    BY <1>3 DEF Age, TypedTab, TabTypeOK, Saved
  <2> QED
    BY <1>3, <2>1 DEF Age, TypedTab, TabTypeOK, ArmIsKnown, streaming, arming
<1> QED
  BY <1>1, <1>2, <1>3

LEMMA CacheTypes ==
  ASSUME TypedTab, NEW o \in Others, HideToCache(o) \/ ShowFromCache(o) \/ Evict(o)
  PROVE  TypedTab'
<1>1. CASE HideToCache(o)
  <2> DEFINE d == [ modal |-> modal, status |-> status, target |-> target, hold |-> hold, arm |-> arm,
         waived |-> waived, view |-> view, ticket |-> ticket, asking |-> asking, effect |-> effect,
         strays |-> strays, timers |-> timers, live |-> live, overlap |-> overlap ]
  <2>1. d \in Documents /\ (d.status = "armed" <=> d.arm # None)
    BY DEF TypedTab, TabTypeOK, ArmIsKnown, Documents
  <2>2. kept' = [kept EXCEPT ![o] = d]
    BY <1>1 DEF HideToCache
  <2> HIDE DEF d
  <2>3. kept' \in [Others -> Documents \cup {None}]
    BY <2>1, <2>2 DEF TypedTab, TabTypeOK
  <2>4. \A p \in Others : kept'[p] # None => (kept'[p].status = "armed" <=> kept'[p].arm # None)
    BY <2>1, <2>2 DEF TypedTab, TabTypeOK, ArmIsKnown
  <2>5. Blank /\ strays' = 0 /\ overlap' = FALSE /\ stale' \subseteq Others
    BY <1>1 DEF HideToCache, TypedTab, TabTypeOK
  <2>6. 0 \in 0..MaxLoose /\ FALSE \in BOOLEAN
    BY AutoJoinAssumption
  <2>7. strays' \in 0..MaxLoose /\ overlap' \in BOOLEAN
    BY <2>5, <2>6
  <2> QED
    BY <2>3, <2>4, <2>5, <2>7, BlankTypes, Zenon
<1>2. CASE ShowFromCache(o)
  <2>1. kept[o] \in Documents
    BY <1>2 DEF ShowFromCache, Restored, TypedTab, TabTypeOK
  <2>2. /\ modal' \in BOOLEAN /\ hold' \in BOOLEAN /\ waived' \in BOOLEAN
        /\ status' \in Statuses /\ target' \in Targets \cup {None} /\ arm' \in Arms \cup {None}
        /\ view' \in Lists \cup {None} /\ live' \in Lists \cup {None}
        /\ ticket' \in BOOLEAN /\ asking' \in BOOLEAN
        /\ effect' \in Queries \cup {None} /\ source' = effect'
        /\ strays' \in 0..MaxLoose /\ timers' \in 0..MaxLoose
    BY <1>2, <2>1 DEF ShowFromCache, Restored, Documents, Statuses
  <2>3. overlap' \in BOOLEAN /\ misled' \in BOOLEAN /\ stale' \subseteq Others
    BY <1>2, <2>1 DEF ShowFromCache, Restored, Documents, TypedTab, TabTypeOK
  <2>4. revived' \subseteq Arms
    BY <1>2, <2>1 DEF ShowFromCache, Restored, Documents, TypedTab, TabTypeOK
  <2>5. /\ kept' \in [Others -> Documents \cup {None}]
        /\ \A p \in Others : kept'[p] # None => kept'[p] = kept[p]
    BY <1>2 DEF ShowFromCache, Restored, TypedTab, TabTypeOK
  <2>6. status' = "armed" <=> arm' # None
    BY <1>2 DEF ShowFromCache, Restored, TypedTab, ArmIsKnown
  <2>7. document' = "shown" /\ UNCHANGED <<saved, launches, confirmed>>
    BY <1>2 DEF ShowFromCache, Restored
  <2> QED
    BY <2>2, <2>3, <2>4, <2>5, <2>6, <2>7 DEF TypedTab, TabTypeOK, ArmIsKnown, Statuses
<1>3. CASE Evict(o)
  <2>1. /\ kept' \in [Others -> Documents \cup {None}]
        /\ \A p \in Others : kept'[p] # None => kept'[p] = kept[p]
    BY <1>3 DEF Evict, TypedTab, TabTypeOK
  <2>2. stale' \subseteq Others
    BY <1>3 DEF Evict, TypedTab, TabTypeOK
  <2> QED
    BY <1>3, <2>1, <2>2 DEF Evict, TypedTab, TabTypeOK, ArmIsKnown, arming, streaming
<1> QED
  BY <1>1, <1>2, <1>3

LEMMA StreamTypes ==
  ASSUME TypedTab,
         \/ Commit \/ (\E ok \in BOOLEAN : TicketAnswered(ok)) \/ (\E l \in Lists : Event(l))
         \/ Reconnect \/ RetryFires \/ StrayRefused
  PROVE  TypedTab'
<1>1. CASE Commit
  <2>1. Wanted \in Queries \cup {None}
    BY DEF Wanted, Queries, TypedTab, TabTypeOK
  <2>2. asking' \in BOOLEAN
    BY <1>1 DEF Commit
  <2> QED
    BY <1>1, <2>1, <2>2, AutoJoinAssumption DEF Commit, TypedTab, TabTypeOK, ArmIsKnown, arming, storage
<1>2. ASSUME NEW ok \in BOOLEAN, TicketAnswered(ok) PROVE TypedTab'
  <2>1. ticket' \in BOOLEAN /\ asking' \in BOOLEAN
    BY <1>2 DEF TicketAnswered
  <2> QED
    BY <1>2, <2>1 DEF TicketAnswered, TypedTab, TabTypeOK, ArmIsKnown, arming, storage, streaming
<1>3. ASSUME NEW l \in Lists, Event(l) PROVE TypedTab'
  <2>0. ArmTyped
    BY ArmTypedHere
  <2>1. /\ status \in Statuses /\ hold \in BOOLEAN /\ target \in Targets \cup {None}
        /\ launches \in [Arms -> 0..2] /\ waived \in BOOLEAN /\ l \in Lists \cup {None}
        /\ arm \in Arms \cup {None} /\ (status = "armed" => arm # None) /\ FALSE \in BOOLEAN
    BY <2>0 DEF ArmTyped
  <2>2. revived' \subseteq Arms
    BY <2>0, <1>3 DEF ArmTyped, Event
  <2>3. ArmTyped'
    BY <1>3, <2>1, <2>2, CheckTypes DEF Event
  <2> QED
    BY <1>3, <2>3 DEF Event, TypedTab, TabTypeOK, ArmIsKnown, ArmTyped, Statuses
<1>4. CASE Reconnect
  BY <1>4, AutoJoinAssumption DEF Reconnect, TypedTab, TabTypeOK, ArmIsKnown, arming, storage
<1>5. CASE RetryFires
  BY <1>5, AutoJoinAssumption DEF RetryFires, TypedTab, TabTypeOK, ArmIsKnown, arming, storage
<1>6. CASE StrayRefused
  BY <1>6, AutoJoinAssumption DEF StrayRefused, TypedTab, TabTypeOK, ArmIsKnown, arming, storage
<1> QED
  BY <1>1, <1>2, <1>3, <1>4, <1>5, <1>6

LEMMA ArmTypeStep == TypedTab /\ [TabNext]_tabVars => TypedTab'
<1>1. TypedTab /\ UNCHANGED tabVars => TypedTab'
  BY DEF TypedTab, TabTypeOK, ArmIsKnown, tabVars, arming, storage, streaming
<1> QED
  BY <1>1, UserTypes, PageTypes, CacheTypes, StreamTypes DEF TabNext

LEMMA TypedInvariant == TabSpec => []TypedTab
BY InitTypes, ArmTypeStep, PTL DEF TabSpec

(* Every state of the tab, of its storage and of the documents it keeps in the *)
(* back/forward cache is well typed, with no stream but the effect's own.      *)
THEOREM TabTypes == TabSpec => []TabTypeOK
<1>1. TypedTab => TabTypeOK
  BY DEF TypedTab
<1> QED
  BY <1>1, TypedInvariant, PTL

-----------------------------------------------------------------------------
(* What is armed, saved and launched *)

(* A document, with status s, target t and arm a, as storage would arm it. *)
Agrees(s, t, a) ==
  /\ (saved # None) = (s = "armed")
  /\ saved # None => saved.target = t /\ saved.arm = a

(* An armed document without a hold, like one that fired, was free to launch. *)
MayFire(s, h, w) == (s = "armed" /\ ~h => w) /\ (s = "fired" => w)

(* Every kept document was free to launch; those that nothing was written     *)
(* behind still agree with storage.                                           *)
KeptInv ==
  \A o \in Others : kept[o] # None =>
    /\ MayFire(kept[o].status, kept[o].hold, kept[o].waived)
    /\ o \notin stale => Agrees(kept[o].status, kept[o].target, kept[o].arm)

(* An arm that the document in front or storage would launch from has not     *)
(* launched, unless a restored document brought it back.                      *)
Unspent(a) == a # None => launches[a] = 0 \/ a \in revived

ArmInv ==
  /\ SavedIsArmed
  /\ document = "absent" => status = "idle"
  /\ LaunchesOnce
  /\ Unspent(arm)
  /\ saved # None => Unspent(saved.arm)
  /\ MayFire(status, hold, waived)
  /\ KeptInv

LEMMA KeptAfterWrite ==
  ASSUME KeptInv, NEW x, Written(x) \/ NothingWritten, kept' = kept
  PROVE  KeptInv'
<1>1. CASE stale' = stale
  <2>1. \/ saved' = None /\ saved = None
        \/ saved' # None /\ saved # None /\ saved'.target = saved.target /\ saved'.arm = saved.arm
        \/ saved' = saved
        \/ \A o \in Others : kept[o] # None => o \in stale'
    BY DEF Written, NothingWritten
  <2> QED
    BY <1>1, <2>1 DEF KeptInv, Agrees
<1>2. CASE stale' = {o \in Others : kept[o] # None}
  BY <1>2 DEF KeptInv
<1> QED
  BY <1>1, <1>2 DEF Written, NothingWritten

(* After a check, from an arm that has not launched and, without a hold, was  *)
(* free to.                                                                   *)
LEMMA CheckArms ==
  ASSUME TypedTab, KeptInv, kept' = kept, document' = "shown",
         NEW s \in Statuses, NEW t \in Targets \cup {None}, NEW h \in BOOLEAN,
         NEW l \in Lists \cup {None}, NEW a \in Arms \cup {None}, NEW wrote \in BOOLEAN,
         NEW n \in [Arms -> 0..2], NEW w \in BOOLEAN,
         CheckWith(s, t, h, l, a, wrote), Tally(s, t, h, l, a, n, w),
         s = "armed" <=> a # None,
         a # None => n[a] = 0 \/ a \in revived',
         \A b \in Arms : n[b] <= 1 \/ b \in revived',
         MayFire(s, h, w),
         s = "armed" => wrote \/ misled \/ (saved # None /\ saved.target = t /\ saved.arm = a),
         saved # None => s = "armed" \/ misled,
         saved # None => (wrote /\ s = "armed") \/ n[saved.arm] = 0 \/ saved.arm \in revived'
  PROVE  ArmInv'
<1> DEFINE c == Checked(s, t, h, l)
           x == [target |-> t, fresh |-> TRUE, arm |-> a]
<1>1. /\ s # "armed" => c.status = s /\ c.hold = h
      /\ s = "armed" => c.status \in {"armed", "fired", "already-in"}
      /\ s = "armed" /\ c.status = "fired" => ~h
      /\ s = "armed" /\ ~c.hold => ~h \/ AboveGoal(t, l)
  BY CheckedCases
<1>2. /\ status' = c.status /\ hold' = c.hold /\ target' = t
      /\ arm' = IF c.status = "armed" THEN a ELSE None
  BY DEF CheckWith
<1>3. launches' = IF s = "armed" /\ c.status = "fired" /\ n[a] < 2 THEN [n EXCEPT ![a] = @ + 1] ELSE n
  BY DEF Tally
<1>4. waived' = (w \/ (s = "armed" /\ AboveGoal(t, l)))
  BY DEF Tally
<1>5. \/ s = "armed" /\ c.status # "armed" /\ Written(None)
      \/ s = "armed" /\ c.status = "armed" /\ wrote /\ Written(x)
      \/ ~(s = "armed" /\ wrote) /\ (s = "armed" => c.status = "armed") /\ NothingWritten
  BY DEF CheckWith
<1>6. a # None => x # None /\ x.arm = a /\ x.target = t
  <2>1. a # None => x \in Saved
    BY DEF Saved
  <2> QED
    BY <2>1, TabNoneAssumption
<1>7. KeptInv'
  BY <1>5, KeptAfterWrite
<1>8. c.status = "armed" => s = "armed"
  BY <1>1
<1>9. MayFire(c.status, c.hold, waived')
  BY <1>1, <1>4 DEF MayFire
<1>10. saved \in Saved \cup {None} /\ misled \in BOOLEAN
  BY DEF TypedTab, TabTypeOK
<1> HIDE DEF c, x
<1>11. SavedIsArmed'
  BY <1>1, <1>2, <1>5, <1>6, <1>8 DEF SavedIsArmed, Written, NothingWritten
<1>12. LaunchesOnce'
  <2>1. CASE launches' = n
    BY <2>1 DEF LaunchesOnce
  <2>2. CASE s = "armed" /\ n[a] < 2 /\ launches' = [n EXCEPT ![a] = @ + 1]
    <3>1. a \in Arms /\ (n[a] = 0 \/ a \in revived')
      BY <2>2
    <3>2. \A b \in Arms : launches'[b] = IF b = a THEN n[a] + 1 ELSE n[b]
      BY <2>2
    <3> QED
      BY <3>1, <3>2 DEF LaunchesOnce
  <2> QED
    BY <1>3, <2>1, <2>2
<1>13. Unspent(arm)'
  <2>1. CASE arm' = None
    BY <2>1 DEF Unspent
  <2>2. CASE arm' = a /\ c.status = "armed" /\ a # None
    <3>1. launches' = n
      BY <1>3, <2>2
    <3> QED
      BY <2>2, <3>1 DEF Unspent
  <2> QED
    BY <1>2, <1>8, <2>1, <2>2
<1>14. saved' # None => Unspent(saved.arm)'
  <2>1. CASE saved' = None
    BY <2>1
  <2>2. CASE s = "armed" /\ c.status = "armed" /\ saved' = x
    <3>1. launches' = n
      BY <1>3, <2>2
    <3> QED
      BY <1>6, <2>2, <3>1 DEF Unspent
  <2>3. CASE ~(s = "armed" /\ wrote) /\ (s = "armed" => c.status = "armed") /\ saved' = saved
    <3>1. launches' = n
      BY <1>3, <2>3
    <3> QED
      BY <2>3, <3>1 DEF Unspent
  <2> QED
    BY <1>5, <2>1, <2>2, <2>3 DEF Written, NothingWritten
<1> QED
  BY <1>2, <1>7, <1>9, <1>11, <1>12, <1>13, <1>14 DEF ArmInv, MayFire

LEMMA DisarmArms ==
  ASSUME ArmInv, document' = "shown", kept' = kept, NEW s \in {"idle", "confirming"}, Disarm(s)
  PROVE  ArmInv'
<1>1. KeptInv'
  BY KeptAfterWrite DEF ArmInv, Disarm
<1>2. /\ saved' = None /\ status' = s /\ arm' = None
      /\ UNCHANGED <<hold, launches, revived, waived>>
  BY DEF Disarm, Written
<1> QED
  BY <1>1, <1>2 DEF ArmInv, SavedIsArmed, LaunchesOnce, Unspent, MayFire

LEMMA ArmNowArms ==
  ASSUME TypedTab, ArmInv, document' = "shown", kept' = kept, NEW h \in BOOLEAN, ArmNow(h)
  PROVE  ArmInv'
<1>1. /\ target \in Targets \cup {None} /\ live \in Lists \cup {None} /\ "armed" \in Statuses
      /\ CountedAnew \in [Arms -> 0..2]
  BY DEF TypedTab, TabTypeOK, Statuses, CountedAnew
<1>2. TRUE \in BOOLEAN /\ (~h) \in BOOLEAN
  BY Zenon
<1>3. PICK a \in Arms : /\ Free(a)
                        /\ CheckWith("armed", target, h, live, a, TRUE)
                        /\ Tally("armed", target, h, live, a, CountedAnew, ~h)
                        /\ revived' = {b \in revived : ~Free(b)}
  BY DEF ArmNow
<1>4. a # None /\ a \in Arms \cup {None} /\ CountedAnew[a] = 0
  BY <1>3, TabNoneAssumption DEF CountedAnew
<1>5. \A b \in Arms : CountedAnew[b] <= 1 \/ b \in revived'
  <2>1. \A b \in Arms : launches[b] <= 1 \/ b \in revived
    BY DEF ArmInv, LaunchesOnce
  <2> QED
    BY <1>3, <2>1 DEF CountedAnew
<1>6. MayFire("armed", h, ~h) /\ KeptInv
  BY DEF MayFire, ArmInv
<1> QED
  BY <1>1, <1>2, <1>3, <1>4, <1>5, <1>6, CheckArms

(* Nothing of it changes, or only what it does not mention. *)
LEMMA SameArms ==
  ASSUME ArmInv, UNCHANGED <<arming, storage, kept, document>>
  PROVE  ArmInv'
<1>1. KeptInv'
  BY DEF ArmInv, KeptInv, Agrees, storage
<1> QED
  BY <1>1 DEF ArmInv, SavedIsArmed, LaunchesOnce, Unspent, MayFire, arming, storage

LEMMA InitArms == TabInit => ArmInv
BY DEF TabInit, ArmInv, SavedIsArmed, LaunchesOnce, Unspent, MayFire, KeptInv

LEMMA CheckStepArms ==
  ASSUME TypedTab, ArmInv, (\E t \in Targets : SetTarget(t)) \/ \E l \in Lists : Event(l)
  PROVE  ArmInv'
<1>1. /\ status \in Statuses /\ hold \in BOOLEAN /\ waived \in BOOLEAN
      /\ live \in Lists \cup {None} /\ target \in Targets \cup {None}
      /\ arm \in Arms \cup {None} /\ launches \in [Arms -> 0..2]
      /\ status = "armed" <=> arm # None
      /\ TRUE \in BOOLEAN /\ FALSE \in BOOLEAN
  BY DEF TypedTab, TabTypeOK, ArmIsKnown, Statuses
<1>2. /\ MayFire(status, hold, waived) /\ KeptInv
      /\ arm # None => launches[arm] = 0 \/ arm \in revived
      /\ saved # None => launches[saved.arm] = 0 \/ saved.arm \in revived
      /\ \A b \in Arms : launches[b] <= 1 \/ b \in revived
  <2>1. saved # None => saved.arm # None
    BY TabNoneAssumption DEF TypedTab, TabTypeOK, Saved
  <2> QED
    BY <2>1 DEF ArmInv, LaunchesOnce, Unspent
<1>3. document = "shown" =>
        /\ saved # None => status = "armed" \/ misled
        /\ status = "armed" => misled \/ (saved # None /\ saved.target = target /\ saved.arm = arm)
  BY DEF ArmInv, SavedIsArmed, TypedTab, TabTypeOK
<1>4. ASSUME NEW t \in Targets, SetTarget(t) PROVE ArmInv'
  <2>1. /\ document = "shown" /\ document' = "shown" /\ t \in Targets \cup {None}
        /\ kept' = kept /\ revived' = revived
        /\ CheckWith(status, t, hold, live, arm, TRUE) /\ Tally(status, t, hold, live, arm, launches, waived)
    BY <1>4 DEF SetTarget, Panel
  <2>2. /\ status = "armed" => TRUE \/ misled \/ (saved # None /\ saved.target = t /\ saved.arm = arm)
        /\ saved # None => status = "armed" \/ misled
    BY <1>3, <2>1
  <2>3. /\ arm # None => launches[arm] = 0 \/ arm \in revived'
        /\ \A b \in Arms : launches[b] <= 1 \/ b \in revived'
        /\ saved # None => (TRUE /\ status = "armed") \/ launches[saved.arm] = 0 \/ saved.arm \in revived'
    BY <1>2, <2>1
  <2> QED
    BY <1>1, <1>2, <2>1, <2>2, <2>3, CheckArms, Zenon
<1>5. ASSUME NEW l \in Lists, Event(l) PROVE ArmInv'
  <2>1. /\ document = "shown" /\ document' = "shown" /\ l \in Lists \cup {None}
        /\ kept' = kept /\ revived' = revived
        /\ CheckWith(status, target, hold, l, arm, FALSE) /\ Tally(status, target, hold, l, arm, launches, waived)
    BY <1>5 DEF Event
  <2>2. /\ status = "armed" => FALSE \/ misled \/ (saved # None /\ saved.target = target /\ saved.arm = arm)
        /\ saved # None => status = "armed" \/ misled
    BY <1>3, <2>1
  <2>3. /\ arm # None => launches[arm] = 0 \/ arm \in revived'
        /\ \A b \in Arms : launches[b] <= 1 \/ b \in revived'
        /\ saved # None => (FALSE /\ status = "armed") \/ launches[saved.arm] = 0 \/ saved.arm \in revived'
    BY <1>2, <2>1
  <2> QED
    BY <1>1, <1>2, <2>1, <2>2, <2>3, CheckArms, Zenon
<1> QED
  BY <1>4, <1>5

LEMMA UserArms ==
  ASSUME TypedTab, ArmInv,
         \/ OpenModal \/ CloseModal \/ Arm \/ TestLaunch \/ ConfirmArm \/ Cancel \/ ReportNotLaunched
  PROVE  ArmInv'
<1>1. document = "shown" /\ document' = "shown" /\ kept' = kept
  BY DEF OpenModal, CloseModal, Arm, TestLaunch, ConfirmArm, Cancel, ReportNotLaunched, Panel
<1>2. \/ UNCHANGED <<arming, storage>> \/ Disarm("idle") \/ Disarm("confirming")
      \/ ArmNow(FALSE) \/ ArmNow(TRUE)
  BY DEF OpenModal, CloseModal, Arm, TestLaunch, ConfirmArm, Cancel, ReportNotLaunched
<1>3. TRUE \in BOOLEAN /\ FALSE \in BOOLEAN
  BY Zenon
<1>4. UNCHANGED <<arming, storage>> => ArmInv'
  BY <1>1, SameArms
<1>5. Disarm("idle") \/ Disarm("confirming") => ArmInv'
  <2>1. "idle" \in {"idle", "confirming"} /\ "confirming" \in {"idle", "confirming"}
    OBVIOUS
  <2> QED
    BY <1>1, <2>1, DisarmArms, Zenon
<1>6. ArmNow(FALSE) \/ ArmNow(TRUE) => ArmInv'
  BY <1>1, <1>3, ArmNowArms, Zenon
<1> QED
  BY <1>2, <1>4, <1>5, <1>6, Zenon

(* Nothing in front is nothing armed; what is kept is as it was. *)
LEMMA BlankArms ==
  ASSUME ArmInv, Blank, KeptInv'
  PROVE  ArmInv'
BY DEF Blank, ArmInv, SavedIsArmed, LaunchesOnce, Unspent, MayFire

LEMMA PageArms ==
  ASSUME TypedTab, ArmInv, Mount \/ Unload \/ Unmount \/ Age
  PROVE  ArmInv'
<1>1. CASE Mount
  <2>1. /\ NothingWritten \/ Written(None)
        /\ document' = "shown" /\ UNCHANGED <<kept, launches, revived>>
    BY <1>1 DEF Mount
  <2>2. KeptInv'
    BY <2>1, KeptAfterWrite DEF ArmInv
  <2>3. CASE saved # None /\ saved.fresh
    BY <1>1, <2>1, <2>2, <2>3 DEF Mount, NothingWritten, ArmInv, SavedIsArmed, LaunchesOnce, Unspent, MayFire
  <2>4. CASE ~(saved # None /\ saved.fresh)
    <3>1. saved' = None /\ UNCHANGED <<status, target, hold, arm, waived>> /\ status = "idle"
      BY <1>1, <2>4 DEF Mount, Written, arming, ArmInv
    <3> QED
      BY <2>1, <2>2, <3>1 DEF ArmInv, SavedIsArmed, LaunchesOnce, Unspent, MayFire
  <2> QED
    BY <2>3, <2>4
<1>2. CASE Unload \/ Unmount
  <2>1. Blank /\ UNCHANGED <<stale, kept, saved>>
    BY <1>2 DEF Unload, Unmount, Blank
  <2>2. KeptInv'
    BY <2>1 DEF ArmInv, KeptInv, Agrees
  <2> QED
    BY <2>1, <2>2, BlankArms
<1>3. CASE Age
  <2>1. /\ saved \in Saved /\ saved' = [saved EXCEPT !.fresh = FALSE]
        /\ UNCHANGED <<document, status, target, hold, arm, launches, revived, misled, waived, kept, stale>>
    BY <1>3 DEF Age, TypedTab, TabTypeOK, arming
  <2>2. saved' # None /\ saved # None /\ saved'.target = saved.target /\ saved'.arm = saved.arm
    BY <2>1, TabNoneAssumption DEF Saved
  <2>3. KeptInv'
    BY <2>1, <2>2 DEF ArmInv, KeptInv, Agrees
  <2> QED
    BY <2>1, <2>2, <2>3 DEF ArmInv, SavedIsArmed, LaunchesOnce, Unspent, MayFire
<1> QED
  BY <1>1, <1>2, <1>3

LEMMA CacheArms ==
  ASSUME TypedTab, ArmInv, NEW o \in Others, HideToCache(o) \/ ShowFromCache(o) \/ Evict(o)
  PROVE  ArmInv'
<1>0. kept \in [Others -> Documents \cup {None}] /\ KeptInv
  BY DEF TypedTab, TabTypeOK, ArmInv
<1>1. CASE HideToCache(o)
  <2>1. /\ \A p \in Others \ {o} : kept'[p] = kept[p]
        /\ kept'[o].status = status /\ kept'[o].hold = hold /\ kept'[o].waived = waived
        /\ kept'[o].target = target /\ kept'[o].arm = arm
    BY <1>0, <1>1 DEF HideToCache
  <2>2. Blank /\ saved' = saved /\ document = "shown"
    BY <1>1 DEF HideToCache, Blank
  <2>3. /\ \A p \in Others \ {o} : p \in stale <=> p \in stale'
        /\ misled => o \in stale'
    BY <1>1 DEF HideToCache
  <2>4. MayFire(status, hold, waived) /\ (~misled => Agrees(status, target, arm))
    BY <2>2 DEF ArmInv, SavedIsArmed, Agrees
  <2>5. ASSUME NEW p \in Others, kept'[p] # None
        PROVE  /\ MayFire(kept'[p].status, kept'[p].hold, kept'[p].waived)
               /\ p \notin stale' => Agrees(kept'[p].status, kept'[p].target, kept'[p].arm)
    <3>1. CASE p = o
      BY <2>1, <2>3, <2>4, <3>1
    <3>2. CASE p # o
      BY <1>0, <2>1, <2>3, <2>5, <3>2 DEF KeptInv
    <3> QED
      BY <3>1, <3>2
  <2>6. KeptInv'
    BY <2>2, <2>5 DEF KeptInv, Agrees
  <2> QED
    BY <2>2, <2>6, BlankArms
<1>2. CASE ShowFromCache(o)
  <2>1. /\ document' = "shown" /\ kept[o] # None
        /\ status' = kept[o].status /\ target' = kept[o].target /\ hold' = kept[o].hold
        /\ arm' = kept[o].arm /\ waived' = kept[o].waived
        /\ misled' = (o \in stale) /\ stale' = stale \ {o} /\ kept' = [kept EXCEPT ![o] = None]
        /\ saved' = saved /\ launches' = launches
        /\ revived' = IF kept[o].arm # None /\ (saved = None \/ saved.arm # kept[o].arm)
                      THEN revived \cup {kept[o].arm} ELSE revived
    BY <1>2 DEF ShowFromCache, Restored
  <2>2. KeptInv'
    <3>1. \A p \in Others : kept'[p] # None => p # o /\ kept'[p] = kept[p] /\ (p \in stale' <=> p \in stale)
      BY <1>0, <2>1
    <3> QED
      BY <1>0, <2>1, <3>1 DEF KeptInv, Agrees
  <2>3. MayFire(status, hold, waived)' /\ (~misled' => Agrees(status, target, arm)')
    BY <1>0, <2>1 DEF KeptInv, Agrees
  <2>4. SavedIsArmed'
    BY <2>1, <2>3 DEF SavedIsArmed, Agrees
  <2>5. revived \subseteq revived'
    BY <2>1
  <2>6. LaunchesOnce' /\ (saved' # None => Unspent(saved.arm)')
    BY <2>1, <2>5 DEF ArmInv, LaunchesOnce, Unspent
  <2>7. Unspent(arm)'
    BY <2>1, <2>5 DEF ArmInv, Unspent
  <2> QED
    BY <2>1, <2>2, <2>3, <2>4, <2>6, <2>7 DEF ArmInv
<1>3. CASE Evict(o)
  <2>1. \A p \in Others : kept'[p] # None => p # o /\ kept'[p] = kept[p] /\ (p \in stale' <=> p \in stale)
    BY <1>0, <1>3 DEF Evict
  <2>2. UNCHANGED <<document, status, target, hold, arm, waived, saved, launches, revived, misled>>
    BY <1>3 DEF Evict, arming
  <2>3. KeptInv'
    BY <1>0, <2>1, <2>2 DEF KeptInv, Agrees
  <2> QED
    BY <2>2, <2>3 DEF ArmInv, SavedIsArmed, LaunchesOnce, Unspent, MayFire
<1> QED
  BY <1>1, <1>2, <1>3

LEMMA ArmStep == TypedTab /\ ArmInv /\ [TabNext]_tabVars => ArmInv'
<1> SUFFICES ASSUME TypedTab, ArmInv, [TabNext]_tabVars PROVE ArmInv'
  OBVIOUS
<1>1. CASE \/ Commit \/ (\E ok \in BOOLEAN : TicketAnswered(ok))
           \/ Reconnect \/ RetryFires \/ StrayRefused \/ UNCHANGED tabVars
  <2>1. UNCHANGED <<arming, storage, kept, document>>
    BY <1>1 DEF Commit, TicketAnswered, Reconnect, RetryFires, StrayRefused, tabVars
  <2> QED
    BY <2>1, SameArms
<1> QED
  BY <1>1, UserArms, CheckStepArms, PageArms, CacheArms DEF TabNext

LEMMA ArmInvariant == TabSpec => []ArmInv
BY TypedInvariant, InitArms, ArmStep, PTL DEF TabSpec

(* However often a page is reloaded, restored, retargeted or reconnected, and *)
(* in however many documents of the tab an arm goes on, one click launches    *)
(* Steam once at most, unless a document that comes back from the cache       *)
(* revives an arm that storage has forgotten.                                 *)
THEOREM OneLaunchPerArm == TabSpec => []LaunchesOnce
<1>1. ArmInv => LaunchesOnce
  BY DEF ArmInv
<1> QED
  BY <1>1, ArmInvariant, PTL

(* After the Steam check nothing launches before the count was above the goal. *)
THEOREM HoldIsKept == TabSpec => []HeldUntilAbove
<1>1. ArmInv => HeldUntilAbove
  BY DEF ArmInv, MayFire, HeldUntilAbove
<1> QED
  BY <1>1, ArmInvariant, PTL

(* What a reload arms again is what is armed in front, unless the storage was *)
(* changed behind a kept document that has come back and not written since.   *)
THEOREM StorageFollowsTheArm == TabSpec => []SavedIsArmed
<1>1. ArmInv => SavedIsArmed
  BY DEF ArmInv
<1> QED
  BY <1>1, ArmInvariant, PTL

-----------------------------------------------------------------------------
(* One stream *)

(* Unless a document came back with a timeout pending, it has one stream or   *)
(* one timeout, never two of either, nor one of each; in the cache, none but  *)
(* a timeout.                                                                 *)
StreamInv ==
  /\ ~overlap => strays = 0 /\ timers <= 1 /\ (source # None => timers = 0)
  /\ document = "absent" => source = None /\ timers = 0
  /\ \A o \in Others : kept[o] # None /\ ~kept[o].overlap => kept[o].strays = 0 /\ kept[o].timers <= 1

LEMMA InitStream == TabInit => StreamInv
BY DEF TabInit, StreamInv

LEMMA StreamStep == TypedTab /\ StreamInv /\ [TabNext]_tabVars => StreamInv'
<1> SUFFICES ASSUME TypedTab, StreamInv, [TabNext]_tabVars PROVE StreamInv'
  OBVIOUS
<1>0. /\ strays \in Nat /\ timers \in Nat /\ overlap \in BOOLEAN
      /\ kept \in [Others -> Documents \cup {None}] /\ document \in {"absent", "shown"}
  BY AutoJoinAssumption DEF TypedTab, TabTypeOK
<1>1. ASSUME UNCHANGED <<source, strays, timers, overlap, kept>>,
             document' = document \/ (document = "absent" /\ document' = "shown")
      PROVE  StreamInv'
  BY <1>1 DEF StreamInv
<1>2. CASE \/ OpenModal \/ CloseModal \/ Arm \/ TestLaunch \/ ConfirmArm \/ Cancel
           \/ ReportNotLaunched \/ Mount \/ Age \/ UNCHANGED tabVars
  BY <1>1, <1>2 DEF OpenModal, CloseModal, Arm, TestLaunch, ConfirmArm, Cancel, ReportNotLaunched,
                    Mount, Age, streaming, tabVars
<1>3. ASSUME \/ (\E t \in Targets : SetTarget(t)) \/ (\E ok \in BOOLEAN : TicketAnswered(ok))
             \/ (\E l \in Lists : Event(l))
      PROVE  StreamInv'
  BY <1>1, <1>3 DEF SetTarget, TicketAnswered, Event, streaming
<1>4. CASE Unload \/ Unmount
  BY <1>4 DEF Unload, Unmount, Blank, StreamInv
<1>5. ASSUME NEW o \in Others, HideToCache(o) PROVE StreamInv'
  <2>1. /\ \A p \in Others \ {o} : kept'[p] = kept[p]
        /\ kept'[o].overlap = overlap /\ kept'[o].strays = strays /\ kept'[o].timers = timers
    BY <1>0, <1>5 DEF HideToCache
  <2>2. source' = None /\ timers' = 0 /\ strays' = 0
    BY <1>5 DEF HideToCache, Blank
  <2> QED
    BY <2>1, <2>2 DEF StreamInv
<1>6. ASSUME NEW o \in Others, ShowFromCache(o) PROVE StreamInv'
  <2>1. /\ overlap' = (kept[o].overlap \/ kept[o].timers > 0) /\ kept[o] # None
        /\ document' = "shown" /\ strays' = kept[o].strays /\ timers' = kept[o].timers
        /\ kept' = [kept EXCEPT ![o] = None]
    BY <1>6 DEF ShowFromCache, Restored
  <2>2. kept[o].timers \in Nat
    <3>1. kept[o] \in Documents /\ MaxLoose \in Nat
      BY <1>0, <2>1, AutoJoinAssumption
    <3>2. kept[o].timers \in 0..MaxLoose
      BY <3>1 DEF Documents
    <3> QED
      BY <3>1, <3>2
  <2>3. ~overlap' => strays' = 0 /\ timers' = 0
    <3>1. overlap' <=> kept[o].overlap \/ kept[o].timers > 0
      BY <2>1
    <3>2. CASE kept[o].overlap
      BY <3>1, <3>2
    <3>3. CASE ~kept[o].overlap
      BY <2>1, <2>2, <3>1, <3>3 DEF StreamInv
    <3> QED
      BY <3>2, <3>3
  <2>4. \A p \in Others : kept'[p] # None => kept'[p] = kept[p]
    BY <1>0, <2>1
  <2> QED
    BY <2>1, <2>3, <2>4 DEF StreamInv
<1>7. ASSUME NEW o \in Others, Evict(o) PROVE StreamInv'
  <2>1. \A p \in Others : kept'[p] # None => kept'[p] = kept[p]
    BY <1>0, <1>7 DEF Evict
  <2> QED
    BY <1>7, <2>1 DEF Evict, StreamInv, streaming
<1>8. CASE Commit
  BY <1>8 DEF Commit, StreamInv
<1>9. CASE Reconnect
  BY <1>0, <1>9 DEF Reconnect, StreamInv
<1>10. CASE RetryFires
  BY <1>0, <1>10 DEF RetryFires, StreamInv
<1>11. CASE StrayRefused
  BY <1>0, <1>11 DEF StrayRefused, StreamInv
<1> QED
  BY <1>2, <1>3, <1>4, <1>5, <1>6, <1>7, <1>8, <1>9, <1>10, <1>11 DEF TabNext

(* One stream at most, with the query the effect last ran with; two only after *)
(* a timeout outlived a stay in the back/forward cache.                        *)
THEOREM AtMostOneStream == TabSpec => []OneStream
<1>1. TypedTab /\ StreamInv => OneStream
  BY DEF TypedTab, TabTypeOK, StreamInv, OneStream
<1> QED
  BY <1>1, TypedInvariant, InitStream, StreamStep, PTL DEF TabSpec
=============================================================================
