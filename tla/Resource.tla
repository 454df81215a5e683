------------------------------ MODULE Resource ------------------------------
(***************************************************************************)
(* useResource and useNotReadyRetry (src/front-ze/lib/hooks): one mounted  *)
(* component that shows what an endpoint answers for its current            *)
(* dependencies, here its key. Keys change while answers are under way, the *)
(* first value may come from the server with the page, and an answer that   *)
(* is still being calculated is asked for again after a while.              *)
(***************************************************************************)
EXTENDS Absent

CONSTANTS
  Keys,    \* the values its dependencies take
  Locked,  \* those for which the fetcher returns null
  Options  \* the options components call it with

OptionSet ==
  [keepData : BOOLEAN, keepError : BOOLEAN, retryNotReady : BOOLEAN, skipFirst : BOOLEAN \union {None}]

Errors == [of : Keys, kind : {"notReady", "failed"}]

ResourceAssumption ==
  Locked \subseteq Keys /\ None \notin Keys /\ None \notin BOOLEAN \union Errors /\ Options \subseteq OptionSet

VARIABLES
  options, \* keepData, keepError, retryNotReady, and skipFirst or None
  seed,    \* the first value that came with the page: that of the key, or None
  key,
  hook,    \* what useResource holds, and its requests under way
  retry,   \* what useNotReadyRetry holds
  calculated    \* keys whose answer the API has calculated

resourceVars == <<options, seed, key, hook, retry, calculated>>

-----------------------------------------------------------------------------
(* The effect of useResource. *)

Failure(k, kind) == [of |-> k, kind |-> kind]

NotReady(h) == options.retryNotReady /\ h.error # None /\ h.error.kind = "notReady"

(* The cleanup: controller.abort. The answer may still come. *)
Aborted(h) == [h EXCEPT !.pending = None,
                        !.stale = IF h.pending = None THEN @ ELSE @ \union {h.pending}]

(* Mutant of Fetched: a fetcher that returns null leaves things as they are. *)
FetchedUnlessLocked(h, k) ==
  IF k \in Locked THEN h
  ELSE [h EXCEPT !.pending = k, !.inFlight = TRUE, !.loading = TRUE,
                 !.error = IF options.keepError THEN @ ELSE None,
                 !.data = IF options.keepData THEN @ ELSE None]

(* Its body. Where the fetcher returns null, only a fetch that was just aborted *)
(* is taken back.                                                               *)
Fetched(h, k) ==
  IF k \notin Locked
    THEN [h EXCEPT !.pending = k, !.inFlight = TRUE, !.loading = TRUE,
                   !.error = IF options.keepError THEN @ ELSE None,
                   !.data = IF options.keepData THEN @ ELSE None]
  ELSE IF h.inFlight
    THEN [h EXCEPT !.inFlight = FALSE, !.loading = FALSE,
                   !.data = IF options.keepData THEN @ ELSE None]
  ELSE h

Done(h) == [h EXCEPT !.pending = None, !.inFlight = FALSE, !.loading = FALSE]

Resolved(h, k) == [Done(h) EXCEPT !.data = k, !.error = None]

Rejected(h, k, kind) == [Done(h) EXCEPT !.error = Failure(k, kind)]

-----------------------------------------------------------------------------
(* The effect of useNotReadyRetry, whose one dependency is notReady. *)

Idle == [timer |-> None, once |-> FALSE]

(* Mutant of Waiting: the timer is for the first time only. *)
WaitingOnce(r, was, is) ==
  IF was = is THEN r
  ELSE IF ~is THEN [r EXCEPT !.timer = None]
  ELSE [r EXCEPT !.timer = IF r.once THEN None ELSE "initial"]

Waiting(r, was, is) ==
  IF was = is THEN r
  ELSE IF ~is THEN Idle
  ELSE [r EXCEPT !.timer = IF r.once THEN "steady" ELSE "initial"]

(* A render with h, and the effects after it. *)
Render(r, h) ==
  /\ hook' = h
  /\ retry' = Waiting(r, NotReady(hook), NotReady(h))

-----------------------------------------------------------------------------
(* options.skipFirst ?? hasInitial *)
SkipFirst == IF options.skipFirst # None THEN options.skipFirst ELSE seed # None

FreshHook == [data |-> seed, error |-> None, loading |-> seed = None,
          inFlight |-> FALSE, pending |-> None, stale |-> {}]

(* Mounted, and the first effect has run. *)
ResourceInit ==
  /\ options \in Options
  /\ key \in Keys
  /\ seed \in {None, key}
  /\ hook = IF SkipFirst THEN FreshHook ELSE Fetched(FreshHook, key)
  /\ retry = Idle
  /\ calculated = {}

(* A page, a search term, a period, a tab, a login: the effect runs anew. *)
ChangeKey ==
  /\ \E k \in Keys \ {key} :
       /\ key' = k
       /\ Render(retry, Fetched(Aborted(hook), k))
  /\ UNCHANGED <<options, seed, calculated>>

Answer ==
  /\ hook.pending # None
  /\ LET k == hook.pending IN
       \/ k \in calculated /\ Render(retry, Resolved(hook, k))
       \/ k \notin calculated /\ Render(retry, Rejected(hook, k, "notReady"))
  /\ UNCHANGED <<options, seed, key, calculated>>

Fail ==
  /\ hook.pending # None
  /\ Render(retry, Rejected(hook, hook.pending, "failed"))
  /\ UNCHANGED <<options, seed, key, calculated>>

(* Mutant of StaleAnswer: signal.aborted is not looked at. *)
StaleAnswerShown(k) ==
  /\ k \in hook.stale
  /\ LET h == [hook EXCEPT !.stale = @ \ {k}] IN
       Render(retry, [h EXCEPT !.data = k, !.error = None, !.loading = FALSE, !.inFlight = FALSE])
  /\ UNCHANGED <<options, seed, key, calculated>>

(* Each continuation looks at signal.aborted first. *)
StaleAnswer(k) ==
  /\ k \in hook.stale
  /\ hook' = [hook EXCEPT !.stale = @ \ {k}]
  /\ UNCHANGED <<options, seed, key, retry, calculated>>

(* The timer of useNotReadyRetry: the retry tick runs the effect anew. *)
TimerFires ==
  /\ retry.timer # None
  /\ Render([timer |-> None, once |-> TRUE], Fetched(Aborted(hook), key))
  /\ UNCHANGED <<options, seed, key, calculated>>

(* The worker is done with a key: the theorem of RefreshQueue is that it will be. *)
Calculate(k) ==
  /\ k \notin calculated \union Locked
  /\ calculated' = calculated \union {k}
  /\ UNCHANGED <<options, seed, key, hook, retry>>

ResourceNext ==
  \/ ChangeKey \/ Answer \/ Fail \/ TimerFires
  \/ \E k \in Keys : StaleAnswer(k) \/ Calculate(k)

ResourceSpec == ResourceInit /\ [][ResourceNext]_resourceVars

(* Requests are answered, timers fire, and the worker gets to every key. *)
ResourceFairSpec == ResourceSpec /\ WF_resourceVars(Answer) /\ WF_resourceVars(TimerFires) /\ WF_resourceVars(\E k \in Keys : Calculate(k))

-----------------------------------------------------------------------------
(* Properties *)

ResourceTypeOK ==
  /\ options \in Options /\ seed \in Keys \union {None}
  /\ key \in Keys /\ calculated \subseteq Keys
  /\ hook \in [data : Keys \union {None}, error : Errors \union {None}, loading : BOOLEAN,
               inFlight : BOOLEAN, pending : Keys \union {None}, stale : SUBSET Keys]
  /\ retry \in [timer : {None, "initial", "steady"}, once : BOOLEAN]

(* Out of loading, what is shown for a key that can be fetched is the answer  *)
(* for that key: its data or its error, never those of an earlier one, in     *)
(* whatever order the answers came and whatever was kept meanwhile.           *)
ShownIsAsked ==
  ~hook.loading /\ key \notin Locked =>
    IF hook.error = None THEN hook.data = key ELSE hook.error.of = key

(* A component that is told to skip its first fetch without a first value. *)
SkipsUnseeded == options.skipFirst = TRUE /\ seed = None

(* Loading is only shown while the answer for the key is under way, or before *)
(* the component had anything to fetch: a key that locks it while an answer   *)
(* is under way does not leave it loading for ever.                           *)
LoadingIsUnderWay ==
  hook.loading /\ ~SkipsUnseeded =>
    hook.pending = key \/ (key \in Locked /\ ~hook.inFlight)

(* A key whose answer is still being calculated is asked for until its answer *)
(* is there: a component with retryNotReady gets to the data, or a failure,   *)
(* of a key it stays at. Not so with keepError, which asks only once more.    *)
NotReadyResolves ==
  \A k \in Keys \ Locked :
    (key = k /\ NotReady(hook) /\ ~options.keepError)
      ~> (key # k \/ (hook.data = k /\ hook.error = None) \/ hook.error = Failure(k, "failed"))
=============================================================================
