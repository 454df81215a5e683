------------------------------ MODULE FetchUrl ------------------------------
(***************************************************************************)
(* fetchUrl (src/front-ze/utils/generalUtils.ts): the loop every request   *)
(* of the front end goes through. A request that is turned away for its    *)
(* rate is tried again up to maxRetries times, one that breaks up to       *)
(* maxFailures times in all; whatever its method. The waits in between are *)
(* not modelled: the caller decides when the next try goes out.            *)
(***************************************************************************)
EXTENDS Naturals

CONSTANTS
  MaxLimited,   \* maxRetries
  MaxFailures

ASSUME FetchAssumption == MaxLimited \in Nat /\ MaxFailures \in Nat \ {0}

(* data: HTTP 200 and msg OK. refused: a UserError, the API's own error code. *)
(* calculating: code 202, an APIError but no UserError. limited: HTTP 429.    *)
(* broken: no answer, another HTTP status, an aborted fetch.                  *)
Answers == {"data", "refused", "calculating", "limited", "broken"}

Counters == [limited : 0..MaxLimited, failed : 0..(MaxFailures - 1)]

Fresh == [limited |-> 0, failed |-> 0]

(* The 429 branch waits and continues; its last time throws MaxRateLimit, *)
(* which the catch below it counts as one more failure.                   *)
WaitsForRate(t, a) == a = "limited" /\ t.limited < MaxLimited

(* The call is over: data is returned, a UserError and the last failure thrown. *)
Ends(t, a) ==
  \/ a \in {"data", "refused"}
  \/ ~WaitsForRate(t, a) /\ t.failed + 1 >= MaxFailures

(* The counters after an answer that does not end the call. *)
Counted(t, a) ==
  IF WaitsForRate(t, a) THEN [t EXCEPT !.limited = @ + 1] ELSE [t EXCEPT !.failed = @ + 1]
=============================================================================
