------------------------------- MODULE MCParts ------------------------------
(***************************************************************************)
(* Components that share no state, for TLC: a behaviour is one of the      *)
(* component that part names, and leaves the others where they began.      *)
(***************************************************************************)
EXTENDS ChunkedUpload, ServerWatch, LiveFeed, MapsIndex, Resource, PlayerMerge, Timeline, SuggestSearch

VARIABLE part

ASSUME WatchAssumption /\ FeedAssumption /\ MapsAssumption /\ ResourceAssumption /\ MergeAssumption
       /\ TimelineAssumption /\ SearchAssumption

all == <<part, vars, watchVars, feedVars, mapsVars, timelineVars, searchVars, resourceVars, mergeVars>>

P(n, t) == [name |-> n, since |-> t]

(* Nobody; Ann (1) alone; Ann with a player still connecting; that player named Bob (2); *)
(* two Anns; a full house after a clock restart.                              *)
SomeRosters ==
  { <<>>, <<P(1, 0)>>, <<P(1, 0), P(0, 3)>>, <<P(2, 3), P(1, 0)>>,
    <<P(1, 9), P(1, 0)>>, <<P(2, 9), P(1, 9), P(0, 9)>> }

SomeInfos ==
  { [max_players |-> 3, players |-> 0, map |-> "ze"], [max_players |-> 3, players |-> 2, map |-> "surf"] }

Nobody == [names |-> {}, anonymous |-> 0]
SomeWaiting == {Nobody, [names |-> {}, anonymous |-> 1]}

Spans == [month |-> 4, day |-> 2]
Steps == [short |-> 1, long |-> 3]
Offers == [all |-> {"short", "long"}, month |-> {"short", "long"}, day |-> {"short"}]
Lasts == [all |-> 0, Favorite |-> 1]
Words == {"", "_", "a", "abc", "abd"}
Terms == [v \in Words |-> IF v = "_" THEN "" ELSE v]

(* What components pass to useResource. *)
Opt(keepData, keepError, retryNotReady, skipFirst) ==
  [keepData |-> keepData, keepError |-> keepError,
   retryNotReady |-> retryNotReady, skipFirst |-> skipFirst]
UsedOptions ==
  { Opt(FALSE, FALSE, TRUE, None), Opt(TRUE, TRUE, TRUE, None), Opt(TRUE, FALSE, FALSE, None),
    Opt(TRUE, TRUE, FALSE, None), Opt(TRUE, FALSE, FALSE, TRUE), Opt(TRUE, FALSE, FALSE, FALSE),
    Opt(FALSE, FALSE, FALSE, None) }

PartsInit ==
  /\ part \in {"upload", "watch", "live", "maps", "time", "search", "resource", "merge"}
  /\ WatchInit /\ FeedInit /\ MapsInit /\ TimelineInit /\ SearchInit
  /\ Init
  /\ part # "upload" => backend = "r2"
  /\ ResourceInit /\ MergeInit
  /\ part # "resource" =>
       options = (CHOOSE o \in Options : TRUE) /\ key = (CHOOSE k \in Keys : TRUE) /\ seed = None
  /\ part # "merge" => associated = [p \in Profiles |-> None]

PartsNext ==
  /\ UNCHANGED part
  /\ \/ part = "upload" /\ Next
        /\ UNCHANGED <<watchVars, feedVars, mapsVars, timelineVars, searchVars, resourceVars, mergeVars>>
     \/ part = "watch" /\ WatchNext
        /\ UNCHANGED <<vars, feedVars, mapsVars, timelineVars, searchVars, resourceVars, mergeVars>>
     \/ part = "live" /\ FeedNext
        /\ UNCHANGED <<vars, watchVars, mapsVars, timelineVars, searchVars, resourceVars, mergeVars>>
     \/ part = "maps" /\ MapsNext
        /\ UNCHANGED <<vars, watchVars, feedVars, timelineVars, searchVars, resourceVars, mergeVars>>
     \/ part = "time" /\ TimelineNext
        /\ UNCHANGED <<vars, watchVars, feedVars, mapsVars, searchVars, resourceVars, mergeVars>>
     \/ part = "search" /\ SearchNext
        /\ UNCHANGED <<vars, watchVars, feedVars, mapsVars, timelineVars, resourceVars, mergeVars>>
     \/ part = "resource" /\ ResourceNext
        /\ UNCHANGED <<vars, watchVars, feedVars, mapsVars, timelineVars, searchVars, mergeVars>>
     \/ part = "merge" /\ MergeNext
        /\ UNCHANGED <<vars, watchVars, feedVars, mapsVars, timelineVars, searchVars, resourceVars>>

(* The fairness of the parts that have one, in their part. *)
Uploads(action) ==
  /\ part = "upload" /\ action
  /\ UNCHANGED <<part, watchVars, feedVars, mapsVars, timelineVars, searchVars, resourceVars, mergeVars>>

Fetches(action) ==
  /\ part = "resource" /\ action
  /\ UNCHANGED <<part, vars, watchVars, feedVars, mapsVars, timelineVars, searchVars, mergeVars>>

PartsSpec ==
  /\ PartsInit /\ [][PartsNext]_all
  /\ WF_all(Uploads(Runs))
  /\ WF_all(Fetches(Answer)) /\ WF_all(Fetches(TimerFires))
  /\ WF_all(Fetches(\E k \in Keys : Calculate(k)))

-----------------------------------------------------------------------------
(* UploadEnds, in its part. *)
UploadIsOver == part = "upload" => UploadEnds
=============================================================================
