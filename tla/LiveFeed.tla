------------------------------ MODULE LiveFeed ------------------------------
(***************************************************************************)
(* The live events page: the listener that broadcasts a database event and *)
(* then records it (src/src/core/updater.rs), the stream and the history a *)
(* page reads them from (src/src/routers/misc.rs), and the page's feed with *)
(* its pause (src/front-ze/components/live). An event is its number in the *)
(* order of the broadcast; one the listener never heard has none.          *)
(***************************************************************************)
EXTENDS Absent, Lists

CONSTANTS
  EventBuffer,      \* LIVE_EVENT_BUFFER
  HistorySize, \* LIVE_EVENT_HISTORY_SIZE
  MaxShown,    \* MAX_EVENTS of the page
  MaxEvents,   \* bound: events
  MaxConns,    \* bound: connections the page makes
  MaxLost      \* bound: events that are not recorded

FeedAssumption ==
  /\ EventBuffer \in Nat /\ HistorySize \in Nat /\ MaxShown \in Nat \ {0}
  /\ MaxEvents \in Nat /\ MaxConns \in Nat /\ MaxLost \in Nat
  /\ None \notin Nat

VARIABLES
  published, \* number of the last event that was broadcast
  unsaved,   \* an event that was broadcast and is not yet recorded, or None
  stored,    \* the history in Redis, newest first
  lost,      \* how many events failed to be recorded
  link,      \* the page's EventSource: down, or open
  conn,      \* how many times it has opened: stands for openedAt
  taken,     \* events its receiver has taken
  wire,      \* events sent to it and not yet handled
  asked,     \* its history request: none, sent, or answered
  answer,    \* what that request was answered
  feed,      \* the page's FeedState
  skipped,   \* history: on this connection its receiver lagged, or the history was not read
  filled,    \* history: this connection's history has arrived
  early      \* history: broadcast before this connection, recorded after its history was read

hubVars == <<published, unsaved, stored, lost>>
linkVars == <<link, conn, taken, wire, asked, answer, skipped, filled, early>>
feedVars == <<hubVars, linkVars, feed>>

-----------------------------------------------------------------------------
(* The feed: events with the connection that streamed them, 0 for history. *)

FromHistory(e) == [id |-> e, from |-> 0]

Ids(list) == {list[i].id : i \in DOMAIN list}

(* The first copy of every event. *)
Firsts(list) == {i \in DOMAIN list : \A j \in 1..(i - 1) : list[j].id # list[i].id}
mergeEvents(list) == Capped(Entries(list, Firsts(list)), MaxShown)

Received(f, e) ==
  IF f.paused THEN [f EXCEPT !.queued = mergeEvents(<<e>> \o @)]
  ELSE [f EXCEPT !.events = mergeEvents(<<e>> \o @)]

(* Mutant of WithHistory: only an empty feed takes it. *)
WithHistoryOnce(f, history, since) ==
  IF f.events # <<>> THEN f ELSE [f EXCEPT !.events = mergeEvents(history)]

(* What was streamed since this connection opened is newer than its history. *)
WithHistory(f, history, since) ==
  LET newer == Entries(f.events, {i \in DOMAIN f.events : f.events[i].from >= since})
      older == Entries(f.events, {i \in DOMAIN f.events : f.events[i].from < since})
  IN  [f EXCEPT !.events = mergeEvents(newer \o history \o older)]

(* Mutant of Resumed: the queue is emptied, not shown. *)
ResumedBare(f) == [f EXCEPT !.queued = <<>>, !.paused = FALSE]

Resumed(f) == [events |-> mergeEvents(f.queued \o f.events), queued |-> <<>>, paused |-> FALSE]

FeedInit ==
  /\ published = 0 /\ unsaved = None /\ stored = <<>> /\ lost = 0
  /\ link = "down" /\ conn = 0 /\ taken = 0 /\ wire = <<>>
  /\ asked = "none" /\ answer = <<>>
  /\ feed = [events |-> <<>>, queued |-> <<>>, paused |-> FALSE]
  /\ skipped = FALSE /\ filled = FALSE /\ early = None

-----------------------------------------------------------------------------
(* The listener, one event after another. *)

Publish ==
  /\ unsaved = None /\ published < MaxEvents
  /\ published' = published + 1
  /\ unsaved' = published'
  /\ UNCHANGED <<stored, lost, linkVars, feed>>

(* record_live_event: LPUSH and LTRIM in one pipeline. *)
RecordEvent ==
  /\ unsaved # None
  /\ stored' = Capped(<<unsaved>> \o stored, HistorySize)
  /\ unsaved' = None
  /\ UNCHANGED <<published, lost, linkVars, feed>>

(* Redis is out of reach: a warning, and the event is not in the history. *)
RecordFails ==
  /\ unsaved # None /\ lost < MaxLost
  /\ unsaved' = None /\ lost' = lost + 1
  /\ UNCHANGED <<published, stored, linkVars, feed>>

-----------------------------------------------------------------------------
(* The page's connection. *)

(* sse_new_rows subscribes, and onopen asks for the history. *)
Open ==
  /\ link = "down" /\ conn < MaxConns
  /\ link' = "open" /\ conn' = conn + 1
  /\ taken' = published /\ wire' = <<>>
  /\ asked' = "sent" /\ answer' = <<>>
  /\ skipped' = FALSE /\ filled' = FALSE /\ early' = unsaved
  /\ UNCHANGED <<hubVars, feed>>

(* recv, or Lagged: what the ring has dropped is skipped. *)
Forward ==
  /\ link = "open" /\ taken < published
  /\ IF published - taken > EventBuffer
       THEN taken' = published - EventBuffer /\ skipped' = TRUE /\ UNCHANGED wire
       ELSE /\ taken' = taken + 1
            /\ wire' = Append(wire, taken + 1)
            /\ UNCHANGED skipped
  /\ UNCHANGED <<hubVars, link, conn, asked, answer, filled, feed, early>>

(* onmessage *)
OnMessage ==
  /\ link = "open" /\ wire # <<>>
  /\ wire' = Tail(wire)
  /\ feed' = Received(feed, [id |-> Head(wire), from |-> conn])
  /\ UNCHANGED <<hubVars, link, conn, taken, asked, answer, skipped, filled, early>>

(* live_event_history reads what is recorded; where Redis is out of reach, it *)
(* answers with an empty history.                                             *)
ReadHistory ==
  /\ link = "open" /\ asked = "sent"
  /\ asked' = "answered"
  /\ \/ answer' = stored /\ UNCHANGED skipped
     \/ answer' = <<>> /\ skipped' = TRUE
  /\ early' = IF early = unsaved THEN early ELSE None
  /\ UNCHANGED <<hubVars, link, conn, taken, wire, filled, feed>>

OnHistory ==
  /\ link = "open" /\ asked = "answered"
  /\ feed' = WithHistory(feed, [i \in DOMAIN answer |-> FromHistory(answer[i])], conn)
  /\ filled' = TRUE
  /\ asked' = "none" /\ answer' = <<>>
  /\ UNCHANGED <<hubVars, link, conn, taken, wire, skipped, early>>

(* The request fails, through all of fetchUrl's tries. *)
HistoryFails ==
  /\ asked = "sent"
  /\ asked' = "none"
  /\ UNCHANGED <<hubVars, link, conn, taken, wire, answer, skipped, filled, feed, early>>

(* onerror: closed, and tried again later. An answer of the history that comes *)
(* after it is dropped, its source is no longer the current one.               *)
OnError ==
  /\ link = "open"
  /\ link' = "down" /\ wire' = <<>> /\ asked' = "none" /\ answer' = <<>>
  /\ UNCHANGED <<hubVars, conn, taken, skipped, filled, feed, early>>

PauseFeed ==
  /\ ~feed.paused
  /\ feed' = [feed EXCEPT !.paused = TRUE]
  /\ UNCHANGED <<hubVars, linkVars>>

ResumeFeed ==
  /\ feed.paused
  /\ feed' = Resumed(feed)
  /\ UNCHANGED <<hubVars, linkVars>>

FeedNext ==
  \/ Publish \/ RecordEvent \/ RecordFails
  \/ Open \/ Forward \/ OnMessage \/ ReadHistory \/ OnHistory \/ HistoryFails \/ OnError
  \/ PauseFeed \/ ResumeFeed

FeedSpec == FeedInit /\ [][FeedNext]_feedVars

-----------------------------------------------------------------------------
(* Properties *)

Events == [id : 1..MaxEvents, from : 0..MaxConns]

FeedTypeOK ==
  /\ published \in 0..MaxEvents /\ unsaved \in 1..MaxEvents \union {None}
  /\ stored \in Seq(1..MaxEvents) /\ Len(stored) <= HistorySize
  /\ lost \in 0..MaxLost
  /\ link \in {"down", "open"} /\ conn \in 0..MaxConns /\ taken \in 0..MaxEvents
  /\ wire \in Seq(1..MaxEvents)
  /\ asked \in {"none", "sent", "answered"} /\ answer \in Seq(1..MaxEvents)
  /\ feed \in [events : Seq(Events), queued : Seq(Events), paused : BOOLEAN]
  /\ Len(feed.events) <= MaxShown /\ Len(feed.queued) <= MaxShown
  /\ skipped \in BOOLEAN /\ filled \in BOOLEAN /\ early \in 1..MaxEvents \union {None}

Shown == Ids(feed.events) \union Ids(feed.queued)
Full == Len(feed.events) = MaxShown \/ Len(feed.queued) = MaxShown

(* "it also backfills whatever was missed while down": a page that has its      *)
(* connection's history and everything that was streamed since, and did not     *)
(* lag, shows every event that is recorded, unless it shows as many as it may.  *)
(* Two cases are left out, because the code loses the event there: a history    *)
(* that was answered empty because Redis was out of reach, and an event that is *)
(* broadcast before the page subscribes and recorded after its history is read. *)
Backfilled ==
  link = "open" /\ filled /\ ~skipped /\ taken = published /\ wire = <<>> =>
    Full \/ \A i \in DOMAIN stored : stored[i] \in Shown \union {early}

(* Nothing the page has shown or queued is lost by a pause, a resume, another *)
(* connection or its history, but the oldest when the cap is reached.         *)
NothingVanishes == [][Shown \subseteq Shown' \/ Full']_feedVars
=============================================================================
