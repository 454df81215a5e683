------------------------------ MODULE Timeline ------------------------------
(***************************************************************************)
(* The radar's time line (useTimeline, src/front-ze/components/radars/      *)
(* TemporalController.tsx): a cursor in a window of time, moved by hand, by *)
(* playback or by live mode. The callbacks of both timers are those of the *)
(* render in which the timer was set, and keep the values of that render.  *)
(* Time is counted in the shortest interval; a month has one length.       *)
(***************************************************************************)
EXTENDS Integers

CONSTANTS
  Ranges,      \* the selectable ranges that have a span
  SpanOf,      \* how far back each of them reaches
  StepOf,      \* the length of each interval
  Offered,     \* RANGE_INTERVALS: the intervals each range offers, "all" included
  Opened,      \* initialEndDate: the time the page is opened, the data starting at 0
  FirstRange,  \* '1month'
  Shortest,    \* '10min'
  MaxTime      \* bound on the time

(* Each range offers intervals, and one of them is its shortest. *)
TimelineAssumption ==
  /\ SpanOf \in [Ranges -> Nat] /\ Opened \in Nat /\ MaxTime \in Nat
  /\ FirstRange \in Ranges /\ Shortest \in DOMAIN StepOf
  /\ \A i \in DOMAIN StepOf : StepOf[i] \in Nat \ {0}
  /\ \A r \in Ranges \union {"all"} :
       /\ Offered[r] \subseteq DOMAIN StepOf
       /\ \E i \in Offered[r] : \A j \in Offered[r] : StepOf[i] <= StepOf[j]

VARIABLES
  now,      \* the clock
  window,   \* startDate and endDate
  cursor,   \* currentTime
  range, interval, isLive, playing,
  liveFrom, \* the window in the closure of the live timer
  playFrom  \* the interval and the window's end in that of the playback timer

timelineVars == <<now, window, cursor, range, interval, isLive, playing, liveFrom, playFrom>>

Intervals == DOMAIN StepOf
Window(s, e) == [start |-> s, end |-> e]
Length(w) == w.end - w.start
Earlier(s, t) == IF s < t THEN s ELSE t
Later(s, t) == IF s > t THEN s ELSE t

(* The window of a range that is selected now. *)
WindowOf(r) == Window(IF r = "all" THEN 0 ELSE now - SpanOf[r], now)

(* Mounted: the live effect went first, then updateDateRange. *)
TimelineInit ==
  /\ now = Opened
  /\ range = FirstRange /\ interval = Shortest
  /\ window = WindowOf(range) /\ cursor = now
  /\ isLive = TRUE /\ playing = FALSE
  /\ liveFrom = Window(0, Opened)
  /\ playFrom = [interval |-> Shortest, end |-> Opened]

Elapse ==
  /\ now < MaxTime /\ now' = now + 1
  /\ UNCHANGED <<window, cursor, range, interval, isLive, playing, liveFrom, playFrom>>

(* updateToLive, with the window of an earlier render. *)
ToLive(seen) ==
  /\ window' = IF now > seen.end THEN Window(now - Length(seen), now) ELSE window
  /\ cursor' = now

LiveTick ==
  /\ isLive /\ ToLive(liveFrom)
  /\ UNCHANGED <<now, range, interval, isLive, playing, liveFrom, playFrom>>

(* The effect of isLive runs updateToLive at once, and every minute. *)
toggleLiveMode ==
  /\ isLive' = ~isLive
  /\ IF isLive' THEN /\ interval' = Shortest /\ playing' = FALSE
                     /\ liveFrom' = window /\ ToLive(window)
                ELSE UNCHANGED <<interval, playing, liveFrom, window, cursor>>
  /\ UNCHANGED <<now, range, playFrom>>

(* updateDateRange, and the first interval of the range where the other is not offered. *)
handleRangeChange(r) ==
  /\ range' = r /\ window' = WindowOf(r)
  /\ cursor' = Later(cursor, window'.start)
  /\ interval' = IF interval \in Offered[r] THEN interval
                 ELSE CHOOSE i \in Offered[r] : \A j \in Offered[r] : StepOf[i] <= StepOf[j]
  /\ UNCHANGED <<now, isLive, playing, liveFrom, playFrom>>

(* The select is disabled in live mode. *)
handleIntervalChange(i) ==
  /\ ~isLive /\ i \in Offered[range]
  /\ interval' = i
  /\ UNCHANGED <<now, window, cursor, range, isLive, playing, liveFrom, playFrom>>

(* The value of the slider, up to its maximum of 100, is rounded to a step. *)
Stops == 0..((2 * Length(window) + StepOf[interval]) \div (2 * StepOf[interval]))

handleSliderChange(n) ==
  /\ cursor' = window.start + n * StepOf[interval]
  /\ isLive' = FALSE
  /\ UNCHANGED <<now, window, range, interval, playing, liveFrom, playFrom>>

(* The effect of isPlaying leaves live mode and sets the playback timer. *)
Play ==
  /\ ~playing
  /\ playing' = TRUE /\ isLive' = FALSE
  /\ playFrom' = [interval |-> interval, end |-> window.end]
  /\ UNCHANGED <<now, window, cursor, range, interval, liveFrom>>

Pause ==
  /\ playing /\ playing' = FALSE
  /\ UNCHANGED <<now, window, cursor, range, interval, isLive, liveFrom, playFrom>>

(* Mutant of animate: it stops one step too late. *)
animatePast ==
  /\ playing
  /\ IF cursor > playFrom.end
       THEN playing' = FALSE /\ UNCHANGED cursor
       ELSE cursor' = cursor + StepOf[playFrom.interval] /\ UNCHANGED playing
  /\ UNCHANGED <<now, window, range, interval, isLive, liveFrom, playFrom>>

animate ==
  /\ playing
  /\ LET next == cursor + StepOf[playFrom.interval] IN
       IF next > playFrom.end
         THEN playing' = FALSE /\ UNCHANGED cursor
         ELSE cursor' = next /\ UNCHANGED playing
  /\ UNCHANGED <<now, window, range, interval, isLive, liveFrom, playFrom>>

(* The buttons are disabled while playing, and at their end of the window. *)
stepTo(time) ==
  /\ ~playing
  /\ cursor' = time /\ isLive' = FALSE
  /\ UNCHANGED <<now, window, range, interval, playing, liveFrom, playFrom>>

stepBackward == cursor # window.start /\ stepTo(Later(window.start, cursor - StepOf[interval]))
stepForward == cursor # window.end /\ stepTo(Earlier(window.end, cursor + StepOf[interval]))

TimelineNext ==
  \/ Elapse \/ LiveTick \/ toggleLiveMode
  \/ \E r \in Ranges \union {"all"} : handleRangeChange(r)
  \/ \E i \in Intervals : handleIntervalChange(i)
  \/ \E n \in Stops : handleSliderChange(n)
  \/ Play \/ Pause \/ animate \/ stepBackward \/ stepForward

TimelineSpec == TimelineInit /\ [][TimelineNext]_timelineVars

-----------------------------------------------------------------------------
(* Properties *)

TimelineTypeOK ==
  /\ now \in Int /\ cursor \in Int
  /\ window \in [start : Int, end : Int] /\ liveFrom \in [start : Int, end : Int]
  /\ range \in Ranges \union {"all"} /\ interval \in Intervals
  /\ isLive \in BOOLEAN /\ playing \in BOOLEAN
  /\ playFrom \in [interval : Intervals, end : Int]

(* Playback stops before it leaves the window that is shown, although it      *)
(* compares with the end of the one that was shown when it began.             *)
PlaybackStaysInside == [][animate => cursor' <= cursor \/ cursor' <= window.end]_timelineVars
=============================================================================
