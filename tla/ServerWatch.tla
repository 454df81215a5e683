---------------------------- MODULE ServerWatch ----------------------------
(***************************************************************************)
(* One game server's watch (src/src/core/slot_watch.rs): the list its      *)
(* poller keeps, and the numbered events it broadcasts so that pages can   *)
(* keep the same list.  A step is one tick of poll_loop, whose answer is   *)
(* applied under the watch's lock, or one change of the waiting list.      *)
(***************************************************************************)
EXTENDS PlayerDiff, Absent

CONSTANTS
  Rosters,       \* player lists a game server may answer with
  Infos,         \* A2S_INFO answers: [max_players, players, map]
  WaitingLists,  \* what waiting_of may be; the first value is EmptyWaiting
  EmptyWaiting,
  Buffer,        \* EVENT_BUFFER
  OfflineAfter,  \* OFFLINE_AFTER
  MaxLog         \* bound: no poll once this many events were sent

InfoTypes == [max_players : Nat, players : Nat, map : {i.map : i \in Infos}]
Metas == [max_players : Nat, players : Nat, online : BOOLEAN, map : {i.map : i \in Infos} \union {None}]

WatchAssumption ==
  /\ Rosters \subseteq Seq(Players)
  /\ \A i \in Infos : i \in InfoTypes
  /\ Buffer \in Nat \ {0} /\ OfflineAfter \in Nat \ {0} /\ MaxLog \in Nat
  /\ EmptyWaiting \in WaitingLists
  /\ None \notin Nat \union Rosters \union Infos \union Metas

VARIABLES
  players,   \* WatchState.players
  meta,      \* WatchState.meta
  ready,     \* WatchState.ready: a first poll has finished
  waiting,   \* waiting_of the watch's waiters
  channel,   \* seq; log, every event sent (only the last Buffer can be received);
             \* views, what the list should read after each numbered event (history)
  failures,  \* consecutive failed polls, counted up to OfflineAfter
  lastInfo   \* the poller's last A2S_INFO, or None

watchVars == <<players, meta, ready, waiting, channel, failures, lastInfo>>

NoMeta == [max_players |-> 0, players |-> 0, online |-> FALSE, map |-> None]

WatchInit ==
  /\ players = <<>>
  /\ meta = NoMeta
  /\ ready = FALSE
  /\ waiting = EmptyWaiting
  /\ channel = [seq |-> 0, log |-> <<>>, views |-> <<>>]
  /\ failures = 0
  /\ lastInfo = None

(* What a page should show: who is on, by name, and the slot counts. *)
ListView(list, m) == [names |-> NameCount(list), meta |-> m]

-----------------------------------------------------------------------------
(* Events *)

Bare(kind, seq) ==
  [kind |-> kind, seq |-> seq, meta |-> None, players |-> None, player |-> None, waiting |-> None]

SnapshotOf(list, m, seq) ==
  [Bare("snapshot", seq) EXCEPT !.meta = m, !.players = list, !.waiting = waiting]

(* A send without a new number. *)
SendAsIs(c, e) == [c EXCEPT !.log = Append(@, e)]

(* An event to be numbered, with what the list should read after it. *)
Change(e, view) == [event |-> e, view |-> view]

(* Mutant of Broadcast: an event carries the number before the bump. *)
BroadcastLate(c, changes) ==
  [seq   |-> c.seq + Len(changes),
   log   |-> c.log \o [i \in 1..Len(changes) |-> [changes[i].event EXCEPT !.seq = c.seq + i - 1]],
   views |-> c.views \o [i \in 1..Len(changes) |-> changes[i].view]]

(* broadcast, for one event after another: seq += 1, then the event with the *)
(* new number.                                                               *)
Broadcast(c, changes) ==
  [seq   |-> c.seq + Len(changes),
   log   |-> c.log \o [i \in 1..Len(changes) |-> [changes[i].event EXCEPT !.seq = c.seq + i]],
   views |-> c.views \o [i \in 1..Len(changes) |-> changes[i].view]]

(* The list with some players gone and others added. *)
Having(gone, come, m) ==
  [names |-> [n \in Names |-> NameCount(players)[n] - NameCount(gone)[n] + NameCount(come)[n]],
   meta  |-> m]

PlayerEvent(kind, p) == [Bare(kind, 0) EXCEPT !.player = p]

Leaves(gone) ==
  [i \in 1..Len(gone) |-> Change(PlayerEvent("leave", gone[i]), Having(SubSeq(gone, 1, i), <<>>, meta))]

Joins(gone, come) ==
  [i \in 1..Len(come) |-> Change(PlayerEvent("join", come[i]), Having(gone, SubSeq(come, 1, i), meta))]

MetaChange(gone, come, m) ==
  IF m = meta THEN <<>> ELSE <<Change([Bare("meta", 0) EXCEPT !.meta = m], Having(gone, come, m))>>

-----------------------------------------------------------------------------
(* apply and mark_offline *)

Resnapshot(list, m) ==
  /\ players' = list
  /\ meta' = m
  /\ ready' = TRUE
  /\ channel' = Broadcast(channel, <<Change(SnapshotOf(list, m, 0), ListView(list, m))>>)

WithPoll(c) == SendAsIs(c, Bare("poll", c.seq))

(* One event per player, leaves first, then the meta if it changed, then a poll. *)
Stepwise(d, m, list) ==
  /\ players' = list
  /\ meta' = m
  /\ ready' = ready
  /\ channel' = LET left == Broadcast(channel, Leaves(d.left))
                    come == Broadcast(left, Joins(d.left, d.joined))
                IN  WithPoll(Broadcast(come, MetaChange(d.left, d.joined, m)))

Burst(d) == Len(d.left) + Len(d.joined) > Buffer \div 2

ApplyDiff(d, m, list) ==
  IF ~ready \/ ~meta.online \/ d.drifted \/ Burst(d)
    THEN Resnapshot(list, m)
    ELSE Stepwise(d, m, d.kept \o d.joined)

ApplyPoll(m, list) == ApplyDiff(Diff(players, list), m, list)

MarkOffline ==
  IF ready /\ ~meta.online
    THEN UNCHANGED <<players, meta, ready, channel>>
    ELSE Resnapshot(<<>>, [meta EXCEPT !.online = FALSE, !.players = 0])

-----------------------------------------------------------------------------
(* The poller *)

(* probe asks for A2S_INFO when it has none, when it is stale, when the list *)
(* failed, and when an empty list contradicts the last known count.          *)
NeedsInfo(list, fresh) ==
  \/ lastInfo = None
  \/ ~fresh
  \/ list = None
  \/ list = <<>> /\ lastInfo.players > 0

MetaOf(info) ==
  [max_players |-> info.max_players, players |-> info.players, online |-> TRUE, map |-> info.map]

(* A poll that learned something: a list that failed counts as hidden. *)
PollAnswered(list, info, fresh) ==
  LET current == IF NeedsInfo(list, fresh) THEN info ELSE lastInfo
  IN  /\ current # None
      /\ ApplyPoll(MetaOf(current), IF list = None THEN <<>> ELSE list)
      /\ failures' = 0
      /\ lastInfo' = current
      /\ UNCHANGED waiting

(* A poll that failed: unresolved address, or an A2S_INFO it needed. *)
PollFailed ==
  IF failures + 1 >= OfflineAfter
    THEN /\ failures' = OfflineAfter
         /\ lastInfo' = None
         /\ MarkOffline
         /\ UNCHANGED waiting
    ELSE /\ failures' = failures + 1
         /\ UNCHANGED <<players, meta, ready, channel, lastInfo, waiting>>

(* send_waiting_if_changed, after a waiter was added or released. *)
ChangeWaiting(w) ==
  /\ w # waiting
  /\ waiting' = w
  /\ channel' = SendAsIs(channel, [Bare("waiting", channel.seq) EXCEPT !.waiting = w])
  /\ UNCHANGED <<players, meta, ready, failures, lastInfo>>

WatchNext ==
  /\ Len(channel.log) < MaxLog
  /\ \/ \E list \in Rosters \union {None}, info \in Infos \union {None}, fresh \in BOOLEAN :
          PollAnswered(list, info, fresh)
     \/ PollFailed
     \/ \E w \in WaitingLists : ChangeWaiting(w)

WatchSpec == WatchInit /\ [][WatchNext]_watchVars

-----------------------------------------------------------------------------
NumberedKinds == {"snapshot", "join", "leave", "meta"}

WatchTypeOK ==
  /\ players \in Seq(Players)
  /\ meta \in Metas
  /\ ready \in BOOLEAN
  /\ waiting \in WaitingLists
  /\ channel.seq \in Nat
  /\ failures \in 0..OfflineAfter
  /\ lastInfo \in Infos \union {None}

(* seq counts the numbered events exactly: the feed's number is the number   *)
(* of joins, leaves, metas and snapshots sent, each event bears the number   *)
(* of the last of them up to it, and the list a snapshot would show now is   *)
(* the one those events lead to. A page that applies them in order, from any *)
(* snapshot, ends up with the server's list.                                 *)
FeedTellsTheList ==
  /\ Len(channel.views) = channel.seq
  /\ ready => channel.seq > 0 /\ ListView(players, meta) = channel.views[channel.seq]
  /\ \A i \in DOMAIN channel.log :
       channel.log[i].seq = Cardinality({j \in 1..i : channel.log[j].kind \in NumberedKinds})

(* While one poll's leaves and joins go out, a player who is on both lists,  *)
(* and on both alone with the name, is on every list in between: nobody is   *)
(* counted out who is still there. (Of players who share a name, both may be *)
(* counted out for a moment, when one of them goes and another one comes.)   *)
StayersStayCounted ==
  [][\A i \in DOMAIN channel'.views : i > channel.seq /\ meta.online /\ meta'.online =>
       \A n \in Names :
         /\ Cardinality(Carriers(players, n)) = 1 /\ Cardinality(Carriers(players', n)) = 1
         /\ \E p \in DOMAIN players, q \in DOMAIN players' :
              players[p] = players'[q] /\ players[p].name = n
         => channel'.views[i].names[n] > 0]_watchVars
============================================================================
