----------------------------- MODULE SlotStream -----------------------------
(***************************************************************************)
(* The player streams from a watch to its pages: the handler's loop        *)
(* (src/src/routers/misc.rs, server_players_stream), the events under way   *)
(* to a page, and the page's copy of the list with its armed auto join      *)
(* (src/front-ze/components/servers/useAutoJoin.ts).                        *)
(*                                                                         *)
(* The watch is ServerWatch. Between two watches of the same server nobody  *)
(* is subscribed: that is the theorem StreamsAreServed of SlotHub.          *)
(***************************************************************************)
EXTENDS ServerWatch

CONSTANTS
  Pages,    \* pages with the stream open, all armed
  Target,   \* the player count they picked, or None
  Self,     \* the name they play under, or None
  MaxWire,  \* bound: events under way to a page
  MaxEpoch  \* bound: watches of the server, one after another

ASSUME StreamAssumption == MaxWire \in Nat /\ MaxEpoch \in Nat

Rules == INSTANCE AutoJoinRules

VARIABLES
  epoch,   \* how many watches of the server came before this one
  link,    \* a page's stream: off, connecting, up, cut (the handler ended, the
           \* page has yet to notice), or in its error backoff
  watched, \* the epoch that a page's stream was opened in
  cursor,  \* events of the log that the page's receiver has taken
  wire,    \* events sent to the page and not yet handled by it
  seq,     \* the page's seq, None before its first snapshot
  era,     \* history: the epoch of that seq
  live,    \* the page's copy: players, meta, waiting
  status   \* the page's auto join

streamVars == <<epoch, link, watched, cursor, wire, seq, era, live, status>>
vars == <<watchVars, streamVars>>

EmptyLive == [players |-> <<>>, meta |-> None, waiting |-> EmptyWaiting]

Init ==
  /\ WatchInit
  /\ epoch = 0
  /\ link = [c \in Pages |-> "connecting"]
  /\ watched = [c \in Pages |-> 0]
  /\ cursor = [c \in Pages |-> 0]
  /\ wire = [c \in Pages |-> <<>>]
  /\ seq = [c \in Pages |-> None]
  /\ era = [c \in Pages |-> 0]
  /\ live = [c \in Pages |-> EmptyLive]
  /\ status = [c \in Pages |-> "armed"]

-----------------------------------------------------------------------------
(* The watch moves on, or is replaced. *)

WatchStep ==
  /\ WatchNext
  /\ UNCHANGED streamVars

(* The last stream went, the poller stopped, and the next stream starts over. *)
NewWatch ==
  /\ epoch < MaxEpoch
  /\ \A c \in Pages : link[c] # "up"
  /\ epoch' = epoch + 1
  /\ players' = <<>> /\ meta' = NoMeta /\ ready' = FALSE /\ waiting' = EmptyWaiting
  /\ channel' = [seq |-> 0, log |-> <<>>, views |-> <<>>]
  /\ failures' = 0 /\ lastInfo' = None
  /\ UNCHANGED <<link, watched, cursor, wire, seq, era, live, status>>

-----------------------------------------------------------------------------
(* The handler's loop for one page. *)

(* Mutant of SnapshotIfReady: it bears the number of the event before. *)
SnapshotOneBehind == IF ready THEN <<SnapshotOf(players, meta, channel.seq - 1)>> ELSE <<>>

SnapshotIfReady == IF ready THEN <<SnapshotOf(players, meta, channel.seq)>> ELSE <<>>

(* A receiver and the snapshot it starts after, under one lock. *)
Subscribe(c) ==
  /\ link[c] = "connecting"
  /\ link' = [link EXCEPT ![c] = "up"]
  /\ watched' = [watched EXCEPT ![c] = epoch]
  /\ cursor' = [cursor EXCEPT ![c] = Len(channel.log)]
  /\ wire' = [wire EXCEPT ![c] = SnapshotIfReady]
  /\ UNCHANGED <<watchVars, epoch, seq, era, live, status>>

Writable(c) == link[c] = "up" /\ Len(wire[c]) < MaxWire

(* The ring has dropped an event this receiver had not taken. *)
Lagged(c) == Len(channel.log) - cursor[c] > Buffer

Yield(c, e) == wire' = [wire EXCEPT ![c] = Append(@, e)]

Forward(c) ==
  /\ Writable(c)
  /\ cursor[c] < Len(channel.log)
  /\ ~Lagged(c)
  /\ Yield(c, channel.log[cursor[c] + 1])
  /\ cursor' = [cursor EXCEPT ![c] = @ + 1]
  /\ UNCHANGED <<watchVars, epoch, link, watched, seq, era, live, status>>

(* Mutant of Resync: the missed events are skipped, as the live-event stream does. *)
SkipMissed(c) ==
  /\ Writable(c)
  /\ Lagged(c)
  /\ cursor' = [cursor EXCEPT ![c] = Len(channel.log) - Buffer]
  /\ UNCHANGED <<wire, watchVars, epoch, link, watched, seq, era, live, status>>

(* Mutant of Resync: a fresh receiver, and no snapshot. *)
ResyncSilently(c) ==
  /\ Writable(c)
  /\ Lagged(c)
  /\ cursor' = [cursor EXCEPT ![c] = Len(channel.log)]
  /\ UNCHANGED <<wire, watchVars, epoch, link, watched, seq, era, live, status>>

(* RecvError::Lagged: a fresh receiver and snapshot replace the old receiver. *)
Resync(c) ==
  /\ Writable(c)
  /\ Lagged(c)
  /\ cursor' = [cursor EXCEPT ![c] = Len(channel.log)]
  /\ wire' = [wire EXCEPT ![c] = @ \o SnapshotIfReady]
  /\ UNCHANGED <<watchVars, epoch, link, watched, seq, era, live, status>>

(* Every ten seconds, in between queued events. Bound: one under way at most. *)
Heartbeat(c) ==
  /\ Writable(c)
  /\ \A i \in DOMAIN wire[c] : wire[c][i].kind # "heartbeat"
  /\ Yield(c, Bare("heartbeat", channel.seq))
  /\ UNCHANGED <<watchVars, epoch, link, watched, cursor, seq, era, live, status>>

(* SLOT_STREAM_LIFETIME is over: the loop ends after one last event. *)
Rotate(c) ==
  /\ Writable(c)
  /\ Yield(c, Bare("rotate", channel.seq))
  /\ link' = [link EXCEPT ![c] = "cut"]
  /\ UNCHANGED <<watchVars, epoch, watched, cursor, seq, era, live, status>>

(* The server drops the stream without a word to the page. *)
Drop(c) ==
  /\ link[c] = "up"
  /\ link' = [link EXCEPT ![c] = "cut"]
  /\ UNCHANGED <<watchVars, epoch, watched, cursor, wire, seq, era, live, status>>

-----------------------------------------------------------------------------
(* The page. *)

(* The stream is closed: its receiver, and what was under way, are gone. *)
HangUp(c, next) ==
  /\ link' = [link EXCEPT ![c] = next]
  /\ wire' = [wire EXCEPT ![c] = <<>>]
  /\ cursor' = [cursor EXCEPT ![c] = 0]

(* publish, then check: the copy is shown and the auto join looks at it. *)
Publish(c, l) ==
  /\ live' = [live EXCEPT ![c] = l]
  /\ status' = [status EXCEPT ![c] =
                  Rules!Check(@, FALSE, Target, l.players, l.meta).status]

Handled(c) == wire' = [wire EXCEPT ![c] = Tail(@)]

Head_(c) == Head(wire[c])

Receives(c, kinds) == link[c] \in {"up", "cut"} /\ wire[c] # <<>> /\ Head_(c).kind \in kinds

OnHeartbeat(c) ==
  /\ Receives(c, {"heartbeat"})
  /\ Handled(c)
  /\ UNCHANGED <<watchVars, epoch, link, watched, cursor, seq, era, live, status>>

(* close() and connect() at once, without the backoff. *)
OnRotate(c) ==
  /\ Receives(c, {"rotate"})
  /\ HangUp(c, "connecting")
  /\ UNCHANGED <<watchVars, epoch, watched, seq, era, live, status>>

OnWaiting(c) ==
  /\ Receives(c, {"waiting"})
  /\ Handled(c)
  /\ IF live[c].meta = None
       THEN /\ live' = [live EXCEPT ![c].waiting = Head_(c).waiting]
            /\ UNCHANGED status
       ELSE Publish(c, [live[c] EXCEPT !.waiting = Head_(c).waiting])
  /\ UNCHANGED <<watchVars, epoch, link, watched, cursor, seq, era>>

(* Mutant of OnSnapshot: a snapshot that is not newer than the list is ignored. *)
OnSnapshotIfNewer(c) ==
  /\ Receives(c, {"snapshot"})
  /\ Handled(c)
  /\ IF seq[c] = None \/ Head_(c).seq > seq[c]
       THEN /\ Publish(c, [players |-> Head_(c).players, meta |-> Head_(c).meta, waiting |-> Head_(c).waiting])
            /\ seq' = [seq EXCEPT ![c] = Head_(c).seq]
       ELSE UNCHANGED <<live, status, seq>>
  /\ era' = [era EXCEPT ![c] = watched[c]]
  /\ UNCHANGED <<watchVars, epoch, link, watched, cursor>>

OnSnapshot(c) ==
  /\ Receives(c, {"snapshot"})
  /\ Handled(c)
  /\ Publish(c, [players |-> Head_(c).players, meta |-> Head_(c).meta, waiting |-> Head_(c).waiting])
  /\ seq' = [seq EXCEPT ![c] = Head_(c).seq]
  /\ era' = [era EXCEPT ![c] = watched[c]]
  /\ UNCHANGED <<watchVars, epoch, link, watched, cursor>>

(* A poll carries the number of the last event, any other event the next. *)
InOrder(c, e) == seq[c] # None /\ e.seq = (IF e.kind = "poll" THEN seq[c] ELSE seq[c] + 1)

Changed(l, e) ==
  CASE e.kind = "join"  -> [l EXCEPT !.players = Append(@, e.player)]
    [] e.kind = "leave" -> [l EXCEPT !.players = Removed(@, e.player)]
    [] e.kind = "meta"  -> [l EXCEPT !.meta = e.meta]
    [] e.kind = "poll"  -> l

(* A step of the list, or a gap: then reconnect for a snapshot. *)
OnStep(c) ==
  /\ Receives(c, {"join", "leave", "meta", "poll"})
  /\ IF InOrder(c, Head_(c))
       THEN /\ Handled(c)
            /\ seq' = [seq EXCEPT ![c] = Head_(c).seq]
            /\ Publish(c, Changed(live[c], Head_(c)))
            /\ UNCHANGED <<link, cursor>>
       ELSE /\ HangUp(c, "backoff")
            /\ UNCHANGED <<seq, live, status>>
  /\ UNCHANGED <<watchVars, epoch, watched, era>>

(* onerror: the connection broke, and what was under way is lost. *)
Fail(c) ==
  /\ link[c] \in {"connecting", "up", "cut"}
  /\ HangUp(c, "backoff")
  /\ UNCHANGED <<watchVars, epoch, watched, seq, era, live, status>>

BackoffOver(c) ==
  /\ link[c] = "backoff"
  /\ link' = [link EXCEPT ![c] = "connecting"]
  /\ UNCHANGED <<watchVars, epoch, watched, cursor, wire, seq, era, live, status>>

(* The effect's cleanup, once the page is no longer armed. *)
Leave(c) ==
  /\ status[c] # "armed"
  /\ link[c] # "off"
  /\ HangUp(c, "off")
  /\ live' = [live EXCEPT ![c] = EmptyLive]
  /\ seq' = [seq EXCEPT ![c] = None]
  /\ UNCHANGED <<watchVars, epoch, watched, era, status>>

-----------------------------------------------------------------------------
HandlerStep(c) == Subscribe(c) \/ Forward(c) \/ Resync(c)
PageStep(c) == OnHeartbeat(c) \/ OnRotate(c) \/ OnWaiting(c) \/ OnSnapshot(c) \/ OnStep(c)

Next ==
  \/ WatchStep
  \/ NewWatch
  \/ \E c \in Pages : HandlerStep(c) \/ Heartbeat(c) \/ Rotate(c) \/ Drop(c)
  \/ \E c \in Pages : PageStep(c) \/ Fail(c) \/ BackoffOver(c) \/ Leave(c)

Spec == Init /\ [][Next]_vars

(* The runtime polls a handler that can write, the browser runs its handlers *)
(* and its timer; the poller, the network and the lifetime owe nothing.      *)
Fairness == \A c \in Pages : WF_vars(HandlerStep(c)) /\ WF_vars(PageStep(c)) /\ WF_vars(BackoffOver(c))

-----------------------------------------------------------------------------
Synced(c) == seq[c] # None /\ era[c] = epoch

TypeOK ==
  /\ epoch \in 0..MaxEpoch
  /\ link \in [Pages -> {"off", "connecting", "up", "cut", "backoff"}]
  /\ watched \in [Pages -> 0..epoch]
  /\ \A c \in Pages :
       /\ cursor[c] \in Nat
       /\ link[c] = "up" => cursor[c] <= Len(channel.log)
       /\ Len(wire[c]) <= MaxWire + 1
       /\ seq[c] \in Nat \union {None}
       /\ live[c].waiting \in WaitingLists
       /\ status[c] \in {"armed", "fired", "already-in"}

(* A page that has handled event n of the feed shows exactly the list the    *)
(* feed had after n: through reconnects, lagging, rotation and snapshots. One *)
(* with nothing more to receive shows what the server knows now, the waiting *)
(* list included.                                                            *)
PageMirrorsFeed ==
  /\ TypeOK
  /\ \A c \in Pages :
       /\ Synced(c) /\ link[c] # "off" => ListView(live[c].players, live[c].meta) = channel.views[seq[c]]
       /\ (/\ link[c] = "up" /\ ready /\ cursor[c] = Len(channel.log)
           /\ \A i \in DOMAIN wire[c] : wire[c][i].kind = "heartbeat")
          => /\ ListView(live[c].players, live[c].meta) = ListView(players, meta)
             /\ live[c].waiting = waiting

(* The server resends a snapshot to whoever fell behind, so the page's own   *)
(* gap check never has anything to find: no stream shows a hole.             *)
NoGapReachesThePage ==
  \A c \in Pages : Receives(c, {"join", "leave", "meta", "poll"}) => InOrder(c, Head_(c))

(* On one watch a page never goes back to an older list. *)
NeverBackwards ==
  [][\A c \in Pages : Synced(c) /\ Synced(c)' /\ epoch' = epoch => seq'[c] >= seq[c]]_vars

Size(view) == LET count[n \in SUBSET Names] ==
                    IF n = {} THEN 0
                    ELSE LET x == CHOOSE x \in n : TRUE IN view.names[x] + count[n \ {x}]
              IN  count[Names]

Count(view) ==
  IF Size(view) = 0 /\ view.meta.players > 0 THEN view.meta.players ELSE Size(view)

(* The counts the server reported on this watch: those of the lists that a   *)
(* poll or an online snapshot confirms, the server's own count if it hides.  *)
ReportedCounts ==
  {Count(channel.views[channel.log[i].seq]) :
     i \in {j \in DOMAIN channel.log :
             \/ channel.log[j].kind = "poll"
             \/ channel.log[j].kind = "snapshot" /\ channel.log[j].meta.online}}

(* "Launches Steam once, when the player count drops to the chosen target";  *)
(* and clients fall back to the server's own count when it hides its list    *)
(* (SlotMeta). So a launch means that some poll reported such a count.       *)
FiresOnReportedCount ==
  \A c \in Pages : status[c] = "fired" /\ era[c] = epoch =>
    \E n \in ReportedCounts, i \in Infos : n <= Rules!EffectiveTarget(Target, i.max_players)

(* A page whose stream stays up ends up with the latest list, however far it *)
(* fell behind and although the stream opened before the first poll.         *)
EventuallyCurrent ==
  \A c \in Pages : (link[c] = "up" /\ ready) ~> (link[c] # "up" \/ (Synced(c) /\ seq[c] = channel.seq))

FairSpec == Spec /\ Fairness
============================================================================
