------------------------------ MODULE SlotHub ------------------------------
(***************************************************************************)
(* The hub of the auto-join player streams (src/src/core/slot_watch.rs and *)
(* the stream handler in src/src/routers/misc.rs): which game servers have *)
(* a watch, the poller task that serves each watch, the streams subscribed *)
(* to it, the waiting-list entries the streams hold, and the connection    *)
(* ids under which a page can end its own stream.                          *)
(*                                                                         *)
(* One step is one section the code runs under one lock, or one decision   *)
(* of a task between two awaits.  What a poll learns is the business of    *)
(* ServerWatch, what a stream sends that of SlotStream.                    *)
(***************************************************************************)
EXTENDS Integers, FiniteSets, Absent

CONSTANTS
  Servers,     \* game servers
  Watches,     \* ServerWatch allocations; each is used at most once
  Streams,     \* requests to the player stream; each is used at most once
  Tabs,        \* tab ids that browsers send
  Conns,       \* connection ids that pages send
  MaxClients   \* MAX_SLOT_CLIENTS, the size of the client semaphore

ASSUME HubAssumption ==
  /\ MaxClients \in Nat \ {0}
  /\ IsFiniteSet(Streams)
  /\ Tabs \cap Streams = {}
  /\ None \notin Servers \cup Watches \cup Streams \cup Tabs \cup Conns

VARIABLES
  phase,     \* how far the handler of a stream has got
  req,       \* what a stream asked for: server, armed or not, tab, connection id
  watchOf,   \* the watch a stream's receiver listens to
  guard,     \* a stream's WaiterGuard: none, held, in its grace period, released
  current,   \* SlotWatchHub.watches: the watch of each server
  home,      \* the server a watch was made for
  poller,    \* the poll_loop task of each watch
  entries,   \* WatchState.waiters: the streams count of each entry, 0 if absent
  open,      \* SlotWatchHub.open_streams
  notified   \* streams whose `closed` Notify holds a permit

hubVars == <<phase, req, watchOf, guard, current, home, poller, entries, open, notified>>

(* A stream with no tab id is listed under a key of its own. *)
EntryKeys == Tabs \cup Streams

StreamRequests == [server : Servers, armed : BOOLEAN, tab : Tabs \cup {None}, conn : Conns \cup {None}]

KeyOf(s) == IF req[s].tab = None THEN s ELSE req[s].tab

(* Streams that hold a permit of the client semaphore. *)
Clients == {s \in Streams : phase[s] \in {"admitted", "subscribed", "listed", "open"}}

(* Streams that hold a receiver of watch w: its receiver_count. *)
Receivers(w) == {s \in Streams : phase[s] \in {"subscribed", "listed", "open"} /\ watchOf[s] = w}

(* Guards of watch w that still count in the entry of key k. *)
Holders(w, k) == {s \in Streams : guard[s] \in {"held", "grace"} /\ watchOf[s] = w /\ KeyOf(s) = k}

Running(w) == poller[w] \in {"awake", "polling"}

HubInit ==
  /\ phase = [s \in Streams |-> "new"]
  /\ req = [s \in Streams |-> None]
  /\ watchOf = [s \in Streams |-> None]
  /\ guard = [s \in Streams |-> "none"]
  /\ current = [v \in Servers |-> None]
  /\ home = [w \in Watches |-> None]
  /\ poller = [w \in Watches |-> "none"]
  /\ entries = [w \in Watches |-> [k \in EntryKeys |-> 0]]
  /\ open = [v \in Servers |-> [c \in Conns |-> None]]
  /\ notified = {}

-----------------------------------------------------------------------------
(* The handler of a stream, step by step. *)

(* try_acquire_owned: a request takes a client permit, or is refused. *)
Admit(s, r) ==
  /\ phase[s] = "new"
  /\ IF Cardinality(Clients) < MaxClients
       THEN phase' = [phase EXCEPT ![s] = "admitted"]
       ELSE phase' = [phase EXCEPT ![s] = "refused"]
  /\ req' = [req EXCEPT ![s] = r]
  /\ UNCHANGED <<watchOf, guard, current, home, poller, entries, open, notified>>

(* SlotWatchHub::subscribe with a watch in the map: one more receiver of it. *)
JoinWatch(s) ==
  /\ phase[s] = "admitted"
  /\ current[req[s].server] # None
  /\ watchOf' = [watchOf EXCEPT ![s] = current[req[s].server]]
  /\ phase' = [phase EXCEPT ![s] = "subscribed"]
  /\ UNCHANGED <<req, guard, current, home, poller, entries, open, notified>>

(* Mutant of StartWatch: the map is tested before, and not under, the lock of the insert. *)
StartWatchUnlocked(s, w) ==
  /\ phase[s] = "admitted"
  /\ poller[w] = "none"
  /\ current' = [current EXCEPT ![req[s].server] = w]
  /\ home' = [home EXCEPT ![w] = req[s].server]
  /\ poller' = [poller EXCEPT ![w] = "awake"]
  /\ watchOf' = [watchOf EXCEPT ![s] = w]
  /\ phase' = [phase EXCEPT ![s] = "subscribed"]
  /\ UNCHANGED <<req, guard, entries, open, notified>>

(* SlotWatchHub::subscribe with none: a fresh watch, its poller spawned. *)
StartWatch(s, w) ==
  /\ phase[s] = "admitted"
  /\ current[req[s].server] = None
  /\ poller[w] = "none"
  /\ current' = [current EXCEPT ![req[s].server] = w]
  /\ home' = [home EXCEPT ![w] = req[s].server]
  /\ poller' = [poller EXCEPT ![w] = "awake"]
  /\ watchOf' = [watchOf EXCEPT ![s] = w]
  /\ phase' = [phase EXCEPT ![s] = "subscribed"]
  /\ UNCHANGED <<req, guard, entries, open, notified>>

(* Mutant of AddWaiter: an entry that exists is not counted again. *)
AddWaiterOnce(s) ==
  /\ phase[s] = "subscribed"
  /\ phase' = [phase EXCEPT ![s] = "listed"]
  /\ IF req[s].armed
       THEN /\ entries' = [entries EXCEPT ![watchOf[s]][KeyOf(s)] = 1]
            /\ guard' = [guard EXCEPT ![s] = "held"]
       ELSE UNCHANGED <<entries, guard>>
  /\ UNCHANGED <<req, watchOf, current, home, poller, open, notified>>

(* ServerWatch::add_waiter, for an armed stream only. *)
AddWaiter(s) ==
  /\ phase[s] = "subscribed"
  /\ phase' = [phase EXCEPT ![s] = "listed"]
  /\ IF req[s].armed
       THEN /\ entries' = [entries EXCEPT ![watchOf[s]][KeyOf(s)] = @ + 1]
            /\ guard' = [guard EXCEPT ![s] = "held"]
       ELSE UNCHANGED <<entries, guard>>
  /\ UNCHANGED <<req, watchOf, current, home, poller, open, notified>>

(* SlotWatchHub::open_stream: a later stream under the same id replaces the entry. *)
OpenStream(s) ==
  /\ phase[s] = "listed"
  /\ phase' = [phase EXCEPT ![s] = "open"]
  /\ open' = IF req[s].conn = None THEN open
             ELSE [open EXCEPT ![req[s].server][req[s].conn] = s]
  /\ UNCHANGED <<req, watchOf, guard, current, home, poller, entries, notified>>

(* Mutant of Unlist: the entry goes whoever's it is (no ptr_eq test). *)
UnlistAny(s) ==
  IF req[s].conn # None THEN [open EXCEPT ![req[s].server][req[s].conn] = None] ELSE open

(* OpenStream::drop: only the stream's own entry goes. *)
Unlist(s) ==
  IF req[s].conn # None /\ open[req[s].server][req[s].conn] = s
    THEN [open EXCEPT ![req[s].server][req[s].conn] = None]
    ELSE open

(* The stream is dropped with all it owns: permit, receiver, open entry, and *)
(* the guard, whose drop starts the grace timer instead of releasing.        *)
End(s) ==
  /\ phase' = [phase EXCEPT ![s] = "ended"]
  /\ open' = Unlist(s)
  /\ guard' = [guard EXCEPT ![s] = IF @ = "held" THEN "grace" ELSE @]
  /\ notified' = notified \ {s}
  /\ UNCHANGED <<req, watchOf, current, home, poller, entries>>

(* The transport noticed that the client went away. The handler itself has no *)
(* await between its permit and its response: only the stream can be dropped. *)
Disconnect(s) == phase[s] = "open" /\ End(s)

(* SLOT_STREAM_LIFETIME is over: a rotate event, then the loop breaks. *)
LifetimeOver(s) == phase[s] = "open" /\ End(s)

(* The loop sees its `closed` Notify. *)
Closed(s) == phase[s] = "open" /\ s \in notified /\ End(s)

(* WAITER_GRACE after the guard dropped: release_waiter. *)
GraceOver(s) ==
  /\ guard[s] = "grace"
  /\ guard' = [guard EXCEPT ![s] = "released"]
  /\ entries' = [entries EXCEPT ![watchOf[s]][KeyOf(s)] = IF @ > 0 THEN @ - 1 ELSE 0]
  /\ UNCHANGED <<phase, req, watchOf, current, home, poller, open, notified>>

(* The close route: notify_one keeps a permit for a stream that is mid-write. *)
Close(v, c) ==
  /\ open[v][c] # None
  /\ notified' = notified \cup {open[v][c]}
  /\ UNCHANGED <<phase, req, watchOf, guard, current, home, poller, entries, open>>

-----------------------------------------------------------------------------
(* The poller of a watch. *)

(* release_if_idle, under the map lock, finds a receiver: poll. *)
KeepPolling(w) ==
  /\ poller[w] = "awake"
  /\ Receivers(w) # {}
  /\ poller' = [poller EXCEPT ![w] = "polling"]
  /\ UNCHANGED <<phase, req, watchOf, guard, current, home, entries, open, notified>>

(* Mutant of StopPolling: the receivers are not counted. *)
StopPollingBlind(w) ==
  /\ poller[w] = "awake"
  /\ poller' = [poller EXCEPT ![w] = "stopped"]
  /\ current' = IF current[home[w]] = w THEN [current EXCEPT ![home[w]] = None] ELSE current
  /\ UNCHANGED <<phase, req, watchOf, guard, home, entries, open, notified>>

(* Mutant of StopPolling: the task returns and the watch stays in the map. *)
StopPollingKeepsWatch(w) ==
  /\ poller[w] = "awake"
  /\ Receivers(w) = {}
  /\ poller' = [poller EXCEPT ![w] = "stopped"]
  /\ UNCHANGED <<phase, req, watchOf, guard, current, home, entries, open, notified>>

(* release_if_idle finds none: the watch leaves the map and the task returns. *)
StopPolling(w) ==
  /\ poller[w] = "awake"
  /\ Receivers(w) = {}
  /\ poller' = [poller EXCEPT ![w] = "stopped"]
  /\ current' = IF current[home[w]] = w THEN [current EXCEPT ![home[w]] = None] ELSE current
  /\ UNCHANGED <<phase, req, watchOf, guard, home, entries, open, notified>>

(* The probe answered or failed, was applied, and the next delay has passed. *)
PollDone(w) ==
  /\ poller[w] = "polling"
  /\ poller' = [poller EXCEPT ![w] = "awake"]
  /\ UNCHANGED <<phase, req, watchOf, guard, current, home, entries, open, notified>>

-----------------------------------------------------------------------------
HubNext ==
  \/ \E s \in Streams, r \in StreamRequests : Admit(s, r)
  \/ \E s \in Streams : JoinWatch(s)
  \/ \E s \in Streams, w \in Watches : StartWatch(s, w)
  \/ \E s \in Streams : AddWaiter(s)
  \/ \E s \in Streams : OpenStream(s)
  \/ \E s \in Streams : Disconnect(s)
  \/ \E s \in Streams : LifetimeOver(s)
  \/ \E s \in Streams : Closed(s)
  \/ \E s \in Streams : GraceOver(s)
  \/ \E v \in Servers, c \in Conns : Close(v, c)
  \/ \E w \in Watches : KeepPolling(w)
  \/ \E w \in Watches : StopPolling(w)
  \/ \E w \in Watches : PollDone(w)

HubSpec == HubInit /\ [][HubNext]_hubVars

(* The runtime polls every task that is ready, and timers fire: a handler     *)
(* finishes setting up, a stream's loop sees its Notify, a poller reaches its *)
(* next tick. The lifetime is left out, and so is the transport: nothing else *)
(* than a close request is counted on to end a stream.                        *)
HubFairness ==
  /\ \A s \in Streams :
       /\ WF_hubVars(JoinWatch(s) \/ \E w \in Watches : StartWatch(s, w))
       /\ WF_hubVars(AddWaiter(s))
       /\ WF_hubVars(OpenStream(s))
       /\ WF_hubVars(Closed(s))
       /\ WF_hubVars(GraceOver(s))
  /\ \A w \in Watches : WF_hubVars(KeepPolling(w) \/ StopPolling(w)) /\ WF_hubVars(PollDone(w))

HubFairSpec == HubSpec /\ HubFairness

-----------------------------------------------------------------------------
HubTypeOK ==
  /\ phase \in [Streams -> {"new", "refused", "admitted", "subscribed", "listed", "open", "ended"}]
  /\ req \in [Streams -> StreamRequests \cup {None}]
  /\ watchOf \in [Streams -> Watches \cup {None}]
  /\ guard \in [Streams -> {"none", "held", "grace", "released"}]
  /\ current \in [Servers -> Watches \cup {None}]
  /\ home \in [Watches -> Servers \cup {None}]
  /\ poller \in [Watches -> {"none", "awake", "polling", "stopped"}]
  /\ entries \in [Watches -> [EntryKeys -> Nat]]
  /\ open \in [Servers -> [Conns -> Streams \cup {None}]]
  /\ notified \subseteq Streams

(* A stream that holds a receiver is never stranded: its watch is the one in *)
(* the map for its server, and the poller of that watch still runs.          *)
Served ==
  \A s \in Streams : phase[s] \in {"subscribed", "listed", "open"} =>
    /\ current[req[s].server] = watchOf[s]
    /\ Running(watchOf[s])

(* A server is polled by one poller at most, and it is the one of the watch *)
(* in the map: the game server never sees two, and no poller outlives its   *)
(* watch's place in the map.                                                *)
OnePoller ==
  /\ \A w \in Watches : Running(w) => current[home[w]] = w
  /\ \A v \in Servers : current[v] # None => Running(current[v]) /\ home[current[v]] = v

(* An entry of the waiting list counts exactly the streams that list it and  *)
(* the grace timers still to fire: saturating_sub never hides a lost count,  *)
(* an entry is not removed while a stream of its tab lives, and none leaks.  *)
EntriesBalance ==
  \A w \in Watches, k \in EntryKeys : entries[w][k] = Cardinality(Holders(w, k))

(* A stream is taken out of open_streams by its own end, or by a later      *)
(* stream that reused its id; the end of an older one never does it.        *)
OnlyOwnEntryGoes ==
  [][\A v \in Servers, c \in Conns :
       open[v][c] \notin {None, open'[v][c]} =>
         \/ phase'[open[v][c]] = "ended"
         \/ open'[v][c] # None /\ phase[open'[v][c]] = "listed"]_hubVars

(* Once no stream is open any more, however each of them ended, everything is *)
(* given back: client permits, pollers, watches, waiting-list entries.        *)
NothingLeaks ==
  <>[](\A s \in Streams : phase[s] # "open") =>
    <>[](/\ Clients = {}
         /\ \A w \in Watches : ~Running(w) /\ \A k \in EntryKeys : entries[w][k] = 0
         /\ \A v \in Servers : current[v] = None /\ \A c \in Conns : open[v][c] = None)

(* "Keeps a waiter listed while its stream lives, and for WAITER_GRACE after" *)
(* (WaiterGuard): whoever watches the server sees the waiter in that time.    *)
ListedThroughGrace ==
  \A s \in Streams : guard[s] \in {"held", "grace"} =>
    \A t \in Streams : (phase[t] \in {"subscribed", "listed", "open"} /\ req[t].server = req[s].server) =>
      entries[watchOf[t]][KeyOf(s)] > 0
============================================================================
