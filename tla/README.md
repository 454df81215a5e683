# ZE Graph: verification

TLA+ models of the concurrent parts of ZE Graph (a Rust API and worker, a
Next.js front end, PostgreSQL, Redis), TLC runs over small instances of them,
and TLAPS proofs for every size. File names below are relative to the
repository; a name in `code` is a definition in a module of this directory or
in the code.

## 1. The system

| Part | State it keeps | Operations | Talks to | Hard about it |
|---|---|---|---|---|
| Slot hub (`src/core/slot_watch.rs`, `src/routers/misc.rs`) | map of watches, client permits, open streams, waiting list | open a stream, end it, close it by id, poller tick | game servers over A2S, pages over SSE | poller stopping against a new subscriber; entries shared by tabs and released by timers |
| Player list difference (`diff_players`, page's `remove`) | none | difference, removal | | duplicate names, jittering times |
| Server watch (`ServerWatch`, `poll_loop`, `probe`) | list, meta, number, waiting list, failures | answered poll, failed poll, waiting change | hub, broadcast ring | numbering of events, hidden lists, lost UDP answers |
| Player stream (`server_players_stream`, page's message handler) | ring cursor, wire, page's number and list | forward, resync, heartbeat, rotate; every event kind | watch, page | lagging, reconnects, a watch that starts over |
| Auto join (`useAutoJoin.ts`, `AutoJoinButton.tsx`) | status, target, hold, two browser storages, one EventSource, timers | every click, event, timer, page event | stream, Steam | reload, retry timers, back/forward cache, a launch that must happen once |
| Worker cache and queue (`src/workers/mod.rs`, `job.rs`, `consumer.rs`) | Redis keys, a memory tier per process, in-flight markers, job list | lookup, enqueue, pop, compute, store, finish | PostgreSQL, Redis | expiring markers, lost jobs, late write-backs |
| Response cache (`src/core/utils.rs`, announcements in `accounts.rs`) | a memory tier per process, Redis, one lock per key in a map that forgets | look up, fill, drop | Redis | a lock forgotten under its holder, a drop that races a fill, callers that go away |
| Profile links and merges (`src/core/player_merge.rs`, `src/routers/accounts.rs`) | links, merges with the sessions they moved, tombstones | link, merge, unlink and revert, merge my accounts | PostgreSQL, the game server's plugin | several transactions at once, sessions recorded meanwhile |
| Chunked upload (`chunked_upload.rs`, `characters.rs`, `storage.rs`, `uploadUtils.ts`, `fetchUrl`) | session in Redis, chunk files, the model, the row; the page's loop | initiate, chunk, complete, cancel; every try and attempt | Redis, disk, object store | read-modify-write of the session, requests sent again while the first still runs |
| Map notifications (`updater.rs`, `push_service.rs`, `accounts.rs`, `public/sw.js`) | two subscription tables, push subscriptions, the notification shown | subscribe, withdraw, map change, send, mark, subscribe again | PostgreSQL, push services | a mark that follows a push, rows that change under the task |
| Live events (`updater.rs`, `misc.rs`, `components/live`) | broadcast channel, history list, the page's feed | notify, record, stream, read the history, pause, resume | PostgreSQL, Redis, pages | seen twice or not at all around a reconnect |
| Maps index, search field (`GlobalMapsIndex.tsx`, `FavoriteButton.tsx`, `SuggestSearch.tsx`) | cached pages, requests under way, the view; typed, committed, suggested | change a filter or a page, toggle a favourite, type, choose, clear | API | answers of keys that are no longer shown, toggles under requests |
| Radar time line (`TemporalController.tsx`) | window, cursor, range, interval, two timers | every control, both ticks | map layers | callbacks that keep the values of an older render |
| Data loading (`useResource.ts`, `useNotReadyRetry.ts`, `fetchUrl`) | data, error, loading, request and retry timer | a change of key, answers, retries | API, worker | late answers, keys that are not to be fetched, results still being calculated |
| Global playtime (`src/workers/player.rs`, `map.rs`) | snapshot table, 15-minute lock | refresh | queue, PostgreSQL | a lock that expires under its owner |
| Announcement media, A2S client, REST routers, MCP, avatars service, page components | files, or none | | | little or no concurrency of their own |

What makes each correct, and which line would go wrong, is the list of
`hazards` in `PROJECT.json`; the parts that are not modelled are there with the
reason.

How the modelled parts fit together: a page arms an auto join (`AutoJoin`),
which opens a stream; the request takes a permit and joins or starts a watch
(`SlotHub`); the watch polls the game server, compares lists (`PlayerDiff`) and
broadcasts events (`ServerWatch`); the handler forwards them and the page
rebuilds the list (`SlotStream`) and decides (`AutoJoinRules`). The worker
queue (`RefreshQueue`) is independent of that path. An upload is the page's
loop over `fetchUrl` (`FetchUrl`) and the handlers it reaches (`ChunkedUpload`),
shown to keep what a model store promises (`ModelStore`). The other modules are
one component each, together with everything outside it that acts on its state.

## 2. Modules

| Module | Extends / instantiates | Models |
|---|---|---|
| `SlotHub` | `Absent` | Streams from request to end, watches, pollers, waiting-list entries, `open_streams`. One step is one section under one lock or one decision between two awaits. |
| `Lists` | | Entries of a list at some of its places, and the front of a list. |
| `PlayerDiff` | `Lists` | `diff_players` and the page's `remove`, as operators. |
| `PlayerDiffCases` | `PlayerDiff` | The pairs of lists they are tried on, and what is expected of them. |
| `ServerWatch` | `PlayerDiff`, `Absent` | One watch: `apply`, `mark_offline`, `probe`, numbering. `channel.log` is every event sent; `channel.views` is history. |
| `SlotStream` | `ServerWatch`, instantiates `AutoJoinRules` | Handler loop, ring, wire, page. |
| `AutoJoinRules` | | `check`, `effectiveTarget`, `playersOf`. |
| `AutoJoin` | `Absent`, instantiates `AutoJoinRules` | The hook and the button in the documents of one tab. |
| `RefreshQueue` | `Absent` | `get_with_fallback`, `enqueue_refresh_job`, `consume`, `run_job`, expiries, crashes. |
| `ModelStore` | | What replacing a model promises to those who load it and to the page that uploads it. |
| `FetchUrl` | | The retry loop of `fetchUrl`, as operators. |
| `ChunkedUpload` | `FetchUrl`, `Absent`, instantiates `ModelStore` | The page's loops and the handlers of its requests, step by step between awaits. |
| `LiveFeed` | `Lists` | Listener, ring, stream, history and page of the live events. |
| `MapsIndex` | `Absent` | `loadPage` with its cache and its table of requests, the component's view, favourites. |
| `SuggestSearch` | `Absent` | `useSuggestSearch` and the field. |
| `Timeline` | | `useTimeline`, the panel's and the slider's handlers. |
| `Resource` | `Absent` | `useResource` and `useNotReadyRetry` of one mounted component. |
| `PlayerMerge` | `Absent` | The transactions of links, merges and reverts, and the plugin that records sessions. |
| `MapNotify` | `Absent` | Subscriptions of one user, the tasks of map changes, the push service, the notification. |
| `ResponseCache` | `Absent` | `cached_response` and `drop_cached_response` for one key of one process. |
| `Absent` | | The constant `None`. |
| `MCParts` | `ChunkedUpload`, `ServerWatch`, `LiveFeed`, `MapsIndex`, `Resource`, `PlayerMerge`, `Timeline`, `SuggestSearch` | Components that share no state, for one run: a behaviour is one of the component that `part` names. |
| `MCServerParts` | `RefreshQueue`, `PlayerDiffCases`, `MapNotify`, `ResponseCache` | The same for parts of the server. |
| `MCStreams` | `SlotHub`, `MCSlotStream` | The same for the hub and a page's stream, with their fairness. |
| `MCLive` | `RefreshQueue`, `MCAutoJoin` | The same for the job queue and the auto join, with theirs. |
| `MCSlotHub`, `MCSlotStream`, `MCAutoJoin`, `MCChunkedUpload`, `MCMapNotify` | the module of that name | Values for TLC. |

The modules of proofs, each extending the modules it is about and TLAPS:

| Module | About |
|---|---|
| `SlotHub_proofs` | `SlotHub` |
| `Lists_proofs` | `Lists`; functions defined by recursion |
| `PlayerDiff_proofs` | `PlayerDiff`, `PlayerDiffCases` |
| `ServerWatch_proofs` | `ServerWatch` (extends `PlayerDiff_proofs`) |
| `SlotStream_proofs` | `SlotStream` (extends `ServerWatch_proofs`) |
| `Caches_proofs` | `RefreshQueue`, `ResponseCache` |
| `Records_proofs` | `PlayerMerge`, `MapNotify`, `ChunkedUpload` |
| `Pages_proofs` | `Resource`, `MapsIndex`, `Timeline`, `SuggestSearch`, `LiveFeed`, `AutoJoin` |

Correspondence of the less obvious state:

* `SlotHub`: `phase` is the place of a stream's handler (permit, receiver,
  waiter, open entry); `guard` is its `WaiterGuard` and, once dropped, the
  five-second timer; `current` is `SlotWatchHub.watches`; `entries` is the
  `streams` count of each `WaiterEntry`; `notified` is the stored permit of a
  `Notify`. The handler has no await before its response, so it is only its
  stream that can be dropped (`Disconnect`, `Rotate`, `Closed`). Identities
  (`Arc::ptr_eq`) are those of model values used once.
* `ServerWatch`: names are numbers in alphabetical order, 0 the empty name of a
  player still connecting; times are whole units of which `Drift` make
  `DRIFT_MS`. A poll answers any of the given lists (or none) and any A2S_INFO
  (or none), and whether the last one is still fresh is a free choice.
* `SlotStream`: `cursor` is how far the broadcast receiver has read; it lags
  when more than `Buffer` events are ahead. `wire` is what the connection holds.
  `NewWatch` is the hub's StopPolling and StartWatch seen from one server; that
  nobody is subscribed then is `StreamsAreServed`, proved in `SlotHub_proofs`.
  Pages do not act on each other, so a run with one says what it can of several;
  the proofs are for any number. A leave carries the connect time the watch has; the delay of the network in
  the page's times is the subject of `NamesakesToldApart` instead.
* `AutoJoin`: `saved` is sessionStorage and `confirmed` localStorage; `effect`
  is the query the stream effect last ran with; `source` its stream; `strays`
  are open streams `source` no longer points to. `kept` are the documents of the
  tab that wait in the back/forward cache (`HideToCache`), each with its component's
  state and its pending timeouts: while they wait another document may mount, arm from the
  same storage and fire, and `ShowFromCache` brings one back as it was, without
  reading storage. An armed target in storage has the identity of its click's
  `arm`, which is history, as are `launches` by arm and `waived`; `revived` marks
  arms that a document came back with after storage had forgotten them, `stale`
  and `misled` documents behind whose back storage was changed. A handler runs to
  its end, as in a browser; React's commit of a new query is a step of its own,
  because events and timers may run before it.
* `RefreshQueue`: a result is named by the last session among the data it was computed
  from; `Latest` is the alias key; `late` counts markers that went while a job was in
  hand (history). `Store` is one of the three writes of `run_job`; an awaiting Redis
  call is a step, and so is the memory insert of a lookup that has its Redis answer
  (`Keep`). An LPUSH or a SET that fails was applied or not (`PushFails`, `MarkFails`),
  a GET that fails is a miss (`LookFails`); the DEL of the marker that follows a failed
  LPUSH is a step of its own (`Unmark`), because another request may mark, push or be
  told "already queued" before it.
* `ChunkedUpload`: `req` holds the requests at the server, each with its place between
  two awaits of its handler; `wait` is the one the page listens to. When a connection
  breaks, the handler is dropped with it or goes on unheard (`Unheard`), a completion's
  as well as a chunk's, so that two completions may be at work at once (`overlapped` is
  history). A file is whose bytes it has, which chunks are at their place, whether its
  length is that of the whole, and which completions have it open: a second `Create`
  empties it under the first one's hands, both may write their own chunks into it, and a
  file removed and created again is another one. Every look at Redis, the disk, the
  store and the database may fail: `Refuses` and `AssembleFails` are the answers of
  those that leave nothing behind, or only the file as far as it was written,
  `SaveFails`, `StoreFails` and `Upsert` of those that may have been applied. Local
  storage writes the model's own file, object storage puts a whole one (`backend`).
* `LiveFeed`: `conn` stands for `openedAt`, which tells a page's connections
  apart. An event is its number in the order of the broadcast. `early`,
  `skipped` and `filled` are history: an event broadcast before the page
  subscribed and recorded after its history was read, a lag, a history that has
  arrived.
* `MapsIndex`: a page of rows is told by the toggles it reflects, a request by
  what was recorded when it began (`version`). Requests, cache and toggles
  outlive the component (`Remount`), as module variables do.
* `Timeline`: `liveFrom` and `playFrom` are the values that the two timers'
  callbacks closed over, in the render that set them. Time is counted in the
  shortest interval.
* `SuggestSearch`: `fetch` is the fetch of the present input; fetches of earlier
  inputs are in `dropped` and may still be answered, aborted or not.
* `Resource`: `hook.pending` is the request whose answer is listened to, and
  `hook.stale` are the aborted ones that answer all the same. A change of key and
  the effect it runs are one step.
* `PlayerMerge`: a transaction's writes appear with its commit; until then it has
  what it read and the row locks it took. `origin` is the profile a session was
  recorded for (history).
* `MapNotify`: a row belongs to one of the two tables by what it asks for; its
  id is free again once nothing holds it. A task selects one table's rows, then
  takes each up, looks for the endpoint, sends, removes a dead endpoint and
  marks: a step each. `tries` and `lost` are history. A row for any server
  (`server_id` NULL) conflicts with no other, as in SQL.
* `ResponseCache`: an answer is told by how many writes it reflects; `lock`
  counts how often the key's lock was forgotten, and a caller keeps the lock it
  took out. `nearby` is the process's memory tier, `shared` the one in Redis.
  `fills`, `losses` and `overtaken` are history.

## 3. Runs

| Run | Bounds | Checks |
|---|---|---|
| `hub` | 3 streams, 3 watches, 1 server, 1 tab, 1 connection id, 2 permits; symmetry | `Served` `OnePoller` `EntriesBalance` `OnlyOwnEntryGoes` |
| `hub_grace` | 2 streams, 2 watches, 2 permits | finds `ListedThroughGrace` violated |
| `stream` | 1 page, 2 lists, buffer 2, wire 2, two watches one after another, each polled until 2 events; the hub of `hub_grace` | `PageMirrorsFeed` `NoGapReachesThePage` `NeverBackwards` `EventuallyCurrent` (stream), `NothingLeaks` (hub) |
| `stream_count` | 1 list of 2, target 1, buffer 4, polls until 4 events | finds `FiresOnReportedCount` violated |
| `live` | auto join: 4 lists, target 1, 1 place in the back/forward cache, 2 arms, 1 timer, 1 lost stream; queue: 1 request, 1 permit, 2 sessions, two processes, 1 failure | `LaunchesOnce` `HeldUntilAbove` `SavedIsArmed` `OneStream` `KeepsTrying` (auto join), `KeysHoldTheirSession` `QueueComputes` (queue) |
| `autojoin_leak` | 1 timer, 1 lost stream | finds `OpenOnlyWhileWanted` violated |
| `autojoin_twice` | 1 place in the cache, 2 arms, no timer | finds `SteamOnce` violated |
| `parts` | see below | `ImplementsStore` `UploadIsOver` (upload), `FeedTellsTheList` `StayersStayCounted` (watch), `Backfilled` `NothingVanishes` (live events), `FavoritesAreFresh` `SkeletonIsUnderWay` (maps index), `PlaybackStaysInside` (time line), `SuggestionsFit` (search field), `ShownIsAsked` `LoadingIsUnderWay` `NotReadyResolves` (data loading), `SessionsAreKept` `TombstonesHaveTheirMerge` (merges) |
| `upload_local` | the upload of `parts` | finds `RowHasItsModel` violated |
| `upload_twice` | the upload of `parts` | finds `StoredIsVerified` violated |
| `server_parts` | see below; symmetry | `JobsAreMarked` (queue), `ListsBalance` `SameListIsQuiet` `NamesakesToldApart` (list difference), `FiredMeansTried` `OneTimeIsUsedUp` (notifications), `FilledOnce` `DropReachesBoth` (response cache) |
| `notify_again` | 1 subscription to a server's next map, 1 task, no fault | finds `ReSubscribingClears` violated |

`parts` and `server_parts` hold components that share no state: a behaviour
picks one of them, so that their states add up and do not multiply. In `parts`:

| Part | Bounds |
|---|---|
| upload | 2 chunks, 2 attempts of a chunk, in `fetchUrl` 1 limited try and 2 failures, 2 requests at the server, whose handlers may all go on unheard; both backends |
| watch | 6 lists over 3 names, 2 infos, buffer 6, offline after 2, polls until 4 events |
| live events | ring 1, history 2, at most 3 shown, 3 events, 2 connections, 1 lost answer |
| maps index | the filters all (1 page) and Favorite (2 pages), 1 toggle |
| time line | two ranges of 4 and 2 intervals, steps of 1 and 3, opened at 5, until 7 |
| search field | 5 inputs: empty, two too short, two that share a prefix; one that commits to nothing |
| data loading | 2 keys and 1 that is not to be fetched, the 7 choices of options that components make |
| merges | 1 name-tracked profile, 2 Steam accounts, 1 session, 2 merges, 2 transactions |

In `server_parts`:

| Part | Bounds |
|---|---|
| queue | 2 requests, 2 permits, 1 session, 2 failures, 2 markers gone early |
| list difference | lists up to 3 over 1 name and times 0..6, and up to 2 over 2 names and times 0..4; drift 1, jitter 1 |
| notifications | 1 server, 1 map, asks for the server's next map and for the map on any server, 1 browser, 2 tasks, 2 rows, 1 request under way, 1 fault |
| response cache | 3 callers, 1 write, 2 losses (expiries, drops, failures), the lock forgotten once |

Type invariants are proved for every module with a next-state relation of its
own but `ModelStore`, whose states are those of `ChunkedUpload`. Some are also
the first conjunct of a property of a run: `PageMirrorsFeed` (`SlotStream`),
`Backfilled` (`LiveFeed`), `ImplementsStore` (`ChunkedUpload`).

Why the bounds are enough to be interesting. Three streams make the hub go
through an old stream in its grace, one that ends and one that starts, with a
watch dropped and restarted between any two; an entry then counts up to three.
A permit fewer than streams makes admission fail. With lists of three namesakes
the greedy pairing has both a wrong order and a wrong choice available, and `Jitter` and
`Drift` of one unit lie on either side of the comparison. In the watch the lists share
names and times so that every kind of change (leave, join, both, drift, a hidden list, a
burst of more than half the buffer) is one poll away. A ring of two with a connection of
two lags as soon as three events are ahead, and a poll sends one per change, so that a
page lags although polling stops after two. For the auto join one pending timer and one
lost stream suffice: a second of either adds no new situation; two arms let a click arm
anew while a document in the cache still goes on with the one before. `live` has the tab
twice: with a document in the cache that has the tab to itself when it comes back
(`Alone`), and with another document in front meanwhile, where the user has passed the
Steam check, keeps the dialog open, gets no ticket and loses no stream (`Beside`, which
keeps the product of two documents small). Its queue counts only those early markers
that follow a failed push (`OnTime`), and the worker's own memory tier, which no request
reads, does not expire (`WorkerRemembers`); `server_parts` and the proofs have neither
bound. In the queue two failures and two markers gone early allow a job to lose its
marker, another to be queued, and the first to remove the second's marker, or an LPUSH
that was applied to be followed by the DEL of its marker. Two tries inside two attempts
make an upload give up in either loop, and two places at the server let the handler of a
first try meet that of the second; two chunks make a last one that others have to wait
for. A ring and a history shorter than the events of one stay make a page of the live
feed both lag and find its history cut, and a second connection reads what the first
lost. Two pages of favourites let a toggle fall between one that is cached and one under
way. Two transactions suffice for merges because a third one waits for the same row
locks; two accounts, so that a merge may be undone inside another. Two rows and two
tasks let a task hold a row that is withdrawn, asked for again, and taken up by the
other; a larger instance (two browsers, asks for a map on one server as well, 14.6
million states) was checked once, with the same result. Two callers of the response
cache wait for one lock while a third takes out the new one.

Each property of a passing run comes with a mutant in the module (`Mutant
of ...`), a plausible bug that makes TLC find the property violated.

Deadlock is not checked for the hub (streams and watches are used once) and
for the stream runs (polling stops at `MaxLog`): those systems end by their
bounds. Nor is it for `parts`, the upload runs, `server_parts` and
`notify_again`, where an upload is over, a clock or a log is full, or lists have
been compared. `live` and the auto join runs never stop and are
checked for deadlock.

### Fairness

* `SlotHub!HubFairness`: every ready task is polled by the runtime and timers
  fire. Neither the transport nor the lifetime of a stream is counted on:
  `NothingLeaks` speaks of the time after the last open stream.
* `SlotStream!Fairness`: a handler with something to send and room to send it
  does, the page runs its handlers and its backoff timer. Nothing is assumed of
  the poller, the network, or rotation.
* `AutoJoin!TabFairSpec`: React commits, and a shown page's timers fire.
* `RefreshQueue!FairSpec`: pages ask again, requests (the deletion of a marker after a
  failed push included) and tasks that are running go on, markers expire. No fairness of failures, and at most `MaxFailures`.
* The upload (`ChunkedUpload!Runs`): the page's script and the handlers at the server go on
  as long as one of them can. Nothing is assumed of the network: an answer is
  received or lost, and every loop of tries ends.
* Data loading, there too: requests are answered, the retry timer fires, and the
  worker calculates what was asked for.

### What the violations show

* `hub_grace`: the doc of `WaiterGuard` promises a waiter stays listed for
  `WAITER_GRACE` after its stream. The last stream ends, the poller's next tick
  drops the watch with its list, and someone who opens the page within the five
  seconds does not see the waiter.
* `autojoin_leak`: a stream breaks, a retry timer is set, the page is put in the
  back/forward cache and restored: `pageshow` connects, then the timer connects
  again and `source` is overwritten. The first EventSource is not closed by
  anything the hook does until the document is unloaded; on the server it
  counts as a waiter and takes a permit.
  `OneStream` holds otherwise: the history variable `overlap` marks exactly the
  restores that happen with a timeout pending.
* `autojoin_twice`: an armed document is put in the back/forward cache, the next
  document of the tab arms again from sessionStorage, launches and so forgets
  the saved target; Back restores the first document as it was, `pageshow`
  connects without reading storage, and the first list that meets the target
  launches Steam again. `LaunchesOnce` and `SavedIsArmed` hold with these documents as their only
  exception, marked by `revived` and `misled`.
* `stream_count`: the list was hidden for one poll (A2S_PLAYER lost, A2S_INFO
  answered, so the list is empty and the count comes from INFO). The next poll
  sends a join per player, and the page decides after each: with one join in
  the list it counts one player, meets its target, and launches Steam although
  every poll reported two players.
* `upload_local`: with local storage a completion writes the model's own file
  before it opens the first chunk. A completion that is cut off after it wrote the
  row, or whose DEL of the session fails, leaves the session, and `fetchUrl` sends
  it again: the file is emptied, and stays so when the second completion is cut
  off too or finds the chunks gone, while the row names the new model.
* `upload_twice`: with object storage the answer of a completion is lost, its handler
  goes on, and `fetchUrl` sends the completion again. The second handler assembles the file
  and verifies it; the first one's `File::create` then empties it; the second stores the
  empty or half-written object, writes the row, and the page tells its user that the
  upload succeeded. `ImplementsStore` holds until completions overlap.
* `notify_again`: the push goes out, the user presses "Wait for Another", and the
  request that renews the subscription is stored before the task marks the row:
  the mark swallows it.

## 4. Proofs

`SlotHub_proofs` proves for any servers, watches, streams (finitely many), tabs
and connection ids and any number of permits:

| Theorem | States |
|---|---|
| `HubInvariant` | `Spec => []IInv` |
| `HubTypes` | `Spec => []TypeOK` |
| `StreamsAreServed` | `Spec => []Served` |
| `AtMostOnePoller` | `Spec => []OnePoller` |
| `WaitingListBalances` | `Spec => []EntriesBalance` |
| `OwnEntriesOnly` | `Spec => OnlyOwnEntryGoes` |

The assumptions are `HubAssumption` in `SlotHub`: a positive number of permits,
finitely many streams, and that `None`, tabs and streams are different things.

The inductive invariant `IInv` is `TypeOK`, `HandlerInv`, `Served` and
`OnePoller`. `Served` and `OnePoller` need each other: a poller stops only when
its watch has no receiver, and every receiver's watch is the one in the map,
which is running. `HandlerInv` says what a handler has by the time it has
reached a phase (a request once admitted, a watch once subscribed, a held guard
only while listed or open); without it the maps would be applied to `None`.
`EntriesBalance` is inductive relative to `IInv` and proved action by action:
`HoldersFinite` makes the cardinality of the holders a number, and
`BalanceStep` follows it through the two steps that add or release a guard.
`OwnEntriesOnly` is an action property: `OpenStep` shows it of every step from
a state with `IInv`.

Of `AutoJoin`, `Pages_proofs` proves for any lists, targets and arms, any places in the
back/forward cache and any bound on timers and
lost streams: `TabTypes`, `OneLaunchPerArm` (`LaunchesOnce`), `HoldIsKept`
(`HeldUntilAbove`), `StorageFollowsTheArm` (`SavedIsArmed`) and
`AtMostOneStream` (`OneStream`). It assumes that a list says whether the server
is online and how many slots it has (`AutoJoinAssumption`) and that `None` is
none of the values (`TabNoneAssumption`). `LaunchesOnce` is not inductive: a
launch after a reload comes from an arm in storage, one after a restore from an arm in the cache. `ArmInv`
adds that the arm in front has not launched yet unless it was `revived`, that storage agrees
with the page unless the page was `misled`, and that an armed page without a hold was free to launch;
`KeptInv` says the same of every document in the cache, those that nothing was written
behind the back of agreeing with storage; `Unspent` that the arm in storage has not launched. The
lemmas about `CheckWith`, `ArmNow` and `Disarm` carry all of it through `check`, whichever handler calls
it. For the stream, `StreamInv` says that without an overlap there is one stream or one timeout and
never one of each.

`Lists_proofs` has what the rest says of lists: `EntriesAre` (entries taken out of
a list keep their values and order), `CappedIs`, and the two lemmas that stand in for
the library's induction theorems, which no installed prover can instantiate:
`Climb` (a set of numbers that goes from each number to the next has them all,
by the least counterexample) and `Recursion` (a function defined step by step
exists). With them facts about `PairUp`, `UpTo` and lists of any length are proved.

`PlayerDiff_proofs` proves of `diff_players` and the page's `remove`, for any names,
any drift and lists of any length and any times (`DiffAssumption`,
`CasesAssumption`):

| Theorem | States |
|---|---|
| `DiffLosesNobody` | `DiffSpec => []ListsBalance` |
| `SameAnswerIsQuiet` | `DiffSpec => []SameListIsQuiet` |
| `TheRightOneLeaves` | `DiffSpec => []NamesakesToldApart` |

That the two lists are lists of players (`PlayerLists`) is all the invariant they
need; the rest is about the algorithm. `FreeIs` and `PairUpIs` follow the greedy
pairing: every entry of the shorter side takes one of the longer, and none twice.
`MatchUpIs` and `PartIs` make that the pairs, the leavers and the joiners of one
name, and `UpToIs`, `UpToBalances` climb over the names: that is `DiffBalances`, the
counts by name. The page needs more than names, so `DiffShares` balances every kind
of player: an entry that stays or leaves is an entry of the old list, with its
time. `LeavesAreTaken` then takes the leaves one at a time off what the page shows;
each finds itself there exactly (`RemovedWhich`: distance zero is nearest), so what is
left is who stayed.
The other two need to know whom the pairing chooses, which depends on the order it
goes in. `Recognised` says of a list that everybody on the shorter side has one entry
within some distance on the other, his alone. `PairUpChooses` shows that then the order does not matter: his
entry is still free at his turn, so whoever he takes is within the distance.
`StillRecognised` and `SettledIsQuiet` show that after a poll the same answer is such a
list, at twice the drift, because the watch kept times that are off by the drift at
most; `RereadRecognised`, `RereadPart` and `RereadStays` that a misread list without some of its players
is one, at the jitter, in any order (`ReverseCounts`); `RightOneLeaves`, with `NearestDespiteJitter`, that
the page's nearest namesake is the one that left.

`ServerWatch_proofs` proves for any rosters, A2S_INFO answers, waiting lists,
buffers and bounds (`WatchAssumption`):

| Theorem | States |
|---|---|
| `WatchInvariant` | `WatchSpec => []WatchInv` |
| `WatchTypes` | `WatchSpec => []WatchTypeOK` |
| `EventsTellTheList` | `WatchSpec => []FeedTellsTheList` |
| `StayersAreCounted` | `WatchSpec => StayersStayCounted` |

`FeedTellsTheList` compares numbers with a count and the last list only; what is
inductive is `ChannelOK`, entry by entry: a numbered event has the number after
the last one's and `LeadsOn` from the list after that number to the list after its own (a
snapshot to its own list, a join or leave to one more or less of its name, a meta
to the same names), and a poll or waiting event has the last number.
`BroadcastKeeps` shows it of any changes that lead on from each other,
`LeavesAreSound`, `JoinsAreSound` and `MetaIsSound` that those of `Stepwise` do, and
`HavingTheDifference` (with `DiffBalances`) that they end at the new list. That a
leave never takes a name below zero is part of it.
`StayersStayCounted` needs to know who is paired: `SolePair` and `DiffIsApart` show
that two players alone with a name on either list are paired, so that if one left, the
other is further away than the drift, and is somebody else.

`SlotStream_proofs` proves for any number of pages, watches one after another, events
under way and events (`WatchAssumption`, `StreamAssumption`):

| Theorem | States |
|---|---|
| `StreamInvariant` | `Spec => []StreamInv` |
| `StreamTypesHold` | `Spec => []TypeOK` |
| `PagesMirrorTheFeed` | `Spec => []PageMirrorsFeed` |
| `NoGaps` | `Spec => []NoGapReachesThePage` |
| `PagesNeverGoBack` | `Spec => NeverBackwards` |

The properties speak of what a page has; what keeps them is under way. `StreamInv` is
`WatchInv` and, of each page, `Mirrors` (what it shows is the feed's list of
the number it has), `InTime` (which watch it is on, and the bounds), `Carries`
(what is on its connection are events of that watch), and `Follows`: the events on
the wire lead, one after another, from the page's standing (its number and waiting
list) to one that agrees with the receiver's place in the log. `Moves` says where an event leads,
`Leads` that a path exists. Sending puts one move at the end of the path
(`LeadsFurther`), handling takes one off its front (`LeadsByTheFirst`), a lag moves the receiver and is
made up for by the snapshot that follows it in the same step (`ResyncKeeps`); a number
that was skipped would have no path. `ChangeFollows` shows that the page's own
handling of an event (`Removed`, an append, the meta) changes its names as the
feed's. A step of the watch extends its log and its views only (`WatchExtends`), and
a new watch starts with nobody subscribed.

`Caches_proofs`, for the queue, proves for any finite numbers of request handlers
and slots and any bounds on sessions, failures and early markers: `QueueTypes`,
`OneJobPerMarker` (`JobsAreMarked`) and `NoStaleKeys` (`KeysHoldTheirSession`),
from `QueueAssumption` and `NoneAssumption`. `JobsAreMarked` is inductive with
`TypeOK`; the work is in the counting: `AppendCounts` and `TailCounts` follow
the jobs of a session through the list, `PushMoves` and `TaskMoves` through one
handler's and one slot's step. `KeysHoldTheirSession` needs `OnTheWay`: what a
request has read for a key, what a task has computed, and the session a waiting
job is for, are all good enough for where they will be written.
For the response cache, with any callers and bounds (`CacheAssumption`), it proves
`CacheTypes` and `DropsReachBothTiers` (`DropReachesBoth`), with the invariant
that what a call has in hand, and what is in a tier the drop has reached, is of
after the write or `overtaken`; and `AnswersAreFilledOnce` (`FilledOnce`). That
is a budget: a lock is `Settled` when whoever holds it would find the answer, and
`FillsInv` bounds the computations so far and the unsettled locks together by
one per lock and loss. A computation settles its lock (`FillSettles`), a loss unsettles all of them and pays
for it (`LossPays`), forgetting adds an unsettled one (`ForgetPays`), and a drop has the loss of its
write's commit to spend, since it empties memory after that.

`Records_proofs`, for merges, proves for any disjoint sets of profiles and accounts, any
sessions, merge ids and transactions (`MergeAssumption`): `MergeTypes`,
`NoSessionIsLost` (`SessionsAreKept`) and `OneMergePerTombstone`
(`TombstonesHaveTheirMerge`). What a transaction read may be old by the time it
commits; the invariant says what its locks keep true. `TxInv`: who is about to
record a merge holds the row of its profile. `StagedInv`: what is staged for
the commit fits, and its rows are locked. `MergesInv`: an active merge is of a
tombstone, it alone, and its sessions were recorded for that profile and are
with its account. A commit is split into the profiles it merges and those it does
not touch.
For notifications, with any servers, maps, browsers, tasks and bounds
(`NotifyAssumption`): `NotifyInvariant`, `NotifyTypes`, `FiringWasTried`
(`FiredMeansTried`) and `UsedUpByItsPush` (`OneTimeIsUsedUp`). `HandOK` says
that a task at work has a row in hand; `KeysOK` are the foreign and primary keys
of the rows; `HeldOK` that an id a task remembers is still that of the same
browser's row, which holds because ids are not given out again while
remembered; `MarksOK` that the row about to be marked was tried.
For uploads, with any numbers of chunks, tries and slots and both backends
(`UploadAssumption`), whatever handlers go on after their connections broke: `UploadInvariant`, the refinement `UploadImplementsStore`
(`ImplementsStore`: every step is one of `ModelStore` or a stutter, or asks for a completion
while another is at work, after which nothing is promised of the file), and what follows
from the abstract specification, `ToldIsStored` and `ObjectsHaveTheirModel`
(`RowHasItsModel` for object storage; the run `upload_local` shows that local
storage breaks it). What holds whether or not completions overlap is `PageInv` (the page waits for
the one request that is for what it is at), `OpsInv` (which operations may be at work beside
which, and while the page is where) and `RowInv` (success is told after the row is
written). Until completions overlap there is `AloneInv` (one at most, and none after
success was told) and `CompletionInv`, which follows the assembled file through its
copy, check and store (`Progress`): whoever has verified it has a whole one. That it is not so any more when they do is the run
`upload_twice`.

`Pages_proofs` proves for any keys and options (`ResourceAssumption`):
`ResourceTypes`, `AnswersMatchTheirKey` (`ShownIsAsked`) and
`LoadingHasItsRequest` (`LoadingIsUnderWay`), with `FetchInv`: a request is
under way exactly when it is for the present key, which can be fetched. For
any filters, pages and toggles (`MapsAssumption`): `MapsTypes`, `CachedFavoritesAreFresh` (`FavoritesAreFresh`)
and `SkeletonsEnd` (`SkeletonIsUnderWay`). `RequestInv` relates the version of
a request to what its rows reflect, so that rows that pass the comparison of
versions have every recorded toggle; `ViewInv` says that a view without its
rows or its error waits for a request. For any ranges, spans and steps (`TimelineAssumption`)
`TimelineInvariant` and `PlaybackEndsInside` (`PlaybackStaysInside`): the end a
playback compares with is never after the end of the window, because that end
only moves forward, towards the clock. For any inputs and terms
(`SearchAssumption`) `SuggestionsBelong` (`SuggestionsFit`) and
`NothingTypedIsForgotten` (`TypedIsSearched`). And for any sizes of ring, history and
page (`FeedAssumption`) `FeedInvariant`, `FeedTypes`, `PagesAreBackfilled` (`Backfilled`) and
`NothingShownVanishes` (`NothingVanishes`). `MergeIs` says which events a merge of two
lists has; `CatchesUp` that an event being recorded, and one recorded since the
history was read, is shown, on the wire or not yet taken from the ring, unless the
connection skipped something, it was `early`, or the page is full.

Every invariant and action property that a run checks is a theorem. Only
model-checked are the liveness properties (`NothingLeaks`,
`UploadIsOver`, `NotReadyResolves`, `EventuallyCurrent`, `KeepsTrying`,
`QueueComputes`), because fairness and ENABLED are beyond the prover, and the
violations, which are counterexamples. No module reaches a RECURSIVE operator.

## 5. Not modelled

Formatting, logging, metrics, ticket signatures, chime and notification sounds, A2S
packets, SQL results. A Redis command, a query or a put that fails was applied or not:
where the code then goes on in another way than after a success, both are alternatives
of the failing action (`PushFails`, `MarkFails`, `SaveFails`, `StoreFails`, `Upsert`),
and where it goes on in the same way, the one that was applied is the action of the
success. Time is a nondeterministic choice: a timer may fire at any step after it was
set. The game server, the network, the user, the browser's cache and Redis's expiry are
free choices within the bounds. The parts of the system without a module are listed in
`PROJECT.json` with the reason. Most of the front end is presentation: components that
render what `useResource` gives them and keep no state that two events could disturb.
That is why the modelled share of the repository's lines is small; the modelled files
are those where several actors meet.

Left out of components that have a module: the status of a claim and what is derived
from merged sessions; announcements, their preferences and their media; the
administrator's SCAN over the worker cache and the answers computed inline; the batch
loader; the deletion of models and small uploads in one request; the Redis lock of the
global playtime. Of the upload: an object is put in one step, from the assembled file as
it is then, and a temp directory is removed in one step. Of auto-join: a tab that is
duplicated gets a copy of the session storage, and with it the armed target. Of the
watches: that a close request is not lost between two looks of its stream is what
tokio's `Notify` keeps a permit for (`slot_watch.rs:535`), and is left to it.

Behaviours that were met while modelling and that no property judges, because
nothing in the repository says how they should be:

* `slot_watch.rs:255`: with duplicate names "the right one leaves" holds for the
  lists before and after a poll, not for each event between: of (0) and (20)
  becoming (20) and (40), in units past the drift, the pairing in order makes two
  leaves and two joins, so the one who stays is counted out for a moment.
  `StayersStayCounted` is therefore about a player alone with the name.
* `slot_watch.rs:533`: a close request that overtakes the GET of its stream finds
  nothing to close; the stream stays listed until its connection or its lifetime
  ends.
* `useAutoJoin.ts:291`: between two streams `liveRef` keeps the list it had, and
  arming then decides on it.
* `consumer.rs:143`: with several permits an older session's job may write the
  `latest` alias last. `mod.rs:272`: a key dropped by the worker stays in the
  API's memory tier until it expires.
* `utils.rs:1122`: memory is dropped before Redis, so a call in between puts the
  dropped answer back for up to a minute; `overtaken` in `ResponseCache` names
  these calls. Another process's memory is not dropped at all.
* `uploadUtils.ts:124`: a completion whose answer is lost may be told as failed
  although the model is stored (`ModelStore!TellFailure` allows it).
  `uploadUtils.ts:91`: an initiation whose answer is lost leaves a session to
  expire.
* `updater.rs:483`: an event broadcast before a page subscribes and recorded after
  it read the history is not shown (`early`). `useLiveEvents.ts:31`: rows of the
  history and the stream are ordered by arrival, not by time.
* `updater.rs:530`: two map changes close together both push for one
  subscription. `db.sql:818`: UNIQUE does not hold for a subscription on any
  server, so asking in two tabs gives two rows and two pushes. The listener's
  reconnect loses changes. `updater.rs:735`: an announcement saved during the
  cleanup may name an old file that is about to go. `:787`: an upload idle for 48
  hours loses its chunks.
* `GlobalMapsIndex.tsx:41`: a view may join a request begun before a toggle and
  show its rows, although the cache refuses them. `:68`: two toggles of one map
  at once are recorded in the order of their answers. `SuggestSearch.tsx:44`: a term may be committed twice.
* `useResource.ts:43`: told to skip its first fetch without a first value, a
  component stays in its loading state (`SkipsUnseeded`).
  `useNotReadyRetry.ts:17`: with `keepError` a retry is made once
  (`NotReadyResolves` leaves this case out).
* `TemporalController.tsx:163`: a range chosen in live mode is replaced by the old
  window's length at the next tick. `:139`: the slider's last stop may lie past
  the window's end.
* `accounts.rs:132`: an unlink may clear a link while a merge of the profile is
  about to commit, which leaves a tombstone without a link. `player_merge.rs:71`:
  a profile may stay linked to one account while its sessions are with another.
  `accounts.rs:155`: two links at once can form a chain, although links are
  resolved one level deep. `accounts.rs:3330`: a claim may be decided again, which
  undoes no merge.
* `player.rs:1976`: the lock of the global playtime may expire under its owner.
  `batchLoader.ts:34`: a key that resolves to nothing may be requested twice.
* `PlayerPlayedWith.tsx`: an answer sets its data without asking whether its
  effect was cancelled.

## 6. Plan

1. `GlobalPlaytime`: the expiring lock, its value-checked release, and the
   snapshot two owners may write; then the status of claims.
2. `ResponseCache` with several processes.
3. `PlayerPlayedWith.tsx` and the patches of player statistics, with the worker
   that answers 202: `Resource` with a second source of answers.
4. An abstract watch service (subscribe, see a current list, unsubscribe) that
   `SlotHub` and `SlotStream` implement, as a refinement.

Proofs to add: those of the modules above, with them; the watch service of 4 as a
refinement, whose parts (`StreamsAreServed`, `PagesMirrorTheFeed`) are proved.
