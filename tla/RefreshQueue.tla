---------------------------- MODULE RefreshQueue ----------------------------
(***************************************************************************)
(* How one statistic of one player or map is kept in the caches and        *)
(* recomputed: BackgroundWorker (src/src/workers/mod.rs), the jobs         *)
(* (workers/job.rs) and their consumer (workers/consumer.rs).              *)
(*                                                                         *)
(* A result is cached under the session it was asked in, and under the     *)
(* alias "latest".  A request answers from the current session's key, else *)
(* from the previous one's, else from the alias, and unless the first was  *)
(* there it queues a job, guarded by an in-flight marker that expires.  A  *)
(* step is what happens between two awaits that another task can tell      *)
(* apart; a Redis command that fails was applied or not, the caller cannot *)
(* tell.  A result is named by the last session among the data it was      *)
(* computed from.                                                          *)
(***************************************************************************)
EXTENDS Integers, Sequences, FiniteSets, Absent

CONSTANTS
  Requests,    \* request handlers of the API process; each serves many requests
  Slots,       \* permits of the consumer's semaphore for the job's queue
  Split,       \* TRUE if the consumer runs in a process of its own (ROLE)
  MaxSession,  \* bound: sessions, one after another
  MaxFailures, \* bound: crashes, failed Redis calls and failed queries
  MaxLate      \* bound: markers of one result that go while its job is in hand

ASSUME QueueAssumption ==
  /\ IsFiniteSet(Requests) /\ IsFiniteSet(Slots) /\ Split \in BOOLEAN
  /\ MaxSession \in Nat \ {0} /\ MaxFailures \in Nat /\ MaxLate \in Nat

VARIABLES
  session,   \* the player's current session; the one before is session - 1
  redis,     \* the result under each key in Redis, or None
  memory,    \* the same in each process's memory tier
  marker,    \* in-flight markers: TRUE if present
  queue,     \* the jobs in the Redis list, oldest first
  slot,      \* the job of each running task: its stage and its result, or None
  request,   \* the step of each handler, the session it asked in, what it read
  failures,  \* how much has gone wrong so far
  late       \* how often a result's marker went too early, under a job in hand: it
             \* expired, or was deleted after an LPUSH that failed

vars == <<session, redis, memory, marker, queue, slot, request, failures, late>>

Sessions == 1..MaxSession
Latest == 0
Keys == Sessions \cup {Latest}
Processes == IF Split THEN {"api", "worker"} ELSE {"api"}
Consumer == IF Split THEN "worker" ELSE "api"

Results == Sessions \cup {None}

(* A job on a slot has a result exactly when it has one to store. *)
Tasks ==
  { t \in [of : Sessions, at : {"compute", "cache", "latest", "evict", "finish"}, result : Results] :
      t.at \in {"cache", "latest", "evict"} => t.result # None }

(* A request that is not idle; it keeps what it read until that is written back. *)
Steps ==
  { q \in [at : {"look", "keep", "mark", "push", "unmark"}, of : Sessions, key : Keys, read : Results] :
      q.at = "keep" <=> q.read # None }

Idle == [at |-> "idle", of |-> None, key |-> None, read |-> None]

ASSUME NoneAssumption == None \notin Nat /\ None \notin Tasks

Init ==
  /\ session = 1
  /\ redis = [k \in Keys |-> None]
  /\ memory = [p \in Processes |-> [k \in Keys |-> None]]
  /\ marker = [n \in Sessions |-> FALSE]
  /\ queue = <<>>
  /\ slot = [s \in Slots |-> None]
  /\ request = [r \in Requests |-> Idle]
  /\ failures = 0
  /\ late = [n \in Sessions |-> 0]

(* The jobs in hand for session n's result: in the list, on a slot, or marked *)
(* by a request that has yet to push them.                                    *)
InQueue(n) == {i \in DOMAIN queue : queue[i] = n}
OnSlot(n) == {s \in Slots : slot[s] # None /\ slot[s].of = n}
Pushing(n) == {r \in Requests : request[r].at = "push" /\ request[r].of = n}
InHand(n) == Cardinality(InQueue(n)) + Cardinality(OnSlot(n)) + Cardinality(Pushing(n))

Fails == failures < MaxFailures /\ failures' = failures + 1

-----------------------------------------------------------------------------
(* get_with_fallback *)

Go(r, step) == request' = [request EXCEPT ![r] = step]

Ask(r) ==
  /\ request[r].at = "idle"
  /\ Go(r, [at |-> "look", of |-> session, key |-> session, read |-> None])
  /\ UNCHANGED <<session, redis, memory, marker, queue, slot, failures, late>>

(* The keys of a request: its session's, the previous session's, the alias. *)
NextKey(of, key) ==
  CASE key = of /\ of > 1 -> of - 1
    [] key = Latest       -> None
    [] OTHER              -> Latest

(* try_cache_lookup answered: a hit on the session's own key ends the request, *)
(* any other hit is served too, as a backup, but queues a job.                 *)
AfterHit(r) ==
  IF request[r].key = request[r].of THEN Idle ELSE [request[r] EXCEPT !.at = "mark"]

(* No result under this key: the next one, and after the last a job. *)
AfterMiss(r) ==
  LET next == NextKey(request[r].of, request[r].key)
  IN  IF next = None THEN [request[r] EXCEPT !.at = "mark"] ELSE [request[r] EXCEPT !.key = next]

(* try_cache_lookup: the memory tier, then Redis. *)
Look(r) ==
  LET q == request[r]
  IN  /\ q.at = "look"
      /\ Go(r, IF memory["api"][q.key] # None THEN AfterHit(r)
               ELSE IF redis[q.key] # None THEN [q EXCEPT !.at = "keep", !.read = redis[q.key]]
               ELSE AfterMiss(r))
      /\ UNCHANGED <<session, redis, memory, marker, queue, slot, failures, late>>

(* A GET without an answer is a miss. *)
LookFails(r) ==
  /\ request[r].at = "look" /\ memory["api"][request[r].key] = None
  /\ Fails
  /\ Go(r, AfterMiss(r))
  /\ UNCHANGED <<session, redis, memory, marker, queue, slot, late>>

(* Mutant of Keep: a backup is kept under the key that was asked for. *)
KeepAsCurrent(r) ==
  /\ request[r].at = "keep"
  /\ memory' = [memory EXCEPT !["api"][request[r].of] = request[r].read]
  /\ Go(r, [AfterHit(r) EXCEPT !.read = None])
  /\ UNCHANGED <<session, redis, marker, queue, slot, failures, late>>

(* What Redis had goes into the memory tier, whatever has been written since. *)
Keep(r) ==
  /\ request[r].at = "keep"
  /\ memory' = [memory EXCEPT !["api"][request[r].key] = request[r].read]
  /\ Go(r, [AfterHit(r) EXCEPT !.read = None])
  /\ UNCHANGED <<session, redis, marker, queue, slot, failures, late>>

(* Mutant of Mark: EXISTS, and SET only with the push: two requests may both pass. *)
MarkLater(r) ==
  LET n == request[r].of
  IN  /\ request[r].at = "mark"
      /\ Go(r, IF marker[n] THEN Idle ELSE [request[r] EXCEPT !.at = "push"])
      /\ UNCHANGED <<session, redis, memory, marker, queue, slot, failures, late>>

(* enqueue_refresh_job: SET NX EX of the marker; who finds it set is done. *)
Mark(r) ==
  LET n == request[r].of
  IN  /\ request[r].at = "mark"
      /\ marker' = [marker EXCEPT ![n] = TRUE]
      /\ Go(r, IF marker[n] THEN Idle ELSE [request[r] EXCEPT !.at = "push"])
      /\ UNCHANGED <<session, redis, memory, queue, slot, failures, late>>

(* LPUSH of the job. *)
Push(r) ==
  /\ request[r].at = "push"
  /\ queue' = Append(queue, request[r].of)
  /\ Go(r, Idle)
  /\ UNCHANGED <<session, redis, memory, marker, slot, failures, late>>

(* Without a connection for the LPUSH the marker stays. *)
NoConnection(r) ==
  /\ request[r].at = "push"
  /\ Fails
  /\ Go(r, Idle)
  /\ UNCHANGED <<session, redis, memory, marker, queue, slot, late>>

(* An LPUSH that failed, applied or not. *)
PushFails(r, applied) ==
  /\ request[r].at = "push"
  /\ Fails
  /\ queue' = IF applied THEN Append(queue, request[r].of) ELSE queue
  /\ Go(r, [request[r] EXCEPT !.at = "unmark"])
  /\ UNCHANGED <<session, redis, memory, marker, slot, late>>

(* A marker goes, be it too early. *)
MarkerGoes(n) ==
  /\ InHand(n) > 0 => late[n] < MaxLate
  /\ late' = [late EXCEPT ![n] = @ + IF InHand(n) > 0 THEN 1 ELSE 0]
  /\ marker' = [marker EXCEPT ![n] = FALSE]

(* Then the marker is deleted, whoever set it by now, or that fails as well. *)
Unmark(r) ==
  /\ request[r].at = "unmark"
  /\ (marker[request[r].of] /\ MarkerGoes(request[r].of)) \/ UNCHANGED <<marker, late>>
  /\ Go(r, Idle)
  /\ UNCHANGED <<session, redis, memory, queue, slot, failures>>

(* try_redis_lock without an answer counts as a marker that is set, as it may  *)
(* have been just now.                                                        *)
MarkFails(r, applied) ==
  /\ request[r].at = "mark"
  /\ Fails
  /\ marker' = [marker EXCEPT ![request[r].of] = @ \/ applied]
  /\ Go(r, Idle)
  /\ UNCHANGED <<session, redis, memory, queue, slot, late>>

-----------------------------------------------------------------------------
(* consume and run_job *)

Set(s, task) == slot' = [slot EXCEPT ![s] = task]

(* BRPOP with a permit in hand. *)
Pop(s) ==
  /\ slot[s] = None /\ queue # <<>>
  /\ Set(s, [of |-> Head(queue), at |-> "compute", result |-> None])
  /\ queue' = Tail(queue)
  /\ UNCHANGED <<session, redis, memory, marker, request, failures, late>>

(* A BRPOP whose answer is lost takes the job with it; the marker stays. *)
PopFails(s) ==
  /\ slot[s] = None /\ queue # <<>>
  /\ Fails
  /\ queue' = Tail(queue)
  /\ UNCHANGED <<session, redis, memory, marker, slot, request, late>>

(* dispatch: the query sees the data of this moment, or fails. *)
Compute(s) ==
  /\ slot[s] # None /\ slot[s].at = "compute"
  /\ Set(s, [slot[s] EXCEPT !.at = "cache", !.result = session])
  /\ UNCHANGED <<session, redis, memory, marker, queue, request, failures, late>>

ComputeFails(s) ==
  /\ slot[s] # None /\ slot[s].at = "compute"
  /\ Fails
  /\ Set(s, [slot[s] EXCEPT !.at = "finish"])
  /\ UNCHANGED <<session, redis, memory, marker, queue, request, late>>

(* cache_raw, drop_cached: the memory tier of this process, then Redis. *)
Write(k, result) ==
  /\ memory' = [memory EXCEPT ![Consumer][k] = result]
  /\ redis' = [redis EXCEPT ![k] = result]

NextStage(stage) == CASE stage = "cache"  -> "latest"
                      [] stage = "latest" -> "evict"
                      [] stage = "evict"  -> "finish"

(* The key a stage writes, and what it writes: the result under the job's own  *)
(* key, again under the alias, and nothing under the previous session's key.  *)
StageKey(task) == CASE task.at = "cache"  -> task.of
                    [] task.at = "latest" -> Latest
                    [] task.at = "evict"  -> task.of - 1
StageValue(task) == IF task.at = "evict" THEN None ELSE task.result
Stages(task) == task.at \in {"cache", "latest", "evict"}
HasKey(task) == task.at = "evict" => task.of > 1

Store(s) ==
  /\ slot[s] # None /\ Stages(slot[s])
  /\ IF HasKey(slot[s]) THEN Write(StageKey(slot[s]), StageValue(slot[s]))
                        ELSE UNCHANGED <<memory, redis>>
  /\ Set(s, [slot[s] EXCEPT !.at = NextStage(slot[s].at)])
  /\ UNCHANGED <<session, marker, queue, request, failures, late>>

(* The same without an answer from Redis, which nobody notices. *)
StoreFails(s) ==
  /\ slot[s] # None /\ Stages(slot[s]) /\ HasKey(slot[s])
  /\ Fails
  /\ memory' = [memory EXCEPT ![Consumer][StageKey(slot[s])] = StageValue(slot[s])]
  /\ Set(s, [slot[s] EXCEPT !.at = NextStage(slot[s].at)])
  /\ UNCHANGED <<session, redis, marker, queue, request, late>>

(* finish_job: DEL of the marker, whoever set it. *)
Finish(s) ==
  /\ slot[s] # None /\ slot[s].at = "finish"
  /\ marker' = [marker EXCEPT ![slot[s].of] = FALSE]
  /\ Set(s, None)
  /\ UNCHANGED <<session, redis, memory, queue, request, failures, late>>

(* finish_job without a connection: the task ends, the marker stays. *)
FinishFails(s) ==
  /\ slot[s] # None /\ slot[s].at = "finish"
  /\ Fails
  /\ Set(s, None)
  /\ UNCHANGED <<session, redis, memory, marker, queue, request, late>>

(* The consumer's process dies: popped jobs are lost, Redis keeps the rest. *)
(* Without a process of its own it takes the API's handlers with it.         *)
Crash ==
  /\ Fails
  /\ slot' = [s \in Slots |-> None]
  /\ memory' = [memory EXCEPT ![Consumer] = [k \in Keys |-> None]]
  /\ request' = IF Split THEN request ELSE [r \in Requests |-> Idle]
  /\ UNCHANGED <<session, redis, marker, queue, late>>

-----------------------------------------------------------------------------
(* Time *)

NewSession ==
  /\ session < MaxSession
  /\ session' = session + 1
  /\ UNCHANGED <<redis, memory, marker, queue, slot, request, failures, late>>

(* Mutant of MarkerExpires: a marker set without EX. *)
MarkerStays(n) == FALSE /\ UNCHANGED <<vars, n>>

(* JOB_INFLIGHT_TTL, counted from the SET: the job may still be waiting in the *)
(* list, or running.                                                           *)
MarkerExpires(n) ==
  /\ marker[n]
  /\ MarkerGoes(n)
  /\ UNCHANGED <<session, redis, memory, queue, slot, request, failures>>

RedisExpires(k) ==
  /\ redis[k] # None
  /\ redis' = [redis EXCEPT ![k] = None]
  /\ UNCHANGED <<session, memory, marker, queue, slot, request, failures, late>>

MemoryExpires(p, k) ==
  /\ memory[p][k] # None
  /\ memory' = [memory EXCEPT ![p][k] = None]
  /\ UNCHANGED <<session, redis, marker, queue, slot, request, failures, late>>

RequestStep(r) == Ask(r) \/ Look(r) \/ Keep(r) \/ Mark(r) \/ Push(r) \/ Unmark(r)
TaskStep(s) ==
  Pop(s) \/ Compute(s) \/ Store(s) \/ Finish(s)

RequestFails(r) ==
  \/ LookFails(r) \/ NoConnection(r)
  \/ \E applied \in BOOLEAN : MarkFails(r, applied) \/ PushFails(r, applied)
TaskFails(s) ==
  PopFails(s) \/ ComputeFails(s) \/ StoreFails(s) \/ FinishFails(s)

Next ==
  \/ \E r \in Requests : RequestStep(r) \/ RequestFails(r)
  \/ \E s \in Slots : TaskStep(s) \/ TaskFails(s)
  \/ Crash
  \/ NewSession
  \/ \E n \in Sessions : MarkerExpires(n)
  \/ \E k \in Keys : RedisExpires(k) \/ \E p \in Processes : MemoryExpires(p, k)

Spec == Init /\ [][Next]_vars

(* Pages keep asking, the runtime runs every task, and keys expire. *)
FairSpec ==
  /\ Spec
  /\ \A r \in Requests : WF_vars(RequestStep(r))
  /\ \A s \in Slots : WF_vars(TaskStep(s))
  /\ \A n \in Sessions : WF_vars(MarkerExpires(n))

-----------------------------------------------------------------------------
(* The shape of the state: what is stored is a result, and what a request      *)
(* keeps is something it read.                                                 *)
TypeOK ==
  /\ session \in Sessions
  /\ redis \in [Keys -> Results]
  /\ memory \in [Processes -> [Keys -> Results]]
  /\ marker \in [Sessions -> BOOLEAN]
  /\ queue \in Seq(Sessions)
  /\ slot \in [Slots -> Tasks \cup {None}]
  /\ request \in [Requests -> Steps \cup {Idle}]
  /\ failures \in 0..MaxFailures
  /\ late \in [Sessions -> 0..MaxLate]

(* However many requests miss at once, and whatever fails, a result has one    *)
(* job in hand at most, plus one for every time its marker went too early: it  *)
(* expired, or was deleted by a caller whose LPUSH failed, though applied or   *)
(* followed by another's; and while none did, a job in hand is marked.         *)
(* (finish_job's DEL takes the marker whoever set it, so after one early       *)
(* expiry the second job loses its marker to the first: still at most two.)    *)
JobsAreMarked ==
  \A n \in Sessions : InHand(n) <= late[n] + IF marker[n] THEN 1 ELSE 0

(* What is cached under a session's key was computed from that session's data, *)
(* in Redis and in every memory tier, however stale the readers that write     *)
(* back what they read.                                                        *)
KeysHoldTheirSession ==
  \A n \in Sessions :
    /\ redis[n] # None => redis[n] >= n
    /\ \A p \in Processes : memory[p][n] # None => memory[p][n] >= n

(* Whatever is lost on the way (a job, a marker's deletion, a push), a page    *)
(* that goes on asking for the current session's result gets it.              *)
AskedIsComputed ==
  \A n \in Sessions :
    (session = n) ~> (session # n \/ redis[n] # None \/ memory["api"][n] # None)
=============================================================================
