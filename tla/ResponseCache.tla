---------------------------- MODULE ResponseCache ----------------------------
(***************************************************************************)
(* cached_response and drop_cached_response for one key of one process      *)
(* (src/src/core/utils.rs): callers that miss both tiers wait for one lock,  *)
(* the first computes the answer, and an administrator's write drops it.     *)
(* What is stored is told by how many writes it reflects. A Redis command    *)
(* that fails was not applied, or its step is that of one that worked, as    *)
(* failures are only logged; a caller may be gone at any await.              *)
(***************************************************************************)
EXTENDS Naturals, Absent

CONSTANTS
  Callers,
  MaxWrites, \* bound: writes that drop the answer
  MaxLosses, \* bound: what may make the answer be computed once more
  MaxForgets \* bound: how often the lock is forgotten

CacheAssumption ==
  /\ MaxWrites \in Nat /\ MaxLosses \in Nat /\ MaxForgets \in Nat
  /\ None \notin Nat

VARIABLES
  source,   \* the writes committed so far
  nearby,   \* the process's tier
  shared,    \* the shared tier
  lock,     \* the key's lock in inflight_locks: how often it was forgotten
  caller,   \* where each call is, what it has read, and the lock it took out
  dropper,  \* the administrator's request
  fills,    \* history: answers computed
  losses,   \* history: expiries, drops, failed reads, lost answers
  overtaken \* history: versions read before or during the last drop, not stored yet

cacheVars == <<source, nearby, shared, lock, caller, dropper, fills, losses, overtaken>>

Versions == 0..MaxWrites
NoCall == [at |-> "idle", got |-> None, lock |-> None]

CacheTypeOK ==
  /\ source \in Versions /\ nearby \in Versions \union {None} /\ shared \in Versions \union {None}
  /\ lock \in 0..MaxForgets /\ dropper \in {"idle", "memory", "redis"}
  /\ caller \in [Callers -> [at : {"idle", "look", "keep", "wait", "reread", "fill", "store", "save"},
                             got : Versions \union {None}, lock : 0..MaxForgets \union {None}]]
  /\ losses \in 0..MaxLosses /\ overtaken \subseteq Versions

CacheInit ==
  /\ source = 0 /\ nearby = None /\ shared = None /\ lock = 0 /\ dropper = "idle"
  /\ caller = [c \in Callers |-> NoCall]
  /\ fills = 0 /\ losses = 0 /\ overtaken = {}

Loss == losses < MaxLosses /\ losses' = losses + 1
NoLoss == UNCHANGED losses

Becomes(c, call) == caller' = [caller EXCEPT ![c] = call]
Moves(c, at) == caller' = [caller EXCEPT ![c].at = at]

OnHand == {caller[c].got : c \in Callers} \ {None}

(* The guard is kept from the lock to the return. *)
Holds(c) ==
  \/ caller[c].at \in {"reread", "fill", "store", "save"}
  \/ caller[c].at = "keep" /\ caller[c].lock # None

(* A hit in memory answers at once. *)
LookUpAnswer(c) ==
  /\ caller[c].at = "idle" /\ nearby = None
  /\ Moves(c, "look")
  /\ UNCHANGED <<source, nearby, shared, lock, dropper, fills, losses, overtaken>>

(* read_through, before and under the lock. *)
Hit(c) ==
  /\ caller[c].at \in {"look", "reread"} /\ shared # None
  /\ Becomes(c, [caller[c] EXCEPT !.at = "keep", !.got = shared])
  /\ overtaken' = IF dropper = "idle" THEN overtaken ELSE overtaken \union {shared}
  /\ UNCHANGED <<source, nearby, shared, lock, dropper, fills, losses>>

(* A miss takes the key's lock out of the map, or goes on to compute. *)
Miss(c) ==
  /\ caller[c].at \in {"look", "reread"}
  /\ IF shared = None THEN NoLoss ELSE Loss
  /\ Becomes(c, IF caller[c].at = "look" THEN [caller[c] EXCEPT !.at = "wait", !.lock = lock]
                                         ELSE [caller[c] EXCEPT !.at = "fill"])
  /\ UNCHANGED <<source, nearby, shared, lock, dropper, fills, overtaken>>

KeepNearby(c) ==
  /\ caller[c].at = "keep"
  /\ nearby' = caller[c].got /\ Becomes(c, NoCall)
  /\ UNCHANGED <<source, shared, lock, dropper, fills, losses, overtaken>>

(* Mutant of Acquire: what was stored meanwhile is not looked for. *)
AcquireAndFill(c) ==
  /\ caller[c].at = "wait"
  /\ \A d \in Callers : Holds(d) => caller[d].lock # caller[c].lock
  /\ Moves(c, "fill")
  /\ UNCHANGED <<source, nearby, shared, lock, dropper, fills, losses, overtaken>>

(* "Coalesced onto in-flight fill": the answer may be in memory by now. *)
Acquire(c) ==
  /\ caller[c].at = "wait"
  /\ \A d \in Callers : Holds(d) => caller[d].lock # caller[c].lock
  /\ IF nearby # None THEN Becomes(c, NoCall) ELSE Moves(c, "reread")
  /\ UNCHANGED <<source, nearby, shared, lock, dropper, fills, losses, overtaken>>

(* callable: the query sees what is committed when it runs. *)
Fill(c) ==
  /\ caller[c].at = "fill"
  /\ Becomes(c, [caller[c] EXCEPT !.at = "store", !.got = source])
  /\ fills' = fills + 1
  /\ UNCHANGED <<source, nearby, shared, lock, dropper, losses, overtaken>>

StoreNearby(c) ==
  /\ caller[c].at = "store"
  /\ nearby' = caller[c].got /\ Moves(c, "save")
  /\ UNCHANGED <<source, shared, lock, dropper, fills, losses, overtaken>>

(* A failed SETEX is only logged. *)
Save(c) ==
  /\ caller[c].at = "save"
  /\ shared' \in {shared, caller[c].got} /\ Becomes(c, NoCall)
  /\ UNCHANGED <<source, nearby, lock, dropper, fills, losses, overtaken>>

(* The query fails, or the client is gone and the call is dropped where it is. *)
GoAway(c) ==
  /\ caller[c].at # "idle" /\ Becomes(c, NoCall)
  /\ IF caller[c].at = "store" THEN Loss ELSE NoLoss
  /\ UNCHANGED <<source, nearby, shared, lock, dropper, fills, overtaken>>

-----------------------------------------------------------------------------
(* create_announcement, update_announcement, delete_announcement: the write is *)
(* committed, then the answer dropped. What callers have in hand is overtaken.  *)
CommitWrite ==
  /\ dropper = "idle" /\ source < MaxWrites /\ Loss
  /\ source' = source + 1 /\ dropper' = "memory" /\ overtaken' = OnHand
  /\ UNCHANGED <<nearby, shared, lock, caller, fills>>

(* Mutant of DropMemory: only the shared tier is dropped. *)
DropNoMemory ==
  /\ dropper = "memory" /\ dropper' = "redis"
  /\ UNCHANGED <<source, nearby, shared, lock, caller, fills, losses, overtaken>>

DropMemory ==
  /\ dropper = "memory" /\ nearby' = None /\ dropper' = "redis"
  /\ UNCHANGED <<source, shared, lock, caller, fills, losses, overtaken>>

DropRedis ==
  /\ dropper = "redis" /\ shared' = None /\ dropper' = "idle"
  /\ UNCHANGED <<source, nearby, lock, caller, fills, losses, overtaken>>

(* A failed DEL is only logged; or the administrator's client is gone. *)
DropFails ==
  /\ dropper # "idle" /\ dropper' = "idle"
  /\ overtaken' = overtaken \union ({nearby, shared} \ {None})
  /\ UNCHANGED <<source, nearby, shared, lock, caller, fills, losses>>

-----------------------------------------------------------------------------
NearbyExpires ==
  /\ nearby # None /\ Loss /\ nearby' = None
  /\ UNCHANGED <<source, shared, lock, caller, dropper, fills, overtaken>>

SharedExpires ==
  /\ shared # None /\ Loss /\ shared' = None
  /\ UNCHANGED <<source, nearby, lock, caller, dropper, fills, overtaken>>

(* Nobody took the lock out of the map for a minute, whoever still holds it. *)
Forget ==
  /\ lock < MaxForgets /\ lock' = lock + 1
  /\ UNCHANGED <<source, nearby, shared, caller, dropper, fills, losses, overtaken>>

CacheNext ==
  \/ \E c \in Callers :
       \/ LookUpAnswer(c) \/ Hit(c) \/ Miss(c) \/ KeepNearby(c) \/ Acquire(c)
       \/ Fill(c) \/ StoreNearby(c) \/ Save(c) \/ GoAway(c)
  \/ CommitWrite \/ DropMemory \/ DropRedis \/ DropFails
  \/ NearbyExpires \/ SharedExpires \/ Forget

CacheSpec == CacheInit /\ [][CacheNext]_cacheVars

-----------------------------------------------------------------------------
(* Callers that miss together compute an answer once: whoever waited for the  *)
(* lock finds it, and it is computed again only for something that lost it;    *)
(* a forgotten lock lets those who hold on to it and those who take out a new  *)
(* one compute side by side.                                                 *)
FilledOnce == fills <= (1 + lock) * (1 + losses)

(* After a drop no tier holds an answer from before the write, unless a call  *)
(* that read it before the drop was over stored it afterwards, or the drop     *)
(* failed.                                                                  *)
DropReachesBoth ==
  dropper = "idle" =>
    \A v \in {nearby, shared} \ {None} : v < source => v \in overtaken
=============================================================================
