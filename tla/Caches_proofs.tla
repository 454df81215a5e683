---------------------------- MODULE Caches_proofs ----------------------------
(***************************************************************************)
(* Proofs about the two caches of the server: the worker cache and its queue, *)
(* for any number of request handlers, worker slots, sessions, failures and *)
(* early expiries; the response cache, for any callers and bounds.         *)
(***************************************************************************)
EXTENDS RefreshQueue, FiniteSetTheorems, ResponseCache, TLAPS


-----------------------------------------------------------------------------
(* Types *)

LEMMA InitType == Init => TypeOK
BY QueueAssumption DEF Init, TypeOK, Sessions, Results, Keys

LEMMA MarkerTypes ==
  ASSUME TypeOK, NEW n \in Sessions, MarkerGoes(n)
  PROVE  marker' \in [Sessions -> BOOLEAN] /\ late' \in [Sessions -> 0..MaxLate]
<1>1. late'[n] \in 0..MaxLate /\ late' \in [Sessions -> 0..MaxLate]
  BY QueueAssumption DEF TypeOK, MarkerGoes
<1> QED
  BY <1>1 DEF TypeOK, MarkerGoes

LEMMA RequestType ==
  ASSUME TypeOK, NEW r \in Requests, RequestStep(r) \/ RequestFails(r)
  PROVE  TypeOK'
<1> USE DEF TypeOK
<1>0. /\ request[r].at # "idle" => request[r] \in Steps
      /\ Idle.at = "idle"
  BY DEF Idle
<1>1. CASE Ask(r)
  BY <1>1 DEF Ask, Go, Steps, Keys, Results
<1>2. CASE Look(r) \/ LookFails(r)
  <2> DEFINE q == request[r]
  <2>1. q \in Steps /\ q.at = "look"
    BY <1>0, <1>2 DEF Look, LookFails
  <2>2. NextKey(q.of, q.key) \in Keys \cup {None}
    BY <2>1, QueueAssumption DEF NextKey, Steps, Keys, Sessions, Latest
  <2>3. AfterHit(r) \in Steps \cup {Idle}
    BY <2>1 DEF AfterHit, Steps
  <2>4. [q EXCEPT !.at = "keep", !.read = redis[q.key]] \in Steps \/ redis[q.key] = None
    BY <2>1 DEF Steps
  <2>5. AfterMiss(r) \in Steps
    BY <2>1, <2>2 DEF AfterMiss, Steps
  <2>6. request' \in [Requests -> Steps \cup {Idle}]
    BY <1>2, <2>3, <2>4, <2>5 DEF Look, LookFails, Go
  <2>7. failures' \in 0..MaxFailures
    BY <1>2, QueueAssumption DEF Look, LookFails, Fails
  <2> QED
    BY <1>2, <2>6, <2>7 DEF Look, LookFails
<1>3. CASE Keep(r)
  <2>1. request[r] \in Steps /\ request[r].at = "keep"
    BY <1>0, <1>3 DEF Keep
  <2>2. [AfterHit(r) EXCEPT !.read = None] \in Steps \cup {Idle}
    <3>1. [Idle EXCEPT !.read = None] = Idle
      BY DEF Idle
    <3>2. [[request[r] EXCEPT !.at = "mark"] EXCEPT !.read = None] \in Steps
      BY <2>1 DEF Steps, Results
    <3> QED
      BY <3>1, <3>2 DEF AfterHit
  <2>3. memory' \in [Processes -> [Keys -> Results]]
    BY <1>3, <2>1 DEF Keep, Steps
  <2> QED
    BY <1>3, <2>2, <2>3 DEF Keep, Go
<1>4. CASE Mark(r)
  BY <1>0, <1>4 DEF Mark, Go, Steps
<1>5. CASE Push(r)
  BY <1>0, <1>5 DEF Push, Go, Steps
<1>6. ASSUME NEW applied \in BOOLEAN, MarkFails(r, applied) PROVE TypeOK'
  <2>1. failures' \in 0..MaxFailures
    BY <1>6, QueueAssumption DEF MarkFails, Fails
  <2>2. marker' \in [Sessions -> BOOLEAN]
    BY <1>6 DEF MarkFails
  <2> QED
    BY <1>6, <2>1, <2>2 DEF MarkFails, Go
<1>7. ASSUME NEW applied \in BOOLEAN, PushFails(r, applied) PROVE TypeOK'
  <2>1. request[r].of \in Sessions /\ [request[r] EXCEPT !.at = "unmark"] \in Steps
    BY <1>0, <1>7 DEF PushFails, Steps
  <2>2. failures' \in 0..MaxFailures
    BY <1>7, QueueAssumption DEF PushFails, Fails
  <2>3. queue' \in Seq(Sessions)
    BY <1>7, <2>1 DEF PushFails
  <2> QED
    BY <1>7, <2>1, <2>2, <2>3 DEF PushFails, Go
<1>8. CASE NoConnection(r)
  <2>1. failures' \in 0..MaxFailures
    BY <1>8, QueueAssumption DEF NoConnection, Fails
  <2> QED
    BY <1>8, <2>1 DEF NoConnection, Go
<1>9. CASE Unmark(r)
  <2>1. request[r].of \in Sessions
    BY <1>0, <1>9 DEF Unmark, Steps
  <2>2. marker' \in [Sessions -> BOOLEAN] /\ late' \in [Sessions -> 0..MaxLate]
    <3>1. CASE UNCHANGED <<marker, late>>
      BY <3>1
    <3>2. CASE MarkerGoes(request[r].of)
      BY <2>1, <3>2, MarkerTypes
    <3> QED
      BY <1>9, <3>1, <3>2 DEF Unmark
  <2> QED
    BY <1>9, <2>2 DEF Unmark, Go
<1> QED
  BY <1>1, <1>2, <1>3, <1>4, <1>5, <1>6, <1>7, <1>8, <1>9 DEF RequestStep, RequestFails

LEMMA TaskType ==
  ASSUME TypeOK, NEW s \in Slots, TaskStep(s) \/ TaskFails(s)
  PROVE  TypeOK'
<1> USE DEF TypeOK
<1>0. slot[s] # None => slot[s] \in Tasks
  OBVIOUS
<1>1. CASE Pop(s)
  BY <1>1 DEF Pop, Set, Tasks, Results
<1>2. CASE Compute(s)
  <2>1. session \in Sessions /\ session # None
    BY NoneAssumption, QueueAssumption DEF Sessions
  <2>2. [slot[s] EXCEPT !.at = "cache", !.result = session] \in Tasks
    BY <1>0, <1>2, <2>1 DEF Compute, Tasks, Results
  <2> QED
    BY <1>2, <2>2 DEF Compute, Set
<1>3. CASE ComputeFails(s)
  <2>1. slot' \in [Slots -> Tasks \cup {None}]
    BY <1>0, <1>3 DEF ComputeFails, Set, Tasks
  <2>2. failures' \in 0..MaxFailures
    BY <1>3, QueueAssumption DEF ComputeFails, Fails
  <2> QED
    BY <1>3, <2>1, <2>2 DEF ComputeFails
<1>4. ASSUME slot[s] # None, Stages(slot[s])
      PROVE  /\ [slot[s] EXCEPT !.at = NextStage(slot[s].at)] \in Tasks
             /\ HasKey(slot[s]) => StageKey(slot[s]) \in Keys
             /\ StageValue(slot[s]) \in Results
  <2>1. slot[s] \in Tasks /\ slot[s].of \in Nat \ {0} /\ slot[s].of <= MaxSession
    BY <1>0, <1>4, QueueAssumption DEF Tasks, Sessions
  <2>2. NextStage(slot[s].at) \in {"latest", "evict", "finish"}
    BY <1>4 DEF Stages, NextStage
  <2>3. [slot[s] EXCEPT !.at = NextStage(slot[s].at)] \in Tasks
    BY <2>1, <2>2, <1>4 DEF Tasks, Stages
  <2>4. HasKey(slot[s]) => StageKey(slot[s]) \in Keys
    BY <2>1, <1>4, QueueAssumption DEF Stages, HasKey, StageKey, Keys, Sessions, Latest
  <2>5. StageValue(slot[s]) \in Results
    BY <2>1 DEF Tasks, StageValue, Results
  <2> QED
    BY <2>3, <2>4, <2>5
<1>5. CASE Store(s)
  <2>0. \/ UNCHANGED <<memory, redis>>
        \/ /\ HasKey(slot[s])
           /\ memory' = [memory EXCEPT ![Consumer][StageKey(slot[s])] = StageValue(slot[s])]
           /\ redis' = [redis EXCEPT ![StageKey(slot[s])] = StageValue(slot[s])]
    BY <1>5 DEF Store, Write
  <2>a. slot[s] # None /\ Stages(slot[s])
    BY <1>5 DEF Store
  <2>1. memory' \in [Processes -> [Keys -> Results]]
    <3>1. CASE UNCHANGED <<memory, redis>>
      BY <3>1
    <3>2. CASE HasKey(slot[s]) /\ memory' = [memory EXCEPT ![Consumer][StageKey(slot[s])] = StageValue(slot[s])]
      BY <1>4, <2>a, <3>2
    <3> QED
      BY <2>0, <3>1, <3>2
  <2>2. redis' \in [Keys -> Results]
    BY <1>4, <2>0, <2>a
  <2>3. slot' \in [Slots -> Tasks \cup {None}]
    BY <1>4, <1>5 DEF Store, Set
  <2> QED
    BY <1>5, <2>1, <2>2, <2>3 DEF Store
<1>6. CASE StoreFails(s)
  <2>1. memory' \in [Processes -> [Keys -> Results]]
    BY <1>4, <1>6 DEF StoreFails
  <2>2. slot' \in [Slots -> Tasks \cup {None}]
    BY <1>4, <1>6 DEF StoreFails, Set
  <2>3. failures' \in 0..MaxFailures
    BY <1>6, QueueAssumption DEF StoreFails, Fails
  <2> QED
    BY <1>6, <2>1, <2>2, <2>3 DEF StoreFails
<1>7. CASE Finish(s)
  BY <1>0, <1>7 DEF Finish, Set, Tasks
<1>8. CASE FinishFails(s)
  BY <1>8, QueueAssumption DEF FinishFails, Set, Fails
<1>9. CASE PopFails(s)
  BY <1>9, QueueAssumption DEF PopFails, Fails
<1> QED
  BY <1>1, <1>2, <1>3, <1>5, <1>6, <1>7, <1>8, <1>9 DEF TaskStep, TaskFails

LEMMA TypeStep == TypeOK /\ [Next]_vars => TypeOK'
<1> SUFFICES ASSUME TypeOK, [Next]_vars PROVE TypeOK'
  OBVIOUS
<1>1. ASSUME NEW r \in Requests, RequestStep(r) \/ RequestFails(r)
      PROVE  TypeOK'
  BY <1>1, RequestType
<1>2. ASSUME NEW s \in Slots, TaskStep(s) \/ TaskFails(s)
      PROVE  TypeOK'
  BY <1>2, TaskType
<1>3. CASE Crash
  <2>1. memory' \in [Processes -> [Keys -> Results]]
    BY <1>3 DEF TypeOK, Crash, Results
  <2>2. slot' \in [Slots -> Tasks \cup {None}]
    BY <1>3 DEF TypeOK, Crash
  <2>3. request' \in [Requests -> Steps \cup {Idle}]
    BY <1>3 DEF TypeOK, Crash
  <2>4. failures' \in 0..MaxFailures
    BY <1>3, QueueAssumption DEF TypeOK, Crash, Fails
  <2> QED
    BY <1>3, <2>1, <2>2, <2>3, <2>4 DEF TypeOK, Crash
<1>4. CASE NewSession
  BY <1>4, QueueAssumption DEF TypeOK, NewSession, Sessions
<1>5. ASSUME NEW n \in Sessions, MarkerExpires(n) PROVE TypeOK'
  <2>1. marker' \in [Sessions -> BOOLEAN] /\ late' \in [Sessions -> 0..MaxLate]
    BY <1>5, MarkerTypes DEF MarkerExpires
  <2> QED
    BY <1>5, <2>1 DEF TypeOK, MarkerExpires
<1>6. ASSUME NEW k \in Keys, RedisExpires(k) PROVE TypeOK'
  BY <1>6 DEF TypeOK, RedisExpires, Results
<1>7. ASSUME NEW k \in Keys, NEW p \in Processes, MemoryExpires(p, k) PROVE TypeOK'
  BY <1>7 DEF TypeOK, MemoryExpires, Results
<1>8. CASE UNCHANGED vars
  BY <1>8 DEF TypeOK, vars
<1> QED
  BY <1>1, <1>2, <1>3, <1>4, <1>5, <1>6, <1>7, <1>8 DEF Next

(* Every state of the caches, markers, queue, tasks and requests is well typed. *)
THEOREM QueueTypes == Spec => []TypeOK
BY InitType, TypeStep, PTL DEF Spec

-----------------------------------------------------------------------------
(* Counting jobs *)

One(b) == IF b THEN 1 ELSE 0

(* Two sets that differ in one element at most differ by it in size. *)
LEMMA OneMoves ==
  ASSUME NEW A, NEW B, NEW x, IsFiniteSet(A), A \ {x} = B \ {x}
  PROVE  /\ IsFiniteSet(B)
         /\ Cardinality(A) \in Nat /\ Cardinality(B) \in Nat
         /\ Cardinality(B) = Cardinality(A) + One(x \in B) - One(x \in A)
<1> DEFINE C == A \ {x}
<1>1. IsFiniteSet(C) /\ Cardinality(C) \in Nat
  BY FS_Subset, FS_CardinalityType
<1>2. A = C \/ A = C \cup {x}
  OBVIOUS
<1>3. B = C \/ B = C \cup {x}
  OBVIOUS
<1>4. x \notin C
  OBVIOUS
<1>5. IsFiniteSet(C \cup {x}) /\ Cardinality(C \cup {x}) = Cardinality(C) + 1
  BY <1>1, <1>4, FS_AddElement
<1> HIDE DEF C
<1> QED
  BY <1>1, <1>2, <1>3, <1>4, <1>5 DEF One

Occurs(q, n) == {i \in DOMAIN q : q[i] = n}

LEMMA OccursFinite ==
  ASSUME NEW S, NEW q \in Seq(S), NEW n
  PROVE  IsFiniteSet(Occurs(q, n)) /\ Cardinality(Occurs(q, n)) \in Nat
<1>1. Occurs(q, n) \in SUBSET (1..Len(q)) /\ Len(q) \in Int
  BY DEF Occurs
<1>2. IsFiniteSet(1..Len(q))
  BY <1>1, FS_Interval
<1>3. IsFiniteSet(Occurs(q, n))
  BY <1>1, <1>2, FS_Subset
<1> QED
  BY <1>3, FS_CardinalityType

LEMMA AppendCounts ==
  ASSUME NEW S, NEW q \in Seq(S), NEW m \in S, NEW n
  PROVE  Cardinality(Occurs(Append(q, m), n)) = Cardinality(Occurs(q, n)) + One(m = n)
<1> DEFINE last == Len(q) + 1
<1>1. Occurs(Append(q, m), n) \ {last} = Occurs(q, n) \ {last}
  BY DEF Occurs
<1>2. last \notin Occurs(q, n) /\ (last \in Occurs(Append(q, m), n) <=> m = n)
  BY DEF Occurs
<1> HIDE DEF last
<1> QED
  BY <1>1, <1>2, OccursFinite, OneMoves DEF One

LEMMA TailCounts ==
  ASSUME NEW S, NEW q \in Seq(S), q # <<>>, NEW n
  PROVE  Cardinality(Occurs(Tail(q), n)) = Cardinality(Occurs(q, n)) - One(Head(q) = n)
<1> DEFINE rest == {i \in 2..Len(q) : q[i] = n}
           shift == [i \in Occurs(Tail(q), n) |-> i + 1]
<1>1. Tail(q) \in Seq(S) /\ Len(Tail(q)) = Len(q) - 1 /\ Len(q) \in Nat \ {0}
  OBVIOUS
<1>2. \A i \in 1..(Len(q) - 1) : Tail(q)[i] = q[i + 1]
  OBVIOUS
<1>3. shift \in Bijection(Occurs(Tail(q), n), rest)
  <2>1. \A i \in Occurs(Tail(q), n) : i \in Nat /\ i + 1 \in rest
    BY <1>1, <1>2 DEF Occurs
  <2>2. \A j \in rest : j - 1 \in Occurs(Tail(q), n) /\ shift[j - 1] = j
    BY <1>1, <1>2 DEF Occurs
  <2> QED
    BY <2>1, <2>2 DEF Bijection, Injection, Surjection, IsInjective
<1>4. IsFiniteSet(rest) /\ Cardinality(rest) = Cardinality(Occurs(Tail(q), n))
  <2>1. IsFiniteSet(Occurs(Tail(q), n))
    BY <1>1, OccursFinite
  <2>2. ExistsBijection(Occurs(Tail(q), n), rest)
    BY <1>3 DEF ExistsBijection
  <2> HIDE DEF rest
  <2> QED
    BY <2>1, <2>2, FS_Bijection
<1>5. Occurs(q, n) \ {1} = rest \ {1} /\ 1 \notin rest /\ (1 \in Occurs(q, n) <=> Head(q) = n)
  BY <1>1 DEF Occurs
<1> HIDE DEF rest
<1> QED
  BY <1>4, <1>5, OneMoves, OccursFinite DEF One

(* The three kinds of jobs in hand are finite in number. *)
LEMMA HandsFinite ==
  ASSUME TypeOK, NEW n
  PROVE  /\ InQueue(n) = Occurs(queue, n)
         /\ IsFiniteSet(InQueue(n)) /\ Cardinality(InQueue(n)) \in Nat
         /\ IsFiniteSet(OnSlot(n)) /\ Cardinality(OnSlot(n)) \in Nat
         /\ IsFiniteSet(Pushing(n)) /\ Cardinality(Pushing(n)) \in Nat
<1>1. InQueue(n) = Occurs(queue, n)
  BY DEF InQueue, Occurs
<1>2. IsFiniteSet(OnSlot(n))
  BY QueueAssumption, FS_Subset DEF OnSlot
<1>3. IsFiniteSet(Pushing(n))
  BY QueueAssumption, FS_Subset DEF Pushing
<1>4. queue \in Seq(Sessions)
  BY DEF TypeOK
<1> QED
  BY <1>1, <1>2, <1>3, <1>4, OccursFinite, FS_CardinalityType

(* One handler's step moves its own push only, one task's step its own task. *)
LEMMA PushMoves ==
  ASSUME TypeOK, NEW r \in Requests, NEW n,
         \A q \in Requests \ {r} : request'[q] = request[q]
  PROVE  /\ Cardinality(Pushing(n)') = Cardinality(Pushing(n))
                + One(r \in Pushing(n)') - One(r \in Pushing(n))
         /\ Cardinality(Pushing(n)') \in Nat
<1>1. Pushing(n) \ {r} = Pushing(n)' \ {r}
  BY DEF Pushing
<1> QED
  BY <1>1, HandsFinite, OneMoves

LEMMA TaskMoves ==
  ASSUME TypeOK, NEW s \in Slots, NEW n,
         \A t \in Slots \ {s} : slot'[t] = slot[t]
  PROVE  /\ Cardinality(OnSlot(n)') = Cardinality(OnSlot(n))
                + One(s \in OnSlot(n)') - One(s \in OnSlot(n))
         /\ Cardinality(OnSlot(n)') \in Nat
<1>1. OnSlot(n) \ {s} = OnSlot(n)' \ {s}
  BY DEF OnSlot
<1> QED
  BY <1>1, HandsFinite, OneMoves

-----------------------------------------------------------------------------
(* Jobs in hand are marked *)

(* A marker that goes under a job in hand is counted. *)
LEMMA MarkerJobs ==
  ASSUME TypeOK, JobsAreMarked, NEW m \in Sessions, marker[m], MarkerGoes(m),
         \A n \in Sessions : InHand(n)' = InHand(n)
  PROVE  JobsAreMarked'
<1> SUFFICES ASSUME NEW n \in Sessions
             PROVE  (InHand(n) <= late[n] + IF marker[n] THEN 1 ELSE 0)'
  BY DEF JobsAreMarked
<1>1. InHand(n)' = InHand(n) /\ InHand(n) \in Nat
  BY HandsFinite DEF InHand
<1>2. late[n] \in Nat /\ (n # m => late'[n] = late[n] /\ marker'[n] = marker[n])
  <2>1. late[n] \in Nat
    BY QueueAssumption DEF TypeOK
  <2> HIDE DEF InHand
  <2> QED
    BY <2>1 DEF MarkerGoes, TypeOK
<1>3. n = m => late'[n] = late[n] + (IF InHand(n) > 0 THEN 1 ELSE 0) /\ marker[n]
  BY DEF MarkerGoes, TypeOK
<1> QED
  BY <1>1, <1>2, <1>3 DEF JobsAreMarked

LEMMA UnmarkJobs ==
  ASSUME TypeOK, JobsAreMarked, NEW r \in Requests, Unmark(r)
  PROVE  JobsAreMarked'
<1>1. request[r] \in Steps /\ request[r].at = "unmark" /\ request'[r] = Idle
  BY DEF Unmark, Idle, TypeOK, Go
<1>2. queue' = queue /\ slot' = slot /\ \A o \in Requests \ {r} : request'[o] = request[o]
  BY DEF Unmark, Go, TypeOK
<1>3. ASSUME NEW n PROVE InHand(n)' = InHand(n)
  <2>1. Pushing(n)' = Pushing(n)
    BY <1>1, <1>2 DEF Pushing, Idle
  <2> QED
    BY <1>2, <2>1 DEF InHand, InQueue, OnSlot
<1>4. CASE UNCHANGED <<marker, late>>
  BY <1>3, <1>4 DEF JobsAreMarked
<1>5. CASE marker[request[r].of] /\ MarkerGoes(request[r].of)
  BY <1>1, <1>3, <1>5, MarkerJobs DEF Steps
<1> QED
  BY <1>4, <1>5 DEF Unmark

LEMMA RequestJobs ==
  ASSUME TypeOK, JobsAreMarked, NEW r \in Requests,
         RequestStep(r) \/ RequestFails(r)
  PROVE  JobsAreMarked'
<1>0. CASE Unmark(r)
  BY <1>0, UnmarkJobs
<1> SUFFICES ASSUME ~Unmark(r) PROVE JobsAreMarked'
  BY <1>0
<1> SUFFICES ASSUME NEW n \in Sessions
             PROVE  (InHand(n) <= late[n] + IF marker[n] THEN 1 ELSE 0)'
  BY DEF JobsAreMarked
<1> DEFINE q == Cardinality(InQueue(n))
           t == Cardinality(OnSlot(n))
           p == Cardinality(Pushing(n))
<1>1. /\ q \in Nat /\ t \in Nat /\ p \in Nat /\ late[n] \in Nat
      /\ q + t + p <= late[n] + One(marker[n])
  BY HandsFinite, QueueAssumption DEF JobsAreMarked, InHand, One, TypeOK
<1>2. /\ slot' = slot /\ t' = t
      /\ late' = late
      /\ \A o \in Requests \ {r} : request'[o] = request[o]
  BY DEF RequestStep, RequestFails, Ask, Look, LookFails, Keep, Mark, Push, MarkFails, PushFails,
         NoConnection, Go, OnSlot, TypeOK
<1>3. p' = p + One(r \in Pushing(n)') - One(r \in Pushing(n)) /\ p' \in Nat
  BY <1>2, PushMoves
<1>4. request[r] # Idle => request[r] \in Steps
  BY DEF TypeOK
<1>5. SUFFICES q' + t' + p' <= late'[n] + One(marker'[n])
  BY DEF InHand, One
<1>6. CASE Ask(r) \/ Look(r) \/ LookFails(r) \/ Keep(r) \/ \E applied \in BOOLEAN : MarkFails(r, applied)
  <2>1. queue' = queue /\ (marker[n] => marker'[n]) /\ q' = q /\ late' = late
    BY <1>6 DEF Ask, Look, LookFails, Keep, MarkFails, InQueue, TypeOK
  <2>2. request'[r].at # "push"
    <3>1. CASE Ask(r) \/ \E applied \in BOOLEAN : MarkFails(r, applied)
      BY <3>1 DEF Ask, MarkFails, Go, Idle, TypeOK
    <3>2. CASE Look(r) \/ LookFails(r)
      <4>1. request[r] \in Steps /\ request[r].at = "look"
        BY <1>4, <3>2 DEF Look, LookFails, Idle
      <4>2. AfterMiss(r).at # "push" /\ AfterHit(r).at # "push"
        BY <4>1 DEF AfterMiss, AfterHit, Idle, Steps
      <4> QED
        BY <3>2, <4>1, <4>2 DEF Look, LookFails, Go, TypeOK, Steps
    <3>3. CASE Keep(r)
      <4>1. request[r] \in Steps /\ request[r].at = "keep"
        BY <1>4, <3>3 DEF Keep, Idle
      <4> QED
        BY <3>3, <4>1 DEF Keep, Go, AfterHit, Idle, TypeOK, Steps
    <3> QED
      BY <1>6, <3>1, <3>2, <3>3
  <2>3. r \notin Pushing(n)' 
    BY <2>2 DEF Pushing
  <2> HIDE DEF q, t, p
  <2> QED
    BY <1>1, <1>2, <1>3, <2>1, <2>3 DEF One
<1>7. CASE Mark(r)
  <2>1. queue' = queue /\ q' = q /\ r \notin Pushing(n)
    BY <1>7 DEF Mark, InQueue, Pushing
  <2>2. request[r].at = "mark" /\ request[r] \in Steps
    BY <1>4, <1>7 DEF Mark, Idle
  <2>3. r \in Pushing(n)' => request[r].of = n /\ ~marker[n]
    BY <1>7, <2>2 DEF Mark, Go, Pushing, Idle, TypeOK, Steps
  <2>4. (marker[n] => marker'[n]) /\ (request[r].of = n => marker'[n])
    BY <1>7, <2>2 DEF Mark, TypeOK, Steps
  <2> HIDE DEF q, t, p
  <2> QED
    BY <1>1, <1>2, <1>3, <1>7, <2>1, <2>3, <2>4 DEF One, RequestStep
<1>8. CASE Push(r)
  <2>1. request[r].at = "push" /\ request[r].of \in Sessions
    BY <1>4, <1>8 DEF Push, Idle, Steps
  <2>2. q' = q + One(request[r].of = n) /\ marker' = marker
    <3>1. InQueue(n)' = Occurs(Append(queue, request[r].of), n) /\ marker' = marker
      BY <1>8 DEF Push, InQueue, Occurs
    <3> QED
      BY <3>1, <2>1, AppendCounts, HandsFinite DEF TypeOK
  <2>3. (r \in Pushing(n) <=> request[r].of = n) /\ r \notin Pushing(n)'
    BY <1>8, <2>1 DEF Push, Go, Pushing, Idle, TypeOK
  <2> HIDE DEF q, t, p
  <2> QED
    BY <1>1, <1>2, <1>3, <1>8, <2>2, <2>3 DEF One, RequestStep
<1>9. ASSUME NEW applied \in BOOLEAN, PushFails(r, applied)
      PROVE  q' + t' + p' <= late'[n] + One(marker'[n])
  <2>1. request[r].at = "push" /\ request[r].of \in Sessions /\ marker' = marker
    BY <1>4, <1>9 DEF PushFails, Idle, Steps
  <2>2. q' = q + One(applied /\ request[r].of = n)
    <3>1. CASE applied
      <4>1. InQueue(n)' = Occurs(Append(queue, request[r].of), n)
        BY <1>9, <3>1 DEF PushFails, InQueue, Occurs
      <4> QED
        BY <3>1, <4>1, <2>1, AppendCounts, HandsFinite DEF TypeOK, One
    <3>2. CASE ~applied
      BY <1>1, <1>9, <3>2 DEF PushFails, InQueue, One
    <3> QED
      BY <3>1, <3>2
  <2>3. r \in Pushing(n) <=> request[r].of = n
    BY <2>1 DEF Pushing
  <2>4. r \notin Pushing(n)'
    <3>1. request'[r] = [request[r] EXCEPT !.at = "unmark"] /\ request[r] \in Steps
      BY <1>4, <1>9 DEF PushFails, Go, TypeOK, Idle
    <3>2. request'[r].at = "unmark"
      BY <3>1 DEF Steps
    <3> QED
      BY <3>2 DEF Pushing
  <2> HIDE DEF q, t, p
  <2> QED
    BY <1>1, <1>2, <1>3, <2>1, <2>2, <2>3, <2>4 DEF One
<1>10. CASE NoConnection(r)
  <2>1. queue' = queue /\ marker' = marker /\ q' = q /\ r \notin Pushing(n)'
    BY <1>10 DEF NoConnection, InQueue, Go, Pushing, Idle, TypeOK
  <2> HIDE DEF q, t, p
  <2> QED
    BY <1>1, <1>2, <1>3, <2>1 DEF One
<1> QED
  BY <1>6, <1>7, <1>8, <1>9, <1>10 DEF RequestStep, RequestFails

LEMMA TaskJobs ==
  ASSUME TypeOK, JobsAreMarked, NEW s \in Slots,
         TaskStep(s) \/ TaskFails(s)
  PROVE  JobsAreMarked'
<1> SUFFICES ASSUME NEW n \in Sessions
             PROVE  (InHand(n) <= late[n] + IF marker[n] THEN 1 ELSE 0)'
  BY DEF JobsAreMarked
<1> DEFINE q == Cardinality(InQueue(n))
           t == Cardinality(OnSlot(n))
           p == Cardinality(Pushing(n))
<1>1. /\ q \in Nat /\ t \in Nat /\ p \in Nat /\ late[n] \in Nat
      /\ q + t + p <= late[n] + One(marker[n])
  BY HandsFinite, QueueAssumption DEF JobsAreMarked, InHand, One, TypeOK
<1>2. /\ request' = request /\ late' = late /\ p' = p
      /\ \A o \in Slots \ {s} : slot'[o] = slot[o]
  BY DEF TaskStep, TaskFails, Pop, Compute, Store, Finish, PopFails, ComputeFails, StoreFails, FinishFails, Set, Pushing, TypeOK
<1>3. t' = t + One(s \in OnSlot(n)') - One(s \in OnSlot(n)) /\ t' \in Nat
  BY <1>2, TaskMoves
<1>4. slot[s] # None => slot[s] \in Tasks
  BY DEF TypeOK
<1>5. SUFFICES q' + t' + p' <= late'[n] + One(marker'[n])
  BY DEF InHand, One
<1>6. CASE Pop(s)
  <2>1. q' = q - One(Head(queue) = n) /\ marker' = marker
    <3>1. InQueue(n)' = Occurs(Tail(queue), n) /\ marker' = marker /\ queue # <<>>
      BY <1>6 DEF Pop, InQueue, Occurs
    <3> QED
      BY <3>1, TailCounts, HandsFinite DEF TypeOK
  <2>2. s \notin OnSlot(n) /\ (s \in OnSlot(n)' => Head(queue) = n)
    BY <1>6 DEF Pop, Set, OnSlot, TypeOK
  <2> HIDE DEF q, t, p
  <2> QED
    BY <1>1, <1>2, <1>3, <2>1, <2>2 DEF One
<1>7. CASE Compute(s) \/ ComputeFails(s) \/ Store(s) \/ StoreFails(s)
  <2>1. queue' = queue /\ marker' = marker /\ q' = q
    BY <1>7 DEF Compute, ComputeFails, Store, StoreFails, InQueue
  <2>2. slot[s] # None /\ slot'[s].of = slot[s].of
    <3>1. slot[s] # None /\ slot[s] \in Tasks
      BY <1>4, <1>7 DEF Compute, ComputeFails, Store, StoreFails
    <3>2. CASE Compute(s)
      BY <3>1, <3>2 DEF Compute, Set, TypeOK, Tasks
    <3>3. CASE ComputeFails(s)
      BY <3>1, <3>3 DEF ComputeFails, Set, TypeOK, Tasks
    <3>4. CASE Store(s)
      BY <3>1, <3>4 DEF Store, Set, TypeOK, Tasks
    <3>5. CASE StoreFails(s)
      BY <3>1, <3>5 DEF StoreFails, Set, TypeOK, Tasks
    <3> QED
      BY <1>7, <3>1, <3>2, <3>3, <3>4, <3>5
  <2>3. s \in OnSlot(n)' => s \in OnSlot(n)
    BY <2>2 DEF OnSlot
  <2> HIDE DEF q, t, p
  <2> QED
    BY <1>1, <1>2, <1>3, <2>1, <2>3 DEF One
<1>8. CASE Finish(s) \/ FinishFails(s)
  <2>1. queue' = queue /\ q' = q /\ s \notin OnSlot(n)'
    BY <1>8 DEF Finish, FinishFails, Set, InQueue, OnSlot, TypeOK
  <2>2. s \in OnSlot(n) <=> slot[s].of = n
    BY <1>8 DEF Finish, FinishFails, OnSlot
  <2>3. marker'[n] = marker[n] \/ slot[s].of = n
    BY <1>8 DEF Finish, FinishFails, TypeOK
  <2> HIDE DEF q, t, p
  <2> QED
    BY <1>1, <1>2, <1>3, <2>1, <2>2, <2>3 DEF One
<1>9. CASE PopFails(s)
  <2>1. q' = q - One(Head(queue) = n) /\ marker' = marker /\ OnSlot(n)' = OnSlot(n)
    <3>1. /\ InQueue(n)' = Occurs(Tail(queue), n) /\ marker' = marker /\ queue # <<>>
          /\ OnSlot(n)' = OnSlot(n)
      BY <1>9 DEF PopFails, InQueue, Occurs, OnSlot
    <3> QED
      BY <3>1, TailCounts, HandsFinite DEF TypeOK
  <2> HIDE DEF q, t, p
  <2> QED
    BY <1>1, <1>2, <1>3, <2>1 DEF One
<1> QED
  BY <1>6, <1>7, <1>8, <1>9 DEF TaskStep, TaskFails

LEMMA CrashJobs == TypeOK /\ JobsAreMarked /\ Crash => JobsAreMarked'
<1> SUFFICES ASSUME TypeOK, JobsAreMarked, Crash, NEW n \in Sessions
             PROVE  (InHand(n) <= late[n] + IF marker[n] THEN 1 ELSE 0)'
  BY DEF JobsAreMarked
<1>1. InQueue(n)' = InQueue(n) /\ OnSlot(n)' = {} /\ Pushing(n)' \in SUBSET Pushing(n)
  BY DEF Crash, InQueue, OnSlot, Pushing, Idle, TypeOK
<1>2. /\ Cardinality(OnSlot(n)') = 0
      /\ Cardinality(Pushing(n)') <= Cardinality(Pushing(n)) /\ Cardinality(Pushing(n)') \in Nat
  BY <1>1, HandsFinite, FS_EmptySet, FS_Subset, FS_CardinalityType
<1>3. late' = late /\ marker' = marker /\ late[n] \in Nat
  BY QueueAssumption DEF Crash, TypeOK
<1>4. InHand(n)' <= InHand(n) /\ InHand(n)' \in Nat /\ InHand(n) \in Nat
  BY <1>1, <1>2, HandsFinite DEF InHand
<1> QED
  BY <1>3, <1>4 DEF JobsAreMarked

LEMMA ExpiryJobs ==
  ASSUME TypeOK, JobsAreMarked, NEW m \in Sessions, MarkerExpires(m)
  PROVE  JobsAreMarked'
<1>1. \A n \in Sessions : InHand(n)' = InHand(n)
  BY DEF MarkerExpires, InHand, InQueue, OnSlot, Pushing
<1>2. marker[m] /\ MarkerGoes(m)
  BY DEF MarkerExpires
<1> QED
  BY <1>1, <1>2, MarkerJobs

LEMMA JobStep == TypeOK /\ JobsAreMarked /\ [Next]_vars => JobsAreMarked'
<1> SUFFICES ASSUME TypeOK, JobsAreMarked, [Next]_vars PROVE JobsAreMarked'
  OBVIOUS
<1>1. ASSUME UNCHANGED <<marker, queue, slot, request, late>> PROVE JobsAreMarked'
  BY <1>1 DEF JobsAreMarked, InHand, InQueue, OnSlot, Pushing
<1>2. CASE NewSession \/ UNCHANGED vars
  BY <1>1, <1>2 DEF NewSession, vars
<1>3. ASSUME NEW k \in Keys, RedisExpires(k) \/ \E p \in Processes : MemoryExpires(p, k)
      PROVE  JobsAreMarked'
  BY <1>1, <1>3 DEF RedisExpires, MemoryExpires
<1> QED
  BY <1>2, <1>3, RequestJobs, TaskJobs, CrashJobs, ExpiryJobs DEF Next

LEMMA InitJobs == Init => JobsAreMarked
<1> SUFFICES ASSUME Init, NEW n \in Sessions PROVE InHand(n) = 0 /\ late[n] = 0
  BY DEF JobsAreMarked
<1>1. InQueue(n) = {} /\ OnSlot(n) = {} /\ Pushing(n) = {}
  BY DEF Init, InQueue, OnSlot, Pushing, Idle
<1> QED
  BY <1>1, FS_EmptySet DEF Init, InHand

(* A result has one job in hand at most (in the list, on a slot, or about to  *)
(* be pushed), plus one for every time its marker went too early: it expired,  *)
(* or was deleted after an LPUSH that failed.                                 *)
THEOREM OneJobPerMarker == Spec => []JobsAreMarked
BY QueueTypes, InitJobs, JobStep, PTL DEF Spec

-----------------------------------------------------------------------------
(* No key holds an older session's result *)

(* What is on its way to a key is good enough for it as well: a backup that a *)
(* request read, a task's result, and, for a job not computed yet, that its   *)
(* session has begun.                                                         *)
OnTheWay ==
  /\ \A r \in Requests : request[r] # Idle =>
       /\ request[r].of <= session
       /\ request[r].read # None /\ request[r].key \in Sessions => request[r].read >= request[r].key
  /\ \A s \in Slots : slot[s] # None =>
       /\ slot[s].of <= session
       /\ slot[s].result # None => slot[s].result >= slot[s].of
  /\ \A i \in DOMAIN queue : queue[i] <= session

HeldInv == KeysHoldTheirSession /\ OnTheWay

LEMMA InitHeld == Init => HeldInv
BY DEF Init, HeldInv, KeysHoldTheirSession, OnTheWay, Keys

LEMMA RequestHeld ==
  ASSUME TypeOK, HeldInv, NEW r \in Requests,
         RequestStep(r) \/ RequestFails(r)
  PROVE  HeldInv'
<1>0. /\ request[r] # Idle => request[r] \in Steps
      /\ session \in Nat /\ slot' = slot /\ session' = session /\ redis' = redis
      /\ \A o \in Requests \ {r} : request'[o] = request[o]
  BY DEF TypeOK, Sessions, RequestStep, RequestFails, Ask, Look, LookFails, Keep, Mark, Push, Unmark,
         MarkFails, PushFails, NoConnection, Go
<1>1. SUFFICES /\ \A n \in Sessions, p \in Processes : memory'[p][n] # None => memory'[p][n] >= n
               /\ request'[r] # Idle =>
                    /\ request'[r].of <= session
                    /\ request'[r].read # None /\ request'[r].key \in Sessions
                         => request'[r].read >= request'[r].key
               /\ \A i \in DOMAIN queue' : queue'[i] <= session
  BY <1>0 DEF HeldInv, KeysHoldTheirSession, OnTheWay
<1>2. CASE Ask(r)
  BY <1>0, <1>2 DEF Ask, Go, HeldInv, KeysHoldTheirSession, OnTheWay, TypeOK
<1>3. CASE Look(r) \/ LookFails(r)
  <2>1. request[r] \in Steps /\ request[r].at = "look" /\ request[r].of <= session
    BY <1>0, <1>3 DEF Look, LookFails, Idle, HeldInv, OnTheWay
  <2>2. request[r].read = None
    BY <2>1 DEF Steps
  <2>3. \/ request'[r] \in {Idle, AfterHit(r), AfterMiss(r)}
        \/ request'[r] = [request[r] EXCEPT !.at = "keep", !.read = redis[request[r].key]]
    BY <1>3 DEF Look, LookFails, Go, TypeOK
  <2>4. request'[r] # Idle =>
          /\ request'[r].of = request[r].of
          /\ \/ request'[r].read = None
             \/ request'[r].key = request[r].key /\ request'[r].read = redis[request[r].key]
    BY <2>1, <2>2, <2>3 DEF AfterHit, AfterMiss, Steps
  <2> QED
    BY <1>3, <2>1, <2>4 DEF Look, LookFails, HeldInv, KeysHoldTheirSession, OnTheWay
<1>4. CASE Keep(r)
  <2>1. request[r] \in Steps /\ request[r] # Idle
    BY <1>0, <1>4 DEF Keep, Idle
  <2>2. request'[r] # Idle => request'[r].of = request[r].of /\ request'[r].read = None
    <3>1. request'[r] = [Idle EXCEPT !.read = None]
          \/ request'[r] = [[request[r] EXCEPT !.at = "mark"] EXCEPT !.read = None]
      BY <1>4 DEF Keep, Go, AfterHit, TypeOK
    <3> QED
      BY <2>1, <3>1 DEF Idle, Steps
  <2>3. ASSUME NEW n \in Sessions, NEW p \in Processes, memory'[p][n] # None
        PROVE  memory'[p][n] >= n
    <3>1. memory'[p][n] = memory[p][n] \/ (n = request[r].key /\ memory'[p][n] = request[r].read)
      BY <1>4, <2>3 DEF Keep, TypeOK
    <3> QED
      BY <2>1, <2>3, <3>1 DEF HeldInv, KeysHoldTheirSession, OnTheWay
  <2> QED
    BY <1>4, <2>1, <2>2, <2>3 DEF Keep, HeldInv, OnTheWay
<1>5. CASE Mark(r)
  <2>1. request[r] \in Steps /\ request[r] # Idle
    BY <1>0, <1>5 DEF Mark, Idle
  <2>2. request'[r] # Idle => request'[r] = [request[r] EXCEPT !.at = "push"]
    BY <1>5 DEF Mark, Go, TypeOK
  <2>3. request'[r] # Idle => /\ request'[r].of = request[r].of
                              /\ request'[r].key = request[r].key
                              /\ request'[r].read = request[r].read
    BY <2>1, <2>2 DEF Steps
  <2> QED
    BY <1>5, <2>1, <2>3 DEF Mark, HeldInv, KeysHoldTheirSession, OnTheWay
<1>6. CASE Push(r)
  <2>1. request[r] \in Steps /\ request[r] # Idle /\ request[r].of <= session
    BY <1>0, <1>6 DEF Push, Idle, HeldInv, OnTheWay
  <2>2. \A i \in DOMAIN queue' : queue'[i] <= session
    BY <1>6, <2>1 DEF Push, HeldInv, OnTheWay, TypeOK, Steps
  <2>3. request'[r] = Idle
    BY <1>6 DEF Push, Go, TypeOK
  <2> QED
    BY <1>6, <2>2, <2>3 DEF Push, HeldInv, KeysHoldTheirSession
<1>7. CASE (RequestFails(r) /\ ~LookFails(r)) \/ Unmark(r)
  <2>1. request[r] \in Steps /\ request[r] # Idle /\ request[r].of <= session
    BY <1>0, <1>7 DEF RequestFails, MarkFails, PushFails, NoConnection, Unmark, Idle, HeldInv, OnTheWay
  <2>2. /\ request'[r] \in {Idle, [request[r] EXCEPT !.at = "unmark"]}
        /\ memory' = memory
    BY <1>7 DEF RequestFails, MarkFails, PushFails, NoConnection, Unmark, Go, TypeOK
  <2>3. queue' \in {queue, Append(queue, request[r].of)}
    BY <1>7 DEF RequestFails, MarkFails, PushFails, NoConnection, Unmark
  <2>5. request'[r] # Idle => /\ request'[r].of = request[r].of
                              /\ request'[r].key = request[r].key
                              /\ request'[r].read = request[r].read
    BY <2>1, <2>2 DEF Steps
  <2>4. \A i \in DOMAIN queue' : queue'[i] <= session
    <3>1. CASE queue' = queue
      BY <3>1 DEF HeldInv, OnTheWay
    <3>2. CASE queue' = Append(queue, request[r].of)
      BY <2>1, <3>2 DEF HeldInv, OnTheWay, TypeOK, Steps
    <3> QED
      BY <2>3, <3>1, <3>2
  <2> QED
    BY <2>1, <2>2, <2>4, <2>5 DEF HeldInv, KeysHoldTheirSession, OnTheWay
<1> QED
  BY <1>2, <1>3, <1>4, <1>5, <1>6, <1>7 DEF RequestStep

(* A write of the consumer leaves every key as good as what it wrote there. *)
LEMMA WriteHeld ==
  ASSUME TypeOK, KeysHoldTheirSession, NEW k \in Keys, NEW v \in Results,
         v # None /\ k \in Sessions => v >= k,
         redis' \in {redis, [redis EXCEPT ![k] = v]},
         memory' \in {memory, [memory EXCEPT ![Consumer][k] = v]}
  PROVE  KeysHoldTheirSession'
<1>1. ASSUME NEW n \in Sessions, redis'[n] # None PROVE redis'[n] >= n
  <2>1. redis'[n] = redis[n] \/ (n = k /\ redis'[n] = v)
    BY n \in Keys DEF TypeOK, Keys
  <2> QED
    BY <1>1, <2>1 DEF KeysHoldTheirSession
<1>2. ASSUME NEW n \in Sessions, NEW p \in Processes, memory'[p][n] # None
      PROVE  memory'[p][n] >= n
  <2>1. memory'[p][n] = memory[p][n] \/ (n = k /\ memory'[p][n] = v)
    <3>1. CASE memory' = memory
      BY <3>1
    <3>2. CASE memory' = [memory EXCEPT ![Consumer][k] = v]
      BY <3>2, n \in Keys DEF TypeOK, Keys
    <3> QED
      BY <3>1, <3>2
  <2> QED
    BY <1>2, <2>1 DEF KeysHoldTheirSession
<1> QED
  BY <1>1, <1>2 DEF KeysHoldTheirSession

LEMMA TaskHeld ==
  ASSUME TypeOK, HeldInv, NEW s \in Slots,
         TaskStep(s) \/ TaskFails(s)
  PROVE  HeldInv'
<1>0. /\ slot[s] # None => slot[s] \in Tasks
      /\ session \in Nat /\ request' = request /\ session' = session
      /\ \A o \in Slots \ {s} : slot'[o] = slot[o]
  BY DEF TypeOK, Sessions, TaskStep, TaskFails, Pop, Compute, Store, Finish,
         PopFails, ComputeFails, StoreFails, FinishFails, Set
<1>1. SUFFICES /\ KeysHoldTheirSession'
               /\ slot'[s] # None =>
                    /\ slot'[s].of <= session
                    /\ slot'[s].result # None => slot'[s].result >= slot'[s].of
               /\ \A i \in DOMAIN queue' : queue'[i] <= session
  BY <1>0 DEF HeldInv, OnTheWay
<1>2. CASE Pop(s)
  <2>1. queue # <<>> /\ queue \in Seq(Sessions) /\ queue' = Tail(queue)
    BY <1>2 DEF Pop, TypeOK
  <2>2. Head(queue) <= session /\ \A i \in DOMAIN queue' : queue'[i] <= session
    BY <2>1 DEF HeldInv, OnTheWay
  <2>3. slot'[s] = [of |-> Head(queue), at |-> "compute", result |-> None]
    BY <1>2 DEF Pop, Set, TypeOK
  <2> QED
    BY <1>2, <2>2, <2>3 DEF Pop, HeldInv, KeysHoldTheirSession
<1>3. CASE Compute(s)
  <2>1. slot[s] \in Tasks /\ slot[s].of <= session
    BY <1>0, <1>3 DEF Compute, HeldInv, OnTheWay
  <2>2. slot'[s].of = slot[s].of /\ slot'[s].result = session
    BY <1>3, <2>1 DEF Compute, Set, TypeOK, Tasks
  <2> QED
    BY <1>0, <1>3, <2>1, <2>2 DEF Compute, HeldInv, KeysHoldTheirSession, OnTheWay
<1>4. CASE ComputeFails(s)
  <2>1. slot[s] \in Tasks /\ slot[s] # None
    BY <1>0, <1>4 DEF ComputeFails
  <2>2. slot'[s].of = slot[s].of /\ slot'[s].result = slot[s].result
    BY <1>4, <2>1 DEF ComputeFails, Set, TypeOK, Tasks
  <2> QED
    BY <1>4, <2>1, <2>2 DEF ComputeFails, HeldInv, KeysHoldTheirSession, OnTheWay
<1>5. CASE Store(s) \/ StoreFails(s)
  <2>1. slot[s] \in Tasks /\ slot[s] # None /\ Stages(slot[s]) /\ queue' = queue
    BY <1>0, <1>5 DEF Store, StoreFails
  <2>2. slot'[s].of = slot[s].of /\ slot'[s].result = slot[s].result
    BY <1>5, <2>1 DEF Store, StoreFails, Set, TypeOK, Tasks
  <2>3. ASSUME HasKey(slot[s])
        PROVE  /\ StageKey(slot[s]) \in Keys /\ StageValue(slot[s]) \in Results
               /\ StageValue(slot[s]) # None /\ StageKey(slot[s]) \in Sessions
                    => StageValue(slot[s]) >= StageKey(slot[s])
    <3>1. slot[s].of \in Nat \ {0} /\ slot[s].of <= MaxSession /\ MaxSession \in Nat
      BY <2>1, QueueAssumption DEF Tasks, Sessions
    <3>2. StageKey(slot[s]) \in Keys
      BY <2>1, <2>3, <3>1 DEF Stages, HasKey, StageKey, Keys, Sessions, Latest
    <3>3. StageValue(slot[s]) \in Results
      BY <2>1 DEF Tasks, StageValue, Results
    <3>4. StageValue(slot[s]) # None => StageValue(slot[s]) >= slot[s].of
      BY <2>1 DEF StageValue, HeldInv, OnTheWay
    <3>5. StageValue(slot[s]) # None /\ StageKey(slot[s]) \in Sessions => StageKey(slot[s]) = slot[s].of
      BY <2>1, <3>1 DEF Stages, StageKey, Sessions, Latest, StageValue
    <3> QED
      BY <3>2, <3>3, <3>4, <3>5
  <2>4. KeysHoldTheirSession'
    <3>1. CASE UNCHANGED <<memory, redis>>
      BY <3>1 DEF HeldInv, KeysHoldTheirSession
    <3>2. CASE /\ HasKey(slot[s])
               /\ memory' = [memory EXCEPT ![Consumer][StageKey(slot[s])] = StageValue(slot[s])]
               /\ redis' \in {redis, [redis EXCEPT ![StageKey(slot[s])] = StageValue(slot[s])]}
      BY <2>3, <3>2, WriteHeld DEF HeldInv
    <3> QED
      BY <1>5, <3>1, <3>2 DEF Store, StoreFails, Write
  <2> QED
    BY <2>1, <2>2, <2>4 DEF HeldInv, OnTheWay
<1>6. CASE Finish(s) \/ FinishFails(s)
  BY <1>6 DEF Finish, FinishFails, Set, HeldInv, KeysHoldTheirSession, OnTheWay, TypeOK
<1>7. CASE PopFails(s)
  <2>1. queue # <<>> /\ queue \in Seq(Sessions) /\ queue' = Tail(queue)
    BY <1>7 DEF PopFails, TypeOK
  <2>2. \A i \in DOMAIN queue' : queue'[i] <= session
    BY <2>1 DEF HeldInv, OnTheWay
  <2> QED
    BY <1>7, <2>2 DEF PopFails, HeldInv, KeysHoldTheirSession, OnTheWay
<1> QED
  BY <1>2, <1>3, <1>4, <1>5, <1>6, <1>7 DEF TaskStep, TaskFails

LEMMA HeldStep == TypeOK /\ HeldInv /\ [Next]_vars => HeldInv'
<1> SUFFICES ASSUME TypeOK, HeldInv, [Next]_vars PROVE HeldInv'
  OBVIOUS
<1>1. CASE Crash
  BY <1>1 DEF Crash, TypeOK, HeldInv, KeysHoldTheirSession, OnTheWay, Keys
<1>2. CASE NewSession
  <2>1. session \in Nat /\ session' = session + 1
    BY <1>2 DEF NewSession, TypeOK, Sessions
  <2>2. \A r \in Requests : request[r] # Idle => request[r].of \in Nat
    BY DEF TypeOK, Steps, Sessions
  <2>3. \A s \in Slots : slot[s] # None => slot[s].of \in Nat
    BY DEF TypeOK, Tasks, Sessions
  <2>4. \A i \in DOMAIN queue : queue[i] \in Nat
    <3>1. queue \in Seq(Sessions)
      BY DEF TypeOK
    <3>2. \A i \in DOMAIN queue : queue[i] \in Sessions
      BY <3>1
    <3> QED
      BY <3>2 DEF Sessions
  <2> QED
    BY <1>2, <2>1, <2>2, <2>3, <2>4 DEF NewSession, HeldInv, KeysHoldTheirSession, OnTheWay
<1>3. ASSUME NEW n \in Sessions, MarkerExpires(n) PROVE HeldInv'
  BY <1>3 DEF MarkerExpires, HeldInv, KeysHoldTheirSession, OnTheWay
<1>4. ASSUME NEW k \in Keys, RedisExpires(k) PROVE HeldInv'
  BY <1>4 DEF RedisExpires, TypeOK, HeldInv, KeysHoldTheirSession, OnTheWay
<1>5. ASSUME NEW k \in Keys, NEW p \in Processes, MemoryExpires(p, k) PROVE HeldInv'
  BY <1>5 DEF MemoryExpires, TypeOK, HeldInv, KeysHoldTheirSession, OnTheWay
<1>6. CASE UNCHANGED vars
  BY <1>6 DEF vars, HeldInv, KeysHoldTheirSession, OnTheWay
<1> QED
  BY <1>1, <1>2, <1>3, <1>4, <1>5, <1>6, RequestHeld, TaskHeld DEF Next

(* Whatever is written back late, by however many readers and tasks, no tier *)
(* ever holds under a session's key a result computed before that session.   *)
THEOREM NoStaleKeys == Spec => []KeysHoldTheirSession
<1>1. Spec => []HeldInv
  BY QueueTypes, InitHeld, HeldStep, PTL DEF Spec
<1> QED
  BY <1>1, PTL DEF HeldInv

-----------------------------------------------------------------------------
(* An answer of before the write may be where it was read before the drop. *)
Excused(v) == v # None /\ v < source => v \in overtaken

(* What is in a call's hand, and in a tier that the drop has reached. *)
IInv ==
  /\ CacheTypeOK
  /\ \A c \in Callers : Excused(caller[c].got)
  /\ dropper # "memory" => Excused(nearby)
  /\ dropper = "idle" => Excused(shared)

Places == {"idle", "look", "keep", "wait", "reread", "fill", "store", "save"}
Calls == [at : Places, got : Versions \union {None}, lock : 0..MaxForgets \union {None}]

LEMMA CallersAre == CacheTypeOK => caller \in [Callers -> Calls]
BY DEF CacheTypeOK, Calls, Places

LEMMA VersionsAreNat == CacheAssumption => Versions \subseteq Nat /\ None \notin Versions /\ 0 \in Versions
BY DEF CacheAssumption, Versions

LEMMA CacheStart ==
  ASSUME CacheAssumption, CacheInit
  PROVE  IInv
<1>1. NoCall \in Calls /\ NoCall.got = None
  BY DEF NoCall, Calls, Places
<1>2. CacheTypeOK
  BY <1>1, VersionsAreNat DEF CacheAssumption, CacheInit, CacheTypeOK, Calls, Places
<1>3. \A c \in Callers : Excused(caller[c].got)
  BY <1>1 DEF CacheInit, Excused
<1> QED
  BY <1>2, <1>3 DEF IInv, CacheInit, Excused

-----------------------------------------------------------------------------
(* A step of one call, which goes to a place with what it had, with nothing,  *)
(* or with something excused.                                               *)
LEMMA CallStep ==
  ASSUME CacheAssumption, IInv, NEW c \in Callers, NEW call \in Calls,
         Becomes(c, call), UNCHANGED <<source, dropper>>,
         overtaken' \in SUBSET Versions, overtaken \subseteq overtaken',
         call.got # None /\ call.got < source => call.got \in overtaken'
  PROVE  caller' \in [Callers -> Calls] /\ \A d \in Callers : Excused(caller[d].got)'
<1>1. caller \in [Callers -> Calls]
  BY CallersAre DEF IInv
<1>2. caller' = [caller EXCEPT ![c] = call]
  BY DEF Becomes
<1>3. caller' \in [Callers -> Calls]
  BY <1>1, <1>2
<1>4. ASSUME NEW d \in Callers PROVE Excused(caller[d].got)'
  <2>1. CASE d = c
    BY <2>1, <1>1, <1>2 DEF Excused
  <2>2. CASE d # c
    <3>1. caller'[d] = caller[d]
      BY <2>2, <1>1, <1>2
    <3> QED
      BY <3>1 DEF Excused, IInv
  <2> QED
    BY <2>1, <2>2
<1> QED
  BY <1>3, <1>4

(* The same for a step that only moves a call. *)
LEMMA MoveIsBecome ==
  ASSUME CacheTypeOK, NEW c \in Callers, NEW at \in Places, Moves(c, at)
  PROVE  /\ [caller[c] EXCEPT !.at = at] \in Calls
         /\ Becomes(c, [caller[c] EXCEPT !.at = at])
         /\ [caller[c] EXCEPT !.at = at].got = caller[c].got
<1>1. caller[c] \in Calls
  BY CallersAre
<1>2. [caller[c] EXCEPT !.at = at] \in Calls /\ [caller[c] EXCEPT !.at = at].got = caller[c].got
  BY <1>1 DEF Calls
<1> QED
  BY <1>2 DEF Moves, Becomes

(* The losses stay within their bound. *)
LEMMA LossesBound ==
  ASSUME CacheAssumption, CacheTypeOK, Loss \/ NoLoss
  PROVE  losses' \in 0..MaxLosses
BY DEF CacheAssumption, CacheTypeOK, Loss, NoLoss

(* What a call does to the rest of the state. *)
LEMMA CallerSteps ==
  ASSUME CacheAssumption, IInv, NEW c \in Callers,
         \/ LookUpAnswer(c) \/ Hit(c) \/ Miss(c) \/ KeepNearby(c) \/ Acquire(c)
         \/ Fill(c) \/ StoreNearby(c) \/ Save(c) \/ GoAway(c)
  PROVE  IInv'
<1> DEFINE had == caller[c].got
<1>1. /\ CacheTypeOK /\ caller[c] \in Calls /\ had \in Versions \union {None}
      /\ Versions \subseteq Nat /\ None \notin Versions /\ source \in Versions
      /\ nearby \in Versions \union {None} /\ shared \in Versions \union {None}
      /\ overtaken \in SUBSET Versions /\ lock \in 0..MaxForgets
  BY CallersAre, VersionsAreNat DEF IInv, CacheTypeOK, Calls
<1>2. Excused(had)
  BY DEF IInv
<1>3. NoCall \in Calls /\ NoCall.got = None
  BY DEF NoCall, Calls, Places
<1>4. ASSUME caller' \in [Callers -> Calls], \A d \in Callers : Excused(caller[d].got)',
             UNCHANGED <<source, lock, dropper>>, losses' \in 0..MaxLosses,
             overtaken' \in SUBSET Versions, overtaken \subseteq overtaken',
             nearby' \in {nearby, had}, shared' \in {shared, had}
      PROVE  IInv'
  <2>1. CacheTypeOK'
    BY <1>1, <1>4 DEF CacheTypeOK, Calls, Places
  <2>2. \A v : Excused(v) => Excused(v)'
    BY <1>4 DEF Excused
  <2>3. (dropper # "memory" => Excused(nearby))' /\ (dropper = "idle" => Excused(shared))'
    <3>1. dropper # "memory" => Excused(nearby)'
      BY <1>2, <1>4 DEF IInv, Excused
    <3>2. dropper = "idle" => Excused(shared)'
      BY <1>2, <1>4 DEF IInv, Excused
    <3> QED
      BY <3>1, <3>2, <1>4
  <2> QED
    BY <1>4, <2>1, <2>3 DEF IInv
<1>5. ASSUME NEW at \in Places, Moves(c, at), UNCHANGED <<source, dropper, overtaken>>
      PROVE  caller' \in [Callers -> Calls] /\ \A d \in Callers : Excused(caller[d].got)'
  <2>1. Excused([caller[c] EXCEPT !.at = at].got)
    BY <1>1, <1>2, <1>5, MoveIsBecome
  <2> QED
    BY <1>1, <1>5, <2>1, MoveIsBecome, CallStep DEF Excused
<1>6. ASSUME Becomes(c, NoCall), UNCHANGED <<source, dropper, overtaken>>
      PROVE  caller' \in [Callers -> Calls] /\ \A d \in Callers : Excused(caller[d].got)'
  BY <1>1, <1>3, <1>6, CallStep
<1>7. CASE LookUpAnswer(c)
  BY <1>1, <1>4, <1>5, <1>7, LossesBound DEF LookUpAnswer, Places, NoLoss
<1>8. CASE Hit(c)
  <2> DEFINE call == [caller[c] EXCEPT !.at = "keep", !.got = shared]
  <2>1. call \in Calls /\ call.got = shared /\ Becomes(c, call)
    BY <1>1, <1>8 DEF Hit, Calls, Places
  <2>2. overtaken' \in SUBSET Versions /\ overtaken \subseteq overtaken'
    BY <1>1, <1>8 DEF Hit
  <2>3. shared < source => shared \in overtaken'
    BY <1>8 DEF Hit, IInv, Excused
  <2>4. caller' \in [Callers -> Calls] /\ \A d \in Callers : Excused(caller[d].got)'
    BY <1>8, <2>1, <2>2, <2>3, CallStep DEF Hit
  <2> QED
    BY <1>1, <1>4, <1>8, <2>2, <2>4, LossesBound DEF Hit, NoLoss
<1>9. CASE Miss(c)
  <2> DEFINE call == IF caller[c].at = "look" THEN [caller[c] EXCEPT !.at = "wait", !.lock = lock]
                                              ELSE [caller[c] EXCEPT !.at = "fill"]
  <2>1. call \in Calls /\ call.got = had /\ Becomes(c, call)
    BY <1>1, <1>9 DEF Miss, Calls, Places
  <2>2. caller' \in [Callers -> Calls] /\ \A d \in Callers : Excused(caller[d].got)'
    <3>1. Excused(call.got)
      BY <1>2, <2>1
    <3>2. UNCHANGED <<source, dropper, overtaken>>
      BY <1>9 DEF Miss
    <3> HIDE DEF call
    <3> QED
      BY <1>1, <2>1, <3>1, <3>2, CallStep DEF Excused
  <2>3. losses' \in 0..MaxLosses
    BY <1>1, <1>9, LossesBound DEF Miss
  <2> QED
    BY <1>1, <1>4, <1>9, <2>2, <2>3 DEF Miss
<1>10. CASE KeepNearby(c)
  BY <1>1, <1>4, <1>6, <1>10, LossesBound DEF KeepNearby, NoLoss
<1>11. CASE Acquire(c)
  <2>1. caller' \in [Callers -> Calls] /\ \A d \in Callers : Excused(caller[d].got)'
    BY <1>5, <1>6, <1>11 DEF Acquire, Places
  <2> QED
    BY <1>1, <1>4, <1>11, <2>1, LossesBound DEF Acquire, NoLoss
<1>12. CASE Fill(c)
  <2> DEFINE call == [caller[c] EXCEPT !.at = "store", !.got = source]
  <2>1. call \in Calls /\ call.got = source /\ Becomes(c, call)
    BY <1>1, <1>12 DEF Fill, Calls, Places
  <2>2. caller' \in [Callers -> Calls] /\ \A d \in Callers : Excused(caller[d].got)'
    <3>1. ~(call.got < source) /\ UNCHANGED <<source, dropper, overtaken>>
      BY <1>1, <1>12, <2>1 DEF Fill
    <3> HIDE DEF call
    <3> QED
      BY <1>1, <2>1, <3>1, CallStep
  <2> QED
    BY <1>1, <1>4, <1>12, <2>2, LossesBound DEF Fill, NoLoss
<1>13. CASE StoreNearby(c)
  BY <1>1, <1>4, <1>5, <1>13, LossesBound DEF StoreNearby, NoLoss, Places
<1>14. CASE Save(c)
  BY <1>1, <1>4, <1>6, <1>14, LossesBound DEF Save, NoLoss
<1>15. CASE GoAway(c)
  <2>1. losses' \in 0..MaxLosses
    BY <1>1, <1>15, LossesBound DEF GoAway
  <2> QED
    BY <1>1, <1>4, <1>6, <1>15, <2>1 DEF GoAway
<1> QED
  BY <1>7, <1>8, <1>9, <1>10, <1>11, <1>12, <1>13, <1>14, <1>15

(* The administrator's request, expiries and the map of locks leave the calls *)
(* as they are.                                                             *)
LEMMA OtherSteps ==
  ASSUME CacheAssumption, IInv,
         \/ CommitWrite \/ DropMemory \/ DropRedis \/ DropFails
         \/ NearbyExpires \/ SharedExpires \/ Forget
  PROVE  IInv'
<1>1. /\ CacheTypeOK /\ caller \in [Callers -> Calls]
      /\ Versions \subseteq Nat /\ None \notin Versions /\ source \in Versions
      /\ nearby \in Versions \union {None} /\ shared \in Versions \union {None}
      /\ overtaken \in SUBSET Versions /\ lock \in 0..MaxForgets
  BY CallersAre, VersionsAreNat DEF IInv, CacheTypeOK
<1>2. UNCHANGED caller
  BY DEF CommitWrite, DropMemory, DropRedis, DropFails, NearbyExpires, SharedExpires, Forget
<1>3. \A c \in Callers : Excused(caller[c].got)
  BY DEF IInv
<1>4. CASE CommitWrite
  <2>1. source' \in Versions /\ losses' \in 0..MaxLosses
    BY <1>1, <1>4, LossesBound DEF CommitWrite, Versions, CacheAssumption
  <2>2. OnHand \in SUBSET Versions
    BY <1>1 DEF OnHand, Calls
  <2>3. CacheTypeOK'
    BY <1>1, <1>4, <2>1, <2>2 DEF CommitWrite, CacheTypeOK
  <2>4. \A c \in Callers : Excused(caller[c].got)'
    BY <1>2, <1>4 DEF CommitWrite, OnHand, Excused
  <2> QED
    BY <1>4, <2>3, <2>4 DEF CommitWrite, IInv
<1>5. CASE DropMemory
  BY <1>1, <1>3, <1>5 DEF DropMemory, IInv, CacheTypeOK, Excused
<1>6. CASE DropRedis
  BY <1>1, <1>3, <1>6 DEF DropRedis, IInv, CacheTypeOK, Excused
<1>7. CASE DropFails
  <2>1. CacheTypeOK'
    BY <1>1, <1>7 DEF DropFails, CacheTypeOK
  <2>2. Excused(nearby)' /\ Excused(shared)' /\ \A c \in Callers : Excused(caller[c].got)'
    BY <1>3, <1>7 DEF DropFails, Excused
  <2> QED
    BY <2>1, <2>2 DEF IInv
<1>8. CASE NearbyExpires \/ SharedExpires
  <2>1. losses' \in 0..MaxLosses
    BY <1>1, <1>8, LossesBound DEF NearbyExpires, SharedExpires
  <2>2. CacheTypeOK'
    BY <1>1, <1>8, <2>1 DEF NearbyExpires, SharedExpires, CacheTypeOK
  <2> QED
    BY <1>3, <1>8, <2>2 DEF NearbyExpires, SharedExpires, IInv, Excused
<1>9. CASE Forget
  <2>1. lock' \in 0..MaxForgets
    BY <1>1, <1>9 DEF Forget, CacheAssumption
  <2>2. CacheTypeOK'
    BY <1>1, <1>9, <2>1 DEF Forget, CacheTypeOK
  <2> QED
    BY <1>3, <1>9, <2>2 DEF Forget, IInv, Excused
<1> QED
  BY <1>4, <1>5, <1>6, <1>7, <1>8, <1>9

LEMMA CacheStep == CacheAssumption /\ IInv /\ [CacheNext]_cacheVars => IInv'
<1> SUFFICES ASSUME CacheAssumption, IInv, [CacheNext]_cacheVars PROVE IInv'
  OBVIOUS
<1>1. CASE CacheNext
  BY <1>1, CallerSteps, OtherSteps DEF CacheNext
<1>2. CASE UNCHANGED cacheVars
  BY <1>2 DEF cacheVars, IInv, CacheTypeOK, Excused
<1> QED
  BY <1>1, <1>2

-----------------------------------------------------------------------------
(* The inductive invariant holds in every reachable state. *)
THEOREM CacheInvariant ==
  ASSUME CacheAssumption
  PROVE  CacheSpec => []IInv
<1>1. CacheInit => IInv
  BY CacheStart
<1>2. IInv /\ [CacheNext]_cacheVars => IInv'
  BY CacheStep
<1> QED
  BY <1>1, <1>2, PTL DEF CacheSpec

(* Every state of the cache, its lock and its calls is well typed. *)
THEOREM CacheTypes ==
  ASSUME CacheAssumption
  PROVE  CacheSpec => []CacheTypeOK
<1>1. IInv => CacheTypeOK
  BY DEF IInv
<1> QED
  BY <1>1, CacheInvariant, PTL

(* drop_cached_response: once it is over, an answer of before the write is in  *)
(* a tier only if some call had read it by then, or the drop failed.            *)
THEOREM DropsReachBothTiers ==
  ASSUME CacheAssumption
  PROVE  CacheSpec => []DropReachesBoth
<1>1. IInv => DropReachesBoth
  BY DEF IInv, DropReachesBoth, Excused
<1> QED
  BY <1>1, CacheInvariant, PTL

-----------------------------------------------------------------------------
(* How often an answer is computed *)

Computing == {"reread", "fill"}

(* Nobody who has this lock computes again, before something is lost or dropped. *)
Settled(g) ==
  /\ \A c \in Callers : caller[c].at \in Computing => caller[c].lock # g
  /\ nearby # None \/ \E c \in Callers : caller[c].at = "store" /\ caller[c].lock = g

Unsettled == {g \in 0..lock : ~Settled(g)}

(* Who waits for a lock or holds it has taken it out, it has one holder, and *)
(* who brings an answer has one.                                            *)
LocksInv ==
  /\ \A c \in Callers : caller[c].at \in {"wait", "reread", "fill", "store", "save"} => caller[c].lock \in 0..lock
  /\ \A c \in Callers : caller[c].at \in {"idle", "look"} => caller[c].lock = None
  /\ \A c \in Callers : caller[c].at \in {"keep", "store", "save"} => caller[c].got # None
  /\ \A c, d \in Callers : Holds(c) /\ Holds(d) /\ caller[c].lock = caller[d].lock => c = d

(* A loss allows every lock one more computation; the drop of a write has the *)
(* loss of its commit to spend.                                              *)
FillsInv ==
  /\ fills \in Nat
  /\ dropper = "memory" => losses > 0
  /\ fills + Cardinality(Unsettled) + (IF dropper = "memory" THEN 1 + lock ELSE 0)
       <= (1 + lock) * (1 + losses)

(* The places a call's step leads to. *)
Goes(c, from, at, mine, got) ==
  /\ caller[c].at = from
  /\ caller'[c].at = at /\ caller'[c].lock = mine /\ caller'[c].got = got
  /\ \A d \in Callers : d # c => caller'[d] = caller[d]

LEMMA CallGoes ==
  ASSUME CacheAssumption, CacheTypeOK, NEW c \in Callers
  PROVE  /\ LookUpAnswer(c) => Goes(c, "idle", "look", caller[c].lock, caller[c].got)
         /\ Hit(c) => \E from \in {"look", "reread"} : Goes(c, from, "keep", caller[c].lock, shared)
         /\ Miss(c) => \/ Goes(c, "look", "wait", lock, caller[c].got)
                       \/ Goes(c, "reread", "fill", caller[c].lock, caller[c].got)
         /\ KeepNearby(c) => Goes(c, "keep", "idle", None, None)
         /\ Acquire(c) => \/ Goes(c, "wait", "idle", None, None)
                          \/ nearby = None /\ Goes(c, "wait", "reread", caller[c].lock, caller[c].got)
         /\ Fill(c) => Goes(c, "fill", "store", caller[c].lock, source)
         /\ StoreNearby(c) => Goes(c, "store", "save", caller[c].lock, caller[c].got)
         /\ Save(c) => Goes(c, "save", "idle", None, None)
         /\ GoAway(c) => Goes(c, caller[c].at, "idle", None, None)
<1>1. caller \in [Callers -> Calls] /\ caller[c] \in Calls
  BY CallersAre
<1>2. ASSUME NEW at, Moves(c, at)
      PROVE  Goes(c, caller[c].at, at, caller[c].lock, caller[c].got)
  BY <1>1, <1>2 DEF Moves, Goes, Calls
<1>3. ASSUME Becomes(c, NoCall)
      PROVE  Goes(c, caller[c].at, "idle", None, None)
  BY <1>1, <1>3 DEF Becomes, Goes, NoCall
<1>4. Hit(c) => \E from \in {"look", "reread"} : Goes(c, from, "keep", caller[c].lock, shared)
  BY <1>1 DEF Hit, Becomes, Goes, Calls
<1>5. Miss(c) => \/ Goes(c, "look", "wait", lock, caller[c].got)
                 \/ Goes(c, "reread", "fill", caller[c].lock, caller[c].got)
  <2>1. CASE caller[c].at = "look"
    BY <1>1, <2>1 DEF Miss, Becomes, Goes, Calls
  <2>2. CASE caller[c].at = "reread"
    BY <1>1, <2>2 DEF Miss, Becomes, Goes, Calls
  <2> QED
    BY <2>1, <2>2 DEF Miss
<1>6. Fill(c) => Goes(c, "fill", "store", caller[c].lock, source)
  BY <1>1 DEF Fill, Becomes, Goes, Calls
<1>7. LookUpAnswer(c) => Goes(c, "idle", "look", caller[c].lock, caller[c].got)
  BY <1>2 DEF LookUpAnswer
<1>8. KeepNearby(c) => Goes(c, "keep", "idle", None, None)
  BY <1>3 DEF KeepNearby
<1>9. Acquire(c) => \/ Goes(c, "wait", "idle", None, None)
                    \/ nearby = None /\ Goes(c, "wait", "reread", caller[c].lock, caller[c].got)
  BY <1>2, <1>3 DEF Acquire
<1>10. StoreNearby(c) => Goes(c, "store", "save", caller[c].lock, caller[c].got)
  BY <1>2 DEF StoreNearby
<1>11. Save(c) => Goes(c, "save", "idle", None, None)
  BY <1>3 DEF Save
<1>12. GoAway(c) => Goes(c, caller[c].at, "idle", None, None)
  BY <1>3 DEF GoAway
<1> QED
  BY <1>4, <1>5, <1>6, <1>7, <1>8, <1>9, <1>10, <1>11, <1>12

CallerStep(c) ==
  \/ LookUpAnswer(c) \/ Hit(c) \/ Miss(c) \/ KeepNearby(c) \/ Acquire(c)
  \/ Fill(c) \/ StoreNearby(c) \/ Save(c) \/ GoAway(c)

LEMMA LocksStep ==
  ASSUME CacheAssumption, CacheTypeOK, LocksInv, NEW c \in Callers, CallerStep(c)
  PROVE  LocksInv'
<1>1. lock' = lock /\ lock \in Nat /\ None \notin 0..lock /\ source \in Nat /\ source # None
  BY VersionsAreNat DEF CacheAssumption, CacheTypeOK, Versions, CallerStep, LookUpAnswer, Hit, Miss, KeepNearby, Acquire, Fill, StoreNearby, Save, GoAway
<1>2. /\ caller[c].at \in {"wait", "reread", "fill", "store", "save"} => caller[c].lock \in 0..lock
      /\ caller[c].at \in {"idle", "look"} => caller[c].lock = None
      /\ caller[c].at \in {"keep", "store", "save"} => caller[c].got # None
  BY DEF LocksInv
<1>3. /\ \A d \in Callers : d # c => caller'[d] = caller[d]
      /\ caller'[c].at \in {"wait", "reread", "fill", "store", "save"} => caller'[c].lock \in 0..lock
      /\ caller'[c].at \in {"idle", "look"} => caller'[c].lock = None
      /\ caller'[c].at \in {"keep", "store", "save"} => caller'[c].got # None
      /\ \/ Holds(c)' => Holds(c) /\ caller'[c].lock = caller[c].lock
         \/ /\ caller'[c].lock = caller[c].lock
            /\ \A d \in Callers : Holds(d) => caller[d].lock # caller[c].lock
  <2>1. CASE LookUpAnswer(c)
    BY <1>1, <1>2, <2>1, CallGoes DEF Goes, Holds
  <2>2. CASE Hit(c)
    BY <1>1, <1>2, <2>2, CallGoes DEF Goes, Holds, Hit
  <2>3. CASE Miss(c)
    BY <1>1, <1>2, <2>3, CallGoes DEF Goes, Holds
  <2>4. CASE KeepNearby(c)
    BY <1>1, <1>2, <2>4, CallGoes DEF Goes, Holds
  <2>5. CASE Acquire(c)
    BY <1>1, <1>2, <2>5, CallGoes DEF Goes, Holds, Acquire
  <2>6. CASE Fill(c)
    BY <1>1, <1>2, <2>6, CallGoes DEF Goes, Holds
  <2>7. CASE StoreNearby(c)
    BY <1>1, <1>2, <2>7, CallGoes DEF Goes, Holds
  <2>8. CASE Save(c)
    BY <1>1, <1>2, <2>8, CallGoes DEF Goes, Holds
  <2>9. CASE GoAway(c)
    BY <1>1, <1>2, <2>9, CallGoes DEF Goes, Holds
  <2> QED
    BY <2>1, <2>2, <2>3, <2>4, <2>5, <2>6, <2>7, <2>8, <2>9 DEF CallerStep
<1>4. \A d \in Callers : d # c => (Holds(d)' <=> Holds(d))
  BY <1>3 DEF Holds
<1>5. ASSUME NEW d \in Callers, NEW e \in Callers, Holds(d)', Holds(e)', caller'[d].lock = caller'[e].lock
      PROVE  d = e
  BY <1>3, <1>4, <1>5 DEF LocksInv
<1> QED
  BY <1>1, <1>3, <1>5 DEF LocksInv

(* The locks that are unsettled are as many as the map has had, at most. *)
LEMMA UpTo ==
  ASSUME NEW n \in Nat, NEW S \in SUBSET (0..n)
  PROVE  IsFiniteSet(S) /\ Cardinality(S) \in Nat /\ Cardinality(S) <= 1 + n
<1>1. IsFiniteSet(0..n) /\ Cardinality(0..n) = 1 + n
  BY FS_Interval
<1>2. IsFiniteSet(S) /\ Cardinality(S) <= Cardinality(0..n)
  BY <1>1, FS_Subset
<1> QED
  BY <1>1, <1>2, FS_CardinalityType

LEMMA UnsettledFinite ==
  ASSUME lock \in Nat, lock' \in Nat
  PROVE  /\ IsFiniteSet(Unsettled) /\ Cardinality(Unsettled) \in Nat
         /\ IsFiniteSet(Unsettled') /\ Cardinality(Unsettled') \in Nat
         /\ Cardinality(Unsettled) <= 1 + lock /\ Cardinality(Unsettled') <= 1 + lock'
<1>1. Unsettled \in SUBSET (0..lock) /\ Unsettled' \in SUBSET (0..lock')
  BY DEF Unsettled
<1> QED
  BY <1>1, UpTo

(* One loss more is a computation more for every lock; one lock more, for every loss. *)
LEMMA Grid ==
  ASSUME NEW l \in Nat, NEW k \in Nat
  PROVE  /\ (1 + l) * (1 + k) \in Nat
         /\ (1 + l) * (1 + (k + 1)) = (1 + l) * (1 + k) + (1 + l)
         /\ (1 + (l + 1)) * (1 + k) = (1 + l) * (1 + k) + (1 + k)
  OBVIOUS

(* Settled locks stay settled while a call goes on and nothing is lost. *)
LEMMA CallsSettle ==
  ASSUME CacheAssumption, CacheTypeOK, LocksInv, NEW c \in Callers, CallerStep(c), NoLoss,
         NEW g \in 0..lock, Settled(g)
  PROVE  Settled(g)'
<1>1. /\ caller[c].at \in {"keep", "store", "save"} => caller[c].got # None
      /\ caller[c].at = "wait" => \A d \in Callers : caller[d].at = "store" => Holds(d)
      /\ None \notin 0..lock /\ losses \in Nat
  BY DEF LocksInv, Holds, CacheAssumption, CacheTypeOK
<1>2. ASSUME UNCHANGED nearby, 
             \A d \in Callers : d # c => caller'[d] = caller[d],
             caller'[c].at \in Computing => caller[c].at \in Computing /\ caller'[c].lock = caller[c].lock,
             caller[c].at # "store"
      PROVE  Settled(g)'
  BY <1>2 DEF Settled, Computing
<1>3. ASSUME nearby' # None, 
             \A d \in Callers : d # c => caller'[d] = caller[d],
             caller'[c].at \notin Computing
      PROVE  Settled(g)'
  BY <1>3 DEF Settled, Computing
<1>4. CASE LookUpAnswer(c) \/ Hit(c) \/ Save(c)
  BY <1>2, <1>4, CallGoes DEF LookUpAnswer, Hit, Save, Goes, Computing
<1>5. CASE Miss(c)
  BY <1>2, <1>5, CallGoes DEF Miss, Goes, Computing
<1>6. CASE KeepNearby(c) \/ StoreNearby(c)
  BY <1>1, <1>3, <1>6, CallGoes DEF KeepNearby, StoreNearby, Goes, Computing
<1>7. CASE Acquire(c)
  <2>1. CASE caller'[c].at = "idle"
    BY <1>2, <1>7, <2>1, CallGoes DEF Acquire, Goes, Computing
  <2>2. CASE caller'[c].at # "idle"
    <3>1. nearby = None /\ nearby' = nearby /\ Goes(c, "wait", "reread", caller[c].lock, caller[c].got)
      BY <1>7, <2>2, CallGoes DEF Acquire, Goes
    <3>2. PICK d \in Callers : caller[d].at = "store" /\ caller[d].lock = g
      BY <3>1 DEF Settled
    <3>3. Holds(d) /\ d # c /\ caller[c].lock # g
      BY <1>7, <3>1, <3>2 DEF Holds, Acquire, Goes
    <3> QED
      BY <3>1, <3>2, <3>3 DEF Settled, Goes, Computing
  <2> QED
    BY <2>1, <2>2
<1>8. CASE Fill(c)
  <2>1. nearby' = nearby /\ Goes(c, "fill", "store", caller[c].lock, source)
    BY <1>8, CallGoes DEF Fill
  <2> QED
    BY <2>1 DEF Settled, Goes, Computing
<1>9. CASE GoAway(c)
  BY <1>1, <1>2, <1>9, CallGoes DEF GoAway, Goes, Computing, NoLoss, Loss
<1> QED
  BY <1>4, <1>5, <1>6, <1>7, <1>8, <1>9 DEF CallerStep

-----------------------------------------------------------------------------
(* What a step may do to the count of computations *)

(* A loss pays for whatever it unsettles. *)
LEMMA LossPays ==
  ASSUME CacheAssumption, CacheTypeOK, FillsInv, Loss, lock' = lock, fills' = fills,
         dropper' = dropper \/ (dropper = "idle" /\ Unsettled' = Unsettled)
  PROVE  FillsInv'
<1>1. lock \in Nat /\ losses \in Nat /\ losses' = losses + 1 /\ fills \in Nat
  BY DEF CacheAssumption, CacheTypeOK, FillsInv, Loss
<1>2. /\ Cardinality(Unsettled) \in Nat /\ Cardinality(Unsettled') \in Nat
      /\ Cardinality(Unsettled') <= 1 + lock
  BY <1>1, UnsettledFinite
<1> DEFINE had == (1 + lock) * (1 + losses)
<1>3. had \in Nat /\ (1 + lock') * (1 + losses') = had + (1 + lock)
  BY <1>1, Grid
<1>4. fills + Cardinality(Unsettled) + (IF dropper = "memory" THEN 1 + lock ELSE 0) <= had
  BY DEF FillsInv
<1> HIDE DEF had
<1> QED
  BY <1>1, <1>2, <1>3, <1>4 DEF FillsInv

(* Without one, no lock may be unsettled but by what the drop has to spend. *)
LEMMA NothingUnsettles ==
  ASSUME CacheAssumption, CacheTypeOK, FillsInv, NoLoss, lock' = lock, fills' = fills,
         dropper' = dropper \/ dropper' # "memory",
         Unsettled' \subseteq Unsettled \/ (dropper = "memory" /\ dropper' # "memory")
  PROVE  FillsInv'
<1>1. lock \in Nat /\ losses \in Nat /\ losses' = losses /\ fills \in Nat
  BY DEF CacheAssumption, CacheTypeOK, FillsInv, NoLoss
<1>2. /\ IsFiniteSet(Unsettled)
      /\ Cardinality(Unsettled) \in Nat /\ Cardinality(Unsettled') \in Nat
      /\ Cardinality(Unsettled') <= 1 + lock
  BY <1>1, UnsettledFinite
<1>3. Unsettled' \subseteq Unsettled => Cardinality(Unsettled') <= Cardinality(Unsettled)
  BY <1>2, FS_Subset
<1> DEFINE had == (1 + lock) * (1 + losses)
<1>4. had \in Nat /\ (1 + lock') * (1 + losses') = had
  BY <1>1, Grid
<1>5. fills + Cardinality(Unsettled) + (IF dropper = "memory" THEN 1 + lock ELSE 0) <= had
  BY DEF FillsInv
<1> HIDE DEF had
<1> QED
  BY <1>1, <1>2, <1>3, <1>4, <1>5 DEF FillsInv

(* Who computes settles the lock it holds. *)
LEMMA FillSettles ==
  ASSUME CacheAssumption, CacheTypeOK, LocksInv, FillsInv, NEW c \in Callers, Fill(c)
  PROVE  FillsInv'
<1>1. /\ lock \in Nat /\ losses \in Nat /\ losses' = losses /\ lock' = lock
      /\ fills \in Nat /\ fills' = fills + 1 /\ dropper' = dropper
  BY DEF CacheAssumption, CacheTypeOK, FillsInv, Fill
<1>2. /\ IsFiniteSet(Unsettled)
      /\ Cardinality(Unsettled) \in Nat /\ Cardinality(Unsettled') \in Nat
  BY <1>1, UnsettledFinite
<1> DEFINE mine == caller[c].lock
<1>3. Goes(c, "fill", "store", mine, source)
  BY CallGoes
<1>4. mine \in Unsettled
  BY <1>3 DEF LocksInv, Unsettled, Settled, Computing, Goes
<1>5. \A d \in Callers : caller'[d].at \in Computing => caller'[d].lock # mine
  BY <1>3 DEF LocksInv, Goes, Computing, Holds
<1>6. mine \notin Unsettled'
  BY <1>3, <1>5 DEF Unsettled, Settled, Goes
<1>7. Unsettled' \subseteq Unsettled \ {mine}
  BY <1>1, <1>6, CallsSettle DEF CallerStep, Fill, NoLoss, Unsettled
<1>8. Cardinality(Unsettled') <= Cardinality(Unsettled) - 1
  <2>1. IsFiniteSet(Unsettled \ {mine}) /\ Cardinality(Unsettled \ {mine}) = Cardinality(Unsettled) - 1
    BY <1>2, <1>4, FS_RemoveElement
  <2> QED
    BY <1>7, <2>1, FS_Subset
<1> DEFINE had == (1 + lock) * (1 + losses)
<1>9. had \in Nat /\ (1 + lock') * (1 + losses') = had
  BY <1>1, Grid
<1>10. fills + Cardinality(Unsettled) + (IF dropper = "memory" THEN 1 + lock ELSE 0) <= had
  BY DEF FillsInv
<1>11. dropper = "memory" => losses > 0
  BY DEF FillsInv
<1> HIDE DEF had
<1> QED
  BY <1>1, <1>2, <1>8, <1>9, <1>10, <1>11 DEF FillsInv

(* A new lock may be computed under once for every loss so far, and the drop *)
(* to come has one of them.                                                 *)
LEMMA ForgetPays ==
  ASSUME CacheAssumption, CacheTypeOK, FillsInv, Forget
  PROVE  FillsInv'
<1>1. /\ lock \in Nat /\ lock' = lock + 1 /\ lock' \in Nat /\ losses \in Nat /\ losses' = losses
      /\ fills \in Nat /\ fills' = fills /\ dropper' = dropper
  BY DEF CacheAssumption, CacheTypeOK, FillsInv, Forget
<1>2. /\ IsFiniteSet(Unsettled)
      /\ Cardinality(Unsettled) \in Nat /\ Cardinality(Unsettled') \in Nat
  BY <1>1, UnsettledFinite
<1>3. Unsettled' \subseteq Unsettled \cup {lock + 1}
  BY <1>1 DEF Forget, Unsettled, Settled
<1>4. Cardinality(Unsettled') <= Cardinality(Unsettled) + 1
  <2>1. /\ IsFiniteSet(Unsettled \cup {lock + 1})
        /\ Cardinality(Unsettled \cup {lock + 1}) <= Cardinality(Unsettled) + 1
    BY <1>2, FS_AddElement
  <2>2. Cardinality(Unsettled \cup {lock + 1}) \in Nat
    BY <2>1, FS_CardinalityType
  <2> QED
    BY <1>2, <1>3, <2>1, <2>2, FS_Subset
<1> DEFINE had == (1 + lock) * (1 + losses)
<1>5. had \in Nat /\ (1 + lock') * (1 + losses') = had + (1 + losses)
  BY <1>1, Grid
<1>6. fills + Cardinality(Unsettled) + (IF dropper = "memory" THEN 1 + lock ELSE 0) <= had
  BY DEF FillsInv
<1>7. dropper = "memory" => losses > 0
  BY DEF FillsInv
<1> HIDE DEF had
<1> QED
  BY <1>1, <1>2, <1>4, <1>5, <1>6, <1>7 DEF FillsInv

-----------------------------------------------------------------------------
FillInv == LocksInv /\ FillsInv

LEMMA FillStart ==
  ASSUME CacheAssumption, CacheInit
  PROVE  FillInv
<1>1. LocksInv
  BY DEF CacheInit, NoCall, LocksInv, Holds
<1>2. lock = 0 /\ losses = 0 /\ fills = 0 /\ dropper = "idle"
  BY DEF CacheInit
<1>3. Cardinality(Unsettled) \in Nat /\ Cardinality(Unsettled) <= 1
  <2>1. Unsettled \in SUBSET (0..0)
    BY <1>2 DEF Unsettled
  <2> QED
    BY <2>1, UpTo
<1>4. FillsInv
  BY <1>2, <1>3 DEF FillsInv
<1> QED
  BY <1>1, <1>4 DEF FillInv

LEMMA FillStep ==
  ASSUME CacheAssumption, CacheTypeOK, FillInv, [CacheNext]_cacheVars
  PROVE  FillInv'
<1> USE DEF FillInv
<1>1. ASSUME NEW c \in Callers, CallerStep(c) PROVE FillInv'
  <2>1. lock' = lock /\ dropper' = dropper /\ (Loss \/ NoLoss) /\ (Fill(c) \/ fills' = fills)
    BY <1>1 DEF CallerStep, LookUpAnswer, Hit, Miss, KeepNearby, Acquire, Fill, StoreNearby, Save, GoAway, NoLoss
  <2>2. CASE Fill(c)
    BY <1>1, <2>2, LocksStep, FillSettles
  <2>3. CASE fills' = fills /\ Loss
    <3>1. LocksInv'
      BY <1>1, LocksStep
    <3>2. FillsInv'
      BY <2>1, <2>3, LossPays
    <3> QED
      BY <3>1, <3>2
  <2>4. CASE fills' = fills /\ NoLoss
    <3>1. Unsettled' \subseteq Unsettled
      BY <1>1, <2>1, <2>4, CallsSettle DEF Unsettled
    <3>2. LocksInv'
      BY <1>1, LocksStep
    <3>3. FillsInv'
      BY <2>1, <2>4, <3>1, NothingUnsettles
    <3> QED
      BY <3>2, <3>3
  <2> QED
    BY <2>1, <2>2, <2>3, <2>4
<1>2. ASSUME UNCHANGED caller, lock' \in Nat, lock <= lock' PROVE LocksInv'
  <2>1. lock \in Nat
    BY DEF CacheAssumption, CacheTypeOK
  <2> QED
    BY <1>2, <2>1 DEF LocksInv, Holds
<1>3. lock \in Nat
  BY DEF CacheAssumption, CacheTypeOK
<1>4. CASE CommitWrite
  <2>1. Unsettled' = Unsettled
    BY <1>4 DEF CommitWrite, Unsettled, Settled
  <2> QED
    BY <1>2, <1>3, <1>4, <2>1, LossPays DEF CommitWrite
<1>5. CASE DropMemory
  BY <1>2, <1>3, <1>5, NothingUnsettles DEF DropMemory, NoLoss
<1>6. CASE DropRedis \/ DropFails
  <2>1. Unsettled' = Unsettled
    BY <1>6 DEF DropRedis, DropFails, Unsettled, Settled
  <2> QED
    BY <1>2, <1>3, <1>6, <2>1, NothingUnsettles DEF DropRedis, DropFails, NoLoss
<1>7. CASE NearbyExpires \/ SharedExpires
  <2>1. Loss /\ UNCHANGED <<lock, fills, dropper, caller>>
    BY <1>7 DEF NearbyExpires, SharedExpires
  <2>2. FillsInv'
    BY <2>1, LossPays
  <2> QED
    BY <1>2, <1>3, <2>1, <2>2
<1>8. CASE Forget
  BY <1>2, <1>3, <1>8, ForgetPays DEF Forget
<1>9. CASE UNCHANGED cacheVars
  <2>1. Unsettled' = Unsettled
    BY <1>9 DEF cacheVars, Unsettled, Settled
  <2>2. NoLoss /\ UNCHANGED <<lock, fills, dropper, caller>>
    BY <1>9 DEF cacheVars, NoLoss
  <2>3. FillsInv'
    BY <2>1, <2>2, NothingUnsettles
  <2> QED
    BY <1>2, <1>3, <2>2, <2>3
<1> QED
  BY <1>1, <1>4, <1>5, <1>6, <1>7, <1>8, <1>9 DEF CacheNext, CallerStep

(* cached_response: callers that miss together compute one answer, whatever    *)
(* they wait for, whoever goes away and however often; an answer is computed   *)
(* again, under each lock the key has had, only for what was lost or dropped.  *)
THEOREM AnswersAreFilledOnce ==
  ASSUME CacheAssumption
  PROVE  CacheSpec => []FilledOnce
<1>1. CacheInit => FillInv
  BY FillStart
<1>2. CacheTypeOK /\ FillInv /\ [CacheNext]_cacheVars => FillInv'
  BY FillStep
<1>3. CacheTypeOK /\ FillInv => FilledOnce
  <2> SUFFICES ASSUME CacheTypeOK, FillInv PROVE FilledOnce
    OBVIOUS
  <2>1. lock \in Nat /\ losses \in Nat
    BY DEF CacheAssumption, CacheTypeOK
  <2>2. Cardinality(Unsettled) \in Nat
    <3>1. Unsettled \in SUBSET (0..lock)
      BY DEF Unsettled
    <3> QED
      BY <2>1, <3>1, UpTo
  <2> DEFINE had == (1 + lock) * (1 + losses)
  <2>3. had \in Nat
    BY <2>1, Grid
  <2>4. /\ fills \in Nat
        /\ fills + Cardinality(Unsettled) + (IF dropper = "memory" THEN 1 + lock ELSE 0) <= had
    BY DEF FillInv, FillsInv
  <2>5. fills <= had
    <3> HIDE DEF had
    <3> QED
      BY <2>1, <2>2, <2>3, <2>4
  <2> QED
    BY <2>5 DEF FilledOnce
<1> QED
  BY <1>1, <1>2, <1>3, CacheTypes, PTL DEF CacheSpec
==============================================================================
