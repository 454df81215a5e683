--------------------------- MODULE SlotHub_proofs ---------------------------
(***************************************************************************)
(* Proofs about the hub, for any number of servers, watches and streams.   *)
(***************************************************************************)
EXTENDS SlotHub, FiniteSetTheorems, TLAPS

(* What the handler of a stream has by the time it has reached a phase.     *)
HandlerInv ==
  \A s \in Streams :
    /\ phase[s] \notin {"new", "refused"} => req[s] \in StreamRequests
    /\ phase[s] \in {"subscribed", "listed", "open", "ended"} => watchOf[s] \in Watches
    /\ phase[s] \in {"new", "refused", "admitted", "subscribed"} => guard[s] = "none"
    /\ guard[s] = "held" => phase[s] \in {"listed", "open"}

(* The inductive invariant. HandlerInv makes the indices of the maps        *)
(* meaningful; Served and OnePoller need each other (a poller stops only    *)
(* when its watch has no receiver, and every receiver's watch is the one in *)
(* the map); EntriesBalance needs HandlerInv only.                          *)
IInv == HubTypeOK /\ HandlerInv /\ Served /\ OnePoller

LEMMA InitIInv == HubInit => IInv
BY HubAssumption DEF HubInit, IInv, HubTypeOK, HandlerInv, Served, OnePoller, Running

LEMMA KeyOfType ==
  ASSUME NEW s \in Streams, req[s] \in StreamRequests
  PROVE  KeyOf(s) \in EntryKeys
BY DEF KeyOf, EntryKeys, StreamRequests

LEMMA TypeStep == HubTypeOK /\ HandlerInv /\ [HubNext]_hubVars => HubTypeOK'
<1> SUFFICES ASSUME HubTypeOK, HandlerInv, [HubNext]_hubVars PROVE HubTypeOK'
  OBVIOUS
<1> USE DEF HubTypeOK
<1>1. ASSUME NEW s \in Streams, NEW r \in StreamRequests, Admit(s, r) PROVE HubTypeOK'
  BY <1>1 DEF Admit
<1>2. ASSUME NEW s \in Streams, JoinWatch(s) PROVE HubTypeOK'
  BY <1>2, HandlerInv DEF JoinWatch, HandlerInv, StreamRequests
<1>3. ASSUME NEW s \in Streams, NEW w \in Watches, StartWatch(s, w) PROVE HubTypeOK'
  BY <1>3, HandlerInv DEF StartWatch, HandlerInv, StreamRequests
<1>4. ASSUME NEW s \in Streams, AddWaiter(s) PROVE HubTypeOK'
  <2>1. KeyOf(s) \in EntryKeys /\ watchOf[s] \in Watches
    BY <1>4, HandlerInv, KeyOfType DEF AddWaiter, HandlerInv
  <2>2. entries' \in [Watches -> [EntryKeys -> Nat]]
    <3>1. CASE req[s].armed
      <4>1. entries' = [entries EXCEPT ![watchOf[s]][KeyOf(s)] = @ + 1]
        BY <1>4, <3>1 DEF AddWaiter
      <4> QED
        BY <4>1, <2>1
    <3>2. CASE ~req[s].armed
      BY <1>4, <3>2 DEF AddWaiter
    <3> QED
      BY <3>1, <3>2
  <2> QED
    BY <1>4, <2>2 DEF AddWaiter
<1>5. ASSUME NEW s \in Streams, OpenStream(s) PROVE HubTypeOK'
  BY <1>5 DEF OpenStream
<1>6. ASSUME NEW s \in Streams, End(s) PROVE HubTypeOK'
  BY <1>6 DEF End, Unlist
<1>7. ASSUME NEW s \in Streams, GraceOver(s) PROVE HubTypeOK'
  <2>1. KeyOf(s) \in EntryKeys /\ watchOf[s] \in Watches
    BY <1>7, HandlerInv, KeyOfType DEF GraceOver, HandlerInv
  <2>2. entries' \in [Watches -> [EntryKeys -> Nat]]
    BY <1>7, <2>1 DEF GraceOver
  <2> QED
    BY <1>7, <2>2 DEF GraceOver
<1>8. ASSUME NEW v \in Servers, NEW c \in Conns, Close(v, c) PROVE HubTypeOK'
  BY <1>8 DEF Close
<1>9. ASSUME NEW w \in Watches, KeepPolling(w) \/ StopPolling(w) \/ PollDone(w) PROVE HubTypeOK'
  BY <1>9 DEF KeepPolling, StopPolling, PollDone
<1>10. CASE UNCHANGED hubVars
  BY <1>10 DEF hubVars
<1> QED
  BY <1>1, <1>2, <1>3, <1>4, <1>5, <1>6, <1>7, <1>8, <1>9, <1>10 DEF HubNext, Disconnect, LifetimeOver, Closed

LEMMA HandlerStep == HubTypeOK /\ HandlerInv /\ [HubNext]_hubVars => HandlerInv'
<1> SUFFICES ASSUME HubTypeOK, HandlerInv, [HubNext]_hubVars PROVE HandlerInv'
  OBVIOUS
<1> USE DEF HubTypeOK, HandlerInv
<1>1. ASSUME NEW s \in Streams, NEW r \in StreamRequests, Admit(s, r) PROVE HandlerInv'
  BY <1>1 DEF Admit
<1>2. ASSUME NEW s \in Streams, JoinWatch(s) PROVE HandlerInv'
  BY <1>2 DEF JoinWatch, StreamRequests
<1>3. ASSUME NEW s \in Streams, NEW w \in Watches, StartWatch(s, w) PROVE HandlerInv'
  BY <1>3 DEF StartWatch
<1>4. ASSUME NEW s \in Streams, AddWaiter(s) PROVE HandlerInv'
  BY <1>4 DEF AddWaiter
<1>5. ASSUME NEW s \in Streams, OpenStream(s) PROVE HandlerInv'
  BY <1>5 DEF OpenStream
<1>6. ASSUME NEW s \in Streams, phase[s] = "open", End(s) PROVE HandlerInv'
  BY <1>6 DEF End
<1>7. ASSUME NEW s \in Streams, GraceOver(s) PROVE HandlerInv'
  BY <1>7 DEF GraceOver
<1>8. ASSUME NEW v \in Servers, NEW c \in Conns, Close(v, c) PROVE HandlerInv'
  BY <1>8 DEF Close
<1>9. ASSUME NEW w \in Watches, KeepPolling(w) \/ StopPolling(w) \/ PollDone(w) PROVE HandlerInv'
  BY <1>9 DEF KeepPolling, StopPolling, PollDone
<1>10. CASE UNCHANGED hubVars
  BY <1>10 DEF hubVars
<1> QED
  BY <1>1, <1>2, <1>3, <1>4, <1>5, <1>6, <1>7, <1>8, <1>9, <1>10 DEF HubNext, Disconnect, LifetimeOver, Closed

LEMMA ServedStep == IInv /\ [HubNext]_hubVars => Served' /\ OnePoller'
<1> SUFFICES ASSUME IInv, [HubNext]_hubVars PROVE Served' /\ OnePoller'
  OBVIOUS
<1> USE DEF IInv, HubTypeOK, HandlerInv, Served, OnePoller, Running
<1>1. ASSUME NEW s \in Streams, NEW r \in StreamRequests, Admit(s, r) PROVE Served' /\ OnePoller'
  BY <1>1 DEF Admit
<1>2. ASSUME NEW s \in Streams, JoinWatch(s) PROVE Served' /\ OnePoller'
  BY <1>2 DEF JoinWatch, StreamRequests
<1>3. ASSUME NEW s \in Streams, NEW w \in Watches, StartWatch(s, w) PROVE Served' /\ OnePoller'
  BY <1>3, HubAssumption DEF StartWatch, StreamRequests
<1>4. ASSUME NEW s \in Streams, AddWaiter(s) PROVE Served' /\ OnePoller'
  BY <1>4 DEF AddWaiter
<1>5. ASSUME NEW s \in Streams, OpenStream(s) PROVE Served' /\ OnePoller'
  BY <1>5 DEF OpenStream
<1>6. ASSUME NEW s \in Streams, End(s) PROVE Served' /\ OnePoller'
  BY <1>6 DEF End
<1>7. ASSUME NEW s \in Streams, GraceOver(s) PROVE Served' /\ OnePoller'
  BY <1>7 DEF GraceOver
<1>8. ASSUME NEW v \in Servers, NEW c \in Conns, Close(v, c) PROVE Served' /\ OnePoller'
  BY <1>8 DEF Close
<1>9. ASSUME NEW w \in Watches, KeepPolling(w) \/ PollDone(w) PROVE Served' /\ OnePoller'
  <2>1. \A x \in Watches : Running(x)' <=> Running(x)
    BY <1>9 DEF KeepPolling, PollDone
  <2>2. UNCHANGED <<phase, req, watchOf, current, home>>
    BY <1>9 DEF KeepPolling, PollDone
  <2>3. Served'
    BY <2>1, <2>2
  <2>4. \A v \in Servers : current[v] # None => current[v] \in Watches
    OBVIOUS
  <2> QED
    BY <2>1, <2>2, <2>3, <2>4
<1>10. ASSUME NEW w \in Watches, StopPolling(w) PROVE Served' /\ OnePoller'
  BY <1>10, HubAssumption DEF StopPolling, Receivers
<1>11. CASE UNCHANGED hubVars
  BY <1>11 DEF hubVars
<1> QED
  BY <1>1, <1>2, <1>3, <1>4, <1>5, <1>6, <1>7, <1>8, <1>9, <1>10, <1>11
     DEF HubNext, Disconnect, LifetimeOver, Closed

(* The holders of one entry are finitely many. *)
LEMMA HoldersFinite ==
  ASSUME NEW w, NEW k
  PROVE  IsFiniteSet(Holders(w, k)) /\ Cardinality(Holders(w, k)) \in Nat
<1>1. Holders(w, k) \subseteq Streams
  BY DEF Holders
<1> QED
  BY <1>1, HubAssumption, FS_Subset, FS_CardinalityType

LEMMA BalanceStep == IInv /\ EntriesBalance /\ [HubNext]_hubVars => EntriesBalance'
<1> SUFFICES ASSUME IInv, EntriesBalance, [HubNext]_hubVars,
                    NEW w \in Watches, NEW k \in EntryKeys
             PROVE  entries'[w][k] = Cardinality(Holders(w, k)')
  BY DEF EntriesBalance
<1> USE DEF IInv, HubTypeOK, HandlerInv
<1>0. entries[w][k] = Cardinality(Holders(w, k))
  BY DEF EntriesBalance
<1>1. ASSUME UNCHANGED entries, Holders(w, k)' = Holders(w, k)
      PROVE  entries'[w][k] = Cardinality(Holders(w, k)')
  BY <1>0, <1>1
<1>2. ASSUME NEW s \in Streams, NEW r \in StreamRequests, Admit(s, r)
      PROVE  entries'[w][k] = Cardinality(Holders(w, k)')
  BY <1>1, <1>2 DEF Admit, Holders, KeyOf
<1>3. ASSUME NEW s \in Streams, JoinWatch(s) \/ \E x \in Watches : StartWatch(s, x)
      PROVE  entries'[w][k] = Cardinality(Holders(w, k)')
  BY <1>1, <1>3 DEF JoinWatch, StartWatch, Holders, KeyOf
<1>4. ASSUME NEW s \in Streams, AddWaiter(s)
      PROVE  entries'[w][k] = Cardinality(Holders(w, k)')
  <2>1. CASE ~req[s].armed
    BY <1>1, <1>4, <2>1 DEF AddWaiter, Holders, KeyOf
  <2>2. CASE req[s].armed
    <3> DEFINE mine == w = watchOf[s] /\ k = KeyOf(s)
    <3>1. /\ entries' = [entries EXCEPT ![watchOf[s]][KeyOf(s)] = @ + 1]
          /\ guard' = [guard EXCEPT ![s] = "held"]
          /\ UNCHANGED <<req, watchOf>>
          /\ guard[s] = "none"
      BY <1>4, <2>2 DEF AddWaiter
    <3>2. CASE mine
      <4>1. s \notin Holders(w, k) /\ Holders(w, k)' = Holders(w, k) \cup {s}
        BY <3>1, <3>2 DEF Holders, KeyOf
      <4>2. entries'[w][k] = entries[w][k] + 1
        BY <3>1, <3>2
      <4>3. Cardinality(Holders(w, k) \cup {s}) = Cardinality(Holders(w, k)) + 1
        BY <4>1, HoldersFinite, FS_AddElement
      <4>4. Cardinality(Holders(w, k)') = Cardinality(Holders(w, k) \cup {s})
        BY <4>1
      <4> QED
        BY <1>0, <4>2, <4>3, <4>4
    <3>3. CASE ~mine
      <4>1. Holders(w, k)' = Holders(w, k)
        BY <3>1, <3>3 DEF Holders, KeyOf
      <4>2. entries'[w][k] = entries[w][k]
        BY <3>1, <3>3
      <4> QED
        BY <1>0, <4>1, <4>2
    <3> QED
      BY <3>2, <3>3
  <2> QED
    BY <2>1, <2>2
<1>5. ASSUME NEW s \in Streams, OpenStream(s)
      PROVE  entries'[w][k] = Cardinality(Holders(w, k)')
  BY <1>1, <1>5 DEF OpenStream, Holders, KeyOf
<1>6. ASSUME NEW s \in Streams, End(s)
      PROVE  entries'[w][k] = Cardinality(Holders(w, k)')
  BY <1>1, <1>6 DEF End, Holders, KeyOf
<1>7. ASSUME NEW s \in Streams, GraceOver(s)
      PROVE  entries'[w][k] = Cardinality(Holders(w, k)')
  <2> DEFINE mine == w = watchOf[s] /\ k = KeyOf(s)
  <2>1. /\ entries' = [entries EXCEPT ![watchOf[s]][KeyOf(s)] = IF @ > 0 THEN @ - 1 ELSE 0]
        /\ guard' = [guard EXCEPT ![s] = "released"]
        /\ UNCHANGED <<req, watchOf>>
        /\ guard[s] = "grace"
    BY <1>7 DEF GraceOver
  <2>2. CASE mine
    <3>1. s \in Holders(w, k) /\ Holders(w, k)' = Holders(w, k) \ {s}
      BY <2>1, <2>2 DEF Holders, KeyOf
    <3>2. Cardinality(Holders(w, k)') = Cardinality(Holders(w, k)) - 1
      BY <3>1, HoldersFinite, FS_RemoveElement
    <3>3. Cardinality(Holders(w, k)) # 0
      BY <3>1, HoldersFinite, FS_EmptySet
    <3>4. entries'[w][k] = IF entries[w][k] > 0 THEN entries[w][k] - 1 ELSE 0
      BY <2>1, <2>2
    <3> QED
      BY <1>0, <3>2, <3>3, <3>4, HoldersFinite
  <2>3. CASE ~mine
    <3>1. Holders(w, k)' = Holders(w, k)
      BY <2>1, <2>3 DEF Holders, KeyOf
    <3>2. entries'[w][k] = entries[w][k]
      BY <2>1, <2>3
    <3> QED
      BY <1>0, <3>1, <3>2
  <2> QED
    BY <2>2, <2>3
<1>8. ASSUME NEW v \in Servers, NEW c \in Conns, Close(v, c)
      PROVE  entries'[w][k] = Cardinality(Holders(w, k)')
  BY <1>1, <1>8 DEF Close, Holders, KeyOf
<1>9. ASSUME NEW x \in Watches, KeepPolling(x) \/ StopPolling(x) \/ PollDone(x)
      PROVE  entries'[w][k] = Cardinality(Holders(w, k)')
  BY <1>1, <1>9 DEF KeepPolling, StopPolling, PollDone, Holders, KeyOf
<1>10. CASE UNCHANGED hubVars
  BY <1>1, <1>10 DEF hubVars, Holders, KeyOf
<1> QED
  BY <1>2, <1>3, <1>4, <1>5, <1>6, <1>7, <1>8, <1>9, <1>10 DEF HubNext, Disconnect, LifetimeOver, Closed

LEMMA InitBalance == HubInit => EntriesBalance
<1> SUFFICES ASSUME HubInit, NEW w \in Watches, NEW k \in EntryKeys
             PROVE  entries[w][k] = Cardinality(Holders(w, k))
  BY DEF EntriesBalance
<1>1. Holders(w, k) = {}
  BY DEF HubInit, Holders
<1> QED
  BY <1>1, FS_EmptySet DEF HubInit

(* The hub keeps its types, for any constants. *)
THEOREM HubInvariant == HubSpec => []IInv
<1>1. IInv /\ [HubNext]_hubVars => IInv'
  BY TypeStep, HandlerStep, ServedStep DEF IInv
<1> QED
  BY InitIInv, <1>1, PTL DEF HubSpec

(* Every stream that holds a receiver is served by the watch in the map,    *)
(* whose poller runs: however subscribing and stopping interleave.          *)
THEOREM StreamsAreServed == HubSpec => []Served
BY HubInvariant, PTL DEF IInv

(* No server ever has two pollers. *)
THEOREM AtMostOnePoller == HubSpec => []OnePoller
BY HubInvariant, PTL DEF IInv

(* The waiting list counts each entry exactly: an armed stream is listed for *)
(* as long as it lives and until its grace timer fires, and nothing leaks.   *)
THEOREM WaitingListBalances == HubSpec => []EntriesBalance
<1>1. IInv /\ EntriesBalance /\ [HubNext]_hubVars => EntriesBalance'
  BY BalanceStep
<1> QED
  BY <1>1, InitBalance, HubInvariant, PTL DEF HubSpec

(* The hub keeps its types: a handler, a poller and a timer never find a    *)
(* stream, a watch or an entry in a state their step was not written for.   *)
THEOREM HubTypes == HubSpec => []HubTypeOK
BY HubInvariant, PTL DEF IInv

(* What a step may do to open_streams, and to the stream it takes out of it. *)
LEMMA OpenStep ==
  ASSUME HubTypeOK, HandlerInv, [HubNext]_hubVars, NEW v \in Servers, NEW c \in Conns,
         open[v][c] \notin {None, open'[v][c]}
  PROVE  \/ phase'[open[v][c]] = "ended"
         \/ open'[v][c] # None /\ phase[open'[v][c]] = "listed"
<1>1. /\ open \in [Servers -> [Conns -> Streams \cup {None}]]
      /\ phase \in [Streams -> {"new", "refused", "admitted", "subscribed", "listed", "open", "ended"}]
  BY DEF HubTypeOK
<1>2. open' # open
  OBVIOUS
<1>3. ASSUME NEW s \in Streams, OpenStream(s)
      PROVE  open'[v][c] = s /\ s # None /\ phase[s] = "listed"
  <2>1. req[s].conn # None /\ open' = [open EXCEPT ![req[s].server][req[s].conn] = s]
    BY <1>2, <1>3 DEF OpenStream
  <2> QED
    BY <1>1, <1>3, <2>1, HubAssumption DEF OpenStream
<1>4. ASSUME NEW s \in Streams, End(s)
      PROVE  phase'[open[v][c]] = "ended"
  <2>1. open' = Unlist(s) /\ phase' = [phase EXCEPT ![s] = "ended"]
    BY <1>4 DEF End
  <2>2. open[v][c] = s
    BY <1>1, <1>2, <2>1 DEF Unlist
  <2> QED
    BY <1>1, <2>1, <2>2
<1>5. \E s \in Streams : OpenStream(s) \/ End(s)
  BY <1>2 DEF HubNext, hubVars, Admit, JoinWatch, StartWatch, AddWaiter, Disconnect, LifetimeOver, Closed,
              GraceOver, Close, KeepPolling, StopPolling, PollDone
<1> QED
  BY <1>3, <1>4, <1>5

(* A stream leaves open_streams by its own end or under a later stream of   *)
(* the same connection id, never by the late end of an older one.           *)
THEOREM OwnEntriesOnly == HubSpec => OnlyOwnEntryGoes
<1> DEFINE Step ==
      \A v \in Servers, c \in Conns :
        open[v][c] \notin {None, open'[v][c]} =>
          \/ phase'[open[v][c]] = "ended"
          \/ open'[v][c] # None /\ phase[open'[v][c]] = "listed"
<1>1. IInv /\ [HubNext]_hubVars => [Step]_hubVars
  BY OpenStep DEF IInv
<1> QED
  BY <1>1, HubInvariant, PTL DEF HubSpec, OnlyOwnEntryGoes

============================================================================
