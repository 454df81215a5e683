------------------------- MODULE SlotStream_proofs --------------------------
(***************************************************************************)
(* A page that follows a watch shows what the watch knows. Where a page    *)
(* stands is a number and a waiting list; each event under way to it takes *)
(* it from one standing to the next, the last to where its receiver is in  *)
(* the log.                                                                *)
(***************************************************************************)
EXTENDS SlotStream, ServerWatch_proofs

-----------------------------------------------------------------------------
(* What there is to prove *)

Links == {"off", "connecting", "up", "cut", "backoff"}
Statuses == {"armed", "fired", "already-in"}
Lives == [players : Seq(Players), meta : Metas \union {None}, waiting : WaitingLists]

(* What goes to a page: the feed's events, heartbeats and rotates. *)
Kinds == NumberedKinds \union {"poll", "waiting", "heartbeat", "rotate"}

Sendable ==
  [kind : Kinds, seq : Nat, meta : Metas \union {None},
   players : Seq(Players) \union {None}, player : Players \union {None},
   waiting : WaitingLists \union {None}]

Complete(e) ==
  /\ e.kind = "snapshot" => e.players \in Seq(Players) /\ e.meta \in Metas /\ e.waiting \in WaitingLists
  /\ e.kind \in {"join", "leave"} => e.player \in Players
  /\ e.kind = "meta" => e.meta \in Metas
  /\ e.kind = "waiting" => e.waiting \in WaitingLists

Sane == {e \in Sendable : Complete(e)}

StreamTypes ==
  /\ epoch \in 0..MaxEpoch
  /\ link \in [Pages -> Links]
  /\ watched \in [Pages -> Nat]
  /\ cursor \in [Pages -> Nat]
  /\ wire \in [Pages -> Seq(Sane)]
  /\ seq \in [Pages -> Nat \union {None}]
  /\ era \in [Pages -> Nat]
  /\ live \in [Pages -> Lives]
  /\ status \in [Pages -> Statuses]

-----------------------------------------------------------------------------
(* Where a page stands: the number it reached on its stream's watch, 0 before *)
(* the stream's snapshot, and the waiting list it heard last.                *)

Standings == [at : Nat, said : WaitingLists]

Idle == {"heartbeat", "rotate", "waiting"}

(* An event takes a page from one standing to the next. *)
Moves(e, p, q) ==
  /\ q.said = IF e.kind \in Saying THEN e.waiting ELSE p.said
  /\ \/ e.kind \in Idle /\ q.at = p.at
     \/ e.kind = "snapshot" /\ q.at = e.seq /\ q.at >= p.at /\ q.at > 0
     \/ e.kind \in {"join", "leave", "meta"} /\ p.at > 0 /\ q.at = p.at + 1 /\ e.seq = q.at
     \/ e.kind = "poll" /\ p.at > 0 /\ q.at = p.at /\ e.seq = q.at

Path(f, w, p, q) ==
  /\ f \in [0..Len(w) -> Standings]
  /\ f[0] = p /\ f[Len(w)] = q
  /\ \A i \in 1..Len(w) : Moves(w[i], f[i - 1], f[i])

Leads(w, p, q) == \E f : Path(f, w, p, q)

(* Nothing under way leads nowhere. *)
LEMMA LeadsNowhere ==
  ASSUME NEW p \in Standings
  PROVE  Leads(<<>>, p, p)
<1> DEFINE f == [i \in 0..0 |-> p]
<1>1. Path(f, <<>>, p, p)
  BY DEF Path
<1> QED
  BY <1>1 DEF Leads

(* One more event leads one step further. *)
LEMMA LeadsFurther ==
  ASSUME NEW w \in Seq(Sane), NEW p, NEW q, Leads(w, p, q), NEW e \in Sane, NEW r \in Standings, Moves(e, q, r)
  PROVE  Leads(Append(w, e), p, r)
<1> PICK f : Path(f, w, p, q)
  BY DEF Leads
<1> DEFINE n == Len(w)
           v == Append(w, e)
           g == [i \in 0..(n + 1) |-> IF i <= n THEN f[i] ELSE r]
<1>1. /\ n \in Nat /\ Len(v) = n + 1 /\ v[n + 1] = e /\ \A i \in 1..n : v[i] = w[i]
  OBVIOUS
<1>2. /\ f \in [0..n -> Standings] /\ f[0] = p /\ f[n] = q
      /\ \A i \in 1..n : Moves(w[i], f[i - 1], f[i])
  BY DEF Path
<1> HIDE DEF n, v
<1>3. g \in [0..Len(v) -> Standings]
  BY <1>1, <1>2
<1>4. g[0] = p /\ g[Len(v)] = r
  BY <1>1, <1>2
<1>5. ASSUME NEW i \in 1..Len(v)
      PROVE  Moves(v[i], g[i - 1], g[i])
  <2>1. CASE i \in 1..n
    <3>1. v[i] = w[i] /\ g[i - 1] = f[i - 1] /\ g[i] = f[i]
      BY <1>1, <2>1
    <3> QED
      BY <1>2, <2>1, <3>1
  <2>2. CASE i = n + 1
    <3>1. v[i] = e /\ g[i - 1] = q /\ g[i] = r
      BY <1>1, <1>2, <2>2
    <3> QED
      BY <3>1
  <2> QED
    BY <1>1, <2>1, <2>2
<1> HIDE DEF g
<1>6. Path(g, v, p, r)
  BY <1>3, <1>4, <1>5 DEF Path
<1> QED
  BY <1>6 DEF Leads, v

(* The first event is the first step. *)
LEMMA LeadsByTheFirst ==
  ASSUME NEW w \in Seq(Sane), w # <<>>, NEW p, NEW q, Leads(w, p, q)
  PROVE  \E m \in Standings : Moves(Head(w), p, m) /\ Leads(Tail(w), m, q)
<1> PICK f : Path(f, w, p, q)
  BY DEF Leads
<1> DEFINE n == Len(w)
           v == Tail(w)
           g == [i \in 0..(n - 1) |-> f[i + 1]]
<1>1. /\ n \in Nat /\ n > 0 /\ Len(v) = n - 1 /\ Head(w) = w[1] /\ \A i \in 1..(n - 1) : v[i] = w[i + 1]
  OBVIOUS
<1>2. /\ f \in [0..n -> Standings] /\ f[0] = p /\ f[n] = q
      /\ \A i \in 1..n : Moves(w[i], f[i - 1], f[i])
  BY DEF Path
<1> HIDE DEF n, v
<1>3. Moves(Head(w), p, f[1]) /\ f[1] \in Standings
  <2>1. 1 \in 1..n /\ 1 \in 0..n /\ 1 - 1 = 0
    BY <1>1
  <2>2. Moves(w[1], f[1 - 1], f[1])
    BY <1>2, <2>1
  <2> QED
    BY <1>1, <1>2, <2>1, <2>2
<1>4. g \in [0..Len(v) -> Standings]
  BY <1>1, <1>2
<1>5. g[0] = f[1] /\ g[Len(v)] = q
  BY <1>1, <1>2
<1>6. ASSUME NEW i \in 1..Len(v)
      PROVE  Moves(v[i], g[i - 1], g[i])
  <2>1. v[i] = w[i + 1] /\ g[i - 1] = f[i] /\ g[i] = f[i + 1] /\ i + 1 \in 1..n /\ (i + 1) - 1 = i
    BY <1>1
  <2>2. Moves(w[i + 1], f[(i + 1) - 1], f[i + 1])
    BY <1>2, <2>1
  <2> QED
    BY <2>1, <2>2
<1> HIDE DEF g
<1>7. Path(g, v, f[1], q)
  BY <1>4, <1>5, <1>6 DEF Path
<1> QED
  BY <1>3, <1>7 DEF Leads, v

(* Heartbeats alone lead nowhere. *)
LEMMA LeadsByHeartbeats ==
  ASSUME NEW w \in Seq(Sane), NEW p, NEW q, Leads(w, p, q), \A i \in DOMAIN w : w[i].kind = "heartbeat"
  PROVE  q.at = p.at /\ q.said = p.said
<1> PICK f : Path(f, w, p, q)
  BY DEF Leads
<1> DEFINE n == Len(w)
           holds == {i \in 0..n : f[i].at = p.at /\ f[i].said = p.said}
<1>1. n \in Nat /\ DOMAIN w = 1..n
  OBVIOUS
<1>2. /\ f[0] = p /\ f[n] = q
      /\ \A i \in 1..n : Moves(w[i], f[i - 1], f[i])
  BY DEF Path
<1> HIDE DEF n
<1>3. 0 \in holds
  BY <1>1, <1>2
<1>4. \A i \in 1..n : i - 1 \in holds => i \in holds
  <2> SUFFICES ASSUME NEW i \in 1..n, i - 1 \in holds
               PROVE  i \in holds
    OBVIOUS
  <2>1. Moves(w[i], f[i - 1], f[i]) /\ w[i].kind = "heartbeat" /\ i \in 0..n
    BY <1>1, <1>2
  <2>2. f[i].at = f[i - 1].at /\ f[i].said = f[i - 1].said
    BY <2>1 DEF Moves, Saying
  <2> QED
    BY <2>1, <2>2
<1>5. n \in holds
  <2> HIDE DEF holds
  <2>1. \A i \in 0..n : i \in holds
    BY <1>1, <1>3, <1>4, Climb
  <2> QED
    BY <1>1, <2>1
<1> QED
  BY <1>2, <1>5

-----------------------------------------------------------------------------
(* The invariant *)

Reached(c) == IF seq[c] # None /\ era[c] = watched[c] THEN seq[c] ELSE 0

Standing(c) == [at |-> Reached(c), said |-> live[c].waiting]

(* An event of the watch that is there now. *)
Current(e, ch) ==
  \/ e.kind \in {"heartbeat", "rotate"}
  \/ Fits(e, ch.views) /\ e.seq <= ch.seq /\ (e.kind = "snapshot" => e.seq > 0)

InTime(c) ==
  /\ era[c] <= watched[c] /\ watched[c] <= epoch
  /\ link[c] = "up" => watched[c] = epoch /\ cursor[c] <= Len(channel.log)
  /\ link[c] \notin {"up", "cut"} => wire[c] = <<>>
  /\ Len(wire[c]) <= MaxWire + 1
  /\ seq[c] # None => live[c].meta \in Metas

Mirrors(c) ==
  Synced(c) => /\ seq[c] \in 1..channel.seq
               /\ channel.views[seq[c]] = ListView(live[c].players, live[c].meta)

Carries(c) == watched[c] = epoch => \A i \in 1..Len(wire[c]) : Current(wire[c][i], channel)

(* The standing of the receiver at its place in the log. *)
Behind(log, i, p) == p.at = SeqAt(log, i) /\ (p.at > 0 => SaidLast(log, i, p.said))

Follows(c) ==
  \E q \in Standings : /\ Leads(wire[c], Standing(c), q)
                       /\ link[c] = "up" => Behind(channel.log, cursor[c], q)

PageOK(c) == InTime(c) /\ Mirrors(c) /\ Carries(c) /\ Follows(c)

StreamInv == WatchInv /\ StreamTypes /\ \A c \in Pages : PageOK(c)

-----------------------------------------------------------------------------
(* Events and pages *)

(* An event of a feed is one a page can handle. *)
LEMMA EventIsSane ==
  ASSUME NEW e \in Events, NEW views, Fits(e, views)
  PROVE  e \in Sane
<1>1. e \in Sendable
  BY DEF Events, Sendable, Kinds
<1>2. Complete(e)
  BY DEF Fits, LeadsOn, Complete, NumberedKinds
<1> QED
  BY <1>1, <1>2 DEF Sane

(* The number reached at a place of the log is none after the feed's own. *)
LEMMA SeqAtIs ==
  ASSUME NEW ch, ChannelOK(ch), NEW i \in 0..Len(ch.log)
  PROVE  SeqAt(ch.log, i) \in Nat /\ SeqAt(ch.log, i) <= ch.seq
<1> DEFINE log == ch.log
<1>1. ch.seq \in Nat /\ log \in Seq(Events)
  BY ChannelIs
<1>2. CASE i = 0
  BY <1>1, <1>2 DEF SeqAt
<1>3. CASE i # 0
  <2>1. i \in 1..Len(log)
    BY <1>1, <1>3
  <2>2. EntryOK(ch, i)
    BY <2>1 DEF ChannelOK
  <2>3. log[i] \in Events
    BY <1>1, <2>1
  <2>4. SeqAt(log, i) = log[i].seq /\ log[i].seq \in Nat
    BY <1>3, <2>3 DEF SeqAt, Events
  <2> QED
    BY <2>2, <2>4 DEF EntryOK
<1> QED
  BY <1>2, <1>3

(* The next event of the log takes a receiver one place further. *)
LEMMA NextInLog ==
  ASSUME NEW ch, ChannelOK(ch), NEW i \in 0..Len(ch.log), i < Len(ch.log),
         NEW p \in Standings, Behind(ch.log, i, p), NEW e, e = ch.log[i + 1]
  PROVE  /\ e \in Sane /\ Current(e, ch)
         /\ \E r \in Standings : Moves(e, p, r) /\ Behind(ch.log, i + 1, r)
<1> DEFINE log == ch.log
           a == p.at
           r == [at |-> e.seq, said |-> IF e.kind \in Saying THEN e.waiting ELSE p.said]
<1>1. ch.seq \in Nat /\ log \in Seq(Events) /\ Len(log) \in Nat
  BY ChannelIs
<1> HIDE DEF log
<1>2. i + 1 \in 1..Len(log) /\ i \in Nat /\ (i + 1) - 1 = i /\ i + 1 # 0
  BY <1>1 DEF log
<1>3. EntryOK(ch, i + 1) /\ e = log[i + 1]
  BY <1>2 DEF ChannelOK, log
<1>4. e \in Events
  BY <1>1, <1>2, <1>3
<1>5. e.seq = a + Bump(e) /\ e.seq <= ch.seq /\ Fits(e, ch.views)
  BY <1>2, <1>3 DEF EntryOK, Behind, log
<1>6. e \in Sane
  BY <1>4, <1>5, EventIsSane
<1>7. a \in Nat /\ p.said \in WaitingLists /\ e.seq \in Nat
  BY <1>4 DEF Standings, Events
<1>8. \/ e.kind = "snapshot" /\ e.seq = a + 1
      \/ e.kind \in {"join", "leave", "meta"} /\ e.seq = a + 1 /\ e.seq > 1
      \/ e.kind = "poll" /\ e.seq = a /\ e.seq > 0
      \/ e.kind = "waiting" /\ e.seq = a
  <2>1. CASE e.kind \in NumberedKinds
    <3>1. e.seq = a + 1
      BY <1>5, <2>1 DEF Bump
    <3>2. e.seq > 1 \/ e.kind = "snapshot"
      BY <1>5, <2>1 DEF Fits, NumberedKinds
    <3> QED
      BY <2>1, <3>1, <3>2 DEF NumberedKinds
  <2>2. CASE e.kind \notin NumberedKinds
    <3>1. e.seq = a
      BY <1>5, <1>7, <2>2 DEF Bump
    <3> QED
      BY <1>5, <2>2, <3>1 DEF Fits
  <2> QED
    BY <2>1, <2>2
<1>9. e.kind = "snapshot" => e.seq > 0
  BY <1>7, <1>8
<1>10. Current(e, ch)
  BY <1>5, <1>9 DEF Current
<1>11. r \in Standings
  <2>1. e.kind \in Saying => e.waiting \in WaitingLists
    BY <1>6 DEF Sane, Complete, Saying
  <2> QED
    BY <1>7, <2>1 DEF Standings
<1>12. r.at = e.seq /\ r.said = (IF e.kind \in Saying THEN e.waiting ELSE p.said)
  OBVIOUS
<1> HIDE DEF r, a
<1>13. Moves(e, p, r)
  <2>1. \/ e.kind \in Idle /\ r.at = a
        \/ e.kind = "snapshot" /\ r.at = e.seq /\ r.at >= a /\ r.at > 0
        \/ e.kind \in {"join", "leave", "meta"} /\ a > 0 /\ r.at = a + 1 /\ e.seq = r.at
        \/ e.kind = "poll" /\ a > 0 /\ r.at = a /\ e.seq = r.at
    BY <1>7, <1>8, <1>12 DEF Idle
  <2> QED
    BY <1>12, <2>1 DEF Moves, a
<1>14. r.at = SeqAt(log, i + 1)
  BY <1>2, <1>3, <1>12 DEF SeqAt
<1>15. ASSUME r.at > 0
       PROVE  SaidLast(log, i + 1, r.said)
  <2>1. CASE e.kind \in Saying
    <3>1. i + 1 \in 1..(i + 1) /\ \A j \in (i + 1 + 1)..(i + 1) : FALSE
      BY <1>2
    <3> QED
      BY <1>3, <1>12, <2>1, <3>1 DEF SaidLast
  <2>2. CASE e.kind \notin Saying
    <3>1. a > 0
      BY <1>7, <1>8, <2>2 DEF Saying
    <3>2. SaidLast(log, i, p.said)
      BY <3>1 DEF Behind, a, log
    <3>3. PICK k \in 1..i : /\ log[k].kind \in Saying /\ log[k].waiting = p.said
                            /\ \A j \in (k + 1)..i : log[j].kind \notin Saying
      BY <3>2 DEF SaidLast
    <3>4. k \in 1..(i + 1) /\ \A j \in (k + 1)..(i + 1) : j \in (k + 1)..i \/ j = i + 1
      BY <1>2
    <3>5. \A j \in (k + 1)..(i + 1) : log[j].kind \notin Saying
      BY <1>3, <2>2, <3>3, <3>4
    <3>6. r.said = p.said
      BY <1>12, <2>2
    <3> QED
      BY <3>3, <3>4, <3>5, <3>6 DEF SaidLast
  <2> QED
    BY <2>1, <2>2
<1> QED
  BY <1>6, <1>10, <1>11, <1>13, <1>14, <1>15 DEF Behind, log

(* A snapshot of the watch brings a receiver to the end of the log. *)
LEMMA SnapshotMoves ==
  ASSUME WatchInv, ready, NEW p \in Standings, p.at <= channel.seq,
         NEW e, e = SnapshotOf(players, meta, channel.seq)
  PROVE  /\ e \in Sane /\ Current(e, channel)
         /\ \E r \in Standings : Moves(e, p, r) /\ Behind(channel.log, Len(channel.log), r)
<1> DEFINE n == channel.seq
           r == [at |-> n, said |-> waiting]
<1>1. /\ players \in Seq(Players) /\ meta \in Metas /\ waiting \in WaitingLists
      /\ ChannelOK(channel) /\ n > 0 /\ channel.views[n] = ListView(players, meta)
      /\ SaidLast(channel.log, Len(channel.log), waiting)
  BY DEF WatchInv, WatchTypeOK
<1>2. n \in Nat
  BY <1>1, ChannelIs
<1>3. SeqAt(channel.log, Len(channel.log)) = n
  BY <1>1 DEF ChannelOK
<1> HIDE DEF n
<1>4. /\ e \in Events /\ e.kind = "snapshot" /\ e.seq = n /\ e.players = players /\ e.meta = meta
      /\ e.waiting = waiting
  <2>1. e = SnapshotOf(players, meta, n)
    BY DEF n
  <2> QED
    BY <1>1, <1>2, <2>1, SnapshotIs
<1>5. LeadsOn(e, channel.views[n - 1], channel.views[n])
  BY <1>1, <1>4 DEF LeadsOn
<1>6. Fits(e, channel.views)
  BY <1>4, <1>5 DEF Fits, NumberedKinds
<1>7. e \in Sane
  BY <1>4, <1>6, EventIsSane
<1>8. n <= channel.seq
  BY <1>2 DEF n
<1>9. Current(e, channel)
  BY <1>1, <1>4, <1>6, <1>8 DEF Current
<1>10. r \in Standings /\ r.at = n /\ r.said = waiting
  BY <1>1, <1>2 DEF Standings
<1> HIDE DEF r
<1>11. r.at >= p.at /\ r.at > 0
  <2>1. p.at \in Nat /\ p.at <= n
    BY DEF Standings, n
  <2> QED
    BY <1>1, <1>2, <1>10, <2>1
<1>12. Moves(e, p, r)
  BY <1>4, <1>10, <1>11 DEF Moves, Saying
<1>13. Behind(channel.log, Len(channel.log), r)
  BY <1>1, <1>3, <1>10 DEF Behind
<1> QED
  BY <1>7, <1>9, <1>10, <1>12, <1>13

-----------------------------------------------------------------------------
(* Pages apart from the one that steps *)

Rests(d) ==
  UNCHANGED <<link[d], watched[d], cursor[d], wire[d], seq[d], era[d], live[d]>>

(* A page that no step touches stands as it did. *)
LEMMA RestingStands ==
  ASSUME NEW d \in Pages, PageOK(d), Rests(d), UNCHANGED <<epoch, channel>>
  PROVE  PageOK(d)'
<1>1. /\ link'[d] = link[d] /\ watched'[d] = watched[d] /\ cursor'[d] = cursor[d] /\ wire'[d] = wire[d]
      /\ seq'[d] = seq[d] /\ era'[d] = era[d] /\ live'[d] = live[d] /\ epoch' = epoch /\ channel' = channel
  BY DEF Rests
<1>2. Standing(d)' = Standing(d)
  BY <1>1 DEF Standing, Reached
<1>3. InTime(d)'
  BY <1>1 DEF PageOK, InTime
<1>4. Mirrors(d)'
  BY <1>1 DEF PageOK, Mirrors, Synced, ListView
<1>5. Carries(d)'
  BY <1>1 DEF PageOK, Carries
<1>6. Follows(d)'
  BY <1>1, <1>2 DEF PageOK, Follows
<1> QED
  BY <1>3, <1>4, <1>5, <1>6 DEF PageOK

(* A step of one page's stream. *)
LEMMA StepStands ==
  ASSUME WatchAssumption, StreamInv, NEW c \in Pages, UNCHANGED <<watchVars, epoch>>, StreamTypes', PageOK(c)',
         \A d \in Pages : d # c => Rests(d)
  PROVE  StreamInv'
<1>1. WatchInv'
  BY WatchKeeps DEF StreamInv
<1>2. UNCHANGED <<epoch, channel>>
  BY DEF watchVars
<1>3. ASSUME NEW d \in Pages
      PROVE  PageOK(d)'
  <2>1. CASE d = c
    BY <2>1
  <2>2. CASE d # c
    <3>1. PageOK(d) /\ Rests(d)
      BY <2>2 DEF StreamInv
    <3> QED
      BY <1>2, <3>1, RestingStands
  <2> QED
    BY <2>1, <2>2
<1> QED
  BY <1>1, <1>3 DEF StreamInv

-----------------------------------------------------------------------------
(* The handler *)

(* What a page holds, by its parts. *)
LEMMA PageIs ==
  ASSUME StreamInv, NEW c \in Pages
  PROVE  /\ link[c] \in Links /\ watched[c] \in Nat /\ cursor[c] \in Nat /\ wire[c] \in Seq(Sane)
         /\ seq[c] \in Nat \union {None} /\ era[c] \in Nat /\ live[c] \in Lives /\ status[c] \in Statuses
         /\ Standing(c) \in Standings /\ epoch \in Nat
         /\ PageOK(c) /\ ChannelOK(channel) /\ channel.seq \in Nat /\ channel.log \in Seq(Events)
<1>1. /\ link[c] \in Links /\ watched[c] \in Nat /\ cursor[c] \in Nat /\ wire[c] \in Seq(Sane)
      /\ seq[c] \in Nat \union {None} /\ era[c] \in Nat /\ live[c] \in Lives /\ status[c] \in Statuses
      /\ epoch \in Nat
  BY StreamAssumption DEF StreamInv, StreamTypes
<1>2. Standing(c) \in Standings
  BY <1>1 DEF Standing, Reached, Standings, Lives
<1>3. ChannelOK(channel) /\ channel.seq \in Nat /\ channel.log \in Seq(Events)
  BY ChannelIs DEF StreamInv, WatchInv
<1> QED
  BY <1>1, <1>2, <1>3 DEF StreamInv

(* The parts of a page once more events are under way to it. *)
LEMMA SendingStands ==
  ASSUME WatchAssumption, StreamInv, NEW c \in Pages, UNCHANGED <<watchVars, epoch, watched, seq, era, live, status>>,
         link \in [Pages -> Links], link' \in [Pages -> Links], cursor' \in [Pages -> Nat],
         wire' \in [Pages -> Seq(Sane)],
         \A d \in Pages : d # c => UNCHANGED <<link[d], cursor[d], wire[d]>>,
         link'[c] \in {"up", "cut"}, link[c] = "up", link'[c] = "up" => cursor'[c] <= Len(channel.log),
         Len(wire'[c]) <= MaxWire + 1,
         \A i \in 1..Len(wire'[c]) : Current(wire'[c][i], channel),
         NEW q \in Standings, Leads(wire'[c], Standing(c), q), link'[c] = "up" => Behind(channel.log, cursor'[c], q)
  PROVE  StreamInv'
<1>1. StreamTypes'
  BY DEF StreamInv, StreamTypes
<1>2. \A d \in Pages : d # c => Rests(d)
  BY DEF Rests
<1>3. PageOK(c) /\ UNCHANGED channel
  BY DEF StreamInv, watchVars
<1>4. Standing(c)' = Standing(c)
  BY DEF Standing, Reached
<1>5. InTime(c)'
  BY <1>3 DEF PageOK, InTime
<1>6. Mirrors(c)'
  BY <1>3 DEF PageOK, Mirrors, Synced, ListView
<1>7. Carries(c)'
  BY <1>3 DEF Carries
<1>8. Follows(c)'
  BY <1>3, <1>4 DEF Follows
<1>9. PageOK(c)'
  BY <1>5, <1>6, <1>7, <1>8 DEF PageOK
<1> QED
  BY <1>1, <1>2, <1>9, StepStands

(* Events of the watch, and one more. *)
LEMMA AppendedAre ==
  ASSUME NEW w \in Seq(Sane), NEW e \in Sane, NEW ch, \A i \in 1..Len(w) : Current(w[i], ch), Current(e, ch)
  PROVE  /\ Append(w, e) \in Seq(Sane) /\ Len(Append(w, e)) = Len(w) + 1
         /\ \A i \in 1..Len(Append(w, e)) : Current(Append(w, e)[i], ch)
<1> DEFINE v == Append(w, e)
<1>1. v \in Seq(Sane) /\ Len(v) = Len(w) + 1 /\ Len(w) \in Nat
  OBVIOUS
<1>2. v[Len(w) + 1] = e /\ \A i \in 1..Len(w) : v[i] = w[i]
  OBVIOUS
<1> HIDE DEF v
<1>3. ASSUME NEW i \in 1..Len(v)
      PROVE  Current(v[i], ch)
  <2>1. i \in 1..Len(w) \/ i = Len(w) + 1
    BY <1>1
  <2> QED
    BY <1>2, <2>1
<1> QED
  BY <1>1, <1>3 DEF v

(* Of a page whose stream is up, with room for another event. *)
LEMMA WritableIs ==
  ASSUME StreamInv, NEW c \in Pages, Writable(c)
  PROVE  /\ link[c] = "up" /\ Len(wire[c]) < MaxWire /\ cursor[c] <= Len(channel.log)
         /\ \A i \in 1..Len(wire[c]) : Current(wire[c][i], channel)
         /\ \E q \in Standings : Leads(wire[c], Standing(c), q) /\ Behind(channel.log, cursor[c], q)
BY DEF Writable, StreamInv, PageOK, InTime, Carries, Follows

(* The handler takes the next event of its receiver, and sends it on. *)
LEMMA ForwardKeeps ==
  ASSUME WatchAssumption, StreamInv, NEW c \in Pages, Forward(c)
  PROVE  StreamInv'
<1> DEFINE w == wire[c]
           i == cursor[c]
           e == channel.log[i + 1]
<1>1. /\ w \in Seq(Sane) /\ i \in Nat /\ ChannelOK(channel) /\ channel.log \in Seq(Events)
      /\ link[c] = "up" /\ Len(w) < MaxWire /\ \A k \in 1..Len(w) : Current(w[k], channel)
  BY PageIs, WritableIs DEF Forward
<1> PICK q \in Standings : Leads(w, Standing(c), q) /\ Behind(channel.log, i, q)
  BY WritableIs DEF Forward
<1>2. i < Len(channel.log)
  BY DEF Forward
<1>3. i \in 0..Len(channel.log) /\ i + 1 <= Len(channel.log) /\ i + 1 \in Nat
  <2> DEFINE n == Len(channel.log)
  <2>1. n \in Nat /\ i < n
    BY <1>1, <1>2
  <2> HIDE DEF n, i
  <2> QED
    BY <1>1, <2>1 DEF n
<1>4. /\ UNCHANGED <<watchVars, epoch, link, watched, seq, era, live, status>>
      /\ wire' = [wire EXCEPT ![c] = Append(w, e)] /\ cursor' = [cursor EXCEPT ![c] = i + 1]
  BY DEF Forward, Yield
<1>5. /\ link \in [Pages -> Links] /\ cursor \in [Pages -> Nat] /\ wire \in [Pages -> Seq(Sane)]
  BY DEF StreamInv, StreamTypes
<1> HIDE DEF w, i, e
<1>6. /\ e \in Sane /\ Current(e, channel)
      /\ \E r \in Standings : Moves(e, q, r) /\ Behind(channel.log, i + 1, r)
  <2>1. e = channel.log[i + 1]
    BY DEF e
  <2> QED
    BY <1>1, <1>2, <1>3, <2>1, NextInLog
<1>7. PICK r \in Standings : Moves(e, q, r) /\ Behind(channel.log, i + 1, r)
  BY <1>6
<1>8. Leads(Append(w, e), Standing(c), r)
  BY <1>1, <1>6, <1>7, LeadsFurther
<1>9. /\ Append(w, e) \in Seq(Sane) /\ Len(Append(w, e)) = Len(w) + 1
      /\ \A k \in 1..Len(Append(w, e)) : Current(Append(w, e)[k], channel)
  BY <1>1, <1>6, AppendedAre
<1>10. Len(Append(w, e)) <= MaxWire + 1
  <2>1. Len(w) \in Nat
    BY <1>1
  <2> QED
    BY <1>1, <1>9, <2>1, StreamAssumption
<1> DEFINE v == Append(w, e)
<1> HIDE DEF v
<1>11. wire' = [wire EXCEPT ![c] = v] /\ v \in Seq(Sane)
  BY <1>4, <1>9 DEF v
<1>12. /\ wire'[c] = v /\ cursor'[c] = i + 1 /\ link'[c] = "up"
       /\ wire' \in [Pages -> Seq(Sane)] /\ cursor' \in [Pages -> Nat] /\ link' \in [Pages -> Links]
       /\ \A d \in Pages : d # c => UNCHANGED <<link[d], cursor[d], wire[d]>>
  BY <1>1, <1>3, <1>4, <1>5, <1>11
<1>13. /\ Len(wire'[c]) <= MaxWire + 1
       /\ \A k \in 1..Len(wire'[c]) : Current(wire'[c][k], channel)
       /\ Leads(wire'[c], Standing(c), r)
       /\ Behind(channel.log, cursor'[c], r)
       /\ cursor'[c] <= Len(channel.log)
  BY <1>3, <1>7, <1>8, <1>9, <1>10, <1>12 DEF v
<1> QED
  BY <1>1, <1>4, <1>5, <1>12, <1>13, SendingStands

(* What the server adds of itself is idle. *)
LEMMA IdleIs ==
  ASSUME NEW kind \in {"heartbeat", "rotate"}, NEW n \in Nat, NEW ch, NEW p \in Standings
  PROVE  Bare(kind, n) \in Sane /\ Current(Bare(kind, n), ch) /\ Moves(Bare(kind, n), p, p)
<1>1. Bare(kind, n) \in Sendable /\ Bare(kind, n).kind = kind
  BY DEF Bare, Sendable, Kinds
<1> QED
  BY <1>1 DEF Sane, Complete, Current, Moves, Idle, Saying

(* The server adds such an event, and may end the stream with it. *)
LEMMA IdleKeeps ==
  ASSUME WatchAssumption, StreamInv, NEW c \in Pages, Writable(c), NEW kind \in {"heartbeat", "rotate"},
         Yield(c, Bare(kind, channel.seq)), link' \in {link, [link EXCEPT ![c] = "cut"]},
         UNCHANGED <<watchVars, epoch, watched, cursor, seq, era, live, status>>
  PROVE  StreamInv'
<1> DEFINE w == wire[c]
           n == channel.seq
           e == Bare(kind, n)
           v == Append(w, e)
<1>1. /\ w \in Seq(Sane) /\ n \in Nat
      /\ link[c] = "up" /\ Len(w) < MaxWire /\ cursor[c] <= Len(channel.log)
      /\ \A k \in 1..Len(w) : Current(w[k], channel)
  BY PageIs, WritableIs
<1> PICK q \in Standings : Leads(w, Standing(c), q) /\ Behind(channel.log, cursor[c], q)
  BY WritableIs
<1>2. wire' = [wire EXCEPT ![c] = v]
  BY DEF Yield
<1>3. /\ link \in [Pages -> Links] /\ cursor \in [Pages -> Nat] /\ wire \in [Pages -> Seq(Sane)]
  BY DEF StreamInv, StreamTypes
<1> HIDE DEF n
<1>4. e \in Sane /\ Current(e, channel) /\ Moves(e, q, q)
  BY <1>1, IdleIs
<1> HIDE DEF w, e
<1>5. Leads(v, Standing(c), q)
  BY <1>1, <1>4, LeadsFurther
<1>6. v \in Seq(Sane) /\ Len(v) = Len(w) + 1 /\ \A k \in 1..Len(v) : Current(v[k], channel)
  BY <1>1, <1>4, AppendedAre
<1>7. Len(v) <= MaxWire + 1
  <2>1. Len(w) \in Nat
    BY <1>1
  <2> QED
    BY <1>1, <1>6, <2>1, StreamAssumption
<1> HIDE DEF v
<1>8. /\ wire'[c] = v /\ link'[c] \in {"up", "cut"}
      /\ wire' \in [Pages -> Seq(Sane)] /\ cursor' \in [Pages -> Nat] /\ link' \in [Pages -> Links]
      /\ \A d \in Pages : d # c => UNCHANGED <<link[d], cursor[d], wire[d]>>
  BY <1>1, <1>2, <1>3, <1>6 DEF Links
<1> QED
  BY <1>1, <1>3, <1>5, <1>6, <1>7, <1>8, SendingStands

(* A heartbeat. *)
LEMMA HeartbeatKeeps ==
  ASSUME WatchAssumption, StreamInv, NEW c \in Pages, Heartbeat(c)
  PROVE  StreamInv'
BY IdleKeeps DEF Heartbeat

(* The stream's lifetime is over. *)
LEMMA RotateKeeps ==
  ASSUME WatchAssumption, StreamInv, NEW c \in Pages, Rotate(c)
  PROVE  StreamInv'
BY IdleKeeps DEF Rotate

(* The stream is dropped, and what is under way still arrives. *)
LEMMA DropKeeps ==
  ASSUME WatchAssumption, StreamInv, NEW c \in Pages, Drop(c)
  PROVE  StreamInv'
<1>1. /\ link[c] = "up" /\ link' = [link EXCEPT ![c] = "cut"]
      /\ UNCHANGED <<watchVars, epoch, watched, cursor, wire, seq, era, live, status>>
  BY DEF Drop
<1>2. /\ link \in [Pages -> Links] /\ cursor \in [Pages -> Nat] /\ wire \in [Pages -> Seq(Sane)]
  BY DEF StreamInv, StreamTypes
<1>3. /\ Len(wire[c]) <= MaxWire + 1
      /\ \A i \in 1..Len(wire[c]) : Current(wire[c][i], channel)
  BY <1>1 DEF StreamInv, PageOK, InTime, Carries
<1>4. PICK q \in Standings : Leads(wire[c], Standing(c), q)
  BY DEF StreamInv, PageOK, Follows
<1>5. /\ link'[c] = "cut" /\ link' \in [Pages -> Links] /\ wire'[c] = wire[c]
      /\ \A d \in Pages : d # c => UNCHANGED <<link[d], cursor[d], wire[d]>>
      /\ wire' \in [Pages -> Seq(Sane)] /\ cursor' \in [Pages -> Nat]
  BY <1>1, <1>2 DEF Links
<1> QED
  BY <1>1, <1>2, <1>3, <1>4, <1>5, SendingStands

(* A receiver that lagged is replaced, with a snapshot that brings the page *)
(* to the end of the log.                                                   *)
LEMMA ResyncKeeps ==
  ASSUME WatchAssumption, StreamInv, NEW c \in Pages, Resync(c)
  PROVE  StreamInv'
<1> DEFINE w == wire[c]
           n == Len(channel.log)
           v == w \o SnapshotIfReady
<1>1. /\ w \in Seq(Sane) /\ ChannelOK(channel) /\ channel.seq \in Nat /\ n \in Nat /\ cursor[c] \in Nat
      /\ link[c] = "up" /\ Len(w) < MaxWire /\ cursor[c] <= n
      /\ \A k \in 1..Len(w) : Current(w[k], channel)
  BY PageIs, WritableIs DEF Resync
<1> PICK q \in Standings : Leads(w, Standing(c), q) /\ Behind(channel.log, cursor[c], q)
  BY WritableIs DEF Resync
<1>2. /\ wire' = [wire EXCEPT ![c] = v] /\ cursor' = [cursor EXCEPT ![c] = n]
      /\ UNCHANGED <<watchVars, epoch, link, watched, seq, era, live, status>>
  BY DEF Resync
<1>3. /\ link \in [Pages -> Links] /\ cursor \in [Pages -> Nat] /\ wire \in [Pages -> Seq(Sane)]
  BY DEF StreamInv, StreamTypes
<1>4. q.at <= channel.seq /\ q.at \in Nat /\ SeqAt(channel.log, n) = channel.seq
  <2>1. cursor[c] \in 0..n
    BY <1>1
  <2> QED
    BY <1>1, <2>1, SeqAtIs DEF Behind, ChannelOK, Standings
<1> HIDE DEF w
<1>5. /\ v \in Seq(Sane) /\ Len(v) <= Len(w) + 1 /\ Len(w) \in Nat /\ Len(v) \in Nat
      /\ \A k \in 1..Len(v) : Current(v[k], channel)
      /\ \E r \in Standings : Leads(v, Standing(c), r) /\ Behind(channel.log, n, r)
  <2>1. CASE ready
    <3> DEFINE e == SnapshotOf(players, meta, channel.seq)
    <3>1. v = Append(w, e)
      BY <1>1, <2>1 DEF SnapshotIfReady
    <3>2. /\ e \in Sane /\ Current(e, channel)
          /\ \E r \in Standings : Moves(e, q, r) /\ Behind(channel.log, n, r)
      BY <1>4, <2>1, SnapshotMoves DEF StreamInv
    <3> HIDE DEF e
    <3>3. PICK r \in Standings : Moves(e, q, r) /\ Behind(channel.log, n, r)
      BY <3>2
    <3>4. Leads(Append(w, e), Standing(c), r)
      BY <1>1, <3>2, <3>3, LeadsFurther
    <3>5. /\ Append(w, e) \in Seq(Sane) /\ Len(Append(w, e)) = Len(w) + 1
          /\ \A k \in 1..Len(Append(w, e)) : Current(Append(w, e)[k], channel)
      BY <1>1, <3>2, AppendedAre
    <3>6. Len(w) \in Nat /\ Len(w) + 1 \in Nat
      BY <1>1
    <3> HIDE DEF v
    <3> QED
      BY <3>1, <3>3, <3>4, <3>5, <3>6
  <2>2. CASE ~ready
    <3>1. v = w
      BY <1>1, <2>2 DEF SnapshotIfReady
    <3>2. channel.seq = 0
      BY <2>2 DEF StreamInv, WatchInv
    <3>3. Behind(channel.log, n, q)
      BY <1>4, <3>2 DEF Behind
    <3>4. Len(w) \in Nat /\ Len(w) <= Len(w) + 1
      BY <1>1
    <3> HIDE DEF v
    <3> QED
      BY <1>1, <3>1, <3>3, <3>4
  <2> QED
    BY <2>1, <2>2
<1>6. PICK r \in Standings : Leads(v, Standing(c), r) /\ Behind(channel.log, n, r)
  BY <1>5
<1> HIDE DEF v, n
<1>7. Len(v) <= MaxWire + 1
  BY <1>1, <1>5, StreamAssumption
<1>8. /\ wire'[c] = v /\ cursor'[c] = n /\ link'[c] = "up" /\ n <= n
      /\ wire' \in [Pages -> Seq(Sane)] /\ cursor' \in [Pages -> Nat] /\ link' \in [Pages -> Links]
      /\ \A d \in Pages : d # c => UNCHANGED <<link[d], cursor[d], wire[d]>>
  BY <1>1, <1>2, <1>3, <1>5
<1>9. cursor'[c] <= Len(channel.log)
  BY <1>8 DEF n
<1> QED
  BY <1>1, <1>2, <1>3, <1>5, <1>6, <1>7, <1>8, <1>9, SendingStands

(* A stream opens: its snapshot, if there is one, and its receiver start at *)
(* the same place.                                                          *)
LEMMA SubscribeKeeps ==
  ASSUME WatchAssumption, StreamInv, NEW c \in Pages, Subscribe(c)
  PROVE  StreamInv'
<1> DEFINE n == Len(channel.log)
           v == SnapshotIfReady
           p == [at |-> IF seq[c] # None /\ era[c] = epoch THEN seq[c] ELSE 0, said |-> live[c].waiting]
<1>1. /\ ChannelOK(channel) /\ channel.seq \in Nat /\ n \in Nat /\ epoch \in Nat
      /\ seq[c] \in Nat \union {None} /\ era[c] \in Nat /\ watched[c] \in Nat /\ live[c] \in Lives
      /\ era[c] <= watched[c] /\ watched[c] <= epoch /\ Mirrors(c)
      /\ seq[c] # None => live[c].meta \in Metas
  BY PageIs DEF PageOK, InTime
<1>2. /\ link' = [link EXCEPT ![c] = "up"] /\ watched' = [watched EXCEPT ![c] = epoch]
      /\ wire' = [wire EXCEPT ![c] = v] /\ cursor' = [cursor EXCEPT ![c] = n]
      /\ UNCHANGED <<watchVars, epoch, seq, era, live, status>>
  BY DEF Subscribe
<1>3. /\ link \in [Pages -> Links] /\ cursor \in [Pages -> Nat] /\ wire \in [Pages -> Seq(Sane)]
      /\ watched \in [Pages -> Nat]
  BY DEF StreamInv, StreamTypes
<1>4. p \in Standings /\ p.at <= channel.seq /\ (channel.seq = 0 => p.at = 0) /\ SeqAt(channel.log, n) = channel.seq
  <2>1. Synced(c) => seq[c] \in Nat /\ seq[c] <= channel.seq /\ seq[c] > 0
    BY <1>1 DEF Mirrors
  <2>2. seq[c] # None /\ era[c] = epoch => Synced(c)
    BY DEF Synced
  <2>3. p.at \in Nat /\ p.at <= channel.seq /\ (channel.seq = 0 => p.at = 0)
    BY <1>1, <2>1, <2>2
  <2>4. p.said \in WaitingLists
    BY <1>1 DEF Lives
  <2>5. p = [at |-> p.at, said |-> p.said]
    OBVIOUS
  <2> HIDE DEF p
  <2> QED
    BY <1>1, <2>3, <2>4, <2>5 DEF ChannelOK, Standings
<1> HIDE DEF p
<1>5. /\ v \in Seq(Sane) /\ Len(v) <= 1
      /\ \A k \in 1..Len(v) : Current(v[k], channel)
      /\ \E r \in Standings : Leads(v, p, r) /\ Behind(channel.log, n, r)
  <2>1. CASE ready
    <3> DEFINE e == SnapshotOf(players, meta, channel.seq)
    <3>1. v = Append(<<>>, e)
      BY <2>1 DEF SnapshotIfReady
    <3>2. /\ e \in Sane /\ Current(e, channel)
          /\ \E r \in Standings : Moves(e, p, r) /\ Behind(channel.log, n, r)
      BY <1>4, <2>1, SnapshotMoves DEF StreamInv
    <3> HIDE DEF e
    <3>3. PICK r \in Standings : Moves(e, p, r) /\ Behind(channel.log, n, r)
      BY <3>2
    <3>4. Leads(<<>>, p, p)
      BY <1>4, LeadsNowhere
    <3> DEFINE none == <<>>
    <3>5. none \in Seq(Sane) /\ Len(none) = 0 /\ v = Append(none, e) /\ Leads(none, p, p)
      BY <3>1, <3>4
    <3> HIDE DEF none, v
    <3>6. Leads(Append(none, e), p, r)
      BY <3>2, <3>3, <3>5, LeadsFurther
    <3>7. \A i \in 1..Len(none) : Current(none[i], channel)
      BY <3>5
    <3>8. /\ Append(none, e) \in Seq(Sane) /\ Len(Append(none, e)) = Len(none) + 1
          /\ \A k \in 1..Len(Append(none, e)) : Current(Append(none, e)[k], channel)
      BY <3>2, <3>5, <3>7, AppendedAre
    <3> QED
      BY <3>3, <3>5, <3>6, <3>8
  <2>2. CASE ~ready
    <3>1. v = <<>>
      BY <2>2 DEF SnapshotIfReady
    <3>2. channel.seq = 0
      BY <2>2 DEF StreamInv, WatchInv
    <3>3. Behind(channel.log, n, p)
      BY <1>4, <3>2 DEF Behind
    <3>4. Leads(<<>>, p, p)
      BY <1>4, LeadsNowhere
    <3>5. v \in Seq(Sane) /\ Len(v) <= 1 /\ \A k \in 1..Len(v) : FALSE
      BY <3>1
    <3> QED
      BY <1>4, <3>1, <3>3, <3>4, <3>5
  <2> QED
    BY <2>1, <2>2
<1> HIDE DEF v, n
<1>6. /\ wire'[c] = v /\ cursor'[c] = n /\ link'[c] = "up" /\ watched'[c] = epoch
      /\ wire' \in [Pages -> Seq(Sane)] /\ cursor' \in [Pages -> Nat] /\ link' \in [Pages -> Links]
      /\ watched' \in [Pages -> Nat]
      /\ \A d \in Pages : d # c => UNCHANGED <<link[d], cursor[d], wire[d], watched[d]>>
  BY <1>1, <1>2, <1>3, <1>5 DEF Links
<1>7. StreamTypes'
  BY <1>2, <1>6 DEF StreamInv, StreamTypes
<1>8. \A d \in Pages : d # c => Rests(d)
  BY <1>2, <1>6 DEF Rests
<1>9. Standing(c)' = p
  BY <1>2, <1>6 DEF Standing, Reached, p
<1>10. UNCHANGED channel
  BY <1>2 DEF watchVars
<1>11. InTime(c)'
  <2>1. era'[c] <= watched'[c] /\ watched'[c] <= epoch'
    BY <1>1, <1>2, <1>6
  <2>2. Len(v) <= MaxWire + 1
    <3>1. Len(v) \in Nat
      BY <1>5
    <3> QED
      BY <1>5, <3>1, StreamAssumption
  <2>3. n <= n
    BY <1>1
  <2> QED
    BY <1>1, <1>2, <1>6, <1>10, <2>1, <2>2, <2>3 DEF InTime, n
<1>12. Mirrors(c)'
  BY <1>1, <1>2, <1>10 DEF Mirrors, Synced, ListView
<1>13. Carries(c)'
  BY <1>5, <1>6, <1>10 DEF Carries
<1>14. Follows(c)'
  BY <1>5, <1>6, <1>9, <1>10 DEF Follows
<1>15. PageOK(c)'
  BY <1>11, <1>12, <1>13, <1>14 DEF PageOK
<1> QED
  BY <1>2, <1>7, <1>8, <1>15, StepStands

-----------------------------------------------------------------------------
(* The page hangs up, or changes its link while nothing is under way. *)

(* A page with no stream, nothing under way to it, follows nothing. *)
LEMMA HungUpStands ==
  ASSUME WatchAssumption, StreamInv, NEW c \in Pages, UNCHANGED <<watchVars, epoch, watched, era>>,
         StreamTypes', wire'[c] = <<>>, link'[c] # "up",
         \A d \in Pages : d # c => UNCHANGED <<link[d], cursor[d], wire[d], seq[d], live[d]>>,
         UNCHANGED <<seq[c], live[c]>> \/ seq'[c] = None
  PROVE  StreamInv'
<1>1. \A d \in Pages : d # c => Rests(d)
  BY DEF Rests
<1>2. PageOK(c) /\ UNCHANGED channel
  BY DEF StreamInv, watchVars
<1>3. InTime(c)'
  <2>1. Len(wire'[c]) <= MaxWire + 1
    BY StreamAssumption
  <2> QED
    BY <1>2, <2>1 DEF PageOK, InTime
<1>4. Mirrors(c)'
  BY <1>2 DEF PageOK, Mirrors, Synced, ListView
<1>5. Carries(c)'
  BY DEF Carries
<1>6. Follows(c)'
  <2> DEFINE p == Standing(c)'
  <2>1. p \in Standings
    BY DEF StreamTypes, Standing, Reached, Standings, Lives
  <2> HIDE DEF p
  <2>2. Leads(<<>>, p, p)
    BY <2>1, LeadsNowhere
  <2> QED
    BY <2>1, <2>2 DEF Follows, p
<1>7. PageOK(c)'
  BY <1>3, <1>4, <1>5, <1>6 DEF PageOK
<1> QED
  BY <1>1, <1>7, StepStands

(* It closes its stream. *)
LEMMA HangUpKeeps ==
  ASSUME WatchAssumption, StreamInv, NEW c \in Pages, NEW next \in {"off", "connecting", "backoff"},
         HangUp(c, next), UNCHANGED <<watchVars, epoch, watched, seq, era, live, status>>
  PROVE  StreamInv'
<1>1. /\ link' = [link EXCEPT ![c] = next] /\ wire' = [wire EXCEPT ![c] = <<>>]
      /\ cursor' = [cursor EXCEPT ![c] = 0]
  BY DEF HangUp
<1>2. /\ link \in [Pages -> Links] /\ cursor \in [Pages -> Nat] /\ wire \in [Pages -> Seq(Sane)]
  BY DEF StreamInv, StreamTypes
<1>3. /\ link' \in [Pages -> Links] /\ cursor' \in [Pages -> Nat] /\ wire' \in [Pages -> Seq(Sane)]
      /\ wire'[c] = <<>> /\ link'[c] # "up"
      /\ \A d \in Pages : d # c => UNCHANGED <<link[d], cursor[d], wire[d]>>
  BY <1>1, <1>2 DEF Links
<1>4. StreamTypes'
  BY <1>3 DEF StreamInv, StreamTypes
<1> QED
  BY <1>3, <1>4, HungUpStands

(* Because it was told to. *)
LEMMA OnRotateKeeps ==
  ASSUME WatchAssumption, StreamInv, NEW c \in Pages, OnRotate(c)
  PROVE  StreamInv'
BY HangUpKeeps DEF OnRotate

(* Because the connection broke. *)
LEMMA FailKeeps ==
  ASSUME WatchAssumption, StreamInv, NEW c \in Pages, Fail(c)
  PROVE  StreamInv'
BY HangUpKeeps DEF Fail

(* It waited long enough. *)
LEMMA BackoffKeeps ==
  ASSUME WatchAssumption, StreamInv, NEW c \in Pages, BackoffOver(c)
  PROVE  StreamInv'
<1>1. /\ link[c] = "backoff" /\ link' = [link EXCEPT ![c] = "connecting"]
      /\ UNCHANGED <<watchVars, epoch, watched, cursor, wire, seq, era, live, status>>
  BY DEF BackoffOver
<1>2. link \in [Pages -> Links] /\ wire[c] = <<>>
  BY <1>1 DEF StreamInv, StreamTypes, PageOK, InTime
<1>3. /\ link' \in [Pages -> Links] /\ link'[c] # "up" /\ wire'[c] = <<>>
      /\ \A d \in Pages : d # c => UNCHANGED <<link[d], cursor[d], wire[d], seq[d], live[d]>>
  BY <1>1, <1>2 DEF Links
<1>4. StreamTypes'
  BY <1>1, <1>3 DEF StreamInv, StreamTypes
<1> QED
  BY <1>1, <1>3, <1>4, HungUpStands

(* It is armed no more. *)
LEMMA LeaveKeeps ==
  ASSUME WatchAssumption, StreamInv, NEW c \in Pages, Leave(c)
  PROVE  StreamInv'
<1>1. /\ link' = [link EXCEPT ![c] = "off"] /\ wire' = [wire EXCEPT ![c] = <<>>]
      /\ cursor' = [cursor EXCEPT ![c] = 0]
      /\ live' = [live EXCEPT ![c] = EmptyLive] /\ seq' = [seq EXCEPT ![c] = None]
      /\ UNCHANGED <<watchVars, epoch, watched, era, status>>
  BY DEF Leave, HangUp
<1>2. /\ link \in [Pages -> Links] /\ cursor \in [Pages -> Nat] /\ wire \in [Pages -> Seq(Sane)]
      /\ live \in [Pages -> Lives] /\ seq \in [Pages -> Nat \union {None}]
  BY DEF StreamInv, StreamTypes
<1>3. EmptyLive \in Lives
  BY NobodyIsPlayers DEF EmptyLive, Lives, WatchAssumption
<1>4. /\ link' \in [Pages -> Links] /\ cursor' \in [Pages -> Nat] /\ wire' \in [Pages -> Seq(Sane)]
      /\ live' \in [Pages -> Lives] /\ seq' \in [Pages -> Nat \union {None}]
      /\ wire'[c] = <<>> /\ link'[c] # "up" /\ seq'[c] = None
      /\ \A d \in Pages : d # c => UNCHANGED <<link[d], cursor[d], wire[d], seq[d], live[d]>>
  BY <1>1, <1>2, <1>3 DEF Links
<1>5. StreamTypes'
  BY <1>1, <1>4 DEF StreamInv, StreamTypes
<1> QED
  BY <1>1, <1>4, <1>5, HungUpStands

-----------------------------------------------------------------------------
(* The page *)

(* A leave takes one player of that name off the page's list, if there is *)
(* one.                                                                   *)
LEMMA RemovedIs ==
  ASSUME NEW list \in Seq(Players), NEW p \in Players
  PROVE  /\ Removed(list, p) \in Seq(Players)
         /\ CountOf(list, p.name) > 0 =>
              \A n \in Names : CountOf(Removed(list, p), n) = CountOf(list, n) + (IF n = p.name THEN -1 ELSE 0)
<1> DEFINE same == Carriers(list, p.name)
           i == Nearest(list, same, p)
           rest == DOMAIN list \ {i}
<1>1. CASE same = {}
  <2>1. Removed(list, p) = list
    BY <1>1 DEF Removed
  <2>2. CountOf(list, p.name) = 0
    BY <1>1, FS_EmptySet DEF CountOf
  <2> QED
    BY <2>1, <2>2
<1>2. CASE same # {}
  <2>1. Removed(list, p) = Entries(list, rest)
    BY <1>2 DEF Removed, Without
  <2>2. same \in SUBSET (DOMAIN list) /\ IsFiniteSet(same) /\ p.name \in Names
    BY CarriersAre DEF Carriers, Players
  <2>3. \A q \in Players : q.since \in Int
    BY DEF Players
  <2>4. i \in same
    BY <1>2, <2>2, <2>3, NearestIsFree
  <2> HIDE DEF i
  <2>5. rest \in SUBSET (DOMAIN list)
    OBVIOUS
  <2>6. ASSUME NEW n \in Names
        PROVE  CountOf(Entries(list, rest), n) = CountOf(list, n) + (IF n = p.name THEN -1 ELSE 0)
    <3> DEFINE now == {k \in rest : list[k].name = n}
               all == Carriers(list, n)
    <3>1. CountOf(Entries(list, rest), n) = Cardinality(now)
      <4> HIDE DEF rest
      <4> QED
        BY <2>5, CountEntries
    <3>2. IsFiniteSet(all) /\ Cardinality(all) \in Nat /\ CountOf(list, n) = Cardinality(all)
      BY CarriersAre DEF CountOf
    <3>3. CASE n = p.name
      <4>1. i \in all /\ now = all \ {i}
        BY <2>4, <3>3 DEF Carriers
      <4> HIDE DEF now, all
      <4>2. Cardinality(now) = Cardinality(all) - 1
        BY <3>2, <4>1, FS_RemoveElement
      <4> QED
        BY <3>1, <3>2, <3>3, <4>2
    <3>4. CASE n # p.name
      <4>1. now = all
        BY <2>4, <3>4 DEF Carriers
      <4> HIDE DEF now, all
      <4> QED
        BY <3>1, <3>2, <3>4, <4>1
    <3> QED
      BY <3>3, <3>4
  <2>7. Entries(list, rest) \in Seq(Players)
    <3> HIDE DEF rest
    <3> QED
      BY <2>5, EntriesAre
  <2> HIDE DEF rest
  <2> QED
    BY <2>1, <2>6, <2>7
<1> QED
  BY <1>1, <1>2

(* A join puts one on. *)
LEMMA AppendedIs ==
  ASSUME NEW list \in Seq(Players), NEW p \in Players
  PROVE  /\ Append(list, p) \in Seq(Players)
         /\ \A n \in Names : CountOf(Append(list, p), n) = CountOf(list, n) + (IF n = p.name THEN 1 ELSE 0)
<1> DEFINE one == <<p>>
<1>1. one \in Seq(Players) /\ Len(one) = 1 /\ one[1] = p /\ Append(list, p) = list \o one
  OBVIOUS
<1> HIDE DEF one
<1>2. ASSUME NEW n \in Names
      PROVE  CountOf(one, n) = IF n = p.name THEN 1 ELSE 0
  <2>1. Carriers(one, n) = IF n = p.name THEN {1} ELSE {}
    BY <1>1 DEF Carriers
  <2> QED
    BY <2>1, FS_EmptySet, FS_Singleton DEF CountOf
<1>3. \A n \in Names : CountOf(list \o one, n) = CountOf(list, n) + CountOf(one, n)
  BY <1>1, CountJoin
<1> QED
  BY <1>1, <1>2, <1>3

(* A list that differs in one count shows as such. *)
LEMMA ShiftedView ==
  ASSUME NEW list \in Seq(Players), NEW new \in Seq(Players), NEW m \in Metas, NEW o \in Names, NEW k \in Int,
         \A n \in Names : CountOf(new, n) = CountOf(list, n) + (IF n = o THEN k ELSE 0)
  PROVE  ListView(new, m) = Plus(ListView(list, m), o, k)
<1> DEFINE v == ListView(list, m)
           w == ListView(new, m)
<1>1. v \in Views /\ w \in Views /\ v.meta = m /\ w.meta = m
  BY ListViewIs DEF ListView
<1>2. \A n \in Names : v.names[n] = CountOf(list, n) /\ w.names[n] = CountOf(new, n) /\ CountOf(list, n) \in Nat
  BY CountsAre DEF ListView
<1> HIDE DEF v, w
<1>3. Shifted(Plus(v, o, k), v, o, k)
  BY <1>1, PlusIs
<1>4. Plus(v, o, k) \in Views /\ Plus(v, o, k).meta = m
  BY <1>1, <1>3 DEF Shifted
<1>5. \A n \in Names : Plus(v, o, k).names[n] = w.names[n]
  BY <1>2, <1>3 DEF Shifted
<1>6. Plus(v, o, k) = w
  BY <1>1, <1>4, <1>5, SameView
<1> QED
  BY <1>6 DEF v, w

(* What the page makes of a step of the list. *)
LEMMA ChangeFollows ==
  ASSUME NEW l \in Lives, l.meta \in Metas, NEW e \in Sane, e.kind \in {"join", "leave", "meta", "poll"},
         NEW b, b = Changed(l, e)
  PROVE  /\ b \in Lives /\ b.meta \in Metas /\ b.waiting = l.waiting
         /\ e.kind = "poll" => b = l
         /\ e.kind # "poll" => \A after : LeadsOn(e, ListView(l.players, l.meta), after)
                                            => ListView(b.players, b.meta) = after
<1> DEFINE list == l.players
           m == l.meta
<1>1. list \in Seq(Players) /\ m \in Metas /\ l.waiting \in WaitingLists
      /\ l = [players |-> list, meta |-> m, waiting |-> l.waiting]
  BY DEF Lives
<1>2. CASE e.kind = "join"
  <2> DEFINE p == e.player
             new == Append(list, p)
  <2>1. p \in Players
    BY <1>2 DEF Sane, Complete
  <2>2. b = [players |-> new, meta |-> m, waiting |-> l.waiting]
    BY <1>1, <1>2 DEF Changed
  <2>3. p.name \in Names
    BY <2>1 DEF Players
  <2> HIDE DEF list, m, p
  <2>4. new \in Seq(Players) /\ \A n \in Names : CountOf(new, n) = CountOf(list, n) + (IF n = p.name THEN 1 ELSE 0)
    BY <1>1, <2>1, AppendedIs
  <2> HIDE DEF new
  <2>5. ListView(new, m) = Plus(ListView(list, m), p.name, 1)
    BY <1>1, <2>3, <2>4, ShiftedView
  <2>6. \A after : LeadsOn(e, ListView(list, m), after) => after = Plus(ListView(list, m), p.name, 1)
    BY <1>2 DEF LeadsOn, p
  <2>7. b.players = new /\ b.meta = m /\ b.waiting = l.waiting /\ b \in Lives
    BY <1>1, <2>2, <2>4 DEF Lives
  <2> QED
    BY <1>1, <1>2, <2>5, <2>6, <2>7 DEF list, m
<1>3. CASE e.kind = "leave"
  <2> DEFINE p == e.player
             new == Removed(list, p)
             v == ListView(list, m)
  <2>1. p \in Players
    BY <1>3 DEF Sane, Complete
  <2>2. b = [players |-> new, meta |-> m, waiting |-> l.waiting]
    BY <1>1, <1>3 DEF Changed
  <2>3. p.name \in Names
    BY <2>1 DEF Players
  <2>4. v.names = NameCount(list)
    BY DEF ListView
  <2> HIDE DEF list, m, p
  <2>5. /\ new \in Seq(Players)
        /\ CountOf(list, p.name) > 0 =>
             \A n \in Names : CountOf(new, n) = CountOf(list, n) + (IF n = p.name THEN -1 ELSE 0)
    BY <1>1, <2>1, RemovedIs
  <2> HIDE DEF new
  <2>6. ASSUME NEW after, LeadsOn(e, v, after)
        PROVE  ListView(new, m) = after
    <3>1. v.names[p.name] > 0 /\ after = Plus(v, p.name, -1)
      BY <1>3, <2>6 DEF LeadsOn, p
    <3>2. CountOf(list, p.name) > 0
      BY <1>1, <2>3, <2>4, <3>1, CountsAre
    <3>3. \A n \in Names : CountOf(new, n) = CountOf(list, n) + (IF n = p.name THEN -1 ELSE 0)
      BY <2>5, <3>2
    <3>4. ListView(new, m) = Plus(ListView(list, m), p.name, -1)
      BY <1>1, <2>3, <2>5, <3>3, ShiftedView
    <3> QED
      BY <3>1, <3>4
  <2>7. b.players = new /\ b.meta = m /\ b.waiting = l.waiting /\ b \in Lives
    BY <1>1, <2>2, <2>5 DEF Lives
  <2> QED
    BY <1>1, <1>3, <2>6, <2>7 DEF list, m
<1>4. CASE e.kind = "meta"
  <2>1. e.meta \in Metas
    BY <1>4 DEF Sane, Complete
  <2>2. b = [players |-> list, meta |-> e.meta, waiting |-> l.waiting]
    BY <1>1, <1>4 DEF Changed
  <2>3. \A after : LeadsOn(e, ListView(list, m), after) => ListView(list, e.meta) = after
    BY <1>4 DEF LeadsOn, ListView
  <2> QED
    BY <1>1, <1>4, <2>1, <2>2, <2>3 DEF Lives
<1>5. CASE e.kind = "poll"
  BY <1>1, <1>5 DEF Changed
<1> QED
  BY <1>2, <1>3, <1>4, <1>5

(* The auto join's check keeps to its states. *)
LEMMA StatusStays ==
  ASSUME NEW s \in Statuses, NEW list, NEW m
  PROVE  Rules!Check(s, FALSE, Target, list, m).status \in Statuses
BY DEF Rules!Check, Statuses

(* The event at the head of what is under way to a page. *)
LEMMA ReceivedIs ==
  ASSUME StreamInv, NEW c \in Pages, NEW kinds, Receives(c, kinds), NEW e, e = Head_(c)
  PROVE  /\ e \in Sane /\ e.kind \in kinds /\ wire[c] # <<>> /\ link[c] \in {"up", "cut"}
         /\ watched[c] = epoch => Current(e, channel)
         /\ \E m \in Standings, q \in Standings :
              /\ Moves(e, Standing(c), m) /\ Leads(Tail(wire[c]), m, q)
              /\ link[c] = "up" => Behind(channel.log, cursor[c], q)
<1> DEFINE w == wire[c]
<1>1. /\ w \in Seq(Sane) /\ w # <<>> /\ link[c] \in {"up", "cut"} /\ e.kind \in kinds
      /\ e = Head(w) /\ PageOK(c)
  BY PageIs DEF Receives, Head_
<1>2. watched[c] = epoch => \A i \in 1..Len(w) : Current(w[i], channel)
  BY <1>1 DEF PageOK, Carries
<1>3. PICK q \in Standings : Leads(w, Standing(c), q) /\ (link[c] = "up" => Behind(channel.log, cursor[c], q))
  BY <1>1 DEF PageOK, Follows
<1> HIDE DEF w
<1>4. 1 \in 1..Len(w) /\ Head(w) = w[1] /\ Head(w) \in Sane
  BY <1>1
<1>5. \E m \in Standings : Moves(Head(w), Standing(c), m) /\ Leads(Tail(w), m, q)
  BY <1>1, <1>3, LeadsByTheFirst
<1> QED
  BY <1>1, <1>2, <1>3, <1>4, <1>5 DEF w

(* A page that has handled an event, and stands where it leads. *)
LEMMA HandledStands ==
  ASSUME WatchAssumption, StreamInv, NEW c \in Pages, wire[c] # <<>>, link[c] \in {"up", "cut"},
         Handled(c), UNCHANGED <<watchVars, epoch, link, watched, cursor>>,
         live' \in [Pages -> Lives], status' \in [Pages -> Statuses],
         seq' \in [Pages -> Nat \union {None}], era' \in [Pages -> Nat],
         \A d \in Pages : d # c => UNCHANGED <<live[d], seq[d], era[d]>>,
         era'[c] <= watched[c], seq'[c] # None => live'[c].meta \in Metas,
         Mirrors(c)',
         NEW m \in Standings, NEW q \in Standings, Standing(c)' = m, Leads(Tail(wire[c]), m, q),
         link[c] = "up" => Behind(channel.log, cursor[c], q)
  PROVE  StreamInv'
<1> DEFINE w == wire[c]
           v == Tail(w)
<1>1. /\ w \in Seq(Sane) /\ w # <<>> /\ PageOK(c)
  BY PageIs
<1>2. wire' = [wire EXCEPT ![c] = v] /\ wire \in [Pages -> Seq(Sane)]
  BY DEF Handled, StreamInv, StreamTypes
<1>3. InTime(c) /\ Carries(c)
  BY <1>1 DEF PageOK
<1>4. /\ Len(w) <= MaxWire + 1
      /\ watched[c] = epoch => \A i \in 1..Len(w) : Current(w[i], channel)
  BY <1>3 DEF InTime, Carries
<1> HIDE DEF w
<1>5. v \in Seq(Sane) /\ Len(v) = Len(w) - 1 /\ Len(w) \in Nat /\ \A i \in 1..Len(v) : v[i] = w[i + 1] /\ i + 1 \in 1..Len(w)
  BY <1>1
<1> HIDE DEF v
<1>6. Len(v) <= MaxWire + 1 /\ (watched[c] = epoch => \A i \in 1..Len(v) : Current(v[i], channel))
  <2>1. Len(v) <= MaxWire + 1
    BY <1>4, <1>5, StreamAssumption
  <2> QED
    BY <1>4, <1>5, <2>1
<1>7. /\ wire' \in [Pages -> Seq(Sane)] /\ wire'[c] = v
      /\ \A d \in Pages : d # c => wire'[d] = wire[d]
  BY <1>2, <1>5
<1>8. StreamTypes'
  BY <1>7 DEF StreamInv, StreamTypes
<1>9. \A d \in Pages : d # c => Rests(d)
  BY <1>7 DEF Rests
<1>10. UNCHANGED channel
  BY DEF watchVars
<1>11. InTime(c)'
  BY <1>3, <1>6, <1>7, <1>10 DEF InTime
<1>12. Carries(c)'
  BY <1>6, <1>7, <1>10 DEF Carries
<1>13. Follows(c)'
  BY <1>7, <1>10 DEF Follows, v, w
<1>14. PageOK(c)'
  BY <1>11, <1>12, <1>13 DEF PageOK
<1> QED
  BY <1>8, <1>9, <1>14, StepStands

(* A standing is its two parts. *)
LEMMA StandingsEqual ==
  ASSUME NEW p \in Standings, NEW q \in Standings, p.at = q.at, p.said = q.said
  PROVE  p = q
BY DEF Standings

(* A heartbeat changes nothing. *)
LEMMA OnHeartbeatKeeps ==
  ASSUME WatchAssumption, StreamInv, NEW c \in Pages, OnHeartbeat(c)
  PROVE  StreamInv'
<1> DEFINE e == Head_(c)
<1>1. /\ Receives(c, {"heartbeat"}) /\ Handled(c)
      /\ UNCHANGED <<watchVars, epoch, link, watched, cursor, seq, era, live, status>>
  BY DEF OnHeartbeat
<1>2. e.kind = "heartbeat" /\ wire[c] # <<>> /\ link[c] \in {"up", "cut"}
  BY <1>1, ReceivedIs
<1>3. PICK m \in Standings, q \in Standings :
        /\ Moves(e, Standing(c), m) /\ Leads(Tail(wire[c]), m, q)
        /\ link[c] = "up" => Behind(channel.log, cursor[c], q)
  BY <1>1, ReceivedIs
<1>4. Standing(c) \in Standings
  BY PageIs
<1> HIDE DEF e
<1>5. m = Standing(c)
  <2>1. m.at = Standing(c).at /\ m.said = Standing(c).said
    BY <1>2, <1>3 DEF Moves, Saying
  <2> QED
    BY <1>4, <2>1, StandingsEqual
<1>6. Standing(c)' = m
  BY <1>1, <1>5 DEF Standing, Reached
<1>7. PageOK(c) /\ UNCHANGED channel
  BY <1>1 DEF StreamInv, watchVars
<1>8. Mirrors(c)'
  BY <1>1, <1>7 DEF PageOK, Mirrors, Synced, ListView
<1>9. era'[c] <= watched[c] /\ (seq'[c] # None => live'[c].meta \in Metas)
  BY <1>1, <1>7 DEF PageOK, InTime
<1>10. /\ live' \in [Pages -> Lives] /\ status' \in [Pages -> Statuses]
       /\ seq' \in [Pages -> Nat \union {None}] /\ era' \in [Pages -> Nat]
  BY <1>1 DEF StreamInv, StreamTypes
<1> QED
  BY <1>1, <1>2, <1>3, <1>6, <1>8, <1>9, <1>10, HandledStands

(* A waiting list is taken over, before the first snapshot too. *)
LEMMA OnWaitingKeeps ==
  ASSUME WatchAssumption, StreamInv, NEW c \in Pages, OnWaiting(c)
  PROVE  StreamInv'
<1> DEFINE e == Head_(c)
           l == live[c]
           n == [l EXCEPT !.waiting = e.waiting]
<1>1. /\ Receives(c, {"waiting"}) /\ Handled(c)
      /\ UNCHANGED <<watchVars, epoch, link, watched, cursor, seq, era>>
  BY DEF OnWaiting
<1>2. e.kind = "waiting" /\ e \in Sane /\ wire[c] # <<>> /\ link[c] \in {"up", "cut"}
  BY <1>1, ReceivedIs
<1>3. PICK m \in Standings, q \in Standings :
        /\ Moves(e, Standing(c), m) /\ Leads(Tail(wire[c]), m, q)
        /\ link[c] = "up" => Behind(channel.log, cursor[c], q)
  BY <1>1, ReceivedIs
<1>4. Standing(c) \in Standings /\ l \in Lives
  BY PageIs
<1>5. live' = [live EXCEPT ![c] = n]
  BY DEF OnWaiting, Publish
<1>6. status' \in [Pages -> Statuses]
  <2>1. status \in [Pages -> Statuses]
    BY DEF StreamInv, StreamTypes
  <2>2. CASE UNCHANGED status
    BY <2>1, <2>2
  <2>3. CASE Publish(c, [live[c] EXCEPT !.waiting = Head_(c).waiting])
    BY <2>1, <2>3, StatusStays DEF Publish
  <2> QED
    BY <2>2, <2>3 DEF OnWaiting
<1> HIDE DEF e, l
<1>7. e.waiting \in WaitingLists
  BY <1>2 DEF Sane, Complete
<1>8. n \in Lives /\ n.players = l.players /\ n.meta = l.meta /\ n.waiting = e.waiting
  BY <1>4, <1>7 DEF Lives
<1> HIDE DEF n
<1>9. live \in [Pages -> Lives] /\ seq \in [Pages -> Nat \union {None}] /\ era \in [Pages -> Nat]
  BY DEF StreamInv, StreamTypes
<1>10. /\ live' \in [Pages -> Lives] /\ live'[c] = n /\ \A d \in Pages : d # c => live'[d] = live[d]
  BY <1>5, <1>8, <1>9
<1>11. Standing(c)' = m
  <2>1. m.at = Standing(c).at /\ m.said = e.waiting
    BY <1>2, <1>3 DEF Moves, Saying, Idle
  <2>2. Standing(c)' = [at |-> Reached(c), said |-> n.waiting]
    BY <1>1, <1>10 DEF Standing, Reached
  <2>3. Standing(c).at = Reached(c) /\ Reached(c) \in Nat
    BY <1>9 DEF Standing, Reached
  <2> DEFINE s == Standing(c)'
  <2>4. s \in Standings /\ s.at = m.at /\ s.said = m.said
    BY <1>7, <1>8, <2>1, <2>2, <2>3 DEF Standings
  <2> HIDE DEF s
  <2>5. s = m
    BY <2>4, StandingsEqual
  <2> QED
    BY <2>5 DEF s
<1>12. PageOK(c) /\ UNCHANGED channel
  BY <1>1 DEF StreamInv, watchVars
<1>13. Mirrors(c)'
  BY <1>1, <1>8, <1>10, <1>12 DEF PageOK, Mirrors, Synced, ListView, l
<1>14. era'[c] <= watched[c] /\ (seq'[c] # None => live'[c].meta \in Metas)
  BY <1>1, <1>8, <1>10, <1>12 DEF PageOK, InTime, l
<1>15. seq' \in [Pages -> Nat \union {None}] /\ era' \in [Pages -> Nat]
  BY <1>1, <1>9
<1> QED
  BY <1>1, <1>2, <1>3, <1>6, <1>10, <1>11, <1>13, <1>14, <1>15, HandledStands

(* A snapshot replaces the list, on a watch that was left behind too. *)
LEMMA OnSnapshotKeeps ==
  ASSUME WatchAssumption, StreamInv, NEW c \in Pages, OnSnapshot(c)
  PROVE  StreamInv'
<1> DEFINE e == Head_(c)
           n == [players |-> e.players, meta |-> e.meta, waiting |-> e.waiting]
<1>1. /\ Receives(c, {"snapshot"}) /\ Handled(c) /\ Publish(c, n)
      /\ seq' = [seq EXCEPT ![c] = e.seq] /\ era' = [era EXCEPT ![c] = watched[c]]
      /\ UNCHANGED <<watchVars, epoch, link, watched, cursor>>
  BY DEF OnSnapshot
<1>2. /\ e.kind = "snapshot" /\ e \in Sane /\ wire[c] # <<>> /\ link[c] \in {"up", "cut"}
      /\ watched[c] = epoch => Current(e, channel)
  BY <1>1, ReceivedIs
<1>3. PICK m \in Standings, q \in Standings :
        /\ Moves(e, Standing(c), m) /\ Leads(Tail(wire[c]), m, q)
        /\ link[c] = "up" => Behind(channel.log, cursor[c], q)
  BY <1>1, ReceivedIs
<1>4. /\ live \in [Pages -> Lives] /\ seq \in [Pages -> Nat \union {None}] /\ era \in [Pages -> Nat]
      /\ status \in [Pages -> Statuses] /\ watched \in [Pages -> Nat]
  BY DEF StreamInv, StreamTypes
<1>5. live' = [live EXCEPT ![c] = n] /\ status' \in [Pages -> Statuses]
  BY <1>1, <1>4, StatusStays DEF Publish
<1> HIDE DEF e
<1>6. /\ e.players \in Seq(Players) /\ e.meta \in Metas /\ e.waiting \in WaitingLists
  BY <1>2 DEF Sane, Complete
<1>7. e.seq \in Nat
  BY <1>2 DEF Sane, Sendable
<1>8. n \in Lives /\ n.players = e.players /\ n.meta = e.meta /\ n.waiting = e.waiting
  BY <1>6 DEF Lives
<1> HIDE DEF n
<1>9. /\ live' \in [Pages -> Lives] /\ live'[c] = n
      /\ seq' \in [Pages -> Nat \union {None}] /\ seq'[c] = e.seq
      /\ era' \in [Pages -> Nat] /\ era'[c] = watched[c] /\ watched[c] \in Nat
      /\ \A d \in Pages : d # c => UNCHANGED <<live[d], seq[d], era[d]>>
  BY <1>1, <1>4, <1>5, <1>7, <1>8
<1>10. e.seq # None
  BY <1>7 DEF WatchAssumption
<1>11. Standing(c)' = m
  <2>1. m.at = e.seq /\ m.said = e.waiting /\ m.at > 0
    BY <1>2, <1>3 DEF Moves, Saying, Idle
  <2>2. Standing(c)' = [at |-> e.seq, said |-> n.waiting]
    BY <1>1, <1>9, <1>10 DEF Standing, Reached
  <2> DEFINE s == Standing(c)'
  <2>4. s \in Standings /\ s.at = m.at /\ s.said = m.said
    BY <1>6, <1>7, <1>8, <2>1, <2>2 DEF Standings
  <2> HIDE DEF s
  <2>5. s = m
    BY <2>4, StandingsEqual
  <2> QED
    BY <2>5 DEF s
<1>12. Mirrors(c)'
  <2>1. UNCHANGED <<channel, epoch, watched>>
    BY <1>1 DEF watchVars
  <2>2. ASSUME watched[c] = epoch
        PROVE  e.seq \in 1..channel.seq /\ channel.views[e.seq] = ListView(e.players, e.meta)
    <3>1. Fits(e, channel.views) /\ e.seq <= channel.seq /\ e.seq > 0
      BY <1>2, <2>2 DEF Current
    <3>2. channel.views[e.seq] = ListView(e.players, e.meta)
      BY <1>2, <3>1 DEF Fits, LeadsOn
    <3>3. channel.seq \in Nat
      BY PageIs
    <3> QED
      BY <1>7, <3>1, <3>2, <3>3
  <2>3. Synced(c)' => watched[c] = epoch
    BY <1>9, <2>1 DEF Synced
  <2> QED
    BY <1>8, <1>9, <2>1, <2>2, <2>3 DEF Mirrors, ListView
<1>13. era'[c] <= watched[c] /\ (seq'[c] # None => live'[c].meta \in Metas)
  BY <1>6, <1>8, <1>9
<1> QED
  BY <1>1, <1>2, <1>3, <1>5, <1>9, <1>11, <1>12, <1>13, HandledStands

(* A step of the list comes right after what the page has: the numbers under *)
(* way go up by one, and a step never comes before the stream's snapshot.    *)
LEMMA StepsAreInOrder ==
  ASSUME WatchAssumption, StreamInv, NEW c \in Pages, Receives(c, {"join", "leave", "meta", "poll"})
  PROVE  InOrder(c, Head_(c)) /\ era[c] = watched[c]
<1> DEFINE e == Head_(c)
           p == Standing(c)
<1>1. e.kind \in {"join", "leave", "meta", "poll"}
  BY ReceivedIs
<1>2. PICK m \in Standings : Moves(e, p, m)
  BY ReceivedIs
<1>3. p.at = Reached(c)
  BY DEF Standing
<1> HIDE DEF e, p
<1>4. /\ p.at > 0
      /\ e.kind = "poll" => e.seq = p.at
      /\ e.kind # "poll" => e.seq = p.at + 1
  BY <1>1, <1>2 DEF Moves, Idle
<1>5. Reached(c) > 0
  BY <1>3, <1>4
<1>6. seq[c] # None /\ era[c] = watched[c] /\ seq[c] = p.at
  <2>1. ~(seq[c] # None /\ era[c] = watched[c]) => Reached(c) = 0
    BY DEF Reached
  <2>2. seq[c] # None /\ era[c] = watched[c]
    BY <1>5, <2>1
  <2> QED
    BY <1>3, <2>2 DEF Reached
<1>7. InOrder(c, e)
  BY <1>4, <1>6 DEF InOrder
<1> QED
  BY <1>6, <1>7 DEF e

(* So the page takes it, and shows the list the feed has after it. *)
LEMMA OnStepKeeps ==
  ASSUME WatchAssumption, StreamInv, NEW c \in Pages, OnStep(c)
  PROVE  StreamInv'
<1> DEFINE e == Head_(c)
           l == live[c]
           n == Changed(l, e)
           a == seq[c]
<1>1. Receives(c, {"join", "leave", "meta", "poll"})
  BY DEF OnStep
<1>2. InOrder(c, e) /\ era[c] = watched[c]
  BY <1>1, StepsAreInOrder
<1>3. /\ Handled(c) /\ Publish(c, n) /\ seq' = [seq EXCEPT ![c] = e.seq]
      /\ UNCHANGED <<watchVars, epoch, link, watched, cursor, era>>
  BY <1>2 DEF OnStep
<1>4. /\ e.kind \in {"join", "leave", "meta", "poll"} /\ e \in Sane /\ wire[c] # <<>> /\ link[c] \in {"up", "cut"}
      /\ watched[c] = epoch => Current(e, channel)
  BY <1>1, ReceivedIs
<1>5. PICK m \in Standings, q \in Standings :
        /\ Moves(e, Standing(c), m) /\ Leads(Tail(wire[c]), m, q)
        /\ link[c] = "up" => Behind(channel.log, cursor[c], q)
  BY <1>1, ReceivedIs
<1>6. /\ live \in [Pages -> Lives] /\ seq \in [Pages -> Nat \union {None}] /\ era \in [Pages -> Nat]
      /\ status \in [Pages -> Statuses]
  BY DEF StreamInv, StreamTypes
<1>7. live' = [live EXCEPT ![c] = n] /\ status' \in [Pages -> Statuses]
  BY <1>3, <1>6, StatusStays DEF Publish
<1>8. PageOK(c) /\ UNCHANGED <<channel, epoch, watched, era>> /\ channel.seq \in Nat
  BY <1>3, PageIs DEF watchVars
<1>9. a # None /\ a \in Nat /\ e.seq = (IF e.kind = "poll" THEN a ELSE a + 1)
  BY <1>2, <1>6 DEF InOrder
<1>10. l \in Lives /\ l.meta \in Metas
  BY <1>6, <1>8, <1>9 DEF PageOK, InTime
<1>11. Mirrors(c)
  BY <1>8 DEF PageOK
<1> HIDE DEF e, l
<1>12. /\ n \in Lives /\ n.meta \in Metas /\ n.waiting = l.waiting
       /\ e.kind = "poll" => n = l
       /\ e.kind # "poll" => \A after : LeadsOn(e, ListView(l.players, l.meta), after)
                                          => ListView(n.players, n.meta) = after
  BY <1>4, <1>10, ChangeFollows
<1> HIDE DEF n, a
<1>13. e.seq \in Nat /\ e.seq # None
  BY <1>9 DEF WatchAssumption
<1>14. /\ live' \in [Pages -> Lives] /\ live'[c] = n
       /\ seq' \in [Pages -> Nat \union {None}] /\ seq'[c] = e.seq
       /\ era' \in [Pages -> Nat]
       /\ \A d \in Pages : d # c => UNCHANGED <<live[d], seq[d], era[d]>>
  BY <1>3, <1>6, <1>7, <1>12, <1>13
<1>15. Standing(c)' = m
  <2>1. m.at = e.seq /\ m.said = Standing(c).said
    BY <1>4, <1>5 DEF Moves, Saying, Idle
  <2>2. Standing(c)' = [at |-> e.seq, said |-> n.waiting]
    BY <1>2, <1>8, <1>13, <1>14 DEF Standing, Reached
  <2>3. Standing(c).said = l.waiting
    BY DEF Standing, l
  <2> DEFINE s == Standing(c)'
  <2>4. s.at = m.at /\ s.said = m.said
    BY <1>12, <2>1, <2>2, <2>3
  <2>5. s \in Standings
    BY <1>12, <1>13, <2>2 DEF Standings, Lives
  <2> HIDE DEF s
  <2>6. s = m
    BY <2>4, <2>5, StandingsEqual
  <2> QED
    BY <2>6 DEF s
<1>16. Mirrors(c)'
  <2>1. ASSUME era[c] = epoch
        PROVE  e.seq \in 1..channel.seq /\ channel.views[e.seq] = ListView(n.players, n.meta)
    <3>1. a \in 1..channel.seq /\ channel.views[a] = ListView(l.players, l.meta)
      BY <1>9, <1>11, <2>1 DEF Mirrors, Synced, a, l
    <3>2. CASE e.kind = "poll"
      BY <1>9, <1>12, <3>1, <3>2
    <3>3. CASE e.kind # "poll"
      <4>1. Fits(e, channel.views) /\ e.seq <= channel.seq
        BY <1>2, <1>4, <2>1 DEF Current
      <4>2. LeadsOn(e, channel.views[e.seq - 1], channel.views[e.seq])
        BY <1>4, <3>3, <4>1 DEF Fits
      <4>3. e.seq - 1 = a /\ e.seq \in 1..channel.seq
        BY <1>8, <1>9, <3>1, <3>3, <4>1
      <4> QED
        BY <1>12, <3>1, <3>3, <4>2, <4>3
    <3> QED
      BY <3>2, <3>3
  <2>2. Synced(c)' => era[c] = epoch
    BY <1>8 DEF Synced
  <2> QED
    BY <1>8, <1>14, <2>1, <2>2 DEF Mirrors, ListView
<1>17. era'[c] <= watched[c] /\ (seq'[c] # None => live'[c].meta \in Metas)
  BY <1>8, <1>12, <1>14 DEF PageOK, InTime
<1> QED
  BY <1>3, <1>4, <1>5, <1>7, <1>14, <1>15, <1>16, <1>17, HandledStands

-----------------------------------------------------------------------------
(* The watch, and all steps *)

(* What a longer log says of its beginning. *)
LEMMA LongerLog ==
  ASSUME NEW a \in Seq(Events), NEW b \in Seq(Events), Len(a) <= Len(b), \A i \in 1..Len(a) : b[i] = a[i],
         NEW i \in 0..Len(a), NEW p, Behind(a, i, p)
  PROVE  Behind(b, i, p)
<1>1. Len(a) \in Nat /\ i \in Nat
  OBVIOUS
<1>2. SeqAt(b, i) = SeqAt(a, i)
  <2>1. i # 0 => i \in 1..Len(a)
    BY <1>1
  <2> QED
    BY <2>1 DEF SeqAt
<1>3. ASSUME SaidLast(a, i, p.said)
      PROVE  SaidLast(b, i, p.said)
  <2>1. PICK k \in 1..i : /\ a[k].kind \in Saying /\ a[k].waiting = p.said
                          /\ \A j \in (k + 1)..i : a[j].kind \notin Saying
    BY <1>3 DEF SaidLast
  <2>2. \A j \in k..i : b[j] = a[j]
    <3>1. \A j \in k..i : j \in 1..Len(a)
      BY <1>1
    <3> QED
      BY <3>1
  <2>3. b[k] = a[k] /\ \A j \in (k + 1)..i : b[j] = a[j]
    <3>1. k \in k..i /\ \A j \in (k + 1)..i : j \in k..i
      BY <1>1
    <3> QED
      BY <2>2, <3>1
  <2> QED
    BY <2>1, <2>3 DEF SaidLast
<1> QED
  BY <1>2, <1>3 DEF Behind

(* An event of the watch stays one when the watch moves on. *)
LEMMA StaysCurrent ==
  ASSUME NEW old, ChannelOK(old), NEW new, ChannelOK(new), Extends(new, old), NEW e \in Sane, Current(e, old)
  PROVE  Current(e, new)
<1>1. CASE e.kind \in {"heartbeat", "rotate"}
  BY <1>1 DEF Current
<1>2. CASE Fits(e, old.views) /\ e.seq <= old.seq /\ (e.kind = "snapshot" => e.seq > 0)
  <2> DEFINE n == e.seq
             m == old.seq
  <2>1. n \in Nat /\ m \in Nat /\ new.seq \in Nat /\ m <= new.seq /\ n <= m
    BY <1>2, ChannelIs DEF Sane, Sendable, Extends
  <2>2. \A k \in 1..m : new.views[k] = old.views[k]
    BY DEF Extends
  <2> HIDE DEF n, m
  <2>3. n <= new.seq
    BY <2>1
  <2>4. CASE e.kind \in NumberedKinds
    <3>1. (n > 1 \/ e.kind = "snapshot") /\ LeadsOn(e, old.views[n - 1], old.views[n])
      BY <1>2, <2>4 DEF Fits, NumberedKinds, n
    <3>2. n \in 1..m /\ (n > 1 => n - 1 \in 1..m)
      BY <1>2, <2>1, <3>1 DEF n
    <3>3. new.views[n] = old.views[n] /\ (n > 1 => new.views[n - 1] = old.views[n - 1])
      BY <2>2, <3>2
    <3>4. LeadsOn(e, new.views[n - 1], new.views[n])
      <4>1. CASE n > 1
        BY <3>1, <3>3, <4>1
      <4>2. CASE e.kind = "snapshot"
        BY <3>1, <3>3, <4>2 DEF LeadsOn
      <4> QED
        BY <3>1, <4>1, <4>2
    <3>5. Fits(e, new.views)
      BY <2>4, <3>1, <3>4 DEF Fits, n
    <3> QED
      BY <1>2, <2>3, <3>5 DEF Current, n
  <2>5. CASE e.kind \notin NumberedKinds
    <3>1. Fits(e, new.views)
      BY <1>2, <2>5 DEF Fits
    <3> QED
      BY <1>2, <2>3, <3>1 DEF Current, n
  <2> QED
    BY <2>4, <2>5
<1> QED
  BY <1>1, <1>2 DEF Current

(* The watch moves on: what was sent still leads where it did. *)
LEMMA WatchStepKeeps ==
  ASSUME WatchAssumption, StreamInv, WatchStep
  PROVE  StreamInv'
<1>1. [WatchNext]_watchVars /\ UNCHANGED <<epoch, link, watched, cursor, wire, seq, era, live, status>>
  BY DEF WatchStep, streamVars
<1>2. WatchInv'
  BY <1>1, WatchKeeps DEF StreamInv
<1>3. Extends(channel', channel) /\ ChannelOK(channel) /\ ChannelOK(channel')
  BY <1>1, <1>2, WatchExtends DEF StreamInv, WatchInv
<1>4. StreamTypes'
  BY <1>1 DEF StreamInv, StreamTypes
<1> DEFINE a == channel.log
           b == channel'.log
<1>5. /\ a \in Seq(Events) /\ b \in Seq(Events) /\ Len(a) <= Len(b) /\ \A i \in 1..Len(a) : b[i] = a[i]
      /\ channel.seq \in Nat /\ channel'.seq \in Nat /\ channel.seq <= channel'.seq
      /\ \A k \in 1..channel.seq : channel'.views[k] = channel.views[k]
  BY <1>3, ChannelIs DEF Extends
<1> HIDE DEF a, b
<1>6. ASSUME NEW c \in Pages
      PROVE  PageOK(c)'
  <2>1. PageOK(c) /\ wire[c] \in Seq(Sane) /\ cursor[c] \in Nat
    BY PageIs
  <2>2. Standing(c)' = Standing(c)
    BY <1>1 DEF Standing, Reached
  <2>3. link[c] = "up" => cursor[c] \in 0..Len(a)
    <3>1. link[c] = "up" => cursor[c] <= Len(a)
      BY <2>1 DEF PageOK, InTime, a
    <3> QED
      BY <1>5, <2>1, <3>1
  <2>4. InTime(c)'
    <3>1. link[c] = "up" => cursor[c] <= Len(b)
      BY <1>5, <2>1, <2>3
    <3> QED
      BY <1>1, <2>1, <3>1 DEF PageOK, InTime, b
  <2>5. Mirrors(c)'
    <3>1. Synced(c)' = Synced(c)
      BY <1>1 DEF Synced
    <3>2. ASSUME Synced(c)
          PROVE  seq[c] \in 1..channel'.seq /\ channel'.views[seq[c]] = ListView(live[c].players, live[c].meta)
      <4>1. seq[c] \in 1..channel.seq /\ channel.views[seq[c]] = ListView(live[c].players, live[c].meta)
        BY <2>1, <3>2 DEF PageOK, Mirrors
      <4> QED
        BY <1>5, <4>1
    <3> QED
      BY <1>1, <3>1, <3>2 DEF Mirrors, ListView
  <2>6. Carries(c)'
    <3> DEFINE w == wire[c]
    <3>1. wire'[c] = w /\ watched'[c] = watched[c] /\ epoch' = epoch
      BY <1>1
    <3>2. w \in Seq(Sane) /\ (watched[c] = epoch => \A i \in 1..Len(w) : Current(w[i], channel))
      BY <2>1 DEF PageOK, Carries
    <3> HIDE DEF w
    <3>3. ASSUME watched[c] = epoch, NEW i \in 1..Len(w)
          PROVE  Current(w[i], channel')
      <4>1. w[i] \in Sane /\ Current(w[i], channel)
        BY <3>2, <3>3
      <4> QED
        BY <1>3, <4>1, StaysCurrent
    <3> QED
      BY <3>1, <3>3 DEF Carries
  <2>7. Follows(c)'
    <3>1. PICK q \in Standings : Leads(wire[c], Standing(c), q) /\ (link[c] = "up" => Behind(a, cursor[c], q))
      BY <2>1 DEF PageOK, Follows, a
    <3>2. link[c] = "up" => Behind(b, cursor[c], q)
      BY <1>5, <2>3, <3>1, LongerLog
    <3> QED
      BY <1>1, <2>2, <3>1, <3>2 DEF Follows, b
  <2> QED
    BY <2>4, <2>5, <2>6, <2>7 DEF PageOK
<1> QED
  BY <1>2, <1>4, <1>6 DEF StreamInv

(* A watch that starts is as sound in the next state as in the first. *)
LEMMA WatchStartsNext ==
  ASSUME WatchAssumption
  PROVE  WatchInit' => WatchInv'
<1>1. WatchInit => WatchInv
  BY WatchStarts
<1> QED
  BY <1>1, PTL

(* The watch is replaced when no page has a stream on it: every page's copy *)
(* is of an older one.                                                      *)
LEMMA NewWatchKeeps ==
  ASSUME WatchAssumption, StreamInv, NewWatch
  PROVE  StreamInv'
<1>1. /\ epoch < MaxEpoch /\ epoch' = epoch + 1 /\ \A c \in Pages : link[c] # "up"
      /\ UNCHANGED <<link, watched, cursor, wire, seq, era, live, status>>
  BY DEF NewWatch
<1>2. WatchInv'
  <2>1. WatchInit'
    BY DEF NewWatch, WatchInit
  <2> QED
    BY <2>1, WatchStartsNext
<1>3. StreamTypes'
  <2>1. epoch' \in 0..MaxEpoch
    BY <1>1, StreamAssumption DEF StreamInv, StreamTypes
  <2> QED
    BY <1>1, <2>1 DEF StreamInv, StreamTypes
<1>4. ASSUME NEW c \in Pages
      PROVE  PageOK(c)'
  <2>1. PageOK(c) /\ era[c] \in Nat /\ watched[c] \in Nat /\ epoch \in Nat
    BY PageIs
  <2>2. era[c] <= watched[c] /\ watched[c] <= epoch
    BY <2>1 DEF PageOK, InTime
  <2>3. watched[c] <= epoch + 1 /\ watched[c] # epoch + 1 /\ era[c] # epoch + 1
    BY <2>1, <2>2
  <2>4. Standing(c)' = Standing(c)
    BY <1>1 DEF Standing, Reached
  <2>5. InTime(c)'
    BY <1>1, <2>1, <2>3 DEF PageOK, InTime
  <2>6. Mirrors(c)'
    BY <1>1, <2>3 DEF Mirrors, Synced
  <2>7. Carries(c)'
    BY <1>1, <2>3 DEF Carries
  <2>8. Follows(c)'
    BY <1>1, <2>1, <2>4 DEF PageOK, Follows
  <2> QED
    BY <2>5, <2>6, <2>7, <2>8 DEF PageOK
<1> QED
  BY <1>2, <1>3, <1>4 DEF StreamInv

(* The first state. *)
LEMMA StreamStarts ==
  ASSUME WatchAssumption, Init
  PROVE  StreamInv
<1>1. /\ epoch = 0 /\ link = [c \in Pages |-> "connecting"]
      /\ watched = [c \in Pages |-> 0] /\ cursor = [c \in Pages |-> 0] /\ wire = [c \in Pages |-> <<>>]
      /\ seq = [c \in Pages |-> None] /\ era = [c \in Pages |-> 0] /\ live = [c \in Pages |-> EmptyLive]
      /\ status = [c \in Pages |-> "armed"]
  BY DEF Init
<1>2. WatchInv
  BY WatchStarts DEF Init
<1>3. EmptyLive \in Lives
  BY NobodyIsPlayers DEF EmptyLive, Lives, WatchAssumption
<1>4. StreamTypes
  <2>1. epoch \in 0..MaxEpoch /\ link \in [Pages -> Links] /\ status \in [Pages -> Statuses]
    BY <1>1, StreamAssumption DEF Links, Statuses
  <2>2. wire \in [Pages -> Seq(Sane)]
    BY <1>1
  <2> QED
    BY <1>1, <1>3, <2>1, <2>2 DEF StreamTypes
<1>5. ASSUME NEW c \in Pages
      PROVE  PageOK(c)
  <2>1. /\ link[c] = "connecting" /\ wire[c] = <<>> /\ seq[c] = None /\ era[c] = 0 /\ watched[c] = 0
        /\ live[c] = EmptyLive /\ Len(wire[c]) = 0
    BY <1>1
  <2>2. InTime(c)
    BY <1>1, <2>1, StreamAssumption DEF InTime
  <2>3. Mirrors(c) /\ Carries(c)
    BY <2>1 DEF Mirrors, Carries, Synced
  <2>4. Standing(c) \in Standings
    BY <1>3, <2>1 DEF Standing, Reached, Standings, Lives
  <2>5. Follows(c)
    BY <2>1, <2>4, LeadsNowhere DEF Follows
  <2> QED
    BY <2>2, <2>3, <2>5 DEF PageOK
<1> QED
  BY <1>2, <1>4, <1>5 DEF StreamInv

(* Every step keeps the invariant. *)
LEMMA StreamKeeps ==
  ASSUME WatchAssumption, StreamInv, [Next]_vars
  PROVE  StreamInv'
<1>1. CASE WatchStep
  BY <1>1, WatchStepKeeps
<1>2. CASE NewWatch
  BY <1>2, NewWatchKeeps
<1>3. ASSUME NEW c \in Pages, HandlerStep(c) \/ Heartbeat(c) \/ Rotate(c) \/ Drop(c)
      PROVE  StreamInv'
  BY <1>3, SubscribeKeeps, ForwardKeeps, ResyncKeeps, HeartbeatKeeps, RotateKeeps, DropKeeps DEF HandlerStep
<1>4. ASSUME NEW c \in Pages, PageStep(c)
      PROVE  StreamInv'
  BY <1>4, OnHeartbeatKeeps, OnRotateKeeps, OnWaitingKeeps, OnSnapshotKeeps, OnStepKeeps DEF PageStep
<1>5. ASSUME NEW c \in Pages, Fail(c) \/ BackoffOver(c) \/ Leave(c)
      PROVE  StreamInv'
  BY <1>5, FailKeeps, BackoffKeeps, LeaveKeeps
<1>6. CASE UNCHANGED vars
  <2>1. UNCHANGED watchVars /\ UNCHANGED <<epoch, link, watched, cursor, wire, seq, era, live, status>>
    BY <1>6 DEF vars, streamVars
  <2>2. WatchInv'
    BY <2>1, WatchKeeps DEF StreamInv
  <2>3. StreamTypes'
    BY <2>1 DEF StreamInv, StreamTypes
  <2>4. UNCHANGED <<epoch, channel>>
    BY <2>1 DEF watchVars
  <2>5. ASSUME NEW c \in Pages
        PROVE  PageOK(c)'
    <3>1. PageOK(c)
      BY DEF StreamInv
    <3>2. Rests(c)
      BY <2>1 DEF Rests
    <3> QED
      BY <2>4, <3>1, <3>2, RestingStands
  <2> QED
    BY <2>2, <2>3, <2>5 DEF StreamInv
<1> QED
  BY <1>1, <1>2, <1>3, <1>4, <1>5, <1>6 DEF Next

(* Every page stands somewhere on its stream: what is under way to it leads, *)
(* event by event, from what it has to where its receiver is in the feed's   *)
(* log, and what it has of the present watch is the list after the number it *)
(* shows (server_players_stream, misc.rs; useAutoJoin.ts). Any number of     *)
(* pages, watches and events under way.                                      *)
THEOREM StreamInvariant ==
  ASSUME WatchAssumption
  PROVE  Spec => []StreamInv
<1>1. Init => StreamInv
  BY StreamStarts
<1>2. StreamInv /\ [Next]_vars => StreamInv'
  BY StreamKeeps
<1> QED
  BY <1>1, <1>2, PTL DEF Spec

(* The types follow. *)
LEMMA TypesHold ==
  ASSUME WatchAssumption, StreamInv
  PROVE  TypeOK
<1>1. epoch \in 0..MaxEpoch /\ link \in [Pages -> {"off", "connecting", "up", "cut", "backoff"}]
  BY DEF StreamInv, StreamTypes, Links
<1>2. watched \in [Pages -> 0..epoch]
  <2>1. watched \in [Pages -> Nat]
    BY DEF StreamInv, StreamTypes
  <2>2. \A c \in Pages : watched[c] \in 0..epoch
    <3>1. \A c \in Pages : watched[c] \in Nat /\ watched[c] <= epoch /\ epoch \in Nat
      BY PageIs DEF PageOK, InTime
    <3> QED
      BY <3>1
  <2> QED
    BY <2>1, <2>2
<1>3. ASSUME NEW c \in Pages
      PROVE  /\ cursor[c] \in Nat
             /\ link[c] = "up" => cursor[c] <= Len(channel.log)
             /\ Len(wire[c]) <= MaxWire + 1
             /\ seq[c] \in Nat \union {None}
             /\ live[c].waiting \in WaitingLists
             /\ status[c] \in {"armed", "fired", "already-in"}
  BY PageIs DEF PageOK, InTime, Lives, Statuses
<1> QED
  BY <1>1, <1>2, <1>3 DEF TypeOK

(* The last waiting list that a log has is one. *)
LEMMA SaidOnce ==
  ASSUME NEW log, NEW n \in Nat, NEW v, NEW w, SaidLast(log, n, v), SaidLast(log, n, w)
  PROVE  v = w
<1>1. PICK i \in 1..n : /\ log[i].kind \in Saying /\ log[i].waiting = v
                        /\ \A j \in (i + 1)..n : log[j].kind \notin Saying
  BY DEF SaidLast
<1>2. PICK k \in 1..n : /\ log[k].kind \in Saying /\ log[k].waiting = w
                        /\ \A j \in (k + 1)..n : log[j].kind \notin Saying
  BY DEF SaidLast
<1>3. i = k
  <2>1. i \notin (k + 1)..n /\ k \notin (i + 1)..n
    BY <1>1, <1>2
  <2> QED
    BY <2>1
<1> QED
  BY <1>1, <1>2, <1>3

(* With nothing more to receive but heartbeats, a page stands where the watch does. *)
LEMMA DrainedIsCurrent ==
  ASSUME WatchAssumption, StreamInv, NEW c \in Pages, link[c] = "up", ready, cursor[c] = Len(channel.log),
         \A i \in DOMAIN wire[c] : wire[c][i].kind = "heartbeat"
  PROVE  /\ ListView(live[c].players, live[c].meta) = ListView(players, meta)
         /\ live[c].waiting = waiting
<1> DEFINE n == Len(channel.log)
           p == Standing(c)
<1>1. PageOK(c) /\ wire[c] \in Seq(Sane) /\ ChannelOK(channel) /\ channel.seq \in Nat /\ n \in Nat
      /\ watched[c] = epoch
  BY PageIs DEF PageOK, InTime
<1>2. /\ channel.seq > 0 /\ channel.views[channel.seq] = ListView(players, meta)
      /\ SaidLast(channel.log, n, waiting)
  BY DEF StreamInv, WatchInv
<1>3. PICK q \in Standings : Leads(wire[c], p, q) /\ Behind(channel.log, n, q)
  BY <1>1 DEF PageOK, Follows
<1>4. q.at = p.at /\ q.said = p.said
  BY <1>1, <1>3, LeadsByHeartbeats
<1>5. SeqAt(channel.log, n) = channel.seq
  BY <1>1 DEF ChannelOK
<1>6. p.at = channel.seq /\ SaidLast(channel.log, n, p.said)
  BY <1>2, <1>3, <1>4, <1>5 DEF Behind
<1>7. p.at = Reached(c) /\ p.said = live[c].waiting
  BY DEF Standing
<1>8. seq[c] # None /\ era[c] = watched[c] /\ seq[c] = channel.seq
  <2>1. ~(seq[c] # None /\ era[c] = watched[c]) => Reached(c) = 0
    BY DEF Reached
  <2> HIDE DEF p
  <2>2. seq[c] # None /\ era[c] = watched[c]
    BY <1>2, <1>6, <1>7, <2>1
  <2> QED
    BY <1>6, <1>7, <2>2 DEF Reached
<1>9. Synced(c)
  BY <1>1, <1>8 DEF Synced
<1>10. live[c].waiting = waiting
  <2> HIDE DEF p, n
  <2> QED
    BY <1>1, <1>2, <1>6, <1>7, SaidOnce
<1> QED
  BY <1>1, <1>2, <1>8, <1>9, <1>10 DEF PageOK, Mirrors

(* A page shows exactly the list that the feed had after the number it     *)
(* handled last, through reconnects, lagging, rotation and snapshots; one  *)
(* with nothing more to receive shows the list, the counts and the waiting *)
(* list that the server has now (useAutoJoin.ts, onmessage; misc.rs, the   *)
(* loop of server_players_stream).                                         *)
THEOREM PagesMirrorTheFeed ==
  ASSUME WatchAssumption
  PROVE  Spec => []PageMirrorsFeed
<1>1. StreamInv => PageMirrorsFeed
  <2> SUFFICES ASSUME StreamInv
               PROVE  PageMirrorsFeed
    OBVIOUS
  <2>1. TypeOK
    BY TypesHold
  <2>2. ASSUME NEW c \in Pages, Synced(c)
        PROVE  ListView(live[c].players, live[c].meta) = channel.views[seq[c]]
    BY <2>2 DEF StreamInv, PageOK, Mirrors
  <2> QED
    BY <2>1, <2>2, DrainedIsCurrent DEF PageMirrorsFeed
<1> QED
  BY <1>1, StreamInvariant, PTL

(* The stream's state keeps its types and bounds: a receiver that is open is *)
(* never past the end of the log.                                            *)
THEOREM StreamTypesHold ==
  ASSUME WatchAssumption
  PROVE  Spec => []TypeOK
<1>1. StreamInv => TypeOK
  BY TypesHold
<1> QED
  BY <1>1, StreamInvariant, PTL

(* No step of the list reaches a page out of order: its own gap check      *)
(* (useAutoJoin.ts, the comparison with seq + 1) never finds one, whatever *)
(* the ring dropped, because the handler answers Lagged with a snapshot.   *)
THEOREM NoGaps ==
  ASSUME WatchAssumption
  PROVE  Spec => []NoGapReachesThePage
<1>1. StreamInv => NoGapReachesThePage
  BY StepsAreInOrder DEF NoGapReachesThePage
<1> QED
  BY <1>1, StreamInvariant, PTL

(* A snapshot is no older than what the page of one watch had reached. *)
LEMMA SnapshotsAreNewer ==
  ASSUME WatchAssumption, StreamInv, NEW c \in Pages, OnSnapshot(c), Synced(c)
  PROVE  seq'[c] >= seq[c]
<1> DEFINE e == Head_(c)
           p == Standing(c)
<1>1. e.kind = "snapshot" /\ \E m \in Standings : Moves(e, p, m)
  BY ReceivedIs DEF OnSnapshot
<1>2. seq[c] \in Nat \union {None} /\ seq \in [Pages -> Nat \union {None}] /\ p \in Standings
  BY PageIs DEF StreamInv, StreamTypes
<1>3. era[c] = watched[c] /\ seq[c] # None
  BY PageIs DEF PageOK, InTime, Synced
<1>4. p.at = seq[c]
  BY <1>3 DEF Standing, Reached
<1>5. seq'[c] = e.seq
  BY <1>2 DEF OnSnapshot
<1> HIDE DEF e, p
<1> QED
  BY <1>1, <1>4, <1>5 DEF Moves, Idle

(* Nor is a step of the list. *)
LEMMA StepsAreNewer ==
  ASSUME WatchAssumption, StreamInv, NEW c \in Pages, OnStep(c)
  PROVE  seq'[c] >= seq[c]
<1> DEFINE e == Head_(c)
           a == seq[c]
<1>1. InOrder(c, e)
  BY StepsAreInOrder DEF OnStep
<1>2. seq'[c] = e.seq
  BY <1>1 DEF OnStep, StreamInv, StreamTypes
<1>3. a \in Nat
  BY <1>1, PageIs DEF InOrder
<1>4. e.seq = IF e.kind = "poll" THEN a ELSE a + 1
  BY <1>1 DEF InOrder
<1> HIDE DEF e, a
<1>5. e.seq >= a
  BY <1>3, <1>4
<1> QED
  BY <1>2, <1>5 DEF a

(* On one watch a page's number never goes down: not by the snapshot after a *)
(* reconnect, nor by one that answers a lag while older events are still     *)
(* under way (useAutoJoin.ts; misc.rs).                                      *)
THEOREM PagesNeverGoBack ==
  ASSUME WatchAssumption
  PROVE  Spec => NeverBackwards
<1>1. StreamInv /\ [Next]_vars
        => \A c \in Pages : Synced(c) /\ Synced(c)' /\ epoch' = epoch => seq'[c] >= seq[c]
  <2> SUFFICES ASSUME StreamInv, [Next]_vars, NEW c \in Pages, Synced(c), Synced(c)'
               PROVE  seq'[c] >= seq[c]
    OBVIOUS
  <2> DEFINE a == seq[c]
  <2>1. a \in Nat /\ seq \in [Pages -> Nat \union {None}]
    BY PageIs DEF Synced, StreamInv, StreamTypes
  <2>2. CASE seq'[c] = a
    BY <2>1, <2>2
  <2>3. CASE OnSnapshot(c)
    BY <2>3, SnapshotsAreNewer
  <2>4. CASE OnStep(c)
    BY <2>4, StepsAreNewer
  <2>5. CASE seq'[c] = None
    BY <2>5 DEF Synced
  <2>6. ASSUME NEW d \in Pages, d # c, OnSnapshot(d) \/ OnStep(d) \/ Leave(d)
        PROVE  seq'[c] = a
    BY <2>1, <2>6 DEF OnSnapshot, OnStep, Leave
  <2>7. Leave(c) => seq'[c] = None
    BY <2>1 DEF Leave
  <2>8. ASSUME NEW d \in Pages, PageStep(d) \/ Fail(d) \/ BackoffOver(d) \/ Leave(d)
        PROVE  UNCHANGED seq \/ OnSnapshot(d) \/ OnStep(d) \/ Leave(d)
    BY <2>8 DEF PageStep, OnHeartbeat, OnRotate, OnWaiting, Fail, BackoffOver
  <2>9. ASSUME NEW d \in Pages, HandlerStep(d) \/ Heartbeat(d) \/ Rotate(d) \/ Drop(d)
        PROVE  UNCHANGED seq
    BY <2>9 DEF HandlerStep, Subscribe, Forward, Resync, Heartbeat, Rotate, Drop
  <2>10. WatchStep \/ NewWatch \/ UNCHANGED vars => UNCHANGED seq
    BY DEF WatchStep, NewWatch, vars, streamVars
  <2> HIDE DEF a
  <2>11. UNCHANGED seq => seq'[c] = a
    BY DEF a
  <2> QED
    BY <2>2, <2>3, <2>4, <2>5, <2>6, <2>7, <2>8, <2>9, <2>10, <2>11 DEF Next
<1> QED
  BY <1>1, StreamInvariant, PTL DEF Spec, NeverBackwards
=============================================================================
