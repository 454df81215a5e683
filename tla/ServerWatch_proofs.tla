------------------------- MODULE ServerWatch_proofs -------------------------
(***************************************************************************)
(* A watch's feed tells its list: each numbered event leads from the list  *)
(* after the number before to the list after its own, and what a poll      *)
(* sends leads to the list it answered, by PlayerDiff_proofs.              *)
(***************************************************************************)
EXTENDS ServerWatch, PlayerDiff_proofs

-----------------------------------------------------------------------------
(* The watch's feed *)

Views == [names : [Names -> Int], meta : Metas]

Events ==
  [kind : NumberedKinds \union {"poll", "waiting"}, seq : Nat, meta : Metas \union {None},
   players : Seq(Players) \union {None}, player : Players \union {None},
   waiting : WaitingLists \union {None}]

(* The number that the feed had reached with an entry of its log. *)
SeqAt(log, i) == IF i = 0 THEN 0 ELSE log[i].seq

Bump(e) == IF e.kind \in NumberedKinds THEN 1 ELSE 0

(* One more or one less with a name. *)
Plus(view, n, k) == [view EXCEPT !.names[n] = @ + k]

(* The list after an event, from the list before it. *)
LeadsOn(e, before, after) ==
  \/ /\ e.kind = "snapshot"
     /\ e.players \in Seq(Players) /\ e.meta \in Metas /\ e.waiting \in WaitingLists
     /\ after = ListView(e.players, e.meta)
  \/ /\ e.kind = "join" /\ e.player \in Players
     /\ after = Plus(before, e.player.name, 1)
  \/ /\ e.kind = "leave" /\ e.player \in Players
     /\ before.names[e.player.name] > 0
     /\ after = Plus(before, e.player.name, -1)
  \/ /\ e.kind = "meta" /\ e.meta \in Metas
     /\ after = [before EXCEPT !.meta = e.meta]

Fits(e, views) ==
  \/ e.kind \in NumberedKinds /\ (e.seq > 1 \/ e.kind = "snapshot") /\ LeadsOn(e, views[e.seq - 1], views[e.seq])
  \/ e.kind = "poll" /\ e.seq > 0
  \/ e.kind = "waiting" /\ e.waiting \in WaitingLists

EntryOK(c, i) ==
  /\ c.log[i].seq = SeqAt(c.log, i - 1) + Bump(c.log[i])
  /\ c.log[i].seq <= c.seq
  /\ Fits(c.log[i], c.views)

ChannelOK(c) ==
  /\ c \in [seq : Nat, log : Seq(Events), views : Seq(Views)]
  /\ Len(c.views) = c.seq
  /\ SeqAt(c.log, Len(c.log)) = c.seq
  /\ \A i \in 1..Len(c.log) : EntryOK(c, i)

Saying == {"snapshot", "waiting"}

(* The waiting list of the last entry that has one. *)
SaidLast(log, upto, w) ==
  \E i \in 1..upto :
    /\ log[i].kind \in Saying /\ log[i].waiting = w
    /\ \A j \in (i + 1)..upto : log[j].kind \notin Saying

WatchInv ==
  /\ WatchTypeOK
  /\ ChannelOK(channel)
  /\ IF ready THEN /\ channel.seq > 0 /\ channel.views[channel.seq] = ListView(players, meta)
                   /\ SaidLast(channel.log, Len(channel.log), waiting)
              ELSE channel.seq = 0 /\ players = <<>> /\ meta = NoMeta

(* The entries of two lists, one after the other. *)
LEMMA ConcatEntries ==
  ASSUME NEW T, NEW a \in Seq(T), NEW b \in Seq(T)
  PROVE  /\ a \o b \in Seq(T) /\ Len(a \o b) = Len(a) + Len(b) /\ Len(a) \in Nat /\ Len(b) \in Nat
         /\ \A i \in 1..Len(a) : (a \o b)[i] = a[i]
         /\ \A i \in 1..Len(b) : (a \o b)[Len(a) + i] = b[i]
<1>1. a \o b \in Seq(T) /\ Len(a \o b) = Len(a) + Len(b) /\ Len(a) \in Nat /\ Len(b) \in Nat
  OBVIOUS
<1>2. \A i \in 1..Len(a) : (a \o b)[i] = a[i]
  OBVIOUS
<1>3. \A i \in 1..Len(b) : (a \o b)[Len(a) + i] = b[i]
  OBVIOUS
<1> QED
  BY <1>1, <1>2, <1>3

Changes == [event : Events, view : Views]

(* The view before a change. *)
Before(c, changes, i) == IF i = 1 THEN c.views[c.seq] ELSE changes[i - 1].view

Sound(c, changes) ==
  /\ changes \in Seq(Changes)
  /\ \A i \in 1..Len(changes) :
       /\ changes[i].event.kind \in NumberedKinds
       /\ c.seq > 0 \/ changes[i].event.kind = "snapshot"
       /\ LeadsOn(changes[i].event, Before(c, changes, i), changes[i].view)

(* What a broadcast adds to the feed. *)
Grows(b, c, changes) ==
  /\ b.seq = c.seq + Len(changes)
  /\ \A k \in 1..c.seq : b.views[k] = c.views[k]
  /\ \A k \in 1..Len(changes) : b.views[c.seq + k] = changes[k].view
  /\ Len(b.log) = Len(c.log) + Len(changes)
  /\ \A i \in 1..Len(c.log) : b.log[i] = c.log[i]
  /\ \A k \in 1..Len(changes) : b.log[Len(c.log) + k] = [changes[k].event EXCEPT !.seq = c.seq + k]

(* What a broadcast of several changes adds to the feed. *)
LEMMA BroadcastIs ==
  ASSUME NEW c, ChannelOK(c), NEW changes \in Seq(Changes)
  PROVE  /\ Grows(Broadcast(c, changes), c, changes)
         /\ Broadcast(c, changes) \in [seq : Nat, log : Seq(Events), views : Seq(Views)]
         /\ Len(Broadcast(c, changes).views) = Broadcast(c, changes).seq
<1> DEFINE n == Len(changes)
           sent == [i \in 1..n |-> [changes[i].event EXCEPT !.seq = c.seq + i]]
           seen == [i \in 1..n |-> changes[i].view]
           b == Broadcast(c, changes)
<1>1. b = [seq |-> c.seq + n, log |-> c.log \o sent, views |-> c.views \o seen]
  BY DEF Broadcast
<1>2. /\ c.seq \in Nat /\ c.log \in Seq(Events) /\ c.views \in Seq(Views) /\ Len(c.views) = c.seq
      /\ n \in Nat
  BY DEF ChannelOK
<1>3. \A i \in 1..n : changes[i].event \in Events /\ changes[i].view \in Views
  <2>1. \A i \in 1..n : changes[i] \in Changes
    OBVIOUS
  <2> QED
    BY <2>1 DEF Changes
<1>4. \A i \in 1..n : [changes[i].event EXCEPT !.seq = c.seq + i] \in Events
  <2> SUFFICES ASSUME NEW i \in 1..n PROVE [changes[i].event EXCEPT !.seq = c.seq + i] \in Events
    OBVIOUS
  <2>1. c.seq + i \in Nat
    BY <1>2
  <2> QED
    BY <1>3, <2>1 DEF Events
<1>5. sent \in Seq(Events) /\ Len(sent) = n /\ seen \in Seq(Views) /\ Len(seen) = n
  <2>1. sent \in [1..n -> Events]
    BY <1>4
  <2>2. seen \in [1..n -> Views]
    BY <1>3
  <2> HIDE DEF sent, seen, n
  <2> QED
    BY <1>2, <2>1, <2>2
<1>6. \A k \in 1..n : sent[k] = [changes[k].event EXCEPT !.seq = c.seq + k] /\ seen[k] = changes[k].view
  OBVIOUS
<1> HIDE DEF sent, seen, n, b
<1>7. /\ c.log \o sent \in Seq(Events) /\ Len(c.log \o sent) = Len(c.log) + n
      /\ \A i \in 1..Len(c.log) : (c.log \o sent)[i] = c.log[i]
      /\ \A i \in 1..n : (c.log \o sent)[Len(c.log) + i] = sent[i]
  <2> DEFINE had == c.log
  <2>0. had \in Seq(Events)
    BY <1>2
  <2> HIDE DEF had
  <2>1. /\ had \o sent \in Seq(Events) /\ Len(had \o sent) = Len(had) + Len(sent)
        /\ \A i \in 1..Len(had) : (had \o sent)[i] = had[i]
        /\ \A i \in 1..Len(sent) : (had \o sent)[Len(had) + i] = sent[i]
    BY <1>5, <2>0, ConcatEntries
  <2> QED
    BY <1>5, <2>1 DEF had
<1>8. /\ c.views \o seen \in Seq(Views) /\ Len(c.views \o seen) = c.seq + n
      /\ \A i \in 1..c.seq : (c.views \o seen)[i] = c.views[i]
      /\ \A i \in 1..n : (c.views \o seen)[c.seq + i] = seen[i]
  <2> DEFINE had == c.views
  <2>0. had \in Seq(Views)
    BY <1>2
  <2> HIDE DEF had
  <2>1. /\ had \o seen \in Seq(Views) /\ Len(had \o seen) = Len(had) + Len(seen)
        /\ \A i \in 1..Len(had) : (had \o seen)[i] = had[i]
        /\ \A i \in 1..Len(seen) : (had \o seen)[Len(had) + i] = seen[i]
    BY <1>5, <2>0, ConcatEntries
  <2> QED
    BY <1>2, <1>5, <2>1 DEF had
<1>9. b.seq = c.seq + n /\ b.log = c.log \o sent /\ b.views = c.views \o seen
  BY <1>1
<1>10. c.seq + n \in Nat
  BY <1>2
<1>11. b \in [seq : Nat, log : Seq(Events), views : Seq(Views)]
  BY <1>1, <1>7, <1>8, <1>10
<1>12. Grows(b, c, changes)
  BY <1>6, <1>7, <1>8, <1>9 DEF Grows, n
<1>13. Len(b.views) = b.seq
  BY <1>8, <1>9
<1> QED
  BY <1>11, <1>12, <1>13 DEF b

(* The number of an event says nothing of what it is. *)
LEMMA Renumbered ==
  ASSUME NEW e \in Events, NEW k \in Nat, NEW before, NEW after, LeadsOn(e, before, after),
         NEW f, f = [e EXCEPT !.seq = k]
  PROVE  f.seq = k /\ f.kind = e.kind /\ LeadsOn(f, before, after)
<1>1. /\ f.seq = k /\ f.kind = e.kind /\ f.meta = e.meta /\ f.players = e.players
      /\ f.player = e.player /\ f.waiting = e.waiting
  BY DEF Events
<1> QED
  BY <1>1 DEF LeadsOn

(* A feed stays in order when sound changes are broadcast on it. *)
LEMMA BroadcastKeeps ==
  ASSUME NEW c, ChannelOK(c), NEW changes, Sound(c, changes)
  PROVE  ChannelOK(Broadcast(c, changes)) /\ Grows(Broadcast(c, changes), c, changes)
<1> DEFINE n == Len(changes)
           b == Broadcast(c, changes)
           l == Len(c.log)
<1>0. changes \in Seq(Changes)
  BY DEF Sound
<1>1. /\ Grows(b, c, changes) /\ b \in [seq : Nat, log : Seq(Events), views : Seq(Views)]
      /\ Len(b.views) = b.seq
  BY <1>0, BroadcastIs
<1> HIDE DEF b
<1>2. /\ c.seq \in Nat /\ l \in Nat /\ n \in Nat /\ Len(c.views) = c.seq
      /\ SeqAt(c.log, l) = c.seq
  <2>1. c.log \in Seq(Events) /\ c.seq \in Nat /\ Len(c.views) = c.seq /\ SeqAt(c.log, l) = c.seq
    BY DEF ChannelOK
  <2> QED
    BY <1>0, <2>1
<1>3. /\ b.seq = c.seq + n
      /\ \A k \in 1..c.seq : b.views[k] = c.views[k]
      /\ \A k \in 1..n : b.views[c.seq + k] = changes[k].view
      /\ Len(b.log) = l + n
      /\ \A i \in 1..l : b.log[i] = c.log[i]
      /\ \A k \in 1..n : b.log[l + k] = [changes[k].event EXCEPT !.seq = c.seq + k]
  BY <1>1 DEF Grows
<1>4. \A i \in 1..l :
        /\ c.log[i].seq = SeqAt(c.log, i - 1) + Bump(c.log[i])
        /\ c.log[i].seq <= c.seq
        /\ Fits(c.log[i], c.views)
        /\ c.log[i] \in Events
  BY ElementsAre DEF ChannelOK, EntryOK
<1>5. \A k \in 1..n : changes[k].event \in Events
  <2>1. \A k \in 1..n : changes[k] \in Changes
    BY <1>0
  <2> QED
    BY <2>1 DEF Changes
<1> HIDE DEF n, l
<1>6. ASSUME NEW k \in 1..n
      PROVE  /\ b.log[l + k].seq = c.seq + k
             /\ b.log[l + k].kind = changes[k].event.kind
             /\ LeadsOn(b.log[l + k], Before(c, changes, k), changes[k].view)
  <2>1. b.log[l + k] = [changes[k].event EXCEPT !.seq = c.seq + k]
    BY <1>3
  <2>2. LeadsOn(changes[k].event, Before(c, changes, k), changes[k].view)
    BY DEF Sound, n
  <2>3. c.seq + k \in Nat
    BY <1>2
  <2> QED
    BY <1>5, <2>1, <2>2, <2>3, Renumbered
<1>7. \A i \in 0..l : SeqAt(b.log, i) = SeqAt(c.log, i)
  <2>1. \A i \in 0..l : i = 0 \/ i \in 1..l
    BY <1>2
  <2> QED
    BY <1>3, <2>1 DEF SeqAt
<1>8. \A k \in 0..n : SeqAt(b.log, l + k) = c.seq + k
  <2> SUFFICES ASSUME NEW k \in 0..n PROVE SeqAt(b.log, l + k) = c.seq + k
    OBVIOUS
  <2>1. CASE k = 0
    <3>1. l \in 0..l /\ l + k = l /\ c.seq + k = c.seq
      BY <1>2, <2>1
    <3> QED
      BY <1>2, <1>7, <3>1
  <2>2. CASE k # 0
    <3>1. k \in 1..n /\ l + k # 0
      BY <1>2, <2>2
    <3> QED
      BY <1>6, <3>1 DEF SeqAt
  <2> QED
    BY <2>1, <2>2
<1>9. ASSUME NEW i \in 1..l
      PROVE  /\ b.log[i].seq = SeqAt(b.log, i - 1) + Bump(b.log[i])
             /\ b.log[i].seq <= b.seq
             /\ Fits(b.log[i], b.views)
  <2>1. b.log[i] = c.log[i] /\ SeqAt(b.log, i - 1) = SeqAt(c.log, i - 1)
    <3>1. i - 1 \in 0..l
      BY <1>2
    <3> QED
      BY <1>3, <1>7, <3>1
  <2>2. c.log[i].seq \in Nat /\ c.log[i].seq <= c.seq
    BY <1>4 DEF Events
  <2>3. c.log[i].seq <= b.seq
    BY <1>2, <1>3, <2>2
  <2>4. Fits(c.log[i], b.views)
    <3>1. Fits(c.log[i], c.views)
      BY <1>4
    <3>2. CASE c.log[i].kind \in NumberedKinds
      <4>1. c.log[i].seq > 1 \/ c.log[i].kind = "snapshot"
        BY <3>1, <3>2 DEF Fits, NumberedKinds
      <4>2. LeadsOn(c.log[i], c.views[c.log[i].seq - 1], c.views[c.log[i].seq])
        BY <3>1, <3>2 DEF Fits, NumberedKinds
      <4>3. c.log[i].seq > 0
        <5>1. Bump(c.log[i]) = 1
          BY <3>2 DEF Bump
        <5>2. SeqAt(c.log, i - 1) \in Nat
          <6>1. i - 1 = 0 \/ i - 1 \in 1..l
            BY <1>2
          <6> QED
            BY <1>4, <6>1 DEF SeqAt, Events
        <5>3. c.log[i].seq = SeqAt(c.log, i - 1) + 1
          BY <1>4, <5>1
        <5> QED
          BY <5>2, <5>3
      <4>4. b.views[c.log[i].seq] = c.views[c.log[i].seq]
        <5>1. c.log[i].seq \in 1..c.seq
          BY <1>2, <2>2, <4>3
        <5> QED
          BY <1>3, <5>1
      <4>5. CASE c.log[i].seq > 1
        <5>1. c.log[i].seq - 1 \in 1..c.seq
          BY <1>2, <2>2, <4>5
        <5>2. b.views[c.log[i].seq - 1] = c.views[c.log[i].seq - 1]
          BY <1>3, <5>1
        <5> QED
          BY <3>2, <4>2, <4>4, <4>5, <5>2 DEF Fits
      <4>6. CASE c.log[i].kind = "snapshot"
        <5>1. LeadsOn(c.log[i], b.views[c.log[i].seq - 1], c.views[c.log[i].seq])
          BY <4>2, <4>6 DEF LeadsOn
        <5> QED
          BY <3>2, <4>1, <4>4, <5>1 DEF Fits
      <4> QED
        BY <4>1, <4>5, <4>6
    <3>3. CASE c.log[i].kind \notin NumberedKinds
      BY <3>1, <3>3 DEF Fits
    <3> QED
      BY <3>2, <3>3
  <2> QED
    BY <1>4, <2>1, <2>3, <2>4
<1>10. ASSUME NEW k \in 1..n
       PROVE  EntryOK(b, l + k)
  <2> DEFINE e == b.log[l + k]
             prev == SeqAt(b.log, (l + k) - 1)
  <2>1. /\ e.kind \in NumberedKinds /\ (c.seq > 0 \/ e.kind = "snapshot")
        /\ e.seq = c.seq + k /\ LeadsOn(e, Before(c, changes, k), changes[k].view)
    BY <1>6 DEF Sound, n
  <2>2. prev = c.seq + (k - 1)
    <3>1. k - 1 \in 0..n /\ (l + k) - 1 = l + (k - 1)
      BY <1>2
    <3>2. SeqAt(b.log, l + (k - 1)) = c.seq + (k - 1)
      BY <1>8, <3>1
    <3> QED
      BY <3>1, <3>2
  <2> HIDE DEF e, prev
  <2>3. Bump(e) = 1
    BY <2>1 DEF Bump
  <2>4. /\ e.seq = prev + Bump(e) /\ e.seq <= b.seq
        /\ c.seq > 0 => e.seq > 1
        /\ e.seq - 1 = c.seq + (k - 1)
    BY <1>2, <1>3, <2>1, <2>2, <2>3
  <2>5. b.views[e.seq] = changes[k].view
    BY <1>3, <2>1
  <2>6. ASSUME c.seq > 0
        PROVE  Before(c, changes, k) = b.views[e.seq - 1]
    <3>1. CASE k = 1
      <4>1. c.seq \in 1..c.seq /\ c.seq + (k - 1) = c.seq
        BY <1>2, <2>6, <3>1
      <4> QED
        BY <1>3, <2>4, <3>1, <4>1 DEF Before
    <3>2. CASE k # 1
      <4>1. k - 1 \in 1..n
        BY <1>2, <3>2
      <4> QED
        BY <1>3, <2>4, <3>2, <4>1 DEF Before
    <3> QED
      BY <3>1, <3>2
  <2>7. LeadsOn(e, b.views[e.seq - 1], b.views[e.seq])
    <3>1. CASE c.seq > 0
      BY <2>1, <2>5, <2>6, <3>1
    <3>2. CASE e.kind = "snapshot"
      BY <2>1, <2>5, <3>2 DEF LeadsOn
    <3> QED
      BY <2>1, <3>1, <3>2
  <2>8. Fits(e, b.views)
    BY <2>1, <2>4, <2>7 DEF Fits
  <2> QED
    BY <2>4, <2>8 DEF EntryOK, e, prev
<1>11. SeqAt(b.log, Len(b.log)) = b.seq
  <2>1. n \in 0..n
    BY <1>2
  <2> QED
    BY <1>3, <1>8, <2>1
<1>12. ASSUME NEW i \in 1..Len(b.log)
       PROVE  EntryOK(b, i)
  <2>1. CASE i \in 1..l
    BY <1>9, <2>1 DEF EntryOK
  <2>2. CASE i \notin 1..l
    <3>1. i - l \in 1..n /\ i = l + (i - l)
      BY <1>2, <1>3, <2>2
    <3>2. PICK k \in 1..n : l + k = i
      BY <3>1
    <3> QED
      BY <1>10, <3>2
  <2> QED
    BY <2>1, <2>2
<1>13. ChannelOK(b)
  BY <1>1, <1>11, <1>12 DEF ChannelOK
<1> QED
  BY <1>1, <1>13 DEF b

(* The first entries of a list. *)
LEMMA FirstFew ==
  ASSUME NEW T, NEW s \in Seq(T), NEW i \in 0..Len(s)
  PROVE  SubSeq(s, 1, i) \in Seq(T) /\ Len(SubSeq(s, 1, i)) = i /\ \A j \in 1..i : SubSeq(s, 1, i)[j] = s[j]
<1>1. Len(s) \in Nat /\ i \in Nat /\ i <= Len(s)
  OBVIOUS
<1> QED
  BY <1>1

(* All entries of a list are the list. *)
LEMMA AllOfThem ==
  ASSUME NEW T, NEW s \in Seq(T)
  PROVE  SubSeq(s, 1, Len(s)) = s
OBVIOUS

(* They count no more than the whole, and each what the one before did or one more. *)
LEMMA FirstFewCount ==
  ASSUME NEW T, NEW s \in Seq(T), NEW n
  PROVE  /\ CountOf(SubSeq(s, 1, 0), n) = 0
         /\ \A i \in 0..Len(s) : /\ CountOf(SubSeq(s, 1, i), n) \in Nat
                                 /\ CountOf(SubSeq(s, 1, i), n) <= CountOf(s, n)
         /\ \A i \in 1..Len(s) : CountOf(SubSeq(s, 1, i), n) =
              CountOf(SubSeq(s, 1, i - 1), n) + (IF s[i].name = n THEN 1 ELSE 0)
<1> DEFINE upto(i) == {j \in Carriers(s, n) : j <= i}
<1>1. Len(s) \in Nat /\ 0 \in 0..Len(s)
  OBVIOUS
<1>2. Carriers(s, n) \in SUBSET (1..Len(s)) /\ IsFiniteSet(Carriers(s, n))
  BY CarriersAre
<1>3. ASSUME NEW i \in 0..Len(s)
      PROVE  Carriers(SubSeq(s, 1, i), n) = upto(i)
  <2>1. DOMAIN SubSeq(s, 1, i) = 1..i /\ \A j \in 1..i : SubSeq(s, 1, i)[j] = s[j]
    <3>1. /\ SubSeq(s, 1, i) \in Seq(T) /\ Len(SubSeq(s, 1, i)) = i
          /\ \A j \in 1..i : SubSeq(s, 1, i)[j] = s[j]
      BY FirstFew
    <3> QED
      BY <3>1
  <2>2. \A j : j \in 1..i <=> j \in 1..Len(s) /\ j <= i
    BY <1>1
  <2> QED
    BY <2>1, <2>2 DEF Carriers
<1>4. \A i \in 0..Len(s) : CountOf(SubSeq(s, 1, i), n) = Cardinality(upto(i))
  BY <1>3 DEF CountOf
<1>5. \A i \in 0..Len(s) : upto(i) \in SUBSET Carriers(s, n)
  OBVIOUS
<1>6. \A i \in 0..Len(s) : /\ IsFiniteSet(upto(i)) /\ Cardinality(upto(i)) \in Nat
                           /\ Cardinality(upto(i)) <= CountOf(s, n)
  <2> HIDE DEF upto
  <2> QED
    BY <1>2, <1>5, FS_Subset, FS_CardinalityType DEF CountOf
<1>7. Cardinality(upto(0)) = 0
  <2>1. upto(0) = {}
    BY <1>2
  <2> QED
    BY <2>1, FS_EmptySet
<1>8. ASSUME NEW i \in 1..Len(s)
      PROVE  Cardinality(upto(i)) = Cardinality(upto(i - 1)) + (IF s[i].name = n THEN 1 ELSE 0)
  <2>0. i - 1 \in 0..Len(s)
    BY <1>1
  <2>1. CASE s[i].name = n
    <3>1. upto(i) = upto(i - 1) \union {i} /\ i \notin upto(i - 1)
      <4>1. i \in Carriers(s, n)
        BY <2>1 DEF Carriers
      <4>2. \A j \in Carriers(s, n) : j <= i <=> j <= i - 1 \/ j = i
        BY <1>2
      <4>3. ~(i <= i - 1)
        OBVIOUS
      <4>4. i <= i
        OBVIOUS
      <4> QED
        BY <4>1, <4>2, <4>3, <4>4
    <3> HIDE DEF upto
    <3>2. Cardinality(upto(i)) = Cardinality(upto(i - 1)) + 1
      BY <1>6, <2>0, <3>1, FS_AddElement
    <3> QED
      BY <2>1, <3>2
  <2>2. CASE s[i].name # n
    <3>1. upto(i) = upto(i - 1)
      <4>1. i \notin Carriers(s, n)
        BY <2>2 DEF Carriers
      <4>2. \A j \in Carriers(s, n) : j # i => (j <= i <=> j <= i - 1)
        BY <1>2
      <4> QED
        BY <4>1, <4>2
    <3> HIDE DEF upto
    <3> QED
      BY <1>6, <2>0, <2>2, <3>1
  <2> QED
    BY <2>1, <2>2
<1>9. \A i \in 1..Len(s) : i \in 0..Len(s) /\ i - 1 \in 0..Len(s)
  BY <1>1
<1> HIDE DEF upto
<1> QED
  BY <1>1, <1>4, <1>6, <1>7, <1>8, <1>9

-----------------------------------------------------------------------------
(* Views *)

(* What a list shows of each name. *)
LEMMA CountsAre ==
  ASSUME NEW list \in Seq(Players)
  PROVE  /\ \A n \in Names : NameCount(list)[n] = CountOf(list, n) /\ CountOf(list, n) \in Nat
         /\ NameCount(list) \in [Names -> Nat]
<1>1. \A n \in Names : CountOf(list, n) \in Nat
  BY CarriersAre
<1> QED
  BY <1>1 DEF NameCount, CountOf

(* What a page shows of a list is a view. *)
LEMMA ListViewIs ==
  ASSUME NEW list \in Seq(Players), NEW m \in Metas
  PROVE  ListView(list, m) \in Views
BY CountsAre DEF ListView, Views

(* The view in the middle of a poll, by name. *)
LEMMA HavingIs ==
  ASSUME players \in Seq(Players), NEW gone \in Seq(Players), NEW come \in Seq(Players), NEW m \in Metas
  PROVE  /\ Having(gone, come, m) \in Views
         /\ Having(gone, come, m).meta = m
         /\ DOMAIN Having(gone, come, m).names = Names
         /\ \A n \in Names :
              Having(gone, come, m).names[n] = CountOf(players, n) - CountOf(gone, n) + CountOf(come, n)
<1>1. \A n \in Names : /\ NameCount(players)[n] = CountOf(players, n) /\ NameCount(gone)[n] = CountOf(gone, n)
                       /\ NameCount(come)[n] = CountOf(come, n) /\ CountOf(players, n) \in Nat
                       /\ CountOf(gone, n) \in Nat /\ CountOf(come, n) \in Nat
  BY CountsAre
<1>2. \A n \in Names : CountOf(players, n) - CountOf(gone, n) + CountOf(come, n) \in Int
  BY <1>1
<1>3. Having(gone, come, m) =
        [names |-> [n \in Names |-> CountOf(players, n) - CountOf(gone, n) + CountOf(come, n)], meta |-> m]
  BY <1>1 DEF Having
<1> QED
  BY <1>2, <1>3 DEF Views

(* Equal counts, equal views. *)
LEMMA SameView ==
  ASSUME NEW v \in Views, NEW w \in Views, v.meta = w.meta, \A n \in Names : v.names[n] = w.names[n]
  PROVE  v = w
<1>1. v.names \in [Names -> Int] /\ w.names \in [Names -> Int]
  BY DEF Views
<1>2. v.names = w.names
  BY <1>1
<1> QED
  BY <1>2 DEF Views

Shifted(w, v, n, k) ==
  /\ w \in Views /\ w.meta = v.meta
  /\ \A o \in Names : w.names[o] = (IF o = n THEN v.names[o] + k ELSE v.names[o])

(* One more or less with a name is a view too. *)
LEMMA PlusIs ==
  ASSUME NEW v \in Views, NEW n \in Names, NEW k \in Int
  PROVE  Shifted(Plus(v, n, k), v, n, k)
<1> DEFINE f == [v.names EXCEPT ![n] = @ + k]
<1>1. v = [names |-> v.names, meta |-> v.meta] /\ v.names \in [Names -> Int] /\ v.meta \in Metas
  BY DEF Views
<1>2. f \in [Names -> Int] /\ \A o \in Names : f[o] = (IF o = n THEN v.names[o] + k ELSE v.names[o])
  BY <1>1
<1>3. Plus(v, n, k) = [names |-> f, meta |-> v.meta]
  BY <1>1 DEF Plus
<1> HIDE DEF f
<1>4. /\ Plus(v, n, k) \in Views /\ Plus(v, n, k).meta = v.meta
      /\ \A o \in Names : Plus(v, n, k).names[o] = (IF o = n THEN v.names[o] + k ELSE v.names[o])
  BY <1>1, <1>2, <1>3 DEF Views
<1> QED
  BY <1>4 DEF Shifted

(* The empty list is a list of players. *)
LEMMA NobodyIsPlayers == <<>> \in Seq(Players)
OBVIOUS

(* Changes that say nothing of the waiting list. *)
Mute(changes) == \A i \in 1..Len(changes) : changes[i].event.kind \notin Saying

(* The view a feed ends with. *)
Ends(c, view) == c.seq > 0 /\ c.views[c.seq] = view

(* A broadcast ends the feed with the view of its last change. *)
LEMMA EndsWith ==
  ASSUME NEW c, ChannelOK(c), NEW b, NEW changes \in Seq(Changes), Grows(b, c, changes)
  PROVE  /\ Len(changes) = 0 => b.seq = c.seq /\ (c.seq > 0 => b.views[b.seq] = c.views[c.seq])
         /\ Len(changes) > 0 => Ends(b, changes[Len(changes)].view)
<1>1. c.seq \in Nat /\ Len(changes) \in Nat
  BY DEF ChannelOK
<1>2. /\ b.seq = c.seq + Len(changes)
      /\ \A k \in 1..c.seq : b.views[k] = c.views[k]
      /\ \A k \in 1..Len(changes) : b.views[c.seq + k] = changes[k].view
  BY DEF Grows
<1>3. CASE Len(changes) = 0
  <2>1. b.seq = c.seq /\ (c.seq > 0 => c.seq \in 1..c.seq)
    BY <1>1, <1>2, <1>3
  <2> QED
    BY <1>2, <1>3, <2>1
<1>4. CASE Len(changes) # 0
  <2>1. Len(changes) \in 1..Len(changes) /\ b.seq > 0 /\ Len(changes) > 0
    BY <1>1, <1>2, <1>4
  <2> QED
    BY <1>2, <1>4, <2>1 DEF Ends
<1> QED
  BY <1>3, <1>4

(* An event without its fields filled. *)
LEMMA BareIs ==
  ASSUME NEW kind \in NumberedKinds \union {"poll", "waiting"}, NEW n \in Nat
  PROVE  /\ Bare(kind, n) \in Events /\ Bare(kind, n).kind = kind /\ Bare(kind, n).seq = n
         /\ \A p \in Players : /\ [Bare(kind, n) EXCEPT !.player = p] \in Events
                               /\ [Bare(kind, n) EXCEPT !.player = p].kind = kind
                               /\ [Bare(kind, n) EXCEPT !.player = p].player = p
         /\ \A m \in Metas : /\ [Bare(kind, n) EXCEPT !.meta = m] \in Events
                             /\ [Bare(kind, n) EXCEPT !.meta = m].kind = kind
                             /\ [Bare(kind, n) EXCEPT !.meta = m].meta = m
         /\ \A w \in WaitingLists : /\ [Bare(kind, n) EXCEPT !.waiting = w] \in Events
                                    /\ [Bare(kind, n) EXCEPT !.waiting = w].kind = kind
                                    /\ [Bare(kind, n) EXCEPT !.waiting = w].seq = n
                                    /\ [Bare(kind, n) EXCEPT !.waiting = w].waiting = w
BY DEF Bare, Events

(* A snapshot's fields. *)
LEMMA SnapshotIs ==
  ASSUME NEW list \in Seq(Players), NEW m \in Metas, waiting \in WaitingLists, NEW n \in Nat
  PROVE  /\ SnapshotOf(list, m, n) \in Events
         /\ SnapshotOf(list, m, n).kind = "snapshot" /\ SnapshotOf(list, m, n).seq = n
         /\ SnapshotOf(list, m, n).players = list /\ SnapshotOf(list, m, n).meta = m
         /\ SnapshotOf(list, m, n).waiting = waiting
BY DEF SnapshotOf, Bare, Events, NumberedKinds

(* The fields of a join or a leave. *)
LEMMA PlayerEventIs ==
  ASSUME NEW kind \in {"leave", "join"}, NEW p \in Players, NEW v \in Views
  PROVE  /\ PlayerEvent(kind, p).kind = kind /\ PlayerEvent(kind, p).player = p
         /\ Change(PlayerEvent(kind, p), v) \in Changes
         /\ Change(PlayerEvent(kind, p), v).event = PlayerEvent(kind, p)
         /\ Change(PlayerEvent(kind, p), v).view = v
<1>1. kind \in NumberedKinds \union {"poll", "waiting"} /\ 0 \in Nat
  BY DEF NumberedKinds
<1>2. /\ PlayerEvent(kind, p) \in Events /\ PlayerEvent(kind, p).kind = kind
      /\ PlayerEvent(kind, p).player = p
  BY <1>1, BareIs DEF PlayerEvent
<1> QED
  BY <1>2 DEF Change, Changes

-----------------------------------------------------------------------------
(* The changes of a poll, one kind after the other *)

(* The leaves of a poll take one player after another off the list. *)
LEMMA LeavesAreSound ==
  ASSUME players \in Seq(Players), meta \in Metas, NEW gone \in Seq(Players),
         \A n \in Names : CountOf(gone, n) <= CountOf(players, n),
         NEW c, Ends(c, ListView(players, meta))
  PROVE  /\ Sound(c, Leaves(gone)) /\ Mute(Leaves(gone))
         /\ Len(Leaves(gone)) = Len(gone)
         /\ \A i \in 1..Len(gone) : Leaves(gone)[i].view = Having(SubSeq(gone, 1, i), <<>>, meta)
<1> DEFINE upto(i) == SubSeq(gone, 1, i)
           leaves == Leaves(gone)
           after(i) == Having(upto(i), <<>>, meta)
<1>0. Len(gone) \in Nat /\ \A i \in 1..Len(gone) : i \in 0..Len(gone) /\ i - 1 \in 0..Len(gone) /\ gone[i] \in Players
  BY ElementsAre
<1>1. \A i \in 0..Len(gone) : upto(i) \in Seq(Players)
  BY FirstFew
<1>2. \A i \in 0..Len(gone) : /\ after(i) \in Views /\ after(i).meta = meta
                              /\ \A n \in Names : after(i).names[n] = CountOf(players, n) - CountOf(upto(i), n)
  <2> SUFFICES ASSUME NEW i \in 0..Len(gone)
               PROVE  /\ after(i) \in Views /\ after(i).meta = meta
                      /\ \A n \in Names : after(i).names[n] = CountOf(players, n) - CountOf(upto(i), n)
    OBVIOUS
  <2> HIDE DEF upto
  <2>0. upto(i) \in Seq(Players)
    BY <1>1
  <2>1. /\ after(i) \in Views /\ after(i).meta = meta
        /\ \A n \in Names : after(i).names[n] = CountOf(players, n) - CountOf(upto(i), n) + CountOf(<<>>, n)
    BY <2>0, NobodyIsPlayers, HavingIs
  <2>2. \A n \in Names : CountOf(<<>>, n) = 0 /\ CountOf(players, n) \in Nat /\ CountOf(upto(i), n) \in Nat
    BY <2>0, NobodyCounts, CountsAre
  <2>3. \A n \in Names : after(i).names[n] = CountOf(players, n) - CountOf(upto(i), n)
    BY <2>1, <2>2
  <2> QED
    BY <2>1, <2>3
<1>3. \A n \in Names : /\ CountOf(players, n) \in Nat /\ CountOf(upto(0), n) = 0
                       /\ \A i \in 0..Len(gone) : /\ CountOf(upto(i), n) \in Nat
                                                  /\ CountOf(upto(i), n) <= CountOf(gone, n)
                       /\ \A i \in 1..Len(gone) : CountOf(upto(i), n) =
                            CountOf(upto(i - 1), n) + (IF gone[i].name = n THEN 1 ELSE 0)
  BY FirstFewCount, CountsAre
<1> HIDE DEF upto, after
<1>4. ListView(players, meta) = after(0)
  <2>1. 0 \in 0..Len(gone) /\ ListView(players, meta) \in Views
    BY <1>0, ListViewIs
  <2>2. \A n \in Names : ListView(players, meta).names[n] = CountOf(players, n)
    BY CountsAre DEF ListView
  <2>3. \A n \in Names : ListView(players, meta).names[n] = after(0).names[n]
    BY <1>2, <1>3, <2>1, <2>2
  <2>4. ListView(players, meta).meta = after(0).meta
    BY <1>2, <2>1 DEF ListView
  <2> QED
    BY <1>2, <2>1, <2>3, <2>4, SameView
<1>5. \A i \in 1..Len(gone) : leaves[i] = Change(PlayerEvent("leave", gone[i]), after(i))
  BY DEF Leaves, after, upto
<1>6. \A i \in 1..Len(gone) :
        /\ leaves[i].event.kind = "leave" /\ leaves[i].event.player = gone[i]
        /\ leaves[i].view = after(i)
        /\ leaves[i] \in Changes
  <2> SUFFICES ASSUME NEW i \in 1..Len(gone)
               PROVE  /\ leaves[i].event.kind = "leave" /\ leaves[i].event.player = gone[i]
                      /\ leaves[i].view = after(i) /\ leaves[i] \in Changes
    OBVIOUS
  <2>1. gone[i] \in Players /\ after(i) \in Views
    BY <1>0, <1>2
  <2> HIDE DEF leaves
  <2> QED
    BY <1>5, <2>1, PlayerEventIs
<1>7. leaves \in Seq(Changes) /\ Len(leaves) = Len(gone)
  <2>1. leaves \in [1..Len(gone) -> Changes]
    BY <1>6 DEF Leaves
  <2> HIDE DEF leaves
  <2> QED
    BY <1>0, <2>1
<1> HIDE DEF leaves
<1>8. ASSUME NEW i \in 1..Len(gone)
      PROVE  Before(c, leaves, i) = after(i - 1)
  <2>1. CASE i = 1
    BY <1>4, <2>1 DEF Before, Ends
  <2>2. CASE i # 1
    <3>1. i - 1 \in 1..Len(gone)
      BY <1>0, <2>2
    <3> QED
      BY <1>6, <2>2, <3>1 DEF Before
  <2> QED
    BY <2>1, <2>2
<1>9. ASSUME NEW i \in 1..Len(gone)
      PROVE  /\ after(i - 1).names[gone[i].name] > 0
             /\ after(i) = Plus(after(i - 1), gone[i].name, -1)
  <2> DEFINE n == gone[i].name
             had(o) == CountOf(players, o)
             left(o) == CountOf(upto(i), o)
             lost(o) == CountOf(upto(i - 1), o)
  <2>1. n \in Names /\ i \in 0..Len(gone) /\ i - 1 \in 0..Len(gone)
    BY <1>0 DEF Players
  <2>2. \A o \in Names : /\ had(o) \in Nat /\ left(o) \in Nat /\ lost(o) \in Nat
                         /\ left(o) <= CountOf(gone, o) /\ CountOf(gone, o) <= had(o) /\ CountOf(gone, o) \in Nat
                         /\ left(o) = lost(o) + (IF o = n THEN 1 ELSE 0)
    BY <1>3, <2>1, CountsAre
  <2>3. \A o \in Names : after(i).names[o] = had(o) - left(o) /\ after(i - 1).names[o] = had(o) - lost(o)
    BY <1>2, <2>1
  <2> HIDE DEF n, had, left, lost
  <2>4. after(i - 1).names[n] > 0
    BY <2>1, <2>2, <2>3
  <2>5. \A o \in Names : after(i).names[o] =
          (IF o = n THEN after(i - 1).names[o] + (-1) ELSE after(i - 1).names[o])
    BY <2>2, <2>3
  <2> DEFINE before == after(i - 1)
  <2>6. before \in Views /\ before.meta = meta /\ after(i) \in Views /\ after(i).meta = meta
    BY <1>2, <2>1
  <2>7. Shifted(Plus(before, n, -1), before, n, -1)
    <3> HIDE DEF before
    <3> QED
      BY <2>1, <2>6, PlusIs
  <2>8. after(i) = Plus(before, n, -1)
    <3>1. \A o \in Names : after(i).names[o] = Plus(before, n, -1).names[o]
      BY <2>5, <2>7 DEF Shifted
    <3>2. Plus(before, n, -1) \in Views /\ Plus(before, n, -1).meta = before.meta
      BY <2>7 DEF Shifted
    <3> QED
      BY <2>6, <3>1, <3>2, SameView
  <2> QED
    BY <2>4, <2>8 DEF n
<1>10. ASSUME NEW i \in 1..Len(leaves)
       PROVE  /\ leaves[i].event.kind \in NumberedKinds
              /\ c.seq > 0 \/ leaves[i].event.kind = "snapshot"
              /\ LeadsOn(leaves[i].event, Before(c, leaves, i), leaves[i].view)
  <2>1. i \in 1..Len(gone)
    BY <1>7
  <2>2. /\ leaves[i].event.kind = "leave" /\ leaves[i].event.player = gone[i] /\ gone[i] \in Players
        /\ leaves[i].view = after(i) /\ Before(c, leaves, i) = after(i - 1)
    BY <1>0, <1>6, <1>8, <2>1
  <2>3. after(i - 1).names[gone[i].name] > 0 /\ after(i) = Plus(after(i - 1), gone[i].name, -1)
    BY <1>9, <2>1
  <2> QED
    BY <2>2, <2>3 DEF LeadsOn, NumberedKinds, Ends
<1>11. Mute(leaves)
  BY <1>6, <1>7 DEF Mute, Saying
<1> QED
  BY <1>6, <1>7, <1>10, <1>11 DEF Sound, leaves, after, upto

(* Its joins then put one player after another on it. *)
LEMMA JoinsAreSound ==
  ASSUME players \in Seq(Players), meta \in Metas, NEW gone \in Seq(Players), NEW come \in Seq(Players),
         NEW c, Ends(c, Having(gone, <<>>, meta))
  PROVE  /\ Sound(c, Joins(gone, come)) /\ Mute(Joins(gone, come))
         /\ Len(Joins(gone, come)) = Len(come)
         /\ \A i \in 1..Len(come) : Joins(gone, come)[i].view = Having(gone, SubSeq(come, 1, i), meta)
<1> DEFINE upto(i) == SubSeq(come, 1, i)
           joins == Joins(gone, come)
           after(i) == Having(gone, upto(i), meta)
<1>0. Len(come) \in Nat /\ \A i \in 1..Len(come) : i \in 0..Len(come) /\ i - 1 \in 0..Len(come) /\ come[i] \in Players
  BY ElementsAre
<1>1. \A i \in 0..Len(come) : upto(i) \in Seq(Players)
  BY FirstFew
<1>2. \A i \in 0..Len(come) : /\ after(i) \in Views /\ after(i).meta = meta
                              /\ \A n \in Names : after(i).names[n] =
                                   CountOf(players, n) - CountOf(gone, n) + CountOf(upto(i), n)
  <2> HIDE DEF upto
  <2> QED
    BY <1>1, HavingIs
<1>3. \A n \in Names : /\ CountOf(players, n) \in Nat /\ CountOf(gone, n) \in Nat /\ CountOf(upto(0), n) = 0
                       /\ \A i \in 0..Len(come) : CountOf(upto(i), n) \in Nat
                       /\ \A i \in 1..Len(come) : CountOf(upto(i), n) =
                            CountOf(upto(i - 1), n) + (IF come[i].name = n THEN 1 ELSE 0)
  <2> SUFFICES ASSUME NEW n \in Names
               PROVE  /\ CountOf(players, n) \in Nat /\ CountOf(gone, n) \in Nat /\ CountOf(upto(0), n) = 0
                      /\ \A i \in 0..Len(come) : CountOf(upto(i), n) \in Nat
                      /\ \A i \in 1..Len(come) : CountOf(upto(i), n) =
                           CountOf(upto(i - 1), n) + (IF come[i].name = n THEN 1 ELSE 0)
    OBVIOUS
  <2>1. CountOf(players, n) \in Nat /\ CountOf(gone, n) \in Nat
    BY CountsAre
  <2>2. /\ CountOf(upto(0), n) = 0 /\ \A i \in 0..Len(come) : CountOf(upto(i), n) \in Nat
        /\ \A i \in 1..Len(come) : CountOf(upto(i), n) =
             CountOf(upto(i - 1), n) + (IF come[i].name = n THEN 1 ELSE 0)
    BY FirstFewCount
  <2> QED
    BY <2>1, <2>2
<1>4. Having(gone, <<>>, meta) = after(0)
  <2>1. upto(0) = <<>>
    BY <1>0, <1>1
  <2> QED
    BY <2>1
<1> HIDE DEF upto, after
<1>5. \A i \in 1..Len(come) : joins[i] = Change(PlayerEvent("join", come[i]), after(i))
  BY DEF Joins, after, upto
<1>6. \A i \in 1..Len(come) :
        /\ joins[i].event.kind = "join" /\ joins[i].event.player = come[i]
        /\ joins[i].view = after(i)
        /\ joins[i] \in Changes
  <2> SUFFICES ASSUME NEW i \in 1..Len(come)
               PROVE  /\ joins[i].event.kind = "join" /\ joins[i].event.player = come[i]
                      /\ joins[i].view = after(i) /\ joins[i] \in Changes
    OBVIOUS
  <2>1. come[i] \in Players /\ after(i) \in Views
    BY <1>0, <1>2
  <2> HIDE DEF joins
  <2> QED
    BY <1>5, <2>1, PlayerEventIs
<1>7. joins \in Seq(Changes) /\ Len(joins) = Len(come)
  <2>1. joins \in [1..Len(come) -> Changes]
    BY <1>6 DEF Joins
  <2> HIDE DEF joins
  <2> QED
    BY <1>0, <2>1
<1> HIDE DEF joins
<1>8. ASSUME NEW i \in 1..Len(come)
      PROVE  Before(c, joins, i) = after(i - 1)
  <2>1. CASE i = 1
    BY <1>4, <2>1 DEF Before, Ends
  <2>2. CASE i # 1
    <3>1. i - 1 \in 1..Len(come)
      BY <1>0, <2>2
    <3> QED
      BY <1>6, <2>2, <3>1 DEF Before
  <2> QED
    BY <2>1, <2>2
<1>9. ASSUME NEW i \in 1..Len(come)
      PROVE  after(i) = Plus(after(i - 1), come[i].name, 1)
  <2> DEFINE n == come[i].name
             had(o) == CountOf(players, o) - CountOf(gone, o)
             now(o) == CountOf(upto(i), o)
             then(o) == CountOf(upto(i - 1), o)
  <2>1. n \in Names /\ i \in 0..Len(come) /\ i - 1 \in 0..Len(come)
    BY <1>0 DEF Players
  <2>2. \A o \in Names : /\ had(o) \in Int /\ now(o) \in Nat /\ then(o) \in Nat
                         /\ now(o) = then(o) + (IF o = n THEN 1 ELSE 0)
    <3> SUFFICES ASSUME NEW o \in Names
                 PROVE  /\ had(o) \in Int /\ now(o) \in Nat /\ then(o) \in Nat
                        /\ now(o) = then(o) + (IF o = n THEN 1 ELSE 0)
      OBVIOUS
    <3>1. /\ CountOf(players, o) \in Nat /\ CountOf(gone, o) \in Nat
          /\ now(o) \in Nat /\ then(o) \in Nat
      BY <1>3, <2>1
    <3>2. now(o) = then(o) + (IF o = n THEN 1 ELSE 0)
      BY <1>3
    <3> QED
      BY <3>1, <3>2
  <2>3. \A o \in Names : after(i).names[o] = had(o) + now(o) /\ after(i - 1).names[o] = had(o) + then(o)
    BY <1>2, <2>1
  <2> HIDE DEF n, had, now, then
  <2>5. \A o \in Names : after(i).names[o] =
          (IF o = n THEN after(i - 1).names[o] + 1 ELSE after(i - 1).names[o])
    BY <2>2, <2>3
  <2> DEFINE before == after(i - 1)
  <2>6. before \in Views /\ before.meta = meta /\ after(i) \in Views /\ after(i).meta = meta
    BY <1>2, <2>1
  <2>7. Shifted(Plus(before, n, 1), before, n, 1)
    <3> HIDE DEF before
    <3> QED
      BY <2>1, <2>6, PlusIs
  <2>8. after(i) = Plus(before, n, 1)
    <3>1. \A o \in Names : after(i).names[o] = Plus(before, n, 1).names[o]
      BY <2>5, <2>7 DEF Shifted
    <3>2. Plus(before, n, 1) \in Views /\ Plus(before, n, 1).meta = before.meta
      BY <2>7 DEF Shifted
    <3> QED
      BY <2>6, <3>1, <3>2, SameView
  <2> QED
    BY <2>8 DEF n
<1>10. ASSUME NEW i \in 1..Len(joins)
       PROVE  /\ joins[i].event.kind \in NumberedKinds
              /\ c.seq > 0 \/ joins[i].event.kind = "snapshot"
              /\ LeadsOn(joins[i].event, Before(c, joins, i), joins[i].view)
  <2>1. i \in 1..Len(come)
    BY <1>7
  <2>2. /\ joins[i].event.kind = "join" /\ joins[i].event.player = come[i] /\ come[i] \in Players
        /\ joins[i].view = after(i) /\ Before(c, joins, i) = after(i - 1)
    BY <1>0, <1>6, <1>8, <2>1
  <2>3. after(i) = Plus(after(i - 1), come[i].name, 1)
    BY <1>9, <2>1
  <2> QED
    BY <2>2, <2>3 DEF LeadsOn, NumberedKinds, Ends
<1>11. Mute(joins)
  BY <1>6, <1>7 DEF Mute, Saying
<1> QED
  BY <1>6, <1>7, <1>10, <1>11 DEF Sound, joins, after, upto

(* Its meta event changes the counts alone. *)
LEMMA MetaIsSound ==
  ASSUME players \in Seq(Players), meta \in Metas, NEW gone \in Seq(Players), NEW come \in Seq(Players),
         NEW m \in Metas, NEW c, Ends(c, Having(gone, come, meta))
  PROVE  /\ Sound(c, MetaChange(gone, come, m)) /\ Mute(MetaChange(gone, come, m))
         /\ m = meta => MetaChange(gone, come, m) = <<>>
         /\ m # meta => /\ Len(MetaChange(gone, come, m)) = 1
                        /\ MetaChange(gone, come, m)[1].view = Having(gone, come, m)
<1>1. CASE m = meta
  BY <1>1 DEF MetaChange, Sound, Mute
<1>2. CASE m # meta
  <2> DEFINE e == [Bare("meta", 0) EXCEPT !.meta = m]
             v == Having(gone, come, m)
             old == Having(gone, come, meta)
             changes == MetaChange(gone, come, m)
  <2>1. e \in Events /\ e.kind = "meta" /\ e.meta = m
    BY BareIs DEF NumberedKinds
  <2>2. v \in Views /\ old = [old EXCEPT !.meta = meta] /\ v = [old EXCEPT !.meta = m]
    <3>1. v \in Views
      BY HavingIs
    <3> QED
      BY <3>1 DEF Having
  <2>3. changes = << [event |-> e, view |-> v] >>
    BY <1>2 DEF MetaChange, Change
  <2> HIDE DEF e, v, changes
  <2>4. changes \in Seq(Changes) /\ Len(changes) = 1 /\ changes[1].event = e /\ changes[1].view = v
    BY <2>1, <2>2, <2>3 DEF Changes
  <2>5. LeadsOn(e, old, v)
    BY <2>1, <2>2 DEF LeadsOn
  <2>6. Sound(c, changes)
    BY <2>1, <2>4, <2>5 DEF Sound, Before, Ends, NumberedKinds
  <2>7. Mute(changes)
    BY <2>1, <2>4 DEF Mute, Saying
  <2> QED
    BY <1>2, <2>4, <2>6, <2>7 DEF changes, v
<1> QED
  BY <1>1, <1>2

(* A log that goes on without a word of the waiting list. *)
LEMMA SaidStill ==
  ASSUME NEW a \in Seq(Events), NEW b \in Seq(Events), NEW w, Len(a) <= Len(b), SaidLast(a, Len(a), w),
         \A i \in 1..Len(a) : b[i] = a[i],
         \A i \in (Len(a) + 1)..Len(b) : b[i].kind \notin Saying
  PROVE  SaidLast(b, Len(b), w)
<1>1. PICK i \in 1..Len(a) : /\ a[i].kind \in Saying /\ a[i].waiting = w
                             /\ \A j \in (i + 1)..Len(a) : a[j].kind \notin Saying
  BY DEF SaidLast
<1>2. Len(a) \in Nat /\ Len(b) \in Nat
  OBVIOUS
<1>3. ASSUME NEW j \in (i + 1)..Len(b)
      PROVE  b[j].kind \notin Saying
  <2>1. (j \in (i + 1)..Len(a) /\ j \in 1..Len(a)) \/ j \in (Len(a) + 1)..Len(b)
    BY <1>1, <1>2
  <2> QED
    BY <1>1, <2>1
<1>4. i \in 1..Len(b) /\ b[i] = a[i]
  BY <1>1, <1>2
<1> QED
  BY <1>1, <1>3, <1>4 DEF SaidLast

(* The parts of a feed. *)
LEMMA ChannelIs ==
  ASSUME NEW c, ChannelOK(c)
  PROVE  c.seq \in Nat /\ c.log \in Seq(Events) /\ c.views \in Seq(Views)
BY DEF ChannelOK

(* Events without a waiting list leave the last one that was said. *)
LEMMA SaidThroughBroadcast ==
  ASSUME NEW c, ChannelOK(c), NEW changes \in Seq(Changes), Mute(changes),
         NEW b, ChannelOK(b), Grows(b, c, changes), NEW w, SaidLast(c.log, Len(c.log), w)
  PROVE  SaidLast(b.log, Len(b.log), w)
<1> DEFINE old == c.log
           new == b.log
           n == Len(changes)
<1>1. old \in Seq(Events) /\ new \in Seq(Events) /\ n \in Nat /\ c.seq \in Nat
  BY ChannelIs
<1>2. /\ Len(new) = Len(old) + n
      /\ \A i \in 1..Len(old) : new[i] = old[i]
      /\ \A k \in 1..n : new[Len(old) + k] = [changes[k].event EXCEPT !.seq = c.seq + k]
  BY DEF Grows
<1>3. \A k \in 1..n : changes[k].event \in Events /\ changes[k].event.kind \notin Saying
  <2>1. \A k \in 1..n : changes[k] \in Changes
    OBVIOUS
  <2> QED
    BY <2>1 DEF Changes, Mute
<1>4. SaidLast(old, Len(old), w)
  OBVIOUS
<1> HIDE DEF old, new, n
<1>5. ASSUME NEW k \in 1..n
      PROVE  new[Len(old) + k].kind \notin Saying
  <2>1. [changes[k].event EXCEPT !.seq = c.seq + k].kind = changes[k].event.kind
    BY <1>3 DEF Events
  <2> QED
    BY <1>2, <1>3, <2>1
<1>6. ASSUME NEW i \in (Len(old) + 1)..Len(new)
      PROVE  new[i].kind \notin Saying
  <2>1. Len(old) \in Nat
    BY <1>1
  <2>2. i - Len(old) \in 1..n /\ Len(old) + (i - Len(old)) = i
    BY <1>1, <1>2, <2>1
  <2>3. PICK k \in 1..n : Len(old) + k = i
    BY <2>2
  <2> QED
    BY <1>5, <2>3
<1>7. Len(old) <= Len(new)
  BY <1>1, <1>2
<1>8. SaidLast(new, Len(new), w)
  BY <1>1, <1>2, <1>4, <1>6, <1>7, SaidStill
<1> QED
  BY <1>8 DEF new

(* An event that bears the number of the last. *)
LEMMA SendKeeps ==
  ASSUME NEW c, ChannelOK(c), NEW e \in Events, e.seq = c.seq, e.kind \notin NumberedKinds, Fits(e, c.views)
  PROVE  /\ ChannelOK(SendAsIs(c, e))
         /\ SendAsIs(c, e).seq = c.seq /\ SendAsIs(c, e).views = c.views
         /\ SendAsIs(c, e).log = Append(c.log, e)
<1> DEFINE b == SendAsIs(c, e)
           old == c.log
           new == b.log
           n == Len(old)
<1>1. /\ c = [seq |-> c.seq, log |-> old, views |-> c.views]
      /\ c.seq \in Nat /\ old \in Seq(Events) /\ c.views \in Seq(Views) /\ n \in Nat
  BY ChannelIs DEF ChannelOK
<1>2. b = [seq |-> c.seq, log |-> Append(old, e), views |-> c.views]
  <2>1. c \in [seq : Nat, log : Seq(Events), views : Seq(Views)]
    BY DEF ChannelOK
  <2>2. b = [c EXCEPT !.log = Append(c.log, e)]
    BY DEF SendAsIs
  <2> HIDE DEF b
  <2> QED
    BY <2>1, <2>2
<1>3. b.seq = c.seq /\ b.views = c.views /\ new = Append(old, e)
  BY <1>2
<1>4. /\ Len(c.views) = c.seq /\ SeqAt(old, n) = c.seq
      /\ \A i \in 1..n : EntryOK(c, i)
  BY DEF ChannelOK
<1> HIDE DEF b, new, old
<1>5. new \in Seq(Events) /\ Len(new) = n + 1 /\ new[n + 1] = e /\ \A i \in 1..n : new[i] = old[i]
  BY <1>1, <1>3
<1> HIDE DEF n
<1>6. \A i \in 0..n : SeqAt(new, i) = SeqAt(old, i)
  <2>1. \A i \in 0..n : i = 0 \/ i \in 1..n
    BY <1>1
  <2> QED
    BY <1>5, <2>1 DEF SeqAt
<1>7. ASSUME NEW i \in 1..n
      PROVE  EntryOK(b, i)
  <2>1. i - 1 \in 0..n
    BY <1>1
  <2>2. SeqAt(new, i - 1) = SeqAt(old, i - 1)
    BY <1>6, <2>1
  <2>3. EntryOK(c, i)
    BY <1>4
  <2>4. b.log[i] = c.log[i] /\ b.seq = c.seq /\ b.views = c.views /\ SeqAt(b.log, i - 1) = SeqAt(c.log, i - 1)
    BY <1>3, <1>5, <2>2 DEF old, new
  <2> QED
    BY <2>3, <2>4 DEF EntryOK
<1>8. EntryOK(b, n + 1)
  <2>1. SeqAt(b.log, (n + 1) - 1) = c.seq
    <3>1. n \in 0..n /\ (n + 1) - 1 = n
      BY <1>1
    <3> QED
      BY <1>4, <1>6, <3>1 DEF new
  <2>2. b.log[n + 1] = e /\ Bump(e) = 0 /\ Fits(e, b.views)
    BY <1>3, <1>5 DEF new, Bump
  <2>3. e.seq = c.seq + 0 /\ e.seq <= b.seq
    BY <1>1, <1>3
  <2> QED
    BY <2>1, <2>2, <2>3 DEF EntryOK
<1>9. \A i \in 1..(n + 1) : EntryOK(b, i)
  <2>1. \A i \in 1..(n + 1) : i \in 1..n \/ i = n + 1
    BY <1>1
  <2> QED
    BY <1>7, <1>8, <2>1
<1>10. SeqAt(new, n + 1) = b.seq
  <2>1. n + 1 # 0
    BY <1>1
  <2> QED
    BY <1>3, <1>5, <2>1 DEF SeqAt
<1>11. b \in [seq : Nat, log : Seq(Events), views : Seq(Views)]
  BY <1>1, <1>2, <1>3, <1>5
<1>12. ChannelOK(b)
  BY <1>3, <1>4, <1>5, <1>9, <1>10, <1>11 DEF ChannelOK, new
<1> QED
  BY <1>3, <1>12 DEF b, new, old

(* A feed that went on: what it had sent, and the lists on the way, stand. *)
Extends(b, c) ==
  /\ c.seq <= b.seq /\ Len(c.log) <= Len(b.log)
  /\ \A k \in 1..c.seq : b.views[k] = c.views[k]
  /\ \A i \in 1..Len(c.log) : b.log[i] = c.log[i]

(* A feed that extends a longer one extends the shorter. *)
LEMMA ExtendsFurther ==
  ASSUME NEW a, ChannelOK(a), NEW b, ChannelOK(b), NEW c, ChannelOK(c), Extends(b, a), Extends(c, b)
  PROVE  Extends(c, a)
<1> DEFINE k == Len(a.log)
           l == Len(b.log)
           m == Len(c.log)
<1>1. /\ a.seq \in Nat /\ b.seq \in Nat /\ c.seq \in Nat
      /\ a.log \in Seq(Events) /\ b.log \in Seq(Events) /\ c.log \in Seq(Events)
  BY ChannelIs
<1>2. k \in Nat /\ l \in Nat /\ m \in Nat
  BY <1>1
<1>3. k <= l /\ l <= m /\ a.seq <= b.seq /\ b.seq <= c.seq
  BY DEF Extends
<1>4. (\A i \in 1..k : b.log[i] = a.log[i]) /\ \A i \in 1..l : c.log[i] = b.log[i]
  BY DEF Extends
<1>5. (\A i \in 1..a.seq : b.views[i] = a.views[i]) /\ \A i \in 1..b.seq : c.views[i] = b.views[i]
  BY DEF Extends
<1> HIDE DEF k, l, m
<1>6. k <= m /\ \A i \in 1..k : c.log[i] = a.log[i]
  BY <1>2, <1>3, <1>4
<1>7. a.seq <= c.seq /\ \A i \in 1..a.seq : c.views[i] = a.views[i]
  BY <1>1, <1>3, <1>5
<1> QED
  BY <1>6, <1>7 DEF Extends, k, m

(* A broadcast takes nothing back. *)
LEMMA GrowsExtends ==
  ASSUME NEW c, ChannelOK(c), NEW changes \in Seq(Changes), NEW b, Grows(b, c, changes)
  PROVE  Extends(b, c)
<1> DEFINE n == Len(changes)
           k == Len(c.log)
<1>1. c.seq \in Nat /\ c.log \in Seq(Events) /\ n \in Nat
  BY ChannelIs
<1>2. k \in Nat
  BY <1>1
<1>3. /\ b.seq = c.seq + n /\ Len(b.log) = k + n
      /\ \A i \in 1..c.seq : b.views[i] = c.views[i]
      /\ \A i \in 1..k : b.log[i] = c.log[i]
  BY DEF Grows
<1> HIDE DEF n, k
<1>4. c.seq <= b.seq /\ k <= Len(b.log)
  BY <1>1, <1>2, <1>3
<1> QED
  BY <1>3, <1>4 DEF Extends, k

(* What a feed tells, now that it reached some number. *)
Tells(c, list, m, w) ==
  ChannelOK(c) /\ Ends(c, ListView(list, m)) /\ SaidLast(c.log, Len(c.log), w)

Confirms(c, list, m) ==
  /\ Tells(c, list, m, waiting)
  /\ c.seq = channel.seq + 1
  /\ Extends(c, channel)
  /\ \A k \in 1..c.seq : k > channel.seq => c.views[k] = ListView(list, m)

(* A snapshot confirms the list and the waiting list. *)
LEMMA SnapshotTells ==
  ASSUME NEW list \in Seq(Players), NEW m \in Metas, waiting \in WaitingLists, ChannelOK(channel)
  PROVE  Confirms(Broadcast(channel, <<Change(SnapshotOf(list, m, 0), ListView(list, m))>>), list, m)
<1> DEFINE e == SnapshotOf(list, m, 0)
           v == ListView(list, m)
           changes == <<Change(e, v)>>
           c == Broadcast(channel, changes)
           new == c.log
           old == channel.log
<1>1. /\ e \in Events /\ e.kind = "snapshot" /\ e.players = list /\ e.meta = m /\ e.waiting = waiting
  BY SnapshotIs
<1>2. v \in Views
  BY ListViewIs
<1>3. v = ListView(e.players, e.meta)
  BY <1>1
<1> HIDE DEF e, v, c
<1>4. changes \in Seq(Changes) /\ Len(changes) = 1 /\ changes[1].event = e /\ changes[1].view = v
  BY <1>1, <1>2 DEF Changes, Change
<1> HIDE DEF changes
<1>5. \A before : LeadsOn(e, before, v)
  BY <1>1, <1>3 DEF LeadsOn
<1>6. Sound(channel, changes)
  BY <1>1, <1>4, <1>5 DEF Sound, NumberedKinds
<1>7. ChannelOK(c) /\ Grows(c, channel, changes)
  BY <1>6, BroadcastKeeps DEF c
<1>8. Ends(c, v)
  <2>1. Len(changes) > 0 /\ changes[Len(changes)].view = v
    BY <1>4
  <2> QED
    BY <1>4, <1>7, <2>1, EndsWith
<1>9. /\ Len(new) = Len(old) + 1 /\ new[Len(old) + 1] = [e EXCEPT !.seq = channel.seq + 1]
      /\ c.seq = channel.seq + 1
  <2>1. /\ c.seq = channel.seq + Len(changes) /\ Len(new) = Len(old) + Len(changes)
        /\ \A k \in 1..Len(changes) : new[Len(old) + k] = [changes[k].event EXCEPT !.seq = channel.seq + k]
    BY <1>7 DEF Grows
  <2>2. 1 \in 1..Len(changes)
    BY <1>4
  <2> QED
    BY <1>4, <2>1, <2>2
<1>10. old \in Seq(Events) /\ new \in Seq(Events) /\ channel.seq + 1 \in Nat
  BY <1>7, ChannelIs
<1> HIDE DEF new, old
<1>11. Len(new) \in Nat /\ Len(new) \in 1..Len(new) /\ \A j \in (Len(new) + 1)..Len(new) : FALSE
  BY <1>9, <1>10
<1>12. new[Len(new)].kind = "snapshot" /\ new[Len(new)].waiting = waiting
  BY <1>1, <1>9, <1>10 DEF Events
<1>13. SaidLast(new, Len(new), waiting)
  BY <1>11, <1>12 DEF SaidLast, Saying
<1>14. Tells(c, list, m, waiting)
  BY <1>7, <1>8, <1>13 DEF Tells, v, new
<1>15. \A k \in 1..c.seq : k > channel.seq => c.views[k] = v
  <2>1. channel.seq \in Nat
    BY ChannelIs
  <2>2. \A k \in 1..c.seq : k > channel.seq => k = c.seq
    BY <1>9, <2>1
  <2> QED
    BY <1>8, <2>2 DEF Ends
<1>16. Extends(c, channel)
  BY <1>4, <1>7, GrowsExtends
<1> QED
  BY <1>9, <1>14, <1>15, <1>16 DEF Confirms, v, c, changes, e

(* The views that a poll's events lead through. *)
Passing(v, d, m) ==
  \/ \E i \in 1..Len(d.left) : v = Having(SubSeq(d.left, 1, i), <<>>, meta)
  \/ \E i \in 1..Len(d.joined) : v = Having(d.left, SubSeq(d.joined, 1, i), meta)
  \/ v = Having(d.left, d.joined, m)

(* The views that a broadcast adds are those of its changes. *)
LEMMA NewViews ==
  ASSUME NEW c, ChannelOK(c), NEW changes \in Seq(Changes), NEW b, Grows(b, c, changes)
  PROVE  /\ \A k \in 1..b.seq : k \in 1..c.seq \/ \E i \in 1..Len(changes) : b.views[k] = changes[i].view
         /\ \A k \in 1..c.seq : b.views[k] = c.views[k]
         /\ c.seq <= b.seq
<1>1. c.seq \in Nat /\ Len(changes) \in Nat
  BY ChannelIs
<1>2. /\ b.seq = c.seq + Len(changes)
      /\ \A k \in 1..c.seq : b.views[k] = c.views[k]
      /\ \A k \in 1..Len(changes) : b.views[c.seq + k] = changes[k].view
  BY DEF Grows
<1>3. ASSUME NEW k \in 1..b.seq, k \notin 1..c.seq
      PROVE  \E i \in 1..Len(changes) : b.views[k] = changes[i].view
  <2>1. k - c.seq \in 1..Len(changes) /\ c.seq + (k - c.seq) = k
    BY <1>1, <1>2, <1>3
  <2>2. PICK i \in 1..Len(changes) : c.seq + i = k
    BY <2>1
  <2> QED
    BY <1>2, <2>2
<1> QED
  BY <1>1, <1>2, <1>3

(* The list that a poll leaves, from what it changed. *)
LEMMA HavingTheDifference ==
  ASSUME players \in Seq(Players), NEW new \in Seq(Players), NEW d, Difference(d, players, new), NEW m \in Metas
  PROVE  Having(d.left, d.joined, m) = ListView(d.kept \o d.joined, m)
<1>1. d.left \in Seq(Players) /\ d.joined \in Seq(Players) /\ d.kept \in Seq(Players)
  BY DEF Difference
<1> DEFINE v == Having(d.left, d.joined, m)
           w == ListView(d.kept \o d.joined, m)
           both == d.kept \o d.joined
<1>2. both \in Seq(Players) /\ \A n \in Names : CountOf(both, n) = CountOf(d.kept, n) + CountOf(d.joined, n)
  BY <1>1, CountJoin
<1> HIDE DEF both
<1>3. /\ v \in Views /\ v.meta = m
      /\ \A n \in Names : v.names[n] = CountOf(players, n) - CountOf(d.left, n) + CountOf(d.joined, n)
  BY <1>1, HavingIs
<1>4. /\ ListView(both, m) \in Views /\ ListView(both, m).meta = m
      /\ \A n \in Names : ListView(both, m).names[n] = CountOf(both, n)
  BY <1>2, ListViewIs, CountsAre DEF ListView
<1> HIDE DEF v
<1>5. ASSUME NEW n \in Names
      PROVE  v.names[n] = ListView(both, m).names[n]
  <2> DEFINE k == CountOf(d.kept, n)
             l == CountOf(d.left, n)
             j == CountOf(d.joined, n)
             p == CountOf(players, n)
  <2>1. k \in Nat /\ l \in Nat /\ j \in Nat /\ p \in Nat
    BY <1>1, CountsAre
  <2>2. k + l = p
    BY DEF Difference, Balanced
  <2>3. v.names[n] = p - l + j /\ ListView(both, m).names[n] = k + j
    BY <1>2, <1>3, <1>4
  <2> HIDE DEF k, l, j, p
  <2> QED
    BY <2>1, <2>2, <2>3
<1>6. v = ListView(both, m)
  BY <1>3, <1>4, <1>5, SameView
<1> QED
  BY <1>6 DEF v, both

(* The steps of a poll, one event per player, tell the list that apply *)
(* keeps.                                                              *)
LEMMA StepwiseTells ==
  ASSUME WatchTypeOK, Tells(channel, players, meta, waiting),
         NEW new \in Seq(Players), NEW d, Difference(d, players, new), NEW m \in Metas,
         NEW one, one = Broadcast(channel, Leaves(d.left)),
         NEW two, two = Broadcast(one, Joins(d.left, d.joined)),
         NEW three, three = Broadcast(two, MetaChange(d.left, d.joined, m)),
         NEW c, c = WithPoll(three)
  PROVE  /\ Tells(c, d.kept \o d.joined, m, waiting)
         /\ Extends(c, channel)
         /\ \A k \in 1..c.seq : k > channel.seq => Passing(c.views[k], d, m)
<1>1. /\ players \in Seq(Players) /\ meta \in Metas
      /\ d.left \in Seq(Players) /\ d.joined \in Seq(Players) /\ d.kept \in Seq(Players)
  BY DEF WatchTypeOK, Difference
<1>2. /\ ChannelOK(channel) /\ Ends(channel, ListView(players, meta))
      /\ SaidLast(channel.log, Len(channel.log), waiting)
  BY DEF Tells
<1>3. \A n \in Names : CountOf(d.left, n) <= CountOf(players, n)
  <2> SUFFICES ASSUME NEW n \in Names PROVE CountOf(d.left, n) <= CountOf(players, n)
    OBVIOUS
  <2>1. CountOf(d.left, n) \in Nat /\ CountOf(d.kept, n) \in Nat
    BY <1>1, CountsAre
  <2>2. CountOf(d.kept, n) + CountOf(d.left, n) = CountOf(players, n)
    BY DEF Difference, Balanced
  <2> DEFINE l == CountOf(d.left, n)
             k == CountOf(d.kept, n)
  <2>3. l \in Nat /\ k \in Nat /\ k + l = CountOf(players, n)
    BY <2>1, <2>2
  <2> HIDE DEF l, k
  <2>4. l <= CountOf(players, n)
    BY <2>3
  <2> QED
    BY <2>4 DEF l
<1> DEFINE left == d.left
           come == d.joined
           leaves == Leaves(left)
           joins == Joins(left, come)
           metas == MetaChange(left, come, m)
<1>4. /\ Sound(channel, leaves) /\ Mute(leaves) /\ Len(leaves) = Len(left)
      /\ \A i \in 1..Len(left) : leaves[i].view = Having(SubSeq(left, 1, i), <<>>, meta)
  BY <1>1, <1>2, <1>3, LeavesAreSound
<1>5. left \in Seq(Players) /\ come \in Seq(Players) /\ Len(left) \in Nat /\ Len(come) \in Nat
  BY <1>1
<1>6. ChannelOK(one) /\ Grows(one, channel, leaves)
  BY <1>2, <1>4, BroadcastKeeps DEF leaves
<1> HIDE DEF leaves
<1>7. leaves \in Seq(Changes)
  BY <1>4 DEF Sound
<1>8. Ends(one, Having(left, <<>>, meta))
  <2> HIDE DEF left
  <2>1. Len(left) = 0 \/ Len(left) \in 1..Len(left)
    BY <1>5
  <2>2. CASE Len(left) = 0
    <3>1. one.seq = channel.seq /\ one.views[one.seq] = channel.views[channel.seq]
      BY <1>2, <1>4, <1>6, <1>7, <2>2, EndsWith DEF Ends
    <3>2. left = <<>>
      BY <1>5, <2>2
    <3>3. ListView(players, meta) = Having(<<>>, <<>>, meta)
      <4>1. ListView(players, meta) \in Views /\ ListView(players, meta).meta = meta
        BY <1>1, ListViewIs DEF ListView
      <4>2. /\ Having(<<>>, <<>>, meta) \in Views /\ Having(<<>>, <<>>, meta).meta = meta
            /\ \A n \in Names : Having(<<>>, <<>>, meta).names[n] =
                 CountOf(players, n) - CountOf(<<>>, n) + CountOf(<<>>, n)
        <5> DEFINE none == <<>>
        <5>1. none \in Seq(Players)
          BY NobodyIsPlayers
        <5> HIDE DEF none
        <5>2. /\ Having(none, none, meta) \in Views /\ Having(none, none, meta).meta = meta
              /\ \A n \in Names : Having(none, none, meta).names[n] =
                   CountOf(players, n) - CountOf(none, n) + CountOf(none, n)
          BY <1>1, <5>1, HavingIs
        <5> QED
          BY <5>2 DEF none
      <4>3. \A n \in Names : ListView(players, meta).names[n] = CountOf(players, n)
        BY <1>1, CountsAre DEF ListView
      <4>4. \A n \in Names : CountOf(<<>>, n) = 0 /\ CountOf(players, n) \in Nat
        BY <1>1, CountsAre, NobodyCounts
      <4>5. \A n \in Names : ListView(players, meta).names[n] = Having(<<>>, <<>>, meta).names[n]
        BY <4>2, <4>3, <4>4
      <4> QED
        BY <4>1, <4>2, <4>5, SameView
    <3> QED
      BY <1>2, <3>1, <3>2, <3>3 DEF Ends
  <2>3. CASE Len(left) \in 1..Len(left)
    <3>1. Ends(one, leaves[Len(leaves)].view)
      <4>1. Len(leaves) > 0
        BY <1>4, <1>5, <2>3
      <4> QED
        BY <1>2, <1>6, <1>7, <4>1, EndsWith
    <3>2. leaves[Len(leaves)].view = Having(SubSeq(left, 1, Len(left)), <<>>, meta)
      BY <1>4, <2>3
    <3>3. SubSeq(left, 1, Len(left)) = left
      BY <1>5, AllOfThem
    <3> QED
      BY <3>1, <3>2, <3>3
  <2> QED
    BY <2>1, <2>2, <2>3
<1>9. /\ Sound(one, joins) /\ Mute(joins) /\ Len(joins) = Len(come)
      /\ \A i \in 1..Len(come) : joins[i].view = Having(left, SubSeq(come, 1, i), meta)
  <2> HIDE DEF left, come
  <2> QED
    BY <1>1, <1>5, <1>8, JoinsAreSound
<1>10. ChannelOK(two) /\ Grows(two, one, joins)
  BY <1>6, <1>9, BroadcastKeeps DEF joins
<1> HIDE DEF joins
<1>11. joins \in Seq(Changes)
  BY <1>9 DEF Sound
<1>12. Ends(two, Having(left, come, meta))
  <2> HIDE DEF left, come
  <2>1. Len(come) = 0 \/ Len(come) \in 1..Len(come)
    BY <1>5
  <2>2. CASE Len(come) = 0
    <3>1. two.seq = one.seq /\ two.views[two.seq] = one.views[one.seq]
      BY <1>6, <1>8, <1>9, <1>10, <1>11, <2>2, EndsWith DEF Ends
    <3>2. come = <<>>
      BY <1>5, <2>2
    <3> QED
      BY <1>8, <3>1, <3>2 DEF Ends
  <2>3. CASE Len(come) \in 1..Len(come)
    <3>1. Ends(two, joins[Len(joins)].view)
      <4>1. Len(joins) > 0
        BY <1>5, <1>9, <2>3
      <4> QED
        BY <1>6, <1>10, <1>11, <4>1, EndsWith
    <3>2. joins[Len(joins)].view = Having(left, SubSeq(come, 1, Len(come)), meta)
      BY <1>9, <2>3
    <3>3. SubSeq(come, 1, Len(come)) = come
      BY <1>5, AllOfThem
    <3> QED
      BY <3>1, <3>2, <3>3
  <2> QED
    BY <2>1, <2>2, <2>3
<1>13. /\ Sound(two, metas) /\ Mute(metas)
       /\ m = meta => metas = <<>>
       /\ m # meta => Len(metas) = 1 /\ metas[1].view = Having(left, come, m)
  <2> HIDE DEF left, come
  <2> QED
    BY <1>1, <1>5, <1>12, MetaIsSound
<1>14. ChannelOK(three) /\ Grows(three, two, metas)
  BY <1>10, <1>13, BroadcastKeeps DEF metas
<1> HIDE DEF metas
<1>15. metas \in Seq(Changes)
  BY <1>13 DEF Sound
<1>16. Ends(three, Having(left, come, m))
  <2> HIDE DEF left, come
  <2>1. CASE m = meta
    <3>1. three.seq = two.seq /\ three.views[three.seq] = two.views[two.seq]
      BY <1>10, <1>12, <1>13, <1>14, <1>15, <2>1, EndsWith DEF Ends
    <3> QED
      BY <1>12, <2>1, <3>1 DEF Ends
  <2>2. CASE m # meta
    <3>1. Ends(three, metas[Len(metas)].view)
      <4>1. Len(metas) > 0
        BY <1>13, <2>2
      <4> QED
        BY <1>10, <1>14, <1>15, <4>1, EndsWith
    <3> QED
      BY <1>13, <2>2, <3>1
  <2> QED
    BY <2>1, <2>2
<1>17. SaidLast(three.log, Len(three.log), waiting)
  <2>1. SaidLast(one.log, Len(one.log), waiting)
    BY <1>2, <1>4, <1>6, <1>7, SaidThroughBroadcast
  <2>2. SaidLast(two.log, Len(two.log), waiting)
    BY <1>6, <1>9, <1>10, <1>11, <2>1, SaidThroughBroadcast
  <2> QED
    BY <1>10, <1>13, <1>14, <1>15, <2>2, SaidThroughBroadcast
<1> DEFINE e == Bare("poll", three.seq)
<1>18. e \in Events /\ e.kind = "poll" /\ e.seq = three.seq
  <2> DEFINE k == three.seq
  <2>1. k \in Nat
    BY <1>14, ChannelIs
  <2> HIDE DEF k
  <2>2. Bare("poll", k) \in Events /\ Bare("poll", k).kind = "poll" /\ Bare("poll", k).seq = k
    BY <2>1, BareIs
  <2> QED
    BY <2>2 DEF k
<1>19. /\ ChannelOK(c) /\ c.seq = three.seq /\ c.views = three.views
       /\ c.log = Append(three.log, e)
  <2>1. Fits(e, three.views) /\ e.kind \notin NumberedKinds
    BY <1>16, <1>18 DEF Fits, Ends, NumberedKinds
  <2> HIDE DEF e
  <2>2. /\ ChannelOK(SendAsIs(three, e))
        /\ SendAsIs(three, e).seq = three.seq /\ SendAsIs(three, e).views = three.views
        /\ SendAsIs(three, e).log = Append(three.log, e)
    BY <1>14, <1>18, <2>1, SendKeeps
  <2> QED
    BY <2>2 DEF WithPoll, e
<1>20. SaidLast(c.log, Len(c.log), waiting)
  <2> DEFINE a == three.log
             b == c.log
  <2>1. a \in Seq(Events) /\ b = Append(a, e) /\ SaidLast(a, Len(a), waiting)
    BY <1>14, <1>17, <1>19, ChannelIs
  <2> HIDE DEF a, b, e
  <2>2. b \in Seq(Events) /\ Len(b) = Len(a) + 1 /\ Len(a) \in Nat
        /\ b[Len(a) + 1] = e /\ \A i \in 1..Len(a) : b[i] = a[i]
    BY <1>18, <2>1
  <2>3. \A i \in (Len(a) + 1)..Len(b) : b[i].kind \notin Saying
    <3>1. \A i \in (Len(a) + 1)..Len(b) : i = Len(a) + 1
      BY <2>2
    <3> QED
      BY <1>18, <2>2, <3>1 DEF Saying
  <2>4. Len(a) <= Len(b)
    BY <2>2
  <2>5. SaidLast(b, Len(b), waiting)
    BY <2>1, <2>2, <2>3, <2>4, SaidStill
  <2> QED
    BY <2>5 DEF b
<1>21. Ends(c, ListView(d.kept \o d.joined, m))
  <2>1. Having(left, come, m) = ListView(d.kept \o d.joined, m)
    BY <1>1, HavingTheDifference
  <2> QED
    BY <1>16, <1>19, <2>1 DEF Ends
<1>22. /\ channel.seq \in Nat /\ one.seq \in Nat /\ two.seq \in Nat /\ three.seq \in Nat
       /\ channel.seq <= one.seq /\ one.seq <= two.seq /\ two.seq <= three.seq
  BY <1>2, <1>6, <1>7, <1>10, <1>11, <1>14, <1>15, ChannelIs, NewViews
<1>23. ASSUME NEW k \in 1..c.seq, k > channel.seq
       PROVE  Passing(c.views[k], d, m)
  <2>0. k \in 1..three.seq /\ c.views[k] = three.views[k]
    BY <1>19
  <2>1. k \in 1..two.seq \/ \E i \in 1..Len(metas) : three.views[k] = metas[i].view
    BY <1>10, <1>14, <1>15, <2>0, NewViews
  <2>2. CASE \E i \in 1..Len(metas) : three.views[k] = metas[i].view
    <3>1. m # meta /\ three.views[k] = Having(left, come, m)
      BY <1>13, <2>2
    <3> QED
      BY <2>0, <3>1 DEF Passing
  <2>3. CASE k \in 1..two.seq
    <3>0. three.views[k] = two.views[k]
      BY <1>10, <1>14, <1>15, <2>3, NewViews
    <3>1. k \in 1..one.seq \/ \E i \in 1..Len(joins) : two.views[k] = joins[i].view
      BY <1>6, <1>10, <1>11, <2>3, NewViews
    <3>2. CASE \E i \in 1..Len(joins) : two.views[k] = joins[i].view
      <4>1. \E i \in 1..Len(come) : two.views[k] = Having(left, SubSeq(come, 1, i), meta)
        BY <1>9, <3>2
      <4> QED
        BY <2>0, <3>0, <4>1 DEF Passing
    <3>3. CASE k \in 1..one.seq
      <4>0. two.views[k] = one.views[k]
        BY <1>6, <1>10, <1>11, <3>3, NewViews
      <4>1. k \in 1..channel.seq \/ \E i \in 1..Len(leaves) : one.views[k] = leaves[i].view
        BY <1>2, <1>6, <1>7, <3>3, NewViews
      <4>2. k \notin 1..channel.seq
        BY <1>22, <1>23
      <4>3. \E i \in 1..Len(left) : one.views[k] = Having(SubSeq(left, 1, i), <<>>, meta)
        BY <1>4, <4>1, <4>2
      <4> QED
        BY <2>0, <3>0, <4>0, <4>3 DEF Passing
    <3> QED
      BY <3>1, <3>2, <3>3
  <2> QED
    BY <2>1, <2>2, <2>3
<1>24. Extends(c, channel)
  <2>1. Extends(one, channel) /\ Extends(two, one) /\ Extends(three, two)
    BY <1>2, <1>6, <1>7, <1>10, <1>11, <1>14, <1>15, GrowsExtends
  <2>2. Extends(two, channel)
    BY <1>2, <1>6, <1>10, <2>1, ExtendsFurther
  <2>3. Extends(three, channel)
    BY <1>2, <1>10, <1>14, <2>1, <2>2, ExtendsFurther
  <2>4. Extends(c, three)
    <3> DEFINE a == three.log
               b == c.log
    <3>1. a \in Seq(Events) /\ three.seq \in Nat
      BY <1>14, ChannelIs
    <3>2. b = Append(a, e) /\ c.seq = three.seq /\ c.views = three.views
      BY <1>19
    <3> HIDE DEF a, b, e
    <3>3. Len(a) <= Len(b) /\ \A i \in 1..Len(a) : b[i] = a[i]
      BY <3>1, <3>2
    <3> QED
      BY <3>1, <3>2, <3>3 DEF Extends, a, b
  <2> QED
    BY <1>2, <1>14, <1>19, <2>3, <2>4, ExtendsFurther
<1> QED
  BY <1>19, <1>20, <1>21, <1>23, <1>24 DEF Tells

-----------------------------------------------------------------------------
(* The steps of the watch *)

(* What a poll or an outage makes of the meta is one. *)
LEMMA NextMetas ==
  ASSUME WatchAssumption
  PROVE  /\ \A i \in Infos : i \in InfoTypes /\ MetaOf(i) \in Metas /\ i # None
         /\ \A m \in Metas : [m EXCEPT !.online = FALSE, !.players = 0] \in Metas
         /\ NoMeta \in Metas
<1>1. ASSUME NEW i \in Infos
      PROVE  i \in InfoTypes /\ MetaOf(i) \in Metas /\ i # None
  <2>1. i \in InfoTypes /\ i # None
    BY DEF WatchAssumption
  <2> QED
    BY <2>1 DEF InfoTypes, MetaOf, Metas
<1>2. NoMeta \in Metas
  BY DEF NoMeta, Metas
<1>3. \A m \in Metas : [m EXCEPT !.online = FALSE, !.players = 0] \in Metas
  BY DEF Metas
<1> QED
  BY <1>1, <1>2, <1>3

(* What a poll that is applied leaves. *)
Applied(d, m, list) ==
  /\ meta' = m /\ ready'
  /\ Tells(channel', players', meta', waiting)
  /\ Extends(channel', channel)
  /\ \/ /\ players' = list
        /\ \A k \in 1..channel'.seq : k > channel.seq => channel'.views[k] = ListView(list, m)
     \/ /\ players' = d.kept \o d.joined
        /\ \A k \in 1..channel'.seq : k > channel.seq => Passing(channel'.views[k], d, m)

(* A snapshot of the list just polled. *)
LEMMA ResnapshotApplies ==
  ASSUME WatchInv, NEW list \in Seq(Players), NEW m \in Metas, Resnapshot(list, m), NEW d
  PROVE  Applied(d, m, list)
<1>1. waiting \in WaitingLists /\ ChannelOK(channel) /\ channel.seq \in Nat
  BY ChannelIs DEF WatchInv, WatchTypeOK
<1>2. Confirms(Broadcast(channel, <<Change(SnapshotOf(list, m, 0), ListView(list, m))>>), list, m)
  BY <1>1, SnapshotTells
<1>3. players' = list /\ meta' = m /\ ready'
  BY DEF Resnapshot
<1>4. Confirms(channel', list, m)
  BY <1>2 DEF Resnapshot
<1>5. /\ Tells(channel', list, m, waiting) /\ Extends(channel', channel)
      /\ \A k \in 1..channel'.seq : k > channel.seq => channel'.views[k] = ListView(list, m)
  BY <1>4 DEF Confirms
<1>6. Tells(channel', players', meta', waiting)
  BY <1>3, <1>5
<1> QED
  BY <1>3, <1>5, <1>6 DEF Applied

(* The difference, sent step by step or as a snapshot (WatchState::apply). *)
LEMMA DiffApplies ==
  ASSUME WatchInv, NEW list \in Seq(Players), NEW m \in Metas,
         NEW d, Difference(d, players, list), ApplyDiff(d, m, list)
  PROVE  Applied(d, m, list)
<1>1. CASE Resnapshot(list, m)
  BY <1>1, ResnapshotApplies
<1>2. CASE ready /\ Stepwise(d, m, d.kept \o d.joined)
  <2>1. Tells(channel, players, meta, waiting) /\ WatchTypeOK
    BY <1>2 DEF WatchInv, Tells, Ends
  <2> DEFINE one == Broadcast(channel, Leaves(d.left))
             two == Broadcast(one, Joins(d.left, d.joined))
             three == Broadcast(two, MetaChange(d.left, d.joined, m))
             c == WithPoll(three)
  <2>2. channel' = c /\ players' = d.kept \o d.joined /\ meta' = m /\ ready'
    BY <1>2 DEF Stepwise
  <2>3. /\ one = Broadcast(channel, Leaves(d.left)) /\ two = Broadcast(one, Joins(d.left, d.joined))
        /\ three = Broadcast(two, MetaChange(d.left, d.joined, m)) /\ c = WithPoll(three)
    OBVIOUS
  <2> HIDE DEF one, two, three, c
  <2>4. /\ Tells(c, d.kept \o d.joined, m, waiting)
        /\ Extends(c, channel)
        /\ \A k \in 1..c.seq : k > channel.seq => Passing(c.views[k], d, m)
    BY <2>1, <2>3, StepwiseTells
  <2> QED
    BY <2>2, <2>4 DEF Applied
<1> QED
  BY <1>1, <1>2 DEF ApplyDiff

(* apply, of whatever list and counts the poll found. *)
LEMMA PollApplies ==
  ASSUME WatchInv, NEW list \in Seq(Players), NEW m \in Metas, ApplyPoll(m, list)
  PROVE  Applied(Diff(players, list), m, list)
<1> DEFINE d == Diff(players, list)
<1>1. players \in Seq(Players)
  BY DEF WatchInv, WatchTypeOK
<1>2. Difference(d, players, list) /\ ApplyDiff(d, m, list)
  BY <1>1, DiffBalances DEF ApplyPoll
<1> HIDE DEF d
<1>3. Applied(d, m, list)
  BY <1>2, DiffApplies
<1> QED
  BY <1>3 DEF d

(* What the watch is left with, when a poll was applied or it went offline. *)
LEMMA AppliedKeeps ==
  ASSUME WatchInv, NEW list \in Seq(Players), NEW m \in Metas,
         NEW d, Difference(d, players, list), Applied(d, m, list),
         UNCHANGED waiting, failures' \in 0..OfflineAfter, lastInfo' \in Infos \union {None}
  PROVE  WatchInv'
<1>1. /\ ChannelOK(channel') /\ Ends(channel', ListView(players', meta'))
      /\ SaidLast(channel'.log, Len(channel'.log), waiting')
  BY DEF Applied, Tells
<1>2. d.kept \o d.joined \in Seq(Players)
  <2>1. d.kept \in Seq(Players) /\ d.joined \in Seq(Players)
    BY DEF Difference
  <2> QED
    BY <2>1, ConcatIs
<1>3. players' \in Seq(Players) /\ meta' \in Metas /\ ready'
  BY <1>2 DEF Applied
<1>4. channel'.seq \in Nat
  BY <1>1, ChannelIs
<1>5. WatchTypeOK'
  BY <1>3, <1>4 DEF WatchTypeOK, WatchInv, Applied
<1> QED
  BY <1>1, <1>3, <1>5 DEF WatchInv, Ends, ListView

(* A poll that was answered applies a list and counts, of an answer just got *)
(* or the one kept.                                                          *)
LEMMA PollIs ==
  ASSUME WatchAssumption, WatchInv,
         NEW list \in Rosters \union {None}, NEW info \in Infos \union {None}, NEW fresh \in BOOLEAN,
         PollAnswered(list, info, fresh)
  PROVE  /\ \E said \in Seq(Players), m \in Metas : ApplyPoll(m, said)
         /\ failures' = 0 /\ lastInfo' \in Infos /\ UNCHANGED waiting
<1> DEFINE current == IF NeedsInfo(list, fresh) THEN info ELSE lastInfo
           said == IF list = None THEN <<>> ELSE list
<1>1. /\ current # None /\ ApplyPoll(MetaOf(current), said)
      /\ failures' = 0 /\ lastInfo' = current /\ UNCHANGED waiting
  BY DEF PollAnswered
<1>2. lastInfo \in Infos \union {None}
  BY DEF WatchInv, WatchTypeOK
<1>3. current \in Infos
  BY <1>1, <1>2
<1>4. MetaOf(current) \in Metas
  BY <1>3, NextMetas
<1>5. said \in Seq(Players)
  BY NobodyIsPlayers DEF WatchAssumption
<1> HIDE DEF current, said
<1> QED
  BY <1>1, <1>3, <1>4, <1>5

(* An answered poll keeps the invariant. *)
LEMMA PollKeeps ==
  ASSUME WatchAssumption, WatchInv,
         NEW list \in Rosters \union {None}, NEW info \in Infos \union {None}, NEW fresh \in BOOLEAN,
         PollAnswered(list, info, fresh)
  PROVE  WatchInv'
<1>1. /\ \E said \in Seq(Players), m \in Metas : ApplyPoll(m, said)
      /\ failures' = 0 /\ lastInfo' \in Infos /\ UNCHANGED waiting
  BY PollIs
<1>2. PICK said \in Seq(Players), m \in Metas : ApplyPoll(m, said)
  BY <1>1
<1> DEFINE d == Diff(players, said)
<1>3. players \in Seq(Players) /\ failures' \in 0..OfflineAfter
  BY <1>1 DEF WatchInv, WatchTypeOK, WatchAssumption
<1>4. Difference(d, players, said)
  BY <1>3, DiffBalances
<1>5. Applied(d, m, said)
  BY <1>2, PollApplies
<1> HIDE DEF d
<1> QED
  BY <1>1, <1>3, <1>4, <1>5, AppliedKeeps

(* So does one that failed, the last before the server counts as offline *)
(* included.                                                             *)
LEMMA FailureKeeps ==
  ASSUME WatchAssumption, WatchInv, PollFailed
  PROVE  WatchInv'
<1>1. OfflineAfter \in Nat \ {0} /\ failures \in 0..OfflineAfter /\ players \in Seq(Players) /\ meta \in Metas
  BY DEF WatchAssumption, WatchInv, WatchTypeOK
<1>2. CASE UNCHANGED <<players, meta, ready, channel, waiting>> /\ failures' \in 0..OfflineAfter
           /\ lastInfo' \in Infos \union {None}
  BY <1>2 DEF WatchInv, WatchTypeOK, ListView
<1> DEFINE m == [meta EXCEPT !.online = FALSE, !.players = 0]
           list == <<>>
<1>3. CASE Resnapshot(list, m) /\ UNCHANGED waiting /\ failures' \in 0..OfflineAfter
           /\ lastInfo' \in Infos \union {None}
  <2>1. m \in Metas /\ list \in Seq(Players)
    BY <1>1, NextMetas, NobodyIsPlayers
  <2> HIDE DEF m, list
  <2> DEFINE d == Diff(players, list)
  <2>2. Difference(d, players, list)
    BY <1>1, <2>1, DiffBalances
  <2> HIDE DEF d
  <2>3. Applied(d, m, list)
    BY <1>3, <2>1, ResnapshotApplies
  <2> QED
    BY <1>3, <2>1, <2>2, <2>3, AppliedKeeps
<1>4. CASE failures + 1 >= OfflineAfter
  <2>1. failures' = OfflineAfter /\ lastInfo' = None /\ UNCHANGED waiting /\ MarkOffline
    BY <1>4 DEF PollFailed
  <2>2. OfflineAfter \in 0..OfflineAfter
    BY <1>1
  <2>3. UNCHANGED <<players, meta, ready, channel>> \/ Resnapshot(list, m)
    BY <2>1 DEF MarkOffline
  <2> QED
    BY <1>2, <1>3, <2>1, <2>2, <2>3
<1>5. CASE ~(failures + 1 >= OfflineAfter)
  <2>1. failures' = failures + 1 /\ UNCHANGED <<players, meta, ready, channel, lastInfo, waiting>>
    BY <1>5 DEF PollFailed
  <2>2. failures + 1 \in 0..OfflineAfter
    BY <1>1, <1>5
  <2> QED
    BY <1>2, <2>1, <2>2 DEF WatchInv, WatchTypeOK
<1> QED
  BY <1>4, <1>5

(* So does a new waiting list. *)
LEMMA WaitingKeeps ==
  ASSUME WatchInv, NEW w \in WaitingLists, ChangeWaiting(w)
  PROVE  WatchInv'
<1> DEFINE n == channel.seq
           e == [Bare("waiting", n) EXCEPT !.waiting = w]
           a == channel.log
           b == channel'.log
<1>1. ChannelOK(channel) /\ n \in Nat /\ a \in Seq(Events)
  BY ChannelIs DEF WatchInv
<1> HIDE DEF n
<1>2. e \in Events /\ e.kind = "waiting" /\ e.seq = n /\ e.waiting = w
  BY <1>1, BareIs DEF NumberedKinds
<1>3. channel' = SendAsIs(channel, e) /\ waiting' = w /\ UNCHANGED <<players, meta, ready, failures, lastInfo>>
  BY DEF ChangeWaiting, n
<1> HIDE DEF e
<1>4. Fits(e, channel.views) /\ e.kind \notin NumberedKinds /\ e.seq = channel.seq
  BY <1>2 DEF Fits, NumberedKinds, n
<1>5. /\ ChannelOK(channel') /\ channel'.seq = channel.seq /\ channel'.views = channel.views
      /\ b = Append(a, e)
  BY <1>1, <1>2, <1>3, <1>4, SendKeeps
<1> HIDE DEF a, b
<1>6. SaidLast(b, Len(b), w)
  <2>1. Len(b) \in 1..Len(b) /\ b[Len(b)] = e /\ \A j \in (Len(b) + 1)..Len(b) : FALSE
    BY <1>1, <1>2, <1>5
  <2>2. e.kind \in Saying
    BY <1>2 DEF Saying
  <2> QED
    BY <1>2, <2>1, <2>2 DEF SaidLast
<1>7. WatchTypeOK'
  BY <1>3, <1>5 DEF WatchInv, WatchTypeOK
<1> QED
  BY <1>3, <1>5, <1>6, <1>7 DEF WatchInv, ListView, b

(* A fresh watch satisfies it. *)
LEMMA WatchStarts ==
  ASSUME WatchAssumption, WatchInit
  PROVE  WatchInv
<1>1. WatchTypeOK
  <2>1. /\ players = <<>> /\ meta = NoMeta /\ ready = FALSE /\ waiting = EmptyWaiting
        /\ channel.seq = 0 /\ failures = 0 /\ lastInfo = None
    BY DEF WatchInit
  <2>2. 0 \in 0..OfflineAfter /\ EmptyWaiting \in WaitingLists
    BY DEF WatchAssumption
  <2>3. meta \in Metas /\ players \in Seq(Players)
    BY <2>1, NextMetas, NobodyIsPlayers
  <2>4. ready \in BOOLEAN
    BY <2>1
  <2>5. waiting \in WaitingLists /\ channel.seq \in Nat /\ failures \in 0..OfflineAfter
        /\ lastInfo \in Infos \union {None}
    BY <2>1, <2>2
  <2> QED
    BY <2>3, <2>4, <2>5 DEF WatchTypeOK
<1>2. ChannelOK([seq |-> 0, log |-> <<>>, views |-> <<>>])
  BY DEF ChannelOK, SeqAt, EntryOK
<1> QED
  BY <1>1, <1>2 DEF WatchInit, WatchInv

(* Every step of the watch keeps it. *)
LEMMA WatchKeeps ==
  ASSUME WatchAssumption, WatchInv, [WatchNext]_watchVars
  PROVE  WatchInv'
<1>1. CASE UNCHANGED watchVars
  BY <1>1 DEF watchVars, WatchInv, WatchTypeOK, ListView
<1>2. CASE WatchNext
  BY <1>2, PollKeeps, FailureKeeps, WaitingKeeps DEF WatchNext
<1> QED
  BY <1>1, <1>2

(* The numbers of a feed's log count the numbered events. *)
LEMMA NumbersCount ==
  ASSUME NEW c, ChannelOK(c)
  PROVE  \A i \in DOMAIN c.log : c.log[i].seq = Cardinality({j \in 1..i : c.log[j].kind \in NumberedKinds})
<1> DEFINE log == c.log
           numbered(i) == {j \in 1..i : log[j].kind \in NumberedKinds}
           holds == {i \in 0..Len(log) : SeqAt(log, i) = Cardinality(numbered(i))}
<1>1. log \in Seq(Events) /\ \A i \in 1..Len(log) : log[i].seq = SeqAt(log, i - 1) + Bump(log[i])
  BY ChannelIs DEF ChannelOK, EntryOK
<1> HIDE DEF log
<1>2. Len(log) \in Nat /\ DOMAIN log = 1..Len(log)
  BY <1>1
<1>3. 0 \in holds
  <2>1. numbered(0) = {}
    OBVIOUS
  <2> QED
    BY <1>2, <2>1, FS_EmptySet DEF SeqAt
<1>4. ASSUME NEW i \in 1..Len(log), i - 1 \in holds
      PROVE  i \in holds
  <2>1. i \in Nat /\ i - 1 \in Nat /\ i # 0 /\ i \in 0..Len(log)
    BY <1>2
  <2>2. IsFiniteSet(numbered(i - 1)) /\ Cardinality(numbered(i - 1)) \in Nat
    <3>1. numbered(i - 1) \in SUBSET (1..(i - 1))
      OBVIOUS
    <3> HIDE DEF numbered
    <3> QED
      BY <2>1, <3>1, PlacesFinite
  <2>3. SeqAt(log, i) = Cardinality(numbered(i - 1)) + Bump(log[i])
    BY <1>1, <1>4, <2>1 DEF SeqAt
  <2>4. CASE log[i].kind \in NumberedKinds
    <3>1. numbered(i) = numbered(i - 1) \union {i} /\ i \notin numbered(i - 1)
      BY <2>1, <2>4
    <3> HIDE DEF numbered
    <3>2. Cardinality(numbered(i)) = Cardinality(numbered(i - 1)) + 1
      BY <2>2, <3>1, FS_AddElement
    <3> QED
      BY <2>1, <2>3, <2>4, <3>2 DEF Bump
  <2>5. CASE log[i].kind \notin NumberedKinds
    <3>1. numbered(i) = numbered(i - 1)
      BY <2>1, <2>5
    <3> HIDE DEF numbered
    <3> QED
      BY <2>1, <2>2, <2>3, <2>5, <3>1 DEF Bump
  <2> QED
    BY <2>4, <2>5
<1>5. \A i \in 0..Len(log) : i \in holds
  <2> HIDE DEF holds
  <2> QED
    BY <1>2, <1>3, <1>4, Climb
<1>6. ASSUME NEW i \in DOMAIN log
      PROVE  log[i].seq = Cardinality(numbered(i))
  <2>1. i \in 0..Len(log) /\ i # 0
    BY <1>2
  <2> QED
    BY <1>5, <2>1 DEF SeqAt
<1> QED
  BY <1>6 DEF log

(* The feed of a watch is sound: numbers go up by one with each numbered     *)
(* event and by none with the others, every event leads from the list after  *)
(* the number before to the list after its own, and the last list is the one *)
(* that a snapshot would show now (broadcast, apply, mark_offline and        *)
(* snapshot_of, slot_watch.rs).                                              *)
THEOREM WatchInvariant ==
  ASSUME WatchAssumption
  PROVE  WatchSpec => []WatchInv
<1>1. WatchInit => WatchInv
  BY WatchStarts
<1>2. WatchInv /\ [WatchNext]_watchVars => WatchInv'
  BY WatchKeeps
<1> QED
  BY <1>1, <1>2, PTL DEF WatchSpec

(* The state of a watch keeps its types, the failure count its bound: it *)
(* stops at OFFLINE_AFTER (poll_loop, slot_watch.rs).                    *)
THEOREM WatchTypes ==
  ASSUME WatchAssumption
  PROVE  WatchSpec => []WatchTypeOK
<1>1. WatchInv => WatchTypeOK
  BY DEF WatchInv
<1> QED
  BY <1>1, WatchInvariant, PTL

(* The feed tells the list: its number counts the numbered events, and the *)
(* list after the last of them is the watch's own, however polls, outages  *)
(* and changes of the waiting list follow each other (slot_watch.rs,       *)
(* broadcast and apply). Nothing is assumed of the rosters or the counts   *)
(* that a server answers with, nor of how long the feed runs.              *)
THEOREM EventsTellTheList ==
  ASSUME WatchAssumption
  PROVE  WatchSpec => []FeedTellsTheList
<1>1. WatchInv => FeedTellsTheList
  BY NumbersCount DEF WatchInv, FeedTellsTheList, ChannelOK
<1> QED
  BY <1>1, WatchInvariant, PTL

-----------------------------------------------------------------------------
(* Who stays is counted throughout *)

StayersStep ==
  \A i \in DOMAIN channel'.views : i > channel.seq /\ meta.online /\ meta'.online =>
    \A n \in Names :
      /\ Cardinality(Carriers(players, n)) = 1 /\ Cardinality(Carriers(players', n)) = 1
      /\ \E p \in DOMAIN players, q \in DOMAIN players' :
           players[p] = players'[q] /\ players[p].name = n
      => channel'.views[i].names[n] > 0

(* A name that counts once stands at one place. *)
LEMMA OneCarrier ==
  ASSUME NEW list \in Seq(Players), NEW n, CountOf(list, n) = 1
  PROVE  \A p, q \in DOMAIN list : list[p].name = n /\ list[q].name = n => p = q
<1>1. IsFiniteSet(Carriers(list, n)) /\ Cardinality(Carriers(list, n)) = 1
  BY CarriersAre DEF CountOf
<1>2. PICK x : Carriers(list, n) = {x}
  BY <1>1, FS_Singleton
<1> QED
  BY <1>2 DEF Carriers

(* Who stays under a name that is theirs alone is not among those who left. *)
LEMMA StayersAreKept ==
  ASSUME NEW old \in Seq(Players), NEW new \in Seq(Players), NEW n \in Names,
         NEW d, d = Diff(old, new),
         CountOf(old, n) = 1, CountOf(d.kept \o d.joined, n) = 1,
         NEW p \in DOMAIN old, NEW q \in DOMAIN (d.kept \o d.joined),
         old[p] = (d.kept \o d.joined)[q], old[p].name = n
  PROVE  CountOf(d.left, n) = 0
<1> SUFFICES ASSUME CountOf(d.left, n) # 0
             PROVE  FALSE
  OBVIOUS
<1>1. Difference(d, old, new)
  BY DiffBalances
<1> DEFINE kept == d.kept
           joined == d.joined
           both == kept \o joined
           k == CountOf(kept, n)
           l == CountOf(d.left, n)
           j == CountOf(joined, n)
<1>2. kept \in Seq(Players) /\ joined \in Seq(Players) /\ d.left \in Seq(Players)
  BY <1>1 DEF Difference
<1>3. k \in Nat /\ l \in Nat /\ j \in Nat
  BY <1>2, CarriersAre
<1>4. k + l = 1 /\ k + j = CountOf(new, n)
  BY <1>1 DEF Difference, Balanced
<1>5. k + j = 1
  BY <1>2, CountJoin
<1>6. l # 0
  OBVIOUS
<1>7. ToldApart(d, old, n)
  BY <1>4, <1>5, DiffIsApart
<1>8. q \in DOMAIN both /\ both[q].name = n /\ old[p] = both[q]
  OBVIOUS
<1> HIDE DEF l, j
<1>9. k = 0
  BY <1>3, <1>4, <1>6
<1>10. \A i \in DOMAIN kept : kept[i].name # n
  <2> HIDE DEF kept
  <2> QED
    BY <1>2, <1>9, NoCarrier
<1> HIDE DEF kept, joined, k
<1>11. PICK i \in DOMAIN joined : both[q] = joined[i]
  <2>1. CASE q <= Len(kept)
    <3>1. q \in DOMAIN kept /\ both[q] = kept[q]
      BY <1>2, <1>8, <2>1
    <3> QED
      BY <1>8, <1>10, <3>1
  <2>2. CASE ~(q <= Len(kept))
    <3>1. q - Len(kept) \in DOMAIN joined /\ both[q] = joined[q - Len(kept)]
      BY <1>2, <1>8, <2>2
    <3> QED
      BY <3>1
  <2> QED
    BY <2>1, <2>2
<1> HIDE DEF both
<1>12. p \in Carriers(old, n)
  BY DEF Carriers
<1>13. Gap(old[p], joined[i]) > Drift
  BY <1>7, <1>8, <1>11, <1>12 DEF ToldApart, joined
<1>14. Gap(old[p], old[p]) > Drift
  BY <1>8, <1>11, <1>13
<1>15. Gap(old[p], old[p]) = 0
  <2>1. old[p].since \in Int
    <3>1. old[p] \in Players
      BY ElementsAre
    <3> QED
      BY <3>1 DEF Players
  <2> QED
    BY <2>1, GapIsNatural
<1> QED
  BY <1>14, <1>15, DiffAssumption

(* They are on every list on the way. *)
LEMMA StayersArePassed ==
  ASSUME players \in Seq(Players), meta \in Metas, NEW n \in Names, NEW m \in Metas,
         NEW d, d.left \in Seq(Players), d.joined \in Seq(Players),
         CountOf(players, n) = 1, CountOf(d.left, n) = 0, NEW v, Passing(v, d, m)
  PROVE  v.names[n] > 0
<1> DEFINE left == d.left
           come == d.joined
           empty == <<>>
<1>1. left \in Seq(Players) /\ come \in Seq(Players) /\ empty \in Seq(Players)
  BY NobodyIsPlayers
<1>2. CountOf(left, n) = 0 /\ CountOf(empty, n) = 0 /\ CountOf(come, n) \in Nat
  BY <1>1, NobodyCounts, CountsAre
<1>3. \A i \in 1..Len(left) : SubSeq(left, 1, i) \in Seq(Players) /\ CountOf(SubSeq(left, 1, i), n) <= CountOf(left, n)
  <2> HIDE DEF left
  <2> QED
    BY <1>1, FirstFew, FirstFewCount
<1>4. \A i \in 1..Len(come) : SubSeq(come, 1, i) \in Seq(Players)
  <2> HIDE DEF come
  <2> QED
    BY <1>1, FirstFew
<1> HIDE DEF left, come, empty
<1>5. \A a, b \in Seq(Players), o \in Metas : CountOf(a, n) = 0 => Having(a, b, o).names[n] > 0
  <2> SUFFICES ASSUME NEW a \in Seq(Players), NEW b \in Seq(Players), NEW o \in Metas, CountOf(a, n) = 0
               PROVE  Having(a, b, o).names[n] > 0
    OBVIOUS
  <2>1. Having(a, b, o).names[n] = CountOf(players, n) - CountOf(a, n) + CountOf(b, n)
    BY HavingIs
  <2>2. CountOf(b, n) \in Nat
    BY CountsAre
  <2> QED
    BY <2>1, <2>2
<1>6. \A i \in 1..Len(left) : CountOf(SubSeq(left, 1, i), n) = 0
  <2>1. \A i \in 1..Len(left) : CountOf(SubSeq(left, 1, i), n) \in Nat
    BY <1>3, CountsAre
  <2> QED
    BY <1>2, <1>3, <2>1
<1>7. CASE \E i \in 1..Len(left) : v = Having(SubSeq(left, 1, i), empty, meta)
  BY <1>1, <1>3, <1>5, <1>6, <1>7
<1>8. CASE \E i \in 1..Len(come) : v = Having(left, SubSeq(come, 1, i), meta)
  BY <1>1, <1>2, <1>4, <1>5, <1>8
<1>9. CASE v = Having(left, come, m)
  BY <1>1, <1>2, <1>5, <1>9
<1> QED
  BY <1>7, <1>8, <1>9 DEF Passing, left, come, empty

(* While a poll is applied, who stays is on every list in between. *)
LEMMA StayersThroughPoll ==
  ASSUME WatchInv, NEW list \in Seq(Players), NEW m \in Metas,
         NEW d, d = Diff(players, list), Applied(d, m, list)
  PROVE  StayersStep
<1>1. players \in Seq(Players) /\ meta \in Metas
  BY DEF WatchInv, WatchTypeOK
<1>2. Difference(d, players, list)
  BY <1>1, DiffBalances
<1>3. d.left \in Seq(Players) /\ d.joined \in Seq(Players) /\ d.kept \in Seq(Players)
  BY <1>2 DEF Difference
<1>4. DOMAIN channel'.views = 1..channel'.seq
  <2>1. ChannelOK(channel')
    BY DEF Applied, Tells
  <2> QED
    BY <2>1 DEF ChannelOK
<1> SUFFICES ASSUME NEW i \in 1..channel'.seq, i > channel.seq, NEW n \in Names,
                    CountOf(players, n) = 1, CountOf(players', n) = 1,
                    NEW p \in DOMAIN players, NEW q \in DOMAIN players',
                    players[p] = players'[q], players[p].name = n
             PROVE  channel'.views[i].names[n] > 0
  BY <1>4 DEF StayersStep, CountOf
<1>5. CASE players' = list /\ channel'.views[i] = ListView(list, m)
  <2>1. NameCount(list)[n] = CountOf(list, n)
    BY CountsAre
  <2> QED
    BY <1>5, <2>1 DEF ListView
<1>6. CASE players' = d.kept \o d.joined /\ Passing(channel'.views[i], d, m)
  <2>1. CountOf(d.left, n) = 0
    <3> DEFINE b == d.kept \o d.joined
    <3>1. CountOf(b, n) = 1 /\ q \in DOMAIN b /\ players[p] = b[q]
      BY <1>6
    <3> QED
      BY <1>1, <3>1, StayersAreKept
  <2> QED
    BY <1>1, <1>3, <1>6, <2>1, StayersArePassed
<1> QED
  BY <1>5, <1>6 DEF Applied

(* So is it with any step of the watch. *)
LEMMA StayersThroughStep ==
  ASSUME WatchAssumption, WatchInv, [WatchNext]_watchVars
  PROVE  StayersStep
<1>1. ChannelOK(channel) /\ players \in Seq(Players) /\ channel.seq \in Nat
  BY ChannelIs DEF WatchInv, WatchTypeOK
<1>2. CASE channel'.views = channel.views
  <2>1. \A i \in DOMAIN channel'.views : ~(i > channel.seq)
    BY <1>1, <1>2 DEF ChannelOK
  <2> QED
    BY <2>1 DEF StayersStep
<1>3. ASSUME NEW list \in Seq(Players), NEW m \in Metas, ApplyPoll(m, list)
      PROVE  StayersStep
  BY <1>3, PollApplies, StayersThroughPoll
<1>4. ASSUME NEW list \in Rosters \union {None}, NEW info \in Infos \union {None}, NEW fresh \in BOOLEAN,
             PollAnswered(list, info, fresh)
      PROVE  StayersStep
  <2>1. \E said \in Seq(Players), m \in Metas : ApplyPoll(m, said)
    BY <1>4, PollIs
  <2> QED
    BY <1>3, <2>1
<1>5. CASE PollFailed
  <2>1. UNCHANGED channel \/ ~meta'.online
    <3>1. meta \in Metas
      BY DEF WatchInv, WatchTypeOK
    <3>2. ~[meta EXCEPT !.online = FALSE, !.players = 0].online
      BY <3>1 DEF Metas
    <3>3. UNCHANGED channel \/ meta' = [meta EXCEPT !.online = FALSE, !.players = 0]
      BY <1>5 DEF PollFailed, MarkOffline, Resnapshot
    <3> QED
      BY <3>2, <3>3
  <2> QED
    BY <1>2, <2>1 DEF StayersStep
<1>6. ASSUME NEW w \in WaitingLists, ChangeWaiting(w)
      PROVE  StayersStep
  <2>1. channel'.views = channel.views
    <3>1. channel = [seq |-> channel.seq, log |-> channel.log, views |-> channel.views]
      BY <1>1 DEF ChannelOK
    <3> QED
      BY <1>6, <3>1 DEF ChangeWaiting, SendAsIs
  <2> QED
    BY <1>2, <2>1
<1>7. CASE UNCHANGED watchVars
  BY <1>2, <1>7 DEF watchVars
<1> QED
  BY <1>4, <1>5, <1>6, <1>7 DEF WatchNext

(* While one poll's leaves and joins go out, nobody who is on both lists, *)
(* alone with the name, is ever off the list in between (apply sends the  *)
(* leaves first, slot_watch.rs): a page that waits for a low count is not *)
(* fired by a player who never left.                                      *)
THEOREM StayersAreCounted ==
  ASSUME WatchAssumption
  PROVE  WatchSpec => StayersStayCounted
<1>1. WatchInv /\ [WatchNext]_watchVars => [StayersStep]_watchVars
  BY StayersThroughStep
<1>2. [][StayersStep]_watchVars <=> StayersStayCounted
  BY DEF StayersStep, StayersStayCounted
<1> QED
  BY <1>1, <1>2, WatchInvariant, PTL DEF WatchSpec

-----------------------------------------------------------------------------
(* What was sent stays sent *)

(* A feed extends itself. *)
LEMMA ExtendsItself ==
  ASSUME NEW c, ChannelOK(c)
  PROVE  Extends(c, c)
<1> DEFINE k == Len(c.log)
<1>1. c.seq \in Nat /\ c.log \in Seq(Events)
  BY ChannelIs
<1>2. k \in Nat /\ k <= k /\ c.seq <= c.seq
  BY <1>1
<1> HIDE DEF k
<1> QED
  BY <1>2 DEF Extends, k

(* Nothing that was sent is taken back. *)
LEMMA WatchExtends ==
  ASSUME WatchAssumption, WatchInv, [WatchNext]_watchVars
  PROVE  Extends(channel', channel)
<1>1. ChannelOK(channel) /\ players \in Seq(Players) /\ channel.seq \in Nat /\ channel.log \in Seq(Events)
  BY ChannelIs DEF WatchInv, WatchTypeOK
<1>2. CASE UNCHANGED channel
  BY <1>1, <1>2, ExtendsItself
<1>3. ASSUME NEW list \in Seq(Players), NEW m \in Metas, ApplyPoll(m, list)
      PROVE  Extends(channel', channel)
  <2>1. Applied(Diff(players, list), m, list)
    BY <1>3, PollApplies
  <2> QED
    BY <2>1 DEF Applied
<1>4. ASSUME NEW list \in Rosters \union {None}, NEW info \in Infos \union {None}, NEW fresh \in BOOLEAN,
             PollAnswered(list, info, fresh)
      PROVE  Extends(channel', channel)
  <2>1. \E said \in Seq(Players), m \in Metas : ApplyPoll(m, said)
    BY <1>4, PollIs
  <2> QED
    BY <1>3, <2>1
<1>5. CASE PollFailed
  <2> DEFINE m == [meta EXCEPT !.online = FALSE, !.players = 0]
             list == <<>>
  <2>1. UNCHANGED channel \/ Resnapshot(list, m)
    BY <1>5 DEF PollFailed, MarkOffline
  <2>2. m \in Metas /\ list \in Seq(Players)
    BY NextMetas, NobodyIsPlayers DEF WatchInv, WatchTypeOK
  <2> HIDE DEF m, list
  <2>3. CASE Resnapshot(list, m)
    <3>1. Applied(Diff(players, list), m, list)
      BY <2>2, <2>3, ResnapshotApplies
    <3> QED
      BY <3>1 DEF Applied
  <2> QED
    BY <1>2, <2>1, <2>3
<1>6. ASSUME NEW w \in WaitingLists, ChangeWaiting(w)
      PROVE  Extends(channel', channel)
  <2> DEFINE e == [Bare("waiting", channel.seq) EXCEPT !.waiting = w]
             a == channel.log
             b == channel'.log
  <2>1. channel' = [channel EXCEPT !.log = Append(@, e)]
    BY <1>6 DEF ChangeWaiting, SendAsIs
  <2>2. channel = [seq |-> channel.seq, log |-> a, views |-> channel.views]
    BY <1>1 DEF ChannelOK
  <2> HIDE DEF e
  <2>3. channel'.seq = channel.seq /\ channel'.views = channel.views /\ b = Append(a, e)
    BY <2>1, <2>2
  <2>4. a \in Seq(Events)
    BY <1>1
  <2> HIDE DEF a, b
  <2>5. Len(a) <= Len(b) /\ \A i \in 1..Len(a) : b[i] = a[i]
    BY <2>3, <2>4
  <2>6. channel.seq <= channel'.seq
    BY <1>1, <2>3
  <2> QED
    BY <2>3, <2>5, <2>6 DEF Extends, a, b
<1>7. CASE UNCHANGED watchVars
  BY <1>2, <1>7 DEF watchVars
<1> QED
  BY <1>4, <1>5, <1>6, <1>7 DEF WatchNext
=============================================================================
