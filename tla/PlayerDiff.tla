----------------------------- MODULE PlayerDiff -----------------------------
(***************************************************************************)
(* diff_players (src/src/core/slot_watch.rs): what changed between two     *)
(* player lists.  A player is a name and a connect time on the watch's     *)
(* clock.  Names are numbers in their alphabetical order, 0 being the empty *)
(* name of a player still connecting; times are whole units of which Drift *)
(* make DRIFT_MS.                                                          *)
(***************************************************************************)
EXTENDS Lists

CONSTANTS
  Names,   \* player names
  Drift    \* DRIFT_MS: a connect time that moved by more is another player's

ASSUME DiffAssumption == Names \subseteq Nat /\ IsFiniteSet(Names) /\ Drift \in Nat

Players == [name : Names, since : Int]

Gap(p, q) == IF p.since >= q.since THEN p.since - q.since ELSE q.since - p.since

Carriers(list, n) == {i \in DOMAIN list : list[i].name = n}
Named(list, n) == Entries(list, Carriers(list, n))

(* How many players carry each name. *)
NameCount(list) == [n \in Names |-> Cardinality(Carriers(list, n))]

(* Mutant of Nearest: any unpaired entry will do. *)
FirstFree(long, free, p) == Nth(free, 1)

(* The unpaired entry of the longer side nearest to p, the first of equals. *)
Nearest(long, free, p) ==
  CHOOSE i \in free : \A j \in free :
    Gap(long[i], p) < Gap(long[j], p) \/ (Gap(long[i], p) = Gap(long[j], p) /\ i <= j)

(* What is free of the longer side once so many of the shorter are paired: *)
(* each, in turn, takes the nearest that is left.                           *)
Free(short, long) ==
  LET free[k \in 0..Len(short)] ==
        IF k = 0 THEN DOMAIN long
        ELSE LET left == free[k - 1] IN left \ {Nearest(long, left, short[k])}
  IN  free

PairUp(short, long) ==
  LET free == Free(short, long)
  IN  [free  |-> free[Len(short)],
       pairs |-> [k \in 1..Len(short) |-> <<short[k], long[Nearest(long, free[k - 1], short[k])]>>]]

(* The players with one name: each old one with its new self, the rest apart. *)
Grown(matched, news) ==
  [pairs |-> matched.pairs, gone |-> <<>>, new |-> Entries(news, matched.free)]

Shrunk(matched, olds) ==
  [pairs |-> [i \in DOMAIN matched.pairs |-> <<matched.pairs[i][2], matched.pairs[i][1]>>],
   gone  |-> Entries(olds, matched.free), new |-> <<>>]

(* Mutant of MatchUp: nobody is known again, all leave and join. *)
Strangers(olds, news) == [pairs |-> <<>>, gone |-> olds, new |-> news]

MatchUp(olds, news) ==
  IF Len(olds) <= Len(news) THEN Grown(PairUp(olds, news), news)
                            ELSE Shrunk(PairUp(news, olds), olds)

(* Pairs whose times are too far apart: one player left and another joined. *)
Parted(pairs) == Entries(pairs, {k \in DOMAIN pairs : Gap(pairs[k][1], pairs[k][2]) > Drift})

Near(pairs) == Entries(pairs, {k \in DOMAIN pairs : Gap(pairs[k][1], pairs[k][2]) <= Drift})

(* Mutant of Kept: a player that stays gets the time just polled. *)
KeptAsPolled(pairs) == LET near == Near(pairs) IN [i \in DOMAIN near |-> near[i][2]]

(* The players that stay, with the times already known for them. *)
Kept(pairs) == LET near == Near(pairs) IN [i \in DOMAIN near |-> near[i][1]]

(* One name's part of the difference. *)
Part(matched, apart) ==
  [left   |-> [i \in DOMAIN apart |-> apart[i][1]] \o matched.gone,
   joined |-> [i \in DOMAIN apart |-> apart[i][2]] \o matched.new,
   kept   |-> Kept(matched.pairs),
   moved  |-> Len(apart),
   pairs  |-> Len(matched.pairs)]

PartOf(matched) == Part(matched, Parted(matched.pairs))

Joined(acc, d) ==
  [left   |-> acc.left \o d.left,
   joined |-> acc.joined \o d.joined,
   kept   |-> acc.kept \o d.kept,
   moved  |-> acc.moved + d.moved,
   pairs  |-> acc.pairs + d.pairs]

Nothing == [left |-> <<>>, joined |-> <<>>, kept |-> <<>>, moved |-> 0, pairs |-> 0]

(* Most players moved at once: the server's clock did, not the players. *)
Judged(d) ==
  [left |-> d.left, joined |-> d.joined, kept |-> d.kept,
   drifted |-> d.moved > 1 /\ 2 * d.moved > d.pairs]

(* One name after another, in their order. *)
UpTo(old, new) ==
  LET upTo[k \in 0..Cardinality(Names)] ==
        IF k = 0 THEN Nothing
        ELSE LET n == Nth(Names, k)
             IN  Joined(upTo[k - 1], PartOf(MatchUp(Named(old, n), Named(new, n))))
  IN  upTo

(* The whole difference, ordered by name. *)
Diff(old, new) == Judged(UpTo(old, new)[Cardinality(Names)])

Without(list, i) == Entries(list, DOMAIN list \ {i})

(* Mutant of Removed: any player of that name goes. *)
RemovedByName(list, gone) ==
  LET same == Carriers(list, gone.name)
  IN  IF same = {} THEN list ELSE Without(list, Nth(same, 1))

(* What the page does with a leave (useAutoJoin.ts, remove): of the players *)
(* sharing the name, the one whose connect time is nearest goes, the first  *)
(* of equals; an unknown name removes nobody.                               *)
Removed(list, gone) ==
  LET same == Carriers(list, gone.name)
  IN  IF same = {} THEN list ELSE Without(list, Nearest(list, same, gone))
============================================================================
