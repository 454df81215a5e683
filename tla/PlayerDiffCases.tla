-------------------------- MODULE PlayerDiffCases ---------------------------
(***************************************************************************)
(* diff_players against what it must mean, over every short list.  The list *)
(* known so far and the list just polled are the state; a step takes the    *)
(* difference the way ServerWatch::apply does, the server answering the same *)
(* list again.                                                               *)
(***************************************************************************)
EXTENDS PlayerDiff, SequencesExt

CONSTANTS
  Shapes,   \* the lists: which names they use, how long they are, up to what time
  Jitter    \* how far a poll may misreport a connect time

ASSUME CasesAssumption ==
  /\ \A shape \in Shapes : shape.names \subseteq Names /\ shape.len \in Nat /\ shape.time \in Nat
  /\ Jitter \in 0..Drift

VARIABLES known, polled

(* Three namesakes over a long time, and two players over two names. *)
SomeShapes == { [names |-> {0}, len |-> 3, time |-> 6], [names |-> {0, 1}, len |-> 2, time |-> 4] }

Lists(shape) ==
  UNION {[1..n -> [name : shape.names, since : 0..shape.time]] : n \in 0..shape.len}

DiffInit == \E shape \in Shapes : known \in Lists(shape) /\ polled \in Lists(shape)

NewList(d) == d.kept \o d.joined

Settled == NewList(Diff(known, polled))

DiffNext == known' = Settled /\ UNCHANGED polled

DiffSpec == DiffInit /\ [][DiffNext]_<<known, polled>>

Sum(f, g) == [n \in Names |-> f[n] + g[n]]

(* How often each player (name and time) occurs in a list. *)
Bag(list) == [p \in ToSet(list) |-> Cardinality({i \in DOMAIN list : list[i] = p})]

Balances(d) ==
  /\ Sum(NameCount(d.kept), NameCount(d.left)) = NameCount(known)
  /\ Sum(NameCount(d.kept), NameCount(d.joined)) = NameCount(polled)

(* What the page shows after each of the leaves. *)
Leaving(gone) ==
  LET shown[i \in 0..Len(gone)] == IF i = 0 THEN known ELSE Removed(shown[i - 1], gone[i])
  IN  shown

PageAfter(d) == Leaving(d.left)[Len(d.left)] \o d.joined

PageFollows(d) == Bag(PageAfter(d)) = Bag(NewList(d))

(* Nobody is lost or invented: by name, the old list is who stayed and who  *)
(* left, the new one who stayed and who joined; and a page that removes each *)
(* leave and appends each join holds exactly the players, times included,   *)
(* that the watch now holds.                                                 *)
ListsBalance == LET d == Diff(known, polled) IN Balances(d) /\ PageFollows(d)

Apart(list, by) ==
  \A i, j \in DOMAIN list :
    i # j /\ list[i].name = list[j].name => Gap(list[i], list[j]) > by

Quiet(d) == d.left = <<>> /\ d.joined = <<>> /\ ~d.drifted

(* A server that answers the same list again causes no event: the times the  *)
(* watch keeps for players it already knew do not turn into leaves and joins, *)
(* as long as players sharing a name connected further apart than the drift   *)
(* can bridge from both sides. (Nearer ones may swap once more: the greedy    *)
(* pairing can keep one player's old time for another's.)                     *)
SameListIsQuiet == Apart(polled, 2 * Drift) => Quiet(Diff(Settled, polled))

Misread(list, places, err) ==
  Entries([i \in DOMAIN list |-> [list[i] EXCEPT !.since = @ + err[i]]], places)

OnlyTheRestStay(d, rest) ==
  /\ d.joined = <<>>
  /\ Bag(d.left) = Bag(Entries(known, DOMAIN known \ rest))
  /\ Bag(d.kept) = Bag(Entries(known, rest))

(* If some players leave, nobody joins, and the poll misreports the others'  *)
(* times by at most Jitter, in any order, exactly those leave, and the others *)
(* keep the times already known.                                             *)
RightOnesStay(rest) ==
  \A err \in [DOMAIN known -> {-Jitter, 0, Jitter}] :
    OnlyTheRestStay(Diff(known, Reverse(Misread(known, rest, err))), rest)

(* The same on the page, whose times are off by the delay of the event that *)
(* brought them: the leave takes the player it names, not a namesake.        *)
RightOneGoes(i) ==
  \A err \in [DOMAIN known -> {0, Jitter}], e \in {0, Jitter} :
    Removed(Misread(known, DOMAIN known, err), [known[i] EXCEPT !.since = @ + e])
      = Misread(known, DOMAIN known \ {i}, err)

(* "Duplicates count separately and the right one leaves", on the server and *)
(* on the page, as long as players sharing a name are far enough apart.      *)
NamesakesToldApart ==
  polled = <<>> /\ Apart(known, 2 * Jitter) =>
    /\ \A rest \in SUBSET DOMAIN known : RightOnesStay(rest)
    /\ \A i \in DOMAIN known : RightOneGoes(i)
============================================================================
