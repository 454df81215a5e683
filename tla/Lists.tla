------------------------------- MODULE Lists --------------------------------
(* Parts of a list, for modules that filter and shorten lists. *)
EXTENDS Integers, Sequences, FiniteSets

(* The k-th smallest of some places. *)
Nth(places, k) == CHOOSE i \in places : Cardinality({j \in places : j <= i}) = k

(* The entries of a list at some of its places, in their order. *)
Entries(list, places) == [k \in 1..Cardinality(places) |-> list[Nth(places, k)]]

(* At most so many, from the front. *)
Capped(list, most) == SubSeq(list, 1, IF Len(list) < most THEN Len(list) ELSE most)
=============================================================================
