----------------------------- MODULE MCAutoJoin -----------------------------
(* AutoJoin for TLC: a server with three slots, and a user called Ann. *)
EXTENDS AutoJoin

Ann == [name |-> "ann", since |-> 0]
Bob == [name |-> "bob", since |-> 0]

Online(listed, reported) ==
  [players |-> listed, meta |-> [online |-> TRUE, max_players |-> 3, players |-> reported]]

(* Full but hidden, and one player. *)
FewLists == { Online(<<>>, 3), Online(<<Bob>>, 1) }

(* Also with the user among them, and offline. *)
SomeLists ==
  FewLists \cup
  { Online(<<Bob, Ann>>, 2),
    [players |-> <<>>, meta |-> [online |-> FALSE, max_players |-> 3, players |-> 0]] }
=============================================================================
