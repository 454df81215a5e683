---------------------------- MODULE MCSlotStream ----------------------------
(* SlotStream for TLC: one page and a small server. *)
EXTENDS SlotStream

ASSUME WatchAssumption

P(n, t) == [name |-> n, since |-> t]

SomeRosters == { <<P(1, 0)>>, <<P(1, 0), P(2, 3)>> }

SomeInfos == { [max_players |-> 3, players |-> n, map |-> "ze"] : n \in {0, 2} }

Nobody == [names |-> {}, anonymous |-> 0]
SomeWaiting == {Nobody, [names |-> {}, anonymous |-> 1]}

(* One list that the server sometimes hides. *)
OneRoster == { <<P(1, 0), P(2, 3)>> }
HonestInfo == { [max_players |-> 3, players |-> 2, map |-> "ze"] }
============================================================================
