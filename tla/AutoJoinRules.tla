--------------------------- MODULE AutoJoinRules ---------------------------
(***************************************************************************)
(* The page's decision to launch Steam (useAutoJoin.ts: playersOf,         *)
(* effectiveTarget, check), as a function of what the page knows.          *)
(***************************************************************************)
LOCAL INSTANCE Integers
LOCAL INSTANCE Sequences

CONSTANTS
  Self,  \* the logged-in player's name, or None
  None   \* absent

(* Listed players, or the server's own total when it hides them. *)
PlayersOf(list, meta) ==
  IF list = <<>> /\ meta.players > 0 THEN meta.players ELSE Len(list)

(* The count to join at: what the user picked, else the first free slot. *)
EffectiveTarget(target, max) ==
  LET highest == IF max > 0 THEN max - 1 ELSE 0
  IN  IF target = None THEN highest
      ELSE IF target < 0 THEN 0 ELSE IF target > highest THEN highest ELSE target

SelfIn(list) == Self # None /\ \E i \in DOMAIN list : list[i].name = Self

(* check: the status and the hold it leaves. A hold is kept until the count *)
(* has been seen above the goal.                                            *)
Check(status, hold, target, list, meta) ==
  IF status # "armed" \/ meta = None THEN [status |-> status, hold |-> hold]
  ELSE IF SelfIn(list) THEN [status |-> "already-in", hold |-> hold]
  ELSE IF ~meta.online \/ meta.max_players <= 0 THEN [status |-> status, hold |-> hold]
  ELSE LET count == PlayersOf(list, meta)
           goal  == EffectiveTarget(target, meta.max_players)
       IN  IF count > goal THEN [status |-> "armed", hold |-> FALSE]
           ELSE IF hold THEN [status |-> "armed", hold |-> TRUE]
           ELSE [status |-> "fired", hold |-> FALSE]
============================================================================
