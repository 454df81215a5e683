--------------------------- MODULE MCServerParts ----------------------------
(***************************************************************************)
(* Components of the server that share no state, for TLC: a behaviour is one *)
(* of the component that part names, and leaves the others where they began. *)
(* Requests, slots and tasks are interchangeable.                           *)
(***************************************************************************)
EXTENDS RefreshQueue, PlayerDiffCases, MapNotify, ResponseCache

VARIABLE part

ASSUME NotifyAssumption /\ CacheAssumption

(* The next map of a server, and a map on any server. *)
NextMapAndAnywhere == [map : {None}, server : Servers] \union [map : Maps, server : {None}]

theLists == <<known, polled>>

ServerPartsInit ==
  /\ part \in {"queue", "diff", "notify", "cache"}
  /\ Init /\ NotifyInit /\ CacheInit
  /\ IF part = "diff" THEN DiffInit ELSE known = <<>> /\ polled = <<>>

ServerPartsNext ==
  /\ UNCHANGED part
  /\ \/ part = "queue" /\ Next /\ UNCHANGED <<theLists, notifyVars, cacheVars>>
     \/ part = "diff" /\ DiffNext /\ UNCHANGED <<vars, notifyVars, cacheVars>>
     \/ part = "notify" /\ NotifyNext /\ UNCHANGED <<vars, theLists, cacheVars>>
     \/ part = "cache" /\ CacheNext /\ UNCHANGED <<vars, theLists, notifyVars>>

ServerPartsSpec == ServerPartsInit /\ [][ServerPartsNext]_<<part, vars, theLists, notifyVars, cacheVars>>

Symmetry ==
  Permutations(Requests) \cup Permutations(Slots) \cup Permutations(MapTasks)
=============================================================================
