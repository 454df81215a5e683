---------------------------- MODULE MCMapNotify -----------------------------
(* MapNotify for TLC: one subscription to the next map of a server. *)
EXTENDS MapNotify

NextMap == [map : {None}, server : Servers]
=============================================================================
