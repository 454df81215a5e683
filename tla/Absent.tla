------------------------------- MODULE Absent -------------------------------
(* null, undefined and Rust's None, for the modules that are checked together. *)
CONSTANT None
=============================================================================
