-------------------------- MODULE MCChunkedUpload --------------------------
(* ChunkedUpload for TLC: two chunks, two tries and attempts each. *)
EXTENDS ChunkedUpload
============================================================================
