----------------------------- MODULE ModelStore -----------------------------
(***************************************************************************)
(* What replacing a stored model promises (src/src/core/storage.rs and the *)
(* completion of an upload in src/src/routers/characters.rs), seen from    *)
(* those who load the model and from the page that uploads it. How chunks, *)
(* sessions and retries come to it is the matter of ChunkedUpload.         *)
(***************************************************************************)

CONSTANT None

VARIABLES
  backend, \* local or r2
  model,   \* what those who load it get: old, new, or torn
  row,     \* the model's row: old or new
  outcome  \* what the page was told, or None

vars == <<backend, model, row, outcome>>

Init ==
  /\ backend \in {"local", "r2"}
  /\ model = "old" /\ row = "old" /\ outcome = None

(* An object is put as a whole. *)
Put ==
  /\ backend = "r2"
  /\ model' = "new"
  /\ UNCHANGED <<backend, row, outcome>>

(* A local file is written where it is read from, until success is told. *)
Write ==
  /\ backend = "local" /\ outcome # "success"
  /\ model' \in {"torn", "new"}
  /\ UNCHANGED <<backend, row, outcome>>

Upsert ==
  /\ model = "new" /\ row' = "new"
  /\ UNCHANGED <<backend, model, outcome>>

TellSuccess ==
  /\ outcome = None /\ model = "new" /\ row = "new"
  /\ outcome' = "success"
  /\ UNCHANGED <<backend, model, row>>

(* Failure is told on any doubt: the model may have been stored all the same. *)
TellFailure ==
  /\ outcome = None /\ outcome' \in {"failed", "cancelled"}
  /\ UNCHANGED <<backend, model, row>>

Next == Put \/ Write \/ Upsert \/ TellSuccess \/ TellFailure

Spec == Init /\ [][Next]_vars
=============================================================================
