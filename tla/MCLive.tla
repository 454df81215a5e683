------------------------------- MODULE MCLive -------------------------------
(***************************************************************************)
(* The job queue and the auto join of a tab, which share no state, with     *)
(* their fairness, for TLC: a behaviour is one of the component that part   *)
(* names, and leaves the other where it began.                             *)
(***************************************************************************)
EXTENDS RefreshQueue, MCAutoJoin

VARIABLE part

ASSUME QueueAssumption /\ AutoJoinAssumption /\ TabNoneAssumption

all == <<part, vars, tabVars>>

LiveInit ==
  /\ part \in {"queue", "document", "documents"}
  /\ Init /\ TabInit
  /\ part = "queue" => ~confirmed
  /\ part = "documents" => confirmed

(* Bound: with two sessions a marker goes too early after a failed push only. *)
OnTime == late' # late => request' # request

(* Bound: the worker's own memory tier, which no request reads, never expires. *)
WorkerRemembers ==
  (slot' = slot /\ failures' = failures) => \A k \in Keys : memory[Consumer][k] # None => memory'[Consumer][k] # None

(* Bound: a document in the cache has the tab to itself. *)
Alone == document = "absent" /\ document' = "shown" => \A o \in Others : kept'[o] = None

(* Bounds: beside another document the user has passed the Steam check, never *)
(* closes the dialog, loses no stream, gets no ticket, and does not wait for  *)
(* hours.                                                                     *)
Beside ==
  /\ ~ticket' /\ timers' = 0 /\ confirmed' /\ (saved' # None => saved'.fresh)
  /\ view' \in FewLists \cup {None}
  /\ modal => modal' \/ document' = "absent"

OfQueue(action) == part = "queue" /\ action /\ UNCHANGED <<part, tabVars>>
InTab(action) ==
  /\ (part = "document" /\ action /\ Alone) \/ (part = "documents" /\ action /\ Beside)
  /\ UNCHANGED <<part, vars>>

(* Both with their fairness. *)
LiveSpec ==
  /\ LiveInit /\ [][OfQueue(Next /\ OnTime /\ WorkerRemembers) \/ InTab(TabNext)]_all
  /\ \A r \in Requests : WF_all(OfQueue(RequestStep(r)))
  /\ \A s \in Slots : WF_all(OfQueue(TaskStep(s)))
  /\ \A n \in Sessions : WF_all(OfQueue(MarkerExpires(n) /\ OnTime))
  /\ WF_all(InTab(Commit)) /\ WF_all(InTab(RetryFires))

-----------------------------------------------------------------------------
(* AskedIsComputed, in its part. *)
QueueComputes == part = "queue" => AskedIsComputed
=============================================================================
