----------------------------- MODULE MCStreams ------------------------------
(***************************************************************************)
(* The hub, and one page's stream, for TLC: a behaviour is the one that part *)
(* names, and leaves the other where it began.                              *)
(***************************************************************************)
EXTENDS SlotHub, MCSlotStream

VARIABLE part

ASSUME HubAssumption

all == <<part, hubVars, vars>>

StreamsInit == part \in {"hub", "page"} /\ HubInit /\ Init

InHub(action) == part = "hub" /\ action /\ UNCHANGED <<part, vars>>
OnPage(action) == part = "page" /\ action /\ UNCHANGED <<part, hubVars>>

(* Both with their fairness. *)
StreamsSpec ==
  /\ StreamsInit /\ [][InHub(HubNext) \/ OnPage(Next)]_all
  /\ \A s \in Streams :
       /\ WF_all(InHub(JoinWatch(s) \/ \E w \in Watches : StartWatch(s, w)))
       /\ WF_all(InHub(AddWaiter(s))) /\ WF_all(InHub(OpenStream(s)))
       /\ WF_all(InHub(Closed(s))) /\ WF_all(InHub(GraceOver(s)))
  /\ \A w \in Watches :
       WF_all(InHub(KeepPolling(w) \/ StopPolling(w))) /\ WF_all(InHub(PollDone(w)))
  /\ \A c \in Pages :
       WF_all(OnPage(HandlerStep(c))) /\ WF_all(OnPage(PageStep(c))) /\ WF_all(OnPage(BackoffOver(c)))
============================================================================
