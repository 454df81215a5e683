------------------------------ MODULE AutoJoin ------------------------------
(***************************************************************************)
(* The auto join of one server in one browser tab: the hook                *)
(* (src/front-ze/components/servers/useAutoJoin.ts) and the button that    *)
(* drives it (src/front-ze/components/maps/AutoJoinButton.tsx).            *)
(*                                                                         *)
(* One step is one event handler, timer or React commit: browser code runs *)
(* each to its end.  What the stream says is any of a few lists; that it   *)
(* says what the server knows is the business of SlotStream.  A tab shows  *)
(* one document at a time and may keep others in its back/forward cache,   *)
(* all with the same sessionStorage.                                       *)
(***************************************************************************)
EXTENDS Integers, Absent

CONSTANTS
  Lists,      \* what a stream may report: [players, meta]
  Targets,    \* player counts a user may pick
  Self,       \* the signed-in player's name, or None
  Others,     \* places in the back/forward cache
  Arms,       \* identities of the arms that the user's clicks make
  MaxLoose    \* bound: pending timeouts, and streams the page has lost track of

ASSUME AutoJoinAssumption ==
  /\ MaxLoose \in Nat
  /\ \A l \in Lists : l.meta.online \in BOOLEAN /\ l.meta.max_players \in Nat

Rules == INSTANCE AutoJoinRules

VARIABLES
  document,   \* the document in front: its component is shown, or absent
  modal,      \* the dialog is open (the hook's `watching`)
  status,     \* statusRef
  target,     \* targetRef
  hold,       \* holdRef
  confirmed,  \* localStorage: Steam is known to open
  saved,      \* sessionStorage: the armed target, whether it is still fresh, its arm; or None
  kept,       \* what each place in the back/forward cache keeps of a document, or None
  view,       \* the list last published to the component, or None
  live,       \* liveRef: the list of the stream effect in force, or None before a snapshot
  ticket,     \* the waiting-list ticket has come
  asking,     \* its request is under way
  effect,     \* what the stream effect last ran with: the stream's query, or None
  source,     \* the query of the stream the effect knows, or None
  strays,     \* open streams that `source` no longer points to
  timers,     \* pending retry timeouts of the effect in force
  arm,        \* history: the arm in force in front, or None
  launches,   \* history: automatic launches from each arm since its click, up to 2
  revived,    \* history: arms that a restored document went on with after storage forgot them
  stale,      \* history: places behind whose back the armed target in storage was changed
  misled,     \* history: the document in front was such a one, and has not written since
  waived,     \* history: since the Steam check the count was seen above the goal,
              \* or the arm is not one that followed the check
  overlap     \* history: this document was restored with a retry timeout pending

arming == <<status, target, hold, arm, waived>>
storage == <<saved, launches, revived, stale, misled>>
streaming == <<effect, source, strays, timers, live, overlap>>
tabVars == <<document, modal, arming, storage, confirmed, view, ticket, asking, streaming, kept>>

(* The stream's query: armed streams name the tab, and the user by ticket. *)
Queries == [armed : BOOLEAN, ticket : BOOLEAN]

(* An armed target in sessionStorage, and whether it is still fresh. *)
Saved == [target : Targets \cup {None}, fresh : BOOLEAN, arm : Arms]

(* A document in the back/forward cache: pagehide closed its stream. *)
Documents ==
  [ modal : BOOLEAN, status : {"idle", "confirming", "armed", "fired", "already-in"},
    target : Targets \cup {None}, hold : BOOLEAN, arm : Arms \cup {None}, waived : BOOLEAN,
    view : Lists \cup {None}, ticket : BOOLEAN, asking : BOOLEAN,
    effect : Queries \cup {None}, strays : 0..MaxLoose, timers : 0..MaxLoose,
    live : Lists \cup {None}, overlap : BOOLEAN ]

ASSUME TabNoneAssumption ==
  /\ None \notin Lists /\ None \notin Queries /\ None \notin Saved
  /\ None \notin Arms /\ None \notin Documents

Active == modal \/ status = "armed"

Wanted ==
  IF ~Active THEN None
  ELSE [armed |-> status = "armed", ticket |-> status = "armed" /\ ticket]

TabInit ==
  /\ document = "absent" /\ modal = FALSE
  /\ status = "idle" /\ target = None /\ hold = FALSE
  /\ confirmed \in BOOLEAN /\ saved = None
  /\ view = None /\ live = None
  /\ ticket = FALSE /\ asking = FALSE
  /\ effect = None /\ source = None /\ strays = 0 /\ timers = 0
  /\ kept = [o \in Others |-> None]
  /\ arm = None /\ launches = [a \in Arms |-> 0] /\ revived = {}
  /\ stale = {} /\ misled = FALSE /\ waived = TRUE /\ overlap = FALSE

-----------------------------------------------------------------------------
(* check and changeStatus *)

(* check, once the handler has made the status s, the target t and the hold h. *)
Checked(s, t, h, l) ==
  IF l = None THEN [status |-> s, hold |-> h] ELSE Rules!Check(s, h, t, l.players, l.meta)

AboveGoal(t, l) ==
  /\ l # None /\ l.meta.online /\ l.meta.max_players > 0
  /\ Rules!PlayersOf(l.players, l.meta) > Rules!EffectiveTarget(t, l.meta.max_players)

(* The armed target in storage becomes x: the documents in the cache are not told. *)
Written(x) ==
  /\ saved' = x
  /\ misled' = FALSE
  /\ stale' =
       IF (x = None /\ saved = None) \/ (x # None /\ saved # None /\ x.target = saved.target /\ x.arm = saved.arm)
       THEN stale ELSE {o \in Others : kept[o] # None}

NothingWritten == UNCHANGED <<saved, misled, stale>>

(* Mutant of CheckWith: firing does not clear the armed target from storage. *)
CheckKeepsSaved(s, t, h, l, a, wrote) ==
  LET new == Checked(s, t, h, l) IN
    /\ status' = new.status /\ hold' = new.hold /\ target' = t
    /\ arm' = IF new.status = "armed" THEN a ELSE None
    /\ IF wrote /\ s = "armed" THEN Written([target |-> t, fresh |-> TRUE, arm |-> a]) ELSE NothingWritten

(* The check, with what it does to the armed target in storage: firing and    *)
(* finding the user on the server forget it; a handler that `wrote` it leaves *)
(* it fresh, with its first time or, if that was too old, with a new one.     *)
CheckWith(s, t, h, l, a, wrote) ==
  LET new == Checked(s, t, h, l) IN
    /\ status' = new.status /\ hold' = new.hold /\ target' = t
    /\ arm' = IF new.status = "armed" THEN a ELSE None
    /\ IF s = "armed" /\ new.status # "armed" THEN Written(None)
       ELSE IF s = "armed" /\ wrote THEN Written([target |-> t, fresh |-> TRUE, arm |-> a])
       ELSE NothingWritten

(* The history, from launches n and the waiver w before the check. *)
Tally(s, t, h, l, a, n, w) ==
  /\ launches' = IF s = "armed" /\ Checked(s, t, h, l).status = "fired" /\ n[a] < 2
                 THEN [n EXCEPT ![a] = @ + 1] ELSE n
  /\ waived' = (w \/ (s = "armed" /\ AboveGoal(t, l)))

(* An arm that no kept document goes on with: the next click makes it anew. *)
Free(a) == \A o \in Others : kept[o] # None => kept[o].arm # a
CountedAnew == [a \in Arms |-> IF Free(a) THEN 0 ELSE launches[a]]

(* armNow, in a click. *)
ArmNow(h) ==
  \E a \in Arms :
    /\ Free(a)
    /\ CheckWith("armed", target, h, live, a, TRUE)
    /\ Tally("armed", target, h, live, a, CountedAnew, ~h)
    /\ revived' = {b \in revived : ~Free(b)}

(* changeStatus to a status that is not armed. *)
Disarm(s) ==
  /\ status' = s /\ arm' = None
  /\ Written(None)
  /\ UNCHANGED <<target, hold, launches, revived, waived>>

-----------------------------------------------------------------------------
(* The user, in the dialog; `view` decides what it offers. *)

AlreadyIn == view # None /\ Rules!SelfIn(view.players)

(* The panel with the target picker and the Test button. *)
Panel == document = "shown" /\ modal /\ (status = "armed" \/ (status = "idle" /\ ~AlreadyIn))

OpenModal ==
  /\ document = "shown" /\ ~modal /\ status # "already-in"
  /\ modal' = TRUE
  /\ UNCHANGED <<document, arming, storage, confirmed, view, ticket, asking, streaming, kept>>

(* Closing the dialog in the middle of the Steam check abandons it. *)
CloseModal ==
  /\ document = "shown" /\ modal
  /\ modal' = FALSE
  /\ IF status = "confirming" THEN Disarm("idle") ELSE UNCHANGED <<arming, storage>>
  /\ UNCHANGED <<document, confirmed, view, ticket, asking, streaming, kept>>

(* arm, from the Arm button or, after a launch, from Re-arm. The first time  *)
(* on this browser it launches Steam by hand and asks whether that worked.   *)
Arm ==
  /\ document = "shown" /\ modal
  /\ status = "fired" \/ (Panel /\ status = "idle" /\ view # None /\ view.meta.online)
  /\ IF confirmed THEN ArmNow(FALSE) ELSE Disarm("confirming")
  /\ UNCHANGED <<document, modal, confirmed, view, ticket, asking, streaming, kept>>

(* testLaunch: the Steam check again, which disarms. *)
TestLaunch ==
  /\ Panel
  /\ confirmed' = FALSE
  /\ Disarm("confirming")
  /\ UNCHANGED <<document, modal, view, ticket, asking, streaming, kept>>

(* Mutant of ConfirmArm: an arm like any other. *)
ConfirmArmUnheld ==
  /\ document = "shown" /\ modal /\ status = "confirming"
  /\ confirmed' = TRUE
  /\ \E a \in Arms :
       /\ Free(a)
       /\ CheckWith("armed", target, FALSE, live, a, TRUE)
       /\ Tally("armed", target, FALSE, live, a, CountedAnew, FALSE)
       /\ revived' = {b \in revived : ~Free(b)}
  /\ UNCHANGED <<document, modal, view, ticket, asking, streaming, kept>>

(* confirmArm: "Steam opened", so the user may be connecting already. *)
ConfirmArm ==
  /\ document = "shown" /\ modal /\ status = "confirming"
  /\ confirmed' = TRUE
  /\ ArmNow(TRUE)
  /\ UNCHANGED <<document, modal, view, ticket, asking, streaming, kept>>

Cancel ==
  /\ document = "shown"
  /\ (modal /\ status = "armed") \/ status = "already-in"
  /\ Disarm("idle")
  /\ UNCHANGED <<document, modal, confirmed, view, ticket, asking, streaming, kept>>

(* Mutant of SetTarget: the new target is not saved. *)
SetTargetUnsaved(t) ==
  /\ Panel
  /\ CheckWith(status, t, hold, live, arm, FALSE)
  /\ Tally(status, t, hold, live, arm, launches, waived)
  /\ UNCHANGED <<revived, document, modal, confirmed, view, ticket, asking, streaming, kept>>

SetTarget(t) ==
  /\ Panel
  /\ CheckWith(status, t, hold, live, arm, TRUE)
  /\ Tally(status, t, hold, live, arm, launches, waived)
  /\ UNCHANGED <<revived, document, modal, confirmed, view, ticket, asking, streaming, kept>>

(* reportNotLaunched: "Didn't launch? Join". *)
ReportNotLaunched ==
  /\ document = "shown" /\ status = "fired"
  /\ confirmed' = FALSE
  /\ UNCHANGED <<document, modal, arming, storage, view, ticket, asking, streaming, kept>>

-----------------------------------------------------------------------------
(* The page comes and goes. *)

(* The component mounts, in a new document or on a route of this one; an       *)
(* armed target that is not too old arms again.                               *)
Mount ==
  /\ document = "absent"
  /\ document' = "shown"
  /\ IF saved # None /\ saved.fresh
       THEN /\ status' = "armed" /\ target' = saved.target /\ hold' = FALSE
            /\ arm' = saved.arm /\ waived' = TRUE
            /\ NothingWritten
       ELSE Written(None) /\ UNCHANGED arming
  /\ UNCHANGED <<modal, launches, revived, confirmed, view, ticket, asking, streaming, kept>>

(* Nothing of the component is in front any more. *)
Blank ==
  /\ document' = "absent" /\ modal' = FALSE
  /\ status' = "idle" /\ target' = None /\ hold' = FALSE /\ arm' = None
  /\ view' = None /\ live' = None /\ ticket' = FALSE /\ asking' = FALSE
  /\ effect' = None /\ source' = None /\ timers' = 0
  /\ waived' = TRUE /\ misled' = FALSE
  /\ UNCHANGED <<confirmed, saved, launches, revived>>

(* A reload, another page or a closed tab ends the document; storage stays. *)
Unload == Blank /\ strays' = 0 /\ overlap' = FALSE /\ UNCHANGED <<stale, kept>>

(* Another route of the same document: the effects are cleaned up. *)
Unmount == document = "shown" /\ Blank /\ UNCHANGED <<strays, overlap, stale, kept>>

(* ARMED_MAX_AGE_MS after arming. *)
Age ==
  /\ saved # None /\ saved.fresh
  /\ saved' = [saved EXCEPT !.fresh = FALSE]
  /\ UNCHANGED <<document, modal, arming, launches, revived, stale, misled, confirmed, view, ticket, asking, streaming, kept>>

(* pagehide: close(). The rest waits with the page, pending timeouts included. *)
HideToCache(o) ==
  /\ document = "shown" /\ kept[o] = None
  /\ kept' = [kept EXCEPT ![o] =
       [ modal |-> modal, status |-> status, target |-> target, hold |-> hold, arm |-> arm,
         waived |-> waived, view |-> view, ticket |-> ticket, asking |-> asking, effect |-> effect,
         strays |-> strays, timers |-> timers, live |-> live, overlap |-> overlap ]]
  /\ stale' = IF misled THEN stale \cup {o} ELSE stale
  /\ Blank /\ strays' = 0 /\ overlap' = FALSE

(* Back in front; what was there has left. Storage is not read again. *)
Restored(o) ==
  /\ document = "absent" /\ kept[o] # None
  /\ document' = "shown"
  /\ modal' = kept[o].modal /\ status' = kept[o].status /\ target' = kept[o].target
  /\ hold' = kept[o].hold /\ arm' = kept[o].arm /\ waived' = kept[o].waived
  /\ view' = kept[o].view /\ ticket' = kept[o].ticket /\ asking' = kept[o].asking
  /\ effect' = kept[o].effect /\ live' = kept[o].live
  /\ strays' = kept[o].strays /\ timers' = kept[o].timers
  /\ kept' = [kept EXCEPT ![o] = None]
  /\ misled' = (o \in stale) /\ stale' = stale \ {o}
  /\ revived' = IF kept[o].arm # None /\ (saved = None \/ saved.arm # kept[o].arm)
                THEN revived \cup {kept[o].arm} ELSE revived
  /\ UNCHANGED <<saved, launches, confirmed>>

(* Mutant of ShowFromCache: a restored page is left without a stream. *)
ShowAsItWas(o) ==
  /\ Restored(o)
  /\ source' = None
  /\ overlap' = kept[o].overlap

(* pageshow of a restored page: connect(), since pagehide left no stream. *)
ShowFromCache(o) ==
  /\ Restored(o)
  /\ source' = kept[o].effect
  /\ overlap' = (kept[o].overlap \/ kept[o].timers > 0)

(* The browser throws a kept document away. *)
Evict(o) ==
  /\ kept[o] # None
  /\ kept' = [kept EXCEPT ![o] = None]
  /\ stale' = stale \ {o}
  /\ UNCHANGED <<document, modal, arming, saved, launches, revived, misled, confirmed, view, ticket, asking, streaming>>

-----------------------------------------------------------------------------
(* The effects and the stream. *)

(* Mutant of Commit: the cleanup leaves the stream open. *)
CommitLeavesStream ==
  /\ document = "shown" /\ Wanted # effect
  /\ effect' = Wanted
  /\ source' = Wanted
  /\ strays' = IF source = None \/ strays = MaxLoose THEN strays ELSE strays + 1
  /\ timers' = 0 /\ live' = None
  /\ asking' = (Wanted # None /\ (asking \/ (effect = None /\ Self # None /\ ~ticket)))
  /\ UNCHANGED <<document, modal, arming, storage, confirmed, view, ticket, overlap, kept>>

(* React commits a render whose query differs: the stream effect's cleanup,  *)
(* which also makes its pending timeouts do nothing (`done`), then the new    *)
(* effect's connect(). The ticket's request starts and is abandoned with it.  *)
Commit ==
  /\ document = "shown" /\ Wanted # effect
  /\ effect' = Wanted
  /\ source' = Wanted
  /\ timers' = 0 /\ live' = None
  /\ asking' = (Wanted # None /\ (asking \/ (effect = None /\ Self # None /\ ~ticket)))
  /\ UNCHANGED <<document, modal, arming, storage, confirmed, view, ticket, strays, overlap, kept>>

TicketAnswered(ok) ==
  /\ document = "shown" /\ asking
  /\ asking' = FALSE
  /\ ticket' = ok
  /\ UNCHANGED <<document, modal, arming, storage, confirmed, view, streaming, kept>>

(* The stream reports list l: publish, then check. *)
Event(l) ==
  /\ document = "shown" /\ source # None
  /\ live' = l /\ view' = l
  /\ CheckWith(status, target, hold, l, arm, FALSE)
  /\ Tally(status, target, hold, l, arm, launches, waived)
  /\ UNCHANGED <<revived, document, modal, confirmed, ticket, asking, effect, source, strays, timers, overlap, kept>>

(* The stream breaks or shows a gap: reconnect() closes it and sets a timer. *)
(* The list stays what it was.                                               *)
Reconnect ==
  /\ document = "shown" /\ source # None /\ timers < MaxLoose
  /\ source' = None
  /\ timers' = timers + 1
  /\ UNCHANGED <<document, modal, arming, storage, confirmed, view, ticket, asking, effect, strays, live, overlap, kept>>

(* A retry timeout: connect(), whatever `source` is by now. *)
RetryFires ==
  /\ document = "shown" /\ timers > 0
  /\ source # None => strays < MaxLoose
  /\ timers' = timers - 1
  /\ source' = effect
  /\ strays' = IF source = None THEN strays ELSE strays + 1
  /\ UNCHANGED <<document, modal, arming, storage, confirmed, view, ticket, asking, effect, live, overlap, kept>>

(* A lost stream is reconnected by the browser itself, until it is refused. *)
StrayRefused ==
  /\ document = "shown" /\ strays > 0
  /\ strays' = strays - 1
  /\ UNCHANGED <<document, modal, arming, storage, confirmed, view, ticket, asking, effect, source, timers, live, overlap, kept>>

-----------------------------------------------------------------------------
TabNext ==
  \/ OpenModal \/ CloseModal \/ Arm \/ TestLaunch \/ ConfirmArm \/ Cancel
  \/ \E t \in Targets : SetTarget(t)
  \/ ReportNotLaunched
  \/ Mount \/ Unload \/ Unmount \/ Age
  \/ \E o \in Others : HideToCache(o) \/ ShowFromCache(o) \/ Evict(o)
  \/ Commit
  \/ \E ok \in BOOLEAN : TicketAnswered(ok)
  \/ \E l \in Lists : Event(l)
  \/ Reconnect \/ RetryFires \/ StrayRefused

TabSpec == TabInit /\ [][TabNext]_tabVars

(* React commits what it rendered, and the browser runs a shown page's timers. *)
TabFairSpec == TabSpec /\ WF_tabVars(Commit) /\ WF_tabVars(RetryFires)

-----------------------------------------------------------------------------
TabTypeOK ==
  /\ document \in {"absent", "shown"}
  /\ modal \in BOOLEAN /\ hold \in BOOLEAN /\ confirmed \in BOOLEAN
  /\ ticket \in BOOLEAN /\ asking \in BOOLEAN
  /\ waived \in BOOLEAN /\ overlap \in BOOLEAN /\ misled \in BOOLEAN
  /\ status \in {"idle", "confirming", "armed", "fired", "already-in"}
  /\ target \in Targets \cup {None} /\ arm \in Arms \cup {None}
  /\ saved \in Saved \cup {None}
  /\ kept \in [Others -> Documents \cup {None}] /\ stale \subseteq Others
  /\ view \in Lists \cup {None} /\ live \in Lists \cup {None}
  /\ effect \in Queries \cup {None} /\ source \in {effect, None}
  /\ strays \in 0..MaxLoose /\ timers \in 0..MaxLoose
  /\ launches \in [Arms -> 0..2] /\ revived \subseteq Arms

(* "Launches Steam once": however often the page is reloaded, restored,      *)
(* reconnected or retargeted, and in whatever documents of the tab an arm     *)
(* went on, it launches once; unless a document came back from the cache armed *)
(* with an arm that storage had forgotten, which that document does not see.  *)
LaunchesOnce == \A a \in Arms : launches[a] <= 1 \/ a \in revived

(* What the hook's comment says, for every arm. *)
SteamOnce == \A a \in Arms : launches[a] <= 1

(* An arm that follows the Steam check never launches before it has seen the *)
(* count above the target: the user may be connecting through that slot.     *)
HeldUntilAbove == status = "fired" => waived

(* What a reload would arm again is what is armed now, target included; what *)
(* was fired, cancelled or overtaken is not armed again. A document that came *)
(* back from the cache to a storage changed behind its back is the exception, *)
(* until it writes itself.                                                    *)
SavedIsArmed ==
  (document = "shown" /\ ~misled) =>
    /\ (saved # None) = (status = "armed")
    /\ saved # None => saved.target = target /\ saved.arm = arm

(* Once React has committed, the page has one stream at most, and it says    *)
(* what the page is: watching, armed, or armed by name. A page that left has *)
(* none, and one that is gone has no timeout that could open one.  The only  *)
(* way to a second stream is a timeout that outlives a stay in the cache.    *)
OneStream ==
  /\ ~overlap => strays = 0 /\ (source # None => timers = 0)
  /\ document = "absent" => source = None /\ timers = 0
  /\ effect = Wanted => source \in {Wanted, None}

(* "The stream is open while watching (the modal is open) or while armed". *)
OpenOnlyWhileWanted == effect = None /\ Wanted = None => source = None /\ strays = 0

(* An armed page always gets, or goes on trying to get, a stream that lists   *)
(* it as waiting and, once its ticket has come, by name.                      *)
KeepsTrying ==
  (document = "shown" /\ status = "armed") ~> ((source # None /\ source = Wanted) \/ status # "armed" \/ document # "shown")
============================================================================
