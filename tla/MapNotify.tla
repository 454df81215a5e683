----------------------------- MODULE MapNotify ------------------------------
(***************************************************************************)
(* One user's one-time notifications of a server's next map and of a map    *)
(* that is played again: the subscribe and unsubscribe routes               *)
(* (src/src/routers/accounts.rs), the tasks that a map change starts        *)
(* (src/src/core/updater.rs), the sender (src/src/core/push_service.rs) and *)
(* the notification whose button subscribes again (front-ze/public/sw.js).  *)
(* A query that fails was not applied, or its step is that of one that       *)
(* worked: the code goes on the same way. A user's browsers and tabs act in  *)
(* any order, so that a request may be under way whatever a page shows.      *)
(***************************************************************************)
EXTENDS Naturals, FiniteSets, Absent

CONSTANTS
  Servers, Maps,
  Wanted,    \* bound: what the user asks for
  Pushes,    \* push_subscriptions the user may come to have, each with its own endpoint
  MapTasks,  \* tasks of map changes at one time
  MaxRows,   \* bound: subscriptions at one time, those a task still works on included
  MaxAsking, \* bound: subscribe requests at one time
  MaxFaults  \* bound: failed queries and restarts

VARIABLES
  push,   \* each push subscription's row: none yet, kept, or gone
  dead,   \* those whose endpoint the push service does not know any more
  rows,   \* map_change_subscriptions and map_notify_subscriptions
  asking, \* subscribe requests between their check of the push subscription and their INSERT
  task,   \* the tasks of map changes
  notice, \* the notification that the browser shows, or None
  faults  \* how much has gone wrong so far

notifyVars == <<push, dead, rows, asking, task, notice, faults>>

(* What is asked for: a change of the server's map (map None), or a map on    *)
(* one server or on all of them (server None).                              *)
Asks == [map : {None}, server : Servers] \union [map : Maps, server : Servers \union {None}]

NotifyAssumption == Wanted \subseteq Asks /\ MaxRows \in Nat /\ MaxFaults \in Nat

(* Of a row, tries and lost are history: whether a push for it was tried ever, and *)
(* since it was asked for last; whether a failure kept a task from looking for its *)
(* endpoint, or from marking it.                                                *)
Rows == [id : 1..MaxRows, ask : Asks, push : Pushes, triggered : BOOLEAN,
         tries : SUBSET {"ever", "since"}, lost : SUBSET {"look", "mark"}]

(* A selected row, as its task remembers it. *)
Selected == [id : 1..MaxRows, push : Pushes]

WithRow == {"send", "remove", "mark"}

NoTask == [at |-> "idle", server |-> None, map |-> None, table |-> "none", todo |-> {}, row |-> None]

(* Between rows, or with one in hand, and what was read of its table and not taken up. *)
TaskStates == {NoTask} \union
  [at : {"rows"} \union WithRow, server : Servers, map : Maps,
   table : {"none", "change", "map"}, todo : SUBSET Selected, row : Selected \union {None}]

NotifyTypeOK ==
  /\ push \in [Pushes -> {"none", "kept", "gone"}] /\ dead \subseteq Pushes
  /\ rows \subseteq Rows
  /\ asking \subseteq [ask : Asks, push : Pushes]
  /\ task \in [MapTasks -> TaskStates]
  /\ notice \in {None} \union [server : Servers, push : Pushes \union {None}]
  /\ faults \in 0..MaxFaults

NotifyInit ==
  /\ push = [p \in Pushes |-> "none"] /\ dead = {} /\ rows = {} /\ asking = {}
  /\ task = [t \in MapTasks |-> NoTask] /\ notice = None /\ faults = 0

Registered(p) == push[p] = "kept"

(* ON DELETE CASCADE *)
Cascaded(p) == {r \in rows : r.push # p}

Fault == faults < MaxFaults /\ faults' = faults + 1

-----------------------------------------------------------------------------
(* The user's browsers. *)

Register(p) ==
  /\ push[p] = "none" /\ push' = [push EXCEPT ![p] = "kept"]
  /\ UNCHANGED <<dead, rows, asking, task, notice, faults>>

(* The browser gives the endpoint up: by itself, or first of all in unsubscribe. *)
EndpointDies(p) ==
  /\ Registered(p) /\ dead' = dead \union {p}
  /\ UNCHANGED <<push, rows, asking, task, notice, faults>>

Unregister(p) ==
  /\ Registered(p) /\ p \in dead
  /\ push' = [push EXCEPT ![p] = "gone"] /\ rows' = Cascaded(p)
  /\ UNCHANGED <<dead, asking, task, notice, faults>>

(* owned_push_subscription: a push subscription that is gone is refused. *)
Checked(ask, p) ==
  /\ Cardinality(asking) < MaxAsking
  /\ asking' = IF Registered(p) THEN asking \union {[ask |-> ask, push |-> p]} ELSE asking

(* The bell of the current match, or of a map. *)
AskFor(ask, p) ==
  /\ Registered(p) /\ Checked(ask, p)
  /\ UNCHANGED <<push, dead, rows, task, notice, faults>>

(* "Wait for Another": the service worker asks the same route. *)
Resubscribe ==
  /\ notice # None /\ notice.push # None
  /\ Checked([map |-> None, server |-> notice.server], notice.push)
  /\ notice' = None
  /\ UNCHANGED <<push, dead, rows, task, faults>>

Dismiss ==
  /\ notice # None /\ notice' = None
  /\ UNCHANGED <<push, dead, rows, asking, task, faults>>

(* UNIQUE takes no two NULLs for equal: a row for all servers conflicts with none. *)
Conflicts(r, a) == r.ask = a.ask /\ r.push = a.push /\ a.ask.server # None

Hand(t) == IF task[t].at \in WithRow THEN {task[t].row} ELSE {}
Held(t) == task[t].todo \union Hand(t)

(* Ids are never used twice; one that nobody holds any more is as good as a new one. *)
FreeIds == (1..MaxRows) \ ({r.id : r \in rows} \union UNION {{h.id : h \in Held(t)} : t \in MapTasks})

Renewed(r) == [r EXCEPT !.triggered = FALSE, !.tries = @ \ {"since"}]
NewRow(a, id) == [id |-> id, ask |-> a.ask, push |-> a.push, triggered |-> FALSE,
                  tries |-> {}, lost |-> {}]

Upserted(a) ==
  IF \E r \in rows : Conflicts(r, a)
    THEN rows' = {IF Conflicts(r, a) THEN Renewed(r) ELSE r : r \in rows}
    ELSE FreeIds # {} /\ rows' = rows \union {NewRow(a, CHOOSE id \in FreeIds : TRUE)}

(* subscribe_map_change, subscribe_map_notify: the foreign key refuses a push *)
(* subscription that went meanwhile.                                         *)
StoreAsk(a) ==
  /\ asking' = asking \ {a}
  /\ IF Registered(a.push) THEN Upserted(a) ELSE UNCHANGED rows
  /\ UNCHANGED <<push, dead, task, notice, faults>>

(* unsubscribe_map_change, unsubscribe_map_notify: on all of the user's browsers. *)
Withdraw(ask) ==
  /\ \E r \in rows : r.ask = ask /\ ~r.triggered
  /\ rows' = {r \in rows : r.ask # ask \/ r.triggered}
  /\ UNCHANGED <<push, dead, asking, task, notice, faults>>

-----------------------------------------------------------------------------
(* send_map_change_notifications, a task for each map change. *)

MapChanges(t, s, m) ==
  /\ task[t].at = "idle"
  /\ task' = [task EXCEPT ![t] = [NoTask EXCEPT !.at = "rows", !.server = s, !.map = m]]
  /\ UNCHANGED <<push, dead, rows, asking, notice, faults>>

Fits(ask, k, table) ==
  IF table = "change" THEN ask = [map |-> None, server |-> k.server]
                        ELSE ask.map = k.map /\ ask.server \in {None, k.server}

Pending(k, table) == {r \in rows : Fits(r.ask, k, table) /\ ~r.triggered}

(* A table is read first, and the second one once the first one's rows are done. *)
TableDone(t, table) == task[t].at = "rows" /\ task[t].todo = {} /\ task[t].table = table
Before(table) == IF table = "change" THEN "none" ELSE "change"

Select(t, table) ==
  /\ TableDone(t, Before(table))
  /\ task' = [task EXCEPT ![t].table = table,
       ![t].todo = {[id |-> r.id, push |-> r.push] : r \in Pending(task[t], table)}]
  /\ UNCHANGED <<push, dead, rows, asking, notice, faults>>

(* A query fails and the task returns. *)
SelectFails(t, table) ==
  /\ TableDone(t, Before(table))
  /\ task' = [task EXCEPT ![t] = NoTask] /\ Fault
  /\ UNCHANGED <<push, dead, rows, asking, notice>>

Done(t) ==
  /\ TableDone(t, "map")
  /\ task' = [task EXCEPT ![t] = NoTask]
  /\ UNCHANGED <<push, dead, rows, asking, notice, faults>>

Lost(ids, step) == {IF r.id \in ids THEN [r EXCEPT !.lost = @ \union {step}] ELSE r : r \in rows}

TakesUp(t, s, at) ==
  task' = [task EXCEPT ![t].todo = @ \ {s}, ![t].row = s, ![t].at = at]

(* The next row, and send_notification_to_subscription reads its push subscription; *)
(* an error is only logged, and the row marked all the same.                     *)
LookUp(t, s) ==
  /\ task[t].at = "rows" /\ s \in task[t].todo
  /\ \/ TakesUp(t, s, IF Registered(s.push) THEN "send" ELSE "mark") /\ UNCHANGED <<rows, faults>>
     \/ TakesUp(t, s, "mark") /\ Fault /\ rows' = Lost({s.id}, "look")
  /\ UNCHANGED <<push, dead, asking, notice>>

Goes(t, at) == task' = [task EXCEPT ![t].at = at]
Tried(id) == {IF r.id = id THEN [r EXCEPT !.tries = {"ever", "since"}] ELSE r : r \in rows}

(* A notification replaces the one shown: both have the tag of sw.js. Only that *)
(* of a changed map carries the subscription.                                   *)
Notice(k) == [server |-> k.server, push |-> IF k.table = "change" THEN k.row.push ELSE None]

(* The push service takes it, and the browser shows it or is not there; or it *)
(* answers an error; or it does not know the endpoint.                        *)
Send(t) ==
  /\ task[t].at = "send"
  /\ rows' = Tried(task[t].row.id)
  /\ IF task[t].row.push \in dead THEN Goes(t, "remove") /\ UNCHANGED notice
     ELSE Goes(t, "mark") /\ notice' \in {notice, Notice(task[t])}
  /\ UNCHANGED <<push, dead, asking, faults>>

(* remove_subscription, on 404 and 410; a failure is ignored. *)
RemoveDead(t) ==
  /\ task[t].at = "remove" /\ Goes(t, "mark")
  /\ \/ push' = [push EXCEPT ![task[t].row.push] = "gone"] /\ rows' = Cascaded(task[t].row.push)
        /\ UNCHANGED faults
     \/ Fault /\ UNCHANGED <<push, rows>>
  /\ UNCHANGED <<dead, asking, notice>>

(* Mutant of Marked: by subscription_id, not by id. *)
MarkedByPush(s) == {IF r.push = s.push THEN [r EXCEPT !.triggered = TRUE] ELSE r : r \in rows}

Marked(s) == {IF r.id = s.id THEN [r EXCEPT !.triggered = TRUE] ELSE r : r \in rows}

(* Mutant of MarkTriggered: a row whose push was refused waits for the next change. *)
MarkDelivered(t) ==
  /\ task[t].at = "mark"
  /\ rows' \in {rows, Marked(task[t].row)} /\ UNCHANGED faults
  /\ task' = [task EXCEPT ![t].at = "rows", ![t].row = None]
  /\ UNCHANGED <<push, dead, asking, notice>>

MarkTriggered(t) ==
  /\ task[t].at = "mark"
  /\ \/ rows' = Marked(task[t].row) /\ UNCHANGED faults
     \/ rows' = Lost({task[t].row.id}, "mark") /\ Fault
  /\ task' = [task EXCEPT ![t].at = "rows", ![t].row = None]
  /\ UNCHANGED <<push, dead, asking, notice>>

(* The process restarts: tasks and requests are gone. *)
ServerRestarts ==
  /\ Fault
  /\ rows' = Lost({h.id : h \in UNION {Hand(t) : t \in MapTasks}}, "mark")
  /\ task' = [t \in MapTasks |-> NoTask] /\ asking' = {}
  /\ UNCHANGED <<push, dead, notice>>

NotifyNext ==
  \/ \E p \in Pushes : Register(p) \/ EndpointDies(p) \/ Unregister(p) \/ \E a \in Wanted : AskFor(a, p)
  \/ Resubscribe \/ Dismiss \/ ServerRestarts
  \/ \E a \in asking : StoreAsk(a)
  \/ \E a \in Wanted : Withdraw(a)
  \/ \E t \in MapTasks, s \in Servers, m \in Maps : MapChanges(t, s, m)
  \/ \E t \in MapTasks :
       \/ \E table \in {"change", "map"} : Select(t, table) \/ SelectFails(t, table)
       \/ \E s \in task[t].todo : LookUp(t, s)
       \/ Send(t) \/ RemoveDead(t) \/ MarkTriggered(t) \/ Done(t)

NotifySpec == NotifyInit /\ [][NotifyNext]_notifyVars

-----------------------------------------------------------------------------
(* "One-time": a subscription is used up only by a task that tried to reach   *)
(* the user for it, unless the query for the endpoint failed. The row that a  *)
(* task marks may have been withdrawn and asked for again meanwhile, and the  *)
(* push subscription it belongs to may have been removed.                    *)
FiredMeansTried == \A r \in rows : r.triggered => "ever" \in r.tries \/ "look" \in r.lost

AboutToMark(id) == \E t \in MapTasks : task[t].at \in {"remove", "mark"} /\ task[t].row.id = id

(* Once a push for a subscription was tried it waits for no other change,    *)
(* delivered or not: it is fired, or a task is about to mark it, unless that  *)
(* task was lost or its update failed.                                        *)
OneTimeIsUsedUp ==
  \A r \in rows : "since" \in r.tries => r.triggered \/ "mark" \in r.lost \/ AboutToMark(r.id)

(* accounts.rs: "Re-subscribing clears a subscription that already fired." What *)
(* was asked for again is pending until a push for it is tried.               *)
ReSubscribingClears == \A r \in rows : r.triggered => "since" \in r.tries
=============================================================================
