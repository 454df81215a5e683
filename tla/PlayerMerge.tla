----------------------------- MODULE PlayerMerge ----------------------------
(***************************************************************************)
(* Merging profiles that are tracked by name into Steam accounts, and       *)
(* undoing it (src/src/core/player_merge.rs and its callers in              *)
(* src/src/routers/accounts.rs): transactions of several moderators and     *)
(* users, and the game server that records sessions meanwhile. Every write  *)
(* of a transaction appears with its commit; what it read before, and the   *)
(* rows it locked, are kept with it. Names and derived statistics are not    *)
(* modelled.                                                               *)
(***************************************************************************)
EXTENDS Absent

CONSTANTS
  Fakes,    \* profiles tracked by name
  Steams,   \* profiles of Steam accounts
  Linkable, \* bound: profiles that moderators link and unlink
  Callers,  \* bound: accounts whose users merge their own profiles
  Sessions, \* bound: sessions that are ever recorded
  MergeIds, \* bound: rows of website.player_merges, each used once
  Txs       \* transactions at one time

Profiles == Fakes \union Steams

MergeAssumption ==
  /\ Linkable \subseteq Profiles /\ Callers \subseteq Steams
  /\ Fakes \cap Steams = {}
  /\ None \notin Profiles /\ None \notin MergeIds /\ None \notin Txs

VARIABLES
  associated, \* player.associated_player_id
  merged,     \* player.merged_at is set: a tombstone
  merges,     \* player_merges, each with its player_merge_sessions
  owner,      \* player_server_session.player_id
  origin,     \* history: the profile a session was recorded for
  lock,       \* the transaction that holds a name-tracked profile FOR UPDATE
  tx          \* the transactions

mergeVars == <<associated, merged, merges, owner, origin, lock, tx>>

NoTx == [at |-> "none", player |-> None, into |-> None, todo |-> {}, staged |-> {}, seen |-> None]

(* COALESCE(associated_player_id, player_id) *)
Canonical(p) == IF associated[p] = None THEN p ELSE associated[p]

NoMerge == [from |-> None, into |-> None, sessions |-> {}, is |-> "free"]

Active(m) == merges[m].is = "active"
ActiveMerges(f) == {m \in MergeIds : Active(m) /\ merges[m].from = f}
SessionsOf(p) == {x \in Sessions : owner[x] = p}

(* Profiles may have been linked before there were merges. *)
MergeInit ==
  /\ associated \in {a \in [Profiles -> Steams \union {None}] : \A s \in Steams : a[s] = None}
  /\ merged = [f \in Fakes |-> FALSE]
  /\ merges = [m \in MergeIds |-> NoMerge]
  /\ owner = [x \in Sessions |-> None] /\ origin = owner
  /\ lock = [f \in Fakes |-> None]
  /\ tx = [r \in Txs |-> NoTx]

Go(r, t) == tx' = [tx EXCEPT ![r] = t]
Unlocked(r) == [f \in Fakes |-> IF lock[f] = r THEN None ELSE lock[f]]
Repointed(a, p, c) == [q \in Profiles |-> IF a[q] = p THEN c ELSE a[q]]

tables == <<associated, merged, merges, owner, origin>>

-----------------------------------------------------------------------------
(* set_associated_player with a target: an approved claim, or a moderator's own *)
(* choice. Its canonical profile is read first; it must be another's and Steam's. *)
Link(r, p, target) ==
  LET c == Canonical(target) IN
  /\ tx[r] = NoTx
  /\ c \in Steams /\ c # p
  /\ Go(r, IF p \in Fakes
             THEN [NoTx EXCEPT !.at = "lock", !.player = p, !.into = c, !.todo = {p}]
             ELSE [NoTx EXCEPT !.at = "link", !.player = p, !.into = c])
  /\ UNCHANGED <<tables, lock>>

(* A Steam account is only linked, and its aliases with it. *)
LinkSteam(r) ==
  LET t == tx[r] IN
  /\ t.at = "link"
  /\ associated' = Repointed([associated EXCEPT ![t.player] = t.into], t.player, t.into)
  /\ Go(r, NoTx)
  /\ UNCHANGED <<merged, merges, owner, origin, lock>>

(* merge_my_accounts: the caller's canonical profile is read before the *)
(* transaction, and the profiles to merge at its beginning.             *)
MergeMine(r, s) ==
  /\ tx[r] = NoTx
  /\ Go(r, [NoTx EXCEPT !.at = "list", !.into = Canonical(s)])
  /\ UNCHANGED <<tables, lock>>

ListMine(r) ==
  LET t == tx[r] IN
  /\ t.at = "list"
  /\ \E some \in SUBSET {f \in Fakes : associated[f] = t.into /\ ~merged[f]} :
       Go(r, [t EXCEPT !.at = "lock", !.todo = some])
  /\ UNCHANGED <<tables, lock>>

(* Mutant of Lock: the row is read, not locked. *)
LockNothing(r, f) ==
  LET t == tx[r] IN
  /\ t.at = "lock" /\ f \in t.todo
  /\ Go(r, IF merged[f] /\ associated[f] = t.into
             THEN [t EXCEPT !.todo = @ \ {f}]
             ELSE [t EXCEPT !.at = "record", !.player = f])
  /\ UNCHANGED <<tables, lock>>

(* merge_player's SELECT ... FOR UPDATE. A profile that is merged and linked *)
(* there already needs nothing.                                             *)
Lock(r, f) ==
  LET t == tx[r] IN
  /\ t.at = "lock" /\ f \in t.todo
  /\ lock[f] = None
  /\ lock' = [lock EXCEPT ![f] = r]
  /\ Go(r, IF merged[f] /\ associated[f] = t.into
             THEN [t EXCEPT !.todo = @ \ {f}]
             ELSE [t EXCEPT !.at = "record", !.player = f])
  /\ UNCHANGED tables

(* The merge of a profile that is merged elsewhere is reverted first; then the *)
(* sessions it has are listed.                                                 *)
Record(r) ==
  LET t == tx[r]
      f == t.player
      old == IF merged[f] THEN ActiveMerges(f) ELSE {}
  IN
  /\ t.at = "record"
  /\ Go(r, [t EXCEPT !.at = "lock", !.todo = @ \ {f},
                     !.staged = @ \union
                       {[fake |-> f, old |-> old,
                         sessions |-> SessionsOf(f) \union UNION {merges[m].sessions : m \in old}]}])
  /\ UNCHANGED <<tables, lock>>

(* A merge that is reverted has no sessions any more. *)
Reverted(m) == [merges[m] EXCEPT !.is = "reverted", !.sessions = {}]

(* What a transaction reverts, moves and merges. *)
OldRows(t) == UNION {e.old : e \in t.staged}
Moved(t) == {x \in Sessions : \E e \in t.staged :
               owner[x] = e.fake \/ \E m \in e.old : x \in merges[m].sessions}
MergedBy(t) == {e.fake : e \in t.staged}

(* Each of its merges gets a row of its own. *)
SessionRows(t) == {id \in [t.staged -> {m \in MergeIds : merges[m].is = "free"}] :
              \A e, g \in t.staged : id[e] = id[g] => e = g}

MergeOf(e, into) == [from |-> e.fake, into |-> into, sessions |-> e.sessions, is |-> "active"]

(* Sessions are moved by the profile they are with, and the profile becomes a *)
(* tombstone; all of it is there with the commit. Nobody is linked to a       *)
(* profile that is tracked by name: there are no aliases to re-point.         *)
CommitMerges(r) ==
  LET t == tx[r] IN
  /\ t.at = "lock" /\ t.todo = {}
  /\ \E id \in SessionRows(t) :
       merges' = [m \in MergeIds |->
                    IF m \in OldRows(t) THEN Reverted(m)
                    ELSE IF \E e \in t.staged : id[e] = m
                      THEN MergeOf(CHOOSE e \in t.staged : id[e] = m, t.into)
                    ELSE merges[m]]
  /\ owner' = [x \in Sessions |-> IF x \in Moved(t) THEN t.into ELSE owner[x]]
  /\ merged' = [f \in Fakes |-> f \in MergedBy(t) \/ merged[f]]
  /\ associated' = [p \in Profiles |-> IF p \in MergedBy(t) THEN t.into ELSE associated[p]]
  /\ lock' = Unlocked(r)
  /\ Go(r, NoTx)
  /\ UNCHANGED origin

-----------------------------------------------------------------------------
(* set_associated_player without one: revert_merge looks for the merge. *)
Unlink(r, p) ==
  /\ tx[r] = NoTx
  /\ \E m \in IF ActiveMerges(p) = {} THEN {None} ELSE ActiveMerges(p) :
       Go(r, [NoTx EXCEPT !.at = "unlink", !.player = p, !.seen = m])
  /\ UNCHANGED <<tables, lock>>

(* Mutant of Restored: all sessions of the Steam account are taken. *)
RestoredAll(m) == SessionsOf(merges[m].into)

Restored(m) == merges[m].sessions

(* It waits for whoever has locked the row; the merge it saw may be reverted by *)
(* then, which makes it none. The link is cleared either way.                   *)
UnlinkEnds(r) ==
  LET t == tx[r] IN
  /\ t.at = "unlink"
  /\ t.player \in Fakes => lock[t.player] = None
  /\ IF t.seen # None /\ Active(t.seen)
       THEN /\ owner' = [x \in Sessions |-> IF x \in Restored(t.seen) THEN t.player ELSE owner[x]]
            /\ merges' = [merges EXCEPT ![t.seen] = Reverted(t.seen)]
            /\ merged' = [merged EXCEPT ![t.player] = FALSE]
       ELSE UNCHANGED <<owner, merges, merged>>
  /\ associated' = [associated EXCEPT ![t.player] = None]
  /\ Go(r, NoTx)
  /\ UNCHANGED <<origin, lock>>

(* An error, a deadlock or a crash: nothing was written. *)
Rollback(r) ==
  /\ tx[r] # NoTx
  /\ Go(r, NoTx)
  /\ lock' = Unlocked(r)
  /\ UNCHANGED tables

(* A session is recorded, by whoever tracks the game server. Its row refers to *)
(* the profile's, and waits where that is locked.                              *)
OpenSession(x, p) ==
  /\ origin[x] = None
  /\ p \in Fakes => lock[p] = None
  /\ owner' = [owner EXCEPT ![x] = p] /\ origin' = [origin EXCEPT ![x] = p]
  /\ UNCHANGED <<associated, merged, merges, lock, tx>>

MergeNext ==
  \/ \E r \in Txs :
       \/ \E p \in Linkable : Unlink(r, p) \/ \E target \in Profiles : Link(r, p, target)
       \/ \E s \in Callers : MergeMine(r, s)
       \/ \E f \in Fakes : Lock(r, f)
       \/ LinkSteam(r) \/ ListMine(r) \/ Record(r) \/ CommitMerges(r) \/ UnlinkEnds(r) \/ Rollback(r)
  \/ \E x \in Sessions, p \in Profiles : OpenSession(x, p)

MergeSpec == MergeInit /\ [][MergeNext]_mergeVars

-----------------------------------------------------------------------------
(* Properties *)

Merge ==
  [from : Fakes \union {None}, into : Steams \union {None}, sessions : SUBSET Sessions,
   is : {"free", "active", "reverted"}]
Staged == [fake : Fakes, old : SUBSET MergeIds, sessions : SUBSET Sessions]
Tx ==
  [at : {"none", "link", "list", "lock", "record", "unlink"},
   player : Profiles \union {None}, into : Steams \union {None},
   todo : SUBSET Fakes, staged : SUBSET Staged, seen : MergeIds \union {None}]

MergeTypeOK ==
  /\ associated \in [Profiles -> Steams \union {None}]
  /\ merged \in [Fakes -> BOOLEAN]
  /\ merges \in [MergeIds -> Merge]
  /\ owner \in [Sessions -> Profiles \union {None}]
  /\ origin \in [Sessions -> Profiles \union {None}]
  /\ lock \in [Fakes -> Txs \union {None}]
  /\ tx \in [Txs -> Tx]

(* No session is lost, and none goes to an account it was not merged into: a  *)
(* session is with the profile it was recorded for, or with the account that   *)
(* profile is merged into, on the list that takes it back; however links,      *)
(* merges, reverts and new sessions overlap.                                   *)
SessionsAreKept ==
  \A x \in Sessions : origin[x] # owner[x] =>
    \E m \in MergeIds :
      /\ Active(m) /\ x \in merges[m].sessions
      /\ merges[m].from = origin[x] /\ merges[m].into = owner[x]

(* A profile is a tombstone exactly as long as it has a merge to revert, and *)
(* it never has two.                                                         *)
TombstonesHaveTheirMerge ==
  \A f \in Fakes :
    IF merged[f] THEN \E m \in MergeIds : ActiveMerges(f) = {m} ELSE ActiveMerges(f) = {}
=============================================================================
