--------------------------- MODULE Records_proofs ---------------------------
(***************************************************************************)
(* What the server keeps for good. Merges of profiles, for any profiles,   *)
(* sessions and transactions; one-time notifications, for any servers,     *)
(* maps, browsers, tasks and faults; the upload of a model, for any number *)
(* of chunks, attempts, tries and requests at the server: it implements    *)
(* ModelStore, provided that a completion's handler is dropped with its    *)
(* connection. Two completions at once would share one assembled file.     *)
(***************************************************************************)
EXTENDS PlayerMerge, MapNotify, ChunkedUpload, TLAPS

-----------------------------------------------------------------------------
(* Merges of profiles *)

(* What a transaction has read. *)
TxOK(t) ==
  /\ t.at \in {"link", "list", "lock", "record"} => t.into \in Steams
  /\ t.at = "link" => t.player \in Profiles
  /\ t.at = "record" => t.player \in Fakes
  /\ t.at = "unlink" =>
       /\ t.player \in Profiles
       /\ t.seen # None =>
            /\ t.seen \in MergeIds
            /\ merges[t.seen].is # "free" /\ merges[t.seen].from = t.player

(* What it has staged is still true of the profile. *)
StagedOK(e) ==
  /\ e.old = ActiveMerges(e.fake)
  /\ e.sessions = SessionsOf(e.fake) \union UNION {merges[m].sessions : m \in e.old}

(* And it holds the lock of the profiles it works on. *)
TxInv == \A r \in Txs : TxOK(tx[r]) /\ (tx[r].at = "record" => lock[tx[r].player] = r)
StagedInv == \A r \in Txs : \A e \in tx[r].staged : StagedOK(e) /\ lock[e.fake] = r

(* An active merge holds sessions of its profile, a tombstone, and no other *)
(* merge is active for it.                                                  *)
MergesInv ==
  /\ \A m \in MergeIds : Active(m) =>
       /\ merges[m].from \in Fakes /\ merges[m].into \in Steams
       /\ merged[merges[m].from]
       /\ \A x \in merges[m].sessions : origin[x] = merges[m].from /\ owner[x] = merges[m].into
  /\ \A m, n \in MergeIds : Active(m) /\ Active(n) /\ merges[m].from = merges[n].from => m = n
  /\ \A f \in Fakes : merged[f] => \E m \in MergeIds : Active(m) /\ merges[m].from = f

MergeInv == MergeTypeOK /\ TxInv /\ StagedInv /\ MergesInv /\ SessionsAreKept

-----------------------------------------------------------------------------
(* Facts about a state. *)

(* A session that is with a name-tracked profile was recorded for it. *)
LEMMA FakesKeepTheirOwn ==
  ASSUME MergeAssumption, MergeTypeOK, MergesInv, SessionsAreKept,
         NEW x \in Sessions, owner[x] \in Fakes
  PROVE  origin[x] = owner[x]
BY DEF MergeAssumption, MergesInv, SessionsAreKept

(* What is merged is active, of the profile it is recorded for. *)
LEMMA TombstonesFollow ==
  ASSUME MergeAssumption, MergeTypeOK, MergesInv
  PROVE  TombstonesHaveTheirMerge
<1> SUFFICES ASSUME NEW f \in Fakes
             PROVE  IF merged[f] THEN \E m \in MergeIds : ActiveMerges(f) = {m}
                                 ELSE ActiveMerges(f) = {}
  BY DEF TombstonesHaveTheirMerge
<1>1. CASE merged[f]
  <2>1. PICK m \in MergeIds : Active(m) /\ merges[m].from = f
    BY <1>1 DEF MergesInv
  <2>2. ActiveMerges(f) = {m}
    BY <2>1 DEF MergesInv, ActiveMerges
  <2> QED
    BY <1>1, <2>2
<1>2. CASE ~merged[f]
  BY <1>2 DEF MergesInv, ActiveMerges
<1> QED
  BY <1>1, <1>2

(* What a merge that is staged takes: sessions recorded for its profile. *)
LEMMA StagedSessions ==
  ASSUME MergeAssumption, MergeInv, NEW r \in Txs, NEW e \in tx[r].staged
  PROVE  /\ e.fake \in Fakes /\ e.old \subseteq MergeIds /\ e.sessions \subseteq Sessions
         /\ \A m \in e.old : Active(m) /\ merges[m].from = e.fake
         /\ \A m \in MergeIds : Active(m) /\ merges[m].from = e.fake => m \in e.old
         /\ \A x \in e.sessions : origin[x] = e.fake
         /\ \A x \in Sessions : x \in e.sessions <=>
              (owner[x] = e.fake \/ \E m \in e.old : x \in merges[m].sessions)
<1>1. e \in Staged
  BY DEF MergeInv, MergeTypeOK, Tx
<1>2. e.fake \in Fakes /\ e.old \subseteq MergeIds /\ e.sessions \subseteq Sessions
  BY <1>1 DEF Staged
<1>3. /\ e.old = ActiveMerges(e.fake)
      /\ e.sessions = SessionsOf(e.fake) \union UNION {merges[m].sessions : m \in e.old}
  BY DEF MergeInv, StagedInv, StagedOK
<1>4. \A m \in e.old : Active(m) /\ merges[m].from = e.fake
  BY <1>3 DEF ActiveMerges
<1>5. \A m \in MergeIds : Active(m) /\ merges[m].from = e.fake => m \in e.old
  BY <1>3 DEF ActiveMerges
<1>6. \A x \in Sessions : x \in e.sessions <=>
        (owner[x] = e.fake \/ \E m \in e.old : x \in merges[m].sessions)
  BY <1>3 DEF SessionsOf
<1>7. \A x \in e.sessions : origin[x] = e.fake
  BY <1>2, <1>4, <1>6, FakesKeepTheirOwn DEF MergeInv, MergesInv
<1> QED
  BY <1>2, <1>4, <1>5, <1>6, <1>7

-----------------------------------------------------------------------------
(* Steps of the transactions that only read or lock: they write no table. *)

Quiet == UNCHANGED <<merged, merges, owner, origin>>

(* Two transactions are untouched by what a third does. *)
LEMMA GoMoves ==
  ASSUME MergeTypeOK, NEW r \in Txs, NEW t, Go(r, t), NEW q \in Txs
  PROVE  tx'[q] = IF q = r THEN t ELSE tx[q]
BY DEF MergeTypeOK, Go

(* Locks are only handed back by their holder. *)
LEMMA UnlockedCases ==
  ASSUME MergeTypeOK, NEW r \in Txs, lock' = Unlocked(r)
  PROVE  /\ lock' \in [Fakes -> Txs \union {None}]
         /\ \A f \in Fakes : lock[f] # r => lock'[f] = lock[f]
BY DEF MergeTypeOK, Unlocked

LEMMA TypesKept ==
  ASSUME MergeAssumption, MergeTypeOK, TxInv, [MergeNext]_mergeVars
  PROVE  MergeTypeOK'
<1> USE DEF Profiles
<1>0. NoTx \in Tx
  BY DEF NoTx, Tx
<1>c. ASSUME NEW p \in Profiles PROVE Canonical(p) \in Profiles
  BY <1>c DEF Canonical, MergeTypeOK
<1>1. ASSUME NEW r \in Txs, NEW p \in Linkable, Unlink(r, p)
      PROVE  MergeTypeOK'
  <2>1. PICK m \in IF ActiveMerges(p) = {} THEN {None} ELSE ActiveMerges(p) :
          Go(r, [NoTx EXCEPT !.at = "unlink", !.player = p, !.seen = m])
    BY <1>1 DEF Unlink
  <2>2. m \in MergeIds \union {None}
    BY DEF ActiveMerges
  <2>3. p \in Profiles
    BY DEF MergeAssumption
  <2>4. [NoTx EXCEPT !.at = "unlink", !.player = p, !.seen = m] \in Tx
    BY <2>2, <2>3 DEF NoTx, Tx
  <2> QED
    BY <1>1, <2>1, <2>4 DEF Unlink, tables, MergeTypeOK, Go
<1>2. ASSUME NEW r \in Txs, NEW p \in Linkable, NEW target \in Profiles, Link(r, p, target)
      PROVE  MergeTypeOK'
  <2> DEFINE c == Canonical(target)
             t == IF p \in Fakes
                    THEN [NoTx EXCEPT !.at = "lock", !.player = p, !.into = c, !.todo = {p}]
                    ELSE [NoTx EXCEPT !.at = "link", !.player = p, !.into = c]
  <2>1. c \in Steams /\ p \in Profiles /\ Go(r, t)
    BY <1>2 DEF Link, MergeAssumption
  <2>2. t \in Tx
    BY <2>1 DEF NoTx, Tx
  <2> QED
    BY <1>2, <2>1, <2>2 DEF Link, tables, MergeTypeOK, Go
<1>3. ASSUME NEW r \in Txs, NEW s \in Callers, MergeMine(r, s)
      PROVE  MergeTypeOK'
  <2>1. Canonical(s) \in Steams
    BY DEF MergeAssumption, Canonical, MergeTypeOK
  <2>2. [NoTx EXCEPT !.at = "list", !.into = Canonical(s)] \in Tx
    BY <2>1 DEF NoTx, Tx
  <2> QED
    BY <1>3, <2>2 DEF MergeMine, tables, MergeTypeOK, Go
<1>4. ASSUME NEW r \in Txs, NEW f \in Fakes, Lock(r, f)
      PROVE  MergeTypeOK'
  <2> DEFINE t == IF merged[f] /\ associated[f] = tx[r].into
                    THEN [tx[r] EXCEPT !.todo = @ \ {f}]
                    ELSE [tx[r] EXCEPT !.at = "record", !.player = f]
  <2>1. tx[r] \in Tx
    BY DEF MergeTypeOK
  <2>2. t \in Tx
    BY <2>1 DEF Tx
  <2>3. Go(r, t)
    BY <1>4 DEF Lock
  <2>4. tx' \in [Txs -> Tx]
    BY <2>2, <2>3 DEF Go, MergeTypeOK
  <2>5. lock' \in [Fakes -> Txs \union {None}]
    BY <1>4 DEF Lock, MergeTypeOK
  <2> QED
    BY <1>4, <2>4, <2>5 DEF Lock, tables, MergeTypeOK
<1>5. ASSUME NEW r \in Txs, LinkSteam(r)
      PROVE  MergeTypeOK'
  <2>1. tx[r].at = "link" /\ tx[r].into \in Steams /\ tx[r].player \in Profiles
    BY <1>5 DEF LinkSteam, TxInv, TxOK
  <2>2. associated' \in [Profiles -> Steams \union {None}]
    BY <1>5, <2>1 DEF LinkSteam, Repointed, MergeTypeOK
  <2> QED
    BY <1>0, <1>5, <2>2 DEF LinkSteam, MergeTypeOK, Go
<1>6. ASSUME NEW r \in Txs, ListMine(r)
      PROVE  MergeTypeOK'
  <2>1. PICK some \in SUBSET {f \in Fakes : associated[f] = tx[r].into /\ ~merged[f]} :
          Go(r, [tx[r] EXCEPT !.at = "lock", !.todo = some])
    BY <1>6 DEF ListMine
  <2>2. tx[r] \in Tx /\ some \in SUBSET Fakes
    BY DEF MergeTypeOK
  <2>3. [tx[r] EXCEPT !.at = "lock", !.todo = some] \in Tx
    BY <2>2 DEF Tx
  <2> QED
    BY <1>6, <2>1, <2>3 DEF ListMine, tables, MergeTypeOK, Go
<1>7. ASSUME NEW r \in Txs, Record(r)
      PROVE  MergeTypeOK'
  <2> DEFINE f == tx[r].player
             old == IF merged[f] THEN ActiveMerges(f) ELSE {}
             e == [fake |-> f, old |-> old,
                   sessions |-> SessionsOf(f) \union UNION {merges[m].sessions : m \in old}]
  <2>1. f \in Fakes
    BY <1>7 DEF Record, TxInv, TxOK
  <2>2. old \subseteq MergeIds
    BY DEF ActiveMerges
  <2>3. \A m \in old : merges[m].sessions \subseteq Sessions
    BY <2>2 DEF MergeTypeOK, Merge
  <2>4. SessionsOf(f) \subseteq Sessions
    BY DEF SessionsOf
  <2> HIDE DEF old
  <2>5. e \in Staged
    BY <2>1, <2>2, <2>3, <2>4 DEF Staged
  <2> HIDE DEF e
  <2>6. [tx[r] EXCEPT !.at = "lock", !.todo = @ \ {f}, !.staged = @ \union {e}] \in Tx
    BY <2>5 DEF MergeTypeOK, Tx
  <2>7. Go(r, [tx[r] EXCEPT !.at = "lock", !.todo = @ \ {f}, !.staged = @ \union {e}])
    BY <1>7 DEF Record, e, old
  <2> QED
    BY <1>7, <2>6, <2>7 DEF Record, tables, MergeTypeOK, Go
<1>8. ASSUME NEW r \in Txs, CommitMerges(r)
      PROVE  MergeTypeOK'
  <2> DEFINE t == tx[r]
  <2>1. t.into \in Steams /\ t \in Tx /\ t.staged \subseteq Staged
    BY <1>8 DEF CommitMerges, TxInv, TxOK, MergeTypeOK, Tx
  <2>2. PICK id \in SessionRows(t) :
       merges' = [m \in MergeIds |->
                    IF m \in OldRows(t) THEN Reverted(m)
                    ELSE IF \E e \in t.staged : id[e] = m
                      THEN MergeOf(CHOOSE e \in t.staged : id[e] = m, t.into)
                    ELSE merges[m]]
    BY <1>8 DEF CommitMerges
  <2>3. \A m \in MergeIds : Reverted(m) \in Merge
    BY DEF Reverted, MergeTypeOK, Merge
  <2>4. \A e \in t.staged : MergeOf(e, t.into) \in Merge
    BY <2>1 DEF MergeOf, Staged, Merge
  <2>5. merges' \in [MergeIds -> Merge]
    BY <2>2, <2>3, <2>4 DEF MergeTypeOK
  <2>6. merged' \in [Fakes -> BOOLEAN] /\ owner' \in [Sessions -> Profiles \union {None}]
    BY <1>8, <2>1 DEF CommitMerges, MergeTypeOK
  <2>7. associated' \in [Profiles -> Steams \union {None}]
    BY <1>8, <2>1 DEF CommitMerges, MergeTypeOK
  <2>8. lock' \in [Fakes -> Txs \union {None}]
    BY <1>8, UnlockedCases DEF CommitMerges
  <2> QED
    BY <1>0, <1>8, <2>5, <2>6, <2>7, <2>8 DEF CommitMerges, MergeTypeOK, Go
<1>9. ASSUME NEW r \in Txs, UnlinkEnds(r)
      PROVE  MergeTypeOK'
  <2> DEFINE t == tx[r]
  <2>1. t.player \in Profiles
    BY <1>9 DEF UnlinkEnds, TxInv, TxOK
  <2>2. associated' \in [Profiles -> Steams \union {None}] /\ tx' \in [Txs -> Tx]
    BY <1>0, <1>9, <2>1 DEF UnlinkEnds, MergeTypeOK, Go
  <2>3. CASE t.seen # None /\ Active(t.seen)
    <3>1. t.seen \in MergeIds
      BY <1>9, <2>3 DEF UnlinkEnds, TxInv, TxOK
    <3> DEFINE m == merges[t.seen]
    <3>m. m \in Merge
      BY <3>1 DEF MergeTypeOK
    <3> HIDE DEF m
    <3>2. Reverted(t.seen) \in Merge
      <4>1. [m EXCEPT !.is = "reverted", !.sessions = {}] \in Merge
        BY <3>m DEF Merge
      <4> QED
        BY <4>1 DEF Reverted, m
    <3>3. /\ owner' = [x \in Sessions |-> IF x \in Restored(t.seen) THEN t.player ELSE owner[x]]
          /\ merges' = [merges EXCEPT ![t.seen] = Reverted(t.seen)]
          /\ merged' = [merged EXCEPT ![t.player] = FALSE]
          /\ UNCHANGED <<origin, lock>>
      BY <1>9, <2>3 DEF UnlinkEnds
    <3>4. merges' \in [MergeIds -> Merge] /\ merged' \in [Fakes -> BOOLEAN]
      BY <3>2, <3>3 DEF MergeTypeOK
    <3>5. owner' \in [Sessions -> Profiles \union {None}]
      BY <2>1, <3>3 DEF MergeTypeOK
    <3> QED
      BY <2>2, <3>3, <3>4, <3>5 DEF MergeTypeOK
  <2>4. CASE ~(t.seen # None /\ Active(t.seen))
    BY <1>9, <2>2, <2>4 DEF UnlinkEnds, MergeTypeOK
  <2> QED
    BY <2>3, <2>4
<1>10. ASSUME NEW r \in Txs, Rollback(r)
       PROVE  MergeTypeOK'
  <2>1. lock' \in [Fakes -> Txs \union {None}]
    BY <1>10, UnlockedCases DEF Rollback
  <2> QED
    BY <1>0, <1>10, <2>1 DEF Rollback, tables, MergeTypeOK, Go
<1>11. ASSUME NEW x \in Sessions, NEW p \in Profiles, OpenSession(x, p)
       PROVE  MergeTypeOK'
  BY <1>11 DEF OpenSession, MergeTypeOK
<1>12. CASE UNCHANGED mergeVars
  BY <1>12 DEF mergeVars, MergeTypeOK
<1> QED
  BY <1>1, <1>2, <1>3, <1>4, <1>5, <1>6, <1>7, <1>8, <1>9, <1>10, <1>11, <1>12 DEF MergeNext

-----------------------------------------------------------------------------
(* The invariant is kept by steps that write no merge and no session. *)

LEMMA QuietStep ==
  ASSUME MergeAssumption, MergeInv, Quiet, NEW r \in Txs, NEW t, Go(r, t),
         \A f \in Fakes : lock[f] # None /\ lock[f] # r => lock'[f] = lock[f],
         TxOK(t), t.at = "record" => lock'[t.player] = r,
         \A e \in t.staged : StagedOK(e) /\ lock'[e.fake] = r
  PROVE  TxInv' /\ StagedInv' /\ MergesInv' /\ SessionsAreKept'
<1>1. \A q \in Txs : tx'[q] = IF q = r THEN t ELSE tx[q]
  BY GoMoves DEF MergeInv
<1>2. \A q \in Txs : q # None
  BY DEF MergeAssumption
<1>4. \A e : StagedOK(e) => StagedOK(e)'
  BY DEF Quiet, StagedOK, ActiveMerges, Active, SessionsOf
<1>5. TxInv'
  <2> SUFFICES ASSUME NEW q \in Txs
               PROVE  (TxOK(tx[q]) /\ (tx[q].at = "record" => lock[tx[q].player] = q))'
    BY DEF TxInv
  <2>1. CASE q = r
    BY <1>1, <2>1 DEF TxOK, Quiet
  <2>2. CASE q # r
    <3>1. tx'[q] = tx[q] /\ TxOK(tx[q]) /\ (tx[q].at = "record" => lock[tx[q].player] = q)
      BY <1>1, <2>2 DEF MergeInv, TxInv
    <3>2. tx[q].at = "record" => tx[q].player \in Fakes
      BY <3>1 DEF TxOK
    <3> QED
      BY <1>2, <2>2, <3>1, <3>2 DEF TxOK, Quiet
  <2> QED
    BY <2>1, <2>2
<1>6. StagedInv'
  <2> SUFFICES ASSUME NEW q \in Txs, NEW e \in tx'[q].staged
               PROVE  StagedOK(e)' /\ lock'[e.fake] = q
    BY DEF StagedInv
  <2>1. CASE q = r
    BY <1>1, <1>4, <2>1
  <2>2. CASE q # r
    <3>1. e \in tx[q].staged
      BY <1>1, <2>2
    <3>2. StagedOK(e) /\ lock[e.fake] = q /\ e.fake \in Fakes
      BY <3>1, StagedSessions DEF MergeInv, StagedInv
    <3> QED
      BY <1>2, <1>4, <2>2, <3>2
  <2> QED
    BY <2>1, <2>2
<1>7. MergesInv' /\ SessionsAreKept'
  BY DEF MergeInv, Quiet, MergesInv, SessionsAreKept, Active
<1> QED
  BY <1>5, <1>6, <1>7

(* A transaction that is over leaves the others as they were. *)
LEMMA OverStep ==
  ASSUME MergeAssumption, MergeInv, Quiet, NEW r \in Txs, Go(r, NoTx),
         lock' = Unlocked(r) \/ lock' = lock
  PROVE  TxInv' /\ StagedInv' /\ MergesInv' /\ SessionsAreKept'
<1>1. \A f \in Fakes : lock[f] # None /\ lock[f] # r => lock'[f] = lock[f]
  BY UnlockedCases DEF MergeInv
<1>2. NoTx.at = "none" /\ NoTx.staged = {}
  BY DEF NoTx
<1>3. TxOK(NoTx)
  BY <1>2 DEF TxOK
<1> QED
  BY <1>1, <1>2, <1>3, QuietStep

LEMMA UnlinkKeeps ==
  ASSUME MergeAssumption, MergeInv, NEW r \in Txs, NEW p \in Linkable, Unlink(r, p)
  PROVE  TxInv' /\ StagedInv' /\ MergesInv' /\ SessionsAreKept'
<1>1. PICK m \in IF ActiveMerges(p) = {} THEN {None} ELSE ActiveMerges(p) :
        Go(r, [NoTx EXCEPT !.at = "unlink", !.player = p, !.seen = m])
  BY DEF Unlink
<1> DEFINE t == [NoTx EXCEPT !.at = "unlink", !.player = p, !.seen = m]
<1>2. t.at = "unlink" /\ t.player = p /\ t.seen = m /\ t.staged = {}
  BY DEF NoTx
<1>3. p \in Profiles /\ (m # None => m \in MergeIds /\ merges[m].is = "active" /\ merges[m].from = p)
  BY DEF MergeAssumption, ActiveMerges, Active
<1>4. Quiet /\ lock' = lock /\ Go(r, t)
  BY <1>1 DEF Unlink, tables, Quiet
<1> HIDE DEF t
<1>5. TxOK(t)
  BY <1>2, <1>3 DEF TxOK
<1> QED
  BY <1>2, <1>4, <1>5, QuietStep

LEMMA LinkKeeps ==
  ASSUME MergeAssumption, MergeInv, NEW r \in Txs, NEW p \in Linkable, NEW target \in Profiles,
         Link(r, p, target)
  PROVE  TxInv' /\ StagedInv' /\ MergesInv' /\ SessionsAreKept'
<1> DEFINE c == Canonical(target)
           t == IF p \in Fakes
                  THEN [NoTx EXCEPT !.at = "lock", !.player = p, !.into = c, !.todo = {p}]
                  ELSE [NoTx EXCEPT !.at = "link", !.player = p, !.into = c]
<1>1. Quiet /\ lock' = lock /\ Go(r, t) /\ c \in Steams
  BY DEF Link, tables, Quiet
<1>2. t.at \in {"lock", "link"} /\ t.player = p /\ t.into = c /\ t.staged = {}
  BY DEF NoTx
<1> HIDE DEF t, c
<1>3. TxOK(t)
  BY <1>1, <1>2 DEF TxOK, MergeAssumption
<1> QED
  BY <1>1, <1>2, <1>3, QuietStep

LEMMA MineKeeps ==
  ASSUME MergeAssumption, MergeInv, NEW r \in Txs,
         (\E s \in Callers : MergeMine(r, s)) \/ ListMine(r)
  PROVE  TxInv' /\ StagedInv' /\ MergesInv' /\ SessionsAreKept'
<1>1. ASSUME NEW s \in Callers, MergeMine(r, s)
      PROVE  TxInv' /\ StagedInv' /\ MergesInv' /\ SessionsAreKept'
  <2> DEFINE t == [NoTx EXCEPT !.at = "list", !.into = Canonical(s)]
  <2>1. Quiet /\ lock' = lock /\ Go(r, t)
    BY <1>1 DEF MergeMine, tables, Quiet
  <2>2. t.at = "list" /\ t.into \in Steams /\ t.staged = {}
    BY DEF NoTx, MergeAssumption, Canonical, MergeInv, MergeTypeOK, Profiles
  <2> HIDE DEF t
  <2>3. TxOK(t)
    BY <2>2 DEF TxOK
  <2> QED
    BY <2>1, <2>2, <2>3, QuietStep
<1>2. ASSUME ListMine(r)
      PROVE  TxInv' /\ StagedInv' /\ MergesInv' /\ SessionsAreKept'
  <2>1. PICK some \in SUBSET {f \in Fakes : associated[f] = tx[r].into /\ ~merged[f]} :
          Go(r, [tx[r] EXCEPT !.at = "lock", !.todo = some])
    BY <1>2 DEF ListMine
  <2> DEFINE t == [tx[r] EXCEPT !.at = "lock", !.todo = some]
  <2>2. Quiet /\ lock' = lock /\ Go(r, t)
    BY <1>2, <2>1 DEF ListMine, tables, Quiet
  <2>3. tx[r].at = "list" /\ TxOK(tx[r]) /\ tx[r] \in Tx
    BY <1>2 DEF ListMine, MergeInv, TxInv, MergeTypeOK
  <2>4. t.at = "lock" /\ t.into = tx[r].into /\ t.staged = tx[r].staged
    BY <2>3 DEF Tx
  <2> HIDE DEF t
  <2>5. TxOK(t)
    BY <2>3, <2>4 DEF TxOK
  <2>6. \A e \in t.staged : StagedOK(e) /\ lock'[e.fake] = r
    BY <2>2, <2>4 DEF MergeInv, StagedInv
  <2> QED
    BY <2>2, <2>4, <2>5, <2>6, QuietStep
<1> QED
  BY <1>1, <1>2

LEMMA LockKeeps ==
  ASSUME MergeAssumption, MergeInv, NEW r \in Txs, NEW f \in Fakes, Lock(r, f)
  PROVE  TxInv' /\ StagedInv' /\ MergesInv' /\ SessionsAreKept'
<1> DEFINE t == IF merged[f] /\ associated[f] = tx[r].into
                  THEN [tx[r] EXCEPT !.todo = @ \ {f}]
                  ELSE [tx[r] EXCEPT !.at = "record", !.player = f]
<1>1. Quiet /\ Go(r, t) /\ lock[f] = None /\ lock' = [lock EXCEPT ![f] = r]
  BY DEF Lock, tables, Quiet
<1>2. tx[r].at = "lock" /\ TxOK(tx[r]) /\ tx[r] \in Tx
  BY DEF Lock, MergeInv, TxInv, MergeTypeOK
<1>3. /\ t.at = "lock" \/ (t.at = "record" /\ t.player = f)
      /\ t.into = tx[r].into /\ t.staged = tx[r].staged
  BY <1>2 DEF Tx
<1> HIDE DEF t
<1>4. \A g \in Fakes : lock'[g] = IF g = f THEN r ELSE lock[g]
  BY <1>1 DEF MergeInv, MergeTypeOK
<1>5. TxOK(t)
  BY <1>2, <1>3 DEF TxOK
<1>6. \A e \in t.staged : StagedOK(e) /\ lock'[e.fake] = r
  BY <1>3, <1>4, StagedSessions DEF MergeInv, StagedInv
<1> QED
  BY <1>1, <1>3, <1>4, <1>5, <1>6, QuietStep

LEMMA RecordKeeps ==
  ASSUME MergeAssumption, MergeInv, NEW r \in Txs, Record(r)
  PROVE  TxInv' /\ StagedInv' /\ MergesInv' /\ SessionsAreKept'
<1> DEFINE f == tx[r].player
           old == IF merged[f] THEN ActiveMerges(f) ELSE {}
           e == [fake |-> f, old |-> old,
                 sessions |-> SessionsOf(f) \union UNION {merges[m].sessions : m \in old}]
           t == [tx[r] EXCEPT !.at = "lock", !.todo = @ \ {f}, !.staged = @ \union {e}]
<1>1. Quiet /\ lock' = lock /\ Go(r, t) /\ tx[r].at = "record"
  BY DEF Record, tables, Quiet
<1>2. TxOK(tx[r]) /\ f \in Fakes /\ lock[f] = r /\ tx[r] \in Tx
  BY <1>1 DEF MergeInv, TxInv, TxOK, MergeTypeOK
<1>3. old = ActiveMerges(f)
  BY <1>2 DEF MergeInv, MergesInv, ActiveMerges
<1>4. StagedOK(e) /\ e.fake = f
  BY <1>3 DEF StagedOK
<1> HIDE DEF e, old
<1>5. t.at = "lock" /\ t.into = tx[r].into /\ t.staged = tx[r].staged \union {e}
  BY <1>2 DEF Tx
<1> HIDE DEF t
<1>6. TxOK(t)
  BY <1>1, <1>2, <1>5 DEF TxOK
<1>7. \A g \in t.staged : StagedOK(g) /\ lock'[g.fake] = r
  BY <1>1, <1>2, <1>4, <1>5 DEF MergeInv, StagedInv
<1> QED
  BY <1>1, <1>5, <1>6, <1>7, QuietStep

-----------------------------------------------------------------------------
(* The steps that move sessions. *)

(* An unlink gives back the sessions of the merge it found, if that one is     *)
(* still active: no other transaction has staged it, for the profile is free.  *)
LEMMA UnlinkEndsKeeps ==
  ASSUME MergeAssumption, MergeInv, NEW r \in Txs, UnlinkEnds(r)
  PROVE  TxInv' /\ StagedInv' /\ MergesInv' /\ SessionsAreKept'
<1> DEFINE p == tx[r].player
           n == tx[r].seen
<1>1. tx[r].at = "unlink" /\ Go(r, NoTx) /\ UNCHANGED <<origin, lock>> /\ (p \in Fakes => lock[p] = None)
  BY DEF UnlinkEnds
<1>2. CASE ~(n # None /\ Active(n))
  <2>1. Quiet
    BY <1>1, <1>2 DEF UnlinkEnds, Quiet
  <2> QED
    BY <1>1, <2>1, OverStep
<1>3. CASE n # None /\ Active(n)
  <2>1. n \in MergeIds /\ merges[n].from = p
    BY <1>1, <1>3 DEF MergeInv, TxInv, TxOK
  <2>2. p \in Fakes /\ lock[p] = None
    BY <1>1, <1>3, <2>1 DEF MergeInv, MergesInv
  <2>3. \A m \in MergeIds :
          /\ m # n => merges'[m] = merges[m]
          /\ m = n => /\ merges'[m].is = "reverted" /\ merges'[m].sessions = {}
                      /\ merges'[m].from = p
    <3>1. merges' = [merges EXCEPT ![n] = Reverted(n)]
      BY <1>3 DEF UnlinkEnds
    <3>2. merges[n] \in Merge
      BY <2>1 DEF MergeInv, MergeTypeOK
    <3>3. Reverted(n).is = "reverted" /\ Reverted(n).sessions = {} /\ Reverted(n).from = p
      BY <2>1, <3>2 DEF Reverted, Merge
    <3> QED
      BY <2>1, <3>1, <3>3 DEF MergeInv, MergeTypeOK
  <2>4. \A x \in Sessions : owner'[x] = IF x \in merges[n].sessions THEN p ELSE owner[x]
    BY <1>3 DEF UnlinkEnds, Restored
  <2>5. \A f \in Fakes : merged'[f] = IF f = p THEN FALSE ELSE merged[f]
    BY <1>3 DEF UnlinkEnds, MergeInv, MergeTypeOK
  <2>6. \A x \in merges[n].sessions : x \in Sessions /\ origin[x] = p /\ owner[x] \in Steams
    BY <1>3, <2>1 DEF MergeInv, MergeTypeOK, Merge, MergesInv
  <2>7. \A m \in MergeIds : Active(m)' <=> m # n /\ Active(m)
    BY <2>3 DEF Active
  <2>8. \A m \in MergeIds : Active(m) /\ m # n => merges[m].from # p
    BY <1>3, <2>1 DEF MergeInv, MergesInv
  <2>9. MergesInv'
    <3>1. ASSUME NEW m \in MergeIds, Active(m)'
          PROVE  (/\ merges[m].from \in Fakes /\ merges[m].into \in Steams
                  /\ merged[merges[m].from]
                  /\ \A x \in merges[m].sessions : origin[x] = merges[m].from /\ owner[x] = merges[m].into)'
      <4>1. m # n /\ Active(m) /\ merges'[m] = merges[m] /\ merges[m].from # p
        BY <2>3, <2>7, <2>8, <3>1
      <4>2. /\ merges[m].from \in Fakes /\ merges[m].into \in Steams
            /\ merged[merges[m].from] /\ merges[m].sessions \subseteq Sessions
            /\ \A x \in merges[m].sessions : origin[x] = merges[m].from /\ owner[x] = merges[m].into
        BY <4>1 DEF MergeInv, MergesInv, MergeTypeOK, Merge
      <4> QED
        BY <1>1, <2>4, <2>5, <2>6, <4>1, <4>2
    <3>2. \A k, m \in MergeIds : (Active(m) /\ Active(k) /\ merges[m].from = merges[k].from)' => m = k
      BY <2>3, <2>7 DEF MergeInv, MergesInv
    <3>3. ASSUME NEW f \in Fakes, merged'[f]
          PROVE  \E m \in MergeIds : (Active(m) /\ merges[m].from = f)'
      <4>1. f # p /\ merged[f]
        BY <2>5, <3>3
      <4>2. PICK m \in MergeIds : Active(m) /\ merges[m].from = f
        BY <4>1 DEF MergeInv, MergesInv
      <4> QED
        BY <2>1, <2>3, <2>7, <4>1, <4>2
    <3> QED
      BY <3>1, <3>2, <3>3 DEF MergesInv
  <2>10. SessionsAreKept'
    <3> SUFFICES ASSUME NEW x \in Sessions, origin'[x] # owner'[x]
                 PROVE  \E m \in MergeIds :
                          (/\ Active(m) /\ x \in merges[m].sessions
                           /\ merges[m].from = origin[x] /\ merges[m].into = owner[x])'
      BY DEF SessionsAreKept
    <3>1. x \notin merges[n].sessions /\ owner'[x] = owner[x] /\ origin'[x] = origin[x]
      BY <1>1, <2>4, <2>6
    <3> QED
      BY <2>3, <2>7, <3>1 DEF MergeInv, SessionsAreKept
  <2>11. \A q \in Txs : tx'[q] = IF q = r THEN NoTx ELSE tx[q]
    BY <1>1, GoMoves DEF MergeInv
  <2>12. NoTx.at = "none" /\ NoTx.staged = {}
    BY DEF NoTx
  <2>13. TxInv'
    <3> SUFFICES ASSUME NEW q \in Txs
                 PROVE  (TxOK(tx[q]) /\ (tx[q].at = "record" => lock[tx[q].player] = q))'
      BY DEF TxInv
    <3>1. CASE q = r
      BY <2>11, <2>12, <3>1 DEF TxOK
    <3>2. CASE q # r
      <4>1. tx'[q] = tx[q] /\ TxOK(tx[q]) /\ (tx[q].at = "record" => lock[tx[q].player] = q)
        BY <2>11, <3>2 DEF MergeInv, TxInv
      <4> QED
        BY <1>1, <2>1, <2>3, <4>1 DEF TxOK
    <3> QED
      BY <3>1, <3>2
  <2>14. StagedInv'
    <3> SUFFICES ASSUME NEW q \in Txs, NEW e \in tx'[q].staged
                 PROVE  StagedOK(e)' /\ lock'[e.fake] = q
      BY DEF StagedInv
    <3>1. q # r /\ e \in tx[q].staged
      BY <2>11, <2>12
    <3>2. StagedOK(e) /\ lock[e.fake] = q /\ e.fake \in Fakes /\ e.fake # p
      BY <2>2, <3>1, StagedSessions DEF MergeInv, StagedInv, MergeAssumption
    <3>3. ActiveMerges(e.fake)' = ActiveMerges(e.fake)
      BY <2>1, <2>3, <2>7, <3>2 DEF ActiveMerges
    <3>4. SessionsOf(e.fake)' = SessionsOf(e.fake)
      BY <2>4, <2>6, <3>2 DEF SessionsOf, MergeAssumption
    <3>5. e.old = ActiveMerges(e.fake) /\ n \notin e.old /\ e.old \subseteq MergeIds
      BY <2>1, <3>2 DEF StagedOK, ActiveMerges
    <3>6. \A m \in e.old : merges'[m] = merges[m]
      BY <2>3, <3>5
    <3>7. UNION {merges'[m].sessions : m \in e.old} = UNION {merges[m].sessions : m \in e.old}
      BY <3>6
    <3> QED
      BY <1>1, <3>2, <3>3, <3>4, <3>7 DEF StagedOK
  <2> QED
    BY <2>9, <2>10, <2>13, <2>14
<1> QED
  BY <1>2, <1>3

(* A new session is on no list, and not of a profile that is locked. *)
LEMMA OpenKeeps ==
  ASSUME MergeAssumption, MergeInv, NEW y \in Sessions, NEW p \in Profiles, OpenSession(y, p)
  PROVE  TxInv' /\ StagedInv' /\ MergesInv' /\ SessionsAreKept'
<1>1. /\ origin[y] = None /\ (p \in Fakes => lock[p] = None)
      /\ UNCHANGED <<merged, merges, lock, tx>>
  BY DEF OpenSession
<1>2. \A x \in Sessions : /\ owner'[x] = IF x = y THEN p ELSE owner[x]
                          /\ origin'[x] = IF x = y THEN p ELSE origin[x]
  BY DEF OpenSession, MergeInv, MergeTypeOK
<1>3. \A m \in MergeIds : Active(m) => y \notin merges[m].sessions
  BY <1>1 DEF MergeInv, MergesInv, MergeAssumption, Profiles
<1>4. \A m \in MergeIds : merges[m].sessions \subseteq Sessions
  BY DEF MergeInv, MergeTypeOK, Merge
<1>5. owner[y] = None
  BY <1>1, <1>3 DEF MergeInv, SessionsAreKept
<1>6. TxInv'
  BY <1>1 DEF MergeInv, TxInv, TxOK
<1>7. StagedInv'
  <2> SUFFICES ASSUME NEW q \in Txs, NEW e \in tx[q].staged
               PROVE  StagedOK(e)' /\ lock[e.fake] = q
    BY <1>1 DEF StagedInv
  <2>1. StagedOK(e) /\ lock[e.fake] = q /\ e.fake \in Fakes /\ e.fake # p
    BY <1>1, StagedSessions DEF MergeInv, StagedInv, MergeAssumption
  <2>2. SessionsOf(e.fake)' = SessionsOf(e.fake)
    BY <1>2, <1>5, <2>1 DEF SessionsOf, MergeAssumption, Profiles
  <2>3. ActiveMerges(e.fake)' = ActiveMerges(e.fake)
    BY <1>1 DEF ActiveMerges, Active
  <2> QED
    BY <1>1, <2>1, <2>2, <2>3 DEF StagedOK
<1>8. MergesInv'
  <2>1. \A m \in MergeIds : Active(m)' <=> Active(m)
    BY <1>1 DEF Active
  <2>2. \A m \in MergeIds : Active(m) => \A x \in merges[m].sessions :
          origin'[x] = merges[m].from /\ owner'[x] = merges[m].into
    BY <1>2, <1>3, <1>4 DEF MergeInv, MergesInv
  <2> QED
    BY <1>1, <2>1, <2>2 DEF MergeInv, MergesInv
<1>9. SessionsAreKept'
  BY <1>1, <1>2 DEF MergeInv, SessionsAreKept, Active
<1> QED
  BY <1>6, <1>7, <1>8, <1>9

(* A commit gives every staged merge a row, and takes the older one it replaces: *)
(* no other transaction has staged anything of these profiles.                   *)
LEMMA CommitKeeps ==
  ASSUME MergeAssumption, MergeInv, NEW r \in Txs, CommitMerges(r)
  PROVE  TxInv' /\ StagedInv' /\ MergesInv' /\ SessionsAreKept'
<1> DEFINE t == tx[r]
<1>1. /\ t.at = "lock" /\ t.into \in Steams /\ Go(r, NoTx) /\ lock' = Unlocked(r)
      /\ origin' = origin
  BY DEF CommitMerges, MergeInv, TxInv, TxOK
<1>2. PICK id \in SessionRows(t) :
        merges' = [m \in MergeIds |->
                     IF m \in OldRows(t) THEN Reverted(m)
                     ELSE IF \E e \in t.staged : id[e] = m
                       THEN MergeOf(CHOOSE e \in t.staged : id[e] = m, t.into)
                     ELSE merges[m]]
  BY DEF CommitMerges
<1>3. /\ \A e \in t.staged : id[e] \in MergeIds /\ merges[id[e]].is = "free"
      /\ \A e, g \in t.staged : id[e] = id[g] => e = g
  BY <1>2 DEF SessionRows
(* The older merges: those active for the profiles at hand. *)
<1>4. \A m \in MergeIds : m \in OldRows(t) <=> Active(m) /\ merges[m].from \in MergedBy(t)
  <2>1. ASSUME NEW m \in MergeIds, m \in OldRows(t)
        PROVE  Active(m) /\ merges[m].from \in MergedBy(t)
    BY <2>1, StagedSessions DEF OldRows, MergedBy
  <2>2. ASSUME NEW m \in MergeIds, Active(m), merges[m].from \in MergedBy(t)
        PROVE  m \in OldRows(t)
    BY <2>2, StagedSessions DEF OldRows, MergedBy
  <2> QED
    BY <2>1, <2>2
<1>5. \A e \in t.staged : id[e] \notin OldRows(t)
  BY <1>3, <1>4 DEF Active
<1>6. \A e \in t.staged : merges'[id[e]] = MergeOf(e, t.into)
  <2> SUFFICES ASSUME NEW e \in t.staged
               PROVE  merges'[id[e]] = MergeOf(e, t.into)
    OBVIOUS
  <2>1. (CHOOSE g \in t.staged : id[g] = id[e]) = e
    BY <1>3
  <2> QED
    BY <1>2, <1>3, <1>5, <2>1
<1>7. \A m \in MergeIds :
        /\ m \in OldRows(t) => merges'[m].is = "reverted" /\ merges'[m].from = merges[m].from
        /\ m \notin OldRows(t) /\ (\A e \in t.staged : id[e] # m) => merges'[m] = merges[m]
  BY <1>2 DEF Reverted, MergeInv, MergeTypeOK, Merge
<1>8. \A e \in t.staged :
        /\ Active(id[e])'
        /\ merges'[id[e]].from = e.fake /\ merges'[id[e]].into = t.into
        /\ merges'[id[e]].sessions = e.sessions
  <2> SUFFICES ASSUME NEW e \in t.staged
               PROVE  /\ merges'[id[e]].is = "active"
                      /\ merges'[id[e]].from = e.fake /\ merges'[id[e]].into = t.into
                      /\ merges'[id[e]].sessions = e.sessions
    BY DEF Active
  <2>1. merges'[id[e]] = MergeOf(e, t.into)
    BY <1>6
  <2> QED
    BY <2>1 DEF MergeOf
<1>9. \A m \in MergeIds : Active(m)' <=>
        (\E e \in t.staged : id[e] = m) \/ (Active(m) /\ m \notin OldRows(t))
  BY <1>3, <1>5, <1>7, <1>8 DEF Active
<1>10. \A m \in MergeIds : Active(m) /\ m \notin OldRows(t) =>
         merges'[m] = merges[m] /\ merges[m].from \notin MergedBy(t)
  BY <1>3, <1>4, <1>7 DEF Active
(* The sessions that move are those the new merges list. *)
<1>11. \A x \in Sessions : x \in Moved(t) <=> \E e \in t.staged : x \in e.sessions
  BY StagedSessions DEF Moved
<1>12. \A x \in Sessions : owner'[x] = IF x \in Moved(t) THEN t.into ELSE owner[x]
  BY DEF CommitMerges
<1>13. \A x \in Sessions : x \in Moved(t) => origin[x] \in MergedBy(t)
  BY <1>11, StagedSessions DEF MergedBy
<1>14. \A f \in Fakes : merged'[f] <=> f \in MergedBy(t) \/ merged[f]
  BY DEF CommitMerges
<1>15. MergesInv'
  <2>1. ASSUME NEW m \in MergeIds, Active(m)'
        PROVE  (/\ merges[m].from \in Fakes /\ merges[m].into \in Steams
                /\ merged[merges[m].from]
                /\ \A x \in merges[m].sessions : origin[x] = merges[m].from /\ owner[x] = merges[m].into)'
    <3>1. CASE \E e \in t.staged : id[e] = m
      <4>1. PICK e \in t.staged : id[e] = m
        BY <3>1
      <4>2. /\ merges'[m].from = e.fake /\ merges'[m].into = t.into /\ merges'[m].sessions = e.sessions
            /\ e.fake \in Fakes /\ e.fake \in MergedBy(t) /\ e.sessions \subseteq Sessions
            /\ \A x \in e.sessions : origin[x] = e.fake
        BY <1>8, <4>1, StagedSessions DEF MergedBy
      <4>3. \A x \in e.sessions : owner'[x] = t.into
        BY <1>11, <1>12, <4>2
      <4> QED
        BY <1>1, <1>14, <4>2, <4>3
    <3>2. CASE Active(m) /\ m \notin OldRows(t)
      <4>1. merges'[m] = merges[m] /\ merges[m].from \notin MergedBy(t)
        BY <1>10, <3>2
      <4>2. /\ merges[m].from \in Fakes /\ merges[m].into \in Steams
            /\ merged[merges[m].from] /\ merges[m].sessions \subseteq Sessions
            /\ \A x \in merges[m].sessions : origin[x] = merges[m].from /\ owner[x] = merges[m].into
        BY <3>2 DEF MergeInv, MergesInv, MergeTypeOK, Merge
      <4>3. \A x \in merges[m].sessions : owner'[x] = owner[x]
        BY <1>12, <1>13, <4>1, <4>2
      <4> QED
        BY <1>1, <1>14, <4>1, <4>2, <4>3
    <3> QED
      BY <1>9, <2>1, <3>1, <3>2
  <2>2. ASSUME NEW m \in MergeIds, NEW n \in MergeIds,
               (Active(m) /\ Active(n) /\ merges[m].from = merges[n].from)'
        PROVE  m = n
    <3>1. CASE (\E e \in t.staged : id[e] = m) /\ \E g \in t.staged : id[g] = n
      <4>1. PICK e \in t.staged, g \in t.staged : id[e] = m /\ id[g] = n
        BY <3>1
      <4>2. e.fake = g.fake
        BY <1>8, <2>2, <4>1
      <4>3. StagedOK(e) /\ StagedOK(g) /\ e \in Staged /\ g \in Staged
        BY DEF MergeInv, StagedInv, MergeTypeOK, Tx
      <4>4. e.old = g.old /\ e.sessions = g.sessions
        BY <4>2, <4>3 DEF StagedOK
      <4>5. e = g
        BY <4>2, <4>3, <4>4 DEF Staged
      <4> QED
        BY <4>1, <4>5
    <3>2. CASE (Active(m) /\ m \notin OldRows(t)) /\ Active(n) /\ n \notin OldRows(t)
      BY <1>10, <2>2, <3>2 DEF MergeInv, MergesInv
    <3>3. ASSUME NEW k \in MergeIds, NEW e \in t.staged, Active(k), k \notin OldRows(t)
          PROVE  merges'[k].from # merges'[id[e]].from
      BY <1>8, <1>10, <3>3 DEF MergedBy
    <3> QED
      BY <1>9, <2>2, <3>1, <3>2, <3>3
  <2>3. ASSUME NEW f \in Fakes, merged'[f]
        PROVE  \E m \in MergeIds : (Active(m) /\ merges[m].from = f)'
    <3>1. CASE f \in MergedBy(t)
      <4>1. PICK e \in t.staged : e.fake = f
        BY <3>1 DEF MergedBy
      <4> QED
        BY <1>3, <1>8, <4>1
    <3>2. CASE f \notin MergedBy(t)
      <4>1. PICK m \in MergeIds : Active(m) /\ merges[m].from = f
        BY <1>14, <2>3, <3>2 DEF MergeInv, MergesInv
      <4>2. m \notin OldRows(t)
        BY <1>4, <3>2, <4>1
      <4> QED
        BY <1>9, <1>10, <4>1, <4>2
    <3> QED
      BY <3>1, <3>2
  <2> QED
    BY <2>1, <2>2, <2>3 DEF MergesInv
<1>16. SessionsAreKept'
  <2> SUFFICES ASSUME NEW x \in Sessions, origin'[x] # owner'[x]
               PROVE  \E m \in MergeIds :
                        (/\ Active(m) /\ x \in merges[m].sessions
                         /\ merges[m].from = origin[x] /\ merges[m].into = owner[x])'
    BY DEF SessionsAreKept
  <2>1. CASE x \in Moved(t)
    <3>1. PICK e \in t.staged : x \in e.sessions
      BY <1>11, <2>1
    <3>2. origin[x] = e.fake /\ owner'[x] = t.into
      BY <1>12, <2>1, <3>1, StagedSessions
    <3> QED
      BY <1>1, <1>3, <1>8, <3>1, <3>2
  <2>2. CASE x \notin Moved(t)
    <3>1. owner'[x] = owner[x] /\ origin[x] # owner[x]
      BY <1>1, <1>12, <2>2
    <3>2. PICK m \in MergeIds : /\ Active(m) /\ x \in merges[m].sessions
                                /\ merges[m].from = origin[x] /\ merges[m].into = owner[x]
      BY <3>1 DEF MergeInv, SessionsAreKept
    <3>3. m \notin OldRows(t)
      BY <2>2, <3>2 DEF OldRows, Moved
    <3> QED
      BY <1>1, <1>9, <1>10, <3>1, <3>2, <3>3
  <2> QED
    BY <2>1, <2>2
(* The other transactions hold other profiles. *)
<1>17. \A q \in Txs : tx'[q] = IF q = r THEN NoTx ELSE tx[q]
  BY <1>1, GoMoves DEF MergeInv
<1>18. NoTx.at = "none" /\ NoTx.staged = {}
  BY DEF NoTx
<1>19. \A f \in Fakes : lock[f] # r => lock'[f] = lock[f]
  BY <1>1, UnlockedCases DEF MergeInv
<1>20. TxInv'
  <2> SUFFICES ASSUME NEW q \in Txs
               PROVE  (TxOK(tx[q]) /\ (tx[q].at = "record" => lock[tx[q].player] = q))'
    BY DEF TxInv
  <2>1. CASE q = r
    BY <1>17, <1>18, <2>1 DEF TxOK
  <2>2. CASE q # r
    <3>1. tx'[q] = tx[q] /\ TxOK(tx[q]) /\ (tx[q].at = "record" => lock[tx[q].player] = q)
      BY <1>17, <2>2 DEF MergeInv, TxInv
    <3>2. \A m \in MergeIds : merges[m].is # "free" =>
            merges'[m].is # "free" /\ merges'[m].from = merges[m].from
      BY <1>3, <1>7
    <3>3. tx[q].at = "record" => tx[q].player \in Fakes /\ lock'[tx[q].player] = q
      BY <1>19, <2>2, <3>1 DEF TxOK
    <3> QED
      BY <3>1, <3>2, <3>3 DEF TxOK
  <2> QED
    BY <2>1, <2>2
<1>21. StagedInv'
  <2> SUFFICES ASSUME NEW q \in Txs, NEW e \in tx'[q].staged
               PROVE  StagedOK(e)' /\ lock'[e.fake] = q
    BY DEF StagedInv
  <2>1. q # r /\ e \in tx[q].staged
    BY <1>17, <1>18
  <2>2. StagedOK(e) /\ lock[e.fake] = q /\ e.fake \in Fakes
    BY <2>1, StagedSessions DEF MergeInv, StagedInv
  <2>3. e.fake \notin MergedBy(t)
    BY <2>1, <2>2 DEF MergedBy, MergeInv, StagedInv
  <2>4. ActiveMerges(e.fake)' = ActiveMerges(e.fake)
    <3>1. \A m \in MergeIds : Active(m) /\ merges[m].from = e.fake => (Active(m) /\ merges[m].from = e.fake)'
      BY <1>4, <1>9, <1>10, <2>3
    <3>2. \A g \in t.staged : g.fake # e.fake
      BY <2>3 DEF MergedBy
    <3>3. \A m \in MergeIds : (Active(m) /\ merges[m].from = e.fake)' => Active(m) /\ merges[m].from = e.fake
      BY <1>8, <1>9, <1>10, <3>2
    <3> QED
      BY <3>1, <3>3 DEF ActiveMerges
  <2>5. SessionsOf(e.fake)' = SessionsOf(e.fake)
    <3>1. t.into # e.fake
      BY <1>1, <2>2 DEF MergeAssumption
    <3>2. \A x \in Sessions : x \in Moved(t) => owner[x] # e.fake
      <4> SUFFICES ASSUME NEW x \in Sessions, x \in Moved(t), owner[x] = e.fake
                   PROVE  FALSE
        OBVIOUS
      <4>1. origin[x] = e.fake
        BY <2>2, FakesKeepTheirOwn DEF MergeInv
      <4> QED
        BY <1>13, <2>3, <4>1
    <3> QED
      BY <1>12, <3>1, <3>2 DEF SessionsOf
  <2>6. \A m \in e.old : merges'[m] = merges[m]
    <3>1. \A m \in e.old : m \in MergeIds /\ Active(m) /\ merges[m].from = e.fake
      BY <2>2 DEF StagedOK, ActiveMerges
    <3> QED
      BY <1>4, <1>10, <2>3, <3>1
  <2>7. UNION {merges'[m].sessions : m \in e.old} = UNION {merges[m].sessions : m \in e.old}
    BY <2>6
  <2>8. lock'[e.fake] = q
    BY <1>19, <2>1, <2>2
  <2> QED
    BY <2>2, <2>4, <2>5, <2>7, <2>8 DEF StagedOK
<1> QED
  BY <1>15, <1>16, <1>20, <1>21

-----------------------------------------------------------------------------
LEMMA InvariantKept ==
  ASSUME MergeAssumption, MergeInv, [MergeNext]_mergeVars
  PROVE  MergeInv'
<1>1. MergeTypeOK'
  BY TypesKept DEF MergeInv
<1>2. TxInv' /\ StagedInv' /\ MergesInv' /\ SessionsAreKept'
  <2>1. ASSUME NEW r \in Txs, LinkSteam(r)
        PROVE  TxInv' /\ StagedInv' /\ MergesInv' /\ SessionsAreKept'
    <3>1. Quiet /\ Go(r, NoTx) /\ lock' = lock
      BY <2>1 DEF LinkSteam, Quiet
    <3> QED
      BY <3>1, OverStep
  <2>2. ASSUME NEW r \in Txs, Rollback(r)
        PROVE  TxInv' /\ StagedInv' /\ MergesInv' /\ SessionsAreKept'
    <3>1. Quiet /\ Go(r, NoTx) /\ lock' = Unlocked(r)
      BY <2>2 DEF Rollback, tables, Quiet
    <3> QED
      BY <3>1, OverStep
  <2>3. CASE UNCHANGED mergeVars
    BY <2>3 DEF mergeVars, MergeInv, TxInv, TxOK, StagedInv, StagedOK, ActiveMerges, Active, SessionsOf,
                MergesInv, SessionsAreKept
  <2> QED
    BY <2>1, <2>2, <2>3, UnlinkKeeps, LinkKeeps, MineKeeps, LockKeeps, RecordKeeps, CommitKeeps,
       UnlinkEndsKeeps, OpenKeeps DEF MergeNext
<1> QED
  BY <1>1, <1>2 DEF MergeInv

LEMMA InvariantBegins ==
  ASSUME MergeAssumption, MergeInit
  PROVE  MergeInv
<1>1. \A r \in Txs : tx[r] = NoTx
  BY DEF MergeInit
<1>2. NoTx.at = "none" /\ NoTx.staged = {} /\ NoTx \in Tx
  BY DEF NoTx, Tx
<1>3. \A m \in MergeIds : ~Active(m)
  BY DEF MergeInit, NoMerge, Active
<1>4. merges \in [MergeIds -> Merge]
  BY DEF MergeInit, NoMerge, Merge
<1>5. MergeTypeOK
  BY <1>2, <1>4 DEF MergeInit, MergeTypeOK
<1>6. TxInv /\ StagedInv
  BY <1>1, <1>2 DEF TxInv, TxOK, StagedInv
<1>7. MergesInv /\ SessionsAreKept
  BY <1>3 DEF MergeInit, MergesInv, SessionsAreKept
<1> QED
  BY <1>5, <1>6, <1>7 DEF MergeInv

(* The invariant of merges holds in every reachable state. *)
THEOREM MergeInvariant ==
  ASSUME MergeAssumption
  PROVE  MergeSpec => []MergeInv
<1>1. MergeInit => MergeInv
  BY InvariantBegins
<1>2. MergeInv /\ [MergeNext]_mergeVars => MergeInv'
  BY InvariantKept
<1> QED
  BY <1>1, <1>2, PTL DEF MergeSpec

(* Every state of profiles, merges, sessions and transactions is well typed. *)
THEOREM MergeTypes ==
  ASSUME MergeAssumption
  PROVE  MergeSpec => []MergeTypeOK
<1>1. MergeInv => MergeTypeOK
  BY DEF MergeInv
<1> QED
  BY <1>1, MergeInvariant, PTL

(* However links, merges, unlinks, errors and new sessions overlap, a session *)
(* is with the profile it was recorded for, or on the list of the active      *)
(* merge that moved it.                                                       *)
THEOREM NoSessionIsLost ==
  ASSUME MergeAssumption
  PROVE  MergeSpec => []SessionsAreKept
<1>1. MergeInv => SessionsAreKept
  BY DEF MergeInv
<1> QED
  BY <1>1, MergeInvariant, PTL

(* A profile is a tombstone exactly while one merge of it is active. *)
THEOREM OneMergePerTombstone ==
  ASSUME MergeAssumption
  PROVE  MergeSpec => []TombstonesHaveTheirMerge
<1>1. MergeInv => TombstonesHaveTheirMerge
  BY TombstonesFollow DEF MergeInv
<1> QED
  BY <1>1, MergeInvariant, PTL

-----------------------------------------------------------------------------
(* Notifications *)

(* A task has a row in hand exactly between its steps for it. *)
HandOK == \A t \in MapTasks : task[t].at \in WithRow => task[t].row \in Selected

(* Foreign keys and primary keys. *)
KeysOK ==
  /\ \A r \in rows : Registered(r.push)
  /\ \A r, q \in rows : r.id = q.id => r = q

(* What a task remembers of a row is still true of it, if it is still there. *)
HeldOK == \A t \in MapTasks : \A s \in Held(t), r \in rows : r.id = s.id => r.push = s.push

(* The row that is about to be marked was tried, or could not be. *)
AttemptOK(r) == "ever" \in r.tries \/ "look" \in r.lost
MarksOK ==
  \A t \in MapTasks : task[t].at \in {"remove", "mark"} =>
    \A r \in rows : r.id = task[t].row.id => AttemptOK(r)

NotifyInv ==
  /\ NotifyTypeOK /\ HandOK
  /\ KeysOK /\ HeldOK /\ MarksOK
  /\ FiredMeansTried /\ OneTimeIsUsedUp

LEMMA NotifyStart ==
  ASSUME NotifyAssumption, NotifyInit
  PROVE  NotifyInv
<1>1. NotifyTypeOK
  BY DEF NotifyAssumption, NotifyInit, NotifyTypeOK, NoTask, TaskStates
<1>2. \A t \in MapTasks : task[t] = NoTask
  BY DEF NotifyInit
<1>3. HandOK /\ MarksOK
  BY <1>2 DEF HandOK, MarksOK, NoTask, WithRow
<1>4. KeysOK /\ HeldOK /\ FiredMeansTried /\ OneTimeIsUsedUp
  BY DEF NotifyInit, KeysOK, HeldOK, FiredMeansTried, OneTimeIsUsedUp
<1> QED
  BY <1>1, <1>3, <1>4 DEF NotifyInv

-----------------------------------------------------------------------------
(* Steps that leave the tasks alone. *)

(* Fewer rows, of push subscriptions that stay registered. *)
LEMMA RowsGo ==
  ASSUME NotifyInv, NotifyTypeOK', rows' \subseteq rows, UNCHANGED task,
         \A r \in rows' : push'[r.push] = "kept"
  PROVE  NotifyInv'
BY DEF NotifyInv, HandOK, KeysOK, HeldOK, Held, Hand, MarksOK, AttemptOK, FiredMeansTried,
       OneTimeIsUsedUp, AboutToMark, Registered

LEMMA PushStep ==
  ASSUME NotifyInv, NEW p \in Pushes, Register(p) \/ EndpointDies(p) \/ Unregister(p)
  PROVE  NotifyInv'
<1>1. NotifyTypeOK' /\ rows' \subseteq rows /\ UNCHANGED task
  BY DEF NotifyInv, NotifyTypeOK, Register, EndpointDies, Unregister, Cascaded
<1>2. \A r \in rows' : push'[r.push] = "kept"
  BY DEF NotifyInv, NotifyTypeOK, Rows, KeysOK, Registered, Register, EndpointDies, Unregister, Cascaded
<1> QED
  BY <1>1, <1>2, RowsGo

LEMMA AskingStep ==
  ASSUME NotifyInv, UNCHANGED <<push, dead, rows, task, faults>>,
         asking' \subseteq asking \union [ask : Asks, push : Pushes],
         notice' \in {notice, None}
  PROVE  NotifyInv'
<1>1. NotifyTypeOK'
  BY DEF NotifyInv, NotifyTypeOK
<1>2. \A r \in rows' : push'[r.push] = "kept"
  BY DEF NotifyInv, KeysOK, Registered
<1> QED
  BY <1>1, <1>2, RowsGo

LEMMA WithdrawStep ==
  ASSUME NotifyInv, NEW a \in Asks, Withdraw(a)
  PROVE  NotifyInv'
<1>1. NotifyTypeOK' /\ rows' \subseteq rows /\ UNCHANGED <<task, push>>
  BY DEF NotifyInv, NotifyTypeOK, Withdraw
<1>2. \A r \in rows' : push'[r.push] = "kept"
  BY <1>1 DEF NotifyInv, KeysOK, Registered
<1> QED
  BY <1>1, <1>2, RowsGo

(* A row that is asked for again keeps its keys and what was ever tried. *)
LEMMA RenewedRow ==
  ASSUME NEW r \in Rows
  PROVE  /\ Renewed(r) \in Rows
         /\ Renewed(r).id = r.id /\ Renewed(r).push = r.push
         /\ ~Renewed(r).triggered /\ "since" \notin Renewed(r).tries
         /\ AttemptOK(r) => AttemptOK(Renewed(r))
BY DEF Rows, Renewed, AttemptOK

LEMMA RenewStep ==
  ASSUME NotifyInv, NEW a \in asking, UNCHANGED <<push, dead, task, notice, faults>>,
         asking' \subseteq asking,
         rows' = {IF Conflicts(r, a) THEN Renewed(r) ELSE r : r \in rows}
  PROVE  NotifyInv'
<1>1. \A q \in rows' : \E r \in rows : q = r \/ q = Renewed(r)
  OBVIOUS
<1>2. rows \subseteq Rows
  BY DEF NotifyInv, NotifyTypeOK
<1>3. NotifyTypeOK'
  BY <1>1, <1>2, RenewedRow DEF NotifyInv, NotifyTypeOK
<1>4. KeysOK'
  <2>1. \A r \in rows' : Registered(r.push)'
    BY <1>1, <1>2, RenewedRow DEF NotifyInv, KeysOK, Registered
  <2>2. ASSUME NEW x \in rows', NEW y \in rows', x.id = y.id
        PROVE  x = y
    <3>1. PICK r \in rows : x = IF Conflicts(r, a) THEN Renewed(r) ELSE r
      OBVIOUS
    <3>2. PICK q \in rows : y = IF Conflicts(q, a) THEN Renewed(q) ELSE q
      OBVIOUS
    <3>3. r.id = q.id
      BY <1>2, <2>2, <3>1, <3>2, RenewedRow
    <3> QED
      BY <3>1, <3>2, <3>3 DEF NotifyInv, KeysOK
  <2> QED
    BY <2>1, <2>2 DEF KeysOK
<1>5. HeldOK'
  BY <1>1, <1>2, RenewedRow DEF NotifyInv, HeldOK, Held, Hand
<1>6. HandOK'
  BY DEF NotifyInv, HandOK
<1>7. MarksOK'
  BY <1>1, <1>2, RenewedRow DEF NotifyInv, MarksOK
<1>8. FiredMeansTried'
  BY <1>1, <1>2, RenewedRow DEF NotifyInv, FiredMeansTried
<1>9. OneTimeIsUsedUp'
  BY <1>1, <1>2, RenewedRow DEF NotifyInv, OneTimeIsUsedUp, AboutToMark
<1> QED
  BY <1>3, <1>4, <1>5, <1>6, <1>7, <1>8, <1>9 DEF NotifyInv

(* A new row has an id that no task holds. *)
LEMMA InsertStep ==
  ASSUME NotifyInv, NEW a \in asking, UNCHANGED <<push, dead, task, notice, faults>>,
         asking' \subseteq asking, Registered(a.push),
         NEW id \in FreeIds, rows' = rows \union {NewRow(a, id)}
  PROVE  NotifyInv'
<1> DEFINE n == NewRow(a, id)
<1>1. id \in 1..MaxRows /\ \A r \in rows : r.id # id
  BY DEF FreeIds
<1>2. \A t \in MapTasks : \A s \in Held(t) : s.id # id
  BY DEF FreeIds
<1>3. /\ n \in Rows /\ n.id = id /\ n.push = a.push /\ ~n.triggered /\ n.tries = {}
  BY <1>1 DEF NotifyInv, NotifyTypeOK, NewRow, Rows
<1>4. NotifyTypeOK'
  BY <1>3 DEF NotifyInv, NotifyTypeOK
<1>5. KeysOK'
  BY <1>1, <1>3 DEF NotifyInv, KeysOK, Registered
<1>6. HeldOK'
  BY <1>2, <1>3 DEF NotifyInv, HeldOK, Held, Hand
<1>7. HandOK'
  BY DEF NotifyInv, HandOK
<1>8. MarksOK'
  <2>1. \A t \in MapTasks : task[t].at \in {"remove", "mark"} => task[t].row.id # id
    BY <1>2 DEF Held, Hand, WithRow
  <2> QED
    BY <1>3, <2>1 DEF NotifyInv, MarksOK
<1>9. FiredMeansTried' /\ OneTimeIsUsedUp'
  BY <1>3 DEF NotifyInv, FiredMeansTried, OneTimeIsUsedUp, AboutToMark
<1> QED
  BY <1>4, <1>5, <1>6, <1>7, <1>8, <1>9 DEF NotifyInv

LEMMA StoreStep ==
  ASSUME NotifyInv, NEW a \in asking, StoreAsk(a)
  PROVE  NotifyInv'
<1>1. asking' \subseteq asking /\ UNCHANGED <<push, dead, task, notice, faults>>
  BY DEF StoreAsk
<1>2. CASE ~Registered(a.push)
  BY <1>1, <1>2, AskingStep DEF StoreAsk
<1>3. CASE Registered(a.push) /\ \E r \in rows : Conflicts(r, a)
  BY <1>1, <1>3, RenewStep DEF StoreAsk, Upserted
<1>4. CASE Registered(a.push) /\ ~\E r \in rows : Conflicts(r, a)
  <2>1. (CHOOSE id \in FreeIds : TRUE) \in FreeIds
    BY <1>4 DEF StoreAsk, Upserted
  <2> QED
    BY <1>1, <1>4, <2>1, InsertStep DEF StoreAsk, Upserted
<1> QED
  BY <1>2, <1>3, <1>4

-----------------------------------------------------------------------------
(* Steps of a task. *)

(* A task that is under way knows its server and map. *)
UnderWay ==
  [at : {"rows"} \union WithRow, server : Servers, map : Maps,
   table : {"none", "change", "map"}, todo : SUBSET Selected, row : Selected \union {None}]

LEMMA UnderWayOrNot ==
  /\ \A k \in TaskStates : k.at # "idle" => k \in UnderWay
  /\ UnderWay \subseteq TaskStates
BY DEF TaskStates, NoTask, UnderWay

(* Between rows a task may begin, read a table or end. *)
LEMMA BetweenRows ==
  ASSUME NotifyInv, NEW t \in MapTasks, NEW k \in TaskStates, task' = [task EXCEPT ![t] = k],
         task[t].at \notin WithRow, k.at \notin WithRow,
         \A s \in k.todo : \E r \in rows : s.id = r.id /\ s.push = r.push,
         UNCHANGED <<push, dead, rows, asking, notice>>, faults' \in 0..MaxFaults
  PROVE  NotifyInv'
<1>1. /\ task' \in [MapTasks -> TaskStates] /\ task'[t] = k
      /\ \A u \in MapTasks \ {t} : task'[u] = task[u]
  BY DEF NotifyInv, NotifyTypeOK
<1>2. NotifyTypeOK'
  BY <1>1 DEF NotifyInv, NotifyTypeOK
<1>3. KeysOK' /\ FiredMeansTried'
  BY DEF NotifyInv, KeysOK, Registered, FiredMeansTried
<1>4. HandOK'
  BY <1>1 DEF NotifyInv, HandOK
<1>5. HeldOK'
  <2> SUFFICES ASSUME NEW u \in MapTasks, NEW s \in Held(u)', NEW r \in rows, r.id = s.id
               PROVE  r.push = s.push
    BY DEF HeldOK
  <2>1. CASE u = t
    <3>1. s \in k.todo
      BY <1>1, <2>1 DEF Held, Hand
    <3> QED
      BY <3>1 DEF NotifyInv, KeysOK
  <2>2. CASE u # t
    BY <1>1, <2>2 DEF NotifyInv, HeldOK, Held, Hand
  <2> QED
    BY <2>1, <2>2
<1>6. MarksOK'
  BY <1>1 DEF NotifyInv, MarksOK, WithRow
<1>7. OneTimeIsUsedUp'
  BY <1>1 DEF NotifyInv, OneTimeIsUsedUp, AboutToMark, WithRow
<1> QED
  BY <1>2, <1>3, <1>4, <1>5, <1>6, <1>7 DEF NotifyInv

LEMMA NoTaskIsOne == NoTask \in TaskStates /\ NoTask.at \notin WithRow /\ NoTask.todo = {}
BY DEF NoTask, TaskStates, WithRow

LEMMA FaultCounts ==
  ASSUME NotifyAssumption, NotifyTypeOK, Fault \/ UNCHANGED faults
  PROVE  faults' \in 0..MaxFaults
BY DEF NotifyAssumption, NotifyTypeOK, Fault

LEMMA BetweenRowsStep ==
  ASSUME NotifyAssumption, NotifyInv, NEW t \in MapTasks,
         \/ \E s \in Servers, m \in Maps : MapChanges(t, s, m)
         \/ \E table \in {"change", "map"} : Select(t, table) \/ SelectFails(t, table)
         \/ Done(t)
  PROVE  NotifyInv'
<1>1. faults' \in 0..MaxFaults /\ UNCHANGED <<push, dead, rows, asking, notice>>
  BY FaultCounts DEF NotifyInv, MapChanges, Select, SelectFails, Done
<1>2. task \in [MapTasks -> TaskStates] /\ rows \subseteq Rows
  BY DEF NotifyInv, NotifyTypeOK
<1>3. ASSUME NEW s \in Servers, NEW m \in Maps, MapChanges(t, s, m)
      PROVE  NotifyInv'
  <2> DEFINE k == [NoTask EXCEPT !.at = "rows", !.server = s, !.map = m]
  <2>1. k \in TaskStates /\ k.at = "rows" /\ k.todo = {}
    BY DEF NoTask, TaskStates
  <2>2. task' = [task EXCEPT ![t] = k] /\ task[t].at \notin WithRow
    BY <1>3 DEF MapChanges, WithRow
  <2>3. k.at \notin WithRow
    BY <2>1 DEF WithRow
  <2> HIDE DEF k
  <2> QED
    BY <1>1, <2>1, <2>2, <2>3, BetweenRows
<1>4. ASSUME NEW table \in {"change", "map"}, Select(t, table)
      PROVE  NotifyInv'
  <2> DEFINE read == {[id |-> r.id, push |-> r.push] : r \in Pending(task[t], table)}
             k == [task[t] EXCEPT !.table = table, !.todo = read]
  <2>1. read \subseteq Selected /\ \A s \in read : \E r \in rows : s.id = r.id /\ s.push = r.push
    BY <1>2 DEF Pending, Selected, Rows
  <2>2. task[t] \in TaskStates /\ task[t].at = "rows"
    BY <1>2, <1>4 DEF Select, TableDone
  <2>3. k \in TaskStates /\ k.at = "rows" /\ k.todo = read
    <3>1. task[t] \in UnderWay
      BY <2>2, UnderWayOrNot
    <3> HIDE DEF read
    <3>2. k \in UnderWay /\ k.at = "rows" /\ k.todo = read
      BY <2>1, <2>2, <3>1 DEF UnderWay
    <3> QED
      BY <3>2, UnderWayOrNot
  <2>4. task' = [task EXCEPT ![t] = k]
    BY <1>2, <1>4 DEF Select
  <2>5. k.at \notin WithRow /\ task[t].at \notin WithRow
    BY <2>2, <2>3 DEF WithRow
  <2> HIDE DEF k
  <2> QED
    BY <1>1, <2>1, <2>3, <2>4, <2>5, BetweenRows
<1>5. ASSUME task' = [task EXCEPT ![t] = NoTask], task[t].at = "rows"
      PROVE  NotifyInv'
  <2>1. task[t].at \notin WithRow
    BY <1>5 DEF WithRow
  <2> QED
    BY <1>1, <1>5, <2>1, NoTaskIsOne, BetweenRows
<1> QED
  BY <1>3, <1>4, <1>5 DEF SelectFails, Done, TableDone

(* A row that a task has noted something of keeps its keys and its past. *)
LEMMA NotedRow ==
  ASSUME NEW r \in Rows, NEW step \in {"look", "mark"}
  PROVE  /\ LET q == [r EXCEPT !.lost = @ \union {step}] IN
              /\ q \in Rows /\ q.id = r.id /\ q.push = r.push /\ q.tries = r.tries
              /\ q.triggered = r.triggered /\ q.lost = r.lost \union {step}
         /\ LET q == [r EXCEPT !.triggered = TRUE] IN
              /\ q \in Rows /\ q.id = r.id /\ q.push = r.push /\ q.tries = r.tries
              /\ q.triggered /\ q.lost = r.lost
         /\ LET q == [r EXCEPT !.tries = {"ever", "since"}] IN
              /\ q \in Rows /\ q.id = r.id /\ q.push = r.push /\ q.lost = r.lost
              /\ q.triggered = r.triggered /\ q.tries = {"ever", "since"}
BY DEF Rows

(* So do all rows: the new ones are the old ones, noted, by the same keys. *)
Follows(q, r) ==
  /\ q \in Rows /\ q.id = r.id /\ q.push = r.push
  /\ AttemptOK(r) => AttemptOK(q)
  /\ r.triggered => q.triggered
  /\ "mark" \in r.lost => "mark" \in q.lost

RowsFollow ==
  /\ \A q \in rows' : \E r \in rows : Follows(q, r)
  /\ \A q, p \in rows' : q.id = p.id => q = p

LEMMA LostFollow ==
  ASSUME NotifyInv, NEW ids, NEW step \in {"look", "mark"}, rows' = Lost(ids, step)
  PROVE  /\ RowsFollow
         /\ \A q \in rows' :
              /\ q.id \in ids => step \in q.lost
              /\ \E r \in rows : q.id = r.id /\ q.tries = r.tries /\ q.triggered = r.triggered
                                 /\ r.lost \subseteq q.lost
<1> DEFINE f(r) == IF r.id \in ids THEN [r EXCEPT !.lost = @ \union {step}] ELSE r
<1>1. rows \subseteq Rows
  BY DEF NotifyInv, NotifyTypeOK
<1>2. \A r \in rows : /\ Follows(f(r), r) /\ f(r).tries = r.tries /\ f(r).triggered = r.triggered
                      /\ r.lost \subseteq f(r).lost /\ (r.id \in ids => step \in f(r).lost)
  <2> TAKE r \in rows
  <2>1. CASE r.id \in ids
    <3> DEFINE q == [r EXCEPT !.lost = @ \union {step}]
    <3>1. /\ q \in Rows /\ q.id = r.id /\ q.push = r.push /\ q.tries = r.tries
          /\ q.triggered = r.triggered /\ q.lost = r.lost \union {step}
      BY <1>1, NotedRow
    <3>2. f(r) = q
      BY <2>1
    <3> HIDE DEF f, q
    <3> QED
      BY <3>1, <3>2 DEF Follows, AttemptOK
  <2>2. CASE r.id \notin ids
    <3>1. f(r) = r
      BY <2>2
    <3> QED
      BY <1>1, <2>2, <3>1 DEF Follows
  <2> QED
    BY <2>1, <2>2
<1>3. \A q \in rows' : \E r \in rows : q = f(r)
  BY DEF Lost
<1>4. \A q \in rows' : \E r \in rows : Follows(q, r)
  BY <1>2, <1>3
<1>5. \A q, p \in rows' : q.id = p.id => q = p
  <2> SUFFICES ASSUME NEW q \in rows', NEW p \in rows', q.id = p.id
               PROVE  q = p
    OBVIOUS
  <2>1. PICK r \in rows : q = f(r)
    BY <1>3
  <2>2. PICK v \in rows : p = f(v)
    BY <1>3
  <2>3. r.id = v.id
    BY <1>2, <2>1, <2>2 DEF Follows
  <2> QED
    BY <2>1, <2>2, <2>3 DEF NotifyInv, KeysOK
<1>6. \A q \in rows' : /\ q.id \in ids => step \in q.lost
                       /\ \E r \in rows : q.id = r.id /\ q.tries = r.tries /\ q.triggered = r.triggered
                                          /\ r.lost \subseteq q.lost
  BY <1>2, <1>3 DEF Follows
<1> QED
  BY <1>4, <1>5, <1>6 DEF RowsFollow

(* A task goes on with a row it held, while rows keep their keys. *)
LEMMA HandMoves ==
  ASSUME NotifyInv, NEW t \in MapTasks, NEW k \in TaskStates, task' = [task EXCEPT ![t] = k],
         RowsFollow, \A q \in rows' : push'[q.push] = "kept",
         k.todo \subseteq Held(t), k.at \in WithRow => k.row \in Selected \cap Held(t),
         push' \in [Pushes -> {"none", "kept", "gone"}], UNCHANGED <<dead, asking>>,
         notice' \in {None} \union [server : Servers, push : Pushes \union {None}],
         faults' \in 0..MaxFaults,
         k.at \in {"remove", "mark"} =>
           \A q \in rows' : q.id = k.row.id => AttemptOK(q)
  PROVE  /\ NotifyTypeOK' /\ HandOK' /\ KeysOK' /\ HeldOK' /\ MarksOK'
         /\ task'[t] = k /\ \A u \in MapTasks \ {t} : task'[u] = task[u]
<1>1. /\ task' \in [MapTasks -> TaskStates] /\ task'[t] = k
      /\ \A u \in MapTasks \ {t} : task'[u] = task[u]
  BY DEF NotifyInv, NotifyTypeOK
<1>2. NotifyTypeOK'
  BY <1>1 DEF NotifyInv, NotifyTypeOK, RowsFollow, Follows
<1>3. KeysOK'
  BY DEF KeysOK, RowsFollow, Registered
<1>4. HandOK'
  BY <1>1 DEF NotifyInv, HandOK
<1>5. HeldOK'
  <2> SUFFICES ASSUME NEW u \in MapTasks, NEW s \in Held(u)', NEW q \in rows', q.id = s.id
               PROVE  q.push = s.push
    BY DEF HeldOK
  <2>1. s \in Held(u)
    <3>1. CASE u = t
      BY <1>1, <3>1 DEF Held, Hand
    <3>2. CASE u # t
      BY <1>1, <3>2 DEF Held, Hand
    <3> QED
      BY <3>1, <3>2
  <2>2. PICK r \in rows : q.id = r.id /\ q.push = r.push
    BY DEF RowsFollow, Follows
  <2>3. HeldOK
    BY DEF NotifyInv
  <2>4. r.push = s.push
    <3>1. r.id = s.id
      BY <2>2
    <3> QED
      BY <2>1, <2>3, <3>1 DEF HeldOK
  <2> QED
    BY <2>2, <2>4
<1>6. MarksOK'
  <2> SUFFICES ASSUME NEW u \in MapTasks, task'[u].at \in {"remove", "mark"},
                      NEW q \in rows', q.id = task'[u].row.id
               PROVE  AttemptOK(q)
    BY DEF MarksOK, AttemptOK
  <2>1. CASE u = t
    BY <1>1, <2>1
  <2>2. CASE u # t
    <3>1. PICK r \in rows : Follows(q, r)
      BY DEF RowsFollow
    <3> QED
      BY <1>1, <2>2, <3>1 DEF NotifyInv, MarksOK, Follows
  <2> QED
    BY <2>1, <2>2
<1> QED
  BY <1>1, <1>2, <1>3, <1>4, <1>5, <1>6

(* Rows that only go away follow themselves. *)
LEMMA SubsetFollows ==
  ASSUME NotifyInv, rows' \subseteq rows
  PROVE  RowsFollow
BY DEF NotifyInv, NotifyTypeOK, KeysOK, RowsFollow, Follows

(* A push subscription is kept as long as its rows are. *)
LEMMA StillRegistered ==
  ASSUME NotifyInv, RowsFollow, UNCHANGED push
  PROVE  \A q \in rows' : push'[q.push] = "kept"
BY DEF NotifyInv, KeysOK, Registered, RowsFollow, Follows

LEMMA LookStep ==
  ASSUME NotifyAssumption, NotifyInv, NEW t \in MapTasks, NEW s \in task[t].todo, LookUp(t, s)
  PROVE  NotifyInv'
<1>1. /\ task \in [MapTasks -> TaskStates] /\ task[t] \in TaskStates /\ s \in Selected
      /\ s \in Held(t) /\ task[t].at = "rows"
  BY DEF NotifyInv, NotifyTypeOK, TaskStates, NoTask, Held, LookUp
<1>2. faults' \in 0..MaxFaults /\ UNCHANGED <<push, dead, asking, notice>>
  BY FaultCounts DEF NotifyInv, LookUp
<1>3. ASSUME NEW at \in {"send", "mark"}, TakesUp(t, s, at), RowsFollow,
             at = "mark" => \A q \in rows' : q.id = s.id => AttemptOK(q)
      PROVE  /\ NotifyTypeOK' /\ HandOK' /\ KeysOK' /\ HeldOK' /\ MarksOK'
             /\ \A u \in MapTasks \ {t} : task'[u] = task[u]
  <2> DEFINE k == [task[t] EXCEPT !.todo = @ \ {s}, !.row = s, !.at = at]
  <2>1. task' = [task EXCEPT ![t] = k]
    BY <1>1, <1>3 DEF TakesUp
  <2>2. k \in TaskStates /\ k.at = at /\ k.row = s /\ k.todo \subseteq task[t].todo
    <3>1. task[t] \in UnderWay
      BY <1>1, UnderWayOrNot
    <3>2. k \in UnderWay /\ k.at = at /\ k.row = s /\ k.todo \subseteq task[t].todo
      BY <1>1, <3>1 DEF UnderWay, WithRow
    <3> QED
      BY <3>2, UnderWayOrNot
  <2>3. k.todo \subseteq Held(t) /\ k.row \in Selected \cap Held(t)
    BY <1>1, <2>2 DEF Held
  <2>4. \A q \in rows' : push'[q.push] = "kept"
    BY <1>2, <1>3, StillRegistered
  <2>5. /\ push' \in [Pushes -> {"none", "kept", "gone"}]
        /\ notice' \in {None} \union [server : Servers, push : Pushes \union {None}]
    BY <1>2 DEF NotifyInv, NotifyTypeOK
  <2>6. k.at \in {"remove", "mark"} => \A q \in rows' : q.id = k.row.id => AttemptOK(q)
    BY <1>3, <2>2
  <2> HIDE DEF k
  <2> QED
    BY <1>2, <1>3, <2>1, <2>2, <2>3, <2>4, <2>5, <2>6, HandMoves
(* Nobody was about to be marked by this task. *)
<1>4. ASSUME \A u \in MapTasks \ {t} : task'[u] = task[u]
      PROVE  \A id : AboutToMark(id) => AboutToMark(id)'
  BY <1>1, <1>4 DEF AboutToMark
<1>5. CASE TakesUp(t, s, IF Registered(s.push) THEN "send" ELSE "mark") /\ UNCHANGED <<rows, faults>>
  <2>1. RowsFollow
    BY <1>5, SubsetFollows
  <2>2. ~Registered(s.push) => \A q \in rows' : q.id # s.id
    BY <1>1, <1>5 DEF NotifyInv, KeysOK, HeldOK
  <2>3. /\ NotifyTypeOK' /\ HandOK' /\ KeysOK' /\ HeldOK' /\ MarksOK'
        /\ \A u \in MapTasks \ {t} : task'[u] = task[u]
    BY <1>3, <1>5, <2>1, <2>2
  <2>4. FiredMeansTried' /\ OneTimeIsUsedUp'
    BY <1>4, <1>5, <2>3 DEF NotifyInv, FiredMeansTried, OneTimeIsUsedUp
  <2> QED
    BY <2>3, <2>4 DEF NotifyInv
<1>6. CASE TakesUp(t, s, "mark") /\ Fault /\ rows' = Lost({s.id}, "look")
  <2>1. /\ RowsFollow
        /\ \A q \in rows' :
             /\ q.id \in {s.id} => "look" \in q.lost
             /\ \E r \in rows : q.id = r.id /\ q.tries = r.tries /\ q.triggered = r.triggered
                                /\ r.lost \subseteq q.lost
    BY <1>6, LostFollow
  <2>2. /\ NotifyTypeOK' /\ HandOK' /\ KeysOK' /\ HeldOK' /\ MarksOK'
        /\ \A u \in MapTasks \ {t} : task'[u] = task[u]
    BY <1>3, <1>6, <2>1 DEF AttemptOK
  <2>3. FiredMeansTried' /\ OneTimeIsUsedUp'
    BY <1>4, <2>1, <2>2 DEF NotifyInv, FiredMeansTried, OneTimeIsUsedUp
  <2> QED
    BY <2>2, <2>3 DEF NotifyInv
<1> QED
  BY <1>5, <1>6 DEF LookUp

(* A row whose push was tried follows the row it was. *)
LEMMA TriedFollow ==
  ASSUME NotifyInv, NEW id, rows' = Tried(id)
  PROVE  /\ RowsFollow
         /\ \A q \in rows' :
              /\ q.id = id => AttemptOK(q)
              /\ q.triggered => AttemptOK(q)
              /\ q.id # id => q \in rows
<1> DEFINE f(r) == IF r.id = id THEN [r EXCEPT !.tries = {"ever", "since"}] ELSE r
<1>1. rows \subseteq Rows
  BY DEF NotifyInv, NotifyTypeOK
<1>2. \A r \in rows : /\ Follows(f(r), r) /\ (f(r).triggered => AttemptOK(f(r)))
                      /\ (r.id = id => AttemptOK(f(r))) /\ (r.id # id => f(r) = r)
  <2> TAKE r \in rows
  <2>1. CASE r.id = id
    <3> DEFINE q == [r EXCEPT !.tries = {"ever", "since"}]
    <3>1. /\ q \in Rows /\ q.id = r.id /\ q.push = r.push /\ q.lost = r.lost
          /\ q.triggered = r.triggered /\ q.tries = {"ever", "since"}
      BY <1>1, NotedRow
    <3>2. f(r) = q
      BY <2>1
    <3> HIDE DEF f, q
    <3> QED
      BY <2>1, <3>1, <3>2 DEF Follows, AttemptOK
  <2>2. CASE r.id # id
    <3>1. f(r) = r
      BY <2>2
    <3> HIDE DEF f
    <3> QED
      BY <1>1, <2>2, <3>1 DEF Follows, NotifyInv, FiredMeansTried, AttemptOK
  <2> QED
    BY <2>1, <2>2
<1>3. \A q \in rows' : \E r \in rows : q = f(r)
  BY DEF Tried
<1> HIDE DEF f
<1>4. \A q \in rows' : \E r \in rows : Follows(q, r)
  BY <1>2, <1>3
<1>5. \A q, p \in rows' : q.id = p.id => q = p
  <2> SUFFICES ASSUME NEW q \in rows', NEW p \in rows', q.id = p.id
               PROVE  q = p
    OBVIOUS
  <2>1. PICK r \in rows : q = f(r)
    BY <1>3
  <2>2. PICK v \in rows : p = f(v)
    BY <1>3
  <2>3. r.id = v.id
    BY <1>2, <2>1, <2>2 DEF Follows
  <2> QED
    BY <2>1, <2>2, <2>3 DEF NotifyInv, KeysOK
<1>6. \A q \in rows' : /\ q.id = id => AttemptOK(q)
                       /\ q.triggered => AttemptOK(q)
                       /\ q.id # id => q \in rows
  BY <1>2, <1>3 DEF Follows
<1> QED
  BY <1>4, <1>5, <1>6 DEF RowsFollow

LEMMA SendStep ==
  ASSUME NotifyAssumption, NotifyInv, NEW t \in MapTasks, Send(t)
  PROVE  NotifyInv'
<1> DEFINE s == task[t].row
           at == IF s.push \in dead THEN "remove" ELSE "mark"
           k == [task[t] EXCEPT !.at = at]
<1>1. /\ task \in [MapTasks -> TaskStates] /\ task[t] \in TaskStates /\ task[t].at = "send"
      /\ s \in Selected /\ s \in Held(t)
  BY DEF NotifyInv, NotifyTypeOK, HandOK, Held, Hand, WithRow, Send
<1>2. rows' = Tried(s.id) /\ task' = [task EXCEPT ![t] = k] /\ UNCHANGED <<push, dead, asking, faults>>
  BY <1>1 DEF Send, Goes
<1>3. k \in TaskStates /\ k.at = at /\ k.row = s /\ k.todo = task[t].todo /\ at \in {"remove", "mark"}
  BY <1>1 DEF TaskStates, NoTask, WithRow
<1>4. notice' \in {None} \union [server : Servers, push : Pushes \union {None}]
  <2>1. notice' \in {notice, Notice(task[t])}
    BY DEF Send
  <2>2. task[t].server \in Servers /\ s.push \in Pushes
    BY <1>1 DEF TaskStates, NoTask, Selected
  <2> QED
    BY <2>1, <2>2 DEF NotifyInv, NotifyTypeOK, Notice
<1>5. /\ RowsFollow
      /\ \A q \in rows' : /\ q.id = s.id => AttemptOK(q)
                          /\ q.triggered => AttemptOK(q)
                          /\ q.id # s.id => q \in rows
  BY <1>2, TriedFollow
<1>6. faults' \in 0..MaxFaults /\ push' \in [Pushes -> {"none", "kept", "gone"}]
  BY <1>2 DEF NotifyInv, NotifyTypeOK
<1>7. \A q \in rows' : push'[q.push] = "kept"
  BY <1>2, <1>5, StillRegistered
<1>8. k.todo \subseteq Held(t) /\ k.row \in Selected \cap Held(t)
  BY <1>1, <1>3 DEF Held
<1> HIDE DEF k, s, at
<1>9. /\ NotifyTypeOK' /\ HandOK' /\ KeysOK' /\ HeldOK' /\ MarksOK'
      /\ task'[t] = k /\ \A u \in MapTasks \ {t} : task'[u] = task[u]
  BY <1>2, <1>3, <1>4, <1>5, <1>6, <1>7, <1>8, HandMoves
<1>10. FiredMeansTried'
  BY <1>5 DEF FiredMeansTried, AttemptOK
<1>11. OneTimeIsUsedUp'
  <2> SUFFICES ASSUME NEW q \in rows', "since" \in q.tries
               PROVE  q.triggered \/ "mark" \in q.lost \/ AboutToMark(q.id)'
    BY DEF OneTimeIsUsedUp
  <2>1. CASE q.id = s.id
    BY <1>3, <1>9, <2>1 DEF AboutToMark
  <2>2. CASE q.id # s.id
    <3>1. q.triggered \/ "mark" \in q.lost \/ AboutToMark(q.id)
      BY <1>5, <2>2 DEF NotifyInv, OneTimeIsUsedUp
    <3>2. AboutToMark(q.id) => AboutToMark(q.id)'
      BY <1>1, <1>9 DEF AboutToMark
    <3> QED
      BY <3>1, <3>2
  <2> QED
    BY <2>1, <2>2
<1> QED
  BY <1>9, <1>10, <1>11 DEF NotifyInv

LEMMA RemoveStep ==
  ASSUME NotifyAssumption, NotifyInv, NEW t \in MapTasks, RemoveDead(t)
  PROVE  NotifyInv'
<1> DEFINE s == task[t].row
           k == [task[t] EXCEPT !.at = "mark"]
<1>1. /\ task \in [MapTasks -> TaskStates] /\ task[t] \in UnderWay /\ task[t].at = "remove"
      /\ s \in Selected /\ s \in Held(t)
  BY UnderWayOrNot DEF NotifyInv, NotifyTypeOK, HandOK, Held, Hand, WithRow, RemoveDead
<1>2. task' = [task EXCEPT ![t] = k] /\ UNCHANGED <<dead, asking, notice>>
  BY <1>1 DEF RemoveDead, Goes
<1>3. k \in TaskStates /\ k.at = "mark" /\ k.row = s /\ k.todo = task[t].todo
  <2>1. k \in UnderWay /\ k.at = "mark" /\ k.row = s /\ k.todo = task[t].todo
    BY <1>1 DEF UnderWay, WithRow
  <2> QED
    BY <2>1, UnderWayOrNot
<1>4. faults' \in 0..MaxFaults /\ rows' \subseteq rows
  BY FaultCounts DEF NotifyInv, RemoveDead, Cascaded
<1>5. push' \in [Pushes -> {"none", "kept", "gone"}] /\ \A q \in rows' : push'[q.push] = "kept"
  BY <1>1 DEF NotifyInv, NotifyTypeOK, Rows, Selected, KeysOK, Registered, RemoveDead, Cascaded
<1>6. \A q \in rows' : q.id = s.id => AttemptOK(q)
  BY <1>1, <1>4 DEF NotifyInv, MarksOK
<1>7. RowsFollow
  BY <1>4, SubsetFollows
<1>8. k.todo \subseteq Held(t) /\ k.row \in Selected \cap Held(t)
  BY <1>1, <1>3 DEF Held
<1>9. notice' \in {None} \union [server : Servers, push : Pushes \union {None}]
  BY <1>2 DEF NotifyInv, NotifyTypeOK
<1> HIDE DEF k, s
<1>10. /\ NotifyTypeOK' /\ HandOK' /\ KeysOK' /\ HeldOK' /\ MarksOK'
       /\ task'[t] = k /\ \A u \in MapTasks \ {t} : task'[u] = task[u]
  BY <1>2, <1>3, <1>4, <1>5, <1>6, <1>7, <1>8, <1>9, HandMoves
<1>11. \A id : AboutToMark(id) => AboutToMark(id)'
  BY <1>3, <1>10 DEF AboutToMark, s
<1>12. FiredMeansTried' /\ OneTimeIsUsedUp'
  BY <1>4, <1>11 DEF NotifyInv, FiredMeansTried, OneTimeIsUsedUp
<1> QED
  BY <1>10, <1>12 DEF NotifyInv

(* Of a marked row the tries and failures stay. *)
LEMMA MarkedFollow ==
  ASSUME NotifyInv, NEW s \in Selected, rows' = Marked(s)
  PROVE  /\ RowsFollow
         /\ \A q \in rows' : IF q.id = s.id THEN q.triggered ELSE q \in rows
<1> DEFINE f(r) == IF r.id = s.id THEN [r EXCEPT !.triggered = TRUE] ELSE r
<1>1. rows \subseteq Rows
  BY DEF NotifyInv, NotifyTypeOK
<1>2. \A r \in rows : /\ Follows(f(r), r)
                      /\ (r.id = s.id => f(r).triggered) /\ (r.id # s.id => f(r) = r)
  <2> TAKE r \in rows
  <2>1. CASE r.id = s.id
    <3> DEFINE q == [r EXCEPT !.triggered = TRUE]
    <3>1. /\ q \in Rows /\ q.id = r.id /\ q.push = r.push /\ q.tries = r.tries
          /\ q.triggered /\ q.lost = r.lost
      BY <1>1, NotedRow
    <3>2. f(r) = q
      BY <2>1
    <3> HIDE DEF f, q
    <3> QED
      BY <2>1, <3>1, <3>2 DEF Follows, AttemptOK
  <2>2. CASE r.id # s.id
    <3>1. f(r) = r
      BY <2>2
    <3> HIDE DEF f
    <3> QED
      BY <1>1, <2>2, <3>1 DEF Follows
  <2> QED
    BY <2>1, <2>2
<1>3. \A q \in rows' : \E r \in rows : q = f(r)
  BY DEF Marked
<1> HIDE DEF f
<1>4. \A q \in rows' : \E r \in rows : Follows(q, r)
  BY <1>2, <1>3
<1>5. \A q, p \in rows' : q.id = p.id => q = p
  <2> SUFFICES ASSUME NEW q \in rows', NEW p \in rows', q.id = p.id
               PROVE  q = p
    OBVIOUS
  <2>1. PICK r \in rows : q = f(r)
    BY <1>3
  <2>2. PICK v \in rows : p = f(v)
    BY <1>3
  <2>3. r.id = v.id
    BY <1>2, <2>1, <2>2 DEF Follows
  <2> QED
    BY <2>1, <2>2, <2>3 DEF NotifyInv, KeysOK
<1>6. \A q \in rows' : IF q.id = s.id THEN q.triggered ELSE q \in rows
  BY <1>2, <1>3 DEF Follows
<1> QED
  BY <1>4, <1>5, <1>6 DEF RowsFollow

LEMMA MarkStep ==
  ASSUME NotifyAssumption, NotifyInv, NEW t \in MapTasks, MarkTriggered(t)
  PROVE  NotifyInv'
<1> DEFINE s == task[t].row
           k == [task[t] EXCEPT !.at = "rows", !.row = None]
<1>1. /\ task \in [MapTasks -> TaskStates] /\ task[t] \in UnderWay /\ task[t].at = "mark"
      /\ s \in Selected
  BY UnderWayOrNot DEF NotifyInv, NotifyTypeOK, HandOK, WithRow, MarkTriggered
<1>2. task' = [task EXCEPT ![t] = k] /\ UNCHANGED <<push, dead, asking, notice>>
  BY <1>1 DEF MarkTriggered
<1>3. k \in TaskStates /\ k.at = "rows" /\ k.todo = task[t].todo
  <2>1. k \in UnderWay /\ k.at = "rows" /\ k.todo = task[t].todo
    BY <1>1 DEF UnderWay, WithRow
  <2> QED
    BY <2>1, UnderWayOrNot
<1>4. faults' \in 0..MaxFaults
  BY FaultCounts DEF NotifyInv, MarkTriggered
<1>5. /\ push' \in [Pushes -> {"none", "kept", "gone"}]
      /\ notice' \in {None} \union [server : Servers, push : Pushes \union {None}]
  BY <1>2 DEF NotifyInv, NotifyTypeOK
<1>6. k.todo \subseteq Held(t) /\ k.at \notin WithRow
  BY <1>3 DEF Held, WithRow
<1>7. rows' = Marked(s) \/ rows' = Lost({s.id}, "mark")
  BY DEF MarkTriggered
<1> HIDE DEF k
<1>8. ASSUME RowsFollow
      PROVE  /\ NotifyTypeOK' /\ HandOK' /\ KeysOK' /\ HeldOK' /\ MarksOK'
             /\ \A u \in MapTasks \ {t} : task'[u] = task[u]
  <2>1. \A q \in rows' : push'[q.push] = "kept"
    BY <1>2, <1>8, StillRegistered
  <2>2. k.at \notin {"remove", "mark"}
    BY <1>3
  <2> QED
    BY <1>2, <1>3, <1>4, <1>5, <1>6, <1>8, <2>1, <2>2, HandMoves
<1>9. ASSUME RowsFollow, NEW id, id # s.id, AboutToMark(id)
      PROVE  AboutToMark(id)'
  BY <1>8, <1>9 DEF AboutToMark
<1>10. \A r \in rows : r.id = s.id => AttemptOK(r)
  BY <1>1 DEF NotifyInv, MarksOK
<1>11. CASE rows' = Marked(s)
  <2>1. /\ RowsFollow
        /\ \A q \in rows' : IF q.id = s.id THEN q.triggered ELSE q \in rows
    BY <1>1, <1>11, MarkedFollow
  <2>2. \A q \in rows' : q.id = s.id => AttemptOK(q)
    BY <1>10, <2>1 DEF RowsFollow, Follows
  <2>3. FiredMeansTried' /\ OneTimeIsUsedUp'
    BY <1>9, <2>1, <2>2 DEF NotifyInv, FiredMeansTried, OneTimeIsUsedUp, AttemptOK
  <2> QED
    BY <1>8, <2>1, <2>3 DEF NotifyInv
<1>12. CASE rows' = Lost({s.id}, "mark")
  <2>1. /\ RowsFollow
        /\ \A q \in rows' :
             /\ q.id \in {s.id} => "mark" \in q.lost
             /\ \E r \in rows : q.id = r.id /\ q.tries = r.tries /\ q.triggered = r.triggered
                                /\ r.lost \subseteq q.lost
    BY <1>12, LostFollow
  <2>2. FiredMeansTried' /\ OneTimeIsUsedUp'
    BY <1>9, <2>1 DEF NotifyInv, FiredMeansTried, OneTimeIsUsedUp
  <2> QED
    BY <1>8, <2>1, <2>2 DEF NotifyInv
<1> QED
  BY <1>7, <1>11, <1>12

(* A restart loses the marks that were due. *)
LEMMA RestartStep ==
  ASSUME NotifyAssumption, NotifyInv, ServerRestarts
  PROVE  NotifyInv'
<1> DEFINE ids == {h.id : h \in UNION {Hand(t) : t \in MapTasks}}
<1>1. task' = [t \in MapTasks |-> NoTask] /\ asking' = {} /\ UNCHANGED <<push, dead, notice>>
  BY DEF ServerRestarts
<1>2. faults' \in 0..MaxFaults
  BY FaultCounts DEF NotifyInv, ServerRestarts
<1>3. /\ RowsFollow
      /\ \A q \in rows' :
           /\ q.id \in ids => "mark" \in q.lost
           /\ \E r \in rows : q.id = r.id /\ q.tries = r.tries /\ q.triggered = r.triggered
                              /\ r.lost \subseteq q.lost
  BY LostFollow DEF ServerRestarts
<1>4. \A id : AboutToMark(id) => id \in ids
  BY DEF AboutToMark, Hand, WithRow
<1> HIDE DEF ids
<1>5. NotifyTypeOK'
  BY <1>1, <1>2, <1>3, NoTaskIsOne DEF NotifyInv, NotifyTypeOK, RowsFollow, Follows
<1>6. KeysOK'
  <2>1. \A q \in rows' : push'[q.push] = "kept"
    BY <1>1, <1>3, StillRegistered
  <2> QED
    BY <1>3, <2>1 DEF KeysOK, RowsFollow, Registered
<1>7. \A t \in MapTasks : task'[t] = NoTask
  BY <1>1
<1>8. HandOK' /\ MarksOK'
  BY <1>7 DEF HandOK, MarksOK, NoTask, WithRow
<1>9. HeldOK'
  BY <1>7 DEF HeldOK, Held, Hand, NoTask, WithRow
<1>10. FiredMeansTried' /\ OneTimeIsUsedUp'
  BY <1>3, <1>4 DEF NotifyInv, FiredMeansTried, OneTimeIsUsedUp
<1> QED
  BY <1>5, <1>6, <1>8, <1>9, <1>10 DEF NotifyInv

-----------------------------------------------------------------------------
LEMMA NotifyStep ==
  ASSUME NotifyAssumption, NotifyInv, [NotifyNext]_notifyVars
  PROVE  NotifyInv'
<1>1. Wanted \subseteq Asks
  BY DEF NotifyAssumption
<1>2. ASSUME NEW p \in Pushes, NEW a \in Wanted, AskFor(a, p)
      PROVE  NotifyInv'
  BY <1>1, <1>2, AskingStep DEF AskFor, Checked
<1>3. CASE Resubscribe
  <2>1. notice \in [server : Servers, push : Pushes]
    BY <1>3 DEF NotifyInv, NotifyTypeOK, Resubscribe
  <2>2. [map |-> None, server |-> notice.server] \in Asks /\ notice.push \in Pushes
    BY <2>1 DEF Asks
  <2> QED
    BY <1>3, <2>2, AskingStep DEF Resubscribe, Checked
<1>4. CASE Dismiss
  BY <1>4, AskingStep DEF Dismiss
<1>5. CASE UNCHANGED notifyVars
  BY <1>5, AskingStep DEF notifyVars
<1>6. CASE NotifyNext
  <2>1. ASSUME NEW p \in Pushes, Register(p) \/ EndpointDies(p) \/ Unregister(p)
        PROVE  NotifyInv'
    BY <2>1, PushStep
  <2>2. CASE ServerRestarts
    BY <2>2, RestartStep
  <2>3. ASSUME NEW a \in asking, StoreAsk(a)
        PROVE  NotifyInv'
    BY <2>3, StoreStep
  <2>4. ASSUME NEW a \in Wanted, Withdraw(a)
        PROVE  NotifyInv'
    BY <1>1, <2>4, WithdrawStep
  <2>5. ASSUME NEW t \in MapTasks,
               \/ \E s \in Servers, m \in Maps : MapChanges(t, s, m)
               \/ \E table \in {"change", "map"} : Select(t, table) \/ SelectFails(t, table)
               \/ Done(t)
        PROVE  NotifyInv'
    BY <2>5, BetweenRowsStep
  <2>6. ASSUME NEW t \in MapTasks, NEW s \in task[t].todo, LookUp(t, s)
        PROVE  NotifyInv'
    BY <2>6, LookStep
  <2>7. ASSUME NEW t \in MapTasks, Send(t) \/ RemoveDead(t) \/ MarkTriggered(t)
        PROVE  NotifyInv'
    BY <2>7, SendStep, RemoveStep, MarkStep
  <2> QED
    BY <1>2, <1>3, <1>4, <1>6, <2>1, <2>2, <2>3, <2>4, <2>5, <2>6, <2>7 DEF NotifyNext
<1> QED
  BY <1>5, <1>6

(* The invariant holds of every behaviour. *)
THEOREM NotifyInvariant ==
  ASSUME NotifyAssumption
  PROVE  NotifySpec => []NotifyInv
<1>1. NotifyInit => NotifyInv
  BY NotifyStart
<1>2. NotifyInv /\ [NotifyNext]_notifyVars => NotifyInv'
  BY NotifyStep
<1> QED
  BY <1>1, <1>2, PTL DEF NotifySpec

(* Whatever the requests, map changes, failures and restarts, the rows, the *)
(* tasks and the notification shown are what the types say.                  *)
THEOREM NotifyTypes ==
  ASSUME NotifyAssumption
  PROVE  NotifySpec => []NotifyTypeOK
<1>1. NotifyInv => NotifyTypeOK
  BY DEF NotifyInv
<1> QED
  BY <1>1, NotifyInvariant, PTL

(* A row of either table is marked as triggered only once its push was tried, *)
(* or could not be looked for: also when it was withdrawn and asked for again, *)
(* or its push subscription removed, while the task had it in hand.           *)
THEOREM FiringWasTried ==
  ASSUME NotifyAssumption
  PROVE  NotifySpec => []FiredMeansTried
<1>1. NotifyInv => FiredMeansTried
  BY DEF NotifyInv
<1> QED
  BY <1>1, NotifyInvariant, PTL

(* A subscription whose push was tried since it was asked for is used up, or  *)
(* a task is about to mark it, or the mark was lost to a failure.             *)
THEOREM UsedUpByItsPush ==
  ASSUME NotifyAssumption
  PROVE  NotifySpec => []OneTimeIsUsedUp
<1>1. NotifyInv => OneTimeIsUsedUp
  BY DEF NotifyInv
<1> QED
  BY <1>1, NotifyInvariant, PTL

-----------------------------------------------------------------------------
(* Uploads *)

(* The page's own facts: what it waits for is what it is at, and it is told *)
(* about once, at the end.                                                  *)
PageInv ==
  /\ outcome = None <=> phase # "ended"
  /\ \A s \in Slots : wait = s => req[s].op = phase /\ phase # "ended"

(* Which operations are at work beside which, and while the page is where. *)
OpsInv ==
  /\ \A s \in Slots :
       /\ req[s].op = "initiate" => wait = s
       /\ req[s].op = "complete" => phase \in {"complete", "ended"}
       /\ req[s].op = "cancel" => phase \in {"cancel", "ended"}
  /\ \A s, t \in Slots : ~(req[s].op = "complete" /\ req[t].op = "cancel")

(* A completion that will answer well, or has, wrote the row. *)
Told(q) == q.pc = "data" \/ (q.pc \in {"discard", "forget"} /\ q.stored) => row = "new"

RowInv ==
  /\ outcome = "success" => row = "new"
  /\ \A s \in Slots : req[s].op = "complete" => Told(req[s])

(* What a completion has copied when it has seen these chunks: either each is *)
(* at its place, or one was short and the last place stays empty.             *)
Copied(f, q) ==
  /\ f.mine
  /\ q.short # {} => NChunks - 1 \notin f.have /\ ~f.long
  /\ q.short = {} => f.have = q.seen /\ (f.long => NChunks - 1 \in q.seen)

(* A completion by how far it is. *)
Progress(s) ==
  LET q == req[s] IN
  /\ q.pc \in {"sent", "create"} => q.short = {}
  /\ q.pc \in {"copy", "check"} => Copied(Target, q)
  /\ q.pc = "copy" => s \in Target.by
  /\ q.pc = "check" => q.seen = Chunks
  /\ q.pc = "store" => Whole(Target)
  /\ q.pc = "upsert" => Whole(live)
  /\ q.pc \in {"discard", "forget"} /\ q.stored => Whole(live)
  /\ q.pc = "data" => Whole(live)

CompletionInv == \A s \in Slots : req[s].op = "complete" => Progress(s)

(* There is one completion at a time, and none after one was told as successful. *)
AloneInv ==
  /\ \A s, t \in Slots : req[s].op = "complete" /\ req[t].op = "complete" => s = t
  /\ outcome = "success" => \A s \in Slots : req[s].op # "complete"

UploadInv == PageInv /\ OpsInv /\ RowInv /\ (~overlapped => AloneInv /\ CompletionInv)

-----------------------------------------------------------------------------
(* Types *)

PageTyped ==
  /\ phase \in Operations \union {"ended"} /\ index \in Chunks /\ attempt \in 0..(MaxRetries - 1)
  /\ tries \in Counters /\ lastError \in {None, "refused", "broken", "abort"}
  /\ outcome \in {None, "success", "failed", "cancelled"}

LEMMA Constants ==
  /\ Chunks \subseteq Nat /\ 0 \in Chunks /\ NChunks - 1 \in Chunks
  /\ Old \in Files /\ Gone \in Files
  /\ NoRequest \in Requests /\ NoDisk \in [dir : BOOLEAN, file : [Chunks -> {"no", "part", "full"}], tmp : Files]
  /\ Fresh \in Counters
<1>1. Chunks \subseteq Nat /\ 0 \in Chunks /\ NChunks - 1 \in Chunks
  BY UploadAssumption DEF Chunks
<1>2. Old \in Files /\ Gone \in Files
  BY DEF Old, Gone, Files
<1>3. NoRequest \in Requests
  BY <1>1 DEF NoRequest, Requests
<1>4. NoDisk \in [dir : BOOLEAN, file : [Chunks -> {"no", "part", "full"}], tmp : Files]
  BY <1>2 DEF NoDisk
<1>5. Fresh \in Counters
  BY FetchAssumption DEF Fresh, Counters
<1> QED
  BY <1>1, <1>2, <1>3, <1>4, <1>5

LEMMA CountedType ==
  ASSUME NEW t \in Counters, NEW a \in Answers, ~Ends(t, a)
  PROVE  Counted(t, a) \in Counters
<1>1. CASE WaitsForRate(t, a)
  BY <1>1, FetchAssumption DEF WaitsForRate, Counted, Counters
<1>2. CASE ~WaitsForRate(t, a)
  BY <1>2, FetchAssumption DEF Ends, Counted, Counters
<1> QED
  BY <1>1, <1>2

(* From a completion or a cancellation the page goes on to no other operation. *)
Onward == phase \in {"complete", "cancel"} => phase' \in {phase, "ended"}

(* An error leaves the page where it may go on, or ends it without success. *)
LEMMA ThrownSays ==
  ASSUME PageTyped, phase # "ended", NEW error \in {"refused", "broken", "abort"}, Thrown(error)
  PROVE  /\ PageTyped'
         /\ \/ phase' # "ended" /\ outcome' = outcome
            \/ phase' = "ended" /\ outcome' \in {"failed", "cancelled"}
         /\ Onward
<1>0. Fresh \in Counters /\ MaxRetries \in Nat \ {0} /\ attempt \in Nat
  BY Constants, UploadAssumption DEF PageTyped
<1>1. CASE phase = "chunks"
  BY <1>0, <1>1 DEF Thrown, Begin, PageTyped, Operations, Onward
<1>2. CASE phase # "chunks"
  BY <1>0, <1>2 DEF Thrown, EndBy, End, PageTyped, Operations, Onward
<1> QED
  BY <1>1, <1>2

LEMMA NoDataSays ==
  ASSUME PageTyped, phase # "ended", NEW answer \in {"refused", "limited", "broken"}, NoData(answer)
  PROVE  /\ PageTyped'
         /\ \/ phase' # "ended" /\ outcome' = outcome
            \/ phase' = "ended" /\ outcome' \in {"failed", "cancelled"}
         /\ Onward
<1>1. CASE Ends(tries, answer)
  BY <1>1, ThrownSays DEF NoData
<1>2. CASE ~Ends(tries, answer)
  BY <1>2, CountedType DEF NoData, PageTyped, Answers, Onward
<1> QED
  BY <1>1, <1>2

(* Success is told only when the completion was answered. *)
LEMMA ReturnedSays ==
  ASSUME PageTyped, phase # "ended", Returned
  PROVE  /\ PageTyped'
         /\ \/ phase' # "ended" /\ outcome' = outcome
            \/ phase' = "ended" /\ outcome' \in {"failed", "cancelled"}
            \/ phase = "complete" /\ phase' = "ended" /\ outcome' = "success"
         /\ Onward
<1>0. /\ Fresh \in Counters /\ MaxRetries \in Nat \ {0} /\ NChunks \in Nat \ {0}
      /\ index \in Nat /\ index < NChunks
  BY Constants, UploadAssumption DEF PageTyped, Chunks
<1>1. CASE phase \in {"initiate", "chunks"}
  BY <1>0, <1>1 DEF Returned, Begin, PageTyped, Operations, Chunks, Onward
<1>2. CASE phase \in {"complete", "cancel"}
  BY <1>0, <1>2 DEF Returned, EndBy, End, PageTyped, Operations, Onward
<1> QED
  BY <1>0, <1>1, <1>2 DEF PageTyped, Operations

-----------------------------------------------------------------------------
(* The page's steps *)

TypedUploadInv == TypeOK /\ UploadInv

LEMMA TypesApart == TypeOK => PageTyped
BY DEF TypeOK, PageTyped

(* What is at work after the page heard of a request, or of its loss. *)
Left ==
  /\ req' \in [Slots -> Requests]
  /\ \A t \in Slots : req'[t] = NoRequest \/ (req'[t] = req[t] /\ req[t].op # "initiate")

(* What a page is told at the end of a step of its own. *)
GoesOn ==
  \/ phase' # "ended" /\ outcome' = outcome
  \/ phase' = "ended" /\ outcome' \in {"failed", "cancelled"}
  \/ /\ phase' = "ended" /\ outcome' = "success" /\ row = "new"
     /\ ~overlapped => \A t \in Slots : req'[t].op # "complete"

(* What every answer, good or bad, and every loss of one does. *)
LEMMA PageCarries ==
  ASSUME TypedUploadInv, UNCHANGED <<serverVars, overlapped>>, Left, wait' = None,
         PageTyped', aborted' \in BOOLEAN, phase # "ended", Onward, GoesOn
  PROVE  TypedUploadInv'
<1>1. TypeOK'
  BY DEF TypedUploadInv, TypeOK, PageTyped, serverVars, Left
<1>2. outcome = None
  BY DEF TypedUploadInv, UploadInv, PageInv
<1>3. PageInv'
  BY <1>2, UploadAssumption DEF PageInv, GoesOn
<1>4. \A t \in Slots : req'[t].op = "none" \/ (req'[t] = req[t] /\ req[t].op # "initiate")
  BY DEF Left, NoRequest
<1>5. OpsInv'
  <2>1. \A t \in Slots :
          /\ req[t].op = "complete" => phase' \in {"complete", "ended"}
          /\ req[t].op = "cancel" => phase' \in {"cancel", "ended"}
    BY DEF TypedUploadInv, UploadInv, OpsInv, Onward
  <2> QED
    BY <1>4, <2>1 DEF TypedUploadInv, UploadInv, OpsInv
<1>6. RowInv'
  BY <1>2, <1>4 DEF TypedUploadInv, UploadInv, RowInv, Told, GoesOn, serverVars
<1>7. ASSUME ~overlapped' PROVE AloneInv' /\ CompletionInv'
  <2>1. AloneInv /\ CompletionInv
    BY <1>7 DEF TypedUploadInv, UploadInv
  <2>2. AloneInv'
    BY <1>2, <1>4, <1>7, <2>1 DEF AloneInv, GoesOn
  <2>3. ASSUME NEW t \in Slots, req'[t] = req[t], Progress(t) PROVE Progress(t)'
    BY <2>3 DEF Progress, Copied, Target, Whole, serverVars
  <2> QED
    BY <1>4, <2>1, <2>2, <2>3 DEF CompletionInv
<1> QED
  BY <1>1, <1>3, <1>5, <1>6, <1>7 DEF TypedUploadInv, UploadInv

LEMMA SendChunkStep ==
  ASSUME TypedUploadInv, SendChunk
  PROVE  TypedUploadInv' /\ UNCHANGED <<backend, live, row, outcome>>
<1>1. PICK s \in Slots :
        /\ req[s] = NoRequest
        /\ req' = [req EXCEPT ![s] = [NoRequest EXCEPT !.op = phase, !.chunk = index, !.pc = "sent"]]
        /\ wait' = s
  BY DEF SendChunk
<1>2. /\ phase # "ended" /\ wait = None /\ UNCHANGED <<serverVars, phase, outcome>>
      /\ UNCHANGED <<index, attempt, tries, lastError, aborted>>
      /\ overlapped' = (overlapped \/ (phase = "complete" /\ \E t \in Slots : req[t].op = "complete"))
  BY DEF SendChunk
<1> DEFINE q == [NoRequest EXCEPT !.op = phase, !.chunk = index, !.pc = "sent"]
<1>3. /\ q \in Requests /\ q.op = phase /\ q.pc = "sent" /\ q.short = {}
      /\ req'[s] = q /\ \A t \in Slots \ {s} : req'[t] = req[t]
  BY <1>1, <1>2, Constants DEF TypedUploadInv, TypeOK, Requests, NoRequest
<1> HIDE DEF q
<1>4. TypeOK'
  BY <1>1, <1>2, <1>3 DEF TypedUploadInv, TypeOK, serverVars
<1>5. PageInv'
  BY <1>1, <1>2, <1>3 DEF TypedUploadInv, UploadInv, PageInv
<1>6. OpsInv'
  <2>1. \A t \in Slots \ {s} :
          /\ req[t].op # "initiate"
          /\ req[t].op = "complete" => phase = "complete"
          /\ req[t].op = "cancel" => phase = "cancel"
    BY <1>2, UploadAssumption DEF TypedUploadInv, UploadInv, OpsInv
  <2> QED
    BY <1>1, <1>2, <1>3, <2>1 DEF OpsInv
<1>7. RowInv'
  BY <1>2, <1>3 DEF TypedUploadInv, UploadInv, RowInv, Told, serverVars
<1>8. ASSUME ~overlapped' PROVE AloneInv' /\ CompletionInv'
  <2>1. ~overlapped /\ (phase = "complete" => \A t \in Slots : req[t].op # "complete")
    BY <1>2, <1>8
  <2>2. AloneInv'
    <3>1. outcome' = None
      BY <1>2 DEF TypedUploadInv, UploadInv, PageInv
    <3>2. \A t \in Slots \ {s} : req'[t].op = "complete" => phase # "complete" /\ req[t].op = "complete"
      BY <1>3, <2>1
    <3>3. \A t, u \in Slots : req[t].op = "complete" /\ req[u].op = "complete" => t = u
      BY <2>1 DEF TypedUploadInv, UploadInv, AloneInv
    <3> QED
      BY <1>3, <3>1, <3>2, <3>3, UploadAssumption DEF AloneInv
  <2>3. Progress(s)'
    BY <1>3 DEF Progress
  <2>4. ASSUME NEW t \in Slots \ {s}, Progress(t) PROVE Progress(t)'
    BY <1>2, <1>3, <2>4 DEF Progress, Copied, Target, Whole, serverVars
  <2> QED
    BY <1>3, <2>1, <2>2, <2>3, <2>4 DEF TypedUploadInv, UploadInv, CompletionInv
<1> QED
  BY <1>2, <1>4, <1>5, <1>6, <1>7, <1>8 DEF TypedUploadInv, UploadInv, serverVars

(* The answer of a completion is given once its row is new, and the model whole *)
(* unless another was beside it.                                                *)
LEMMA ReceiveStep ==
  ASSUME TypedUploadInv, NEW s \in Slots, Receive(s)
  PROVE  /\ TypedUploadInv' /\ UNCHANGED <<backend, live, row, overlapped>>
         /\ \/ outcome' = outcome
            \/ outcome = None /\ outcome' \in {"failed", "cancelled"}
            \/ /\ outcome = None /\ outcome' = "success" /\ row = "new"
               /\ ~overlapped => Whole(live)
<1>1. /\ wait = s /\ wait' = None /\ req' = [req EXCEPT ![s] = NoRequest]
      /\ UNCHANGED <<serverVars, aborted, overlapped>> /\ req[s].pc \in {"data", "refused"}
      /\ IF req[s].pc = "data" THEN Returned ELSE NoData("refused")
  BY DEF Receive
<1>2. PageTyped /\ req[s].op = phase /\ phase # "ended" /\ outcome = None
  BY <1>1, TypesApart DEF TypedUploadInv, UploadInv, PageInv
<1>3. /\ PageTyped' /\ Onward
      /\ \/ phase' # "ended" /\ outcome' = outcome
         \/ phase' = "ended" /\ outcome' \in {"failed", "cancelled"}
         \/ /\ req[s].pc = "data" /\ phase = "complete"
            /\ phase' = "ended" /\ outcome' = "success"
  BY <1>1, <1>2, ReturnedSays, NoDataSays
<1>4. Left
  BY <1>1, Constants DEF Left, TypedUploadInv, TypeOK, UploadInv, OpsInv
<1>5. req[s].pc = "data" /\ phase = "complete" =>
        row = "new" /\ (~overlapped => Whole(live) /\ \A t \in Slots \ {s} : req[t].op # "complete")
  BY <1>2 DEF TypedUploadInv, UploadInv, RowInv, Told, AloneInv, CompletionInv, Progress
<1>6. GoesOn
  <2>1. req'[s].op = "none" /\ \A t \in Slots \ {s} : req'[t] = req[t]
    BY <1>1 DEF TypedUploadInv, TypeOK, NoRequest
  <2> QED
    BY <1>3, <1>5, <2>1 DEF GoesOn
<1>7. TypedUploadInv'
  BY <1>1, <1>2, <1>3, <1>4, <1>6, PageCarries DEF TypedUploadInv, TypeOK
<1> QED
  BY <1>1, <1>2, <1>3, <1>5, <1>7 DEF serverVars

(* Lost, turned away, or all requests at once by a restart. *)
LEMMA LossStep ==
  ASSUME TypedUploadInv, NEW answer \in {"limited", "broken"}, NoData(answer), phase # "ended",
         UNCHANGED <<serverVars, aborted, overlapped>>, wait' = None, Left
  PROVE  /\ TypedUploadInv' /\ UNCHANGED <<backend, live, row>>
         /\ \/ outcome' = outcome
            \/ outcome = None /\ outcome' \in {"failed", "cancelled"}
<1>1. PageTyped /\ outcome = None
  BY TypesApart DEF TypedUploadInv, UploadInv, PageInv
<1>2. /\ PageTyped' /\ Onward
      /\ \/ phase' # "ended" /\ outcome' = outcome
         \/ phase' = "ended" /\ outcome' \in {"failed", "cancelled"}
  BY <1>1, NoDataSays
<1>3. TypedUploadInv'
  BY <1>1, <1>2, PageCarries DEF TypedUploadInv, TypeOK, GoesOn
<1> QED
  BY <1>1, <1>2, <1>3 DEF serverVars

LEMMA UnheardSays ==
  ASSUME TypedUploadInv, NEW s \in Slots, wait = s, Unheard(s)
  PROVE  Left
<1>1. \A t \in Slots \ {s} : req'[t] = req[t] /\ req[t].op # "initiate"
  BY DEF Unheard, TypedUploadInv, TypeOK, UploadInv, OpsInv
<1>2. req'[s] = NoRequest \/ (req'[s] = req[s] /\ req[s].op # "initiate")
  BY DEF Unheard, TypedUploadInv, TypeOK
<1> QED
  BY <1>1, <1>2, Constants DEF Left, Unheard, TypedUploadInv, TypeOK

LEMMA PageStep ==
  ASSUME TypedUploadInv, \/ Abort \/ NoticeAbort \/ Restart
               \/ \E s \in Slots : Lose(s) \/ TurnAway(s)
  PROVE  /\ TypedUploadInv' /\ UNCHANGED <<backend, live, row>>
         /\ \/ outcome' = outcome
            \/ outcome = None /\ outcome' \in {"failed", "cancelled"}
<1>0. PageTyped /\ (phase # "ended" => outcome = None)
  BY TypesApart DEF TypedUploadInv, UploadInv, PageInv
<1>1. CASE Abort
  <2>1. /\ phase # "ended" /\ aborted' = TRUE /\ UNCHANGED <<serverVars, outcome>> /\ wait' = None
        /\ PageTyped' /\ UNCHANGED <<phase, overlapped>> /\ Onward /\ GoesOn
    BY <1>0, <1>1 DEF Abort, PageTyped, Onward, GoesOn
  <2>2. Left
    <3>1. CASE wait = None
      BY <1>1, <3>1, UploadAssumption DEF Abort, Left, TypedUploadInv, TypeOK, UploadInv, OpsInv
    <3>2. CASE wait # None
      <4>1. wait \in Slots /\ Unheard(wait)
        BY <1>1, <3>2 DEF Abort, TypedUploadInv, TypeOK
      <4> QED
        BY <4>1, UnheardSays
    <3> QED
      BY <3>1, <3>2
  <2>3. TypedUploadInv'
    BY <1>0, <2>1, <2>2, PageCarries
  <2> QED
    BY <2>1, <2>3 DEF serverVars
<1>2. CASE NoticeAbort
  <2>1. /\ phase # "ended" /\ Thrown("abort") /\ UNCHANGED <<serverVars, req, aborted, wait, overlapped>>
        /\ wait = None
    BY <1>2 DEF NoticeAbort
  <2>2. /\ PageTyped' /\ Onward
        /\ \/ phase' # "ended" /\ outcome' = outcome
           \/ phase' = "ended" /\ outcome' \in {"failed", "cancelled"}
    BY <1>0, <2>1, ThrownSays
  <2>3. TypedUploadInv'
    <3>1. Left
      BY <2>1, UploadAssumption DEF Left, TypedUploadInv, TypeOK, UploadInv, OpsInv
    <3> QED
      BY <2>1, <2>2, <3>1, PageCarries DEF TypedUploadInv, TypeOK, GoesOn
  <2> QED
    BY <1>0, <2>1, <2>2, <2>3 DEF serverVars
<1>3. CASE Restart
  <2>1. /\ UNCHANGED <<serverVars, aborted, overlapped>> /\ req' \in [Slots -> Requests]
        /\ \A t \in Slots : req'[t] = NoRequest
    BY <1>3, Constants DEF Restart
  <2>2. CASE wait = None
    <3>1. PageTyped' /\ UNCHANGED <<phase, outcome, wait>>
      BY <1>0, <1>3, <2>2 DEF Restart, PageTyped
    <3>2. TypeOK'
      BY <2>1, <3>1 DEF TypedUploadInv, TypeOK, PageTyped, serverVars
    <3>3. UploadInv'
      <4>1. \A t \in Slots : req'[t].op = "none"
        BY <2>1 DEF NoRequest
      <4> QED
        BY <2>1, <2>2, <3>1, <4>1, UploadAssumption
           DEF TypedUploadInv, UploadInv, PageInv, OpsInv, RowInv, AloneInv, CompletionInv, serverVars
    <3> QED
      BY <2>1, <3>1, <3>2, <3>3 DEF TypedUploadInv, serverVars
  <2>3. CASE wait # None
    <3>1. wait' = None /\ NoData("broken") /\ phase # "ended"
      BY <1>3, <2>3 DEF Restart, TypedUploadInv, TypeOK, UploadInv, PageInv
    <3> QED
      BY <2>1, <3>1, LossStep DEF Left
  <2> QED
    BY <2>2, <2>3
<1>4. ASSUME NEW s \in Slots, Lose(s)
      PROVE  /\ TypedUploadInv' /\ UNCHANGED <<backend, live, row>>
             /\ \/ outcome' = outcome
                \/ outcome = None /\ outcome' \in {"failed", "cancelled"}
  <2>1. /\ wait = s /\ wait' = None /\ Unheard(s) /\ NoData("broken")
        /\ UNCHANGED <<serverVars, aborted, overlapped>> /\ phase # "ended"
    BY <1>4 DEF Lose, TypedUploadInv, UploadInv, PageInv
  <2> QED
    BY <2>1, UnheardSays, LossStep
<1>5. ASSUME NEW s \in Slots, TurnAway(s)
      PROVE  /\ TypedUploadInv' /\ UNCHANGED <<backend, live, row>>
             /\ \/ outcome' = outcome
                \/ outcome = None /\ outcome' \in {"failed", "cancelled"}
  <2>1. /\ wait = s /\ wait' = None /\ NoData("limited") /\ req' = [req EXCEPT ![s] = NoRequest]
        /\ UNCHANGED <<serverVars, aborted, overlapped>> /\ phase # "ended"
    BY <1>5 DEF TurnAway, TypedUploadInv, UploadInv, PageInv
  <2>2. Left
    BY <2>1, Constants DEF Left, TypedUploadInv, TypeOK, UploadInv, OpsInv
  <2> QED
    BY <2>1, <2>2, LossStep
<1> QED
  BY <1>1, <1>2, <1>3, <1>4, <1>5

-----------------------------------------------------------------------------
(* The handlers *)

ServerTyped ==
  /\ backend \in {"local", "r2"}
  /\ session \in [open : BOOLEAN, received : SUBSET Chunks]
  /\ disk \in [dir : BOOLEAN, file : [Chunks -> {"no", "part", "full"}], tmp : Files]
  /\ live \in Files /\ row \in {"old", "new"}

(* A handler's step is its request's alone, and keeps its operation to the end. *)
Moves(s) ==
  /\ req' \in [Slots -> Requests]
  /\ \A t \in Slots \ {s} : req'[t] = req[t]
  /\ req'[s].op = req[s].op \/ (wait # s /\ req'[s].op = "none")

LEMMA AnswersSays ==
  ASSUME TypeOK, NEW s \in Slots, NEW a \in {"data", "refused"}, Answers_(s, a)
  PROVE  /\ Moves(s)
         /\ req'[s] = NoRequest \/ req'[s] = [req[s] EXCEPT !.pc = a]
<1>1. \/ wait # s /\ req'[s] = NoRequest
      \/ wait = s /\ req'[s] = [req[s] EXCEPT !.pc = a]
  BY DEF Answers_, TypeOK
<1>2. req'[s] \in Requests
  BY <1>1, Constants DEF TypeOK, Requests
<1>3. req'[s].op = req[s].op \/ (wait # s /\ req'[s].op = "none")
  BY <1>1 DEF TypeOK, Requests, NoRequest
<1> QED
  BY <1>1, <1>2, <1>3 DEF Answers_, Moves, TypeOK

LEMMA GoesSays ==
  ASSUME TypeOK, NEW s \in Slots, Reaches(s, "writing") \/ Reaches(s, "save") \/ Reaches(s, "create")
           \/ Reaches(s, "store") \/ Reaches(s, "upsert") \/ Reaches(s, "forget")
  PROVE  Moves(s)
BY DEF Reaches, Moves, TypeOK, Requests

LEMMA HandlerCarries ==
  ASSUME TypedUploadInv, NEW s \in Slots, Moves(s), UNCHANGED pageVars, ServerTyped',
         row' \in {row, "new"}, req'[s].op = "complete" => Told(req[s])'
  PROVE  TypeOK' /\ PageInv' /\ OpsInv' /\ RowInv' /\ (~overlapped' => AloneInv')
<1>1. TypeOK'
  BY DEF TypedUploadInv, TypeOK, Moves, ServerTyped, pageVars
<1>2. \A t \in Slots : wait = t => req'[t].op = req[t].op
  BY DEF Moves
<1>3. \A t \in Slots : req'[t].op \in {req[t].op, "none"}
  BY DEF Moves
<1>4. PageInv'
  BY <1>2 DEF TypedUploadInv, UploadInv, PageInv, pageVars
<1>5. OpsInv'
  BY <1>3 DEF TypedUploadInv, UploadInv, OpsInv, pageVars
<1>6. RowInv'
  <2>1. ASSUME NEW t \in Slots \ {s}, req'[t].op = "complete" PROVE Told(req[t])'
    BY <2>1 DEF Moves, TypedUploadInv, UploadInv, RowInv, Told
  <2> QED
    BY <2>1 DEF TypedUploadInv, UploadInv, RowInv, pageVars
<1>7. ~overlapped' => AloneInv'
  BY <1>3 DEF TypedUploadInv, UploadInv, AloneInv, pageVars
<1> QED
  BY <1>1, <1>4, <1>5, <1>6, <1>7

(* The step of a chunk's handler leaves what a completion builds on. *)
LEMMA ChunkCarries ==
  ASSUME TypedUploadInv, NEW s \in Slots, Moves(s), UNCHANGED pageVars, ServerTyped',
         req[s].op = "chunks", UNCHANGED <<backend, live, row>>, disk'.tmp = disk.tmp
  PROVE  TypedUploadInv'
<1>1. \A t \in Slots : req'[t].op = "complete" => req'[t] = req[t] /\ t # s
  BY DEF Moves
<1>2. ASSUME NEW t \in Slots, req'[t] = req[t], Progress(t) PROVE Progress(t)'
  BY <1>2 DEF Progress, Copied, Target, Whole
<1>3. ~overlapped' => CompletionInv'
  BY <1>1, <1>2 DEF TypedUploadInv, UploadInv, CompletionInv, pageVars
<1> QED
  BY <1>1, <1>3, HandlerCarries DEF TypedUploadInv, UploadInv

(* While a session begins or is cancelled, no completion is at work. *)
LEMMA AloneCarries ==
  ASSUME TypedUploadInv, NEW s \in Slots, Moves(s), UNCHANGED pageVars, ServerTyped',
         UNCHANGED row, req[s].op \in {"initiate", "cancel"}
  PROVE  TypedUploadInv'
<1>1. \A t \in Slots : req[t].op # "complete"
  BY UploadAssumption DEF TypedUploadInv, UploadInv, OpsInv, PageInv
<1>2. CompletionInv' /\ req'[s].op # "complete"
  BY <1>1 DEF Moves, CompletionInv
<1> QED
  BY <1>2, HandlerCarries DEF TypedUploadInv, UploadInv

(* What a completion may do to the model and its row. *)
ModelMoves ==
  \/ UNCHANGED <<live, row>>
  \/ backend = "r2" /\ Whole(live') /\ UNCHANGED row
  \/ backend = "local" /\ Reading(live') # "old" /\ UNCHANGED row
  \/ Whole(live) /\ row' = "new" /\ UNCHANGED live

(* What a step of a completion keeps, and what it keeps without another beside it. *)
Sound(s) ==
  /\ Moves(s) /\ ServerTyped' /\ row' \in {row, "new"}
  /\ req'[s].op = "complete" => Told(req[s])'
  /\ ~overlapped => ModelMoves /\ (req'[s].op = "complete" => Progress(s)')

(* Alone, a completion has its target to itself. *)
LEMMA CompletionCarries ==
  ASSUME TypedUploadInv, NEW s \in Slots, UNCHANGED pageVars, req[s].op = "complete", Sound(s)
  PROVE  TypedUploadInv'
<1>1. ~overlapped' => \A t \in Slots \ {s} : req[t].op # "complete"
  BY DEF TypedUploadInv, UploadInv, AloneInv, pageVars
<1>2. ~overlapped' => CompletionInv'
  BY <1>1 DEF Sound, Moves, CompletionInv, pageVars
<1> QED
  BY <1>2, HandlerCarries DEF Sound, TypedUploadInv, UploadInv

(* Sessions, chunks and cancellations change no model and no row. *)
LEMMA ChunkStep ==
  ASSUME TypedUploadInv, NEW s \in Slots, UNCHANGED pageVars,
         \/ ReadSession(s) \/ LeaveChunk(s) \/ WriteBegins(s) \/ WriteEnds(s)
         \/ SaveSession(s) \/ SaveFails(s)
  PROVE  TypedUploadInv' /\ UNCHANGED <<backend, live, row>>
<1>0. req[s].op = "chunks" /\ req[s] \in Requests /\ ServerTyped
  BY DEF ReadSession, LeaveChunk, WriteBegins, WriteEnds, SaveSession, SaveFails, At,
         TypedUploadInv, TypeOK, ServerTyped
<1>1. Moves(s)
  <2>1. CASE \E a \in {"data", "refused"} : Answers_(s, a)
    BY <2>1, AnswersSays DEF TypedUploadInv
  <2>2. CASE Reaches(s, "writing") \/ Reaches(s, "save")
    BY <2>2, GoesSays DEF TypedUploadInv
  <2>3. CASE req' = [req EXCEPT ![s].pc = "body", ![s].seen = session.received]
    BY <1>0, <2>3 DEF Moves, TypedUploadInv, TypeOK, Requests, ServerTyped
  <2> QED
    BY <2>1, <2>2, <2>3
       DEF ReadSession, LeaveChunk, WriteBegins, WriteEnds, SaveSession, SaveFails, JustAnswers
<1>2. UNCHANGED <<backend, live, row>>
  BY DEF ReadSession, LeaveChunk, WriteBegins, WriteEnds, SaveSession, SaveFails, JustAnswers, serverVars
<1>3. session' \in [open : BOOLEAN, received : SUBSET Chunks]
  <2>1. CASE SaveSession(s) \/ SaveFails(s)
    <3>1. Extended(s) \in [open : BOOLEAN, received : SUBSET Chunks]
      BY <1>0 DEF Requests, Extended
    <3> QED
      BY <1>0, <2>1, <3>1 DEF SaveSession, SaveFails, ServerTyped
  <2>2. CASE ReadSession(s) \/ LeaveChunk(s) \/ WriteBegins(s) \/ WriteEnds(s)
    <3>1. session' = session
      BY <2>2 DEF ReadSession, LeaveChunk, WriteBegins, WriteEnds, JustAnswers, serverVars
    <3> QED
      BY <1>0, <3>1 DEF ServerTyped
  <2> QED
    BY <2>1, <2>2
<1>4. \/ disk' = disk
      \/ \E c \in Chunks, f \in {"part", "full"} : disk' = [disk EXCEPT !.file[c] = f]
  <2>1. CASE WriteBegins(s)
    BY <1>0, <2>1 DEF WriteBegins, Requests
  <2>2. CASE WriteEnds(s)
    BY <1>0, <2>2 DEF WriteEnds, Requests
  <2>3. CASE ReadSession(s) \/ LeaveChunk(s) \/ SaveSession(s) \/ SaveFails(s)
    BY <2>3 DEF ReadSession, LeaveChunk, SaveSession, SaveFails, JustAnswers, serverVars
  <2> QED
    BY <2>1, <2>2, <2>3
<1>5. /\ disk' \in [dir : BOOLEAN, file : [Chunks -> {"no", "part", "full"}], tmp : Files]
      /\ disk'.tmp = disk.tmp
  BY <1>0, <1>4 DEF ServerTyped
<1>6. ServerTyped'
  BY <1>0, <1>2, <1>3, <1>5 DEF ServerTyped
<1> QED
  BY <1>0, <1>1, <1>2, <1>5, <1>6, ChunkCarries

LEMMA SessionStep ==
  ASSUME TypedUploadInv, NEW s \in Slots, UNCHANGED pageVars,
         \/ Initiate(s) \/ Cancel(s) \/ CancelForgets(s)
  PROVE  TypedUploadInv' /\ UNCHANGED <<backend, live, row>>
<1>0. req[s].op \in {"initiate", "cancel"} /\ ServerTyped
  BY DEF Initiate, Cancel, CancelForgets, At, TypedUploadInv, TypeOK, ServerTyped
<1>1. Moves(s)
  BY AnswersSays, GoesSays DEF Initiate, Cancel, CancelForgets, TypedUploadInv
<1>2. UNCHANGED <<backend, live, row>>
  BY DEF Initiate, Cancel, CancelForgets
<1>3. ServerTyped'
  <2>1. /\ NoSession \in [open : BOOLEAN, received : SUBSET Chunks]
        /\ [open |-> TRUE, received |-> {}] \in [open : BOOLEAN, received : SUBSET Chunks]
    BY DEF NoSession
  <2>2. session' \in [open : BOOLEAN, received : SUBSET Chunks]
    <3>1. session' \in {session, NoSession, [open |-> TRUE, received |-> {}]}
      BY DEF Initiate, Cancel, CancelForgets
    <3> QED
      BY <1>0, <2>1, <3>1 DEF ServerTyped
  <2>3. disk' \in [dir : BOOLEAN, file : [Chunks -> {"no", "part", "full"}], tmp : Files]
    BY <1>0, Constants DEF Initiate, Cancel, CancelForgets, CleanUp, ServerTyped
  <2> QED
    BY <1>0, <1>2, <2>2, <2>3 DEF ServerTyped
<1> QED
  BY <1>0, <1>1, <1>2, <1>3, AloneCarries

-----------------------------------------------------------------------------
(* The completion *)

LEMMA SetTargetSays ==
  ASSUME ServerTyped, NEW f \in Files, f = Gone \/ f.mine, SetTarget(f), UNCHANGED <<backend, session, row>>
  PROVE  ServerTyped' /\ Target' = f /\ ModelMoves
<1>1. Reading(f) # "old"
  BY Constants DEF Reading, Gone
<1>2. CASE backend = "local"
  BY <1>1, <1>2 DEF SetTarget, Target, ServerTyped, ModelMoves
<1>3. CASE backend # "local"
  <2>1. disk' = [disk EXCEPT !.dir = TRUE, !.tmp = f] /\ live' = live
    BY <1>3 DEF SetTarget
  <2>2. /\ disk' \in [dir : BOOLEAN, file : [Chunks -> {"no", "part", "full"}], tmp : Files]
        /\ disk'.tmp = f
    BY <2>1 DEF ServerTyped
  <2> QED
    BY <1>3, <2>1, <2>2 DEF Target, ServerTyped, ModelMoves
<1> QED
  BY <1>2, <1>3

LEMMA RefusedSays ==
  ASSUME TypeOK, NEW s \in Slots, Answers_(s, "refused"), ServerTyped', UNCHANGED row,
         ~overlapped => ModelMoves
  PROVE  Sound(s)
<1>1. Moves(s) /\ (req'[s] = NoRequest \/ req'[s] = [req[s] EXCEPT !.pc = "refused"])
  BY AnswersSays
<1>2. req'[s].op = "complete" => req'[s].pc = "refused"
  BY <1>1 DEF NoRequest, TypeOK, Requests
<1> QED
  BY <1>1, <1>2 DEF Progress, Told, Sound

(* A handler that goes on to another part of the completion. *)
LEMMA ReachesSays ==
  ASSUME TypeOK, NEW s \in Slots, NEW p \in {"create", "clean", "store", "upsert", "forget"}, Reaches(s, p)
  PROVE  /\ Moves(s) /\ req'[s].pc = p /\ req'[s].op = req[s].op
         /\ req'[s].short = req[s].short /\ req'[s].stored = req[s].stored
<1>1. req[s] \in Requests /\ req' = [req EXCEPT ![s].pc = p]
  BY DEF Reaches, TypeOK
<1> DEFINE q == [req[s] EXCEPT !.pc = p]
<1>2. /\ q \in Requests /\ q.op = req[s].op /\ q.pc = p
      /\ q.short = req[s].short /\ q.stored = req[s].stored
  BY <1>1 DEF Requests
<1>3. req' = [req EXCEPT ![s] = q]
  BY <1>1
<1> HIDE DEF q
<1> QED
  BY <1>2, <1>3 DEF Moves, TypeOK

LEMMA CreateStep ==
  ASSUME TypedUploadInv, NEW s \in Slots, Create(s), UNCHANGED pageVars
  PROVE  Sound(s)
<1>0. /\ req[s].op = "complete" /\ (~overlapped => req[s].short = {}) /\ req[s] \in Requests
      /\ ServerTyped /\ Target \in Files /\ UNCHANGED <<backend, session, row>>
  BY DEF Create, At, TypedUploadInv, UploadInv, CompletionInv, Progress, TypeOK, ServerTyped, Target
<1>1. req' = [req EXCEPT ![s].pc = "copy", ![s].seen = {}]
  BY DEF Create
<1>2. /\ Moves(s) /\ req'[s].pc = "copy" /\ req'[s].seen = {} /\ req'[s].short = req[s].short
  <2> DEFINE q == [req[s] EXCEPT !.pc = "copy", !.seen = {}]
  <2>1. /\ q \in Requests /\ q.op = req[s].op
        /\ q.pc = "copy" /\ q.seen = {} /\ q.short = req[s].short
    BY <1>0 DEF Requests
  <2>2. req' = [req EXCEPT ![s] = q]
    BY <1>0, <1>1
  <2> HIDE DEF q
  <2> QED
    BY <1>0, <2>1, <2>2 DEF Moves, TypedUploadInv, TypeOK
<1> DEFINE f == [mine |-> TRUE, have |-> {}, long |-> FALSE, by |-> Target.by \union {s}]
<1>3. f \in Files /\ f.mine /\ f.have = {} /\ ~f.long /\ s \in f.by
  BY <1>0 DEF Files
<1>4. SetTarget(f)
  BY DEF Create
<1> HIDE DEF f
<1>5. ServerTyped' /\ Target' = f /\ ModelMoves
  BY <1>0, <1>3, <1>4, SetTargetSays
<1>6. ~overlapped => Progress(s)'
  BY <1>0, <1>2, <1>3, <1>5 DEF Progress, Copied
<1> QED
  BY <1>0, <1>2, <1>5, <1>6 DEF Sound, Told

(* A copied chunk, or the first short one and all after it. *)
LEMMA CopyStep ==
  ASSUME TypedUploadInv, NEW s \in Slots, Copy(s), UNCHANGED pageVars
  PROVE  Sound(s)
<1>0. /\ req[s].op = "complete" /\ req[s] \in Requests /\ ServerTyped
      /\ ~overlapped => Copied(Target, req[s]) /\ s \in Target.by
      /\ Target \in Files /\ UNCHANGED <<backend, session, row>>
  BY DEF Copy, At, TypedUploadInv, UploadInv, CompletionInv, Progress, TypeOK, ServerTyped, Target
<1>1. PICK c \in Chunks : req[s].seen = 0..(c - 1) /\ CopyChunk(s, c)
  BY DEF Copy
<1>2. Sound(s)
  <2> DEFINE short == IF req[s].short = {} /\ disk.file[c] = "full" THEN {} ELSE req[s].short \union {c}
             f == Closed(Written(Target, c, req[s].short, short), s, c)
  <2>1. /\ req' = [req EXCEPT ![s].short = short, ![s].seen = @ \union {c},
                              ![s].pc = IF c = NChunks - 1 THEN "check" ELSE "copy"]
        /\ IF s \in Target.by THEN SetTarget(f) ELSE UNCHANGED <<live, disk>>
    BY <1>1 DEF CopyChunk
  <2>2. short \in SUBSET Chunks
    BY <1>0 DEF Requests
  <2> DEFINE seen == req[s].seen
  <2>0. seen = 0..(c - 1)
    BY <1>1
  <2>3. /\ short # {} => (req[s].short = {} \/ req[s].short \subseteq short) /\ c \in short
        /\ short = {} => req[s].short = {}
    OBVIOUS
  <2> DEFINE w == Written(Target, c, req[s].short, short)
  <2>4. /\ w \in Files /\ w.mine = Target.mine /\ w.by = Target.by
        /\ short = {} => w.have = Target.have \union {c} /\ (w.long <=> Target.long \/ c = NChunks - 1)
        /\ short # {} /\ req[s].short = {} => w = Target
        /\ short # {} /\ req[s].short # {} => w.have = Target.have \ short /\ w.long = Target.long
    BY <1>0, <2>2 DEF Written, Files
  <2>5. f = IF c = NChunks - 1 THEN [w EXCEPT !.by = @ \ {s}] ELSE w
    BY DEF Closed
  <2> HIDE DEF short, w, f
  <2>6. /\ f \in Files /\ f.mine = Target.mine /\ f.have = w.have /\ f.long = w.long
        /\ c # NChunks - 1 => f.by = Target.by
    BY <2>4, <2>5 DEF Files
  <2>7. /\ Moves(s) /\ req'[s].short = short /\ req'[s].seen = req[s].seen \union {c}
        /\ req'[s].pc \in {"check", "copy"} /\ (req'[s].pc = "check" <=> c = NChunks - 1)
    <3> DEFINE q == [req[s] EXCEPT !.short = short, !.seen = @ \union {c},
                                   !.pc = IF c = NChunks - 1 THEN "check" ELSE "copy"]
    <3>1. req[s].seen \union {c} \in SUBSET Chunks
      BY <1>0 DEF Requests
    <3>2. /\ q \in Requests /\ q.op = req[s].op
          /\ q.short = short /\ q.seen = req[s].seen \union {c}
          /\ q.pc \in {"check", "copy"} /\ (q.pc = "check" <=> c = NChunks - 1)
      BY <1>0, <2>2, <3>1 DEF Requests
    <3>3. req' = [req EXCEPT ![s] = q]
      BY <1>0, <2>1
    <3> HIDE DEF q
    <3> QED
      BY <3>2, <3>3 DEF Moves, TypedUploadInv, TypeOK
  <2>8. ServerTyped'
    <3>1. CASE s \in Target.by
      <4>1. SetTarget(f)
        BY <2>1, <3>1
      <4>2. disk' = [disk EXCEPT !.dir = TRUE, !.tmp = f] \/ disk' = disk
        BY <4>1 DEF SetTarget
      <4>3. live' \in {live, f}
        BY <4>1 DEF SetTarget
      <4> QED
        BY <1>0, <2>6, <4>2, <4>3 DEF ServerTyped
    <3>2. CASE s \notin Target.by
      BY <1>0, <2>1, <3>2 DEF ServerTyped
    <3> QED
      BY <3>1, <3>2
  <2>9. ASSUME ~overlapped PROVE ModelMoves /\ Progress(s)'
    <3>1. f.mine /\ SetTarget(f) /\ Copied(Target, req[s]) /\ s \in Target.by
      BY <1>0, <2>1, <2>6, <2>9 DEF Copied
    <3>2. Target' = f /\ ModelMoves
      BY <1>0, <2>6, <3>1, SetTargetSays
    <3>3. c = NChunks - 1 => req'[s].seen = Chunks
      BY <2>0, <2>7, UploadAssumption DEF Chunks
    <3>4. short = {} => f.have = req'[s].seen /\ (f.long => NChunks - 1 \in req'[s].seen)
      BY <2>3, <2>4, <2>6, <2>7, <3>1 DEF Copied
    <3>5. short # {} => NChunks - 1 \notin f.have /\ ~f.long
      <4>1. CASE req[s].short = {}
        <5>1. NChunks - 1 \notin req[s].seen
          BY <2>0, UploadAssumption DEF Chunks
        <5> QED
          BY <2>4, <2>6, <3>1, <4>1, <5>1 DEF Copied
      <4>2. CASE req[s].short # {}
        BY <2>4, <2>6, <3>1, <4>2 DEF Copied
      <4> QED
        BY <4>1, <4>2
    <3> QED
      BY <2>6, <2>7, <3>1, <3>2, <3>3, <3>4, <3>5 DEF Progress, Copied
  <2> QED
    BY <1>0, <2>7, <2>8, <2>9 DEF Sound, Told
<1> QED
  BY <1>2

(* A file of the right length is whole. *)
LEMMA CheckStep ==
  ASSUME TypedUploadInv, NEW s \in Slots, UNCHANGED pageVars,
         CheckSize(s) \/ CleanAfterRemoval(s) \/ AssembleFails(s)
  PROVE  Sound(s)
<1>0. /\ req[s].op = "complete" /\ ServerTyped /\ UNCHANGED <<backend, session, row>>
  BY DEF CheckSize, CleanAfterRemoval, AssembleFails, At, TypedUploadInv, TypeOK, ServerTyped
<1>1. CASE CleanAfterRemoval(s) \/ AssembleFails(s)
  <2>1. ServerTyped' /\ ModelMoves
    BY <1>0, <1>1, Constants DEF CleanAfterRemoval, AssembleFails, CleanUp, ServerTyped, ModelMoves
  <2> QED
    BY <1>0, <1>1, <2>1, RefusedSays DEF CleanAfterRemoval, AssembleFails, TypedUploadInv
<1>2. CASE CheckSize(s) /\ Target.long /\ Reaches(s, "store") /\ UNCHANGED <<disk, live>>
  <2>1. ~overlapped => Whole(Target)
    BY <1>0, <1>2 DEF CheckSize, At, TypedUploadInv, UploadInv, CompletionInv, Progress, Copied, Whole
  <2>2. Moves(s) /\ req'[s].pc = "store"
    BY <1>2, ReachesSays DEF TypedUploadInv
  <2>3. ~overlapped => Progress(s)'
    BY <1>0, <1>2, <2>1, <2>2 DEF Progress, Whole, Target
  <2> QED
    BY <1>0, <1>2, <2>2, <2>3 DEF ServerTyped, ModelMoves, Sound, Told
<1>3. CASE Reaches(s, "clean") /\ (SetTarget(Gone) \/ UNCHANGED <<disk, live>>)
  <2>1. ServerTyped' /\ ModelMoves
    <3>1. CASE SetTarget(Gone)
      BY <1>0, <3>1, Constants, SetTargetSays
    <3>2. CASE UNCHANGED <<disk, live>>
      BY <1>0, <3>2 DEF ServerTyped, ModelMoves
    <3> QED
      BY <1>3, <3>1, <3>2
  <2>2. Moves(s) /\ req'[s].pc = "clean"
    BY <1>3, ReachesSays DEF TypedUploadInv
  <2> QED
    BY <1>0, <2>1, <2>2 DEF Progress, Sound, Told
<1> QED
  BY <1>1, <1>2, <1>3 DEF CheckSize

LEMMA StoreRequestStep ==
  ASSUME TypedUploadInv, NEW s \in Slots, StoreFile(s) \/ StoreFails(s), UNCHANGED pageVars
  PROVE  Sound(s)
<1>0. /\ ServerTyped /\ Target \in Files
      /\ req[s].op = "complete" /\ (~overlapped => Whole(Target))
      /\ UNCHANGED <<backend, session, row>>
  BY DEF StoreFile, StoreFails, At, TypedUploadInv, UploadInv, CompletionInv, Progress, TypeOK,
         ServerTyped, Target
<1>1. /\ live' \in Files
      /\ Whole(Target) => ModelMoves
      /\ StoreFile(s) /\ Whole(Target) => Whole(live')
  <2>1. CASE Put
    <3>1. Target = disk.tmp /\ backend = "r2" /\ live' = [disk.tmp EXCEPT !.by = {}]
      BY <2>1 DEF Put, Target
    <3>2. live' \in Files /\ live'.mine = Target.mine /\ live'.have = Target.have
      BY <1>0, <3>1 DEF Files
    <3> QED
      BY <1>0, <3>1, <3>2 DEF StoreFile, StoreFails, Whole, ModelMoves, Target
  <2>2. CASE UNCHANGED live /\ ~Put
    <3>1. StoreFile(s) => Target = live
      BY <2>2 DEF StoreFile, Target
    <3> QED
      BY <1>0, <2>2, <3>1 DEF ModelMoves, ServerTyped
  <2> QED
    BY <2>1, <2>2 DEF StoreFile, StoreFails
<1>2. CASE StoreFile(s)
  <2>1. Reaches(s, "upsert") /\ disk' = disk
    BY <1>2 DEF StoreFile
  <2>2. Moves(s) /\ req'[s].pc = "upsert"
    BY <2>1, ReachesSays DEF TypedUploadInv
  <2>3. ServerTyped'
    BY <1>0, <1>1, <2>1 DEF ServerTyped
  <2>4. ~overlapped => Progress(s)'
    BY <1>0, <1>1, <1>2, <2>2 DEF Progress, Whole
  <2> QED
    BY <1>0, <1>1, <2>2, <2>3, <2>4 DEF Sound, Told
<1>3. CASE StoreFails(s)
  <2>1. ServerTyped' /\ Answers_(s, "refused")
    BY <1>0, <1>1, <1>3, Constants DEF StoreFails, CleanUp, ServerTyped
  <2> QED
    BY <1>0, <1>1, <2>1, RefusedSays DEF TypedUploadInv
<1> QED
  BY <1>2, <1>3

(* The row, then what is left of the session. *)
LEMMA EndStep ==
  ASSUME TypedUploadInv, NEW s \in Slots, UNCHANGED pageVars,
         \/ ReadComplete(s) \/ Upsert(s) \/ DiscardFiles(s) \/ DiscardSession(s)
  PROVE  Sound(s)
<1>0. ServerTyped /\ req[s] \in Requests
  BY DEF TypedUploadInv, TypeOK, ServerTyped
<1>1. CASE ReadComplete(s)
  <2>1. /\ req[s].op = "complete" /\ (~overlapped => req[s].short = {})
        /\ UNCHANGED serverVars /\ Reaches(s, "create")
    BY <1>1 DEF ReadComplete, At, TypedUploadInv, UploadInv, CompletionInv, Progress
  <2>2. ServerTyped' /\ ModelMoves /\ UNCHANGED row
    BY <1>0, <2>1 DEF ServerTyped, serverVars, ModelMoves
  <2>3. Moves(s) /\ req'[s].pc = "create" /\ req'[s].short = req[s].short
    BY <2>1, ReachesSays DEF TypedUploadInv
  <2> QED
    BY <2>1, <2>2, <2>3 DEF Progress, Told, Sound
<1>2. CASE Upsert(s)
  <2>1. PICK applied \in BOOLEAN, stored \in BOOLEAN :
          /\ stored \in {FALSE, applied}
          /\ row' = IF applied THEN "new" ELSE row
          /\ req' = [req EXCEPT ![s].pc = "discard", ![s].stored = stored]
    BY <1>2 DEF Upsert
  <2>2. (~overlapped => Whole(live)) /\ UNCHANGED <<backend, session, disk, live>>
    BY <1>2 DEF Upsert, At, TypedUploadInv, UploadInv, CompletionInv, Progress
  <2>3. Moves(s) /\ req'[s].pc = "discard" /\ req'[s].stored = stored
    BY <1>0, <2>1 DEF Moves, TypedUploadInv, TypeOK, Requests
  <2>6. stored => row' = "new"
    BY <2>1
  <2>4. ServerTyped' /\ (Whole(live) => ModelMoves)
    BY <1>0, <2>1, <2>2 DEF ServerTyped, ModelMoves
  <2>5. ~overlapped => Progress(s)'
    BY <2>1, <2>2, <2>3 DEF Progress, Whole
  <2> QED
    BY <2>1, <2>2, <2>3, <2>4, <2>5, <2>6 DEF Told, Sound
<1>3. CASE DiscardFiles(s)
  <2>1. /\ req[s].op = "complete" /\ (req[s].stored => row = "new")
        /\ ~overlapped => (req[s].stored => Whole(live))
        /\ CleanUp /\ Reaches(s, "forget") /\ UNCHANGED <<backend, session, live, row>>
    BY <1>3 DEF DiscardFiles, At, TypedUploadInv, UploadInv, RowInv, Told, CompletionInv, Progress
  <2>2. Moves(s) /\ req'[s].pc = "forget" /\ req'[s].stored = req[s].stored
    BY <2>1, ReachesSays DEF TypedUploadInv
  <2>3. ServerTyped' /\ ModelMoves
    BY <1>0, <2>1, Constants DEF CleanUp, ServerTyped, ModelMoves
  <2>4. ~overlapped => Progress(s)'
    BY <2>1, <2>2 DEF Progress, Whole
  <2> QED
    BY <2>1, <2>2, <2>3, <2>4 DEF Told, Sound
<1>4. CASE DiscardSession(s)
  <2>1. /\ req[s].op = "complete" /\ (req[s].stored => row = "new")
        /\ ~overlapped => (req[s].stored => Whole(live))
        /\ session' \in {NoSession, session} /\ UNCHANGED <<backend, disk, live, row>>
    BY <1>4 DEF DiscardSession, At, TypedUploadInv, UploadInv, RowInv, Told, CompletionInv, Progress
  <2>2. ServerTyped' /\ ModelMoves
    <3>1. NoSession \in [open : BOOLEAN, received : SUBSET Chunks]
      BY DEF NoSession
    <3> QED
      BY <1>0, <2>1, <3>1 DEF ServerTyped, ModelMoves
  <2>3. CASE req[s].stored
    <3>1. Answers_(s, "data")
      BY <1>4, <2>3 DEF DiscardSession
    <3>2. Moves(s) /\ (req'[s] = NoRequest \/ req'[s] = [req[s] EXCEPT !.pc = "data"])
      BY <3>1, AnswersSays DEF TypedUploadInv
    <3>3. req'[s].op = "complete" => req'[s].pc = "data"
      BY <1>0, <3>2 DEF NoRequest, Requests
    <3>4. ~overlapped => (req'[s].op = "complete" => Progress(s)')
      BY <2>1, <2>3, <3>3 DEF Progress, Whole
    <3> QED
      BY <2>1, <2>2, <2>3, <3>2, <3>4 DEF Told, Sound
  <2>4. CASE ~req[s].stored
    BY <1>4, <2>1, <2>2, <2>4, RefusedSays DEF DiscardSession, TypedUploadInv
  <2> QED
    BY <2>3, <2>4
<1> QED
  BY <1>1, <1>2, <1>3, <1>4

(* A refusal leaves everything as it is. *)
LEMMA RefuseStep ==
  ASSUME TypedUploadInv, NEW s \in Slots, UNCHANGED pageVars, Refuses(s)
  PROVE  TypedUploadInv' /\ UNCHANGED <<backend, live, row>>
<1>1. /\ req[s].op \in {"initiate", "chunks", "complete"}
      /\ Answers_(s, "refused") /\ UNCHANGED <<backend, session, disk, live, row>>
  BY DEF Refuses, JustAnswers, serverVars
<1>2. ServerTyped' /\ ModelMoves
  BY <1>1 DEF TypedUploadInv, TypeOK, ServerTyped, ModelMoves
<1>3. Sound(s)
  BY <1>1, <1>2, RefusedSays DEF TypedUploadInv
<1> QED
  BY <1>1, <1>2, <1>3, ChunkCarries, AloneCarries, CompletionCarries DEF Sound

LEMMA CompletionStep ==
  ASSUME TypedUploadInv, NEW s \in Slots, UNCHANGED pageVars,
         \/ ReadComplete(s) \/ Create(s) \/ Copy(s) \/ AssembleFails(s) \/ CheckSize(s) \/ CleanAfterRemoval(s)
         \/ StoreFile(s) \/ StoreFails(s) \/ Upsert(s) \/ DiscardFiles(s) \/ DiscardSession(s)
  PROVE  /\ TypedUploadInv' /\ backend' = backend
         /\ ~overlapped => ModelMoves /\ outcome # "success"
<1>1. req[s].op = "complete"
  BY DEF ReadComplete, Create, Copy, AssembleFails, CheckSize, CleanAfterRemoval, StoreFile, StoreFails, Upsert,
         DiscardFiles, DiscardSession, At
<1>2. Sound(s)
  BY CreateStep, CopyStep, CheckStep, StoreRequestStep, EndStep
<1>3. TypedUploadInv'
  BY <1>1, <1>2, CompletionCarries
<1>4. backend' = backend
  BY DEF ReadComplete, Create, Copy, AssembleFails, CheckSize, CleanAfterRemoval, StoreFile, StoreFails, Upsert,
         DiscardFiles, DiscardSession, JustAnswers, serverVars
<1>5. ~overlapped => outcome # "success"
  BY <1>1 DEF TypedUploadInv, UploadInv, AloneInv
<1> QED
  BY <1>2, <1>3, <1>4, <1>5 DEF Sound

-----------------------------------------------------------------------------
(* The theorems *)

LEMMA UploadStart == Init => TypedUploadInv
<1> SUFFICES ASSUME Init PROVE TypedUploadInv
  OBVIOUS
<1>1. TypeOK
  <2>1. /\ NoSession \in [open : BOOLEAN, received : SUBSET Chunks]
        /\ 0 \in 0..(MaxRetries - 1) /\ "initiate" \in Operations
    BY UploadAssumption DEF NoSession, Operations
  <2> QED
    BY <2>1, Constants DEF Init, TypeOK
<1>2. \A s \in Slots : req[s].op = "none"
  BY DEF Init, NoRequest
<1>3. OpsInv /\ RowInv /\ AloneInv /\ CompletionInv
  BY <1>2, UploadAssumption DEF Init, OpsInv, RowInv, AloneInv, CompletionInv
<1>4. UploadInv
  BY <1>3, UploadAssumption DEF Init, UploadInv, PageInv
<1> QED
  BY <1>1, <1>4 DEF TypedUploadInv

(* Until completions overlap, a step of the upload is one of the model store, or *)
(* nothing there.                                                                *)
LEMMA StoreStepSimulation ==
  ASSUME TypedUploadInv, [Next]_vars
  PROVE  /\ TypedUploadInv'
         /\ [Store!Next \/ overlapped']_(Store!vars)
         /\ overlapped => overlapped'
         /\ row' \in {row, "new"}
<1>0. live \in Files /\ Reading(live) \in {"old", "torn", "new"} /\ row \in {"old", "new"}
  BY DEF TypedUploadInv, TypeOK, Reading
<1>1. CASE SendChunk
  BY <1>1, SendChunkStep DEF Store!vars, SendChunk
<1>2. CASE \/ Abort \/ NoticeAbort \/ Restart
           \/ \E s \in Slots : Lose(s) \/ TurnAway(s)
  <2>1. UNCHANGED overlapped
    BY <1>2 DEF Abort, NoticeAbort, Restart, Lose, TurnAway
  <2> QED
    BY <1>2, <2>1, PageStep DEF Store!vars, Store!Next, Store!TellFailure
<1>3. ASSUME NEW s \in Slots, Receive(s)
      PROVE  TypedUploadInv' /\ UNCHANGED <<row, overlapped>> /\ [Store!Next \/ overlapped']_(Store!vars)
  <2>1. TypedUploadInv' /\ UNCHANGED <<backend, live, row, overlapped>>
    BY <1>3, ReceiveStep
  <2>2. CASE outcome' = outcome
    BY <2>1, <2>2 DEF Store!vars
  <2>3. CASE outcome = None /\ outcome' \in {"failed", "cancelled"}
    BY <2>1, <2>3 DEF Store!Next, Store!TellFailure
  <2>4. CASE outcome = None /\ outcome' = "success" /\ row = "new" /\ (~overlapped => Whole(live))
    <3>1. ~overlapped => Reading(live) = "new"
      BY <1>0, <2>4 DEF Reading, Whole
    <3>2. ~overlapped => Store!TellSuccess
      BY <2>1, <2>4, <3>1 DEF Store!TellSuccess
    <3> QED
      BY <2>1, <3>2 DEF Store!Next
  <2> QED
    BY <1>3, <2>1, <2>2, <2>3, <2>4, ReceiveStep
<1>4. ASSUME NEW s \in Slots, Handler(s), UNCHANGED pageVars
      PROVE  /\ TypedUploadInv' /\ overlapped' = overlapped /\ row' \in {row, "new"}
             /\ [Store!Next \/ overlapped']_(Store!vars)
  <2>0. outcome' = outcome /\ overlapped' = overlapped
    BY <1>4 DEF pageVars
  <2>1. CASE \/ ReadSession(s) \/ LeaveChunk(s) \/ WriteBegins(s) \/ WriteEnds(s)
             \/ SaveSession(s) \/ SaveFails(s) \/ Refuses(s)
    BY <1>4, <2>0, <2>1, ChunkStep, RefuseStep DEF Store!vars
  <2>2. CASE \/ Initiate(s) \/ Cancel(s) \/ CancelForgets(s)
    BY <1>4, <2>0, <2>2, SessionStep DEF Store!vars
  <2>3. CASE \/ ReadComplete(s) \/ Create(s) \/ Copy(s) \/ AssembleFails(s) \/ CheckSize(s) \/ CleanAfterRemoval(s)
             \/ StoreFile(s) \/ StoreFails(s) \/ Upsert(s) \/ DiscardFiles(s) \/ DiscardSession(s)
    <3>1. TypedUploadInv' /\ backend' = backend /\ (~overlapped => ModelMoves /\ outcome # "success")
      BY <1>4, <2>3, CompletionStep
    <3>2. live' \in Files /\ row' \in {row, "new"}
      <4>1. row' \in {row, "new"}
        BY <2>3 DEF ReadComplete, Create, Copy, AssembleFails, CheckSize, CleanAfterRemoval, StoreFile, StoreFails,
                    Upsert, DiscardFiles, DiscardSession, JustAnswers, serverVars
      <4> QED
        BY <3>1, <4>1 DEF TypedUploadInv, TypeOK
    <3>3. CASE UNCHANGED <<live, row>>
      BY <2>0, <3>1, <3>2, <3>3 DEF Store!vars
    <3>4. CASE backend = "r2" /\ Whole(live') /\ UNCHANGED row
      <4>1. Reading(live') = "new"
        BY <3>2, <3>4 DEF Reading, Whole
      <4>2. Store!Put
        BY <2>0, <3>1, <3>4, <4>1 DEF Store!Put
      <4> QED
        BY <2>0, <3>1, <3>2, <4>2 DEF Store!Next
    <3>5. CASE backend = "local" /\ Reading(live') # "old" /\ UNCHANGED row
      <4>1. Reading(live') \in {"torn", "new"}
        BY <3>5 DEF Reading
      <4>2. outcome # "success" => Store!Write
        BY <2>0, <3>1, <3>5, <4>1 DEF Store!Write
      <4> QED
        BY <2>0, <3>1, <3>2, <4>2 DEF Store!Next
    <3>6. CASE Whole(live) /\ row' = "new" /\ UNCHANGED live
      <4>1. Reading(live) = "new"
        BY <1>0, <3>6 DEF Reading, Whole
      <4>2. Store!Upsert
        BY <2>0, <3>1, <3>6, <4>1 DEF Store!Upsert
      <4> QED
        BY <2>0, <3>1, <3>2, <4>2 DEF Store!Next
    <3>7. CASE overlapped
      BY <2>0, <3>1, <3>2, <3>7
    <3> QED
      BY <2>0, <3>1, <3>3, <3>4, <3>5, <3>6, <3>7 DEF ModelMoves
  <2> QED
    BY <1>4, <2>1, <2>2, <2>3 DEF Handler
<1>5. CASE UNCHANGED vars
  <2>1. UNCHANGED <<backend, live, row, outcome, overlapped>>
    BY <1>5 DEF vars, serverVars, pageVars
  <2>2. TypedUploadInv'
    BY <1>5 DEF vars, serverVars, pageVars, TypedUploadInv, TypeOK, UploadInv, PageInv, OpsInv,
                RowInv, Told, AloneInv, CompletionInv, Progress, Copied, Target, Whole
  <2> QED
    BY <2>1, <2>2 DEF Store!vars
<1> QED
  BY <1>1, <1>2, <1>3, <1>4, <1>5, SendChunkStep, PageStep DEF Next

(* However chunks, sessions, retries and answers interleave, what is known about *)
(* the page, the handlers and the files stays true: what is known of files, until *)
(* two completions overlap.                                                      *)
THEOREM UploadInvariant == Spec => []TypedUploadInv
<1>1. TypedUploadInv /\ [Next]_vars => TypedUploadInv'
  BY StoreStepSimulation
<1> QED
  BY <1>1, UploadStart, PTL DEF Spec

(* The upload keeps what a model store promises: an object is replaced in one    *)
(* step and by a whole model only, the row changes when the whole model is there, *)
(* and an upload told as successful is stored, whole, for good; as long as no    *)
(* completion is asked for while another is at work.                             *)
THEOREM UploadImplementsStore == Spec => ImplementsStore
<1>1. Init => Store!Init
  BY UploadAssumption DEF Init, Store!Init, Reading, Old
<1>2. TypedUploadInv /\ [Next]_vars => [Store!Next \/ overlapped']_(Store!vars)
  BY StoreStepSimulation
<1>3. TypedUploadInv => TypeOK
  BY DEF TypedUploadInv
<1> QED
  BY <1>1, <1>2, <1>3, UploadInvariant, PTL DEF Spec, ImplementsStore

(* What the store's steps alone keep. *)
StoredInv ==
  /\ outcome = "success" => Reading(live) = "new" /\ row = "new"
  /\ backend = "r2" /\ row = "new" => Reading(live) = "new"

LEMMA StoredStep ==
  ASSUME StoredInv, [Store!Next]_(Store!vars)
  PROVE  StoredInv'
<1>1. CASE Store!Put
  BY <1>1 DEF StoredInv, Store!Put
<1>2. CASE Store!Write
  BY <1>2 DEF StoredInv, Store!Write
<1>3. CASE Store!Upsert
  BY <1>3 DEF StoredInv, Store!Upsert
<1>4. CASE Store!TellSuccess \/ Store!TellFailure
  BY <1>4 DEF StoredInv, Store!TellSuccess, Store!TellFailure
<1>5. CASE UNCHANGED Store!vars
  BY <1>5 DEF StoredInv, Store!vars
<1> QED
  BY <1>1, <1>2, <1>3, <1>4, <1>5 DEF Store!Next

LEMMA AlwaysStored == Spec => [](overlapped \/ StoredInv)
<1>1. Init => StoredInv
  BY UploadAssumption DEF Init, StoredInv
<1>2. TypedUploadInv /\ (overlapped \/ StoredInv) /\ [Next]_vars => (overlapped \/ StoredInv)'
  BY StoreStepSimulation, StoredStep
<1> QED
  BY <1>1, <1>2, UploadInvariant, PTL DEF Spec

(* An upload that the page told as successful has its row, whatever requests of  *)
(* it are still on their way; and the model is there, whole, and stays so, unless *)
(* completions overlapped.                                                       *)
THEOREM ToldIsStored == Spec => [](outcome = "success" => row = "new" /\ (overlapped \/ Whole(live)))
<1>1. (overlapped \/ StoredInv) /\ TypedUploadInv =>
        (outcome = "success" => row = "new" /\ (overlapped \/ Whole(live)))
  BY DEF StoredInv, Reading, Whole, TypedUploadInv, UploadInv, RowInv
<1> QED
  BY <1>1, AlwaysStored, UploadInvariant, PTL

(* With an object store, RowHasItsModel holds of every state: what breaks it with *)
(* local storage is that a completion writes into the model's own file.           *)
THEOREM ObjectsHaveTheirModel == Spec => [](backend = "r2" => RowHasItsModel)
<1>1. (overlapped \/ StoredInv) => (backend = "r2" => RowHasItsModel)
  BY DEF StoredInv, Reading, Whole, RowHasItsModel
<1> QED
  BY <1>1, AlwaysStored, PTL
=============================================================================
