------------------------------ MODULE MapsIndex -----------------------------
(***************************************************************************)
(* The index of all maps (src/front-ze/components/maps/global/             *)
(* GlobalMapsIndex.tsx): its rows are loaded by key, a page of a choice of  *)
(* filter, search term, game and order, through a cache and a table of     *)
(* requests under way that outlive the component; toggling a favourite     *)
(* drops the cached pages of the Favorite filter. A page is told by the    *)
(* toggles it reflects.                                                    *)
(***************************************************************************)
EXTENDS Absent, Naturals

CONSTANTS
  Filters,  \* "Favorite", and other choices
  LastPage, \* the number of each filter's last page
  Toggles   \* clicks on the favourite button

VARIABLES
  cache,    \* pageCache: the toggles each cached page reflects, or None
  requests, \* pageRequests: those under way, or None
  applied,  \* the toggles the server has applied
  recorded, \* those whose answer was recorded: favoritesVersion counts them
  sent,     \* those whose request is under way
  filter, page, \* the key's parts
  shown,    \* the key whose rows the view holds
  failed,   \* failedKey
  awaited   \* the effect of the key has not had its answer

loads == <<cache, requests>>
favs == <<applied, recorded, sent>>
viewVars == <<shown, failed, awaited>>
mapsVars == <<loads, favs, viewVars, filter, page>>

PageKeys == UNION {[filter : {f}, page : 0..LastPage[f]] : f \in Filters}
pageKey == [filter |-> filter, page |-> page]

(* The toggles that rows reflect, or no rows. *)
Rows == (SUBSET Toggles) \union {None}

(* A request: the toggles recorded when it was made, and its rows. *)
Requested == [version : SUBSET Toggles, rows : Rows]

MapsAssumption ==
  /\ LastPage \in [Filters -> Nat]
  /\ None \notin PageKeys /\ None \notin Requested /\ \A s \in SUBSET Toggles : s # None

Loading == cache[pageKey] = None /\ shown # pageKey /\ failed # pageKey

-----------------------------------------------------------------------------
(* loadPage *)

(* Only the rows of the Favorite filter, and their version, matter. *)
Request(k) == [version |-> IF k.filter = "Favorite" THEN recorded ELSE {}, rows |-> None]

(* A cached page, a request under way, or a new one. *)
Started(rs, k) ==
  IF cache[k] # None \/ rs[k] # None THEN rs ELSE [rs EXCEPT ![k] = Request(k)]

(* The next page is loaded ahead once the view has its own, or its error (then *)
(* as if it had the page count of its own key).                                *)
Ahead(rs, k) ==
  IF k.page < LastPage[k.filter] THEN Started(rs, [k EXCEPT !.page = @ + 1]) ELSE rs

(* A render with another key: its effect, and the one that loads ahead. *)
View(k) ==
  IF cache[k] # None
    THEN /\ shown' = k /\ failed' = None /\ awaited' = FALSE
         /\ requests' = Ahead(requests, k)
    ELSE /\ awaited' = TRUE
         /\ UNCHANGED <<shown, failed>>
         /\ requests' = IF shown = k \/ failed = k THEN Ahead(Started(requests, k), k)
                        ELSE Started(requests, k)

SameView == UNCHANGED <<viewVars, requests>>

MapsInit ==
  /\ filter \in Filters \ {"Favorite"} /\ page = 0
  /\ applied = {} /\ recorded = {} /\ sent = {}
  /\ cache = [k \in PageKeys |-> IF k = pageKey THEN {} ELSE None]
  /\ requests = Ahead([k \in PageKeys |-> None], pageKey)
  /\ shown = pageKey /\ failed = None /\ awaited = FALSE

(* setFilterTab, setSortBy, setGame and the commit of a search term come with *)
(* setPage(0).                                                                *)
SetFilter(f) ==
  /\ filter' = f /\ page' = 0
  /\ IF pageKey' = pageKey THEN SameView ELSE View(pageKey')
  /\ UNCHANGED <<cache, favs>>

SetPage(p) ==
  /\ p # page /\ page' = p /\ UNCHANGED filter
  /\ View(pageKey')
  /\ UNCHANGED <<cache, favs>>

(* The page is left and opened again: its own first rows go to the cache. *)
Remount ==
  \E f \in Filters \ {"Favorite"} :
    LET k == [filter |-> f, page |-> 0] IN
      /\ filter' = f /\ page' = 0
      /\ cache' = [cache EXCEPT ![k] = {}]
      /\ shown' = k /\ failed' = None /\ awaited' = FALSE
      /\ requests' = Ahead(requests, k)
      /\ UNCHANGED favs

-----------------------------------------------------------------------------
(* Requests. *)

(* The API reads the favourites, some time before the answer is here. *)
Read(k) ==
  /\ requests[k] # None /\ requests[k].rows = None
  /\ requests' = [requests EXCEPT ![k].rows = IF k.filter = "Favorite" THEN applied ELSE {}]
  /\ UNCHANGED <<cache, favs, filter, page, viewVars>>

(* Mutant of Cacheable: the version is not looked at. *)
CacheableAlways(k) == TRUE

Cacheable(k) == k.filter # "Favorite" \/ requests[k].version = recorded

(* Mutant of Delivered: the effect of an earlier key is not cancelled. *)
DeliveredAnyway(k) == /\ shown' = k /\ failed' = None /\ awaited' = FALSE

(* The answer reaches the view only if its key is still the view's. *)
Delivered(k) ==
  IF awaited /\ k = pageKey THEN shown' = k /\ failed' = None /\ awaited' = FALSE
  ELSE UNCHANGED viewVars

PageArrives(k) ==
  /\ requests[k] # None /\ requests[k].rows # None
  /\ cache' = IF Cacheable(k) THEN [cache EXCEPT ![k] = requests[k].rows] ELSE cache
  /\ LET left == [requests EXCEPT ![k] = None] IN
       requests' = IF awaited /\ k = pageKey /\ Loading THEN Ahead(left, k) ELSE left
  /\ Delivered(k)
  /\ UNCHANGED <<favs, filter, page>>

PageFails(k) ==
  /\ requests[k] # None
  /\ LET left == [requests EXCEPT ![k] = None] IN
       IF awaited /\ k = pageKey
         THEN /\ failed' = k /\ awaited' = FALSE
              /\ requests' = IF Loading THEN Ahead(left, k) ELSE left
         ELSE requests' = left /\ UNCHANGED <<failed, awaited>>
  /\ UNCHANGED <<cache, favs, filter, page, shown>>

(* PAGE_CACHE_TTL_MS has passed. *)
Expire(k) ==
  /\ cache[k] # None
  /\ cache' = [cache EXCEPT ![k] = None]
  /\ UNCHANGED <<requests, favs, filter, page, viewVars>>

-----------------------------------------------------------------------------
(* Favourites. *)

Click(t) ==
  /\ t \notin sent \union applied
  /\ sent' = sent \union {t}
  /\ UNCHANGED <<loads, applied, recorded, filter, page, viewVars>>

Apply(t) ==
  /\ t \in sent \ applied
  /\ applied' = applied \union {t}
  /\ UNCHANGED <<loads, recorded, sent, filter, page, viewVars>>

(* recordFavorite deletes every cached page of the filter. *)
Forgotten(c) == [k \in PageKeys |-> IF k.filter = "Favorite" THEN None ELSE c[k]]

RecordToggle(t) ==
  /\ t \in sent \cap applied
  /\ sent' = sent \ {t} /\ recorded' = recorded \union {t}
  /\ cache' = Forgotten(cache)
  /\ UNCHANGED <<requests, applied, filter, page, viewVars>>

(* The answer is an error, or lost: nothing is recorded. *)
ToggleFails(t) ==
  /\ t \in sent
  /\ sent' = sent \ {t}
  /\ UNCHANGED <<loads, applied, recorded, filter, page, viewVars>>

MapsNext ==
  \/ \E f \in Filters : SetFilter(f)
  \/ \E p \in 0..LastPage[filter] : SetPage(p)
  \/ Remount
  \/ \E k \in PageKeys : Read(k) \/ PageArrives(k) \/ PageFails(k) \/ Expire(k)
  \/ \E t \in Toggles : Click(t) \/ Apply(t) \/ RecordToggle(t) \/ ToggleFails(t)

MapsSpec == MapsInit /\ [][MapsNext]_mapsVars

-----------------------------------------------------------------------------
(* Properties *)

MapsTypeOK ==
  /\ cache \in [PageKeys -> Rows]
  /\ requests \in [PageKeys -> Requested \union {None}]
  /\ applied \in SUBSET Toggles /\ recorded \in SUBSET Toggles /\ sent \in SUBSET Toggles
  /\ pageKey \in PageKeys /\ shown \in PageKeys /\ failed \in PageKeys \union {None} /\ awaited \in BOOLEAN

(* A cached page of the Favorite filter reflects every toggle whose answer   *)
(* the page has had, whatever requests were under way when it came.  (Of the *)
(* cache only: a view that comes back while a request of before the toggle   *)
(* is still under way joins it, and shows its rows until they are asked for  *)
(* again.)                                                                   *)
FavoritesAreFresh ==
  \A k \in PageKeys : k.filter = "Favorite" /\ cache[k] # None => recorded \subseteq cache[k]

(* The skeleton is only shown while a request for its key is under way, which *)
(* the view will have the answer of.                                          *)
SkeletonIsUnderWay == Loading => awaited /\ requests[pageKey] # None
=============================================================================
