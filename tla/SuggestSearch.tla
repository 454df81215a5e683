---------------------------- MODULE SuggestSearch ---------------------------
(***************************************************************************)
(* useSuggestSearch (src/front-ze/components/ui/SuggestSearch.tsx): what is *)
(* typed is committed as the search term after a pause, or at once; its     *)
(* suggestions load after a shorter one.                                   *)
(***************************************************************************)
EXTENDS Absent

CONSTANTS
  Inputs, \* what the field can hold
  Short,  \* those with fewer than minChars characters
  TermOf, \* toTerm: the term each commits to
  Empty   \* the empty input

SearchAssumption == Empty \in Short /\ Short \subseteq Inputs /\ None \notin Inputs

VARIABLES
  input, term,
  commits,     \* the commit of the input is scheduled
  suggestions, \* the input whose suggestions are held, or None
  loading,
  fetch,       \* the input's own fetch: none, scheduled or sent
  dropped      \* inputs whose fetch was aborted and may still answer

searchVars == <<input, term, commits, suggestions, loading, fetch, dropped>>

SearchInit ==
  /\ input = Empty /\ term = TermOf[Empty] /\ commits = FALSE
  /\ suggestions = None /\ loading = FALSE /\ fetch = "none" /\ dropped = {}

(* The effect of suggestions, after the cleanup of the one before. *)
Suggest(v) ==
  /\ dropped' = IF fetch = "sent" THEN dropped \union {input} ELSE dropped
  /\ IF v \in Short THEN suggestions' = None /\ loading' = FALSE /\ fetch' = "none"
                    ELSE fetch' = "scheduled" /\ UNCHANGED <<suggestions, loading>>

(* An input whose term is empty is committed at once, another later. *)
Scheduled(v) == TermOf[v] # TermOf[Empty]

Type(v) ==
  /\ v # input /\ input' = v
  /\ commits' = Scheduled(v)
  /\ term' = IF TermOf[v] = TermOf[Empty] THEN TermOf[v] ELSE term
  /\ Suggest(v)

CommitTimer ==
  /\ commits /\ commits' = FALSE
  /\ term' = TermOf[input]
  /\ UNCHANGED <<input, suggestions, loading, fetch, dropped>>

(* Enter, or a suggestion: the scheduled commit of the input is not taken back, *)
(* and the one of a new input is scheduled as ever.                             *)
choose(v) ==
  /\ input' = v /\ term' = TermOf[v]
  /\ IF v = input THEN UNCHANGED <<commits, suggestions, loading, fetch, dropped>>
     ELSE commits' = Scheduled(v) /\ Suggest(v)

reset ==
  /\ input' = Empty /\ term' = TermOf[Empty] /\ suggestions' = None
  /\ IF input = Empty THEN UNCHANGED <<commits, loading, fetch, dropped>>
     ELSE commits' = FALSE /\ Suggest(Empty)

SuggestTimer ==
  /\ fetch = "scheduled"
  /\ fetch' = "sent" /\ loading' = TRUE
  /\ UNCHANGED <<input, term, commits, suggestions, dropped>>

(* A failed fetch finds nothing. *)
Found ==
  /\ fetch = "sent"
  /\ suggestions' \in {input, None}
  /\ fetch' = "none" /\ loading' = FALSE
  /\ UNCHANGED <<input, term, commits, dropped>>

(* Mutant of FoundLate: the signal is not looked at. *)
FoundLateShown(v) ==
  /\ v \in dropped /\ dropped' = dropped \ {v}
  /\ suggestions' = v /\ loading' = FALSE
  /\ UNCHANGED <<input, term, commits, fetch>>

(* The answer of an aborted fetch is dropped. *)
FoundLate(v) ==
  /\ v \in dropped /\ dropped' = dropped \ {v}
  /\ UNCHANGED <<input, term, commits, suggestions, loading, fetch>>

SearchNext ==
  \/ \E v \in Inputs : Type(v) \/ choose(v) \/ FoundLate(v)
  \/ CommitTimer \/ reset \/ SuggestTimer \/ Found

SearchSpec == SearchInit /\ [][SearchNext]_searchVars

-----------------------------------------------------------------------------
(* Properties *)

SearchTypeOK ==
  /\ input \in Inputs /\ term \in {TermOf[v] : v \in Inputs}
  /\ commits \in BOOLEAN /\ loading \in BOOLEAN
  /\ suggestions \in Inputs \union {None}
  /\ fetch \in {"none", "scheduled", "sent"} /\ dropped \subseteq Inputs

(* What is typed is the search term, or on its way to be: no order of typing, *)
(* choosing and clearing leaves the list searched by something else.          *)
TypedIsSearched == term = TermOf[input] \/ commits

(* Out of its fetch, an input shows its own suggestions or none, and no spinner. *)
SuggestionsFit == fetch = "none" => ~loading /\ suggestions \in {input, None}
=============================================================================
