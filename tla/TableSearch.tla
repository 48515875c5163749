---------------------------- MODULE TableSearch ----------------------------
(***************************************************************************)
(* A list of the administration web interface, searched, filtered and      *)
(* paged through its address.  The router knows the latest address at      *)
(* once, the page is rendered with it only when the guards have let it     *)
(* pass, the rows follow when the server has answered, if it does, and     *)
(* what is typed is written to the address when typing pauses: every       *)
(* control may act on a page that is one or more addresses behind.         *)
(***************************************************************************)
EXTENDS Naturals

CONSTANTS
  Texts,        \* what can be typed; NoText for nothing
  NoText,
  Keys,         \* the filters over a list
  Multiple,     \* those of which several options may be chosen
  Options,      \* what can be chosen
  MaxPages,     \* pages a list may have
  MaxInputs     \* how often somebody or something else changes anything

NotSet == "not set"

ASSUME TextsAssumption == NoText \in Texts /\ NotSet \notin Texts
ASSUME MultipleAssumption == Multiple \subseteq Keys
ASSUME MaxPagesAssumption == MaxPages \in Nat \ {0}
ASSUME MaxInputsAssumption == MaxInputs \in Nat

VARIABLES
  byColumn,     \* the list is that of the users, filtered by the table's columns
  latest,       \* the search of the router's latest address
  rendered,     \* the search the page was last rendered with
  draft,        \* what the search box holds
  timer,        \* what the debounced write will write, or NotSet
  pages,        \* of the rows on the screen, which may be those of before
  answered,     \* the server has answered the rendered search
  failed,       \* with an error, which is shown in the place of box and rows
  effect,       \* useDataTable's effect is due after a render
  wanted,       \* the query typed and the filters chosen last
  crossed,      \* the list was opened afresh before a write was rendered
  undone,       \* filters that another choice may have undone, made before their render
  cancelled,    \* what was typed was not written yet when the list failed
  inputs

tableVars == <<byColumn, latest, rendered, draft, timer, pages, answered, failed, effect,
               wanted, crossed, undone, cancelled, inputs>>
lost == <<crossed, undone, cancelled>>

Loading == MaxPages + 1

(* The scope narrows a list to one user or group, under a chip over it.    *)
Searches == [q : Texts, filters : [Keys -> SUBSET Options], scope : BOOLEAN, page : 1..MaxPages + 1]
Unfiltered == [key \in Keys |-> {}]
First == [q |-> NoText, filters |-> Unfiltered, scope |-> FALSE, page |-> 1]

Wanted(search) == [q |-> search.q, filters |-> search.filters, scope |-> search.scope]

TableTypeOK ==
  /\ latest \in Searches /\ rendered \in Searches
  /\ draft \in Texts
  /\ timer \in Texts \cup {NotSet}
  /\ pages \in 0..Loading
  /\ answered \in BOOLEAN /\ failed \in BOOLEAN /\ effect \in BOOLEAN
  /\ wanted \in [q : Texts, filters : [Keys -> SUBSET Options], scope : BOOLEAN]
  /\ byColumn \in BOOLEAN /\ crossed \in BOOLEAN /\ cancelled \in BOOLEAN
  /\ undone \subseteq Keys
  /\ inputs \in 0..MaxInputs

(* The list is opened at an address of its own, at any page, for one user  *)
(* or group or for all.                                                    *)
TableInit ==
  /\ byColumn \in BOOLEAN
  /\ \E scope \in BOOLEAN, page \in 1..MaxPages + 1 :
       latest = [First EXCEPT !.scope = scope, !.page = page]
  /\ rendered = latest
  /\ draft = NoText
  /\ timer = NotSet
  /\ pages = Loading
  /\ answered = FALSE /\ failed = FALSE
  /\ effect = FALSE
  /\ wanted = Wanted(latest)
  /\ crossed = FALSE /\ undone = {} /\ cancelled = FALSE
  /\ inputs = 0

-----------------------------------------------------------------------------
(* A search updater changes some keys of the latest search, whatever the   *)
(* page that calls it was rendered with.                                   *)
updateSearch(search) == latest' = search

Input == inputs < MaxInputs /\ inputs' = inputs + 1

(* The box, the filters and the rows are on the screen.                    *)
OnScreen == pages # Loading /\ ~failed

(* Somebody types: the box changes at once, the write waits.               *)
Type ==
  /\ OnScreen
  /\ Input
  /\ \E q \in Texts : draft' = q /\ timer' = q /\ wanted' = [wanted EXCEPT !.q = q]
  /\ cancelled' = FALSE
  /\ UNCHANGED <<byColumn, latest, rendered, pages, answered, failed, effect, crossed, undone>>

onQueryChangeAsRendered ==
  /\ timer # NotSet
  /\ updateSearch([rendered EXCEPT !.q = timer, !.page = 1])
  /\ timer' = NotSet
  /\ UNCHANGED <<byColumn, rendered, draft, pages, answered, failed, effect, wanted, lost,
                 inputs>>

onQueryChange ==
  /\ timer # NotSet
  /\ updateSearch([latest EXCEPT !.q = timer, !.page = 1])
  /\ timer' = NotSet
  /\ UNCHANGED <<byColumn, rendered, draft, pages, answered, failed, effect, wanted, lost,
                 inputs>>

(* What one choice writes and asks for: an option that takes the place of  *)
(* what was chosen, or none, or else an option more or less, counted from  *)
(* those that were rendered.                                               *)
FacetedFilter(key) ==
  LET Only(chosen) == [written |-> chosen, asked |-> chosen, counted |-> FALSE]
      More(option) == [written |-> rendered.filters[key] \cup {option},
                       asked |-> wanted.filters[key] \cup {option}, counted |-> TRUE]
      Less(option) == [written |-> rendered.filters[key] \ {option},
                       asked |-> wanted.filters[key] \ {option}, counted |-> TRUE]
  IN {Only({})} \cup
       (IF key \in Multiple
          THEN {Less(option) : option \in rendered.filters[key]}
                 \cup {More(option) : option \in Options \ rendered.filters[key]}
          ELSE {Only({option}) : option \in Options})

Unrendered(keys) == {key \in keys : latest.filters[key] # rendered.filters[key]}

(* The filters of the check-ins: each writes its own key.                  *)
updateFilters ==
  /\ OnScreen /\ ~byColumn
  /\ Input
  /\ \E key \in Keys : \E choice \in FacetedFilter(key) :
       /\ updateSearch([latest EXCEPT !.filters[key] = choice.written, !.page = 1])
       /\ wanted' = [wanted EXCEPT !.filters[key] = choice.asked]
       /\ undone' = IF choice.counted THEN undone \cup Unrendered({key}) ELSE undone \ {key}
  /\ UNCHANGED <<byColumn, rendered, draft, timer, pages, answered, failed, effect, crossed,
                 cancelled>>

(* The filters of the users' columns: one writes all keys, the others as   *)
(* they were rendered.                                                     *)
onColumnFiltersChange ==
  /\ OnScreen /\ byColumn
  /\ Input
  /\ \E key \in Keys : \E choice \in FacetedFilter(key) :
       /\ updateSearch([latest EXCEPT !.filters = [rendered.filters EXCEPT ![key] = choice.written],
                                      !.page = 1])
       /\ wanted' = [wanted EXCEPT !.filters[key] = choice.asked]
       /\ undone' = (undone \cup Unrendered(Keys)) \ (IF choice.counted THEN {} ELSE {key})
  /\ UNCHANGED <<byColumn, rendered, draft, timer, pages, answered, failed, effect, crossed,
                 cancelled>>

(* Another page, counted from the one rendered, or another length of them. *)
onPaginationChangeByIndex(page) == updateSearch([latest EXCEPT !.page = page - 1])

onPaginationChange(page) == updateSearch([latest EXCEPT !.page = page])

DataTablePagination ==
  /\ OnScreen
  /\ Input
  /\ \E page \in 1..pages : onPaginationChange(page)
  /\ UNCHANGED <<byColumn, rendered, draft, timer, pages, answered, failed, effect, wanted, lost>>

(* The chip over the list is removed.                                      *)
clearSearchKeys ==
  /\ rendered.scope
  /\ Input
  /\ updateSearch([latest EXCEPT !.scope = FALSE, !.page = 1])
  /\ wanted' = [wanted EXCEPT !.scope = FALSE]
  /\ UNCHANGED <<byColumn, rendered, draft, timer, pages, answered, failed, effect, lost>>

(* The sidebar leads to the list afresh: a write that waits comes still.   *)
OpenAfresh ==
  /\ Input
  /\ updateSearch(First)
  /\ wanted' = [Wanted(First) EXCEPT !.q = IF timer = NotSet THEN NoText ELSE timer]
  /\ crossed' = (crossed \/ latest.q # rendered.q)
  /\ undone' = {} /\ cancelled' = FALSE
  /\ UNCHANGED <<byColumn, rendered, draft, timer, pages, answered, failed, effect>>

-----------------------------------------------------------------------------
(* The page is rendered with the latest search: another query takes the    *)
(* place of the draft, and the rows of before stay until the answer.       *)
Render ==
  /\ rendered # latest
  /\ rendered' = latest
  /\ draft' = IF latest.q # rendered.q THEN latest.q ELSE draft
  /\ answered' = FALSE /\ failed' = FALSE
  /\ effect' = (pages # Loading)
  /\ UNCHANGED <<byColumn, latest, timer, pages, wanted, lost, inputs>>

AnswerUnclamped ==
  /\ ~answered
  /\ answered' = TRUE
  /\ pages' \in 0..MaxPages
  /\ UNCHANGED <<byColumn, latest, rendered, draft, timer, failed, effect, wanted, lost, inputs>>

Answer ==
  /\ ~answered
  /\ answered' = TRUE
  /\ pages' \in 0..MaxPages
  /\ effect' = TRUE
  /\ UNCHANGED <<byColumn, latest, rendered, draft, timer, failed, wanted, lost, inputs>>

(* The error takes the place of the box, and the write that waits is       *)
(* cancelled with it.                                                      *)
Fail ==
  /\ ~answered
  /\ answered' = TRUE /\ failed' = TRUE
  /\ timer' = NotSet
  /\ cancelled' = (cancelled \/ timer # NotSet)
  /\ draft' = rendered.q
  /\ crossed' = FALSE
  /\ effect' = TRUE
  /\ UNCHANGED <<byColumn, latest, rendered, pages, wanted, undone, inputs>>

(* Somebody asks for it again, or comes back to the tab: meanwhile the     *)
(* rows of before are back.                                                *)
Retry ==
  /\ failed
  /\ Input
  /\ answered' = FALSE /\ failed' = FALSE
  /\ effect' = (pages # Loading)
  /\ UNCHANGED <<byColumn, latest, rendered, draft, timer, pages, wanted, lost>>

(* Rows come and go, and the list is fetched again.                        *)
Change ==
  /\ answered /\ ~failed
  /\ Input
  /\ pages' \in 0..MaxPages
  /\ effect' = TRUE
  /\ UNCHANGED <<byColumn, latest, rendered, draft, timer, answered, failed, wanted, lost>>

(* A page beyond the last gives way to the last.  A list that failed has   *)
(* one page, but nobody knows how many the users' has then.                *)
LastPage ==
  IF failed /\ byColumn THEN Loading ELSE IF failed \/ pages = 0 THEN 1 ELSE pages

useDataTable ==
  /\ effect
  /\ effect' = FALSE
  /\ IF rendered.page > LastPage THEN onPaginationChange(LastPage) ELSE UNCHANGED latest
  /\ UNCHANGED <<byColumn, rendered, draft, timer, pages, answered, failed, wanted, lost, inputs>>

-----------------------------------------------------------------------------
TableNext ==
  \/ Type \/ updateFilters \/ onColumnFiltersChange \/ DataTablePagination
  \/ clearSearchKeys \/ OpenAfresh \/ Change
  \/ onQueryChange \/ Render \/ Answer \/ Fail \/ Retry \/ useDataTable

(* Timers fire, pages render, effects run and the server answers or the    *)
(* request fails.                                                          *)
TableFairness ==
  /\ WF_tableVars(onQueryChange) /\ WF_tableVars(Render)
  /\ WF_tableVars(Answer \/ Fail) /\ WF_tableVars(useDataTable)

TableSpec == TableInit /\ [][TableNext]_tableVars /\ TableFairness

-----------------------------------------------------------------------------
AtRest == timer = NotSet /\ rendered = latest /\ answered /\ ~effect

(* However the controls, the timer, the renders, the answers and failures  *)
(* interleave, a list at rest shows what was asked of it: no control's     *)
(* update undoes another's that was not rendered yet, and the box agrees   *)
(* with the rows.  Four exceptions: a column's filter undoes those of      *)
(* other columns chosen just before, an option the options of the same     *)
(* filter chosen just before; what is typed is lost if the list fails      *)
(* before it is written; and the box keeps its text when the list is       *)
(* opened afresh between a write and its render.                           *)
NothingLost ==
  AtRest =>
    /\ latest.q = wanted.q \/ cancelled
    /\ latest.scope = wanted.scope
    /\ \A key \in Keys \ undone : latest.filters[key] = wanted.filters[key]
    /\ draft = latest.q \/ crossed

(* Once nobody touches it, a list comes to rest, on a page it has.         *)
TableSettles == []<>(AtRest /\ rendered.page <= LastPage)
=============================================================================
