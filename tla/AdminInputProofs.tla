-------------------------- MODULE AdminInputProofs --------------------------
(***************************************************************************)
(* Proofs about what somebody types into the administration web interface. *)
(* TableSearch, for any texts, filters, pages and number of inputs: a list *)
(* at rest shows what was asked of it.  PageForm, for any contents and any *)
(* number of saves at a time: what was typed on a form is kept.            *)
(***************************************************************************)
EXTENDS TableSearch, PageForm, TLAPS

-----------------------------------------------------------------------------
(* Lists.                                                                  *)

(* The searches of the router and of the page are searches.                *)
SearchTyped ==
  /\ latest \in Searches /\ rendered \in Searches
  /\ wanted \in [q : Texts, filters : [Keys -> SUBSET Options], scope : BOOLEAN]
  /\ timer \in Texts \cup {NotSet}
  /\ pages \in 0..Loading

(* What is wanted is in the router's latest address, or the timer holds    *)
(* it.                                                                     *)
Asked ==
  /\ cancelled \/ wanted.q = IF timer = NotSet THEN latest.q ELSE timer
  /\ wanted.scope = latest.scope
  /\ \A key \in Keys \ undone : latest.filters[key] = wanted.filters[key]

(* The box shows what the timer will write or what was written, or else a  *)
(* render with another query is due, which fills the box anew.             *)
Boxed ==
  crossed \/ IF timer = NotSet THEN draft = latest.q \/ rendered.q # latest.q
                               ELSE draft = timer \/ rendered.q # timer

TableInv == SearchTyped /\ Asked /\ Boxed

(* A new list is one of the searches, and wants nothing.                   *)
LEMMA FirstIsASearch ==
  /\ First \in Searches
  /\ First.q = NoText /\ First.filters = Unfiltered /\ First.scope = FALSE
<1>1. Unfiltered \in [Keys -> SUBSET Options] BY DEF Unfiltered
<1>2. 1 \in 1..MaxPages + 1 BY MaxPagesAssumption
<1>3. NoText \in Texts BY TextsAssumption
<1> QED BY <1>1, <1>2, <1>3 DEF First, Searches

LEMMA TableStart == TableInit => TableInv
<1> SUFFICES ASSUME TableInit PROVE TableInv
  OBVIOUS
<1>1. PICK scope \in BOOLEAN, page \in 1..MaxPages + 1 :
        latest = [First EXCEPT !.scope = scope, !.page = page]
  BY DEF TableInit
<1>2. /\ latest \in Searches /\ latest.q = NoText
  BY <1>1, FirstIsASearch DEF Searches
<1>3. SearchTyped
  <2>1. Wanted(latest) \in [q : Texts, filters : [Keys -> SUBSET Options], scope : BOOLEAN]
    BY <1>2 DEF Wanted, Searches
  <2>2. Loading \in 0..Loading
    BY MaxPagesAssumption DEF Loading
  <2> QED BY <1>2, <2>1, <2>2 DEF TableInit, SearchTyped
<1>4. Asked
  BY DEF TableInit, Asked, Wanted
<1>5. Boxed
  BY <1>2 DEF TableInit, Boxed
<1> QED BY <1>3, <1>4, <1>5 DEF TableInv

-----------------------------------------------------------------------------
(* One lemma per kind of step.                                             *)

LEMMA TypeKeeps == ASSUME TableInv, Type PROVE TableInv'
<1>1. PICK q \in Texts : draft' = q /\ timer' = q /\ wanted' = [wanted EXCEPT !.q = q]
  BY DEF Type
<1>2. timer' # NotSet
  BY <1>1, TextsAssumption
<1>3. SearchTyped'
  BY <1>1 DEF TableInv, SearchTyped, Type
<1>4. wanted' = [q |-> timer', filters |-> wanted.filters, scope |-> wanted.scope]
  BY <1>1 DEF TableInv, SearchTyped
<1>5. Asked'
  BY <1>2, <1>4 DEF TableInv, Asked, Type
<1>6. Boxed'
  BY <1>1, <1>2 DEF Boxed
<1> QED BY <1>3, <1>5, <1>6 DEF TableInv

(* The timer's write.                                                      *)
LEMMA WriteKeeps == ASSUME TableInv, onQueryChange PROVE TableInv'
<1>1. timer \in Texts
  BY DEF TableInv, SearchTyped, onQueryChange
<1>2. latest' = [q |-> timer, filters |-> latest.filters, scope |-> latest.scope, page |-> 1]
  BY DEF TableInv, SearchTyped, Searches, onQueryChange, updateSearch
<1>3. latest' \in Searches
  BY <1>1, <1>2, MaxPagesAssumption DEF TableInv, SearchTyped, Searches
<1>4. SearchTyped'
  BY <1>3 DEF TableInv, SearchTyped, onQueryChange
<1>5. Asked'
  BY <1>2 DEF TableInv, Asked, onQueryChange, lost
<1>6. Boxed'
  BY <1>2 DEF TableInv, Boxed, onQueryChange, lost
<1> QED BY <1>4, <1>5, <1>6 DEF TableInv

(* An option more or less is what was asked for, unless what was asked for *)
(* before is not what was rendered.                                        *)
LEMMA ChoiceIsAsked ==
  ASSUME TableInv, NEW key \in Keys, NEW choice \in FacetedFilter(key)
  PROVE  /\ choice.written \in SUBSET Options /\ choice.asked \in SUBSET Options
         /\ choice.written = choice.asked
              \/ (choice.counted /\ wanted.filters[key] # rendered.filters[key])
<1>1. rendered.filters[key] \in SUBSET Options /\ wanted.filters[key] \in SUBSET Options
  BY DEF TableInv, SearchTyped, Searches
<1>2. CASE \E chosen \in SUBSET Options :
             choice = [written |-> chosen, asked |-> chosen, counted |-> FALSE]
  BY <1>2
<1>3. CASE \E option \in Options :
             choice = [written |-> rendered.filters[key] \cup {option},
                       asked |-> wanted.filters[key] \cup {option}, counted |-> TRUE]
  BY <1>1, <1>3
<1>4. CASE \E option \in Options :
             choice = [written |-> rendered.filters[key] \ {option},
                       asked |-> wanted.filters[key] \ {option}, counted |-> TRUE]
  BY <1>1, <1>4
<1> QED BY <1>1, <1>2, <1>3, <1>4 DEF FacetedFilter

(* A filter, of the check-ins or of the users' columns: what it writes are *)
(* the filters of the latest address, or those that were rendered, and its *)
(* own key.                                                                *)
LEMMA FilterWrites ==
  ASSUME TableInv, updateFilters \/ onColumnFiltersChange
  PROVE  \E key \in Keys : \E choice \in FacetedFilter(key),
            filters \in {latest.filters, rendered.filters} :
              /\ latest' = [latest EXCEPT !.filters = [filters EXCEPT ![key] = choice.written],
                                          !.page = 1]
              /\ wanted' = [wanted EXCEPT !.filters[key] = choice.asked]
              /\ \A other \in Keys \ {key} :
                   other \notin undone' => /\ other \notin undone
                                          /\ filters[other] = latest.filters[other]
              /\ choice.counted /\ key \notin undone' =>
                   key \notin undone /\ latest.filters[key] = rendered.filters[key]
<1>1. CASE updateFilters
  <2>1. PICK key, choice :
          /\ key \in Keys /\ choice \in FacetedFilter(key)
          /\ latest' = [latest EXCEPT !.filters[key] = choice.written, !.page = 1]
          /\ wanted' = [wanted EXCEPT !.filters[key] = choice.asked]
          /\ undone' = IF choice.counted THEN undone \cup Unrendered({key})
                       ELSE undone \ {key}
    BY <1>1 DEF updateFilters, updateSearch
  <2>2. latest' = [latest EXCEPT !.filters = [latest.filters EXCEPT ![key] = choice.written],
                                 !.page = 1]
    BY <2>1 DEF TableInv, SearchTyped, Searches
  <2>3. \A other \in Keys \ {key} : other \notin undone' => other \notin undone
    BY <2>1
  <2>4. choice.counted /\ key \notin undone' =>
          key \notin undone /\ latest.filters[key] = rendered.filters[key]
    BY <2>1 DEF Unrendered
  <2> QED BY <2>1, <2>2, <2>3, <2>4
<1>2. CASE onColumnFiltersChange
  <2>1. PICK key, choice :
          /\ key \in Keys /\ choice \in FacetedFilter(key)
          /\ latest' = [latest EXCEPT
                          !.filters = [rendered.filters EXCEPT ![key] = choice.written],
                          !.page = 1]
          /\ wanted' = [wanted EXCEPT !.filters[key] = choice.asked]
          /\ undone' = (undone \cup Unrendered(Keys)) \ (IF choice.counted THEN {} ELSE {key})
    BY <1>2 DEF onColumnFiltersChange, updateSearch
  <2>2. \A other \in Keys \ {key} :
          other \notin undone' => /\ other \notin undone
                                 /\ rendered.filters[other] = latest.filters[other]
    BY <2>1 DEF Unrendered
  <2>3. choice.counted /\ key \notin undone' =>
          key \notin undone /\ latest.filters[key] = rendered.filters[key]
    BY <2>1 DEF Unrendered
  <2> QED BY <2>1, <2>2, <2>3
<1> QED BY <1>1, <1>2

LEMMA FilterKeeps == ASSUME TableInv, updateFilters \/ onColumnFiltersChange PROVE TableInv'
<1>1. PICK key, choice, filters :
        /\ key \in Keys /\ choice \in FacetedFilter(key)
        /\ filters \in {latest.filters, rendered.filters}
        /\ latest' = [latest EXCEPT !.filters = [filters EXCEPT ![key] = choice.written],
                                    !.page = 1]
        /\ wanted' = [wanted EXCEPT !.filters[key] = choice.asked]
        /\ \A other \in Keys \ {key} :
             other \notin undone' => /\ other \notin undone
                                    /\ filters[other] = latest.filters[other]
        /\ choice.counted /\ key \notin undone' =>
             key \notin undone /\ latest.filters[key] = rendered.filters[key]
  BY FilterWrites
<1>2. /\ choice.written \in SUBSET Options /\ choice.asked \in SUBSET Options
      /\ choice.written = choice.asked
           \/ (choice.counted /\ wanted.filters[key] # rendered.filters[key])
  BY <1>1, ChoiceIsAsked
<1> DEFINE new == [filters EXCEPT ![key] = choice.written]
           asked == [wanted.filters EXCEPT ![key] = choice.asked]
<1>3. new \in [Keys -> SUBSET Options] /\ asked \in [Keys -> SUBSET Options]
  BY <1>1, <1>2 DEF TableInv, SearchTyped, Searches
<1>4. latest' = [q |-> latest.q, filters |-> new, scope |-> latest.scope, page |-> 1]
  BY <1>1 DEF TableInv, SearchTyped, Searches
<1>5. wanted' = [q |-> wanted.q, filters |-> asked, scope |-> wanted.scope]
  BY <1>1 DEF TableInv, SearchTyped
<1>6. UNCHANGED <<rendered, draft, timer, pages, crossed, cancelled>>
  BY DEF updateFilters, onColumnFiltersChange
<1>7. \A other \in Keys \ undone' : new[other] = asked[other]
  <2> TAKE other \in Keys \ undone'
  <2>1. filters \in [Keys -> SUBSET Options] /\ wanted.filters \in [Keys -> SUBSET Options]
    BY <1>1 DEF TableInv, SearchTyped, Searches
  <2>2. CASE other = key
    <3>1. ~(choice.counted /\ wanted.filters[key] # rendered.filters[key])
      BY <1>1, <2>2 DEF TableInv, Asked
    <3> QED BY <1>2, <2>1, <2>2, <3>1
  <2>3. CASE other # key
    <3>1. filters[other] = wanted.filters[other]
      BY <1>1, <2>3 DEF TableInv, Asked
    <3> QED BY <2>1, <2>3, <3>1
  <2> QED BY <2>2, <2>3
<1> HIDE DEF new, asked
<1>8. SearchTyped'
  <2>1. latest' \in Searches
    BY <1>3, <1>4, MaxPagesAssumption DEF TableInv, SearchTyped, Searches
  <2>2. wanted' \in [q : Texts, filters : [Keys -> SUBSET Options], scope : BOOLEAN]
    BY <1>3, <1>5 DEF TableInv, SearchTyped
  <2> QED BY <2>1, <2>2, <1>6 DEF TableInv, SearchTyped
<1>9. Asked'
  BY <1>4, <1>5, <1>6, <1>7 DEF TableInv, Asked
<1>10. Boxed'
  BY <1>4, <1>6 DEF TableInv, Boxed
<1> QED BY <1>8, <1>9, <1>10 DEF TableInv

(* Another page, chosen or because the one shown is no more.               *)
LEMMA PageKeeps ==
  ASSUME TableInv, NEW page \in 1..MaxPages + 1, latest' = [latest EXCEPT !.page = page],
         UNCHANGED <<rendered, draft, timer, pages, wanted, lost>>
  PROVE  TableInv'
<1>1. latest' = [q |-> latest.q, filters |-> latest.filters, scope |-> latest.scope,
                 page |-> page]
  BY DEF TableInv, SearchTyped, Searches
<1>2. latest' \in Searches
  BY <1>1 DEF TableInv, SearchTyped, Searches
<1> QED BY <1>1, <1>2 DEF TableInv, SearchTyped, Asked, Boxed, lost

LEMMA ClearKeeps == ASSUME TableInv, clearSearchKeys PROVE TableInv'
<1>1. latest' = [q |-> latest.q, filters |-> latest.filters, scope |-> FALSE, page |-> 1]
  BY DEF TableInv, SearchTyped, Searches, clearSearchKeys, updateSearch
<1>2. wanted' = [q |-> wanted.q, filters |-> wanted.filters, scope |-> FALSE]
  BY DEF TableInv, SearchTyped, clearSearchKeys
<1>3. UNCHANGED <<rendered, draft, timer, pages, crossed, undone, cancelled>>
  BY DEF clearSearchKeys, lost
<1>4. SearchTyped'
  BY <1>1, <1>2, <1>3, MaxPagesAssumption DEF TableInv, SearchTyped, Searches
<1>5. Asked' /\ Boxed'
  BY <1>1, <1>2, <1>3 DEF TableInv, Asked, Boxed
<1> QED BY <1>4, <1>5 DEF TableInv

(* The case where the box may keep a text nobody asked for any more.       *)
LEMMA AfreshKeeps == ASSUME TableInv, OpenAfresh PROVE TableInv'
<1> DEFINE text == IF timer = NotSet THEN NoText ELSE timer
<1>1. text \in Texts
  BY TextsAssumption DEF TableInv, SearchTyped
<1>2. /\ latest' = First
      /\ UNCHANGED <<rendered, draft, timer, pages>>
      /\ crossed' = (crossed \/ latest.q # rendered.q)
  BY DEF OpenAfresh, updateSearch
<1>3. wanted' = [q |-> text, filters |-> Unfiltered, scope |-> FALSE]
  BY FirstIsASearch DEF OpenAfresh, Wanted
<1>4. SearchTyped'
  BY <1>1, <1>2, <1>3, FirstIsASearch DEF TableInv, SearchTyped, Searches
<1>5. Asked'
  BY <1>2, <1>3, FirstIsASearch DEF Asked
<1>6. Boxed'
  BY <1>2, FirstIsASearch DEF TableInv, Boxed
<1> QED BY <1>4, <1>5, <1>6 DEF TableInv

LEMMA RenderedKeeps == ASSUME TableInv, Render PROVE TableInv'
<1>1. /\ rendered' = latest
      /\ UNCHANGED <<latest, timer, pages, wanted, crossed, undone, cancelled>>
      /\ draft' = IF latest.q # rendered.q THEN latest.q ELSE draft
  BY DEF Render, lost
<1> QED BY <1>1 DEF TableInv, SearchTyped, Asked, Boxed

(* The rows change, and nothing that was asked.                            *)
LEMMA RowsKeep ==
  ASSUME TableInv, pages' \in 0..Loading,
         UNCHANGED <<latest, rendered, draft, timer, wanted, lost>>
  PROVE  TableInv'
BY DEF TableInv, SearchTyped, Asked, Boxed, lost

(* The box goes away, with what it was about to write.                     *)
LEMMA FailureKeeps == ASSUME TableInv, Fail PROVE TableInv'
<1>1. /\ UNCHANGED <<latest, rendered, pages, wanted, undone>>
      /\ timer' = NotSet /\ draft' = rendered.q
      /\ cancelled' = (cancelled \/ timer # NotSet)
  BY DEF Fail
<1> QED BY <1>1 DEF TableInv, SearchTyped, Asked, Boxed

LEMMA TableSteps == ASSUME TableInv, [TableNext]_tableVars PROVE TableInv'
<1>1. CASE Type BY <1>1, TypeKeeps
<1>2. CASE onQueryChange BY <1>2, WriteKeeps
<1>3. CASE updateFilters \/ onColumnFiltersChange BY <1>3, FilterKeeps
<1>4. CASE DataTablePagination
  <2>1. PICK page \in 1..pages : latest' = [latest EXCEPT !.page = page]
    BY <1>4 DEF DataTablePagination, onPaginationChange, updateSearch
  <2>2. page \in 1..MaxPages + 1
    BY MaxPagesAssumption DEF TableInv, SearchTyped, Loading
  <2> QED BY <1>4, <2>1, <2>2, PageKeeps DEF DataTablePagination
<1>5. CASE clearSearchKeys BY <1>5, ClearKeeps
<1>6. CASE OpenAfresh BY <1>6, AfreshKeeps
<1>7. CASE Change \/ Answer \/ Retry
  BY <1>7, RowsKeep, MaxPagesAssumption
  DEF Change, Answer, Retry, Loading, TableInv, SearchTyped
<1>8. CASE Render BY <1>8, RenderedKeeps
<1>9. CASE useDataTable
  <2>1. LastPage \in 1..MaxPages + 1
    BY MaxPagesAssumption DEF TableInv, SearchTyped, Loading, LastPage
  <2>2. CASE rendered.page > LastPage
    BY <1>9, <2>1, <2>2, PageKeeps
    DEF useDataTable, onPaginationChange, updateSearch
  <2>3. CASE ~(rendered.page > LastPage)
    BY <1>9, <2>3, RowsKeep DEF useDataTable, TableInv, SearchTyped
  <2> QED BY <2>2, <2>3
<1>10. CASE UNCHANGED tableVars
  BY <1>10 DEF tableVars, TableInv, SearchTyped, Asked, Boxed
<1>11. CASE Fail BY <1>11, FailureKeeps
<1> QED
  BY <1>1, <1>2, <1>3, <1>4, <1>5, <1>6, <1>7, <1>8, <1>9, <1>10, <1>11 DEF TableNext

(* The rest of the types.                                                  *)
ControlsTyped ==
  /\ draft \in Texts
  /\ answered \in BOOLEAN /\ failed \in BOOLEAN /\ effect \in BOOLEAN
  /\ byColumn \in BOOLEAN /\ crossed \in BOOLEAN /\ cancelled \in BOOLEAN
  /\ undone \subseteq Keys
  /\ inputs \in 0..MaxInputs

LEMMA ControlsStart == TableInit => ControlsTyped
<1> SUFFICES ASSUME TableInit PROVE ControlsTyped
  OBVIOUS
<1>1. 0 \in 0..MaxInputs
  BY MaxInputsAssumption
<1>2. draft \in Texts
  BY TextsAssumption DEF TableInit
<1> QED BY <1>1, <1>2 DEF TableInit, ControlsTyped

LEMMA ControlsSteps ==
  ASSUME TableInv, ControlsTyped, [TableNext]_tableVars
  PROVE  ControlsTyped'
<1>1. Input => inputs' \in 0..MaxInputs
  BY MaxInputsAssumption DEF Input, ControlsTyped
<1>2. CASE Type \/ Change \/ Retry
  BY <1>1, <1>2 DEF Type, Change, Retry, ControlsTyped, lost
<1>3. CASE updateFilters \/ onColumnFiltersChange
  <2>1. undone' \subseteq Keys
    BY <1>3 DEF updateFilters, onColumnFiltersChange, Unrendered, ControlsTyped
  <2>2. /\ UNCHANGED <<byColumn, draft, answered, failed, effect, crossed, cancelled>>
        /\ Input
    BY <1>3 DEF updateFilters, onColumnFiltersChange
  <2> QED BY <1>1, <2>1, <2>2 DEF ControlsTyped
<1>4. CASE DataTablePagination \/ clearSearchKeys \/ OpenAfresh
  BY <1>1, <1>4 DEF DataTablePagination, clearSearchKeys, OpenAfresh, ControlsTyped, lost
<1>5. CASE Render
  <2>1. latest.q \in Texts
    BY DEF TableInv, SearchTyped, Searches
  <2> QED BY <1>5, <2>1 DEF Render, ControlsTyped, lost
<1>6. CASE onQueryChange \/ Answer \/ useDataTable
  BY <1>6 DEF onQueryChange, Answer, useDataTable, ControlsTyped, lost
<1>7. CASE UNCHANGED tableVars
  BY <1>7 DEF tableVars, ControlsTyped
<1>8. CASE Fail
  <2>1. rendered.q \in Texts
    BY DEF TableInv, SearchTyped, Searches
  <2> QED BY <1>8, <2>1 DEF Fail, ControlsTyped
<1> QED BY <1>2, <1>3, <1>4, <1>5, <1>6, <1>7, <1>8 DEF TableNext

(* What is typed, chosen and shown on a list is always of its kind: no     *)
(* interleaving leaves an address without a query, filters or a page.      *)
THEOREM TableTyped == TableSpec => []TableTypeOK
<1>1. TableInv /\ ControlsTyped => TableTypeOK
  BY DEF TableInv, SearchTyped, ControlsTyped, TableTypeOK
<1> QED
  BY TableStart, TableSteps, ControlsStart, ControlsSteps, <1>1, PTL DEF TableSpec

(* However the controls, the timer, the renders, the answers and failures  *)
(* of a list interleave, at rest it shows the text, filters and scope      *)
(* asked last, but for text that a failure cancelled and filters chosen    *)
(* before the render of others of the same table or filter.                *)
THEOREM NothingLostHolds == TableSpec => []NothingLost
<1>1. TableInv => NothingLost
  BY DEF TableInv, Asked, Boxed, NothingLost, AtRest
<1> QED BY TableStart, TableSteps, <1>1, PTL DEF TableSpec

-----------------------------------------------------------------------------
(* Forms.                                                                  *)

Save == [stage : {"none", "uploading", "sent", "committed", "answered"},
         content : Contents, own : BOOLEAN]

(* What is unsaved is what the form holds, and the guard knows of it,      *)
(* until a navigation for which it counts as typed too late.               *)
EditsStay ==
  unsaved # NoEdit =>
    /\ Mounted /\ values = unsaved /\ unsaved # defaults
    /\ isTouched /\ ~isDefaultValue
    /\ phase = "leaving" => hasty

OneOwn == \A i, j \in 1..MaxSaves : Own(i) /\ Own(j) => i = j

(* The form's own save is of what is unsaved, unless some was typed since. *)
OfForm ==
  \A i \in 1..MaxSaves :
    Own(i) => Mounted /\ (unsaved # NoEdit /\ ~hasty => pending[i].content = unsaved)

FormInv == FormTypeOK /\ EditsStay /\ OneOwn /\ OfForm

(* No save is of the form that was not, or of something else.              *)
FewerSaves ==
  /\ pending' \in [1..MaxSaves -> Save]
  /\ \A i \in 1..MaxSaves : Own(i)' => Own(i) /\ pending'[i].content = pending[i].content

-----------------------------------------------------------------------------
(* What the operators on saves keep.                                       *)

LEMMA NoSaveIsTyped == NoSave \in Save /\ NoSave.stage = "none"
BY ContentsAssumption DEF NoSave, Save

LEMMA OrphanedKeeps ==
  ASSUME FormInv, pending' = Orphaned
  PROVE  FewerSaves /\ \A i \in 1..MaxSaves : ~Own(i)'
BY DEF FormInv, FormTypeOK, FewerSaves, Save, Orphaned, Own

LEMMA AdvanceKeeps ==
  ASSUME FormInv, NEW i \in 1..MaxSaves, NEW from,
         NEW to \in {"none", "sent", "committed", "answered"},
         from # "none", Advance(i, from, to)
  PROVE  /\ FewerSaves
         /\ to = "none" => ~Own(i)'
         /\ pending[i].stage # "none"
<1>1. pending[i] \in Save /\ pending \in [1..MaxSaves -> Save]
  BY DEF FormInv, FormTypeOK, Save
<1>2. CASE to = "none"
  <2>1. pending' = [pending EXCEPT ![i] = NoSave] /\ pending[i].stage = from
    BY <1>2 DEF Advance
  <2> QED BY <1>1, <2>1, NoSaveIsTyped DEF FewerSaves, Own
<1>3. CASE to # "none"
  <2>1. /\ pending' = [pending EXCEPT ![i] = [pending[i] EXCEPT !.stage = to]]
        /\ pending[i].stage = from
    BY <1>3 DEF Advance
  <2>2. /\ [pending[i] EXCEPT !.stage = to] \in Save
        /\ [pending[i] EXCEPT !.stage = to].own = pending[i].own
        /\ [pending[i] EXCEPT !.stage = to].content = pending[i].content
    BY <1>1 DEF Save
  <2> QED BY <1>1, <1>3, <2>1, <2>2 DEF FewerSaves, Own
<1> QED BY <1>2, <1>3

(* Nothing of the form changes but its saves, which become no more.        *)
LEMMA FewerSavesKeep ==
  ASSUME FormInv, FewerSaves, UNCHANGED <<theForm, phase, state, unsaved, hasty>>,
         stored' \in Contents, basis' \in Contents,
         newer' \in BOOLEAN, renewed' \in BOOLEAN, expired' \in BOOLEAN,
         dialog' \in {"none", "blocked", "discard"}
  PROVE  FormInv'
<1> USE DEF state
<1>1. FormTypeOK' BY DEF FormInv, FormTypeOK, FewerSaves, Save
<1>2. EditsStay' BY DEF FormInv, EditsStay, Mounted
<1>3. OneOwn' BY DEF FormInv, OneOwn, FewerSaves
<1>4. OfForm' BY DEF FormInv, OfForm, FewerSaves, Mounted
<1> QED BY <1>1, <1>2, <1>3, <1>4 DEF FormInv

(* The form is filled anew and nothing of it is unsaved.                   *)
LEMMA FillKeeps ==
  ASSUME FormInv, FewerSaves, NEW content \in Contents, Fill(content), Unedited,
         UNCHANGED <<theForm, stored, newer, basis>>,
         renewed' \in BOOLEAN, expired' \in BOOLEAN,
         phase' \in {"shown", "leaving", "elsewhere"},
         dialog' \in {"none", "blocked", "discard"},
         \A i \in 1..MaxSaves : Own(i)' => Mounted'
  PROVE  FormInv'
<1>1. FormTypeOK' BY DEF FormInv, FormTypeOK, FewerSaves, Save, Fill, Unedited
<1>2. EditsStay' BY DEF EditsStay, Unedited
<1>3. OneOwn' BY DEF FormInv, OneOwn, FewerSaves
<1>4. OfForm' BY DEF OfForm, Unedited
<1> QED BY <1>1, <1>2, <1>3, <1>4 DEF FormInv

-----------------------------------------------------------------------------
(* The form: typing, and being rendered with another record.               *)

LEMMA SameSaves == ASSUME FormInv, UNCHANGED pending PROVE FewerSaves
BY DEF FormInv, FormTypeOK, FewerSaves, Save, Own

LEMMA ChangeKeeps == ASSUME FormInv, handleChange PROVE FormInv'
<1> USE DEF record, known
<1>1. FormTypeOK' BY DEF FormInv, FormTypeOK, handleChange
<1>2. EditsStay' BY DEF FormInv, EditsStay, handleChange, Mounted
<1>3. OneOwn' BY DEF FormInv, OneOwn, handleChange, Own
<1>4. OfForm'
  <2> SUFFICES ASSUME NEW i \in 1..MaxSaves, Own(i)'
               PROVE  Mounted' /\ ~(unsaved' # NoEdit /\ ~hasty')
    BY DEF OfForm
  <2>1. Own(i) BY DEF Own, handleChange
  <2>2. isSubmitting BY <2>1 DEF isSubmitting
  <2> QED BY <2>2 DEF handleChange, Mounted
<1> QED BY <1>1, <1>2, <1>3, <1>4 DEF FormInv

LEMMA BlurKeeps == ASSUME FormInv, handleBlur PROVE FormInv'
<1> USE DEF record, known, edit
<1>1. FormTypeOK' BY DEF FormInv, FormTypeOK, handleBlur
<1>2. EditsStay' BY DEF FormInv, EditsStay, handleBlur, Mounted
<1>3. OneOwn' BY DEF FormInv, OneOwn, handleBlur, Own
<1>4. OfForm' BY DEF FormInv, OfForm, handleBlur, Own, Mounted
<1> QED BY <1>1, <1>2, <1>3, <1>4 DEF FormInv

LEMMA UpdateKeeps ==
  ASSUME FormInv, Update, renewed' = FALSE,
         UNCHANGED <<theForm, record, basis, phase, expired>>
  PROVE  FormInv'
<1> USE DEF record
<1>1. FormTypeOK' BY DEF FormInv, FormTypeOK, Update
<1>2. EditsStay'
  <2> SUFFICES ASSUME unsaved' # NoEdit
               PROVE  /\ Mounted' /\ values' = unsaved' /\ unsaved' # defaults'
                      /\ isTouched' /\ ~isDefaultValue'
                      /\ phase' = "leaving" => hasty'
    BY DEF EditsStay
  <2>1. unsaved' = unsaved /\ unsaved # basis /\ unsaved # NoEdit /\ hasty' = hasty
    BY DEF Update, FormInv, FormTypeOK
  <2>2. Mounted /\ values = unsaved /\ isTouched /\ ~isDefaultValue
        /\ (phase = "leaving" => hasty)
    BY <2>1 DEF FormInv, EditsStay
  <2>3. values' = unsaved BY <2>2 DEF Update
  <2>4. ~isDefaultValue' BY <2>1, <2>2, <2>3 DEF Update
  <2>5. Mounted' BY <2>2 DEF Mounted
  <2>6. defaults' = basis /\ isTouched' BY <2>2 DEF Update
  <2> QED BY <2>1, <2>2, <2>3, <2>4, <2>5, <2>6
<1>3. OneOwn' BY DEF FormInv, OneOwn, Update, Own
<1>4. OfForm' BY DEF FormInv, OfForm, FormTypeOK, Update, Own, Mounted
<1> QED BY <1>1, <1>2, <1>3, <1>4 DEF FormInv

LEMMA RenderFormKeeps == ASSUME FormInv, RenderForm PROVE FormInv'
<1>1. CASE Remount
  BY <1>1, OrphanedKeeps, FillKeeps DEF RenderForm, Remount, record, FormInv, FormTypeOK
<1>2. CASE Update
  BY <1>2, UpdateKeeps DEF RenderForm
<1> QED BY <1>1, <1>2 DEF RenderForm

LEMMA OthersKeep == ASSUME FormInv, ChangedMeanwhile \/ RefetchRecord PROVE FormInv'
BY SameSaves, FewerSavesKeep
   DEF ChangedMeanwhile, RefetchRecord, known, edit, state, FormInv, FormTypeOK

-----------------------------------------------------------------------------
(* Saving.                                                                 *)

LEMMA SubmitKeeps == ASSUME FormInv, FormActions PROVE FormInv'
<1> USE DEF record, known, edit
<1>1. PICK i \in 1..MaxSaves :
        /\ pending[i].stage = "none"
        /\ pending' = [pending EXCEPT ![i] =
                         [stage |-> IF theForm.uploads THEN "uploading" ELSE "sent",
                          content |-> values, own |-> TRUE]]
  BY DEF FormActions
<1>2. pending \in [1..MaxSaves -> Save] BY DEF FormInv, FormTypeOK, Save
<1>3. pending' \in [1..MaxSaves -> Save] BY <1>1, <1>2 DEF FormInv, FormTypeOK, Save
<1>4. \A j \in 1..MaxSaves : Own(j)' => j = i
  BY <1>1, <1>2 DEF FormActions, isSubmitting, Own
<1>5. pending'[i].content = values BY <1>1, <1>2
<1>6. FormTypeOK' BY <1>3 DEF FormInv, FormTypeOK, Save, FormActions
<1>7. EditsStay' BY DEF FormInv, EditsStay, FormActions, Mounted
<1>8. OneOwn' BY <1>4 DEF OneOwn
<1>9. OfForm' BY <1>4, <1>5 DEF OfForm, FormInv, EditsStay, FormActions, Mounted
<1> QED BY <1>6, <1>7, <1>8, <1>9 DEF FormInv

LEMMA UploadKeeps == ASSUME FormInv, NEW i \in 1..MaxSaves, useUpload(i) PROVE FormInv'
<1>1. FewerSaves BY AdvanceKeeps DEF useUpload
<1> QED BY <1>1, FewerSavesKeep DEF useUpload, record, known, edit, FormInv, FormTypeOK

LEMMA CommitKeeps == ASSUME FormInv, NEW i \in 1..MaxSaves, SaveCommits(i) PROVE FormInv'
<1>1. FewerSaves BY AdvanceKeeps DEF SaveCommits
<1> QED BY <1>1, FewerSavesKeep DEF SaveCommits, record, known, edit, FormInv, FormTypeOK

LEMMA SetDataKeeps == ASSUME FormInv, NEW i \in 1..MaxSaves, SetData(i) PROVE FormInv'
<1>1. FewerSaves BY AdvanceKeeps DEF SetData
<1> QED BY <1>1, FewerSavesKeep DEF SetData, known, edit, FormInv, FormTypeOK

(* A failure of the form's own save ends what was typed during it, and no  *)
(* other save is its own.                                                  *)
LEMMA FailsKeeps == ASSUME FormInv, NEW i \in 1..MaxSaves, SaveFails(i) PROVE FormInv'
<1> USE DEF record, known, state
<1>1. PICK stage \in {"uploading", "sent", "committed"} : Advance(i, stage, "none")
  BY DEF SaveFails
<1>2. FewerSaves /\ ~Own(i)' /\ pending[i].stage # "none" BY <1>1, AdvanceKeeps
<1>3. FormTypeOK' BY <1>2 DEF SaveFails, FormInv, FormTypeOK, FewerSaves, Save
<1>4. EditsStay' BY DEF FormInv, EditsStay, SaveFails, Mounted
<1>5. OneOwn' BY <1>2 DEF FormInv, OneOwn, FewerSaves
<1>6. OfForm'
  <2> SUFFICES ASSUME NEW j \in 1..MaxSaves, Own(j)'
               PROVE  /\ Mounted'
                      /\ unsaved' # NoEdit /\ ~hasty' => pending'[j].content = unsaved'
    BY DEF OfForm
  <2>1. Own(j) /\ j # i /\ pending'[j].content = pending[j].content BY <1>2 DEF FewerSaves
  <2>2. ~Own(i) BY <2>1 DEF FormInv, OneOwn
  <2>3. ~hasty' => ~hasty BY <2>2 DEF SaveFails
  <2> QED BY <2>1, <2>3 DEF FormInv, OfForm, SaveFails, Mounted
<1> QED BY <1>3, <1>4, <1>5, <1>6 DEF FormInv

LEMMA SucceedsKeeps == ASSUME FormInv, NEW i \in 1..MaxSaves, onSubmit(i) PROVE FormInv'
<1>1. FewerSaves /\ ~Own(i)' /\ pending[i].stage # "none" BY AdvanceKeeps DEF onSubmit
<1>2. pending[i].content \in Contents BY DEF FormInv, FormTypeOK
<1>3. CASE pending[i].own
  <2>1. Own(i) BY <1>1, <1>3 DEF Own
  <2>2. Mounted BY <2>1 DEF FormInv, OfForm
  <2>3. Mounted' BY <1>3, <2>2 DEF onSubmit, Mounted
  <2> QED BY <1>1, <1>2, <1>3, <2>3, FillKeeps
          DEF onSubmit, record, known, FormInv, FormTypeOK
<1>4. CASE ~pending[i].own
  <2>1. UNCHANGED <<theForm, record, known, expired, state, edit>>
    BY <1>4 DEF onSubmit
  <2>2. CASE phase' = phase
    <3>1. dialog' \in {"none", "blocked", "discard"}
      BY <1>4 DEF onSubmit, shouldBlockNavigation, FormInv, FormTypeOK
    <3> QED
      BY <1>1, <2>1, <2>2, <3>1, FewerSavesKeep DEF record, known, edit, FormInv, FormTypeOK
  <2>3. CASE phase' # phase
    <3>1. phase' = "leaving" /\ phase = "shown" /\ dialog' = dialog /\ ~hasUnsavedChanges
      BY <1>4, <2>3 DEF onSubmit, shouldBlockNavigation
    <3>2. unsaved = NoEdit BY <3>1 DEF hasUnsavedChanges, FormInv, EditsStay
    <3> USE DEF record, known, edit, state
    <3>3. FormTypeOK' BY <1>1, <2>1, <3>1 DEF FormInv, FormTypeOK, FewerSaves, Save
    <3>4. EditsStay' BY <2>1, <3>2 DEF EditsStay
    <3>5. OneOwn' BY <1>1 DEF FormInv, OneOwn, FewerSaves
    <3>6. OfForm' BY <2>1, <3>1, <3>2 DEF OfForm, Mounted
    <3> QED BY <3>3, <3>4, <3>5, <3>6 DEF FormInv
  <2> QED BY <2>2, <2>3
<1> QED BY <1>3, <1>4

-----------------------------------------------------------------------------
(* Leaving.                                                                *)

(* The form goes on, or is about to be left with nothing unsaved.          *)
LEMMA LeavingKeeps ==
  ASSUME FormInv, UNCHANGED <<theForm, record, known, pending, state, edit, expired>>,
         dialog' \in {"none", "blocked", "discard"},
         phase' = phase \/ (phase' = "leaving" /\ unsaved = NoEdit)
  PROVE  FormInv'
<1> USE DEF record, known, edit, state
<1>1. FormTypeOK' BY DEF FormInv, FormTypeOK
<1>2. EditsStay' BY DEF FormInv, EditsStay, Mounted
<1>3. OneOwn' BY DEF FormInv, OneOwn, Own
<1>4. OfForm' BY DEF FormInv, OfForm, Own, Mounted
<1> QED BY <1>1, <1>2, <1>3, <1>4 DEF FormInv

LEMMA FollowLinkKeeps == ASSUME FormInv, FollowLink PROVE FormInv'
<1>1. ~hasUnsavedChanges => unsaved = NoEdit BY DEF hasUnsavedChanges, FormInv, EditsStay
<1> QED BY <1>1, LeavingKeeps DEF FollowLink, shouldBlockNavigation, FormInv, FormTypeOK

LEMMA DiscardKeeps == ASSUME FormInv, requestDiscard PROVE FormInv'
<1>1. CASE hasUnsavedChanges
  BY <1>1, LeavingKeeps DEF requestDiscard
<1>2. CASE ~hasUnsavedChanges
  <2>1. unsaved = NoEdit BY <1>2 DEF hasUnsavedChanges, FormInv, EditsStay
  <2>2. runWithoutPrompt /\ dialog' = dialog /\ FewerSaves /\ phase # "elsewhere"
    BY <1>2, SameSaves DEF requestDiscard
  <2>3. CASE UNCHANGED state
    BY <2>1, <2>2, <2>3, LeavingKeeps
       DEF requestDiscard, runWithoutPrompt, FormInv, FormTypeOK
  <2>4. CASE Fill(defaults) /\ phase' = phase
    <3>1. /\ unsaved' = unsaved /\ hasty' \in BOOLEAN
          /\ UNCHANGED <<theForm, record, known, expired, pending>>
      BY DEF requestDiscard, edit, FormInv, FormTypeOK
    <3> USE DEF record, known
    <3>2. FormTypeOK' BY <2>1, <2>2, <2>4, <3>1 DEF FormInv, FormTypeOK, Fill
    <3>3. EditsStay' BY <2>1, <3>1 DEF EditsStay
    <3>4. OneOwn' BY <2>2 DEF FormInv, OneOwn, FewerSaves
    <3>5. OfForm' BY <2>1, <2>2, <2>4, <3>1 DEF FormInv, OfForm, FewerSaves, Mounted
    <3> QED BY <3>2, <3>3, <3>4, <3>5 DEF FormInv
  <2> QED BY <2>2, <2>3, <2>4 DEF runWithoutPrompt
<1> QED BY <1>1, <1>2

LEMMA ConfirmKeeps == ASSUME FormInv, ConfirmDialog PROVE FormInv'
<1>1. CASE UNCHANGED <<phase, state, edit>>
  BY <1>1, LeavingKeeps DEF ConfirmDialog
<1>2. CASE runWithoutPrompt /\ Unedited
  <2> USE DEF record, known
  <2>1. FewerSaves /\ UNCHANGED <<theForm, record, known, pending, expired>>
    BY SameSaves DEF ConfirmDialog
  <2>2. FormTypeOK'
    BY <1>2, <2>1
    DEF ConfirmDialog, runWithoutPrompt, Unedited, Fill, state, FormInv, FormTypeOK
  <2>3. EditsStay' BY <1>2 DEF EditsStay, Unedited
  <2>4. OneOwn' BY <2>1 DEF FormInv, OneOwn, FewerSaves
  <2>5. OfForm'
    BY <1>2, <2>1 DEF FormInv, OfForm, FewerSaves, Unedited, runWithoutPrompt, Mounted
  <2> QED BY <2>2, <2>3, <2>4, <2>5 DEF FormInv
<1> QED BY <1>1, <1>2 DEF ConfirmDialog

LEMMA UnmountKeeps ==
  ASSUME FormInv, UnmountForm, UNCHANGED <<theForm, record, known>>, expired' \in BOOLEAN
  PROVE  FormInv'
<1>1. FewerSaves /\ \A i \in 1..MaxSaves : ~Own(i)' BY OrphanedKeeps DEF UnmountForm
<1> QED BY <1>1, FillKeeps, ContentsAssumption
        DEF UnmountForm, record, known, FormInv, FormTypeOK

LEMMA OpenFormKeeps == ASSUME FormInv, OpenForm PROVE FormInv'
<1>1. unsaved = NoEdit /\ \A i \in 1..MaxSaves : ~Own(i)
  BY DEF FormInv, EditsStay, OfForm, OpenForm, Mounted
<1> USE DEF record, edit
<1>2. FormTypeOK' BY DEF FormInv, FormTypeOK, OpenForm, Fill
<1>3. EditsStay' BY <1>1 DEF EditsStay, OpenForm
<1>4. \A i \in 1..MaxSaves : ~Own(i)' BY <1>1 DEF OpenForm, Own
<1> QED BY <1>2, <1>3, <1>4 DEF FormInv, OneOwn, OfForm

-----------------------------------------------------------------------------
LEMMA FormStart ==
  ASSUME NEW forms \in SUBSET Forms, FormInit(forms, Contents)
  PROVE  FormInv
<1>1. pending \in [1..MaxSaves -> Save] /\ \A i \in 1..MaxSaves : ~Own(i)
  BY NoSaveIsTyped DEF FormInit, Own
<1>2. FormTypeOK BY <1>1, ContentsAssumption DEF FormInit, FormTypeOK, Save
<1> QED BY <1>1, <1>2 DEF FormInit, FormInv, EditsStay, OneOwn, OfForm

LEMMA FormSteps == FormInv /\ [FormNext]_formVars => FormInv'
<1> SUFFICES ASSUME FormInv, [FormNext]_formVars PROVE FormInv'
  OBVIOUS
<1>1. CASE handleChange \/ handleBlur \/ RenderForm \/ ChangedMeanwhile \/ RefetchRecord
  BY <1>1, ChangeKeeps, BlurKeeps, RenderFormKeeps, OthersKeep
<1>2. CASE Leaving
  <2>1. CASE FollowLink BY <2>1, FollowLinkKeeps
  <2>2. CASE requestDiscard BY <2>2, DiscardKeeps
  <2>3. CASE ConfirmDialog BY <2>3, ConfirmKeeps
  <2>4. CASE Leave BY <2>4, UnmountKeeps DEF Leave, FormInv, FormTypeOK
  <2>5. CASE SessionExpires BY <2>5, UnmountKeeps DEF SessionExpires
  <2>6. CASE OpenForm BY <2>6, OpenFormKeeps
  <2> QED BY <1>2, <2>1, <2>2, <2>3, <2>4, <2>5, <2>6 DEF Leaving
<1>3. CASE FormActions BY <1>3, SubmitKeeps
<1>4. CASE \E i \in 1..MaxSaves :
             useUpload(i) \/ SaveCommits(i) \/ SaveFails(i) \/ SetData(i) \/ onSubmit(i)
  BY <1>4, UploadKeeps, CommitKeeps, FailsKeeps, SetDataKeeps, SucceedsKeeps
<1>5. CASE UNCHANGED formVars
  BY <1>5, SameSaves, FewerSavesKeep
  DEF formVars, record, known, state, edit, FormInv, FormTypeOK
<1> QED BY <1>1, <1>2, <1>3, <1>4, <1>5 DEF FormNext

(* The form, its saves and the record behind it are always of their kind.  *)
THEOREM FormTyped == FormSpec => []FormTypeOK
<1>1. FormInit(Forms, Contents) => FormInv BY FormStart
<1>2. FormInv => FormTypeOK BY DEF FormInv
<1> QED BY <1>1, <1>2, FormSteps, PTL DEF FormSpec

-----------------------------------------------------------------------------
(* What a step does to what is unsaved: it stays, or one of the exceptions *)
(* that EditsAreKept names is met.                                         *)
KeptOrExcused ==
  unsaved # NoEdit =>
    \/ phase' # "elsewhere" /\ (values' = unsaved \/ handleChange)
    \/ Confirmed \/ Saved
    \/ hasty \/ (theForm.keyed /\ renewed) \/ expired'

LEMMA Stays ==
  ASSUME FormInv, UNCHANGED <<phase, values>>
  PROVE  KeptOrExcused
BY DEF KeptOrExcused, FormInv, EditsStay, Mounted

LEMMA RenderKeepsEdits == ASSUME FormInv, RenderForm PROVE KeptOrExcused
<1>1. CASE theForm.keyed /\ renewed BY <1>1 DEF KeptOrExcused
<1>2. CASE ~(theForm.keyed /\ renewed)
  <2>1. Update /\ phase' = phase BY <1>2 DEF RenderForm
  <2>2. unsaved # NoEdit => values' = unsaved BY <2>1 DEF Update, FormInv, EditsStay
  <2> QED BY <2>1, <2>2 DEF KeptOrExcused, FormInv, EditsStay, Mounted
<1> QED BY <1>1, <1>2

(* A save that succeeds fills its form only if it is that form's own: then *)
(* it saved what is unsaved, or some was typed during it.                  *)
LEMMA SucceedsKeepsEdits ==
  ASSUME FormInv, NEW i \in 1..MaxSaves, onSubmit(i)
  PROVE  KeptOrExcused
<1>1. pending' = [pending EXCEPT ![i] = NoSave] /\ pending[i].stage = "answered"
  BY DEF onSubmit, Advance
<1>2. pending'[i] = NoSave BY <1>1 DEF FormInv, FormTypeOK
<1>3. CASE pending[i].own
  <2>1. Own(i) BY <1>1, <1>3 DEF Own
  <2>2. unsaved # NoEdit /\ ~hasty => pending[i].content = unsaved
    BY <2>1 DEF FormInv, OfForm
  <2> QED BY <1>2, <2>1, <2>2 DEF KeptOrExcused, Saved
<1>4. CASE ~pending[i].own
  <2>1. values' = values BY <1>4 DEF onSubmit, state
  <2>2. phase' = phase \/ phase' = "leaving" BY <1>4 DEF onSubmit, shouldBlockNavigation
  <2> QED BY <2>1, <2>2 DEF KeptOrExcused, FormInv, EditsStay, Mounted
<1> QED BY <1>3, <1>4

LEMMA LeavingKeepsEdits == ASSUME FormInv, Leaving PROVE KeptOrExcused
<1>1. CASE FollowLink
  BY <1>1
  DEF FollowLink, shouldBlockNavigation, state, KeptOrExcused, FormInv, EditsStay, Mounted
<1>2. CASE requestDiscard
  <2>1. CASE hasUnsavedChanges BY <1>2, <2>1, Stays DEF requestDiscard, state
  <2>2. CASE ~hasUnsavedChanges
    BY <2>2 DEF hasUnsavedChanges, KeptOrExcused, FormInv, EditsStay
  <2> QED BY <2>1, <2>2
<1>3. CASE ConfirmDialog BY <1>3 DEF ConfirmDialog, Confirmed, KeptOrExcused
<1>4. CASE Leave BY <1>4 DEF Leave, KeptOrExcused, FormInv, EditsStay
<1>5. CASE SessionExpires BY <1>5 DEF SessionExpires, KeptOrExcused
<1>6. CASE OpenForm BY <1>6 DEF OpenForm, KeptOrExcused, FormInv, EditsStay, Mounted
<1> QED BY <1>1, <1>2, <1>3, <1>4, <1>5, <1>6 DEF Leaving

LEMMA StepKeepsEdits == FormInv /\ [FormNext]_formVars => KeptOrExcused
<1> SUFFICES ASSUME FormInv, [FormNext]_formVars PROVE KeptOrExcused
  OBVIOUS
<1>1. CASE handleChange
  BY <1>1 DEF handleChange, KeptOrExcused, Mounted
<1>2. CASE handleBlur \/ ChangedMeanwhile \/ RefetchRecord \/ FormActions
  BY <1>2, Stays DEF handleBlur, ChangedMeanwhile, RefetchRecord, FormActions, state
<1>3. CASE RenderForm BY <1>3, RenderKeepsEdits
<1>4. CASE Leaving BY <1>4, LeavingKeepsEdits
<1>5. CASE \E i \in 1..MaxSaves : useUpload(i) \/ SaveCommits(i) \/ SaveFails(i) \/ SetData(i)
  BY <1>5, Stays DEF useUpload, SaveCommits, SaveFails, SetData, state
<1>6. CASE \E i \in 1..MaxSaves : onSubmit(i) BY <1>6, SucceedsKeepsEdits
<1>7. CASE UNCHANGED formVars BY <1>7, Stays DEF formVars, state
<1> QED BY <1>1, <1>2, <1>3, <1>4, <1>5, <1>6, <1>7 DEF FormNext

(* What was typed into a form of the web interface stays there, whatever   *)
(* saves, failures, refetches and late answers do, until it is typed over, *)
(* saved or discarded on request, but for the exceptions of the property.  *)
THEOREM EditsAreKeptHolds == FormSpec => EditsAreKept
<1>1. FormInit(Forms, Contents) => FormInv BY FormStart
<1>2. FormInv /\ [FormNext]_formVars => FormInv' BY FormSteps
<1>3. FormInv /\ [FormNext]_formVars => [KeptOrExcused]_formVars BY StepKeepsEdits
<1> QED BY <1>1, <1>2, <1>3, PTL DEF FormSpec, EditsAreKept, KeptOrExcused
=============================================================================
