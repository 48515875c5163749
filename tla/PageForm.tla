------------------------------ MODULE PageForm ------------------------------
(***************************************************************************)
(* A page of the administration web interface with a form: edits, the      *)
(* guard that asks before they are thrown away, a save with its uploads,   *)
(* and the record behind the form, which others change meanwhile.          *)
(*                                                                         *)
(* Outside the repository, and modelled from their use: the form library,  *)
(* whose form takes over another record only while nobody has touched it,  *)
(* and the router, which asks blockers when a navigation begins and        *)
(* replaces the page when it ends.                                         *)
(***************************************************************************)
EXTENDS Naturals

CONSTANTS
  Contents,    \* what a form can hold
  Blank,       \* what the form of a new record holds at first
  NoEdit,
  MaxSaves     \* saves under way at a time

ASSUME ContentsAssumption == Blank \in Contents /\ NoEdit \notin Contents
ASSUME MaxSavesAssumption == MaxSaves \in Nat \ {0}

VARIABLES
  theForm,      \* which form it is
  stored,       \* the record on the server
  newer,        \* it changed after it was fetched
  basis,        \* the cached record the page is rendered with
  renewed,      \* that changed after the last render
  phase,        \* the form is shown, shown and being left, or elsewhere: not shown
  values, defaults, isTouched, isDefaultValue,   \* the state of the form
  dialog,       \* asks whether to discard: none, for a blocked navigation, for Cancel
  pending,      \* saves under way, with what they save and whether for this form
  unsaved,      \* what was typed last and is not saved, or NoEdit
  hasty,        \* some of it was typed during the save or navigation under way
  expired       \* the session is over

record == <<stored, newer>>
known == <<basis, renewed>>
state == <<values, defaults, isTouched, isDefaultValue>>
edit == <<unsaved, hasty>>
formVars == <<theForm, record, known, phase, state, dialog, pending, edit, expired>>

-----------------------------------------------------------------------------
(* The forms.  One of a record starts from it, and some are mounted anew   *)
(* with every new version of it; some upload images first; most lead to    *)
(* the record once saved, and away when cancelled.                         *)

OfRecord(uploads) ==
  [record |-> TRUE, keyed |-> FALSE, uploads |-> uploads, leaves |-> TRUE, cancel |-> "leave"]
OfNew(uploads) ==
  [record |-> FALSE, keyed |-> FALSE, uploads |-> uploads, leaves |-> TRUE, cancel |-> "leave"]

NewCheckin == OfNew(FALSE)
EditedCheckin == OfRecord(FALSE)
NewLocation == OfNew(TRUE)
EditedLocation == OfRecord(TRUE)
NewStation == [OfNew(FALSE) EXCEPT !.leaves = FALSE]
EditedStation == OfRecord(FALSE)
NewRole == OfNew(FALSE)
EditedRole == OfRecord(FALSE)
NewUser == OfNew(FALSE)
EditedUser == [OfRecord(FALSE) EXCEPT !.keyed = TRUE]
EditedGroup == OfRecord(FALSE)
EditedAccount ==
  [OfRecord(FALSE) EXCEPT !.keyed = TRUE, !.leaves = FALSE, !.cancel = "reset"]

Forms ==
  {NewCheckin, EditedCheckin, NewLocation, EditedLocation, NewStation, EditedStation,
   NewRole, EditedRole, NewUser, EditedUser, EditedGroup, EditedAccount}

NoSave == [stage |-> "none", content |-> Blank, own |-> FALSE]

FormTypeOK ==
  /\ theForm \in Forms
  /\ stored \in Contents /\ basis \in Contents
  /\ values \in Contents /\ defaults \in Contents
  /\ newer \in BOOLEAN /\ renewed \in BOOLEAN
  /\ isTouched \in BOOLEAN /\ isDefaultValue \in BOOLEAN
  /\ phase \in {"shown", "leaving", "elsewhere"}
  /\ dialog \in {"none", "blocked", "discard"}
  /\ pending \in [1..MaxSaves -> [stage : {"none", "uploading", "sent", "committed", "answered"},
                                  content : Contents, own : BOOLEAN]]
  /\ unsaved \in Contents \cup {NoEdit}
  /\ hasty \in BOOLEAN /\ expired \in BOOLEAN

FormInit(forms, contents) ==
  /\ theForm \in forms
  /\ stored \in (IF theForm.record THEN contents ELSE {Blank})
  /\ basis = stored /\ values = stored /\ defaults = stored
  /\ newer = FALSE /\ renewed = FALSE
  /\ isTouched = FALSE /\ isDefaultValue = TRUE
  /\ phase = "shown" /\ dialog = "none"
  /\ pending = [i \in 1..MaxSaves |-> NoSave]
  /\ unsaved = NoEdit /\ hasty = FALSE /\ expired = FALSE

-----------------------------------------------------------------------------
(* The form.                                                               *)

Mounted == phase # "elsewhere"
Own(i) == pending[i].stage # "none" /\ pending[i].own
isSubmitting == \E i \in 1..MaxSaves : Own(i)
Orphaned == [i \in 1..MaxSaves |-> [pending[i] EXCEPT !.own = FALSE]]

Fill(content) ==
  /\ values' = content /\ defaults' = content
  /\ isTouched' = FALSE /\ isDefaultValue' = TRUE

Unedited == unsaved' = NoEdit /\ hasty' = FALSE

(* Somebody types, picks or chooses; to type what was there is no edit.    *)
handleChange ==
  /\ Mounted /\ dialog = "none"
  /\ \E content \in Contents :
       /\ values' = content
       /\ isDefaultValue' = (content = defaults)
       /\ unsaved' = IF content = defaults THEN NoEdit ELSE content
  /\ isTouched' = TRUE
  /\ hasty' = (unsaved' # NoEdit /\ (hasty \/ isSubmitting \/ phase = "leaving"))
  /\ UNCHANGED <<theForm, record, known, phase, defaults, dialog, pending, expired>>

handleBlur ==
  /\ Mounted /\ dialog = "none"
  /\ isTouched' = TRUE
  /\ isDefaultValue' = (values = defaults)
  /\ UNCHANGED <<theForm, record, known, phase, values, defaults, dialog, pending, edit, expired>>

(* The page is rendered with another record.  A form that is mounted anew  *)
(* with it forgets everything; another takes the record over unless        *)
(* somebody has touched it.                                                *)
Remount ==
  /\ Fill(basis)
  /\ Unedited
  /\ dialog' = "none"
  /\ pending' = Orphaned

Update ==
  /\ defaults' = basis
  /\ values' = IF isTouched THEN values ELSE basis
  /\ isDefaultValue' \in {isDefaultValue, values' = basis}
  /\ (defaults # basis /\ ~isTouched) => isDefaultValue'
  /\ unsaved' = IF unsaved = basis THEN NoEdit ELSE unsaved
  /\ hasty' = (unsaved' # NoEdit /\ hasty)
  /\ UNCHANGED <<isTouched, dialog, pending>>

RenderForm ==
  /\ Mounted
  /\ renewed \/ defaults # basis
  /\ renewed' = FALSE
  /\ IF theForm.keyed /\ renewed THEN Remount ELSE Update
  /\ UNCHANGED <<theForm, record, basis, phase, expired>>

(* Somebody else saves the record, or something else of it.                *)
ChangedMeanwhile ==
  /\ theForm.record
  /\ stored' \in Contents
  /\ newer' = TRUE
  /\ UNCHANGED <<theForm, known, phase, state, dialog, pending, edit, expired>>

RefetchRecord ==
  /\ newer
  /\ newer' = FALSE
  /\ basis' = stored /\ renewed' = TRUE
  /\ UNCHANGED <<theForm, stored, phase, state, dialog, pending, edit, expired>>

-----------------------------------------------------------------------------
(* Saving.                                                                 *)

Advance(i, from, to) ==
  /\ pending[i].stage = from
  /\ pending' = [pending EXCEPT ![i] = IF to = "none" THEN NoSave ELSE [@ EXCEPT !.stage = to]]

FormActions ==
  /\ phase = "shown" /\ dialog = "none" /\ ~isSubmitting
  /\ \E i \in 1..MaxSaves :
       /\ pending[i].stage = "none"
       /\ pending' = [pending EXCEPT ![i] =
                      [stage |-> IF theForm.uploads THEN "uploading" ELSE "sent",
                       content |-> values, own |-> TRUE]]
  /\ isTouched' = TRUE
  /\ UNCHANGED <<theForm, record, known, phase, values, defaults, isDefaultValue, dialog, edit, expired>>

(* The images of the form are uploaded, then the record refers to them.    *)
useUpload(i) ==
  /\ Advance(i, "uploading", "sent")
  /\ UNCHANGED <<theForm, record, known, phase, state, dialog, edit, expired>>

SaveCommits(i) ==
  /\ Advance(i, "sent", "committed")
  /\ IF theForm.record THEN stored' = pending[i].content /\ newer' = TRUE
                       ELSE UNCHANGED record
  /\ UNCHANGED <<theForm, known, phase, state, dialog, edit, expired>>

(* An upload or the save fails, or its answer is lost: an error is shown.  *)
SaveFailsResetting(i) ==
  /\ \E stage \in {"uploading", "sent", "committed"} : Advance(i, stage, "none")
  /\ Fill(defaults)
  /\ hasty' = (hasty /\ (phase = "leaving" \/ ~Own(i)))
  /\ UNCHANGED <<theForm, record, known, phase, dialog, unsaved, expired>>

SaveFails(i) ==
  /\ \E stage \in {"uploading", "sent", "committed"} : Advance(i, stage, "none")
  /\ hasty' = (hasty /\ (phase = "leaving" \/ ~Own(i)))
  /\ UNCHANGED <<theForm, record, known, phase, state, dialog, unsaved, expired>>

(* The hook's onSuccess puts the answer into the cache.                    *)
SetData(i) ==
  /\ Advance(i, "committed", "answered")
  /\ IF theForm.record
       THEN /\ basis' = pending[i].content /\ renewed' = TRUE
            /\ newer' = (stored # pending[i].content)
       ELSE UNCHANGED <<known, newer>>
  /\ UNCHANGED <<theForm, stored, phase, state, dialog, edit, expired>>

-----------------------------------------------------------------------------
(* Leaving.                                                                *)

hasUnsavedChanges == ~isDefaultValue

(* A navigation begins, unless the form's blocker has it ask first.        *)
shouldBlockNavigation ==
  IF hasUnsavedChanges THEN dialog' = "blocked" /\ UNCHANGED phase
                       ELSE phase' = "leaving" /\ UNCHANGED dialog

(* The save has succeeded.  Its form, if it is still there, counts what    *)
(* was saved as unchanged; then the page leads to the record, from         *)
(* wherever somebody went meanwhile.                                       *)
onSubmit(i) ==
  /\ Advance(i, "answered", "none")
  /\ IF pending[i].own
       THEN /\ Fill(pending[i].content)
            /\ Unedited
            /\ phase' = IF theForm.leaves THEN "leaving" ELSE phase
            /\ UNCHANGED dialog
       ELSE /\ IF theForm.leaves /\ phase = "shown" THEN shouldBlockNavigation
                                                ELSE UNCHANGED <<phase, dialog>>
            /\ UNCHANGED <<state, edit>>
  /\ UNCHANGED <<theForm, record, known, expired>>

(* A link, the way back, an entry of the sidebar.                          *)
FollowLink ==
  /\ phase = "shown" /\ dialog = "none"
  /\ shouldBlockNavigation
  /\ UNCHANGED <<theForm, record, known, state, pending, edit, expired>>

runWithoutPrompt ==
  IF dialog = "blocked" \/ theForm.cancel = "leave"
    THEN phase' = "leaving" /\ UNCHANGED state
    ELSE Fill(defaults) /\ UNCHANGED phase

requestDiscard ==
  /\ phase = "shown" /\ dialog = "none" /\ ~isSubmitting
  /\ IF hasUnsavedChanges THEN dialog' = "discard" /\ UNCHANGED <<phase, state>>
                          ELSE runWithoutPrompt /\ UNCHANGED dialog
  /\ UNCHANGED <<theForm, record, known, pending, edit, expired>>

ConfirmDialog ==
  /\ dialog # "none"
  /\ dialog' = "none"
  /\ \/ runWithoutPrompt /\ Unedited
     \/ UNCHANGED <<phase, state, edit>>
  /\ UNCHANGED <<theForm, record, known, pending, expired>>

UnmountForm ==
  /\ phase' = "elsewhere"
  /\ Fill(Blank)
  /\ Unedited
  /\ dialog' = "none"
  /\ pending' = Orphaned

Leave ==
  /\ phase = "leaving"
  /\ UnmountForm
  /\ UNCHANGED <<theForm, record, known, expired>>

(* The session is over: the way to the login page asks nobody.             *)
SessionExpires ==
  /\ phase = "shown"
  /\ expired' = TRUE
  /\ UnmountForm
  /\ UNCHANGED <<theForm, record, known>>

OpenForm ==
  /\ phase = "elsewhere"
  /\ phase' = "shown" /\ expired' = FALSE
  /\ renewed' = FALSE
  /\ Fill(basis)
  /\ UNCHANGED <<theForm, record, basis, dialog, pending, edit>>

Leaving == FollowLink \/ requestDiscard \/ ConfirmDialog \/ Leave \/ SessionExpires \/ OpenForm

FormNext ==
  \/ handleChange \/ handleBlur \/ RenderForm \/ ChangedMeanwhile \/ RefetchRecord \/ Leaving
  \/ FormActions
  \/ \E i \in 1..MaxSaves : useUpload(i) \/ SaveCommits(i) \/ SaveFails(i) \/ SetData(i) \/ onSubmit(i)

FormSpec == FormInit(Forms, Contents) /\ [][FormNext]_formVars

-----------------------------------------------------------------------------
(* What was typed stays on the form, whatever is saved, refused, refetched *)
(* or answered late meanwhile, until it is typed over, has been saved, or  *)
(* somebody has confirmed to discard it.  Exempt is what the code lets go: *)
(* what was typed during a save or a navigation, what was typed on a form  *)
(* that is mounted anew with the next version of its record, and what is   *)
(* unsaved when the session is over.                                       *)
Confirmed == dialog # "none" /\ dialog' = "none"
Saved == \E i \in 1..MaxSaves : Own(i) /\ pending[i].content = unsaved /\ pending'[i] = NoSave

EditsAreKept ==
  [][unsaved # NoEdit =>
       \/ phase' # "elsewhere" /\ (values' = unsaved \/ handleChange)
       \/ Confirmed \/ Saved
       \/ hasty \/ (theForm.keyed /\ renewed) \/ expired']_formVars
=============================================================================
