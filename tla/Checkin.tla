------------------------------- MODULE Checkin -------------------------------
(***************************************************************************)
(* Locations, check-ins and the stored objects they own                    *)
(* (internal/checkin/service.go, store.go).  A request writes its image or *)
(* photo to the object store, then commits a row that refers to it, then   *)
(* releases what the row no longer refers to, or what it wrote in vain:    *)
(* each is a transaction of its own, and requests interleave between them. *)
(*                                                                         *)
(* The object store (bloby) is a library outside the repository.  It is    *)
(* modelled from its use: an upload is reserved and later made available   *)
(* by Finalize, Write makes an object available at once, and               *)
(* DeleteUnreferenced removes an object unless a foreign key refers to it, *)
(* which the database decides in one step (ON DELETE RESTRICT, FOR KEY     *)
(* SHARE in requireImage).                                                 *)
(*                                                                         *)
(* Object and location ids are never reused by the program.  Here one is   *)
(* used again once no row and no request refers to it.  Who may check in,  *)
(* and what a location is called, play no part in these steps.             *)
(***************************************************************************)
EXTENDS Naturals

CONSTANTS
    Locations,
    Objects,    \* ids of the store's objects
    Checkins,   \* check-ins that can be recorded: no operation deletes one
    Requests,   \* API requests that can be in progress together
    None

ASSUME NoneAssumption == None \notin Locations \cup Objects \cup Checkins

Slots == {"background", "logo"}   \* a location's galleries, and its columns

VARIABLES
    location,  \* the locations table: absent, enabled or disabled
    slot,      \* the locations table: background_object_id and logo_object_id
    checkin,   \* the checkins table: location_id and photo_object_id
    stage,     \* storage_objects: none, reserved or available
    kind,      \* storage_objects: the prefix an object was created under
    request,   \* what each request is doing
    lost       \* objects whose release a fault has cut short (history)

rows == <<location, slot, checkin>>
store == <<stage, kind>>
vars == <<rows, store, request, lost>>

---------------------------------------------------------------------------
NoImages == [s \in Slots |-> None]
NoCheckin == [location |-> None, photo |-> None]

\* step is what the request does next; a slot stands for finalizing the image meant for it. held is
\* what it has finalized or written so far and, in step release, what it is about to release.
Idle == [op |-> "none", step |-> "idle", location |-> None,
         want |-> NoImages, held |-> {}, checkin |-> None]

RequestStates ==
    [op : {"none", "create", "update", "attach", "submit", "move"},
     step : Slots \cup {"idle", "commit", "photo", "insert", "move", "release"},
     location : Locations \cup {None},
     want : [Slots -> Objects \cup {None}],
     held : SUBSET Objects,
     checkin : Checkins \cup {None}]

TypeOK ==
    /\ location \in [Locations -> {"absent", "enabled", "disabled"}]
    /\ slot \in [Locations -> [Slots -> Objects \cup {None}]]
    /\ checkin \in [Checkins -> [location : Locations \cup {None}, photo : Objects \cup {None}]]
    /\ stage \in [Objects -> {"none", "reserved", "available"}]
    /\ kind \in [Objects -> Slots \cup {"photo", "none"}]
    /\ request \in [Requests -> RequestStates]
    /\ lost \subseteq Objects

Init ==
    /\ location = [l \in Locations |-> "absent"]
    /\ slot = [l \in Locations |-> NoImages]
    /\ checkin = [c \in Checkins |-> NoCheckin]
    /\ stage = [o \in Objects |-> "none"]
    /\ kind = [o \in Objects |-> "none"]
    /\ request = [r \in Requests |-> Idle]
    /\ lost = {}

---------------------------------------------------------------------------
(* The foreign keys. *)

\* Without, and with, the foreign key of the check-ins.
OwnedByLocation(o) == \E l \in Locations, s \in Slots : slot[l][s] = o
Owned(o) ==
    \/ \E l \in Locations, s \in Slots : slot[l][s] = o
    \/ \E c \in Checkins : checkin[c].photo = o

Mentioned(o) == \E r \in Requests : o \in request[r].held \/ \E s \in Slots : request[r].want[s] = o

---------------------------------------------------------------------------
(* The object store. *)

\* BeginDirect: an upload is reserved.
BeginUpload(o, s) ==
    /\ stage[o] = "none"
    /\ ~Mentioned(o)
    /\ stage' = [stage EXCEPT ![o] = "reserved"]
    /\ kind' = [kind EXCEPT ![o] = s]
    /\ UNCHANGED <<rows, request, lost>>

Removed(o) ==
    /\ stage' = [stage EXCEPT ![o] = "none"]
    /\ kind' = [kind EXCEPT ![o] = "none"]
    /\ lost' = lost \ {o}

\* RunCleanup, set up with the prefix of the photos as a referenced one: an upload that was never
\* finalized is given up, and so is a photo that no check-in refers to, be it one a submission has
\* just written. The images are a library to pick from, and stay.
RunCleanup(o) ==
    /\ stage[o] = "reserved" \/ (stage[o] = "available" /\ kind[o] = "photo" /\ ~Owned(o))
    /\ Removed(o)
    /\ UNCHANGED <<rows, request>>

DeleteUnreferenced(o) == IF Owned(o) THEN UNCHANGED <<store, lost>> ELSE Removed(o)

---------------------------------------------------------------------------
(* The steps of a request. *)

\* r goes on to release the objects of O one after the other, and is over when there is none.
Releasing(r, O) ==
    request' = [request EXCEPT ![r] =
        IF O = {} THEN Idle ELSE [Idle EXCEPT !.step = "release", !.held = O]]

\* One object is released, or the call fails and nobody tries again.
Release(r, o) ==
    /\ request[r].step = "release"
    /\ o \in request[r].held
    /\ \/ DeleteUnreferenced(o)
       \/ lost' = lost \cup {o} /\ UNCHANGED store
    /\ Releasing(r, request[r].held \ {o})
    /\ UNCHANGED rows

\* The request's process ends.
Crash(r) ==
    /\ request[r] # Idle
    /\ request' = [request EXCEPT ![r] = Idle]
    /\ lost' = lost \cup request[r].held
    /\ UNCHANGED <<rows, store>>

---------------------------------------------------------------------------
(* CreateLocation, UpdateLocation, SetLocationBackground, SetLocationLogo. *)

\* finalizeLocationAttachments takes the background, then the logo.
First(want) ==
    IF want["background"] # None THEN "background" ELSE IF want["logo"] # None THEN "logo" ELSE "commit"
After(s, want) == IF s = "background" /\ want["logo"] # None THEN "logo" ELSE "commit"

\* A request that names an object that does not exist, or one of another gallery, fails when its
\* turn comes, as a request may fail for another reason (SaveFails): it is left out.
Save(r, op, l, want) ==
    /\ request[r] = Idle
    /\ \A s \in Slots : want[s] # None => stage[want[s]] # "none" /\ kind[want[s]] = s
    /\ op = "attach" => \E s \in Slots : want[s] # None /\ \A t \in Slots \ {s} : want[t] = None
    /\ request' = [request EXCEPT ![r] =
            [Idle EXCEPT !.op = op, !.step = First(want), !.location = l, !.want = want]]
    /\ UNCHANGED <<rows, store, lost>>

\* Finalize publishes an upload whose bytes have arrived, and accepts an object that is available.
Finalize(r) ==
    LET s == request[r].step
        o == request[r].want[s]
    IN
    /\ s \in Slots
    /\ stage[o] # "none" /\ kind[o] = s
    /\ stage' = [stage EXCEPT ![o] = "available"]
    /\ request' = [request EXCEPT ![r].held = @ \cup {o}, ![r].step = After(s, request[r].want)]
    /\ UNCHANGED <<rows, kind, lost>>

\* Finalize refuses (no such object, other gallery, nothing uploaded) or fails; or the transaction
\* does (no such location or group, requireImage, the database). What was finalized is cleaned up.
SaveFails(r) ==
    /\ request[r].step \in Slots \cup {"commit"}
    /\ Releasing(r, request[r].held)
    /\ UNCHANGED <<rows, store, lost>>

\* requireImage: the upload is complete and of the right gallery.
IsImage(o, s) == stage[o] = "available" /\ kind[o] = s

\* The slots a request writes, and what the location loses by it (replacedObjectIDs), without and
\* with its test that there was something.
Written(r) ==
    IF request[r].op = "attach" THEN {s \in Slots : request[r].want[s] # None} ELSE Slots
ReplacedOrNone(r, l) == {slot[l][s] : s \in {t \in Written(r) : slot[l][t] # request[r].want[t]}}
Replaced(r, l) ==
    {slot[l][s] : s \in {t \in Written(r) : slot[l][t] # request[r].want[t]}} \ {None}

\* The transaction commits. Then the replaced objects are released. Reading the location back may
\* fail, and the service releases what it finalized as well; if the answer to the commit is lost, it
\* releases only that.
SaveCommits(r, l) ==
    LET want == request[r].want IN
    /\ request[r].step = "commit"
    /\ IF request[r].op = "create"
       THEN location[l] = "absent" /\ \A q \in Requests : request[q].location # l
       ELSE location[l] # "absent" /\ request[r].location = l
    /\ \A s \in Slots : want[s] # None => IsImage(want[s], s)
    /\ IF request[r].op = "attach" THEN UNCHANGED location
       ELSE \E status \in {"enabled", "disabled"} : location' = [location EXCEPT ![l] = status]
    /\ slot' = [slot EXCEPT ![l] = [s \in Slots |-> IF s \in Written(r) THEN want[s] ELSE slot[l][s]]]
    /\ \/ Releasing(r, Replaced(r, l)) /\ UNCHANGED lost
       \/ /\ request[r].op # "attach"
          /\ Releasing(r, Replaced(r, l) \cup request[r].held)
          /\ UNCHANGED lost
       \/ Releasing(r, request[r].held) /\ lost' = lost \cup Replaced(r, l)
    /\ UNCHANGED <<checkin, store>>

\* DeleteLocation is refused while a check-in refers to the location (or a station does).
Deletable(l) == \A c \in Checkins : checkin[c].location # l

\* The row goes; its images are released, unless the answer is lost.
DeleteLocation(r, l) ==
    LET images == {slot[l][s] : s \in Slots} \ {None} IN
    /\ request[r] = Idle
    /\ location[l] # "absent"
    /\ Deletable(l)
    /\ location' = [location EXCEPT ![l] = "absent"]
    /\ slot' = [slot EXCEPT ![l] = NoImages]
    /\ \/ Releasing(r, images) /\ UNCHANGED lost
       \/ lost' = lost \cup images /\ UNCHANGED request
    /\ UNCHANGED <<checkin, store>>

---------------------------------------------------------------------------
(* Submit and UpdateCheckin. *)

\* The location is read and found enabled, the person eligible. With a photo, that is written next.
Submit(r, l, step) ==
    /\ request[r] = Idle
    /\ location[l] = "enabled"
    /\ request' = [request EXCEPT ![r] =
            [Idle EXCEPT !.op = "submit", !.step = step, !.location = l]]
    /\ UNCHANGED <<rows, store, lost>>

\* objects.Write.
WritePhoto(r, o) ==
    /\ request[r].step = "photo"
    /\ stage[o] = "none"
    /\ ~Mentioned(o)
    /\ stage' = [stage EXCEPT ![o] = "available"]
    /\ kind' = [kind EXCEPT ![o] = "photo"]
    /\ request' = [request EXCEPT ![r].step = "insert", ![r].held = {o}]
    /\ UNCHANGED <<rows, lost>>

\* The location a row is about to refer to still exists, and so does its photo: the foreign keys of
\* the checkins table.
Present(l) == location[l] # "absent"

\* The check-in is inserted. When reading it back fails, or the answer is lost, its photo is put up
\* for release although it is owned.
InsertCheckin(r, c) ==
    LET photo == request[r].held IN
    /\ request[r].step = "insert"
    /\ checkin[c] = NoCheckin
    /\ Present(request[r].location)
    /\ \A o \in photo : stage[o] # "none"
    /\ checkin' = [checkin EXCEPT ![c] =
            [location |-> request[r].location,
             photo |-> IF photo = {} THEN None ELSE CHOOSE o \in photo : TRUE]]
    /\ Releasing(r, {}) \/ Releasing(r, photo)
    /\ UNCHANGED <<location, slot, store, lost>>

\* A failed submission that keeps its photo.
SubmitFailsSilently(r) ==
    /\ request[r].step \in {"photo", "insert"}
    /\ Releasing(r, {})
    /\ UNCHANGED <<rows, store, lost>>

\* The photo cannot be written, or the insert fails: the location, the person, the station or the
\* photo is gone.
SubmitFails(r) ==
    /\ request[r].step \in {"photo", "insert"}
    /\ Releasing(r, request[r].held)
    /\ UNCHANGED <<rows, store, lost>>

\* UpdateCheckin finds the new location enabled and the person eligible there. An update that keeps
\* the location changes nothing here.
MoveCheckin(r, c, l) ==
    /\ request[r] = Idle
    /\ checkin[c] # NoCheckin
    /\ checkin[c].location # l
    /\ location[l] = "enabled"
    /\ request' = [request EXCEPT ![r] =
            [Idle EXCEPT !.op = "move", !.step = "move", !.location = l, !.checkin = c]]
    /\ UNCHANGED <<rows, store, lost>>

\* The check-in is updated, if its location is still there, or the update fails; it keeps its photo.
MoveEnds(r) ==
    /\ request[r].step = "move"
    /\ \/ UNCHANGED checkin
       \/ /\ Present(request[r].location)
          /\ checkin' = [checkin EXCEPT ![request[r].checkin].location = request[r].location]
    /\ Releasing(r, {})
    /\ UNCHANGED <<location, slot, store, lost>>

---------------------------------------------------------------------------
Saving(r) ==
    \/ \E want \in [Slots -> Objects \cup {None}] :
          \/ Save(r, "create", None, want)
          \/ \E l \in Locations, op \in {"update", "attach"} : Save(r, op, l, want)
    \/ Finalize(r) \/ SaveFails(r)
    \/ \E l \in Locations : SaveCommits(r, l) \/ DeleteLocation(r, l)

Recording(r) ==
    \/ \E l \in Locations :
          \/ \E step \in {"photo", "insert"} : Submit(r, l, step)
          \/ \E c \in Checkins : MoveCheckin(r, c, l)
    \/ \E o \in Objects : WritePhoto(r, o)
    \/ \E c \in Checkins : InsertCheckin(r, c)
    \/ SubmitFails(r) \/ MoveEnds(r)

Next ==
    \/ \E o \in Objects : RunCleanup(o) \/ \E s \in Slots : BeginUpload(o, s)
    \/ \E r \in Requests :
          \/ Saving(r) \/ Recording(r) \/ Crash(r)
          \/ \E o \in Objects : Release(r, o)

Spec == Init /\ [][Next]_vars

---------------------------------------------------------------------------
\* Whatever the tables refer to is there: a location's images are available and of the right gallery,
\* a check-in's photo is available, and its location exists. No release, late, repeated or in vain,
\* takes an object from an owner it gained in the meantime, and no check-in outlives its location.
ReferencesHold ==
    /\ \A l \in Locations, s \in Slots :
          slot[l][s] # None => location[l] # "absent" /\ IsImage(slot[l][s], s)
    /\ \A c \in Checkins : checkin[c] # NoCheckin =>
          /\ location[checkin[c].location] # "absent"
          /\ checkin[c].photo # None =>
                stage[checkin[c].photo] = "available" /\ kind[checkin[c].photo] = "photo"

\* docs/configuration.md: "Removing or replacing an attachment releases its object when no owner
\* references it." A published object has an owner, or a request that is going to give it one or to
\* release it, unless a fault cut that request short. Two requests that take away the last two
\* references of an object do not each leave the release to the other.
NothingForgotten ==
    \A o \in Objects :
        stage[o] = "available" => Owned(o) \/ o \in lost \/ \E r \in Requests : o \in request[r].held

=============================================================================
