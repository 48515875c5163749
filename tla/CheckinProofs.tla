---------------------------- MODULE CheckinProofs ----------------------------
(***************************************************************************)
(* Theorems about Checkin, for any number of locations, objects, check-ins *)
(* and requests: its types, that nothing the tables refer to is ever taken *)
(* away, and that no published object is forgotten without a fault.        *)
(***************************************************************************)
EXTENDS Checkin, TLAPS

---------------------------------------------------------------------------
(* The inductive invariant. *)

\* What a request holds at each step: it finalizes an image it was given, and an image finalized for
\* it is one it wants; a submission holds its photo alone; nothing else holds anything before its
\* release.
HoldingFits(r) ==
    /\ request[r].step \in {"idle", "photo", "move"} => request[r].held = {}
    /\ request[r].step \in Slots => request[r].want[request[r].step] # None
    /\ request[r].step \in Slots \cup {"commit"} =>
          \A o \in request[r].held : \E s \in Slots : request[r].want[s] = o
    /\ request[r].step \in {"photo", "insert", "move"} => request[r].location \in Locations
    /\ request[r].step = "move" =>
          request[r].checkin \in Checkins /\ checkin[request[r].checkin] # NoCheckin

\* The photo of a submission that has not inserted its check-in is that submission's alone: no other
\* request can release it, though the clean-up may, and what is gone has not become another object.
PhotoIsOwn(r) ==
    request[r].step = "insert" =>
        \A o \in request[r].held :
            /\ request[r].held = {o}
            /\ stage[o] # "none" => stage[o] = "available" /\ kind[o] = "photo"
            /\ \A q \in Requests \ {r} : o \notin request[q].held

CheckinIsWhole(c) == checkin[c] # NoCheckin => checkin[c].location \in Locations

Inv ==
    /\ TypeOK
    /\ \A r \in Requests : HoldingFits(r) /\ PhotoIsOwn(r)
    /\ \A c \in Checkins : CheckinIsWhole(c)
    /\ ReferencesHold
    /\ NothingForgotten

---------------------------------------------------------------------------
(* Lemmas. *)

\* An idle request holds and wants nothing.
LEMMA IdleFacts ==
    /\ Idle \in RequestStates
    /\ Idle.step = "idle" /\ Idle.op = "none" /\ Idle.held = {} /\ Idle.location = None
    /\ Idle.checkin = None /\ Idle.want = NoImages
BY DEF Idle, RequestStates, NoImages, Slots

\* A request that goes on to release a set of objects holds just these, and no other request changes.
LEMMA ReleasingFacts ==
    ASSUME request \in [Requests -> RequestStates],
           NEW r \in Requests, NEW O \in SUBSET Objects, Releasing(r, O)
    PROVE  /\ request' \in [Requests -> RequestStates]
           /\ request'[r].held = O
           /\ request'[r].step \in {"idle", "release"}
           /\ request'[r].step = "idle" => O = {}
           /\ \A q \in Requests \ {r} : request'[q] = request[q]
<1> DEFINE new == IF O = {} THEN Idle ELSE [Idle EXCEPT !.step = "release", !.held = O]
<1>1. request' = [request EXCEPT ![r] = new]
  BY DEF Releasing
<1>2. new \in RequestStates /\ new.held = O /\ new.step \in {"idle", "release"}
      /\ (new.step = "idle" => O = {})
  <2>1. CASE O = {}
    BY <2>1, IdleFacts
  <2>2. CASE O # {}
    <3> DEFINE stepped == [Idle EXCEPT !.step = "release"]
    <3>a. stepped = [op |-> "none", step |-> "release", location |-> None, want |-> NoImages,
                     held |-> {}, checkin |-> None]
      BY DEF Idle
    <3>b. new = [stepped EXCEPT !.held = O]
      BY <2>2
    <3> HIDE DEF stepped, new
    <3>1. new = [op |-> "none", step |-> "release", location |-> None, want |-> NoImages, held |-> O,
                 checkin |-> None]
      BY <3>a, <3>b
    <3>2. NoImages \in [Slots -> Objects \cup {None}]
      BY DEF NoImages
    <3> QED
      BY <3>1, <3>2 DEF RequestStates
  <2> QED
    BY <2>1, <2>2
<1> HIDE DEF new
<1> QED
  BY <1>1, <1>2

\* What a step of request r must show for the request part of the invariant.
LEMMA RequestsKept ==
    ASSUME Inv, NEW r \in Requests,
           \A q \in Requests \ {r} : request'[q] = request[q],
           \A c \in Checkins : checkin[c] # NoCheckin => checkin'[c] # NoCheckin,
           \A o \in Objects : \/ stage'[o] = stage[o] /\ kind'[o] = kind[o]
                              \/ \A q \in Requests \ {r} : request[q].step = "insert" =>
                                    o \notin request[q].held,
           \A o \in request'[r].held : \A q \in Requests \ {r} : request[q].step = "insert" =>
                o \notin request[q].held,
           HoldingFits(r)', PhotoIsOwn(r)'
    PROVE  \A q \in Requests : HoldingFits(q)' /\ PhotoIsOwn(q)'
<1> SUFFICES ASSUME NEW q \in Requests, q # r
             PROVE  HoldingFits(q)' /\ PhotoIsOwn(q)'
  OBVIOUS
<1>1. request'[q] = request[q]
  OBVIOUS
<1>2. HoldingFits(q)'
  BY <1>1 DEF Inv, HoldingFits
<1>3. PhotoIsOwn(q)'
  <2> SUFFICES ASSUME request[q].step = "insert", NEW o \in request[q].held
               PROVE  /\ request[q].held = {o}
                      /\ stage'[o] # "none" => stage'[o] = "available" /\ kind'[o] = "photo"
                      /\ \A p \in Requests \ {q} : o \notin request'[p].held
    BY <1>1 DEF PhotoIsOwn
  <2>1. o \in Objects
    BY DEF Inv, TypeOK, RequestStates
  <2>2. request[q].held = {o} /\ (stage[o] # "none" => stage[o] = "available" /\ kind[o] = "photo")
        /\ \A p \in Requests \ {q} : o \notin request[p].held
    BY DEF Inv, PhotoIsOwn
  <2> QED
    BY <2>1, <2>2
<1> QED
  BY <1>2, <1>3

\* A request that is idle or releasing satisfies its part of the invariant.
LEMMA OverFits ==
    ASSUME NEW r \in Requests,
           request'[r].step \in {"idle", "release"},
           request'[r].step = "idle" => request'[r].held = {}
    PROVE  HoldingFits(r)' /\ PhotoIsOwn(r)'
BY DEF HoldingFits, PhotoIsOwn, Slots

\* What is owned is published.
LEMMA OwnedIsPublished ==
    ASSUME Inv, NEW o \in Objects, Owned(o)
    PROVE  stage[o] = "available"
<1>1. o # None
  BY NoneAssumption
<1>2. ASSUME NEW l \in Locations, NEW s \in Slots, slot[l][s] = o PROVE stage[o] = "available"
  BY <1>1, <1>2 DEF Inv, ReferencesHold, IsImage
<1>3. ASSUME NEW c \in Checkins, checkin[c].photo = o PROVE stage[o] = "available"
  <2>1. checkin[c] # NoCheckin
    BY <1>1, <1>3 DEF NoCheckin
  <2> QED
    BY <2>1, <1>1, <1>3 DEF Inv, ReferencesHold
<1> QED
  BY <1>2, <1>3 DEF Owned

\* The rows are as before, and so are the objects they refer to.
LEMMA RowsKept ==
    ASSUME Inv, UNCHANGED rows,
           \A o \in Objects : \/ stage'[o] = stage[o] /\ kind'[o] = kind[o]
                              \/ ~Owned(o)
                              \/ stage'[o] = "available" /\ kind'[o] = kind[o]
    PROVE  /\ \A c \in Checkins : CheckinIsWhole(c)'
           /\ ReferencesHold'
           /\ \A o \in Objects : Owned(o)' <=> Owned(o)
<1>1. \A c \in Checkins : CheckinIsWhole(c)'
  BY DEF Inv, CheckinIsWhole, rows
<1>2. ASSUME NEW l \in Locations, NEW s \in Slots, slot'[l][s] # None
      PROVE  location'[l] # "absent" /\ IsImage(slot[l][s], s)'
  <2>1. slot[l][s] \in Objects /\ Owned(slot[l][s]) /\ slot'[l][s] = slot[l][s]
    BY <1>2 DEF Inv, TypeOK, Owned, rows
  <2>2. location[l] # "absent" /\ stage[slot[l][s]] = "available" /\ kind[slot[l][s]] = s
    BY <1>2, <2>1 DEF Inv, ReferencesHold, IsImage
  <2> QED
    BY <2>1, <2>2 DEF IsImage, rows
<1>3. ASSUME NEW c \in Checkins, checkin'[c] # NoCheckin
      PROVE  /\ location'[checkin'[c].location] # "absent"
             /\ checkin'[c].photo # None =>
                   stage'[checkin'[c].photo] = "available" /\ kind'[checkin'[c].photo] = "photo"
  <2>1. checkin'[c] = checkin[c] /\ location' = location
    BY DEF rows
  <2>2. checkin[c].photo # None => checkin[c].photo \in Objects /\ Owned(checkin[c].photo)
    BY DEF Inv, TypeOK, Owned
  <2>3. /\ location[checkin[c].location] # "absent"
        /\ checkin[c].photo # None =>
              stage[checkin[c].photo] = "available" /\ kind[checkin[c].photo] = "photo"
    BY <1>3, <2>1 DEF Inv, ReferencesHold
  <2> QED
    BY <2>1, <2>2, <2>3
<1>4. \A o \in Objects : Owned(o)' <=> Owned(o)
  BY DEF Owned, rows
<1> QED
  BY <1>1, <1>2, <1>3, <1>4 DEF ReferencesHold

---------------------------------------------------------------------------
(* The steps of the object store. *)

LEMMA BeginUploadKeeps ==
    ASSUME Inv, NEW o \in Objects, NEW s \in Slots, BeginUpload(o, s)
    PROVE  Inv'
<1>1. TypeOK'
  BY DEF Inv, TypeOK, BeginUpload, rows
<1>2. \A p \in Objects \ {o} : stage'[p] = stage[p] /\ kind'[p] = kind[p]
  BY DEF Inv, TypeOK, BeginUpload
<1>3. ~Owned(o)
  BY OwnedIsPublished DEF BeginUpload
<1>4. \A r \in Requests : HoldingFits(r)' /\ PhotoIsOwn(r)'
  <2> SUFFICES ASSUME NEW r \in Requests PROVE HoldingFits(r)' /\ PhotoIsOwn(r)'
    OBVIOUS
  <2>1. o \notin request[r].held
    BY DEF BeginUpload, Mentioned
  <2>2. request[r].held \subseteq Objects
    BY DEF Inv, TypeOK, RequestStates
  <2> QED
    BY <1>2, <2>1, <2>2 DEF Inv, BeginUpload, rows, HoldingFits, PhotoIsOwn
<1>5. /\ \A c \in Checkins : CheckinIsWhole(c)'
      /\ ReferencesHold'
      /\ \A p \in Objects : Owned(p)' <=> Owned(p)
  BY <1>2, <1>3, RowsKept DEF BeginUpload
<1>6. NothingForgotten'
  <2>1. stage'[o] # "available"
    BY DEF Inv, TypeOK, BeginUpload
  <2> QED
    BY <1>2, <1>5, <2>1 DEF Inv, NothingForgotten, BeginUpload
<1> QED
  BY <1>1, <1>4, <1>5, <1>6 DEF Inv

LEMMA RunCleanupKeeps ==
    ASSUME Inv, NEW o \in Objects, RunCleanup(o)
    PROVE  Inv'
<1>1. TypeOK'
  BY DEF Inv, TypeOK, RunCleanup, Removed, rows
<1>2. /\ \A p \in Objects \ {o} : stage'[p] = stage[p] /\ kind'[p] = kind[p]
      /\ stage'[o] = "none"
      /\ UNCHANGED <<location, slot, checkin, request>>
  BY DEF Inv, TypeOK, RunCleanup, Removed, rows
<1>3. ~Owned(o)
  BY OwnedIsPublished DEF RunCleanup
<1>4. \A r \in Requests : HoldingFits(r)' /\ PhotoIsOwn(r)'
  <2> SUFFICES ASSUME NEW r \in Requests PROVE HoldingFits(r)' /\ PhotoIsOwn(r)'
    OBVIOUS
  <2>1. request[r].held \subseteq Objects
    BY DEF Inv, TypeOK, RequestStates
  <2>2. HoldingFits(r)'
    BY <1>2 DEF Inv, HoldingFits
  <2>3. PhotoIsOwn(r)'
    BY <1>2, <2>1 DEF Inv, PhotoIsOwn
  <2> QED
    BY <2>2, <2>3
<1>5. /\ \A c \in Checkins : CheckinIsWhole(c)'
      /\ ReferencesHold'
      /\ \A p \in Objects : Owned(p)' <=> Owned(p)
  BY <1>2, <1>3, RowsKept DEF RunCleanup
<1>6. NothingForgotten'
  BY <1>2, <1>5 DEF Inv, NothingForgotten, RunCleanup, Removed
<1> QED
  BY <1>1, <1>4, <1>5, <1>6 DEF Inv

\* A release takes the object only when nothing refers to it, and no other request holds it as the
\* photo of a check-in to come.
LEMMA ReleaseKeeps ==
    ASSUME Inv, NEW r \in Requests, NEW o \in Objects, Release(r, o)
    PROVE  Inv'
<1> DEFINE rest == request[r].held \ {o}
<1>1. rest \in SUBSET Objects
  BY DEF Inv, TypeOK, RequestStates
<1>2. request \in [Requests -> RequestStates]
  BY DEF Inv, TypeOK
<1>3. Releasing(r, rest)
  BY DEF Release
<1> HIDE DEF rest
<1>4. /\ request' \in [Requests -> RequestStates]
      /\ request'[r].held = rest
      /\ request'[r].step \in {"idle", "release"}
      /\ request'[r].step = "idle" => rest = {}
      /\ \A q \in Requests \ {r} : request'[q] = request[q]
  BY <1>1, <1>2, <1>3, ReleasingFacts
<1>5. UNCHANGED rows
  BY DEF Release
<1>6. \A p \in Objects \ {o} : stage'[p] = stage[p] /\ kind'[p] = kind[p] /\ (p \in lost => p \in lost')
  BY DEF Inv, TypeOK, Release, DeleteUnreferenced, Removed, store
<1>7. \/ ~Owned(o) /\ stage'[o] = "none"
      \/ stage'[o] = stage[o] /\ kind'[o] = kind[o] /\ (Owned(o) \/ o \in lost')
  BY DEF Inv, TypeOK, Release, DeleteUnreferenced, Removed, store
<1>8. TypeOK'
  BY <1>4, <1>5 DEF Inv, TypeOK, Release, DeleteUnreferenced, Removed, store, rows
<1>9. request[r].step = "release" /\ o \in request[r].held
  BY DEF Release
<1>10. \A q \in Requests : request[q].step = "insert" => \A p \in request[r].held : p \notin request[q].held
  BY <1>9 DEF Inv, PhotoIsOwn
<1>11. \A q \in Requests : HoldingFits(q)' /\ PhotoIsOwn(q)'
  <2>1. HoldingFits(r)' /\ PhotoIsOwn(r)'
    BY <1>4, OverFits
  <2>2. \A c \in Checkins : checkin[c] # NoCheckin => checkin'[c] # NoCheckin
    BY <1>5 DEF rows
  <2>3. \A p \in Objects : \/ stage'[p] = stage[p] /\ kind'[p] = kind[p]
                           \/ \A q \in Requests \ {r} : request[q].step = "insert" =>
                                 p \notin request[q].held
    BY <1>6, <1>9, <1>10
  <2>4. \A p \in request'[r].held : \A q \in Requests \ {r} : request[q].step = "insert" =>
            p \notin request[q].held
    BY <1>4, <1>10 DEF rest
  <2> QED
    BY <1>4, <2>1, <2>2, <2>3, <2>4, RequestsKept
<1>12. /\ \A c \in Checkins : CheckinIsWhole(c)'
       /\ ReferencesHold'
       /\ \A p \in Objects : Owned(p)' <=> Owned(p)
  BY <1>5, <1>6, <1>7, RowsKept
<1>13. NothingForgotten'
  <2> SUFFICES ASSUME NEW p \in Objects, stage'[p] = "available"
               PROVE  Owned(p)' \/ p \in lost' \/ \E q \in Requests : p \in request'[q].held
    BY DEF NothingForgotten
  <2>1. CASE p = o
    BY <2>1, <1>7, <1>12
  <2>2. CASE p # o
    <3>1. Owned(p) \/ p \in lost \/ \E q \in Requests : p \in request[q].held
      BY <2>2, <1>6 DEF Inv, NothingForgotten
    <3>2. \A q \in Requests : p \in request[q].held => p \in request'[q].held
      BY <2>2, <1>4 DEF rest
    <3> QED
      BY <2>2, <3>1, <3>2, <1>6, <1>12
  <2> QED
    BY <2>1, <2>2
<1> QED
  BY <1>8, <1>11, <1>12, <1>13 DEF Inv

---------------------------------------------------------------------------
(* The steps of a request that change no row. *)

\* A request that only begins leaves everything as it is.
LEMMA BeginningKeeps ==
    ASSUME Inv, NEW r \in Requests, NEW new \in RequestStates,
           request[r] = Idle, request' = [request EXCEPT ![r] = new],
           new.held = {}, HoldingFits(r)', UNCHANGED <<rows, store, lost>>
    PROVE  Inv'
<1>1. request' \in [Requests -> RequestStates] /\ request'[r] = new
      /\ \A q \in Requests \ {r} : request'[q] = request[q]
  BY DEF Inv, TypeOK
<1>2. TypeOK'
  BY <1>1 DEF Inv, TypeOK, rows, store
<1>3. PhotoIsOwn(r)'
  BY <1>1 DEF PhotoIsOwn
<1>4. \A q \in Requests : HoldingFits(q)' /\ PhotoIsOwn(q)'
  <2>1. \A c \in Checkins : checkin[c] # NoCheckin => checkin'[c] # NoCheckin
    BY DEF rows
  <2>2. \A o \in Objects : stage'[o] = stage[o] /\ kind'[o] = kind[o]
    BY DEF store
  <2> QED
    BY <1>1, <1>3, <2>1, <2>2, RequestsKept
<1>5. /\ \A c \in Checkins : CheckinIsWhole(c)'
      /\ ReferencesHold'
      /\ \A p \in Objects : Owned(p)' <=> Owned(p)
  BY RowsKept DEF store
<1>6. NothingForgotten'
  <2>1. \A q \in Requests : request[q].held \subseteq request'[q].held
    BY <1>1, IdleFacts
  <2> QED
    BY <1>5, <2>1 DEF Inv, NothingForgotten, store
<1> QED
  BY <1>2, <1>4, <1>5, <1>6 DEF Inv

\* A request that gives up, and releases or loses what it holds, leaves everything else as it is.
LEMMA EndingKeeps ==
    ASSUME Inv, NEW r \in Requests, NEW O \in SUBSET Objects, Releasing(r, O),
           O \subseteq request[r].held, request[r].held \subseteq O \cup lost',
           lost \subseteq lost', lost' \subseteq Objects, UNCHANGED <<rows, store>>
    PROVE  Inv'
<1>1. /\ request' \in [Requests -> RequestStates]
      /\ request'[r].held = O
      /\ request'[r].step \in {"idle", "release"}
      /\ request'[r].step = "idle" => O = {}
      /\ \A q \in Requests \ {r} : request'[q] = request[q]
  BY ReleasingFacts DEF Inv, TypeOK
<1>2. TypeOK'
  BY <1>1 DEF Inv, TypeOK, rows, store
<1>3. HoldingFits(r)' /\ PhotoIsOwn(r)'
  BY <1>1, OverFits
<1>4. \A q \in Requests : HoldingFits(q)' /\ PhotoIsOwn(q)'
  <2>1. \A c \in Checkins : checkin[c] # NoCheckin => checkin'[c] # NoCheckin
    BY DEF rows
  <2>2. \A o \in Objects : stage'[o] = stage[o] /\ kind'[o] = kind[o]
    BY DEF store
  <2>3. \A o \in request'[r].held : \A q \in Requests \ {r} : request[q].step = "insert" =>
            o \notin request[q].held
    BY <1>1 DEF Inv, PhotoIsOwn
  <2> QED
    BY <1>1, <1>3, <2>1, <2>2, <2>3, RequestsKept
<1>5. /\ \A c \in Checkins : CheckinIsWhole(c)'
      /\ ReferencesHold'
      /\ \A p \in Objects : Owned(p)' <=> Owned(p)
  BY RowsKept DEF store
<1>6. NothingForgotten'
  <2>1. \A q \in Requests : request[q].held \subseteq request'[q].held \cup lost'
    BY <1>1
  <2> QED
    BY <1>5, <2>1 DEF Inv, NothingForgotten, store
<1> QED
  BY <1>2, <1>4, <1>5, <1>6 DEF Inv

LEMMA SaveKeeps ==
    ASSUME Inv, NEW r \in Requests, NEW op \in {"create", "update", "attach"},
           NEW l \in Locations \cup {None}, NEW want \in [Slots -> Objects \cup {None}],
           Save(r, op, l, want)
    PROVE  Inv'
<1> DEFINE new == [op |-> op, step |-> First(want), location |-> l, want |-> want, held |-> {},
                   checkin |-> None]
<1>1. First(want) \in Slots \cup {"commit"} /\ (First(want) \in Slots => want[First(want)] # None)
  BY DEF First, Slots
<1>2. new \in RequestStates
  BY <1>1 DEF RequestStates
<1>3. request' = [request EXCEPT ![r] = new]
  <2> DEFINE x0 == Idle
  <2> DEFINE x1 == [x0 EXCEPT !.op = op]
  <2> DEFINE x2 == [x1 EXCEPT !.step = First(want)]
  <2> DEFINE x3 == [x2 EXCEPT !.location = l]
  <2> DEFINE x4 == [x3 EXCEPT !.want = want]
  <2>0. request' = [request EXCEPT ![r] = x4]
    BY DEF Save
  <2>1. x1 = [op |-> op, step |-> "idle", location |-> None, want |-> NoImages,
              held |-> {}, checkin |-> None]
    BY DEF Idle
  <2> HIDE DEF x1
  <2>2. x2 = [op |-> op, step |-> First(want), location |-> None, want |-> NoImages,
              held |-> {}, checkin |-> None]
    BY <2>1
  <2> HIDE DEF x2
  <2>3. x3 = [op |-> op, step |-> First(want), location |-> l, want |-> NoImages,
              held |-> {}, checkin |-> None]
    BY <2>2
  <2> HIDE DEF x3
  <2>4. x4 = [op |-> op, step |-> First(want), location |-> l, want |-> want,
              held |-> {}, checkin |-> None]
    BY <2>3
  <2> HIDE DEF x4
  <2> QED
    BY <2>0, <2>4
<1>4. HoldingFits(r)'
  <2>1. request'[r] = new
    BY <1>3 DEF Inv, TypeOK
  <2> QED
    BY <1>1, <2>1 DEF HoldingFits, Slots
<1>5. request[r] = Idle /\ UNCHANGED <<rows, store, lost>> /\ new.held = {}
  BY DEF Save
<1> HIDE DEF new
<1> QED
  BY <1>2, <1>3, <1>4, <1>5, BeginningKeeps

LEMMA SubmitKeeps ==
    ASSUME Inv, NEW r \in Requests, NEW l \in Locations, NEW step \in {"photo", "insert"},
           Submit(r, l, step)
    PROVE  Inv'
<1> DEFINE new == [op |-> "submit", step |-> step, location |-> l, want |-> NoImages, held |-> {},
                   checkin |-> None]
<1>1. new \in RequestStates
  BY DEF RequestStates, NoImages
<1>2. request' = [request EXCEPT ![r] = new]
  <2> DEFINE x0 == Idle
  <2> DEFINE x1 == [x0 EXCEPT !.op = "submit"]
  <2> DEFINE x2 == [x1 EXCEPT !.step = step]
  <2> DEFINE x3 == [x2 EXCEPT !.location = l]
  <2>0. request' = [request EXCEPT ![r] = x3]
    BY DEF Submit
  <2>1. x1 = [op |-> "submit", step |-> "idle", location |-> None, want |-> NoImages,
              held |-> {}, checkin |-> None]
    BY DEF Idle
  <2> HIDE DEF x1
  <2>2. x2 = [op |-> "submit", step |-> step, location |-> None, want |-> NoImages,
              held |-> {}, checkin |-> None]
    BY <2>1
  <2> HIDE DEF x2
  <2>3. x3 = [op |-> "submit", step |-> step, location |-> l, want |-> NoImages,
              held |-> {}, checkin |-> None]
    BY <2>2
  <2> HIDE DEF x3
  <2> QED
    BY <2>0, <2>3
<1>3. HoldingFits(r)'
  <2>1. request'[r] = new
    BY <1>2 DEF Inv, TypeOK
  <2> QED
    BY <2>1 DEF HoldingFits, Slots
<1>4. request[r] = Idle /\ UNCHANGED <<rows, store, lost>> /\ new.held = {}
  BY DEF Submit
<1> HIDE DEF new
<1> QED
  BY <1>1, <1>2, <1>3, <1>4, BeginningKeeps

LEMMA MoveCheckinKeeps ==
    ASSUME Inv, NEW r \in Requests, NEW c \in Checkins, NEW l \in Locations, MoveCheckin(r, c, l)
    PROVE  Inv'
<1> DEFINE new == [op |-> "move", step |-> "move", location |-> l, want |-> NoImages, held |-> {},
                   checkin |-> c]
<1>1. new \in RequestStates
  BY DEF RequestStates, NoImages
<1>2. request' = [request EXCEPT ![r] = new]
  <2> DEFINE x0 == Idle
  <2> DEFINE x1 == [x0 EXCEPT !.op = "move"]
  <2> DEFINE x2 == [x1 EXCEPT !.step = "move"]
  <2> DEFINE x3 == [x2 EXCEPT !.location = l]
  <2> DEFINE x4 == [x3 EXCEPT !.checkin = c]
  <2>0. request' = [request EXCEPT ![r] = x4]
    BY DEF MoveCheckin
  <2>1. x1 = [op |-> "move", step |-> "idle", location |-> None, want |-> NoImages,
              held |-> {}, checkin |-> None]
    BY DEF Idle
  <2> HIDE DEF x1
  <2>2. x2 = [op |-> "move", step |-> "move", location |-> None, want |-> NoImages,
              held |-> {}, checkin |-> None]
    BY <2>1
  <2> HIDE DEF x2
  <2>3. x3 = [op |-> "move", step |-> "move", location |-> l, want |-> NoImages,
              held |-> {}, checkin |-> None]
    BY <2>2
  <2> HIDE DEF x3
  <2>4. x4 = [op |-> "move", step |-> "move", location |-> l, want |-> NoImages,
              held |-> {}, checkin |-> c]
    BY <2>3
  <2> HIDE DEF x4
  <2> QED
    BY <2>0, <2>4
<1>3. HoldingFits(r)'
  <2>1. request'[r] = new /\ checkin' = checkin /\ checkin[c] # NoCheckin
    BY <1>2 DEF Inv, TypeOK, MoveCheckin, rows
  <2> QED
    BY <2>1 DEF HoldingFits, Slots
<1>4. request[r] = Idle /\ UNCHANGED <<rows, store, lost>> /\ new.held = {}
  BY DEF MoveCheckin
<1> HIDE DEF new
<1> QED
  BY <1>1, <1>2, <1>3, <1>4, BeginningKeeps

LEMMA FailuresKeep ==
    ASSUME Inv, NEW r \in Requests, Crash(r) \/ SaveFails(r) \/ SubmitFails(r)
    PROVE  Inv'
<1>1. request[r].held \subseteq Objects /\ lost \subseteq Objects /\ {} \in SUBSET Objects
  BY DEF Inv, TypeOK, RequestStates
<1>2. CASE Crash(r)
  BY <1>1, <1>2, EndingKeeps DEF Crash, Releasing
<1>3. CASE SaveFails(r)
  BY <1>1, <1>3, EndingKeeps DEF SaveFails
<1>4. CASE SubmitFails(r)
  BY <1>1, <1>4, EndingKeeps DEF SubmitFails
<1> QED
  BY <1>2, <1>3, <1>4

---------------------------------------------------------------------------
(* The steps that publish an object. *)

LEMMA FinalizeKeeps ==
    ASSUME Inv, NEW r \in Requests, Finalize(r)
    PROVE  Inv'
<1> DEFINE s == request[r].step
           o == request[r].want[s]
<1>1. s \in Slots /\ o \in Objects /\ kind[o] = s /\ stage[o] # "none"
  <2>1. s \in Slots /\ stage[o] # "none" /\ kind[o] = s
    BY DEF Finalize
  <2>2. request[r].want \in [Slots -> Objects \cup {None}]
    BY DEF Inv, TypeOK, RequestStates
  <2>3. o # None
    BY <2>1 DEF Inv, HoldingFits
  <2> QED
    BY <2>1, <2>2, <2>3
<1>2. stage' = [stage EXCEPT ![o] = "available"] /\ UNCHANGED <<rows, kind, lost>>
  BY DEF Finalize
<1>3. /\ request' \in [Requests -> RequestStates]
      /\ request'[r].held = request[r].held \cup {o}
      /\ request'[r].step = After(s, request[r].want)
      /\ request'[r].want = request[r].want
      /\ \A q \in Requests \ {r} : request'[q] = request[q]
  <2> DEFINE wider == [request[r] EXCEPT !.held = @ \cup {o}]
             later == [wider EXCEPT !.step = After(s, request[r].want)]
  <2>1. request' = [request EXCEPT ![r].held = @ \cup {o}, ![r].step = After(s, request[r].want)]
    <3> HIDE DEF wider, later
    <3> QED
      BY DEF Finalize
  <2>2. request \in [Requests -> RequestStates] /\ request[r] \in RequestStates
    BY DEF Inv, TypeOK
  <2>3. wider \in RequestStates /\ wider.held = request[r].held \cup {o}
        /\ wider.want = request[r].want
    BY <1>1, <2>2 DEF RequestStates
  <2>4. After(s, request[r].want) \in Slots \cup {"commit"}
    BY DEF After, Slots
  <2>5. later \in RequestStates /\ later.held = wider.held /\ later.want = wider.want
        /\ later.step = After(s, request[r].want)
    <3> HIDE DEF wider, s, o
    <3> QED
      BY <2>3, <2>4 DEF RequestStates
  <2>6. request' = [request EXCEPT ![r] = later]
    BY <2>1, <2>2
  <2> HIDE DEF wider, later, s, o
  <2> QED
    BY <2>2, <2>3, <2>5, <2>6
<1>4. /\ After(s, request[r].want) \in Slots \cup {"commit"}
      /\ After(s, request[r].want) \in Slots => request[r].want[After(s, request[r].want)] # None
  BY DEF After, Slots
<1>5. HoldingFits(r)' /\ PhotoIsOwn(r)'
  <2>1. \A p \in request[r].held : \E t \in Slots : request[r].want[t] = p
    BY <1>1 DEF Inv, HoldingFits
  <2> QED
    BY <1>1, <1>3, <1>4, <2>1 DEF HoldingFits, PhotoIsOwn, Slots
<1> HIDE DEF s, o
<1>6. \A p \in Objects \ {o} : stage'[p] = stage[p] /\ kind'[p] = kind[p]
  BY <1>1, <1>2 DEF Inv, TypeOK
<1>7. stage'[o] = "available" /\ kind'[o] = kind[o]
  BY <1>1, <1>2 DEF Inv, TypeOK
<1>8. \A q \in Requests \ {r} : request[q].step = "insert" =>
          \A p \in request'[r].held : p \notin request[q].held
  BY <1>1, <1>3 DEF Inv, PhotoIsOwn, Slots
<1>9. TypeOK'
  BY <1>1, <1>2, <1>3 DEF Inv, TypeOK, rows
<1>10. \A q \in Requests : HoldingFits(q)' /\ PhotoIsOwn(q)'
  <2>1. \A c \in Checkins : checkin[c] # NoCheckin => checkin'[c] # NoCheckin
    BY <1>2 DEF rows
  <2>2. \A p \in Objects : \/ stage'[p] = stage[p] /\ kind'[p] = kind[p]
                           \/ \A q \in Requests \ {r} : request[q].step = "insert" =>
                                 p \notin request[q].held
    BY <1>3, <1>6, <1>8
  <2> QED
    BY <1>3, <1>5, <1>8, <2>1, <2>2, RequestsKept
<1>11. /\ \A c \in Checkins : CheckinIsWhole(c)'
       /\ ReferencesHold'
       /\ \A p \in Objects : Owned(p)' <=> Owned(p)
  BY <1>2, <1>6, <1>7, RowsKept
<1>12. NothingForgotten'
  <2>1. \A q \in Requests : request[q].held \subseteq request'[q].held
    BY <1>3
  <2> QED
    BY <1>2, <1>3, <1>6, <1>11, <2>1 DEF Inv, NothingForgotten
<1> QED
  BY <1>9, <1>10, <1>11, <1>12 DEF Inv

LEMMA WritePhotoKeeps ==
    ASSUME Inv, NEW r \in Requests, NEW o \in Objects, WritePhoto(r, o)
    PROVE  Inv'
<1>1. /\ stage' = [stage EXCEPT ![o] = "available"] /\ kind' = [kind EXCEPT ![o] = "photo"]
      /\ UNCHANGED <<rows, lost>> /\ stage[o] = "none" /\ request[r].step = "photo"
  BY DEF WritePhoto
<1>2. \A q \in Requests : o \notin request[q].held
  BY DEF WritePhoto, Mentioned
<1>3. /\ request' \in [Requests -> RequestStates]
      /\ request'[r].held = {o}
      /\ request'[r].step = "insert"
      /\ request'[r].location = request[r].location
      /\ \A q \in Requests \ {r} : request'[q] = request[q]
  <2> DEFINE later == [request[r] EXCEPT !.step = "insert"]
             fuller == [later EXCEPT !.held = {o}]
  <2>1. request' = [request EXCEPT ![r].step = "insert", ![r].held = {o}]
    BY DEF WritePhoto
  <2>2. request \in [Requests -> RequestStates] /\ request[r] \in RequestStates
    BY DEF Inv, TypeOK
  <2>3. later \in RequestStates /\ later.step = "insert" /\ later.location = request[r].location
    BY <2>2 DEF RequestStates
  <2>4. fuller \in RequestStates /\ fuller.held = {o} /\ fuller.step = later.step
        /\ fuller.location = later.location
    <3> HIDE DEF later
    <3> QED
      BY <2>3 DEF RequestStates
  <2>5. request' = [request EXCEPT ![r] = fuller]
    BY <2>1, <2>2
  <2> HIDE DEF later, fuller
  <2> QED
    BY <2>2, <2>3, <2>4, <2>5
<1>4. \A p \in Objects \ {o} : stage'[p] = stage[p] /\ kind'[p] = kind[p]
  BY <1>1 DEF Inv, TypeOK
<1>5. stage'[o] = "available" /\ kind'[o] = "photo" /\ ~Owned(o)
  BY <1>1, OwnedIsPublished DEF Inv, TypeOK
<1>6. TypeOK'
  BY <1>1, <1>3 DEF Inv, TypeOK, rows
<1>7. request[r].location \in Locations /\ request[r].held = {}
  BY <1>1 DEF Inv, HoldingFits
<1>8. HoldingFits(r)' /\ PhotoIsOwn(r)'
  BY <1>2, <1>3, <1>5, <1>7 DEF HoldingFits, PhotoIsOwn, Slots
<1>9. \A q \in Requests : HoldingFits(q)' /\ PhotoIsOwn(q)'
  <2>1. \A c \in Checkins : checkin[c] # NoCheckin => checkin'[c] # NoCheckin
    BY <1>1 DEF rows
  <2>2. \A p \in Objects : \/ stage'[p] = stage[p] /\ kind'[p] = kind[p]
                           \/ \A q \in Requests \ {r} : request[q].step = "insert" =>
                                 p \notin request[q].held
    BY <1>2, <1>4
  <2>3. \A p \in request'[r].held : \A q \in Requests \ {r} : request[q].step = "insert" =>
            p \notin request[q].held
    BY <1>2, <1>3
  <2> QED
    BY <1>3, <1>8, <2>1, <2>2, <2>3, RequestsKept
<1>10. /\ \A c \in Checkins : CheckinIsWhole(c)'
       /\ ReferencesHold'
       /\ \A p \in Objects : Owned(p)' <=> Owned(p)
  BY <1>1, <1>4, <1>5, RowsKept
<1>11. NothingForgotten'
  <2>1. \A q \in Requests : request[q].held \subseteq request'[q].held
    BY <1>3, <1>7
  <2> QED
    BY <1>1, <1>3, <1>4, <1>10, <2>1 DEF Inv, NothingForgotten
<1> QED
  BY <1>6, <1>9, <1>10, <1>11 DEF Inv

---------------------------------------------------------------------------
(* The steps that change the tables. *)

\* What a step that leaves the store alone must show for the tables.
LEMMA TablesKept ==
    ASSUME Inv, UNCHANGED store, checkin' \in [Checkins -> [location : Locations \cup {None},
                                                            photo : Objects \cup {None}]],
           \A l \in Locations, s \in Slots :
                \/ slot'[l][s] = None
                \/ slot'[l][s] = slot[l][s] /\ (location[l] # "absent" => location'[l] # "absent")
                \/ location'[l] # "absent" /\ stage[slot'[l][s]] = "available" /\ kind[slot'[l][s]] = s,
           \A c \in Checkins : checkin'[c] # NoCheckin =>
                /\ checkin'[c].location \in Locations /\ location'[checkin'[c].location] # "absent"
                /\ \/ checkin'[c].photo = None
                   \/ checkin'[c].photo = checkin[c].photo
                   \/ stage[checkin'[c].photo] = "available" /\ kind[checkin'[c].photo] = "photo"
    PROVE  (\A c \in Checkins : CheckinIsWhole(c)') /\ ReferencesHold'
<1>1. \A c \in Checkins : CheckinIsWhole(c)'
  BY DEF CheckinIsWhole
<1>2. ASSUME NEW l \in Locations, NEW s \in Slots, slot'[l][s] # None
      PROVE  location'[l] # "absent" /\ IsImage(slot[l][s], s)'
  BY <1>2 DEF Inv, ReferencesHold, IsImage, store
<1>3. ASSUME NEW c \in Checkins, checkin'[c] # NoCheckin
      PROVE  /\ location'[checkin'[c].location] # "absent"
             /\ checkin'[c].photo # None =>
                   stage'[checkin'[c].photo] = "available" /\ kind'[checkin'[c].photo] = "photo"
  <2>1. checkin[c].photo # None =>
            stage[checkin[c].photo] = "available" /\ kind[checkin[c].photo] = "photo"
    BY DEF Inv, ReferencesHold, NoCheckin
  <2> QED
    BY <1>3, <2>1 DEF store
<1> QED
  BY <1>1, <1>2, <1>3 DEF ReferencesHold

LEMMA InsertCheckinKeeps ==
    ASSUME Inv, NEW r \in Requests, NEW c \in Checkins, InsertCheckin(r, c)
    PROVE  Inv'
<1> DEFINE held == request[r].held
           photo == IF held = {} THEN None ELSE CHOOSE o \in held : TRUE
           l == request[r].location
<1>1. /\ request[r].step = "insert" /\ checkin[c] = NoCheckin /\ location[l] # "absent"
      /\ checkin' = [checkin EXCEPT ![c] = [location |-> l, photo |-> photo]]
      /\ Releasing(r, {}) \/ Releasing(r, held)
      /\ \A o \in held : stage[o] # "none"
      /\ UNCHANGED <<location, slot, store, lost>>
  BY DEF InsertCheckin, Present
<1>2. held \in SUBSET Objects /\ l \in Locations
  BY <1>1 DEF Inv, TypeOK, RequestStates, HoldingFits
<1>3. /\ photo \in Objects \cup {None}
      /\ photo # None => held = {photo} /\ stage[photo] = "available" /\ kind[photo] = "photo"
      /\ photo = None => held = {}
  <2>1. CASE held = {}
    BY <2>1
  <2>2. CASE held # {}
    <3>1. photo \in held
      BY <2>2
    <3> HIDE DEF photo
    <3>2. held = {photo} /\ stage[photo] = "available" /\ kind[photo] = "photo"
      BY <1>1, <3>1 DEF Inv, PhotoIsOwn
    <3>3. photo # None
      BY <1>2, <3>1, NoneAssumption
    <3> QED
      BY <1>2, <3>1, <3>2, <3>3
  <2> QED
    BY <2>1, <2>2
<1>4. PICK O \in SUBSET held : Releasing(r, O)
  BY <1>1
<1>5. /\ request' \in [Requests -> RequestStates]
      /\ request'[r].held = O
      /\ request'[r].step \in {"idle", "release"}
      /\ request'[r].step = "idle" => O = {}
      /\ \A q \in Requests \ {r} : request'[q] = request[q]
  BY <1>2, <1>4, ReleasingFacts DEF Inv, TypeOK
<1> HIDE DEF photo, held, l
<1>6. /\ checkin' \in [Checkins -> [location : Locations \cup {None}, photo : Objects \cup {None}]]
      /\ checkin'[c].location = l /\ checkin'[c].photo = photo
      /\ \A d \in Checkins \ {c} : checkin'[d] = checkin[d]
  <2>1. [location |-> l, photo |-> photo] \in
            [location : Locations \cup {None}, photo : Objects \cup {None}]
    BY <1>2, <1>3
  <2> QED
    BY <1>1, <2>1 DEF Inv, TypeOK
<1>7. TypeOK'
  BY <1>1, <1>5, <1>6 DEF Inv, TypeOK, store
<1>8. \A q \in Requests : HoldingFits(q)' /\ PhotoIsOwn(q)'
  <2>1. \A d \in Checkins : checkin[d] # NoCheckin => checkin'[d] # NoCheckin
    BY <1>1, <1>6
  <2>2. \A p \in Objects : stage'[p] = stage[p] /\ kind'[p] = kind[p]
    BY <1>1 DEF store
  <2>3. \A p \in request'[r].held : \A q \in Requests \ {r} : request[q].step = "insert" =>
            p \notin request[q].held
    BY <1>5 DEF Inv, PhotoIsOwn, held
  <2> QED
    BY <1>5, <2>1, <2>2, <2>3, OverFits, RequestsKept
<1>9. (\A d \in Checkins : CheckinIsWhole(d)') /\ ReferencesHold'
  <2>1. \A k \in Locations, s \in Slots : slot'[k][s] = slot[k][s] /\ location'[k] = location[k]
    BY <1>1
  <2>2. ASSUME NEW d \in Checkins, checkin'[d] # NoCheckin
        PROVE  /\ checkin'[d].location \in Locations /\ location'[checkin'[d].location] # "absent"
               /\ \/ checkin'[d].photo = None
                  \/ checkin'[d].photo = checkin[d].photo
                  \/ stage[checkin'[d].photo] = "available" /\ kind[checkin'[d].photo] = "photo"
    <3>1. CASE d = c
      BY <3>1, <1>1, <1>2, <1>3, <1>6
    <3>2. CASE d # c
      BY <3>2, <2>2, <1>1, <1>6 DEF Inv, CheckinIsWhole, ReferencesHold
    <3> QED
      BY <3>1, <3>2
  <2> QED
    BY <1>1, <1>6, <2>1, <2>2, TablesKept
<1>10. NothingForgotten'
  <2> SUFFICES ASSUME NEW p \in Objects, stage'[p] = "available"
               PROVE  Owned(p)' \/ p \in lost' \/ \E q \in Requests : p \in request'[q].held
    BY DEF NothingForgotten
  <2>1. Owned(p) \/ p \in lost \/ \E q \in Requests : p \in request[q].held
    BY <1>1 DEF Inv, NothingForgotten, store
  <2>2. CASE p \in held
    BY <2>2, <1>3, <1>6 DEF Owned
  <2>3. CASE Owned(p)
    <3>1. checkin[c].photo # p
      BY <1>1, NoneAssumption DEF NoCheckin
    <3> QED
      BY <2>3, <3>1, <1>1, <1>6 DEF Owned
  <2>4. ASSUME NEW q \in Requests, p \in request[q].held, p \notin held
        PROVE  p \in request'[q].held
    BY <2>4, <1>5 DEF held
  <2> QED
    BY <2>1, <2>2, <2>3, <2>4, <1>1
<1> QED
  BY <1>7, <1>8, <1>9, <1>10 DEF Inv

LEMMA MoveEndsKeeps ==
    ASSUME Inv, NEW r \in Requests, MoveEnds(r)
    PROVE  Inv'
<1> DEFINE l == request[r].location
           c == request[r].checkin
<1>1. /\ request[r].step = "move" /\ Releasing(r, {})
      /\ UNCHANGED <<location, slot, store, lost>>
  BY DEF MoveEnds
<1>2. request[r].held = {} /\ l \in Locations /\ c \in Checkins /\ checkin[c] # NoCheckin
  BY <1>1 DEF Inv, HoldingFits
<1>3. CASE UNCHANGED checkin
  <2>1. UNCHANGED <<rows, store>>
    BY <1>1, <1>3 DEF rows
  <2> QED
    BY <1>1, <1>2, <2>1, EndingKeeps DEF Inv, TypeOK
<1>4. CASE location[l] # "absent" /\ checkin' = [checkin EXCEPT ![c].location = l]
  <2>1. /\ request' \in [Requests -> RequestStates]
        /\ request'[r].held = {}
        /\ request'[r].step \in {"idle", "release"}
        /\ \A q \in Requests \ {r} : request'[q] = request[q]
    BY <1>1, ReleasingFacts DEF Inv, TypeOK
  <2> HIDE DEF l, c
  <2>2. /\ checkin' \in [Checkins -> [location : Locations \cup {None}, photo : Objects \cup {None}]]
        /\ checkin'[c].location = l /\ checkin'[c].photo = checkin[c].photo
        /\ \A d \in Checkins \ {c} : checkin'[d] = checkin[d]
    BY <1>2, <1>4 DEF Inv, TypeOK
  <2>3. TypeOK'
    BY <1>1, <2>1, <2>2 DEF Inv, TypeOK, store
  <2>4. \A q \in Requests : HoldingFits(q)' /\ PhotoIsOwn(q)'
    <3>1. \A d \in Checkins : checkin[d] # NoCheckin => checkin'[d] # NoCheckin
      <4>1. checkin'[c] # NoCheckin
        BY <1>2, <2>2, NoneAssumption DEF NoCheckin
      <4> QED
        BY <2>2, <4>1
    <3>2. \A p \in Objects : stage'[p] = stage[p] /\ kind'[p] = kind[p]
      BY <1>1 DEF store
    <3> QED
      BY <2>1, <3>1, <3>2, OverFits, RequestsKept
  <2>5. (\A d \in Checkins : CheckinIsWhole(d)') /\ ReferencesHold'
    <3>1. \A k \in Locations, s \in Slots : slot'[k][s] = slot[k][s] /\ location'[k] = location[k]
      BY <1>1
    <3>2. ASSUME NEW d \in Checkins, checkin'[d] # NoCheckin
          PROVE  /\ checkin'[d].location \in Locations /\ location'[checkin'[d].location] # "absent"
                 /\ checkin'[d].photo = checkin[d].photo
      <4>1. CASE d = c
        BY <4>1, <1>1, <1>2, <1>4, <2>2
      <4>2. CASE d # c
        BY <4>2, <3>2, <1>1, <2>2 DEF Inv, CheckinIsWhole, ReferencesHold
      <4> QED
        BY <4>1, <4>2
    <3> QED
      BY <1>1, <2>2, <3>1, <3>2, TablesKept
  <2>6. NothingForgotten'
    <3>1. \A p \in Objects : Owned(p) => Owned(p)'
      BY <1>1, <1>2, <2>2 DEF Owned
    <3>2. \A q \in Requests : request[q].held \subseteq request'[q].held
      BY <1>2, <2>1
    <3> QED
      BY <1>1, <3>1, <3>2 DEF Inv, NothingForgotten, store
  <2> QED
    BY <2>3, <2>4, <2>5, <2>6 DEF Inv
<1> QED
  BY <1>3, <1>4 DEF MoveEnds, Present

\* Whatever a location loses is held for release or lost, and nothing else loses its owner.
LEMMA ImagesReleased ==
    ASSUME Inv, NEW r \in Requests, NEW l \in Locations, NEW O \in SUBSET Objects,
           Releasing(r, O), UNCHANGED <<checkin, store>>,
           \A k \in Locations \ {l}, s \in Slots : slot'[k][s] = slot[k][s],
           \A s \in Slots : slot[l][s] # None =>
                slot[l][s] \in O \/ slot[l][s] \in lost' \/ \E t \in Slots : slot'[l][t] = slot[l][s],
           \A o \in request[r].held : \E t \in Slots : slot'[l][t] = o,
           lost \subseteq lost'
    PROVE  NothingForgotten'
<1> SUFFICES ASSUME NEW p \in Objects, stage'[p] = "available"
             PROVE  Owned(p)' \/ p \in lost' \/ \E q \in Requests : p \in request'[q].held
  BY DEF NothingForgotten
<1>1. Owned(p) \/ p \in lost \/ \E q \in Requests : p \in request[q].held
  BY DEF Inv, NothingForgotten, store
<1>2. request'[r].held = O /\ \A q \in Requests \ {r} : request'[q] = request[q]
  BY ReleasingFacts DEF Inv, TypeOK
<1>3. ASSUME NEW q \in Requests, p \in request[q].held
      PROVE  Owned(p)' \/ p \in request'[q].held
  BY <1>2, <1>3 DEF Owned
<1>4. ASSUME NEW c \in Checkins, checkin[c].photo = p
      PROVE  Owned(p)'
  BY <1>4 DEF Owned
<1>5. ASSUME NEW k \in Locations, NEW s \in Slots, slot[k][s] = p
      PROVE  Owned(p)' \/ p \in lost' \/ p \in request'[r].held
  <2>1. p # None
    BY NoneAssumption
  <2>2. CASE k = l
    BY <1>2, <1>5, <2>1, <2>2 DEF Owned
  <2>3. CASE k # l
    BY <1>5, <2>3 DEF Owned
  <2> QED
    BY <2>2, <2>3
<1> QED
  BY <1>1, <1>3, <1>4, <1>5 DEF Owned

LEMMA SaveCommitsKeeps ==
    ASSUME Inv, NEW r \in Requests, NEW l \in Locations, SaveCommits(r, l)
    PROVE  Inv'
<1> DEFINE want == request[r].want
           new == [s \in Slots |-> IF s \in Written(r) THEN want[s] ELSE slot[l][s]]
           gone == Replaced(r, l)
<1>1. /\ request[r].step = "commit"
      /\ \A s \in Slots : want[s] # None => IsImage(want[s], s)
      /\ slot' = [slot EXCEPT ![l] = new]
      /\ UNCHANGED <<checkin, store>>
  BY DEF SaveCommits
<1>2. /\ location' \in [Locations -> {"absent", "enabled", "disabled"}]
      /\ location'[l] # "absent"
      /\ \A k \in Locations \ {l} : location'[k] = location[k]
  <2>1. location \in [Locations -> {"absent", "enabled", "disabled"}]
    BY DEF Inv, TypeOK
  <2>2. CASE request[r].op = "attach"
    BY <2>1, <2>2 DEF SaveCommits
  <2>3. CASE request[r].op # "attach"
    <3>1. PICK status \in {"enabled", "disabled"} : location' = [location EXCEPT ![l] = status]
      BY <2>3 DEF SaveCommits
    <3> QED
      BY <2>1, <3>1
  <2> QED
    BY <2>2, <2>3
<1>3. want \in [Slots -> Objects \cup {None}] /\ request[r].held \subseteq Objects
  BY DEF Inv, TypeOK, RequestStates
<1>4. gone \in SUBSET Objects /\ \A o \in gone : \E s \in Slots : o = slot[l][s] /\ o # None
  BY DEF Inv, TypeOK, Replaced, Written
<1>5. /\ new \in [Slots -> Objects \cup {None}]
      /\ \A s \in Slots : new[s] = want[s] \/ new[s] = slot[l][s]
      /\ \A s \in Slots : want[s] # None => new[s] = want[s]
      /\ \A s \in Slots : slot[l][s] # None => slot[l][s] \in gone \/ new[s] = slot[l][s]
  <2>1. slot[l] \in [Slots -> Objects \cup {None}]
    BY DEF Inv, TypeOK
  <2>2. \A s \in Slots : want[s] # None => s \in Written(r)
    BY DEF Written
  <2>3. \A s \in Slots : slot[l][s] # None => slot[l][s] \in gone \/ new[s] = slot[l][s]
    <3> SUFFICES ASSUME NEW s \in Slots, slot[l][s] # None, slot[l][s] \notin gone
                 PROVE  new[s] = slot[l][s]
      OBVIOUS
    <3>1. ~(s \in Written(r) /\ slot[l][s] # want[s])
      BY DEF Replaced
    <3> QED
      BY <3>1
  <2> QED
    BY <1>3, <2>1, <2>2, <2>3
<1>6. \A o \in request[r].held : \E s \in Slots : want[s] = o /\ want[s] # None
  BY <1>1, <1>3, NoneAssumption DEF Inv, HoldingFits
<1>7. PICK O \in SUBSET Objects :
          /\ Releasing(r, O)
          /\ O \subseteq gone \cup request[r].held
          /\ \/ gone \subseteq O /\ lost' = lost
             \/ lost' = lost \cup gone
  <2>1. \/ Releasing(r, gone) /\ UNCHANGED lost
        \/ Releasing(r, gone \cup request[r].held) /\ UNCHANGED lost
        \/ Releasing(r, request[r].held) /\ lost' = lost \cup gone
    <3> HIDE DEF new
    <3> QED
      BY DEF SaveCommits
  <2> HIDE DEF gone, new
  <2> QED
    BY <1>3, <1>4, <2>1
<1> HIDE DEF want, new, gone
<1>8. /\ request' \in [Requests -> RequestStates]
      /\ request'[r].held = O
      /\ request'[r].step \in {"idle", "release"}
      /\ request'[r].step = "idle" => O = {}
      /\ \A q \in Requests \ {r} : request'[q] = request[q]
  BY <1>7, ReleasingFacts DEF Inv, TypeOK
<1>9. /\ slot' \in [Locations -> [Slots -> Objects \cup {None}]]
      /\ \A s \in Slots : slot'[l][s] = new[s]
      /\ \A k \in Locations \ {l}, s \in Slots : slot'[k][s] = slot[k][s]
  BY <1>1, <1>5 DEF Inv, TypeOK
<1>10. TypeOK'
  <2>1. lost' \subseteq Objects
    BY <1>4, <1>7 DEF Inv, TypeOK
  <2> QED
    BY <1>1, <1>2, <1>8, <1>9, <2>1 DEF Inv, TypeOK, store
<1>11. \A q \in Requests : HoldingFits(q)' /\ PhotoIsOwn(q)'
  <2>1. \A c \in Checkins : checkin[c] # NoCheckin => checkin'[c] # NoCheckin
    BY <1>1
  <2>2. \A o \in Objects : stage'[o] = stage[o] /\ kind'[o] = kind[o]
    BY <1>1 DEF store
  <2>3. ASSUME NEW o \in request'[r].held, NEW q \in Requests \ {r}, request[q].step = "insert"
        PROVE  o \notin request[q].held
    <3>1. CASE o \in request[r].held
      BY <3>1, <2>3 DEF Inv, PhotoIsOwn
    <3>2. CASE o \in gone
      <4>1. PICK s \in Slots : o = slot[l][s] /\ slot[l][s] # None
        BY <3>2, <1>4
      <4>2. stage[o] = "available" /\ kind[o] \in Slots
        BY <4>1 DEF Inv, ReferencesHold, IsImage
      <4> QED
        BY <2>3, <4>2 DEF Inv, PhotoIsOwn, Slots
    <3> QED
      BY <1>7, <1>8, <3>1, <3>2
  <2> QED
    BY <1>8, <2>1, <2>2, <2>3, OverFits, RequestsKept
<1>12. (\A c \in Checkins : CheckinIsWhole(c)') /\ ReferencesHold'
  <2>1. ASSUME NEW k \in Locations, NEW s \in Slots
        PROVE  \/ slot'[k][s] = None
               \/ slot'[k][s] = slot[k][s] /\ (location[k] # "absent" => location'[k] # "absent")
               \/ location'[k] # "absent" /\ stage[slot'[k][s]] = "available" /\ kind[slot'[k][s]] = s
    <3>1. CASE k # l
      BY <3>1, <1>2, <1>9
    <3>2. CASE k = l
      BY <3>2, <1>1, <1>2, <1>5, <1>9 DEF IsImage
    <3> QED
      BY <3>1, <3>2
  <2>2. ASSUME NEW c \in Checkins, checkin'[c] # NoCheckin
        PROVE  /\ checkin'[c].location \in Locations /\ location'[checkin'[c].location] # "absent"
               /\ checkin'[c].photo = checkin[c].photo
    BY <2>2, <1>1, <1>2 DEF Inv, CheckinIsWhole, ReferencesHold
  <2>3. checkin' \in [Checkins -> [location : Locations \cup {None}, photo : Objects \cup {None}]]
    BY <1>10 DEF TypeOK
  <2> QED
    BY <1>1, <2>1, <2>2, <2>3, TablesKept
<1>13. NothingForgotten'
  <2>1. \A s \in Slots : slot[l][s] # None =>
            slot[l][s] \in O \/ slot[l][s] \in lost' \/ \E t \in Slots : slot'[l][t] = slot[l][s]
    BY <1>5, <1>7, <1>9
  <2>2. \A o \in request[r].held : \E t \in Slots : slot'[l][t] = o
    BY <1>5, <1>6, <1>9
  <2> QED
    BY <1>1, <1>7, <1>9, <2>1, <2>2, ImagesReleased
<1> QED
  BY <1>10, <1>11, <1>12, <1>13 DEF Inv

LEMMA DeleteLocationKeeps ==
    ASSUME Inv, NEW r \in Requests, NEW l \in Locations, DeleteLocation(r, l)
    PROVE  Inv'
<1> DEFINE images == {slot[l][s] : s \in Slots} \ {None}
<1>1. /\ request[r] = Idle /\ location' = [location EXCEPT ![l] = "absent"]
      /\ slot' = [slot EXCEPT ![l] = NoImages] /\ UNCHANGED <<checkin, store>>
      /\ \A c \in Checkins : checkin[c].location # l
  BY DEF DeleteLocation, Deletable
<1>2. images \in SUBSET Objects
  BY DEF Inv, TypeOK
<1>3. request[r].held = {}
  BY <1>1, IdleFacts
<1>4. PICK O \in SUBSET Objects :
          /\ Releasing(r, O)
          /\ O \subseteq images
          /\ \/ O = images /\ lost' = lost
             \/ lost' = lost \cup images
  <2>1. CASE Releasing(r, images) /\ UNCHANGED lost
    BY <1>2, <2>1
  <2>2. CASE lost' = lost \cup images /\ UNCHANGED request
    <3>1. Releasing(r, {})
      BY <1>1, <2>2 DEF Releasing, Inv, TypeOK
    <3> QED
      BY <2>2, <3>1
  <2> QED
    BY <2>1, <2>2 DEF DeleteLocation
<1>5. /\ request' \in [Requests -> RequestStates]
      /\ request'[r].held = O
      /\ request'[r].step \in {"idle", "release"}
      /\ request'[r].step = "idle" => O = {}
      /\ \A q \in Requests \ {r} : request'[q] = request[q]
  BY <1>4, ReleasingFacts DEF Inv, TypeOK
<1>6. /\ location' \in [Locations -> {"absent", "enabled", "disabled"}]
      /\ \A k \in Locations \ {l} : location'[k] = location[k]
      /\ slot' \in [Locations -> [Slots -> Objects \cup {None}]]
      /\ \A s \in Slots : slot'[l][s] = None
      /\ \A k \in Locations \ {l}, s \in Slots : slot'[k][s] = slot[k][s]
  BY <1>1 DEF Inv, TypeOK, NoImages
<1>7. TypeOK'
  <2>1. lost' \subseteq Objects
    BY <1>2, <1>4 DEF Inv, TypeOK
  <2> QED
    BY <1>1, <1>5, <1>6, <2>1 DEF Inv, TypeOK, store
<1>8. \A q \in Requests : HoldingFits(q)' /\ PhotoIsOwn(q)'
  <2>1. \A c \in Checkins : checkin[c] # NoCheckin => checkin'[c] # NoCheckin
    BY <1>1
  <2>2. \A o \in Objects : stage'[o] = stage[o] /\ kind'[o] = kind[o]
    BY <1>1 DEF store
  <2>3. ASSUME NEW o \in request'[r].held, NEW q \in Requests \ {r}, request[q].step = "insert"
        PROVE  o \notin request[q].held
    <3>1. PICK s \in Slots : o = slot[l][s] /\ slot[l][s] # None
      BY <1>4, <1>5
    <3>2. stage[o] = "available" /\ kind[o] \in Slots
      BY <3>1 DEF Inv, ReferencesHold, IsImage
    <3> QED
      BY <2>3, <3>2 DEF Inv, PhotoIsOwn, Slots
  <2> QED
    BY <1>5, <2>1, <2>2, <2>3, OverFits, RequestsKept
<1>9. (\A c \in Checkins : CheckinIsWhole(c)') /\ ReferencesHold'
  <2>1. ASSUME NEW k \in Locations, NEW s \in Slots
        PROVE  \/ slot'[k][s] = None
               \/ slot'[k][s] = slot[k][s] /\ (location[k] # "absent" => location'[k] # "absent")
    BY <1>6
  <2>2. ASSUME NEW c \in Checkins, checkin'[c] # NoCheckin
        PROVE  /\ checkin'[c].location \in Locations /\ location'[checkin'[c].location] # "absent"
               /\ checkin'[c].photo = checkin[c].photo
    BY <2>2, <1>1, <1>6 DEF Inv, CheckinIsWhole, ReferencesHold
  <2>3. checkin' \in [Checkins -> [location : Locations \cup {None}, photo : Objects \cup {None}]]
    BY <1>7 DEF TypeOK
  <2> QED
    BY <1>1, <2>1, <2>2, <2>3, TablesKept
<1>10. NothingForgotten'
  <2>1. \A s \in Slots : slot[l][s] # None => slot[l][s] \in O \/ slot[l][s] \in lost'
    BY <1>4
  <2> HIDE DEF images
  <2> QED
    BY <1>1, <1>3, <1>4, <1>6, <2>1, ImagesReleased
<1> QED
  BY <1>7, <1>8, <1>9, <1>10 DEF Inv

---------------------------------------------------------------------------
(* The invariant, and what follows from it. *)

LEMMA InitEstablishes == Init => Inv
<1> SUFFICES ASSUME Init PROVE Inv
  OBVIOUS
<1>1. TypeOK
  BY IdleFacts DEF Init, TypeOK, NoImages, NoCheckin
<1>2. \A r \in Requests : HoldingFits(r) /\ PhotoIsOwn(r)
  BY IdleFacts DEF Init, HoldingFits, PhotoIsOwn, Slots
<1>3. \A c \in Checkins : CheckinIsWhole(c)
  BY DEF Init, CheckinIsWhole
<1>4. ReferencesHold
  BY DEF Init, ReferencesHold, NoImages
<1>5. NothingForgotten
  BY DEF Init, NothingForgotten
<1> QED
  BY <1>1, <1>2, <1>3, <1>4, <1>5 DEF Inv

LEMMA NextKeeps == Inv /\ [Next]_vars => Inv'
<1> SUFFICES ASSUME Inv, [Next]_vars PROVE Inv'
  OBVIOUS
<1>1. CASE UNCHANGED vars
  BY <1>1 DEF vars, rows, store, Inv, TypeOK, HoldingFits, PhotoIsOwn, CheckinIsWhole,
              ReferencesHold, NothingForgotten, IsImage, Owned
<1>2. ASSUME NEW o \in Objects, RunCleanup(o) \/ \E s \in Slots : BeginUpload(o, s) PROVE Inv'
  BY <1>2, RunCleanupKeeps, BeginUploadKeeps
<1>3. ASSUME NEW r \in Requests, Saving(r) PROVE Inv'
  <2>1. ASSUME NEW want \in [Slots -> Objects \cup {None}],
               \/ Save(r, "create", None, want)
               \/ \E l \in Locations, op \in {"update", "attach"} : Save(r, op, l, want)
        PROVE  Inv'
    BY <2>1, SaveKeeps
  <2>2. ASSUME NEW l \in Locations, SaveCommits(r, l) \/ DeleteLocation(r, l) PROVE Inv'
    BY <2>2, SaveCommitsKeeps, DeleteLocationKeeps
  <2> QED
    BY <1>3, <2>1, <2>2, FinalizeKeeps, FailuresKeep DEF Saving
<1>4. ASSUME NEW r \in Requests, Recording(r) PROVE Inv'
  BY <1>4, SubmitKeeps, MoveCheckinKeeps, WritePhotoKeeps, InsertCheckinKeeps, FailuresKeep,
     MoveEndsKeeps DEF Recording
<1>5. ASSUME NEW r \in Requests, Crash(r) \/ \E o \in Objects : Release(r, o) PROVE Inv'
  BY <1>5, FailuresKeep, ReleaseKeeps
<1> QED
  BY <1>1, <1>2, <1>3, <1>4, <1>5 DEF Next

LEMMA InvHolds == Spec => []Inv
BY InitEstablishes, NextKeeps, PTL DEF Spec

\* Every variable keeps its type, whatever requests interleave.
THEOREM TypeCorrect == Spec => []TypeOK
<1>1. Inv => TypeOK
  BY DEF Inv
<1> QED
  BY <1>1, InvHolds, PTL

\* Whatever the tables refer to is there, for any number of requests that save, submit, release, fail
\* or die: DeleteUnreferenced and the row that gains an object never miss each other.
THEOREM ReferencesCorrect == Spec => []ReferencesHold
<1>1. Inv => ReferencesHold
  BY DEF Inv
<1> QED
  BY <1>1, InvHolds, PTL

\* Without a fault in its release, a published object has an owner or a request that answers for it.
THEOREM NothingIsForgotten == Spec => []NothingForgotten
<1>1. Inv => NothingForgotten
  BY DEF Inv
<1> QED
  BY <1>1, InvHolds, PTL

=============================================================================
