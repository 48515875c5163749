# WoodGate in TLA+

Specifications of WoodGate, a check-in service with iPad stations: a Go server over PostgreSQL
(`src/internal`, `src/cmd/woodgate`), an administration web page (`src/web`) and the iPad companion app
(`src/app/WoodGate`). The modules are translated from the code. TLC checks them on small instances,
TLAPS proves every invariant and action property that the runs check for every size, and `PROJECT.json` maps every definition
to the lines it stands for.

| module | what it is |
|---|---|
| `StationControl` | stations, their sessions, the hubs of the server processes, the handlers of control connections, and the administrative service |
| `SessionAuthority` | what the session table promises, with no sockets and no processes; `StationControl` implements it |
| `StationApp` | the companion app: pairing, bootstrap, refresh, control loop, submission |
| `Checkin` | locations, check-ins and the stored objects they own |
| `DirectorySync` | the Entra sync: a tenant that changes while it is read, the job, the lock, the transaction |
| `AdminApi` | the operations of the web client, the permission each requires, the query and mutation hooks |
| `AdminPages` | the pages of the web interface, its route tree, its navigation (tables, no state) |
| `AdminAccess` | moving about the web interface while permissions are taken away |
| `AdminSession` | sessions as one tab sees them: sign-in, sign-out, expiry, late answers |
| `AdminCache` | one cached answer while somebody saves something that changes it |
| `TableSearch` | a list that is searched, filtered and paged through its address |
| `PageForm` | a page with a form: edits, saves, uploads, and the question before leaving |
| `MCStationControl`, `MCStationApp`, `MCCheckin`, `MCAdminWeb` | instances for TLC |
| `StationControlProofs`, `StationAppProofs`, `CheckinProofs`, `DirectorySyncProofs` | theorems about the modules they are named for |
| `AdminAccessProofs`, `AdminSessionProofs` | theorems about moving about the web interface, with lemmas on its pages and navigation, and about its sessions |
| `AdminInputProofs` | theorems about `TableSearch` and `PageForm` |
| `AdminWebProofs` | theorems about `AdminCache`, with lemmas on the hooks of `AdminApi`, and about the five modules of `MCAdminWeb` |

## The system

### Station control plane (`internal/station`)

State: the tables `stations` (enabled, location, hash of the Station key), `station_sessions` (one row
per station: the connection that holds the session and when it expires) and `station_rejections`; in
each process a `Hub` with the sockets of that process; for each socket a reader and a writer goroutine
and a channel of four messages.

Operations: a client connects (authenticate, claim the session, register with the hub, say hello),
the writer renews the session every 5 seconds, the handler leaves (unregister, release). An
administrator creates, updates, rotates or deletes a station, or saves a location, and the service
then tells the hub of its own process. Processes shut down, crash and start.

Interactions: the handler and the service meet in the database and in `Hub.mu`, never in one step. A
notice reaches only the hub of the process that served the request; on other replicas a connection
learns of its revocation at its next renewal.

Hard: claim and register are separate, and so are the commit of a change and the hub call; a
connection displaced by its successor still has to unregister and release; the hub closes while
handlers arrive; sessions outlive their process.

Correct when a session is always held under the present credential, a connection that lost its
session, be it to another, to a revocation or to time, never gets it back and eventually leaves, no late clean-up hurts a successor, and no open
socket is out of its hub's reach.

### Companion app (`app/WoodGate`)

State: the saved URL, ids and key (user defaults and keychain), the session shown, `isBusy`, a refresh
task, a control task with its socket and generation, the form.

Operations: bootstrap at launch, `beginPairing`, `forgetPairing`, `refreshSession` (timer, scene,
control notice, after an error), `submitCheckin`, the control loop, `handleSceneActive`. All of it runs on the
main actor and interleaves at every `await`.

Hard: what was read before an `await` is used after it; `isBusy` is the only guard and not everybody asks;
clean-up of a stopped loop runs after its successor started; three kinds of storage fail
independently.

Correct when settings, session and control loop agree after every interleaving, no stopped loop keeps a socket
or passes for its successor, and the station goes on refreshing and reconnecting.

### Check-ins, locations, attachments (`internal/checkin`)

State: `locations` (enabled, background and logo), `checkins` (location, photo), and the objects
of the store (bloby, an external library over `storage_objects`).

Operations: begin an upload, create, update and delete a location, attach a background or a logo,
submit a check-in with a photo, move a check-in. Each is a sequence of statements: objects are
published first, then a row refers to them, then what is no longer referred to is released.

Hard: requests interleave between these steps and share objects; a transaction fails, its answer is
lost, or the request dies, after the object was published; a release comes late.

Correct when nothing that a row refers to is ever taken away, and nothing published stays without an owner.

### Directory (`internal/directory`, `internal/backgroundjobs`)

State: users, groups, memberships; the sync job. `entra.Service.Sync` reads the tenant page by page
while it changes, and applies the snapshot in one transaction: upsert groups, delete missing ones
(with their rows in `location_directory_groups`), tombstone all provider users, upsert those of the
snapshot, replace memberships. An advisory lock is held from before the first request to after the commit.
Local accounts are administered next to it.

Hard: a snapshot is not a moment of the tenant; a job runs again after a crash, or beside a process that hangs;
deleting a group opens the locations restricted to it.

Correct when an older snapshot never overwrites a newer one, people keep their row, locations keep the groups
they were given, and the directory converges to a quiet tenant.

### Access (`internal/rbac`, `internal/account`, `directory/roles.go`, `authn.go`)

State: roles, permissions, assignments to users and groups, sign-in sessions. Every operation of the API is registered
with the permissions it requires.

Hard: account and grants are read in two statements, between which either may change; an account is tombstoned
while it is signed in; what the web interface believes of an account lags behind.

Correct when nobody is shown what is then refused, and nobody acts with a grant that is gone. The rules are in
`AdminApi`, the effect of a lowered permission in `AdminAccess`.

### Administration web interface (`web/src`)

State, in a browser tab: the query cache (answers by key, fresh for thirty seconds), the router (the latest
address, what is rendered, guards under way), the transport (its generation, a redirection to the login page under way),
for each list the search box with its debounced write, and for each form what was typed, from which record, and the saves under way.

Operations: enter an address through its guards, follow a link, sign in and out, save a form, type, filter,
page. Requests are answered, refused with 401 or lost, in any order; the server ends a session or lowers a permission
at any moment.

Hard: everything acts on something that may be stale: guards on a cached account, links on what was rendered, an answer
on the session it was asked under, a control on the search the page was rendered with.

Correct when links lead where they say, an old session's answer never throws out the next one, what was
saved is shown, no control undoes another, and nothing typed is lost unasked.

### The rest

The HTTP server and middleware, configuration, logging and validation keep no state of
record; the command line wires the process (its shutdown order is in `StationControl`); the review mock is a fixed
stand-in. See "Not modelled".

## StationControl

One step is one database transaction, one critical section of `Hub.mu` or one socket operation.
`pc[c]` is where the handler of connection `c` is:

    idle -> authenticated -> claimed -> registered -> serving -> leaving -> idle
            Authenticate     Claim      Register      SendHello  Unregister Release

`TakeSession`, `Renewable`, `EndSession` and `ClearClientStates` are the SQL statements, `CredentialHolds`
is `lockStationCredential`. `hub`, `closed` and `Registered` are `Hub`; `doomed` holds the
connections that some goroutine has decided to close and not closed yet, because `ws.Close` runs
outside the mutex. `request` is an administrative call between its commit and its hub call.
`remaining` counts 5-second intervals until a session expires (15 s in the code).

Abstractions: a key stands for its hash; of a refused protocol version only the rejection row is kept; hub
messages all ask for the same refresh, so a queue is a length; ids are used again once nothing refers
to them, which makes the state space finite and adds no confusion, because the model guards reuse by that.

## StationApp

One step is the code between two awaits. `boot`, `pairing[t]`, `refresh`, `submit` and `at[l]` say where
each task is and what it captured before its await. A pairing stands for a server together with a key
it accepts; `url` and `secret` keep whose each half is, so that a mixture can be seen. `current` holds the loops whose
generation is `controlGeneration`. `StorageFails` says whether SwiftData may throw.

Abstractions: a stored URL is one `serverURL` accepts, and the ids are stored with it; the
keychain may be unreadable at launch but does not fail in between; the process does not end inside `persist`;
between a tap and the start of its task no other gesture of the user arrives in the same frame, but
other tasks do run; what a server answers is left open.

## Checkin

`location`, `slot` and `checkin` are the tables, `stage` and `kind` the object store, `request[r]`
what a request does next:

    create, update, attach:  background -> logo -> commit -> release
    submit:                  photo -> insert -> release
    move:                    move

`held` is what the request has published so far or, in `release`, is going to release. Every step may fail;
`SaveFails` and `SubmitFails` are the clean-up paths, `Crash` the end of the process, and the
disjuncts of `SaveCommits`, `DeleteLocation` and `InsertCheckin` are the ways the answer to a commit
or the read-back after it can fail. `lost` is a history variable: the objects whose release a fault
cut short. The foreign keys are `Owned`, `Deletable` and `Present`. `RunCleanup` is the clean-up of the store, which the
server sets up with the prefix of the photos as a referenced one: it takes uploads that were never finalized and photos that no
check-in refers to, at any moment, also those a submission has written and not recorded yet, whose insert then fails on the foreign key.

Abstractions: bloby is external and modelled from its use (`DeleteUnreferenced` and `Finalize` are atomic); a
station's reference to its location would only refuse more deletions; eligibility, notes and names are left out; a request that names
an object of the wrong gallery fails like any other and is left out.

## DirectorySync

`account`, `group` and `member` are the tenant, which changes between any two requests; `users`, `groups`,
`memberships` and `location` the tables; `job` the River job, `lock` the advisory lock; `pass[p]` what a process has
read and how far it is:

    idle -> try -> users ->    members    ->      done            -> idle
       Work    Try    FetchUser*  FetchGroups  FetchMembers*, Apply...   Finish

One step is one request to Graph or one transaction. `Refused` is a pass that ends in an error because of what it read
(a person gone since the listing, an address listed twice), `Fail` one that ends for any other reason, `Crash` the end of
the process, `Rescue` River taking a job from a process that is dead or believed to be. `Restrict` is an administrator
choosing the groups of a location, `DeleteUser` the tombstone of a provider user. `at`, `applied` and `chosen` are
histories: how old what is read is, how old what was applied is, which groups were chosen and have not left.

Abstractions: Graph, River and the lock are external and modelled from their use; the lock is taken to be held for
the whole function unless the process dies. The attempts of a job are not counted. Local users, passwords, roles and
names are left out: a sync does not touch them.

## AdminApi, AdminPages, AdminAccess

`AdminApi` states which permissions the server requires for each operation (from the registrations in
`internal/`), and what each hook of `web/src` asks, sets and invalidates. TLC checks that every operation of the
generated client has a rule. `AdminPages` states, file by file, which parts a page has, what each
part asks and leads to and when it is there, what each route guards, and the tree of routes as its branches: the tuples of
routes from the shell of the application down to one without children. An address is a leaf; entering it runs the guards of its branch from
the outermost in, and renders the parts of all of them.

`AdminAccess` moves through them. `place` is the address, how far down its branch the guards have passed, what link led there and
which versions of the account were read on the way; `granted` is what the server would allow, `account` what is cached.
`Guard` is one `beforeLoad`, which passes or redirects; `Reduce` takes a permission away.
`RefusalsAreStale` compares pages with the rules of the server, `LinksLand` links with guards. Both are about thirty pages
and their agreement with rules written elsewhere, in another language.

Left out: the editing of roles as such, the addition of roles and of those of groups (a library and a view), and pages
that fail to load. Exempt: the chip of a user list narrowed to a group asks for the group without looking; three
kinds of link are there whatever lies behind (`Unchecked`, and the crumb of the directory in `StepUp`).

## AdminSession

`owner`, `issued`, `alive` are the server's sessions, `cookie` the one the tab presents, `cache` the cached session
and account, `requests` what is in flight: with the session it presents, whether the server accepted it, and whether
the transport's generation is still the one it was sent in. `Clear` is the clearing of the query cache at an expiry or a
sign-out, which also begins a generation; `expireSession` is the reaction to a 401, `requireUser` and `redirectAuthenticatedFromLogin` the guards,
`useLogin`, `LandSession` and
`LandAccount` the three stages of a sign-in that succeeded.

`polling` says whether the page that is shown polls: those of the stations do, that of the directory where its synchronisation is
enabled, and no other. `Turn` changes it under a page that stays: the tab goes to the background, where nothing polls, or comes back, or the
synchronisation is switched. `Read` is any request of a page for data; only
`Poll`, a read of a page that polls in the foreground, is sure to come. So a session that is over is sure to be noticed only there, and
`DeadSessionEndsAtLogin` says no more: it exempts pages that do not poll, a tab in the background, and somebody who navigates for ever. A guard
that is refused the account it awaits, without an expiry or during one, puts the error page (`RouteErrorPage`) in the place of what was shown.

Exempt, and true of the code: a guard that finds the session over does not clear the account, which stays
cached for up to thirty seconds (`leftover`); a sign-in that joins the fetch that a late sign-out made the login page
start is told that nobody is signed in, and returns to the login page (`landing = "joined"`). A sign-in that a 401 for an
older account request kept from landing leaves a session that is alive under the login page: whoever signs in then, on top of it,
may find the account of the one before cached, because `useLogin` clears nothing (`leftover`, too).

## AdminCache

One answer and one save, for every pair of hooks in which the server's answer depends on what the save changes
(`Changes`, from the queries of the stores). `data` says whether the cached answer is from before or after the save.
Exempt: what other features show of the record, and a new role in the user list, are left to grow old (`LeftToAge`), and an answer that
was on its way when the save succeeded and was not dropped may bring back what was before (`late`).

## TableSearch

`latest` is the search of the router, `rendered` that of the page, `draft` the box, `timer` the debounced write; `pages`,
`answered` and `failed` are what has come of the rows, `effect` the clamping of the page. A filter is a set of options. Where several may be
chosen (`Multiple`), an option more or less is counted from the set that was rendered (`FacetedFilter`), as is a range of
dates; the filters of the check-ins write their own key then, and those of the users' columns all keys as they were rendered. A list
that fails gives its place to `QueryError` (`Fail`): the box is unmounted with the write that waits, and a retry brings both back, the box filled
from the address. The effect that clamps the page runs all the same, on a count of nothing: a list of check-ins, stations or locations that fails beyond its
first page asks for the first.

`NothingLost` names what the code does lose: a choice made before the page rendered the ones before may undo those, of the same filter where several
options may be chosen and of the other columns of the users (`undone`, a set of filters, left again by a choice that replaces what was chosen); what was typed
and not written when the list failed (`cancelled`); and the box keeps its text when a list is opened afresh between a write and its render (`crossed`). The
length of a page and the order of the rows are left out.

## PageForm

The twelve forms with an exit guard differ in what `Forms` says of them: whether there is a record behind, whether a new version of it mounts the form
anew (`keyed`: users and the account, by `updated_at`), whether images are uploaded first, where a save and Cancel lead. `values`, `defaults`,
`isTouched` and `isDefaultValue` are the state of the form library, `stored` and `basis` the record on the server and in
the cache, `pending` the saves under way, which outlive the page that sent them: when one is answered late it leads whoever is on another page
by then to its record, unless there are unsaved edits there, whose guard asks first. `unsaved` is what the person typed last and neither saved nor
gave up, and belongs to the property alone, as does `hasty`.

`EditsAreKept` says of every step that what is unsaved stays on the form, unless somebody types over it, saves it or confirms to discard
it. Exempt, and true of the code: what is typed while a save is under way (a success resets the form to what was
saved) or while a navigation loads; what is on a keyed form when its record changes; what is on any form when the session
ends, since `App.tsx` goes to the login page past all blockers.

External, modelled from their use: a form takes over new default values only while untouched; after a change or a
blur `isDefaultValue` compares values with defaults; blockers are asked when a navigation begins. Left out: the fields one
by one and their validation (a form that does not validate sends nothing), and a second navigation during one.

## MCAdminWeb

`AdminAccess`, `AdminSession`, `AdminCache`, `TableSearch` and `PageForm` share no variable. `MCAdminWeb` puts them side by side: `scene` says which one
moves, and the others rest, so that one run checks all of them. It claims nothing of their interaction. In `MCOwners` the first
session is of one user and all later ones of another, and `TwoUsers` says that both are users.

## What the runs check

| run | instance | shows |
|---|---|---|
| `station_control` | 1 station, 2 replicas, 2 connections, 2 keys, 1 request | `SessionHoldsCurrentKey`, `DisabledStationIsOffline`, `HubEntriesAreLive`, `NoOrphanedSocket`, `ClosedHubIsEmpty`, `SessionEndsByOwnerOrRevocation`, and that the tables implement `SessionAuthority` |
| `station_control_live` | 1 replica, 2 connections, 1 request | `EvictedConnectionsLeave`, `DeadSessionsFade`, `ShutdownDrains` |
| `app` | 2 servers, 3 loops, storage faults | `NoStraySocket`, `HandleIsLive` |
| `app_live` | 1 server, 2 loops, storage works | `PairedStationIsControlled`, `BusyEnds`, `KeepsRefreshing`, `StoppedLoopsEnd`, `Reconnects` |
| `checkin` | 2 locations, 2 objects, 1 check-in, 2 requests | `ReferencesHold`, `NothingForgotten` |
| `directory_sync` | 2 people, 1 group, 2 addresses, 2 processes, 2 changes, 1 fault | `KeptRestriction`, `NoStaleOverwrite`, `RetainedPeople`, `SyncConverges` |
| `admin_web` | see below | `RefusalsAreStale`, `LinksLand`, `GuardsSettle`; `ExpiredOnlyDead`, `NoForeignData`, `DeadSessionEndsAtLogin`, `SignInLands`; `SavedIsShown`; `NothingLost`, `TableSettles`; `EditsAreKept` |
| `station_binding`, `station_displaced`, `app_server`, `app_submit`, `app_trying` | small | refute five statements of the repository, see below |

Each property of a passing run is broken by a mutant of one definition (a guard
dropped, a clean-up forgotten, a foreign key missing), listed in `PROJECT.json`.

Bounds. A station's row, its session and its hub entries do not mention other stations, so one station shows
every conflict; two connections are a holder and its successor, two replicas the notice that stays
on one of them, two keys a rotation. `ControlBuffer` is 1 (4 in the code): a full
channel is one message away. `SessionTTL` is 1 or 2 (3 in the code). In the app two
servers let a mixture happen, two loops are the stopped one and its successor, and a third waits behind
them. In `Checkin` two locations share an object, and two requests race for it; the proofs cover the rest.
In `DirectorySync` two people and two addresses make a swap and a conflict, one change falls within a pass and one
between two passes, two processes and one fault make a rescued job whose first process goes on; every constant but the
addresses is arbitrary in the proofs.

`admin_web`: accounts are granted one resource, two when one is the directory or the roles, or three
when roles and users or groups may be edited, which gives every guard, part and link of `AdminPages` an
account that has just what it needs and one that lacks it; one permission is taken away. All pairs of hooks of `AdminCache`. Two texts,
two filters with two options each, of which one filter takes several, two pages and three inputs: one control between another's write and its
render, and a third after. In `PageForm` two contents are an edit and its undoing, and two saves are one that was
left behind and the form's own; of the forms of records that are not keyed the run takes that of a location, whose steps the others take but for the
uploads, and nobody else
changes a record during two saves (`MCForms`, `MCChanges`; the proof has neither bound). Two users sign in one
after the other in one tab: an answer of one session meets the next (`NoForeignData` is proved for any number of both). Bounded by name:
`MaxReductions`, `MaxSessions` (no save is sent under the last session), `MaxPages`, `MaxInputs`, `MaxSaves`.

Fairness. `StationControl`: a goroutine that can run does (`Handler`, `Presence`, `Close`), and time passes
(`Elapse`). Nothing is assumed of clients, administrators, crashes or the network. A `ws.Write` has no deadline of its own:
that the writer gets to its ticker rests on TCP failing a write nobody reads. `StationApp`: requests time out
after 30 seconds, sleeps and awaits end, a closed socket throws, the timer ticks. Nothing is assumed of
users, of the server, or of a socket that works. `Checkin` states no liveness: a release is tried once.
`DirectorySync`: the periodic job is inserted at every interval, an idle client takes a waiting job, a pass goes on
because each request has a deadline, and River's maintenance takes back an orphan. `MaxChanges` and `MaxFaults` make the
tenant quiet in the end, which is what `SyncConverges` assumes. `AdminAccess`: guards run. `AdminSession`: guards and
sign-ins go on, a page that polls in the foreground sends a request again and again (`refetchInterval`), and the session, the account and what
a page reads are answered or refused in the end, nothing else; both liveness properties exclude somebody who navigates for ever, because each page takes the requests
of the last away. `TableSearch`: timers fire, pages render, effects run, and a list is answered or fails, whichever it is (`Answer \/ Fail`).

## What is proved

For any number of stations, replicas, connections, keys, requests, loops, pairings, locations, objects,
check-ins, people, groups, processes, sessions, texts, filters, pages, contents of forms and saves. Assumed of the constants: `None` is in none of the sets, the
buffer, the TTL and the bounds are numbers of the kind their names say, `StorageFails` is Boolean, there are addresses for everyone, the two users of `TwoUsers` are among the users,
`NoText` is among the texts, the filters of several options among the filters, `Blank` among the contents, `NotSet` and `NoEdit` are not a text or
content, and profiles are permissions. `NoStaleOverwriteHolds` and the others hold for
every bound on changes, faults, sessions and inputs.

- `StationControlProofs`: `TypeCorrect`; `SessionKeyCorrect` and `DisabledOffline`, from a classification of all steps by what they do
  to a session row (`StoreSteps`): only a claim under the row lock creates one, and every change of the credential
  clears it in the same transaction; `SessionEnds`; `AuthorityImplemented`, step simulation, whose
  inductive invariant adds that an owner has claimed (`OwnersClaimed`).
  About the hubs: `HubEntriesLive`, `NoSocketOrphaned`, `ClosedHubsEmpty`, inductive together (`HubInv`): the second needs
  the first, because a handler that takes over an entry dooms the one it displaces.
- `StationAppProofs`: `TypeCorrect`, `SocketsReachable`, `HandleLive` from `ControlInv`, which ties the open socket, the
  generation and the handle to one loop; `StationControlled` (storage that works) from `PairingInv`, which follows the settings through every
  task in flight.
- `CheckinProofs`: `TypeCorrect`, `ReferencesCorrect`, `NothingIsForgotten` from `Inv`. What it adds:
  what a saving request holds is what it wants (so a commit gives every held image an owner), and the photo
  of a submission is held by no other request while it is there (so no other request can release it before the insert; if the clean-up
  took it, the insert is refused).

- `DirectorySyncProofs`: `TypeCorrect`; `NoStaleOverwriteHolds` from `Serial` (only the holder of the lock is past `try`, and
  what it reads is at least as old as what was applied: without the lock a slow pass could overwrite a newer one);
  `RetainedPeopleHolds`; `OneRowPerPerson` from `OneRow`; `KeptRestrictionHolds` from `Listed`: a chosen group that has not left the
  tenant is in every list that some pass still holds, so no pass deletes its row.
- `AdminSessionProofs`: `ExpiredOnlyDeadHolds`, for any users and any number of sessions. The invariant `OfCookie`: a request whose
  generation is still current presents the tab's cookie, unless it is a sign-in, whose refusal expires nothing. Every change of the cookie
  renews the generation, so a refusal that counts is a refusal of the present session, and only a session that is over is refused.
  `NoForeignDataHolds` from `AccountKept`: until an account is left over, the cached one and the accepted request for one are the session's own
  (`OwnAccount`), and nobody signs in with either about (`CleanSignIn`), because outside the application an account is cached or coming only
  while a guard or a landing sign-in awaits it (`AccountIsAwaited`); a fresh answer is not being fetched (`FreshIsSettled`).
  `SessionTyped` needs two facts more: a sign-in is on its way only while the server may create a session, and only a
  request of an existing session is accepted (`Presented`), so whose account arrives is a user's.
- `AdminAccessProofs`, for every set of permissions an account may be granted (`Permissions`, all 3^7 of them; a run goes through
  those of `MCProfiles`) and any number taken away. First the tables: `OpenPages` joins, section by section, what the parts of each address
  ask with the rules of the server and where they lead with the guards behind, each for an account that the guards of the
  address let pass; `HomeOpens` says that the page `firstAccessiblePath` names opens for whoever is sent there. Then the steps:
  `Passed` (as long as every guard on the way read the same permissions, those passed so far hold of them) and `Promised` (and a link
  has led where it said, to an address they open). Together with the types they are inductive, and give `RefusalsAlwaysStale` and `LinksAlwaysLand`.
  `RefusalsAreStale` alone is not inductive: it speaks of what is shown, and what is shown is settled by guards that passed before.
- `AdminInputProofs`: `NothingLostHolds`. The invariants `Asked` (what was typed last is in the latest address or in the timer, unless a failure cancelled it;
  the scope and the filters not in `undone` chosen last are in the latest address) and `Boxed` (the box shows it, or a render that will refill
  it is due). That a choice is written as it was asked, or from a rendered set that the filter leaves in `undone` if it is behind, is the lemma
`ChoiceIsAsked`; that a failure keeps `Boxed` because it empties box and timer at once, `FailureKeeps`. `EditsAreKeptHolds`, from `EditsStay`: what is
  unsaved is what the form holds, and the guard knows of it; `OneOwn` and
  `OfForm`: one save at most is the form's own, and it saves what is unsaved unless some was typed since. So a late answer finds
  a form that is not its own and does not touch it, and the form's own success resets it to what is there. `TableTyped` and
  `FormTyped` are the types of both.
- `AdminWebProofs`: `SavedIsShownHolds`. First, for each of the twenty mutation hooks, that every answer its operation changes is set by the
  hook, or lies below a prefix it invalidates and not below the record that is gone, or is one of those left to grow old (`CoversAll`). Then `Marked`: once the
  save has succeeded, what is cached from before is invalid and nothing from before is on its way, unless it was kept (`late`) or is
  left to grow old. `SavedIsShown` alone is not inductive: it says nothing while a fetch is on its way, whose answer may be from before.
  `WebTyped`: a step of the run side by side is a step of one module and a stutter of the four others, so the conjunction of their
  invariants is inductive; a module that rests starts in a state its invariant allows.

Only model-checked: the twelve liveness properties, because fairness and `ENABLED` are beyond the prover, and the refuted statements.
What the tables of `AdminApi` and `AdminPages` say of the source is not proved; it is what their definitions translate.

## Where the code and its documents disagree

1. `service.go:167`, "LocationChanged notifies every connected station bound to locationID": a station moved, read back and announced
   while its connection has claimed the session and not registered yet is served with the old binding from then on (`station_binding`, whose
   specification `FaultlessSpec` lets no update of a station that is there go unannounced: no crash, lost answer or failed read-back is involved).
2. `hub.go:34`, "PostgreSQL owns Station session authority": two handlers that claim in one order and register in the
   other leave the hub with the connection that lost the session (`station_displaced`). It heals at the next renewal and reconnect.
3. `PRIVACY.md:5`, "communicates only with the backend server configured": a bootstrap in flight during a pairing saves
   the old URL with the new key (`app_server`).
4. `ModelData.swift:172` asserts a client: a refresh in flight during a disconnect brings the session
   back without a key, and the form unwraps nil (`app_submit`).
5. `ContentView.swift:101`, "will keep trying in the background": after a bootstrap that could not read its
   store nothing tries again (`app_trying`).

## What the models say of the code besides

Nothing in the repository contradicts these, so they are not findings; the properties name them as exceptions, or
the model leaves them out.

- Web: what `leftover`, `joined`, `late`, `crossed`, `undone`, `cancelled`, `hasty` and `keyed` stand for, above. A save answered after somebody else
  signed in writes the account and session of the one before into the cache. Rotating or revoking an API key and triggering a
  sync set an answer without dropping a fetch on its way.
- Web, not in a model: changing the length of a page and clamping the page at once lose one of the two; the page is clamped by
  the previous rows' count while new ones load; no edit checks a version, the last one wins; a station deleted under an open page ends in its 404.
- Server: a sync brings back a provider user that an administrator deleted; a key rotated in a call whose answer is lost is
  known to nobody; lists and exports are paged by offset and may skip or repeat rows that come and go.

## Not modelled

- Editing of roles, assignments, passwords and API keys (`internal/rbac`, `internal/account`, `directory` for local users): one
  transaction each over one row and its links, guarded by constraints. A request acts with the account and the grants read at its start, in two
  statements; `AdminAccess` treats them as one value. How roles and groups add up is left to a library.
- OIDC sign-in: an external library with a state cookie. Its callback creates the same session as a password.
- `internal/storage`, `internal/postgres` helpers and bloby: modelled where their users rest on them, external.
- HTTP server, middleware, configuration, validation, logging: each request by itself, no state between requests.
- Command line: wiring; its order of shutdown is in `StationControl`. The review mock answers from a table.
- Web: fields, their validation, tables and pictures, which render what is in a record; generated clients.
- The composition of `Checkin` with the notices of `StationControl`: a location's commit is followed by a call that may be lost; the notice itself
  is modelled (`request` in `StationControl`), the loss of it after a failed read-back is listed as a hazard without a property.

What would be worth adding: a module of accounts, roles and requests with the specification that a request acts with the grants
of some moment during it.
