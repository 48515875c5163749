---------------------------- MODULE DirectorySync ----------------------------
(***************************************************************************)
(* The Entra directory sync (internal/directory/entra, provider_store.go), *)
(* the job that runs it (internal/backgroundjobs), and the groups a        *)
(* location admits, which refer to the rows it writes.  A pass             *)
(* reads users, groups and memberships from Graph in many requests while   *)
(* the tenant changes, then applies what it read in one transaction.       *)
(*                                                                         *)
(* Outside the repository, and modelled from their use: Graph, whose pages *)
(* each show the tenant as it is when the page is read; River, which keeps *)
(* one job of a kind, retries it, and takes it from a process it believes  *)
(* dead; the advisory lock, which is free again when its holder dies.      *)
(*                                                                         *)
(* One tenant, one location.  Of a user's attributes only the address and  *)
(* the enabled flag are kept.  Local users have indexes and rows of their  *)
(* own that a sync never touches; they are left out.                       *)
(***************************************************************************)
EXTENDS Naturals

CONSTANTS
    Objects,     \* object ids of the tenant's users
    Groups,      \* object ids of its groups
    Emails,
    UserIds,     \* row ids
    GroupIds,    \* row ids: one is used again only when no row refers to it
    Processes,   \* server processes with a River client
    None,
    MaxChanges,  \* bound: changes to people and groups
    MaxFaults    \* bound: failed passes, crashes and jobs taken from a live process

ASSUME NoneAssumption == None \notin Objects \cup Groups \cup Processes
ASSUME BoundsAssumption == MaxChanges \in Nat /\ MaxFaults \in Nat

VARIABLES
    account,      \* Graph: each user object's account
    group,        \* Graph: the groups
    member,       \* Graph: who is in which group
    users,        \* the users table
    groups,       \* the directory_groups table
    memberships,  \* the directory_group_memberships table
    location,     \* the location_directory_groups table: the ids of the groups admitted
    job,          \* the River job of kind entra_sync
    lock,         \* the process that holds SyncAdvisoryLockID
    pass,         \* what each process is doing and has read
    changes,      \* changes so far: the age of what is read
    faults,
    applied,      \* the age of the snapshot applied last (history)
    chosen        \* groups an administrator chose for the location that never left (history)

tenant == <<account, group, member>>
directory == <<users, groups, memberships>>
work == <<job, lock, pass>>
vars == <<tenant, directory, location, work, changes, faults, applied, chosen>>

----------------------------------------------------------------------------
Accounts == [email : Emails, enabled : BOOLEAN]
UserRows == [id : UserIds, external : Objects, email : Emails, active : BOOLEAN]
GroupRows == [id : GroupIds, external : Groups]

NothingRead == [o \in Objects |-> None]
Idle == [phase |-> "idle", at |-> 0, users |-> NothingRead, groups |-> {}, members |-> {}, unread |-> {}]
NoJob == [state |-> "none", by |-> None]
Waiting == [state |-> "available", by |-> None]

Passes ==
    [phase : {"idle", "try", "users", "members", "done"}, at : Nat,
     users : [Objects -> Accounts \cup {None}], groups : SUBSET Groups,
     members : SUBSET (Objects \X Groups), unread : SUBSET Objects]

TypeOK ==
    /\ account \in [Objects -> Accounts \cup {None}]
    /\ group \subseteq Groups
    /\ member \subseteq Objects \X group
    /\ users \subseteq UserRows
    /\ groups \subseteq GroupRows
    /\ memberships \subseteq UserIds \X GroupIds
    /\ location \subseteq {g.id : g \in groups}
    /\ job \in {NoJob, Waiting} \cup [state : {"running"}, by : Processes]
    /\ lock \in Processes \cup {None}
    /\ pass \in [Processes -> Passes]
    /\ changes \in 0..MaxChanges
    /\ faults \in 0..MaxFaults
    /\ applied \in Nat
    /\ chosen \subseteq group

Enabled(accounts) == {o \in Objects : accounts[o] # None /\ accounts[o].enabled}

\* The unique index on the address of active provider users; Graph keeps its own addresses apart.
Distinct(accounts) ==
    \A o, p \in Enabled(accounts) : o # p => accounts[o].email # accounts[p].email

\* There are addresses enough for everyone.
ASSUME AddressesAssumption ==
    \E a \in [Objects -> [email : Emails, enabled : {TRUE}]] : Distinct(a)

Init ==
    /\ account = CHOOSE a \in [Objects -> [email : Emails, enabled : {TRUE}]] : Distinct(a)
    /\ group = Groups
    /\ member = Objects \X Groups
    /\ users = {} /\ groups = {} /\ memberships = {}
    /\ location = {}
    /\ job = NoJob
    /\ lock = None
    /\ pass = [p \in Processes |-> Idle]
    /\ changes = 0 /\ faults = 0 /\ applied = 0 /\ chosen = {}

----------------------------------------------------------------------------
(* The tenant. *)

Change == changes < MaxChanges /\ changes' = changes + 1

SaveAccount(o, a) ==
    /\ Change
    /\ a # account[o]
    /\ account' = [account EXCEPT ![o] = a]
    /\ Distinct(account')
    /\ UNCHANGED <<group, member, directory, location, work, faults, applied, chosen>>

RemoveAccount(o) ==
    /\ Change
    /\ account[o] # None
    /\ account' = [account EXCEPT ![o] = None]
    /\ member' = {m \in member : m[1] # o}
    /\ UNCHANGED <<group, directory, location, work, faults, applied, chosen>>

AddGroup(g) ==
    /\ Change
    /\ g \notin group
    /\ group' = group \cup {g}
    /\ UNCHANGED <<account, member, directory, location, work, faults, applied, chosen>>

RemoveGroup(g) ==
    /\ Change
    /\ g \in group
    /\ group' = group \ {g}
    /\ member' = {m \in member : m[2] # g}
    /\ chosen' = chosen \ {g}
    /\ UNCHANGED <<account, directory, location, work, faults, applied>>

Join(o, g) ==
    /\ Change
    /\ account[o] # None /\ g \in group /\ <<o, g>> \notin member
    /\ member' = member \cup {<<o, g>>}
    /\ UNCHANGED <<account, group, directory, location, work, faults, applied, chosen>>

Leave(o, g) ==
    /\ Change
    /\ <<o, g>> \in member
    /\ member' = member \ {<<o, g>>}
    /\ UNCHANGED <<account, group, directory, location, work, faults, applied, chosen>>

Tenant ==
    \/ \E o \in Objects : RemoveAccount(o) \/ \E a \in Accounts : SaveAccount(o, a)
    \/ \E g \in Groups : AddGroup(g) \/ RemoveGroup(g)
    \/ \E o \in Objects, g \in Groups : Join(o, g) \/ Leave(o, g)

----------------------------------------------------------------------------
(* The job. *)

\* The periodic insert, or Trigger: skipped while a job of the kind is in any unfinished state.
Enqueue ==
    /\ job.state = "none"
    /\ job' = Waiting
    /\ UNCHANGED <<tenant, directory, location, lock, pass, changes, faults, applied, chosen>>

Work(p) ==
    /\ job.state = "available"
    /\ pass[p].phase = "idle"
    /\ job' = [state |-> "running", by |-> p]
    /\ pass' = [pass EXCEPT ![p] = [Idle EXCEPT !.phase = "try"]]
    /\ UNCHANGED <<tenant, directory, location, lock, changes, faults, applied, chosen>>

\* A failed attempt leaves another one or, the last of its three, a discarded job. The attempts are
\* not counted, and available, scheduled and retryable are one state.
Errored == {Waiting, NoJob}

\* River records an outcome on a row that is still running, whoever runs it.
Record(outcomes) == IF job.state = "running" THEN job' \in outcomes ELSE UNCHANGED job

\* Without the lock: a second pass beside one that is under way.
TryUnlocked(p) ==
    /\ pass[p].phase = "try"
    /\ lock' = p
    /\ pass' = [pass EXCEPT ![p] = [Idle EXCEPT !.phase = "users", !.at = changes, !.unread = Objects]]
    /\ UNCHANGED <<tenant, directory, location, job, changes, faults, applied, chosen>>

\* run: the lock is tried once; without it the job is snoozed.
Try(p) ==
    /\ pass[p].phase = "try"
    /\ \/ /\ lock = None
          /\ lock' = p
          /\ pass' = [pass EXCEPT ![p] = [Idle EXCEPT !.phase = "users", !.at = changes, !.unread = Objects]]
          /\ UNCHANGED job
       \/ /\ lock # None
          /\ pass' = [pass EXCEPT ![p] = Idle]
          /\ Record({Waiting})
          /\ UNCHANGED lock
    /\ UNCHANGED <<tenant, directory, location, changes, faults, applied, chosen>>

----------------------------------------------------------------------------
(* Fetch: pages of users, then the groups, then each user's memberships. *)

FetchUser(p, o) ==
    /\ pass[p].phase = "users" /\ o \in pass[p].unread
    /\ pass' = [pass EXCEPT ![p] = [pass[p] EXCEPT !.users[o] = account[o], !.unread = @ \ {o}]]
    /\ UNCHANGED <<tenant, directory, location, job, lock, changes, faults, applied, chosen>>

\* Without the pages after the first.
FetchSomeGroups(p) ==
    /\ pass[p].phase = "users" /\ pass[p].unread = {}
    /\ \E page \in SUBSET group :
         pass' = [pass EXCEPT ![p] = [pass[p] EXCEPT !.phase = "members", !.groups = page,
                                               !.unread = {o \in Objects : pass[p].users[o] # None}]]
    /\ UNCHANGED <<tenant, directory, location, job, lock, changes, faults, applied, chosen>>

FetchGroups(p) ==
    /\ pass[p].phase = "users" /\ pass[p].unread = {}
    /\ pass' = [pass EXCEPT ![p] = [pass[p] EXCEPT !.phase = "members", !.groups = group,
                                             !.unread = {o \in Objects : pass[p].users[o] # None}]]
    /\ UNCHANGED <<tenant, directory, location, job, lock, changes, faults, applied, chosen>>

FetchMembers(p, o) ==
    /\ pass[p].phase = "members" /\ o \in pass[p].unread
    /\ account[o] # None
    /\ pass' = [pass EXCEPT ![p] = [pass[p] EXCEPT !.members = @ \cup {m \in member : m[1] = o}, !.unread = @ \ {o}]]
    /\ UNCHANGED <<tenant, directory, location, job, lock, changes, faults, applied, chosen>>

----------------------------------------------------------------------------
(* ApplyProviderSnapshot: one transaction. *)

\* New rows for the objects of S, under ids that no row has.
Numberings(S, free) == {f \in [S -> free] : \A x, y \in S : f[x] = f[y] => x = y}

IdsOf(rows) == {r.id : r \in rows}
NewGroups(s) == s.groups \ {r.external : r \in groups}
NewUsers(s) == {o \in Objects : s.users[o] # None} \ {r.external : r \in users}

reconcileGroupSnapshot(s, number) ==
    {r \in groups : r.external \in s.groups} \cup
    {[id |-> number[g], external |-> g] : g \in NewGroups(s)}

\* Without the tombstones.
reconcileListedUsers(s, number) ==
    {LET a == s.users[u.external]
     IN  IF a = None THEN u ELSE [u EXCEPT !.email = a.email, !.active = a.enabled] : u \in users} \cup
    {[id |-> number[o], external |-> o, email |-> s.users[o].email,
      active |-> s.users[o].enabled] : o \in NewUsers(s)}

\* With the address as the conflict target: a row goes to whoever has its address now.
reconcileUsersByEmail(s, number) ==
    {LET owners == {o \in Enabled(s.users) : s.users[o].email = u.email}
     IN  IF owners = {} THEN [u EXCEPT !.active = FALSE]
         ELSE [u EXCEPT !.external = CHOOSE o \in owners : TRUE, !.active = TRUE] : u \in users} \cup
    {[id |-> number[o], external |-> o, email |-> s.users[o].email,
      active |-> s.users[o].enabled] : o \in NewUsers(s)}

\* Everyone is tombstoned; then the snapshot's people get their row back, or their first one.
reconcileUserSnapshot(s, number) ==
    LET Tombstoned(u) == [u EXCEPT !.active = FALSE]
        Upserted(u) == LET a == s.users[u.external]
                       IN  IF a = None THEN Tombstoned(u)
                           ELSE [u EXCEPT !.email = a.email, !.active = a.enabled]
    IN  {Upserted(u) : u \in users} \cup
        {[id |-> number[o], external |-> o, email |-> s.users[o].email,
          active |-> s.users[o].enabled] : o \in NewUsers(s)}

\* A membership is kept for a person and a group that both have a row by now.
reconcileGroupMembershipSnapshot(s) ==
    {<<ug[1].id, ug[2].id>> : ug \in {x \in users' \X groups' :
        s.users[x[1].external] # None /\ <<x[1].external, x[2].external>> \in s.members}}

Fetched(p) == pass[p].phase = "members" /\ pass[p].unread = {}

\* The location's rows without, and with, ON DELETE CASCADE, when only the groups of rows are left.
Uncascaded(rows) == location
Cascaded(rows) == location \cap IdsOf(rows)

ApplyProviderSnapshot(p) ==
    /\ Fetched(p)
    /\ Distinct(pass[p].users)
    /\ \E number \in Numberings(NewGroups(pass[p]), GroupIds \ IdsOf(groups)) :
         groups' = reconcileGroupSnapshot(pass[p], number)
    /\ \E number \in Numberings(NewUsers(pass[p]), UserIds \ IdsOf(users)) :
         users' = reconcileUserSnapshot(pass[p], number)
    /\ memberships' = reconcileGroupMembershipSnapshot(pass[p])
    /\ location' = Cascaded(groups')
    /\ applied' = pass[p].at
    /\ pass' = [pass EXCEPT ![p] = [Idle EXCEPT !.phase = "done", !.at = pass[p].at]]
    /\ UNCHANGED <<tenant, job, lock, changes, faults, chosen>>

\* Try returns: the lock is released and the job completed.
Finish(p) ==
    /\ pass[p].phase = "done"
    /\ lock' = None
    /\ pass' = [pass EXCEPT ![p] = Idle]
    /\ Record({NoJob})
    /\ UNCHANGED <<tenant, directory, location, changes, faults, applied, chosen>>

----------------------------------------------------------------------------
(* Faults. *)

GiveUp(p) ==
    /\ lock' = None
    /\ pass' = [pass EXCEPT ![p] = Idle]
    /\ Record(Errored)

Fault == faults < MaxFaults /\ faults' = faults + 1

\* A user deleted since it was listed has no memberships to read, and an address listed twice
\* breaks the index: the pass returns an error.
Refused(p) ==
    /\ \/ (pass[p].phase = "members" /\ \E o \in pass[p].unread : account[o] = None)
       \/ (Fetched(p) /\ ~Distinct(pass[p].users))
    /\ GiveUp(p)
    /\ UNCHANGED <<tenant, directory, location, changes, faults, applied, chosen>>

Fail(p) ==
    /\ Fault
    /\ pass[p].phase \in {"users", "members"}
    /\ GiveUp(p)
    /\ UNCHANGED <<tenant, directory, location, changes, applied, chosen>>

\* A crash leaves the job running in the table, and the lock free.
Crash(p) ==
    /\ Fault
    /\ pass[p].phase # "idle"
    /\ pass' = [pass EXCEPT ![p] = Idle]
    /\ lock' = IF lock = p THEN None ELSE lock
    /\ UNCHANGED <<tenant, directory, location, job, changes, applied, chosen>>

\* River takes back a job that has run for too long, from a dead process or from one that hangs.
Orphaned == job.state = "running" /\ pass[job.by].phase = "idle"
Rescue ==
    /\ job.state = "running"
    /\ (Orphaned /\ UNCHANGED faults) \/ (~Orphaned /\ Fault)
    /\ job' \in Errored
    /\ UNCHANGED <<tenant, directory, location, lock, pass, changes, applied, chosen>>

----------------------------------------------------------------------------
(* What else uses the rows. *)

\* UpdateLocation, with the groups the location admits. A group some pass has already found missing
\* is not one that stays.
Restrict(G) ==
    /\ location' = IdsOf(G)
    /\ chosen' = {g \in group : /\ \E r \in G : r.external = g
                                /\ \A p \in Processes : pass[p].phase = "members" => g \in pass[p].groups}
    /\ UNCHANGED <<tenant, directory, work, changes, faults, applied>>

\* deleteUser of a provider's user: a tombstone.
DeleteUser(u) ==
    /\ Change
    /\ u.active
    /\ users' = (users \ {u}) \cup {[u EXCEPT !.active = FALSE]}
    /\ UNCHANGED <<tenant, groups, memberships, location, work, faults, applied, chosen>>

Admin == (\E G \in SUBSET groups : Restrict(G)) \/ \E u \in users : DeleteUser(u)

Advance(p) ==
    \/ Try(p) \/ FetchGroups(p) \/ ApplyProviderSnapshot(p) \/ Finish(p) \/ Refused(p)
    \/ \E o \in Objects : FetchUser(p, o) \/ FetchMembers(p, o)

Next ==
    \/ Tenant \/ Admin
    \/ Enqueue \/ Rescue
    \/ \E p \in Processes : Work(p) \/ Advance(p) \/ Fail(p) \/ Crash(p)

\* The periodic job is inserted at every interval; an idle client takes a waiting job; a pass goes on
\* (each request has a deadline); River's maintenance takes back an orphan.
Fairness ==
    /\ WF_vars(Enqueue)
    /\ WF_vars(Orphaned /\ Rescue)
    /\ WF_vars(\E p \in Processes : Work(p))
    /\ \A p \in Processes : WF_vars(Advance(p))

Spec == Init /\ [][Next]_vars
FairSpec == Spec /\ Fairness

----------------------------------------------------------------------------
\* A sync never puts back what an earlier one has replaced: snapshots are applied in the order their
\* reading began, however many processes, rescued jobs and slow passes there are (job.go holds the
\* advisory lock across fetch and apply).
NoStaleOverwrite == [][applied' >= applied]_vars

\* A row stays the row of one person: through changes of address, removal, return and a swap of
\* addresses between two people, what refers to the row (check-ins, roles, API keys) refers to the
\* person it was made for (docs/configuration.md: retained check-ins continue to refer to the same
\* people).
RetainedPeople == [][\A u \in users : \E v \in users' : v.id = u.id /\ v.external = u.external]_vars

\* A location keeps every group chosen for it while the group is in the tenant, whatever syncs run
\* meanwhile (provider_store.go updates a group's row and deletes only what the snapshot lacks).
KeptRestriction == \A g \in chosen : \E r \in groups : r.external = g /\ r.id \in location

\* Once the tenant is left alone and passes no longer fail, the directory comes to be what the tenant
\* is and stays so: the active people with their addresses, the groups, who is in which.
InSync ==
    /\ {<<u.external, u.email>> : u \in {v \in users : v.active}} =
       {<<o, account[o].email>> : o \in Enabled(account)}
    /\ {r.external : r \in groups} = group
    /\ {<<ug[1].external, ug[2].external>> : ug \in {x \in users \X groups :
          <<x[1].id, x[2].id>> \in memberships}} = member
SyncConverges == <>[]InSync
=============================================================================
