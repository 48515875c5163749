------------------------- MODULE DirectorySyncProofs -------------------------
(***************************************************************************)
(* Proofs about DirectorySync, for any number of people, groups and server *)
(* processes, and any bounds.                                              *)
(***************************************************************************)
EXTENDS DirectorySync, TLAPS

-----------------------------------------------------------------------------
(* What one pass holds. *)

LEMMA IdleIsPass == Idle \in Passes
  BY NoneAssumption DEF Idle, Passes, NothingRead

\* A pass that holds the lock afresh, and one that has applied its snapshot.
LEMMA FreshIsPass ==
  ASSUME NEW n \in Nat
  PROVE  /\ [Idle EXCEPT !.phase = "users", !.at = n, !.unread = Objects] \in Passes
         /\ [Idle EXCEPT !.phase = "users", !.at = n, !.unread = Objects].phase = "users"
         /\ [Idle EXCEPT !.phase = "users", !.at = n, !.unread = Objects].at = n
         /\ [Idle EXCEPT !.phase = "try"] \in Passes
         /\ [Idle EXCEPT !.phase = "done", !.at = n] \in Passes
         /\ [Idle EXCEPT !.phase = "done", !.at = n].phase = "done"
  BY DEF Idle, Passes, NothingRead

-----------------------------------------------------------------------------
(* Type correctness. *)

LEMMA InitTyped == Init => TypeOK
<1> SUFFICES ASSUME Init PROVE TypeOK
  OBVIOUS
<1>1. account \in [Objects -> Accounts \cup {None}]
  <2>1. account \in [Objects -> [email : Emails, enabled : {TRUE}]]
    BY AddressesAssumption DEF Init
  <2> QED
    BY <2>1 DEF Accounts
<1>2. pass \in [Processes -> Passes] /\ lock \in Processes \cup {None}
  BY IdleIsPass DEF Init
<1>3. changes \in 0..MaxChanges /\ faults \in 0..MaxFaults /\ applied \in Nat
  BY BoundsAssumption DEF Init
<1>4. /\ group \subseteq Groups /\ member \subseteq Objects \X group /\ chosen \subseteq group
      /\ users \subseteq UserRows /\ groups \subseteq GroupRows /\ memberships \subseteq UserIds \X GroupIds
      /\ location \subseteq {g.id : g \in groups}
  BY DEF Init
<1>5. job \in {NoJob, Waiting} \cup [state : {"running"}, by : Processes]
  BY DEF Init
<1> QED
  BY <1>1, <1>2, <1>3, <1>4, <1>5 DEF TypeOK

\* Changes to the tenant leave everything else alone.
LEMMA TenantTyped ==
  ASSUME TypeOK, Tenant
  PROVE  TypeOK'
<1>1. changes' \in 0..MaxChanges
  <2>1. Change
    BY DEF Tenant, SaveAccount, RemoveAccount, AddGroup, RemoveGroup, Join, Leave
  <2> QED
    BY <2>1, BoundsAssumption DEF TypeOK, Change
<1>2. account' \in [Objects -> Accounts \cup {None}]
  BY DEF TypeOK, Tenant, SaveAccount, RemoveAccount, AddGroup, RemoveGroup, Join, Leave
<1> DEFINE Sets == group' \subseteq Groups /\ member' \subseteq Objects \X group' /\ chosen' \subseteq group'
<1>3. Sets
  <2>1. ASSUME NEW o \in Objects, RemoveAccount(o) \/ \E a \in Accounts : SaveAccount(o, a) PROVE Sets
    BY <2>1 DEF TypeOK, RemoveAccount, SaveAccount
  <2>2. ASSUME NEW g \in Groups, AddGroup(g) \/ RemoveGroup(g) PROVE Sets
    BY <2>2 DEF TypeOK, AddGroup, RemoveGroup
  <2>3. ASSUME NEW o \in Objects, NEW g \in Groups, Join(o, g) \/ Leave(o, g) PROVE Sets
    BY <2>3 DEF TypeOK, Join, Leave
  <2> QED
    BY <2>1, <2>2, <2>3 DEF Tenant
<1>4. UNCHANGED <<directory, location, work, faults, applied>>
  BY DEF Tenant, SaveAccount, RemoveAccount, AddGroup, RemoveGroup, Join, Leave
<1> QED
  BY <1>1, <1>2, <1>3, <1>4 DEF TypeOK, directory, work

\* The steps of a job and of its pass leave the tenant and the tables alone.
PassTyped ==
  /\ job \in {NoJob, Waiting} \cup [state : {"running"}, by : Processes]
  /\ lock \in Processes \cup {None}
  /\ pass \in [Processes -> Passes]
  /\ faults \in 0..MaxFaults

LEMMA RecordTyped ==
  ASSUME TypeOK, NEW O, O \subseteq {NoJob, Waiting}, Record(O)
  PROVE  job' \in {NoJob, Waiting} \cup [state : {"running"}, by : Processes]
  BY DEF TypeOK, Record

LEMMA GiveUpTyped ==
  ASSUME TypeOK, NEW p \in Processes, GiveUp(p)
  PROVE  /\ job' \in {NoJob, Waiting} \cup [state : {"running"}, by : Processes]
         /\ lock' = None
         /\ pass' = [pass EXCEPT ![p] = Idle]
  BY RecordTyped DEF GiveUp, Errored

LEMMA FetchTyped ==
  ASSUME TypeOK, NEW p \in Processes,
         FetchGroups(p) \/ \E o \in Objects : FetchUser(p, o) \/ FetchMembers(p, o)
  PROVE  pass' \in [Processes -> Passes]
<1>1. CASE FetchGroups(p)
  <2> DEFINE later == [pass[p] EXCEPT !.phase = "members", !.groups = group,
                                      !.unread = {o \in Objects : pass[p].users[o] # None}]
  <2>1. later \in Passes
    <3>1. pass[p] \in Passes /\ group \subseteq Groups
      BY DEF TypeOK
    <3> QED
      BY <3>1 DEF Passes
  <2>2. pass' = [pass EXCEPT ![p] = later]
    BY <1>1 DEF FetchGroups
  <2> HIDE DEF later
  <2> QED
    BY <2>1, <2>2 DEF TypeOK
<1>2. ASSUME NEW o \in Objects, FetchUser(p, o)
      PROVE  pass' \in [Processes -> Passes]
  <2> DEFINE later == [pass[p] EXCEPT !.users[o] = account[o], !.unread = @ \ {o}]
  <2>1. later \in Passes
    <3>1. pass[p] \in Passes
      BY DEF TypeOK
    <3>2. [pass[p].users EXCEPT ![o] = account[o]] \in [Objects -> Accounts \cup {None}]
      BY <3>1 DEF TypeOK, Passes
    <3>3. later = [pass[p] EXCEPT !.users = [pass[p].users EXCEPT ![o] = account[o]], !.unread = pass[p].unread \ {o}]
      BY <3>1 DEF Passes
    <3> HIDE DEF later
    <3> QED
      BY <3>1, <3>2, <3>3 DEF Passes
  <2>2. pass' = [pass EXCEPT ![p] = later]
    BY <1>2 DEF FetchUser
  <2> HIDE DEF later
  <2> QED
    BY <2>1, <2>2 DEF TypeOK
<1>3. ASSUME NEW o \in Objects, FetchMembers(p, o)
      PROVE  pass' \in [Processes -> Passes]
  <2> DEFINE found == {m \in member : m[1] = o}
  <2> DEFINE later == [pass[p] EXCEPT !.members = @ \cup found, !.unread = @ \ {o}]
  <2>1. later \in Passes
    <3>1. pass[p] \in Passes /\ found \subseteq Objects \X Groups
      BY DEF TypeOK
    <3> HIDE DEF found
    <3> QED
      BY <3>1 DEF Passes
  <2>2. pass' = [pass EXCEPT ![p] = later]
    BY <1>3 DEF FetchMembers
  <2> HIDE DEF later
  <2> QED
    BY <2>1, <2>2 DEF TypeOK
<1> QED
  BY <1>1, <1>2, <1>3

LEMMA StepTyped ==
  ASSUME TypeOK, NEW p \in Processes,
         \/ Work(p) \/ Try(p) \/ Finish(p) \/ Refused(p) \/ Fail(p) \/ Crash(p)
         \/ FetchGroups(p) \/ \E o \in Objects : FetchUser(p, o) \/ FetchMembers(p, o)
  PROVE  PassTyped' /\ UNCHANGED <<tenant, directory, location, changes, applied, chosen>>
<1> USE DEF PassTyped
<1>1. CASE Work(p)
  <2>1. [Idle EXCEPT !.phase = "try"] \in Passes
    BY FreshIsPass
  <2> QED
    BY <1>1, <2>1 DEF Work, TypeOK
<1>2. CASE Try(p)
  <2>1. changes \in Nat
    BY BoundsAssumption DEF TypeOK
  <2>2. CASE lock = None
    <3> DEFINE fresh == [Idle EXCEPT !.phase = "users", !.at = changes, !.unread = Objects]
    <3>1. fresh \in Passes
      BY <2>1, FreshIsPass
    <3>2. pass' = [pass EXCEPT ![p] = fresh] /\ lock' = p
      BY <1>2, <2>2 DEF Try
    <3> HIDE DEF fresh
    <3> QED
      BY <1>2, <2>2, <3>1, <3>2 DEF Try, TypeOK
  <2>3. CASE lock # None
    BY <1>2, <2>3, IdleIsPass, RecordTyped DEF Try, TypeOK
  <2> QED
    BY <2>2, <2>3
<1>3. CASE Finish(p)
  BY <1>3, IdleIsPass, RecordTyped DEF Finish, TypeOK
<1>4. CASE Refused(p)
  BY <1>4, IdleIsPass, GiveUpTyped DEF Refused, TypeOK
<1>5. CASE Fail(p)
  BY <1>5, IdleIsPass, GiveUpTyped, BoundsAssumption DEF Fail, Fault, TypeOK
<1>6. CASE Crash(p)
  BY <1>6, IdleIsPass, BoundsAssumption DEF Crash, Fault, TypeOK
<1>7. CASE FetchGroups(p) \/ \E o \in Objects : FetchUser(p, o) \/ FetchMembers(p, o)
  <2>1. pass' \in [Processes -> Passes]
    BY <1>7, FetchTyped
  <2>2. UNCHANGED <<tenant, directory, location, job, lock, changes, faults, applied, chosen>>
    BY <1>7 DEF FetchGroups, FetchUser, FetchMembers
  <2> QED
    BY <2>1, <2>2 DEF TypeOK
<1> QED
  BY <1>1, <1>2, <1>3, <1>4, <1>5, <1>6, <1>7

\* What the tables hold once a snapshot is applied.
LEMMA GroupRowsTyped ==
  ASSUME TypeOK, NEW s \in Passes, NEW number \in [NewGroups(s) -> GroupIds]
  PROVE  reconcileGroupSnapshot(s, number) \subseteq GroupRows
  BY DEF reconcileGroupSnapshot, TypeOK, GroupRows, NewGroups, Passes

LEMMA UserRowsTyped ==
  ASSUME TypeOK, NEW s \in Passes, NEW number \in [NewUsers(s) -> UserIds]
  PROVE  reconcileUserSnapshot(s, number) \subseteq UserRows
<1> DEFINE a(o) == s.users[o]
<1> DEFINE Tombstoned(u) == [u EXCEPT !.active = FALSE]
<1> DEFINE Listed(u) == [u EXCEPT !.email = a(u.external).email, !.active = a(u.external).enabled]
<1> DEFINE First(o) == [id |-> number[o], external |-> o, email |-> a(o).email, active |-> a(o).enabled]
<1>1. \A o \in Objects : a(o) # None => a(o) \in Accounts
  BY DEF Passes
<1>2. ASSUME NEW u \in users
      PROVE  Tombstoned(u) \in UserRows /\ (a(u.external) # None => Listed(u) \in UserRows)
  <2>1. u \in UserRows /\ u.external \in Objects
    BY DEF TypeOK, UserRows
  <2> HIDE DEF a
  <2> QED
    BY <1>1, <2>1 DEF UserRows, Accounts
<1>3. ASSUME NEW o \in NewUsers(s)
      PROVE  First(o) \in UserRows
  <2>1. o \in Objects /\ a(o) # None /\ number[o] \in UserIds
    BY DEF NewUsers
  <2> HIDE DEF a
  <2> QED
    BY <1>1, <2>1 DEF UserRows, Accounts
<1>4. reconcileUserSnapshot(s, number) =
        {IF a(u.external) = None THEN Tombstoned(u) ELSE Listed(u) : u \in users} \cup {First(o) : o \in NewUsers(s)}
  BY DEF reconcileUserSnapshot
<1> HIDE DEF a, Tombstoned, Listed, First
<1> QED
  BY <1>2, <1>3, <1>4

LEMMA ApplyTyped ==
  ASSUME TypeOK, NEW p \in Processes, ApplyProviderSnapshot(p)
  PROVE  TypeOK'
<1> DEFINE s == pass[p]
<1>1. s \in Passes /\ s.at \in Nat
  BY DEF TypeOK, Passes
<1>2. groups' \subseteq GroupRows
  BY <1>1, GroupRowsTyped DEF ApplyProviderSnapshot, Numberings
<1>3. users' \subseteq UserRows
  BY <1>1, UserRowsTyped DEF ApplyProviderSnapshot, Numberings
<1>4. memberships' \subseteq UserIds \X GroupIds
  <2>1. ASSUME NEW x \in users' \X groups' PROVE <<x[1].id, x[2].id>> \in UserIds \X GroupIds
    BY <1>2, <1>3 DEF UserRows, GroupRows
  <2>2. memberships' = reconcileGroupMembershipSnapshot(s)
    BY DEF ApplyProviderSnapshot
  <2> QED
    BY <2>1, <2>2 DEF reconcileGroupMembershipSnapshot
<1>5. location' \subseteq {g.id : g \in groups'}
  BY DEF ApplyProviderSnapshot, Cascaded, IdsOf
<1>6. applied' \in Nat /\ pass' \in [Processes -> Passes]
  BY <1>1, FreshIsPass DEF ApplyProviderSnapshot, TypeOK
<1>7. UNCHANGED <<tenant, job, lock, changes, faults, chosen>>
  BY DEF ApplyProviderSnapshot
<1> QED
  BY <1>2, <1>3, <1>4, <1>5, <1>6, <1>7 DEF TypeOK, tenant

LEMMA AdminTyped ==
  ASSUME TypeOK, Admin
  PROVE  TypeOK'
<1>1. ASSUME NEW G \in SUBSET groups, Restrict(G) PROVE TypeOK'
  BY <1>1 DEF Restrict, TypeOK, IdsOf, tenant, directory, work
<1>2. ASSUME NEW u \in users, DeleteUser(u) PROVE TypeOK'
  <2>1. u \in UserRows /\ [u EXCEPT !.active = FALSE] \in UserRows
    BY DEF TypeOK, UserRows
  <2>2. changes' \in 0..MaxChanges
    BY <1>2, BoundsAssumption DEF DeleteUser, Change, TypeOK
  <2> QED
    BY <1>2, <2>1, <2>2 DEF DeleteUser, TypeOK, tenant, work
<1> QED
  BY <1>1, <1>2 DEF Admin

LEMMA TypePreserved == TypeOK /\ [Next]_vars => TypeOK'
<1> SUFFICES ASSUME TypeOK, [Next]_vars PROVE TypeOK'
  OBVIOUS
<1>1. CASE Tenant
  BY <1>1, TenantTyped
<1>2. CASE Admin
  BY <1>2, AdminTyped
<1>3. CASE Enqueue
  BY <1>3 DEF Enqueue, TypeOK, tenant, directory
<1>4. CASE Rescue
  BY <1>4, BoundsAssumption DEF Rescue, Errored, Fault, TypeOK, tenant, directory
<1>5. ASSUME NEW p \in Processes, Work(p) \/ Advance(p) \/ Fail(p) \/ Crash(p) PROVE TypeOK'
  <2>1. CASE ApplyProviderSnapshot(p)
    BY <2>1, ApplyTyped
  <2>2. CASE ~ApplyProviderSnapshot(p)
    <3>1. PassTyped' /\ UNCHANGED <<tenant, directory, location, changes, applied, chosen>>
      BY <1>5, <2>2, StepTyped DEF Advance
    <3> QED
      BY <3>1 DEF PassTyped, TypeOK, tenant, directory
  <2> QED
    BY <2>1, <2>2
<1>6. CASE UNCHANGED vars
  BY <1>6 DEF vars, TypeOK, tenant, directory, work
<1> QED
  BY <1>1, <1>2, <1>3, <1>4, <1>5, <1>6 DEF Next

\* Every variable keeps its type; in particular a location refers only to groups that have a row.
THEOREM TypeCorrect == Spec => []TypeOK
  BY InitTyped, TypePreserved, PTL DEF Spec

-----------------------------------------------------------------------------
(* Snapshots are applied in the order their reading began.  A process reads *)
(* and applies only while it holds the lock, and nothing younger than what  *)
(* it reads has been applied before it.                                     *)

Holding(p) == pass[p].phase \in {"users", "members", "done"}
Reading(p) == pass[p].phase \in {"users", "members"}

Serial ==
  /\ \A p \in Processes : Holding(p) => lock = p
  /\ \A p \in Processes : Reading(p) => applied <= pass[p].at /\ pass[p].at <= changes
  /\ applied <= changes

LEMMA InitSerial == Init => Serial
  BY DEF Init, Serial, Holding, Reading, Idle

\* The processes other than p keep their pass, and those that hold the lock are p alone.
LEMMA OthersIdle ==
  ASSUME Serial, NEW p \in Processes, Holding(p), NEW q \in Processes, q # p
  PROVE  ~Holding(q)
  BY DEF Serial

LEMMA SerialFrame ==
  ASSUME TypeOK, Serial, UNCHANGED <<lock, pass, applied>>, changes' \in Nat, changes <= changes'
  PROVE  Serial'
<1>1. \A p \in Processes : (Holding(p) => Holding(p))' /\ pass'[p] = pass[p]
  OBVIOUS
<1>2. changes \in Nat /\ applied \in Nat /\ \A p \in Processes : pass[p].at \in Nat
  BY BoundsAssumption DEF TypeOK, Passes
<1> QED
  BY <1>1, <1>2 DEF Serial, Holding, Reading

\* The lock is let go by the process that holds it, or by none.
LEMMA SerialLetGo ==
  ASSUME TypeOK, Serial, NEW p \in Processes,
         pass' = [pass EXCEPT ![p] = Idle],
         lock' = lock \/ (lock' = None /\ Holding(p)) \/ (lock' = None /\ lock = p),
         UNCHANGED <<changes, applied>>
  PROVE  Serial'
<1>1. \A q \in Processes : q # p => pass'[q] = pass[q]
  BY DEF TypeOK
<1>2. pass'[p] = Idle /\ ~Holding(p)' /\ ~Reading(p)'
  BY DEF TypeOK, Idle, Holding, Reading
<1>3. ASSUME NEW q \in Processes, Holding(q)' PROVE lock' = q
  BY <1>1, <1>2, <1>3, NoneAssumption DEF Serial, Holding
<1>4. ASSUME NEW q \in Processes, Reading(q)' PROVE applied' <= pass'[q].at /\ pass'[q].at <= changes'
  BY <1>1, <1>2, <1>4 DEF Serial, Reading
<1> QED
  BY <1>3, <1>4 DEF Serial

\* A pass that goes on under the lock it holds, with the age it began with.
LEMMA SerialGoesOn ==
  ASSUME TypeOK, Serial, NEW p \in Processes, NEW later, Reading(p),
         pass' = [pass EXCEPT ![p] = later], later.at = pass[p].at,
         UNCHANGED <<lock, changes, applied>>
  PROVE  Serial'
<1>1. \A q \in Processes : q # p => pass'[q] = pass[q]
  BY DEF TypeOK
<1>2. pass'[p] = later /\ lock = p /\ applied <= pass[p].at /\ pass[p].at <= changes
  BY DEF TypeOK, Serial, Reading, Holding
<1>3. ASSUME NEW q \in Processes, Holding(q)' PROVE lock' = q
  BY <1>1, <1>2, <1>3 DEF Serial, Holding
<1>4. ASSUME NEW q \in Processes, Reading(q)' PROVE applied' <= pass'[q].at /\ pass'[q].at <= changes'
  BY <1>1, <1>2, <1>4 DEF Serial, Reading
<1> QED
  BY <1>2, <1>3, <1>4 DEF Serial

LEMMA TrySerial ==
  ASSUME TypeOK, Serial, NEW p \in Processes, Try(p)
  PROVE  Serial'
<1>1. CASE lock = None
  <2> DEFINE fresh == [Idle EXCEPT !.phase = "users", !.at = changes, !.unread = Objects]
  <2>1. changes \in Nat /\ applied \in Nat
    BY BoundsAssumption DEF TypeOK
  <2>2. fresh.phase = "users" /\ fresh.at = changes
    BY <2>1, FreshIsPass
  <2>3. pass' = [pass EXCEPT ![p] = fresh] /\ lock' = p /\ UNCHANGED <<changes, applied>>
    BY <1>1 DEF Try
  <2> HIDE DEF fresh
  <2>4. pass'[p] = fresh /\ \A q \in Processes : q # p => pass'[q] = pass[q]
    BY <2>3 DEF TypeOK
  <2>5. \A q \in Processes : ~Holding(q) /\ ~Reading(q)
    BY <1>1, NoneAssumption DEF Serial, Holding, Reading
  <2>6. \A q \in Processes : q # p => ~Holding(q)' /\ ~Reading(q)'
    BY <2>4, <2>5 DEF Holding, Reading
  <2>7. applied' <= pass'[p].at /\ pass'[p].at <= changes' /\ applied' <= changes'
    BY <2>1, <2>2, <2>3, <2>4 DEF Serial
  <2> QED
    BY <2>3, <2>6, <2>7 DEF Serial
<1>2. CASE lock # None
  BY <1>2, SerialLetGo DEF Try
<1> QED
  BY <1>1, <1>2

LEMMA ApplySerial ==
  ASSUME TypeOK, Serial, NEW p \in Processes, ApplyProviderSnapshot(p)
  PROVE  Serial' /\ applied <= applied'
<1> DEFINE done == [Idle EXCEPT !.phase = "done", !.at = pass[p].at]
<1>1. pass[p].at \in Nat /\ Reading(p) /\ Holding(p)
  BY DEF TypeOK, Passes, ApplyProviderSnapshot, Fetched, Reading, Holding
<1>2. done.phase = "done"
  BY <1>1, FreshIsPass
<1>3. pass' = [pass EXCEPT ![p] = done] /\ applied' = pass[p].at /\ UNCHANGED <<lock, changes>>
  BY DEF ApplyProviderSnapshot
<1> HIDE DEF done
<1>4. pass'[p] = done /\ \A q \in Processes : q # p => pass'[q] = pass[q]
  BY <1>3 DEF TypeOK
<1>5. lock = p /\ applied <= pass[p].at /\ pass[p].at <= changes
  BY <1>1 DEF Serial
<1>6. \A q \in Processes : q # p => ~Holding(q)' /\ ~Reading(q)'
  BY <1>1, <1>4, OthersIdle DEF Holding, Reading
<1>7. ~Reading(p)'
  BY <1>2, <1>4 DEF Reading
<1> QED
  BY <1>3, <1>5, <1>6, <1>7 DEF Serial

LEMMA StepSerial ==
  ASSUME TypeOK, Serial, NEW p \in Processes,
         Work(p) \/ Advance(p) \/ Fail(p) \/ Crash(p)
  PROVE  Serial' /\ (applied' = applied \/ ApplyProviderSnapshot(p))
<1>1. CASE Work(p)
  <2> DEFINE trying == [Idle EXCEPT !.phase = "try"]
  <2>1. trying.phase = "try"
    BY DEF Idle
  <2>2. pass' = [pass EXCEPT ![p] = trying] /\ UNCHANGED <<lock, changes, applied>>
    BY <1>1 DEF Work
  <2> HIDE DEF trying
  <2>3. pass'[p] = trying /\ \A q \in Processes : q # p => pass'[q] = pass[q]
    BY <2>2 DEF TypeOK
  <2>4. ~Holding(p)' /\ ~Reading(p)'
    BY <2>1, <2>3 DEF Holding, Reading
  <2>5. \A q \in Processes : q # p => Holding(q)' = Holding(q) /\ Reading(q)' = Reading(q)
    BY <2>3 DEF Holding, Reading
  <2> QED
    BY <2>2, <2>3, <2>4, <2>5 DEF Serial
<1>2. CASE Try(p)
  BY <1>2, TrySerial DEF Try
<1>3. CASE FetchGroups(p)
  <2> DEFINE later == [pass[p] EXCEPT !.phase = "members", !.groups = group,
                                      !.unread = {o \in Objects : pass[p].users[o] # None}]
  <2>1. later.at = pass[p].at
    BY DEF TypeOK, Passes
  <2>2. pass' = [pass EXCEPT ![p] = later] /\ Reading(p) /\ UNCHANGED <<lock, changes, applied>>
    BY <1>3 DEF FetchGroups, Reading
  <2> HIDE DEF later
  <2> QED
    BY <2>1, <2>2, SerialGoesOn
<1>4. ASSUME NEW o \in Objects, FetchUser(p, o)
      PROVE  Serial' /\ applied' = applied
  <2> DEFINE later == [pass[p] EXCEPT !.users[o] = account[o], !.unread = @ \ {o}]
  <2>1. later.at = pass[p].at
    BY DEF TypeOK, Passes
  <2>2. pass' = [pass EXCEPT ![p] = later] /\ Reading(p) /\ UNCHANGED <<lock, changes, applied>>
    BY <1>4 DEF FetchUser, Reading
  <2> HIDE DEF later
  <2> QED
    BY <2>1, <2>2, SerialGoesOn
<1>5. ASSUME NEW o \in Objects, FetchMembers(p, o)
      PROVE  Serial' /\ applied' = applied
  <2> DEFINE later == [pass[p] EXCEPT !.members = @ \cup {m \in member : m[1] = o}, !.unread = @ \ {o}]
  <2>1. later.at = pass[p].at
    BY DEF TypeOK, Passes
  <2>2. pass' = [pass EXCEPT ![p] = later] /\ Reading(p) /\ UNCHANGED <<lock, changes, applied>>
    BY <1>5 DEF FetchMembers, Reading
  <2> HIDE DEF later
  <2> QED
    BY <2>1, <2>2, SerialGoesOn
<1>6. CASE ApplyProviderSnapshot(p)
  BY <1>6, ApplySerial
<1>7. CASE Finish(p)
  BY <1>7, SerialLetGo DEF Finish, Holding
<1>8. CASE Refused(p)
  <2>1. Holding(p)
    BY <1>8 DEF Refused, Fetched, Holding
  <2> QED
    BY <1>8, <2>1, SerialLetGo DEF Refused, GiveUp
<1>9. CASE Fail(p)
  BY <1>9, SerialLetGo DEF Fail, GiveUp, Holding
<1>10. CASE Crash(p)
  BY <1>10, SerialLetGo DEF Crash
<1> QED
  BY <1>1, <1>2, <1>3, <1>4, <1>5, <1>6, <1>7, <1>8, <1>9, <1>10 DEF Advance

\* The age of the snapshot applied last never goes back, and the invariant that keeps it so.
LEMMA SerialPreserved ==
  TypeOK /\ Serial /\ [Next]_vars => Serial' /\ applied' >= applied
<1> SUFFICES ASSUME TypeOK, Serial, [Next]_vars PROVE Serial' /\ applied' >= applied
  OBVIOUS
<1>1. changes \in Nat /\ applied \in Nat
  BY BoundsAssumption DEF TypeOK
<1>2. CASE Tenant
  <2>1. Change /\ UNCHANGED <<lock, pass, applied>>
    BY <1>2 DEF Tenant, SaveAccount, RemoveAccount, AddGroup, RemoveGroup, Join, Leave, work
  <2> QED
    BY <1>1, <2>1, SerialFrame DEF Change
<1>3. ASSUME NEW u \in users, DeleteUser(u) PROVE Serial' /\ applied' >= applied
  BY <1>1, <1>3, SerialFrame DEF DeleteUser, Change, work
<1>4. CASE (\E G \in SUBSET groups : Restrict(G)) \/ Enqueue \/ Rescue \/ UNCHANGED vars
  <2>1. UNCHANGED <<lock, pass, applied, changes>>
    BY <1>4 DEF Restrict, Enqueue, Rescue, vars, work
  <2> QED
    BY <1>1, <2>1, SerialFrame
<1>5. ASSUME NEW p \in Processes, Work(p) \/ Advance(p) \/ Fail(p) \/ Crash(p)
      PROVE  Serial' /\ applied' >= applied
  <2>1. CASE ApplyProviderSnapshot(p)
    BY <2>1, <1>1, ApplySerial DEF ApplyProviderSnapshot, TypeOK, Passes
  <2>2. CASE ~ApplyProviderSnapshot(p)
    BY <1>1, <1>5, <2>2, StepSerial
  <2> QED
    BY <2>1, <2>2
<1> QED
  BY <1>2, <1>3, <1>4, <1>5 DEF Next, Admin

\* A sync never puts back what an earlier one has replaced, whatever processes run, crash or hang.
THEOREM NoStaleOverwriteHolds == Spec => NoStaleOverwrite
<1>1. Init => TypeOK /\ Serial
  BY InitTyped, InitSerial
<1>2. TypeOK /\ Serial /\ [Next]_vars => (TypeOK /\ Serial)' /\ applied' >= applied
  BY TypePreserved, SerialPreserved
<1>3. (applied' >= applied) => [applied' >= applied]_vars
  OBVIOUS
<1> QED
  BY <1>1, <1>2, <1>3, PTL DEF Spec, NoStaleOverwrite

-----------------------------------------------------------------------------
(* A row stays the row of one person. *)

LEMMA RowsRetained ==
  ASSUME TypeOK, NEW p \in Processes, ApplyProviderSnapshot(p), NEW u \in users
  PROVE  \E v \in users' : v.id = u.id /\ v.external = u.external
<1> DEFINE s == pass[p]
<1> DEFINE a == s.users[u.external]
<1> DEFINE v == IF a = None THEN [u EXCEPT !.active = FALSE] ELSE [u EXCEPT !.email = a.email, !.active = a.enabled]
<1>1. v \in users'
  BY DEF ApplyProviderSnapshot, reconcileUserSnapshot
<1>2. v.id = u.id /\ v.external = u.external
  <2>1. u \in UserRows
    BY DEF TypeOK
  <2> HIDE DEF a
  <2> QED
    BY <2>1 DEF UserRows
<1> HIDE DEF v
<1> QED
  BY <1>1, <1>2

LEMMA PeopleRetained ==
  TypeOK /\ [Next]_vars => \A u \in users : \E v \in users' : v.id = u.id /\ v.external = u.external
<1> SUFFICES ASSUME TypeOK, [Next]_vars, NEW u \in users
             PROVE  \E v \in users' : v.id = u.id /\ v.external = u.external
  OBVIOUS
<1>1. ASSUME NEW w \in users, DeleteUser(w) PROVE \E v \in users' : v.id = u.id /\ v.external = u.external
  <2>1. CASE u = w
    <3>1. [w EXCEPT !.active = FALSE] \in users'
      BY <1>1 DEF DeleteUser
    <3>2. [w EXCEPT !.active = FALSE].id = w.id /\ [w EXCEPT !.active = FALSE].external = w.external
      BY DEF TypeOK, UserRows
    <3> QED
      BY <2>1, <3>1, <3>2
  <2>2. CASE u # w
    BY <1>1, <2>2 DEF DeleteUser
  <2> QED
    BY <2>1, <2>2
<1>2. ASSUME NEW p \in Processes, Work(p) \/ Advance(p) \/ Fail(p) \/ Crash(p)
      PROVE  \E v \in users' : v.id = u.id /\ v.external = u.external
  <2>1. CASE ApplyProviderSnapshot(p)
    BY <2>1, RowsRetained
  <2>2. CASE ~ApplyProviderSnapshot(p)
    BY <1>2, <2>2, StepTyped DEF Advance, directory
  <2> QED
    BY <2>1, <2>2
<1>3. CASE Tenant \/ (\E G \in SUBSET groups : Restrict(G)) \/ Enqueue \/ Rescue \/ UNCHANGED vars
  BY <1>3 DEF Tenant, SaveAccount, RemoveAccount, AddGroup, RemoveGroup, Join, Leave, Restrict, Enqueue,
              Rescue, vars, directory
<1> QED
  BY <1>1, <1>2, <1>3 DEF Next, Admin

\* What refers to a user's row refers for good to the person it was made for.
THEOREM RetainedPeopleHolds == Spec => RetainedPeople
<1>1. (\A u \in users : \E v \in users' : v.id = u.id /\ v.external = u.external)
        => [\A u \in users : \E v \in users' : v.id = u.id /\ v.external = u.external]_vars
  OBVIOUS
<1> QED
  BY <1>1, TypeCorrect, PeopleRetained, PTL DEF Spec, RetainedPeople

-----------------------------------------------------------------------------
(* A location keeps its groups.  A pass that has read the groups has read   *)
(* every chosen one, so the transaction updates its row.                    *)

Listed == \A p \in Processes : pass[p].phase = "members" => chosen \subseteq pass[p].groups

LEMMA InitKept == Init => KeptRestriction /\ Listed
  BY DEF Init, KeptRestriction, Listed

\* A step of p that chooses no group and does not touch the tables keeps both, when what p has
\* read of the groups is what there is.
LEMMA KeptFrame ==
  ASSUME TypeOK, KeptRestriction, Listed, NEW p \in Processes,
         UNCHANGED <<groups, location, chosen>>,
         \A q \in Processes : q # p => pass'[q] = pass[q],
         pass'[p].phase = "members" => chosen \subseteq pass'[p].groups
  PROVE  KeptRestriction' /\ Listed'
<1>1. KeptRestriction'
  BY DEF KeptRestriction
<1>2. ASSUME NEW q \in Processes, pass'[q].phase = "members" PROVE chosen' \subseteq pass'[q].groups
  BY <1>2 DEF Listed
<1> QED
  BY <1>1, <1>2 DEF Listed

LEMMA ApplyKept ==
  ASSUME TypeOK, KeptRestriction, Listed, NEW p \in Processes, ApplyProviderSnapshot(p)
  PROVE  KeptRestriction' /\ Listed'
<1>1. chosen \subseteq pass[p].groups /\ chosen' = chosen
  BY DEF ApplyProviderSnapshot, Fetched, Listed
<1>2. \A r \in groups : r.external \in pass[p].groups => r \in groups'
  BY DEF ApplyProviderSnapshot, reconcileGroupSnapshot
<1>3. \A r \in groups' : r.id \in location => r.id \in location'
  BY DEF ApplyProviderSnapshot, Cascaded, IdsOf
<1>4. KeptRestriction'
  BY <1>1, <1>2, <1>3 DEF KeptRestriction
<1> DEFINE done == [Idle EXCEPT !.phase = "done", !.at = pass[p].at]
<1>5. done.phase = "done"
  BY FreshIsPass DEF TypeOK, Passes
<1>6. pass' = [pass EXCEPT ![p] = done]
  BY DEF ApplyProviderSnapshot
<1> HIDE DEF done
<1>7. ASSUME NEW q \in Processes, pass'[q].phase = "members" PROVE chosen' \subseteq pass'[q].groups
  BY <1>1, <1>5, <1>6, <1>7 DEF Listed, TypeOK
<1> QED
  BY <1>4, <1>7 DEF Listed

LEMMA StepKept ==
  ASSUME TypeOK, KeptRestriction, Listed, NEW p \in Processes,
         Work(p) \/ Advance(p) \/ Fail(p) \/ Crash(p)
  PROVE  KeptRestriction' /\ Listed'
<1> DEFINE Others == \A q \in Processes : q # p => pass'[q] = pass[q]
<1> DEFINE Complete == pass'[p].phase = "members" => chosen \subseteq pass'[p].groups
<1>1. CASE ApplyProviderSnapshot(p)
  BY <1>1, ApplyKept
<1>2. CASE ~ApplyProviderSnapshot(p)
  <2>1. UNCHANGED <<groups, location, chosen>>
    BY <1>2, StepTyped DEF Advance, directory
  <2>2. CASE Work(p) \/ Try(p) \/ Finish(p) \/ Refused(p) \/ Fail(p) \/ Crash(p)
    <3>1. \E later : pass' = [pass EXCEPT ![p] = later] /\ later.phase # "members"
      <4>1. Idle.phase # "members" /\ [Idle EXCEPT !.phase = "try"].phase # "members"
        BY DEF Idle
      <4>2. [Idle EXCEPT !.phase = "users", !.at = changes, !.unread = Objects].phase # "members"
        <5>1. changes \in Nat
          BY BoundsAssumption DEF TypeOK
        <5>2. [Idle EXCEPT !.phase = "users", !.at = changes, !.unread = Objects].phase = "users"
          BY <5>1, FreshIsPass
        <5> QED
          BY <5>2
      <4> QED
        BY <2>2, <4>1, <4>2 DEF Work, Try, Finish, Refused, Fail, GiveUp, Crash
    <3>2. Others /\ Complete
      BY <3>1 DEF TypeOK
    <3> QED
      BY <2>1, <3>2, KeptFrame
  <2>3. CASE FetchGroups(p)
    <3> DEFINE later == [pass[p] EXCEPT !.phase = "members", !.groups = group,
                                        !.unread = {o \in Objects : pass[p].users[o] # None}]
    <3>1. later.groups = group
      BY DEF TypeOK, Passes
    <3>2. pass' = [pass EXCEPT ![p] = later]
      BY <2>3 DEF FetchGroups
    <3> HIDE DEF later
    <3>3. Others /\ Complete
      BY <3>1, <3>2 DEF TypeOK
    <3> QED
      BY <2>1, <3>3, KeptFrame
  <2>4. ASSUME NEW o \in Objects, FetchUser(p, o) PROVE KeptRestriction' /\ Listed'
    <3> DEFINE later == [pass[p] EXCEPT !.users[o] = account[o], !.unread = @ \ {o}]
    <3>1. later.phase = "users"
      BY <2>4 DEF TypeOK, Passes, FetchUser
    <3>2. pass' = [pass EXCEPT ![p] = later]
      BY <2>4 DEF FetchUser
    <3> HIDE DEF later
    <3>3. Others /\ Complete
      BY <3>1, <3>2 DEF TypeOK
    <3> QED
      BY <2>1, <3>3, KeptFrame
  <2>5. ASSUME NEW o \in Objects, FetchMembers(p, o) PROVE KeptRestriction' /\ Listed'
    <3> DEFINE later == [pass[p] EXCEPT !.members = @ \cup {m \in member : m[1] = o}, !.unread = @ \ {o}]
    <3>1. later.phase = "members" /\ later.groups = pass[p].groups
      BY <2>5 DEF TypeOK, Passes, FetchMembers
    <3>2. pass' = [pass EXCEPT ![p] = later] /\ chosen \subseteq pass[p].groups
      BY <2>5 DEF FetchMembers, Listed
    <3> HIDE DEF later
    <3>3. Others /\ Complete
      BY <3>1, <3>2 DEF TypeOK
    <3> QED
      BY <2>1, <3>3, KeptFrame
  <2> QED
    BY <1>2, <2>2, <2>3, <2>4, <2>5 DEF Advance
<1> QED
  BY <1>1, <1>2

LEMMA KeptPreserved ==
  TypeOK /\ KeptRestriction /\ Listed /\ [Next]_vars => (KeptRestriction /\ Listed)'
<1> SUFFICES ASSUME TypeOK, KeptRestriction, Listed, [Next]_vars PROVE KeptRestriction' /\ Listed'
  OBVIOUS
<1>1. CASE Tenant
  <2>1. UNCHANGED <<groups, location, pass>> /\ chosen' \subseteq chosen
    BY <1>1 DEF Tenant, SaveAccount, RemoveAccount, AddGroup, RemoveGroup, Join, Leave, directory, work
  <2> QED
    BY <2>1 DEF KeptRestriction, Listed
<1>2. ASSUME NEW G \in SUBSET groups, Restrict(G) PROVE KeptRestriction' /\ Listed'
  <2>1. UNCHANGED <<groups, pass>>
    BY <1>2 DEF Restrict, directory, work
  <2>2. KeptRestriction'
    BY <1>2, <2>1 DEF Restrict, KeptRestriction, IdsOf
  <2>3. Listed'
    BY <1>2, <2>1 DEF Restrict, Listed
  <2> QED
    BY <2>2, <2>3
<1>3. CASE (\E u \in users : DeleteUser(u)) \/ Enqueue \/ Rescue \/ UNCHANGED vars
  <2>1. UNCHANGED <<groups, location, pass, chosen>>
    BY <1>3 DEF DeleteUser, Enqueue, Rescue, vars, directory, work
  <2> QED
    BY <2>1 DEF KeptRestriction, Listed
<1>4. ASSUME NEW p \in Processes, Work(p) \/ Advance(p) \/ Fail(p) \/ Crash(p)
      PROVE  KeptRestriction' /\ Listed'
  BY <1>4, StepKept
<1> QED
  BY <1>1, <1>2, <1>3, <1>4 DEF Next, Admin

\* No sync takes from a location a group that was chosen for it and never left the tenant.
THEOREM KeptRestrictionHolds == Spec => []KeptRestriction
<1>1. Init => TypeOK /\ KeptRestriction /\ Listed
  BY InitTyped, InitKept
<1>2. TypeOK /\ KeptRestriction /\ Listed /\ [Next]_vars => (TypeOK /\ KeptRestriction /\ Listed)'
  BY TypePreserved, KeptPreserved
<1> QED
  BY <1>1, <1>2, PTL DEF Spec

-----------------------------------------------------------------------------
(* One row for a person, one person for a row: what the unique constraint   *)
(* on (source, external_id) and the serial ids give the sync.               *)

OneRow == \A u, v \in users : u.id = v.id \/ u.external = v.external => u = v

\* The row that a row of the table becomes, and the row a newcomer gets.
Later(s, u) ==
  LET a == s.users[u.external]
  IN  IF a = None THEN [u EXCEPT !.active = FALSE] ELSE [u EXCEPT !.email = a.email, !.active = a.enabled]

First(s, number, o) ==
  [id |-> number[o], external |-> o, email |-> s.users[o].email, active |-> s.users[o].enabled]

LEMMA LaterKeepsIdentity ==
  ASSUME NEW s, NEW u \in UserRows
  PROVE  Later(s, u).id = u.id /\ Later(s, u).external = u.external
<1> DEFINE a == s.users[u.external]
<1>1. Later(s, u) = IF a = None THEN [u EXCEPT !.active = FALSE]
                    ELSE [u EXCEPT !.email = a.email, !.active = a.enabled]
  BY DEF Later
<1> HIDE DEF a
<1> QED
  BY <1>1 DEF UserRows

LEMMA ApplyOneRow ==
  ASSUME TypeOK, OneRow, NEW p \in Processes, ApplyProviderSnapshot(p)
  PROVE  OneRow'
<1> DEFINE s == pass[p]
<1>1. PICK number \in Numberings(NewUsers(s), UserIds \ IdsOf(users)) :
        users' = reconcileUserSnapshot(s, number)
  BY DEF ApplyProviderSnapshot
<1>2. users' = {Later(s, u) : u \in users} \cup {First(s, number, o) : o \in NewUsers(s)}
  BY <1>1 DEF reconcileUserSnapshot, Later, First
<1>3. \A o \in NewUsers(s) : /\ First(s, number, o).id = number[o] /\ First(s, number, o).external = o
                             /\ \A u \in users : number[o] # u.id /\ o # u.external
  BY <1>1 DEF First, NewUsers, Numberings, IdsOf
<1>4. \A o, q \in NewUsers(s) : number[o] = number[q] => o = q
  BY <1>1 DEF Numberings
<1>5. \A u \in users : Later(s, u).id = u.id /\ Later(s, u).external = u.external
  BY LaterKeepsIdentity DEF TypeOK
<1> HIDE DEF s
<1> SUFFICES ASSUME NEW u \in users', NEW v \in users', u.id = v.id \/ u.external = v.external
             PROVE  u = v
  BY DEF OneRow
<1>6. CASE (\E x \in users : u = Later(s, x)) /\ (\E y \in users : v = Later(s, y))
  BY <1>5, <1>6 DEF OneRow
<1>7. CASE (\E x \in users : u = Later(s, x)) /\ (\E q \in NewUsers(s) : v = First(s, number, q))
  BY <1>3, <1>5, <1>7
<1>8. CASE (\E o \in NewUsers(s) : u = First(s, number, o)) /\ (\E y \in users : v = Later(s, y))
  BY <1>3, <1>5, <1>8
<1>9. CASE (\E o \in NewUsers(s) : u = First(s, number, o)) /\ (\E q \in NewUsers(s) : v = First(s, number, q))
  BY <1>3, <1>4, <1>9
<1> QED
  BY <1>2, <1>6, <1>7, <1>8, <1>9

LEMMA OneRowPreserved == TypeOK /\ OneRow /\ [Next]_vars => OneRow'
<1> SUFFICES ASSUME TypeOK, OneRow, [Next]_vars PROVE OneRow'
  OBVIOUS
<1>1. ASSUME NEW w \in users, DeleteUser(w) PROVE OneRow'
  <2> DEFINE gone == [w EXCEPT !.active = FALSE]
  <2>1. gone.id = w.id /\ gone.external = w.external
    BY DEF TypeOK, UserRows
  <2>2. users' = (users \ {w}) \cup {gone}
    BY <1>1 DEF DeleteUser
  <2> HIDE DEF gone
  <2> QED
    BY <2>1, <2>2 DEF OneRow
<1>2. ASSUME NEW p \in Processes, Work(p) \/ Advance(p) \/ Fail(p) \/ Crash(p) PROVE OneRow'
  <2>1. CASE ApplyProviderSnapshot(p)
    BY <2>1, ApplyOneRow
  <2>2. CASE ~ApplyProviderSnapshot(p)
    <3>1. users' = users
      BY <1>2, <2>2, StepTyped DEF Advance, directory
    <3> QED
      BY <3>1 DEF OneRow
  <2> QED
    BY <2>1, <2>2
<1>3. CASE Tenant \/ (\E G \in SUBSET groups : Restrict(G)) \/ Enqueue \/ Rescue \/ UNCHANGED vars
  <2>1. users' = users
    BY <1>3 DEF Tenant, SaveAccount, RemoveAccount, AddGroup, RemoveGroup, Join, Leave, Restrict, Enqueue,
                Rescue, vars, directory
  <2> QED
    BY <2>1 DEF OneRow
<1> QED
  BY <1>1, <1>2, <1>3 DEF Next, Admin

\* However often people leave, return and take over each other's addresses, nobody has two rows and
\* no row serves two people.
THEOREM OneRowPerPerson == Spec => []OneRow
<1>1. Init => TypeOK /\ OneRow
  BY InitTyped DEF Init, OneRow
<1>2. TypeOK /\ OneRow /\ [Next]_vars => (TypeOK /\ OneRow)'
  BY TypePreserved, OneRowPreserved
<1> QED
  BY <1>1, <1>2, PTL DEF Spec

=============================================================================
