----------------------------- MODULE GroupKeys -----------------------------
(***************************************************************************)
(* Group membership, group key versions and identity keys, as the request  *)
(* handlers of GroupService, E2EEService and the sending half of           *)
(* ChatService keep them in PostgreSQL under two in-memory locks:          *)
(*   - a mutex per stripe of group ids (e2ee_group_state_lock.go);         *)
(*   - one global read/write lock on identity keys                         *)
(*     (e2ee_identity_state_lock.go).                                      *)
(* One handler is one process.  A step is one database transaction, one    *)
(* lock operation, or a run of reads made under locks that no other step   *)
(* can disturb.  The server may crash, a statement may fail, and account   *)
(* deletion runs beside everything without taking either lock.             *)
(***************************************************************************)
EXTENDS Naturals, FiniteSets

CONSTANTS
    Users,            \* accounts
    Groups,           \* group ids, natural numbers
    Procs,            \* request goroutines that can be in flight at once
    None,             \* "nobody": a free lock, no user, no group
    LockCount,        \* e2eeGroupStateLockCount (64 in the code)
    Requests,         \* the operations that clients call in an instance
    MaxGroupMembers,  \* maxGroupMembers (500 in the code)
    MaxKey,           \* bound: identity keys a user may publish are 1..MaxKey
    MaxVersion,       \* bound: versions a group may reach
    MaxFailures,      \* bound: database statements that fail
    MaxCrashes,       \* bound: server restarts
    MaxDeletions      \* bound: accounts deleted

ASSUME ConstantsAssumption ==
    /\ Groups \subseteq Nat
    /\ LockCount \in Nat \ {0}
    /\ MaxGroupMembers \in Nat /\ MaxKey \in Nat /\ MaxVersion \in Nat
    /\ MaxFailures \in Nat /\ MaxCrashes \in Nat /\ MaxDeletions \in Nat
    /\ None \notin Users \cup Groups \cup Procs
    /\ IsFiniteSet(Procs)

VARIABLES
    accounts,         \* users not deleted
    state,            \* chat_group row: "absent", "live", "deleted"
    owner,            \* chat_group.owner_id
    members,          \* chat_group_member rows not deleted
    version,          \* highest e2ee_group_key version, 0 when none
    boxes,            \* e2ee_group_key_box rows of the highest version; the
                      \* rows of older versions stay as they are
    idkey,            \* e2ee_user_public_key row, 0 when none
    groupLock,        \* owner of each stripe mutex
    identityWriter,   \* holder of the write side
    identityReaders,  \* holders of the read side
    task,             \* the request each process is serving
    told,             \* versions announced by e2ee_group_key_changed
    failures, crashes

rows == <<accounts, state, owner, members, version, boxes, idkey>>
locks == <<groupLock, identityWriter, identityReaders>>
faults == <<failures, crashes>>
vars == <<rows, locks, task, told, faults>>

----------------------------------------------------------------------------
(* The data the handlers carry.                                            *)

\* A box: the group key of a version, as client "by" wraps it for a user's key.
Boxes == [user : Users, key : Nat \ {0}, by : Users]
Cargo == Users \X Nat                           \* whose box, wrapped for which key

Pcs == {"idle", "rlock", "wlock", "glock", "check", "write", "rotate", "rollback",
        "notify", "deliver", "fetch", "upsert", "list", "each", "restore"}
Ops == {"none", "create", "add", "remove", "leave", "delete", "rotate", "boxes",
        "group", "single", "publish"}

Records == [pc : Pcs, op : Ops, user : Users \cup {None}, group : Groups \cup {None},
            users : SUBSET Users, key : Nat, ver : Nat, groups : SUBSET Groups,
            cargo : SUBSET Cargo, notes : SUBSET (Groups \X Nat)]

\* What a handler is given: its operation, where it starts, the caller, the
\* group, other users named, an identity key, a version, wrapped keys.
Begin(op, pc, u, g, us, k, v, c) ==
    [pc |-> pc, op |-> op, user |-> u, group |-> g, users |-> us, key |-> k,
     ver |-> v, groups |-> {}, cargo |-> c, notes |-> {}]

Idle == Begin("none", "idle", None, None, {}, 0, 0, {})

\* Which handler can stand where.
Fits(op, pc) ==
    /\ op = "none" <=> pc = "idle"
    /\ pc \in {"wlock", "upsert", "list", "each", "restore"} <=> op = "publish"
    /\ pc = "rlock" => op \in {"rotate", "boxes", "group", "single"}
    /\ pc = "glock" => op # "single"
    /\ pc = "check" => op # "create"
    /\ pc = "write" => op \in {"add", "remove", "leave", "delete", "rotate", "boxes"}
    /\ pc \in {"rotate", "rollback"} => op \in {"create", "add", "remove", "leave"}
    /\ pc = "notify" => op \in {"create", "add", "remove", "leave", "rotate"}
    /\ pc = "deliver" => op \in {"group", "single"}
    /\ pc = "fetch" => op = "boxes"

WellFormed(t) ==
    /\ Fits(t.op, t.pc)
    /\ t.op # "none" => t.user \in Users
    /\ t.op \notin {"none", "single", "publish"} => t.group \in Groups
    /\ t.op = "boxes" => \A c \in t.cargo : c[2] # 0

Tasks == {t \in Records : WellFormed(t)}

Stripe(g) == g % LockCount
Stripes == 0 .. LockCount - 1

Live(g) == state[g] = "live"
IsMember(g, u) == u \in members[g]
Holders(bs) == {b.user : b \in bs}

\* A request that may rotate starts only while every process in flight
\* still has room for one version: the bound never blocks a started one.
HasRoom(g) == version[g] + Cardinality(Procs) <= MaxVersion

----------------------------------------------------------------------------
(* Steps common to all handlers.                                           *)

Become(p, t) == task' = [task EXCEPT ![p] = t]

Start(p, t) == task[p] = Idle /\ t.op \in Requests /\ Become(p, t)

Goto(p, pc) == Become(p, [task[p] EXCEPT !.pc = pc])

At(p, pc, ops) == task[p].pc = pc /\ task[p].op \in ops

\* The deferred unlocks of a handler that returns.
ReleaseAll(p) ==
    /\ groupLock' = [s \in Stripes |-> IF groupLock[s] = p THEN None ELSE groupLock[s]]
    /\ identityWriter' = IF identityWriter = p THEN None ELSE identityWriter
    /\ identityReaders' = identityReaders \ {p}

Return(p) == ReleaseAll(p) /\ Become(p, Idle)

\* A database statement fails.
Fail == failures < MaxFailures /\ failures' = failures + 1 /\ UNCHANGED crashes

\* CreateNextVersion: a version starts without boxes.
NextVersion(g) ==
    /\ version' = [version EXCEPT ![g] = @ + 1]
    /\ boxes' = [boxes EXCEPT ![g] = {}]

----------------------------------------------------------------------------
(* Locks.                                                                  *)

\* RLock: a pending Lock call holds new readers back, as Go's RWMutex does.
AcquireIdentityRead(p) ==
    /\ task[p].pc = "rlock"
    /\ identityWriter = None
    /\ \A q \in Procs : task[q].pc # "wlock"
    /\ identityReaders' = identityReaders \cup {p}
    /\ Goto(p, IF task[p].op = "single" THEN "check" ELSE "glock")
    /\ UNCHANGED <<rows, groupLock, identityWriter, told, faults>>

\* Defect: does not wait for the readers.
AcquireIdentityWriteEarly(p) ==
    /\ task[p].pc = "wlock" /\ identityWriter = None
    /\ identityWriter' = p
    /\ Goto(p, "upsert")
    /\ UNCHANGED <<rows, groupLock, identityReaders, told, faults>>

AcquireIdentityWrite(p) ==
    /\ task[p].pc = "wlock"
    /\ identityWriter = None /\ identityReaders = {}
    /\ identityWriter' = p
    /\ Goto(p, "upsert")
    /\ UNCHANGED <<rows, groupLock, identityReaders, told, faults>>

AcquireGroup(p) ==
    /\ task[p].pc = "glock"
    /\ groupLock[Stripe(task[p].group)] = None
    /\ groupLock' = [groupLock EXCEPT ![Stripe(task[p].group)] = p]
    /\ Goto(p, IF task[p].op = "create" THEN "rotate" ELSE "check")
    /\ UNCHANGED <<rows, identityWriter, identityReaders, told, faults>>

----------------------------------------------------------------------------
(* Requests: what a handler verifies before it takes a lock.               *)

\* groupRepo.Create commits the group before the handler takes any lock.
CreateGroup(p, o, g, invitees) ==
    /\ Start(p, Begin("create", "glock", o, g, invitees, 0, 0, {}))
    /\ state[g] = "absent" /\ HasRoom(g)
    /\ invitees # {} /\ o \notin invitees
    /\ Cardinality(invitees) + 1 <= MaxGroupMembers
    /\ invitees \cup {o} \subseteq accounts
    /\ state' = [state EXCEPT ![g] = "live"]
    /\ owner' = [owner EXCEPT ![g] = o]
    /\ members' = [members EXCEPT ![g] = invitees \cup {o}]
    /\ UNCHANGED <<accounts, version, boxes, idkey, locks, told, faults>>

RequestAdd(p, u, g, us) ==
    /\ Start(p, Begin("add", "glock", u, g, us, 0, 0, {}))
    /\ Live(g) /\ IsMember(g, u) /\ us # {} /\ u \notin us /\ HasRoom(g)
    /\ UNCHANGED <<rows, locks, told, faults>>

RequestRemove(p, u, g, m) ==
    /\ Start(p, Begin("remove", "glock", u, g, {m}, 0, 0, {}))
    /\ Live(g) /\ owner[g] = u /\ m # u /\ HasRoom(g)
    /\ UNCHANGED <<rows, locks, told, faults>>

RequestLeave(p, u, g) ==
    /\ Start(p, Begin("leave", "glock", u, g, {u}, 0, 0, {}))
    /\ Live(g) /\ IsMember(g, u) /\ owner[g] # u /\ HasRoom(g)
    /\ UNCHANGED <<rows, locks, told, faults>>

RequestDelete(p, u, g) ==
    /\ Start(p, Begin("delete", "glock", u, g, {}, 0, 0, {}))
    /\ Live(g) /\ owner[g] = u
    /\ UNCHANGED <<rows, locks, told, faults>>

\* POST /api/e2ee/group/key/rotate, for the version the client has seen.
RequestRotate(p, u, g, expected) ==
    /\ Start(p, Begin("rotate", "rlock", u, g, {}, 0, expected, {}))
    /\ expected \in 1 .. version[g] /\ HasRoom(g)
    /\ UNCHANGED <<rows, locks, told, faults>>

\* A client sends with the keys and the version that are current when it
\* sends; they may be stale when the server looks.  A call signal carries none.
RequestSendGroup(p, u, g, type) ==
    /\ Start(p, Begin("group", "rlock", u, g, {}, idkey[u],
                      IF type = "text" THEN version[g] ELSE 0, {}))
    /\ IsMember(g, u)
    /\ UNCHANGED <<rows, locks, told, faults>>

\* The friendship check (CheckFriendship) comes before the lock.
RequestSendSingle(p, u, to) ==
    /\ Start(p, Begin("single", "rlock", u, None, {}, idkey[u], 0, {<<to, idkey[to]>>}))
    /\ u # to /\ {u, to} \subseteq accounts
    /\ UNCHANGED <<rows, locks, told, faults>>

RequestPublishKey(p, u, k) ==
    /\ Start(p, Begin("publish", "wlock", u, None, {}, k, 0, {}))
    /\ \A g \in Groups : HasRoom(g)
    /\ UNCHANGED <<rows, locks, told, faults>>

----------------------------------------------------------------------------
(* The checks a handler repeats under its locks.                           *)

\* AddMembers drops the invitees who are members already.
NewMembers(t) == t.users \ members[t.group]

TextIsCurrent(t) ==
    /\ t.key # 0 /\ t.key = idkey[t.user]
    /\ t.ver # 0 /\ t.ver = version[t.group]
    /\ Cardinality(boxes[t.group]) = Cardinality(members[t.group])
    /\ Holders(boxes[t.group]) = members[t.group]

Admissible(t) ==
    CASE t.op = "add" ->
            /\ Live(t.group) /\ IsMember(t.group, t.user) /\ NewMembers(t) # {}
            /\ Cardinality(members[t.group] \cup NewMembers(t)) <= MaxGroupMembers
            /\ {t.user} \cup NewMembers(t) \subseteq accounts
      [] t.op = "remove" -> Live(t.group) /\ t.users \subseteq members[t.group]
      [] t.op = "leave" -> t.users \subseteq members[t.group]
      [] t.op = "delete" -> Live(t.group)
      [] t.op = "rotate" -> IsMember(t.group, t.user)
      [] t.op = "boxes" -> /\ IsMember(t.group, t.user)
                           /\ t.ver = version[t.group] /\ t.ver # 0
                           /\ {c[1] : c \in t.cargo} = members[t.group]
      [] t.op = "group" -> IsMember(t.group, t.user) /\ (t.ver = 0 \/ TextIsCurrent(t))
      [] t.op = "single" -> /\ t.key # 0 /\ t.key = idkey[t.user]
                            /\ \A c \in t.cargo : c[2] # 0 /\ c[2] = idkey[c[1]]
      [] OTHER -> FALSE

Refuse(p) ==
    /\ task[p].pc = "check" /\ ~Admissible(task[p])
    /\ Return(p)
    /\ UNCHANGED <<rows, told, faults>>

Pass(p) ==
    /\ At(p, "check", {"add", "remove", "leave", "delete", "rotate", "boxes"})
    /\ Admissible(task[p])
    /\ Become(p, [task[p] EXCEPT !.pc = "write",
          !.users = IF task[p].op = "add" THEN NewMembers(task[p]) ELSE task[p].users])
    /\ UNCHANGED <<rows, locks, told, faults>>

----------------------------------------------------------------------------
(* GroupService under the group lock.                                      *)

\* Defect: adds the members and skips the rotation.
AddMembersUnrotated(p) ==
    /\ At(p, "write", {"add"})
    /\ members' = [members EXCEPT ![task[p].group] = @ \cup task[p].users]
    /\ Return(p)
    /\ UNCHANGED <<accounts, state, owner, version, boxes, idkey, told, faults>>

AddMembers(p) ==
    /\ At(p, "write", {"add"})
    /\ members' = [members EXCEPT ![task[p].group] = @ \cup task[p].users]
    /\ Goto(p, "rotate")
    /\ UNCHANGED <<accounts, state, owner, version, boxes, idkey, locks, told, faults>>

\* Defect: removes the member and skips the rotation.
RemoveMemberUnrotated(p) ==
    /\ At(p, "write", {"remove", "leave"})
    /\ members' = [members EXCEPT ![task[p].group] = @ \ task[p].users]
    /\ Return(p)
    /\ UNCHANGED <<accounts, state, owner, version, boxes, idkey, told, faults>>

RemoveMember(p) ==
    /\ At(p, "write", {"remove", "leave"})
    /\ members' = [members EXCEPT ![task[p].group] = @ \ task[p].users]
    /\ Goto(p, "rotate")
    /\ UNCHANGED <<accounts, state, owner, version, boxes, idkey, locks, told, faults>>

DeleteGroup(p) ==
    /\ At(p, "write", {"delete"})
    /\ members' = [members EXCEPT ![task[p].group] = {}]
    /\ state' = [state EXCEPT ![task[p].group] = "deleted"]
    /\ Return(p)
    /\ UNCHANGED <<accounts, owner, version, boxes, idkey, told, faults>>

\* RotateGroupKey, then the read of the version it made.
CanRotate(g) == Live(g) /\ members[g] # {}

Rotate(p) ==
    LET g == task[p].group IN
    /\ task[p].pc = "rotate" /\ CanRotate(g)
    /\ NextVersion(g)
    /\ Become(p, [task[p] EXCEPT !.pc = "notify", !.ver = version[g] + 1])
    /\ UNCHANGED <<accounts, state, owner, members, idkey, locks, told, faults>>

RotateRefused(p) ==
    /\ task[p].pc = "rotate" /\ ~CanRotate(task[p].group)
    /\ Goto(p, "rollback")
    /\ UNCHANGED <<rows, locks, told, faults>>

\* The rotation fails, or it commits and reading its version back fails.
RotateFails(p) ==
    LET g == task[p].group IN
    /\ task[p].pc = "rotate" /\ Fail
    /\ (CanRotate(g) /\ NextVersion(g)) \/ UNCHANGED <<version, boxes>>
    /\ Goto(p, "rollback")
    /\ UNCHANGED <<accounts, state, owner, members, idkey, locks, told>>

\* Defect: takes an invitation back, but puts nobody in again.
RollbackAddOnly(p) ==
    LET g == task[p].group  op == task[p].op IN
    /\ task[p].pc = "rollback"
    /\ state' = IF op = "create" THEN [state EXCEPT ![g] = "deleted"] ELSE state
    /\ members' = [members EXCEPT ![g] =
                      IF op = "create" THEN {}
                      ELSE IF op = "add" THEN @ \ task[p].users ELSE @]
    /\ Return(p)
    /\ UNCHANGED <<accounts, owner, version, boxes, idkey, told, faults>>

Rollback(p) ==
    LET g == task[p].group  op == task[p].op IN
    /\ task[p].pc = "rollback"
    /\ state' = IF op = "create" THEN [state EXCEPT ![g] = "deleted"] ELSE state
    /\ members' = [members EXCEPT ![g] =
                      IF op = "create" THEN {}
                      ELSE IF op = "add" THEN @ \ task[p].users ELSE @ \cup task[p].users]
    /\ Return(p)
    /\ UNCHANGED <<accounts, owner, version, boxes, idkey, told, faults>>

\* AddMembers takes its invitees out one by one and goes on past a failure;
\* the other rollbacks are one statement.
RollbackFails(p) ==
    /\ task[p].pc = "rollback" /\ Fail
    /\ \E out \in SUBSET task[p].users :
          /\ out # {} => task[p].op = "add" /\ out # task[p].users
          /\ members' = [members EXCEPT ![task[p].group] = @ \ out]
    /\ Return(p)
    /\ UNCHANGED <<accounts, state, owner, version, boxes, idkey, told>>

\* A group whose members are gone is told nothing.
Tell(g, v) == told' = IF members[g] = {} THEN told ELSE [told EXCEPT ![g] = told[g] \cup {v}]

\* Defect: returns without the deferred unlocks.
NotifyGroupKeyChangedLocked(p) ==
    /\ task[p].pc = "notify"
    /\ Tell(task[p].group, task[p].ver)
    /\ Become(p, Idle)
    /\ UNCHANGED <<rows, locks, faults>>

NotifyGroupKeyChanged(p) ==
    /\ task[p].pc = "notify"
    /\ Tell(task[p].group, task[p].ver)
    /\ Return(p)
    /\ UNCHANGED <<rows, faults>>

\* The members cannot be read: nobody is told, the request succeeds.
NotifyFails(p) ==
    /\ task[p].pc = "notify" /\ Fail
    /\ Return(p)
    /\ UNCHANGED <<rows, told>>

----------------------------------------------------------------------------
(* E2EEService.                                                            *)

\* Defect: answers the caller and tells nobody else.
RotateGroupKeySilently(p) ==
    LET g == task[p].group IN
    /\ At(p, "write", {"rotate"}) /\ Live(g)
    /\ IF task[p].ver = version[g] THEN NextVersion(g) ELSE UNCHANGED <<version, boxes>>
    /\ Return(p)
    /\ UNCHANGED <<accounts, state, owner, members, idkey, told, faults>>

\* CreateNextVersionIfCurrent: a stale expectation answers with the version
\* that is current.  Either way the version is newer and is announced.
RotateGroupKeyIfCurrent(p) ==
    LET g == task[p].group IN
    /\ At(p, "write", {"rotate"}) /\ Live(g)
    /\ IF task[p].ver = version[g] THEN NextVersion(g) ELSE UNCHANGED <<version, boxes>>
    /\ Become(p, [task[p] EXCEPT !.pc = "notify", !.ver = version'[g]])
    /\ UNCHANGED <<accounts, state, owner, members, idkey, locks, told, faults>>

\* Defect: does not look for boxes already there.
ReplaceVersionBoxesAgain(p) ==
    LET t == task[p]  g == t.group IN
    /\ At(p, "write", {"boxes"}) /\ Live(g) /\ t.ver = version[g]
    /\ boxes' = [boxes EXCEPT ![g] = @ \cup
          {[user |-> c[1], key |-> c[2], by |-> t.user] : c \in t.cargo}]
    /\ Return(p)
    /\ UNCHANGED <<accounts, state, owner, members, version, idkey, told, faults>>

\* ReplaceVersionBoxes: only the current version, and only once.
ReplaceVersionBoxes(p) ==
    LET t == task[p]  g == t.group IN
    /\ At(p, "write", {"boxes"}) /\ Live(g)
    /\ t.ver = version[g] /\ boxes[g] = {}
    /\ boxes' = [boxes EXCEPT ![g] = @ \cup
          {[user |-> c[1], key |-> c[2], by |-> t.user] : c \in t.cargo}]
    /\ Return(p)
    /\ UNCHANGED <<accounts, state, owner, members, version, idkey, told, faults>>

\* The transaction finds the group gone, the version stale, or boxes there.
WriteRefused(p) ==
    LET t == task[p]  g == t.group IN
    /\ At(p, "write", {"rotate", "boxes"})
    /\ \/ ~Live(g)
       \/ t.op = "boxes" /\ (t.ver # version[g] \/ boxes[g] # {})
    /\ Return(p)
    /\ UNCHANGED <<rows, told, faults>>

\* A read of the checks fails, or the write they allow does.
StatementFails(p) ==
    /\ task[p].pc \in {"check", "write"} /\ Fail
    /\ Return(p)
    /\ UNCHANGED <<rows, told>>

\* PublishUserPublicKey under the identity write lock; ver keeps the old key.
Upsert(p) ==
    LET u == task[p].user  new == task[p].key IN
    /\ task[p].pc = "upsert"
    /\ idkey' = [idkey EXCEPT ![u] = new]
    /\ IF idkey[u] = new
       THEN Return(p)
       ELSE Become(p, [task[p] EXCEPT !.pc = "list", !.ver = idkey[u]]) /\ UNCHANGED locks
    /\ UNCHANGED <<accounts, state, owner, members, version, boxes, told, faults>>

UpsertFails(p) ==
    /\ task[p].pc = "upsert" /\ Fail
    /\ Return(p)
    /\ UNCHANGED <<rows, told>>

\* Defect: rotates only the groups the user owns.
ListOwnGroups(p) ==
    /\ task[p].pc = "list"
    /\ Become(p, [task[p] EXCEPT !.pc = "each",
          !.groups = {g \in Groups : Live(g) /\ owner[g] = task[p].user}])
    /\ UNCHANGED <<rows, locks, told, faults>>

\* GetGroupsByUserID reads memberships without any group lock.
ListGroups(p) ==
    /\ task[p].pc = "list"
    /\ Become(p, [task[p] EXCEPT !.pc = "each",
          !.groups = {g \in Groups : Live(g) /\ IsMember(g, task[p].user)}])
    /\ UNCHANGED <<rows, locks, told, faults>>

\* Lock the group, CreateNextVersion, unlock: nothing else happens between.
RotateOne(p, g) ==
    /\ task[p].pc = "each" /\ g \in task[p].groups
    /\ groupLock[Stripe(g)] = None /\ Live(g)
    /\ NextVersion(g)
    /\ Become(p, [task[p] EXCEPT !.groups = task[p].groups \ {g},
                                  !.notes = task[p].notes \cup {<<g, version[g] + 1>>}])
    /\ UNCHANGED <<accounts, state, owner, members, idkey, locks, told, faults>>

RotateOneRefused(p, g) ==
    /\ task[p].pc = "each" /\ g \in task[p].groups
    /\ groupLock[Stripe(g)] = None /\ ~Live(g)
    /\ Goto(p, "restore")
    /\ UNCHANGED <<rows, locks, told, faults>>

\* Listing the groups or rotating one of them fails.
RotateOneFails(p) ==
    /\ \/ task[p].pc = "list"
       \/ task[p].pc = "each" /\ \E g \in task[p].groups : groupLock[Stripe(g)] = None
    /\ Fail
    /\ Goto(p, "restore")
    /\ UNCHANGED <<rows, locks, told>>

\* notifyGroupKeyChanged, once every group is rotated and unlocked.
Announce(p, n) ==
    /\ task[p].pc = "each" /\ task[p].groups = {} /\ n \in task[p].notes
    /\ Tell(n[1], n[2])
    /\ Become(p, [task[p] EXCEPT !.notes = task[p].notes \ {n}])
    /\ UNCHANGED <<rows, locks, faults>>

AnnounceFails(p, n) ==
    /\ task[p].pc = "each" /\ task[p].groups = {} /\ n \in task[p].notes /\ Fail
    /\ Become(p, [task[p] EXCEPT !.notes = task[p].notes \ {n}])
    /\ UNCHANGED <<rows, locks, told>>

PublishReturns(p) ==
    /\ task[p].pc = "each" /\ task[p].groups = {} /\ task[p].notes = {}
    /\ Return(p)
    /\ UNCHANGED <<rows, told, faults>>

\* restoreUserPublicKey: a first key is deleted again.
RollbackIdentityChange(p) ==
    /\ task[p].pc = "restore"
    /\ idkey' = [idkey EXCEPT ![task[p].user] = task[p].ver]
    /\ Return(p)
    /\ UNCHANGED <<accounts, state, owner, members, version, boxes, told, faults>>

\* Defect: an error return that keeps the write lock.
RollbackIdentityFailsLocked(p) ==
    /\ task[p].pc = "restore" /\ Fail
    /\ Become(p, Idle)
    /\ UNCHANGED <<rows, locks, told>>

RollbackIdentityFails(p) ==
    /\ task[p].pc = "restore" /\ Fail
    /\ Return(p)
    /\ UNCHANGED <<rows, told>>

----------------------------------------------------------------------------
(* ChatService: accept under the locks, deliver under the read lock only.  *)

\* Defect: delivers without unlocking the group.
AcceptGroupMessageLocked(p) ==
    /\ At(p, "check", {"group"}) /\ Admissible(task[p])
    /\ Goto(p, "deliver")
    /\ UNCHANGED <<rows, locks, told, faults>>

AcceptGroupMessage(p) ==
    LET g == task[p].group IN
    /\ At(p, "check", {"group"}) /\ Admissible(task[p])
    /\ Become(p, [task[p] EXCEPT !.pc = "deliver", !.cargo =
          IF task[p].ver = 0 THEN {} ELSE {<<b.user, b.key>> : b \in boxes[g]}])
    /\ groupLock' = [groupLock EXCEPT ![Stripe(g)] = None]
    /\ UNCHANGED <<rows, identityWriter, identityReaders, told, faults>>

AcceptSingleMessage(p) ==
    /\ At(p, "check", {"single"}) /\ Admissible(task[p])
    /\ Goto(p, "deliver")
    /\ UNCHANGED <<rows, locks, told, faults>>

Deliver(p) ==
    /\ task[p].pc = "deliver"
    /\ Return(p)
    /\ UNCHANGED <<rows, told, faults>>

----------------------------------------------------------------------------
(* The client that wraps a version nobody has wrapped yet (external): it   *)
(* is told 428 by GetGroupCurrentKeyBox, reads the members, fetches the    *)
(* identity key of each with GetUserPublicKey, and posts the boxes.        *)

CanRead == identityWriter = None /\ \A q \in Procs : task[q].pc # "wlock"

GetGroupCurrentKeyBox(p, u, g) ==
    /\ CanRead /\ groupLock[Stripe(g)] = None
    /\ IsMember(g, u) /\ version[g] # 0 /\ u \notin Holders(boxes[g])
    /\ Start(p, Begin("boxes", "fetch", u, g, members[g], 0, version[g], {}))
    /\ UNCHANGED <<rows, locks, told, faults>>

\* Defect: an absent key is answered like any other.
GetUserPublicKeyUnchecked(p, m) ==
    /\ task[p].pc = "fetch" /\ m \in task[p].users /\ CanRead
    /\ Become(p, [task[p] EXCEPT !.users = task[p].users \ {m},
                                  !.cargo = task[p].cargo \cup {<<m, idkey[m]>>}])
    /\ UNCHANGED <<rows, locks, told, faults>>

GetUserPublicKey(p, m) ==
    /\ task[p].pc = "fetch" /\ m \in task[p].users /\ CanRead
    /\ idkey[m] # 0
    /\ Become(p, [task[p] EXCEPT !.users = task[p].users \ {m},
                                  !.cargo = task[p].cargo \cup {<<m, idkey[m]>>}])
    /\ UNCHANGED <<rows, locks, told, faults>>

\* A member without an identity key: the client gives up.
GiveUp(p) ==
    /\ task[p].pc = "fetch" /\ CanRead
    /\ \E m \in task[p].users : idkey[m] = 0
    /\ Become(p, Idle)
    /\ UNCHANGED <<rows, locks, told, faults>>

PostBoxes(p) ==
    /\ task[p].pc = "fetch" /\ task[p].users = {}
    /\ Goto(p, "rlock")
    /\ UNCHANGED <<rows, locks, told, faults>>

----------------------------------------------------------------------------
(* What happens to the handlers.                                           *)

\* userRepo.Delete: one transaction, neither lock, no rotation.
DeleteUser(u) ==
    /\ u \in accounts /\ Cardinality(Users \ accounts) < MaxDeletions
    /\ accounts' = accounts \ {u}
    /\ members' = [g \in Groups |-> members[g] \ {u}]
    /\ boxes' = [g \in Groups |-> {b \in boxes[g] : b.user # u}]
    /\ idkey' = [idkey EXCEPT ![u] = 0]
    /\ UNCHANGED <<state, owner, version, locks, task, told, faults>>

Crash ==
    /\ crashes < MaxCrashes /\ crashes' = crashes + 1
    /\ task' = [p \in Procs |-> Idle]
    /\ groupLock' = [s \in Stripes |-> None]
    /\ identityWriter' = None /\ identityReaders' = {}
    /\ UNCHANGED <<rows, told, failures>>

----------------------------------------------------------------------------
Init ==
    /\ accounts = Users
    /\ state = [g \in Groups |-> "absent"]
    /\ owner = [g \in Groups |-> None]
    /\ members = [g \in Groups |-> {}]
    /\ version = [g \in Groups |-> 0]
    /\ boxes = [g \in Groups |-> {}]
    /\ idkey = [u \in Users |-> 0]
    /\ groupLock = [s \in Stripes |-> None]
    /\ identityWriter = None /\ identityReaders = {}
    /\ task = [p \in Procs |-> Idle]
    /\ told = [g \in Groups |-> {}]
    /\ failures = 0 /\ crashes = 0

Request(p) ==
    /\ task[p] = Idle
    /\ \E u \in Users, g \in Groups :
          \/ \E us \in SUBSET Users : CreateGroup(p, u, g, us) \/ RequestAdd(p, u, g, us)
          \/ \E m \in Users : RequestRemove(p, u, g, m) \/ RequestSendSingle(p, u, m)
          \/ RequestLeave(p, u, g) \/ RequestDelete(p, u, g)
          \/ \E v \in 1 .. MaxVersion : RequestRotate(p, u, g, v)
          \/ \E type \in {"text", "call"} : RequestSendGroup(p, u, g, type)
          \/ \E k \in 1 .. MaxKey : RequestPublishKey(p, u, k)
          \/ GetGroupCurrentKeyBox(p, u, g)

Acquire(p) == AcquireIdentityRead(p) \/ AcquireIdentityWrite(p) \/ AcquireGroup(p)

MemberSteps(p) ==
    \/ Refuse(p) \/ Pass(p)
    \/ AddMembers(p) \/ RemoveMember(p) \/ DeleteGroup(p)
    \/ Rotate(p) \/ RotateRefused(p) \/ Rollback(p) \/ NotifyGroupKeyChanged(p)

KeySteps(p) ==
    \/ RotateGroupKeyIfCurrent(p) \/ ReplaceVersionBoxes(p) \/ WriteRefused(p)
    \/ Upsert(p) \/ ListGroups(p) \/ PublishReturns(p) \/ RollbackIdentityChange(p)
    \/ \E g \in Groups : RotateOne(p, g) \/ RotateOneRefused(p, g)
    \/ \E n \in task[p].notes : Announce(p, n)

SendSteps(p) == AcceptGroupMessage(p) \/ AcceptSingleMessage(p) \/ Deliver(p)

ClientSteps(p) ==
    GiveUp(p) \/ PostBoxes(p) \/ \E m \in task[p].users : GetUserPublicKey(p, m)

FailedSteps(p) ==
    \/ RotateFails(p) \/ RollbackFails(p) \/ StatementFails(p) \/ NotifyFails(p)
    \/ UpsertFails(p) \/ RotateOneFails(p) \/ RollbackIdentityFails(p)
    \/ \E n \in task[p].notes : AnnounceFails(p, n)

Progress(p) == MemberSteps(p) \/ KeySteps(p) \/ SendSteps(p)

Next ==
    \/ \E p \in Procs :
          \/ Request(p) \/ Acquire(p) \/ Progress(p)
          \/ ClientSteps(p) \/ FailedSteps(p)
    \/ \E u \in Users : DeleteUser(u)
    \/ Crash

Spec == Init /\ [][Next]_vars

\* The Go scheduler runs every handler that can run.  A blocked Lock call is
\* granted as long as the lock keeps being freed (sync.Mutex starvation mode,
\* sync.RWMutex hand-off).
Fairness == \A p \in Procs :
    /\ WF_vars(Progress(p))
    /\ SF_vars(AcquireIdentityRead(p))
    /\ SF_vars(AcquireIdentityWrite(p))
    /\ SF_vars(AcquireGroup(p))
    /\ SF_vars(\E g \in Groups : RotateOne(p, g) \/ RotateOneRefused(p, g))

FairSpec == Spec /\ Fairness

----------------------------------------------------------------------------
(* Properties.                                                             *)

\* Every variable keeps its shape.  In particular no box is stored for a user
\* who has no identity key, and no box belongs to version 0.
TypeOK ==
    /\ accounts \subseteq Users
    /\ state \in [Groups -> {"absent", "live", "deleted"}]
    /\ owner \in [Groups -> Users \cup {None}]
    /\ members \in [Groups -> SUBSET Users]
    /\ version \in [Groups -> Nat]
    /\ boxes \in [Groups -> SUBSET Boxes]
    /\ idkey \in [Users -> Nat]
    /\ groupLock \in [Stripes -> Procs \cup {None}]
    /\ identityWriter \in Procs \cup {None}
    /\ identityReaders \subseteq Procs
    /\ task \in [Procs -> Tasks]
    /\ told \in [Groups -> SUBSET Nat]
    /\ failures \in Nat /\ crashes \in Nat

\* The locks a handler must hold, read off from where it stands.
HoldsGroup(p) ==
    /\ task[p].pc \in {"check", "write", "rotate", "rollback", "notify"}
    /\ task[p].op # "single"
HoldsWrite(p) == task[p].pc \in {"upsert", "list", "each", "restore"}
HoldsRead(p) ==
    /\ task[p].op \in {"rotate", "boxes", "group", "single"}
    /\ task[p].pc \in {"glock", "check", "write", "notify", "deliver"}

\* On every path, through refusals, failed statements, rollbacks and restarts,
\* a handler holds exactly the locks its position needs: none is leaked by a
\* return and none is entered without.  Hence two handlers never work on one
\* stripe, and no reader overlaps an identity change.
LocksMatchHandlers ==
    /\ \A p \in Procs : HoldsGroup(p) => groupLock[Stripe(task[p].group)] = p
    /\ \A s \in Stripes : groupLock[s] # None =>
          HoldsGroup(groupLock[s]) /\ Stripe(task[groupLock[s]].group) = s
    /\ \A p \in Procs : HoldsWrite(p) <=> identityWriter = p
    /\ \A p \in Procs : HoldsRead(p) <=> p \in identityReaders
    /\ identityWriter # None => identityReaders = {}

\* All boxes of a version wrap the group key of one client: two members who
\* both answer the 428 never end up with different keys for one version
\* (ReplaceVersionBoxes refuses the second upload).  Two uploads of one client
\* are not told apart.
OneUploadPerVersion ==
    \A g \in Groups : \A a, b \in boxes[g] : a.by = b.by

NoFaults == failures = 0 /\ crashes = 0 /\ accounts = Users

\* While no identity change is under way, a member's box for the current
\* version is wrapped for the identity key the member has now: nobody is
\* handed a box that cannot be opened.
BoxesMatchIdentity ==
    identityWriter = None =>
        \A g \in Groups : \A b \in boxes[g] :
            IsMember(g, b.user) => b.key = idkey[b.user]

\* BoxesMatchIdentity, as long as no statement failed, the server did not
\* restart and no account was deleted: however membership changes, rotations,
\* identity changes and uploads interleave.
BoxesMatchIdentityUnlessFault == NoFaults => BoxesMatchIdentity

\* From acceptance to the end of delivery, each recipient's identity key is
\* the one the message can be opened with ("Identity changes must not
\* interleave with message acceptance").
AcceptedStaysReadable ==
    NoFaults => \A p \in Procs : task[p].pc = "deliver" =>
                   \A c \in task[p].cargo : idkey[c[1]] = c[2]

\* One statement may fail, whichever it is: what its handler does about it works.
OneFailure == failures <= 1 /\ crashes = 0 /\ accounts = Users

\* Outside the group lock the current version is either not wrapped yet or
\* wrapped for exactly the members: no change of membership, and no change
\* taken back after a failure, leaves a version that someone who left can read
\* or someone who joined cannot.
BoxesCoverMembers ==
    OneFailure => \A g \in Groups :
        Live(g) /\ groupLock[Stripe(g)] = None =>
            Holders(boxes[g]) \in {{}, members[g]}

\* The members of a group change only in a handler that holds the group's
\* lock, as each does that rotates the key, or when the group is dissolved.
MembershipChangesRotate ==
    [][\A g \in Groups : Live(g) /\ members'[g] # members[g] =>
          \/ state'[g] = "deleted"
          \/ \E p \in Procs : HoldsGroup(p) /\ task[p].group = g]_vars

\* No deadlock among the two locks, and no starvation: every handler that was
\* entered returns, whatever it meets on its way.
EveryRequestReturns ==
    \A p \in Procs : task[p].pc \notin {"idle", "fetch"} ~> task[p] = Idle

\* The members of a group that lives on hear of every version, or of a newer
\* one: no interleaving of rotations, identity changes and the creation of the
\* group, with messages in between, leaves them with a version nobody announced.
EveryVersionAnnounced ==
    \A g \in Groups : \A v \in 1 .. MaxVersion :
        version[g] = v ~>
            (\E w \in told[g] : w >= v) \/ ~Live(g) \/ members[g] = {}
=============================================================================
