-------------------------- MODULE GroupKeysProofs --------------------------
(***************************************************************************)
(* What holds of GroupKeys for every number of users, groups, processes    *)
(* and stripes, and for any number of failures, restarts and deletions.    *)
(***************************************************************************)
EXTENDS GroupKeys, TLAPS

----------------------------------------------------------------------------
(* Lemmas about tasks.  Tasks stays folded everywhere else.                *)

\* An idle process is well formed.
LEMMA IdleIsTask == Idle \in Tasks
  BY ConstantsAssumption DEF Tasks, Records, WellFormed, Fits, Idle, Begin, Pcs, Ops, Cargo

\* A request that fits its handler is well formed.
LEMMA BeginIsTask ==
  ASSUME NEW op \in Ops \ {"none"}, NEW pc \in Pcs, Fits(op, pc), NEW u \in Users,
         NEW g \in Groups \cup {None}, op \notin {"single", "publish"} => g \in Groups,
         NEW us \in SUBSET Users, NEW k \in Nat, NEW v \in Nat,
         NEW c \in SUBSET Cargo, op = "boxes" => c = {}
  PROVE  Begin(op, pc, u, g, us, k, v, c) \in Tasks
  BY DEF Begin, Tasks, Records, WellFormed

\* A task at hand has typed fields and stands where its handler can stand.
LEMMA TaskFacts ==
  ASSUME NEW t \in Tasks
  PROVE  /\ t \in Records
         /\ Fits(t.op, t.pc)
         /\ t.pc # "idle" => t.user \in Users
         /\ t.op \notin {"none", "single", "publish"} => t.group \in Groups
         /\ t.op = "boxes" => \A c \in t.cargo : c[2] # 0
  BY DEF Tasks, WellFormed, Fits

\* Moving a task to a place that fits keeps it well formed.
LEMMA MovedIsTask ==
  ASSUME NEW t \in Tasks, NEW pc \in Pcs, Fits(t.op, pc)
  PROVE  [t EXCEPT !.pc = pc] \in Tasks
  BY DEF Tasks, Records, WellFormed

\* So does giving a field a value of its type.
LEMMA EditedIsTask ==
  ASSUME NEW t \in Tasks
  PROVE  /\ \A us \in SUBSET Users : [t EXCEPT !.users = us] \in Tasks
         /\ \A v \in Nat : [t EXCEPT !.ver = v] \in Tasks
         /\ \A gs \in SUBSET Groups : [t EXCEPT !.groups = gs] \in Tasks
         /\ \A ns \in SUBSET (Groups \X Nat) : [t EXCEPT !.notes = ns] \in Tasks
         /\ \A c \in SUBSET Cargo : (t.op = "boxes" => \A x \in c : x[2] # 0)
                                      => [t EXCEPT !.cargo = c] \in Tasks
  BY DEF Tasks, Records, WellFormed

\* Both at once.
LEMMA MovedAndEdited ==
  ASSUME NEW t \in Tasks, NEW pc \in Pcs, Fits(t.op, pc)
  PROVE  /\ \A us \in SUBSET Users : [t EXCEPT !.pc = pc, !.users = us] \in Tasks
         /\ \A v \in Nat : [t EXCEPT !.pc = pc, !.ver = v] \in Tasks
         /\ \A gs \in SUBSET Groups : [t EXCEPT !.pc = pc, !.groups = gs] \in Tasks
         /\ \A c \in SUBSET Cargo : (t.op = "boxes" => \A x \in c : x[2] # 0)
                                      => [t EXCEPT !.pc = pc, !.cargo = c] \in Tasks
  BY DEF Tasks, Records, WellFormed

\* Two fields of a task at its place.
LEMMA EditedTwice ==
  ASSUME NEW t \in Tasks
  PROVE  /\ \A gs \in SUBSET Groups, ns \in SUBSET (Groups \X Nat) :
              [t EXCEPT !.groups = gs, !.notes = ns] \in Tasks
         /\ \A us \in SUBSET Users, c \in SUBSET Cargo :
              (t.op = "boxes" => \A x \in c : x[2] # 0)
                => [t EXCEPT !.users = us, !.cargo = c] \in Tasks
  BY DEF Tasks, Records, WellFormed

\* A well-formed task keeps the type of task.
LEMMA BecomeTyped ==
  ASSUME TypeOK, NEW p \in Procs, NEW t \in Tasks, Become(p, t)
  PROVE  task' \in [Procs -> Tasks]
  BY DEF Become, TypeOK

\* So does a move to a place that fits the operation.
LEMMA GotoTyped ==
  ASSUME TypeOK, NEW p \in Procs, NEW pc \in Pcs, Fits(task[p].op, pc), Goto(p, pc)
  PROVE  task' \in [Procs -> Tasks]
  <1>1. task[p] \in Tasks
    BY DEF TypeOK
  <1>2. [task[p] EXCEPT !.pc = pc] \in Tasks
    BY <1>1, MovedIsTask
  <1> QED
    BY <1>2, BecomeTyped DEF Goto

\* A new version keeps the types of version and boxes.
LEMMA NextVersionTyped ==
  ASSUME TypeOK, NEW g \in Groups, NextVersion(g)
  PROVE  version' \in [Groups -> Nat] /\ boxes' \in [Groups -> SUBSET Boxes]
  BY DEF NextVersion, TypeOK

\* A return keeps the types of task and locks.
LEMMA ReturnTyped ==
  ASSUME TypeOK, NEW p \in Procs, Return(p)
  PROVE  /\ task' \in [Procs -> Tasks]
         /\ groupLock' \in [Stripes -> Procs \cup {None}]
         /\ identityWriter' \in Procs \cup {None}
         /\ identityReaders' \subseteq Procs
  BY IdleIsTask, BecomeTyped DEF Return, ReleaseAll, TypeOK

----------------------------------------------------------------------------
(* Type correctness.                                                       *)

\* Before the first request.
LEMMA InitTypeOK == Init => TypeOK
  BY IdleIsTask, ConstantsAssumption DEF Init, TypeOK

\* Every request keeps the types.
LEMMA RequestTypeOK ==
  ASSUME TypeOK, NEW p \in Procs, Request(p)
  PROVE  TypeOK'
<1> PICK u \in Users, g \in Groups :
      \/ \E us \in SUBSET Users : CreateGroup(p, u, g, us) \/ RequestAdd(p, u, g, us)
      \/ \E m \in Users : RequestRemove(p, u, g, m) \/ RequestSendSingle(p, u, m)
      \/ RequestLeave(p, u, g) \/ RequestDelete(p, u, g)
      \/ \E v \in 1 .. MaxVersion : RequestRotate(p, u, g, v)
      \/ \E type \in {"text", "call"} : RequestSendGroup(p, u, g, type)
      \/ \E k \in 1 .. MaxKey : RequestPublishKey(p, u, k)
      \/ GetGroupCurrentKeyBox(p, u, g)
  BY DEF Request
<1> USE ConstantsAssumption DEF TypeOK, Start, Become, Ops, Pcs, Fits, Cargo, rows, locks, faults
<1>1. ASSUME NEW us \in SUBSET Users, CreateGroup(p, u, g, us) PROVE TypeOK'
  BY <1>1, BeginIsTask DEF CreateGroup
<1>2. ASSUME NEW us \in SUBSET Users, RequestAdd(p, u, g, us) PROVE TypeOK'
  BY <1>2, BeginIsTask DEF RequestAdd
<1>3. ASSUME NEW m \in Users, RequestRemove(p, u, g, m) PROVE TypeOK'
  <2>1. Begin("remove", "glock", u, g, {m}, 0, 0, {}) \in Tasks
    BY BeginIsTask
  <2> QED
    BY <1>3, <2>1 DEF RequestRemove
<1>4. ASSUME NEW m \in Users, RequestSendSingle(p, u, m) PROVE TypeOK'
  <2>1. {<<m, idkey[m]>>} \in SUBSET Cargo
    OBVIOUS
  <2>2. Begin("single", "rlock", u, None, {}, idkey[u], 0, {<<m, idkey[m]>>}) \in Tasks
    BY <2>1, BeginIsTask
  <2> QED
    BY <1>4, <2>2 DEF RequestSendSingle
<1>5. ASSUME RequestLeave(p, u, g) PROVE TypeOK'
  BY <1>5, BeginIsTask DEF RequestLeave
<1>6. ASSUME RequestDelete(p, u, g) PROVE TypeOK'
  BY <1>6, BeginIsTask DEF RequestDelete
<1>7. ASSUME NEW v \in 1 .. MaxVersion, RequestRotate(p, u, g, v) PROVE TypeOK'
  BY <1>7, BeginIsTask DEF RequestRotate
<1>8. ASSUME NEW type \in {"text", "call"}, RequestSendGroup(p, u, g, type) PROVE TypeOK'
  BY <1>8, BeginIsTask DEF RequestSendGroup
<1>9. ASSUME NEW k \in 1 .. MaxKey, RequestPublishKey(p, u, k) PROVE TypeOK'
  <2>1. k \in Nat
    OBVIOUS
  <2>2. Begin("publish", "wlock", u, None, {}, k, 0, {}) \in Tasks
    <3>1. Fits("publish", "wlock")
      OBVIOUS
    <3> HIDE DEF Fits
    <3> QED
      BY <2>1, <3>1, BeginIsTask
  <2> QED
    BY <1>9, <2>2 DEF RequestPublishKey
<1>10. ASSUME GetGroupCurrentKeyBox(p, u, g) PROVE TypeOK'
  BY <1>10, BeginIsTask DEF GetGroupCurrentKeyBox
<1> QED
  BY <1>1, <1>2, <1>3, <1>4, <1>5, <1>6, <1>7, <1>8, <1>9, <1>10
\* Every lock operation does.
LEMMA AcquireTypeOK ==
  ASSUME TypeOK, NEW p \in Procs, Acquire(p)
  PROVE  TypeOK'
<1> task[p] \in Tasks
  BY DEF TypeOK
<1> /\ Fits(task[p].op, task[p].pc)
    /\ task[p] \in Records
    /\ task[p].pc # "idle" => task[p].user \in Users
    /\ task[p].op \notin {"none", "single", "publish"} => task[p].group \in Groups
    /\ task[p].op = "boxes" => \A c \in task[p].cargo : c[2] # 0
  BY TaskFacts
<1> USE DEF rows, locks, faults, At, Fail
<1>1. ASSUME AcquireIdentityRead(p) PROVE TypeOK'
  <2>1. task' \in [Procs -> Tasks]
    BY <1>1, GotoTyped DEF AcquireIdentityRead, Fits, Pcs
  <2> QED
    BY <1>1, <2>1 DEF AcquireIdentityRead, TypeOK
<1>2. ASSUME AcquireIdentityWrite(p) PROVE TypeOK'
  <2>1. task' \in [Procs -> Tasks]
    BY <1>2, GotoTyped DEF AcquireIdentityWrite, Fits, Pcs
  <2> QED
    BY <1>2, <2>1 DEF AcquireIdentityWrite, TypeOK
<1>3. ASSUME AcquireGroup(p) PROVE TypeOK'
  <2>1. task' \in [Procs -> Tasks]
    BY <1>3, GotoTyped DEF AcquireGroup, Fits, Pcs
  <2> QED
    BY <1>3, <2>1 DEF AcquireGroup, TypeOK
<1> QED
  BY <1>1, <1>2, <1>3 DEF Acquire

\* Every step of GroupService does.
LEMMA MemberTypeOK ==
  ASSUME TypeOK, NEW p \in Procs, MemberSteps(p)
  PROVE  TypeOK'
<1> task[p] \in Tasks
  BY DEF TypeOK
<1> /\ Fits(task[p].op, task[p].pc)
    /\ task[p] \in Records
    /\ task[p].pc # "idle" => task[p].user \in Users
    /\ task[p].op \notin {"none", "single", "publish"} => task[p].group \in Groups
    /\ task[p].op = "boxes" => \A c \in task[p].cargo : c[2] # 0
  BY TaskFacts
<1> USE DEF rows, locks, faults, At, Fail
<1>1. ASSUME Refuse(p) PROVE TypeOK'
  BY <1>1, ReturnTyped DEF Refuse, TypeOK
<1>2. ASSUME Pass(p) PROVE TypeOK'
  <2>1. [task[p] EXCEPT !.pc = "write",
          !.users = IF task[p].op = "add" THEN NewMembers(task[p]) ELSE task[p].users] \in Tasks
    <3>1. task[p].op \in Ops /\ Fits(task[p].op, "write")
      BY <1>2 DEF Pass, Fits, Records, Ops
    <3>2. (IF task[p].op = "add" THEN NewMembers(task[p]) ELSE task[p].users) \in SUBSET Users
      BY <1>2 DEF Pass, TypeOK, Records, NewMembers
    <3> QED
      BY <3>1, <3>2, MovedAndEdited DEF Pcs
  <2>2. task' \in [Procs -> Tasks]
    BY <1>2, <2>1, BecomeTyped DEF Pass
  <2> QED
    BY <1>2, <2>2 DEF Pass, TypeOK
<1>3. ASSUME AddMembers(p) PROVE TypeOK'
  <2>1. task' \in [Procs -> Tasks]
    BY <1>3, GotoTyped DEF AddMembers, Fits, Pcs
  <2>2. members' \in [Groups -> SUBSET Users]
    BY <1>3 DEF AddMembers, TypeOK, Records
  <2> QED
    BY <1>3, <2>1, <2>2 DEF AddMembers, TypeOK
<1>4. ASSUME RemoveMember(p) PROVE TypeOK'
  <2>1. task' \in [Procs -> Tasks]
    BY <1>4, GotoTyped DEF RemoveMember, Fits, Pcs
  <2> QED
    BY <1>4, <2>1 DEF RemoveMember, TypeOK
<1>5. ASSUME DeleteGroup(p) PROVE TypeOK'
  BY <1>5, ReturnTyped DEF DeleteGroup, TypeOK
<1>6. ASSUME Rotate(p) PROVE TypeOK'
  <2>1. [task[p] EXCEPT !.pc = "notify", !.ver = version[task[p].group] + 1] \in Tasks
    <3>1. task[p].op \in Ops /\ Fits(task[p].op, "notify")
      BY <1>6 DEF Rotate, Fits, Records, Ops
    <3>2. version[task[p].group] + 1 \in Nat
      BY <1>6 DEF Rotate, TypeOK, Fits
    <3> QED
      BY <3>1, <3>2, MovedAndEdited DEF Pcs
  <2>2. task' \in [Procs -> Tasks]
    BY <1>6, <2>1, BecomeTyped DEF Rotate
  <2> QED
    <3>1. task[p].group \in Groups /\ NextVersion(task[p].group)
      BY <1>6 DEF Rotate, Fits
    <3>2. version' \in [Groups -> Nat] /\ boxes' \in [Groups -> SUBSET Boxes]
      BY <3>1, NextVersionTyped
    <3> QED
      BY <1>6, <2>2, <3>2 DEF Rotate, TypeOK
<1>7. ASSUME RotateRefused(p) PROVE TypeOK'
  <2>1. task' \in [Procs -> Tasks]
    BY <1>7, GotoTyped DEF RotateRefused, Fits, Pcs
  <2> QED
    BY <1>7, <2>1 DEF RotateRefused, TypeOK
<1>8. ASSUME Rollback(p) PROVE TypeOK'
  <2>1. members' \in [Groups -> SUBSET Users] /\ state' \in [Groups -> {"absent", "live", "deleted"}]
    BY <1>8 DEF Rollback, TypeOK, Records
  <2> QED
    BY <1>8, <2>1, ReturnTyped DEF Rollback, TypeOK
<1>9. ASSUME NotifyGroupKeyChanged(p) PROVE TypeOK'
  BY <1>9, ReturnTyped DEF NotifyGroupKeyChanged, TypeOK, Tell, Records
<1> QED
  BY <1>1, <1>2, <1>3, <1>4, <1>5, <1>6, <1>7, <1>8, <1>9 DEF MemberSteps

\* Every step of E2EEService does.
LEMMA KeyTypeOK ==
  ASSUME TypeOK, NEW p \in Procs, KeySteps(p)
  PROVE  TypeOK'
<1> task[p] \in Tasks
  BY DEF TypeOK
<1> /\ Fits(task[p].op, task[p].pc)
    /\ task[p] \in Records
    /\ task[p].pc # "idle" => task[p].user \in Users
    /\ task[p].op \notin {"none", "single", "publish"} => task[p].group \in Groups
    /\ task[p].op = "boxes" => \A c \in task[p].cargo : c[2] # 0
  BY TaskFacts
<1> USE DEF rows, locks, faults, At, Fail
<1>1. ASSUME RotateGroupKeyIfCurrent(p) PROVE TypeOK'
  <2>1. version' \in [Groups -> Nat] /\ boxes' \in [Groups -> SUBSET Boxes]
    BY <1>1 DEF RotateGroupKeyIfCurrent, NextVersion, TypeOK
  <2>2. [task[p] EXCEPT !.pc = "notify", !.ver = version'[task[p].group]] \in Tasks
    <3>1. Fits(task[p].op, "notify") /\ version'[task[p].group] \in Nat
      BY <1>1, <2>1 DEF RotateGroupKeyIfCurrent, Fits
    <3> QED
      BY <3>1, MovedAndEdited DEF Pcs
  <2>3. task' \in [Procs -> Tasks]
    BY <1>1, <2>2, BecomeTyped DEF RotateGroupKeyIfCurrent
  <2> QED
    BY <1>1, <2>1, <2>3 DEF RotateGroupKeyIfCurrent, TypeOK
<1>2. ASSUME ReplaceVersionBoxes(p) PROVE TypeOK'
  <2>1. {[user |-> c[1], key |-> c[2], by |-> task[p].user] : c \in task[p].cargo}
           \in SUBSET Boxes
    BY <1>2 DEF ReplaceVersionBoxes, Boxes, Cargo, Records
  <2> QED
    BY <1>2, <2>1, ReturnTyped DEF ReplaceVersionBoxes, TypeOK
<1>3. ASSUME WriteRefused(p) PROVE TypeOK'
  BY <1>3, ReturnTyped DEF WriteRefused, TypeOK
<1>4. ASSUME Upsert(p) PROVE TypeOK'
  <2>1. idkey' \in [Users -> Nat] /\ idkey[task[p].user] \in Nat
    BY <1>4 DEF Upsert, TypeOK, Records, Fits
  <2>2. [task[p] EXCEPT !.pc = "list", !.ver = idkey[task[p].user]] \in Tasks
    <3>1. Fits(task[p].op, "list")
      BY <1>4 DEF Upsert, Fits
    <3> QED
      BY <2>1, <3>1, MovedAndEdited DEF Pcs
  <2>3. CASE Return(p)
    BY <1>4, <2>1, <2>3, ReturnTyped DEF Upsert, TypeOK
  <2>4. CASE ~Return(p)
    BY <1>4, <2>1, <2>2, <2>4, BecomeTyped DEF Upsert, TypeOK
  <2> QED
    BY <2>3, <2>4
<1>5. ASSUME ListGroups(p) PROVE TypeOK'
  <2>1. [task[p] EXCEPT !.pc = "each",
          !.groups = {g \in Groups : Live(g) /\ IsMember(g, task[p].user)}] \in Tasks
    <3>1. task[p].op \in Ops /\ Fits(task[p].op, "each")
      BY <1>5 DEF ListGroups, Fits, Records, Ops
    <3>2. {g \in Groups : Live(g) /\ IsMember(g, task[p].user)} \in SUBSET Groups
      BY <1>5 DEF ListGroups, TypeOK, Records
    <3> QED
      BY <3>1, <3>2, MovedAndEdited DEF Pcs
  <2>2. task' \in [Procs -> Tasks]
    BY <1>5, <2>1, BecomeTyped DEF ListGroups
  <2> QED
    BY <1>5, <2>2 DEF ListGroups, TypeOK
<1>6. ASSUME PublishReturns(p) PROVE TypeOK'
  BY <1>6, ReturnTyped DEF PublishReturns, TypeOK
<1>7. ASSUME RollbackIdentityChange(p) PROVE TypeOK'
  BY <1>7, ReturnTyped DEF RollbackIdentityChange, TypeOK, Records
<1>8. ASSUME NEW g \in Groups, RotateOne(p, g) PROVE TypeOK'
  <2>1. [task[p] EXCEPT !.groups = task[p].groups \ {g},
          !.notes = task[p].notes \cup {<<g, version[g] + 1>>}] \in Tasks
    <3>1. task[p].groups \ {g} \in SUBSET Groups
      BY DEF Records
    <3>2. task[p].notes \cup {<<g, version[g] + 1>>} \in SUBSET (Groups \X Nat)
      BY DEF Records, TypeOK
    <3> QED
      BY <3>1, <3>2, EditedTwice
  <2>2. task' \in [Procs -> Tasks]
    BY <1>8, <2>1, BecomeTyped DEF RotateOne
  <2> QED
    BY <1>8, <2>2 DEF RotateOne, TypeOK, NextVersion
<1>9. ASSUME NEW g \in Groups, RotateOneRefused(p, g) PROVE TypeOK'
  <2>1. task' \in [Procs -> Tasks]
    BY <1>9, GotoTyped DEF RotateOneRefused, Fits, Pcs
  <2> QED
    BY <1>9, <2>1 DEF RotateOneRefused, TypeOK
<1>10. ASSUME NEW n \in task[p].notes, Announce(p, n) PROVE TypeOK'
  <2>1. [task[p] EXCEPT !.notes = task[p].notes \ {n}] \in Tasks
    <3>2. (task[p].notes \ {n}) \in SUBSET (Groups \X Nat)
      BY <1>10 DEF Announce, TypeOK, Records
    <3> QED
      BY <3>2, EditedIsTask DEF Pcs
  <2>2. task' \in [Procs -> Tasks]
    BY <1>10, <2>1, BecomeTyped DEF Announce
  <2> QED
    BY <1>10, <2>2 DEF Announce, TypeOK, Tell, Records
<1> QED
  BY <1>1, <1>2, <1>3, <1>4, <1>5, <1>6, <1>7, <1>8, <1>9, <1>10 DEF KeySteps

\* Every step of ChatService does.
LEMMA SendTypeOK ==
  ASSUME TypeOK, NEW p \in Procs, SendSteps(p)
  PROVE  TypeOK'
<1> task[p] \in Tasks
  BY DEF TypeOK
<1> /\ Fits(task[p].op, task[p].pc)
    /\ task[p] \in Records
    /\ task[p].pc # "idle" => task[p].user \in Users
    /\ task[p].op \notin {"none", "single", "publish"} => task[p].group \in Groups
    /\ task[p].op = "boxes" => \A c \in task[p].cargo : c[2] # 0
  BY TaskFacts
<1> USE DEF rows, locks, faults, At, Fail
<1>1. ASSUME AcceptGroupMessage(p) PROVE TypeOK'
  <2>1. [task[p] EXCEPT !.pc = "deliver", !.cargo =
          IF task[p].ver = 0 THEN {} ELSE {<<b.user, b.key>> : b \in boxes[task[p].group]}] \in Tasks
    <3>1. task[p].op = "group" /\ Fits(task[p].op, "deliver")
      BY <1>1 DEF AcceptGroupMessage, Fits
    <3>2. (IF task[p].ver = 0 THEN {} ELSE {<<b.user, b.key>> : b \in boxes[task[p].group]}) \in SUBSET Cargo
      BY <1>1 DEF AcceptGroupMessage, TypeOK, Records, Cargo, Boxes
    <3> QED
      BY <3>1, <3>2, MovedAndEdited DEF Pcs
  <2>2. task' \in [Procs -> Tasks]
    BY <1>1, <2>1, BecomeTyped DEF AcceptGroupMessage
  <2> QED
    BY <1>1, <2>2 DEF AcceptGroupMessage, TypeOK
<1>2. ASSUME AcceptSingleMessage(p) PROVE TypeOK'
  <2>1. task' \in [Procs -> Tasks]
    BY <1>2, GotoTyped DEF AcceptSingleMessage, Fits, Pcs
  <2> QED
    BY <1>2, <2>1 DEF AcceptSingleMessage, TypeOK
<1>3. ASSUME Deliver(p) PROVE TypeOK'
  BY <1>3, ReturnTyped DEF Deliver, TypeOK
<1> QED
  BY <1>1, <1>2, <1>3 DEF SendSteps

\* Every step of the uploading client does.
LEMMA ClientTypeOK ==
  ASSUME TypeOK, NEW p \in Procs, ClientSteps(p)
  PROVE  TypeOK'
<1> task[p] \in Tasks
  BY DEF TypeOK
<1> /\ Fits(task[p].op, task[p].pc)
    /\ task[p] \in Records
    /\ task[p].pc # "idle" => task[p].user \in Users
    /\ task[p].op \notin {"none", "single", "publish"} => task[p].group \in Groups
    /\ task[p].op = "boxes" => \A c \in task[p].cargo : c[2] # 0
  BY TaskFacts
<1> USE DEF rows, locks, faults, At, Fail
<1>1. ASSUME GiveUp(p) PROVE TypeOK'
  <2>1. task' \in [Procs -> Tasks]
    BY <1>1, IdleIsTask, BecomeTyped DEF GiveUp
  <2> QED
    BY <1>1, <2>1 DEF GiveUp, TypeOK
<1>2. ASSUME PostBoxes(p) PROVE TypeOK'
  <2>1. task' \in [Procs -> Tasks]
    BY <1>2, GotoTyped DEF PostBoxes, Fits, Pcs
  <2> QED
    BY <1>2, <2>1 DEF PostBoxes, TypeOK
<1>3. ASSUME NEW m \in task[p].users, GetUserPublicKey(p, m) PROVE TypeOK'
  <2>1. [task[p] EXCEPT !.users = task[p].users \ {m},
          !.cargo = task[p].cargo \cup {<<m, idkey[m]>>}] \in Tasks
    <3>1. task[p].users \ {m} \in SUBSET Users /\ m \in Users
      BY DEF Records
    <3>2. task[p].cargo \cup {<<m, idkey[m]>>} \in SUBSET Cargo
      BY <3>1 DEF Records, TypeOK, Cargo
    <3>3. \A c \in task[p].cargo \cup {<<m, idkey[m]>>} : task[p].op = "boxes" => c[2] # 0
      BY <1>3 DEF GetUserPublicKey
    <3> QED
      BY <3>1, <3>2, <3>3, EditedTwice
  <2>2. task' \in [Procs -> Tasks]
    BY <1>3, <2>1, BecomeTyped DEF GetUserPublicKey
  <2> QED
    BY <1>3, <2>2 DEF GetUserPublicKey, TypeOK
<1> QED
  BY <1>1, <1>2, <1>3 DEF ClientSteps

\* Every failed statement does.
LEMMA FailedTypeOK ==
  ASSUME TypeOK, NEW p \in Procs, FailedSteps(p)
  PROVE  TypeOK'
<1> task[p] \in Tasks
  BY DEF TypeOK
<1> /\ Fits(task[p].op, task[p].pc)
    /\ task[p] \in Records
    /\ task[p].pc # "idle" => task[p].user \in Users
    /\ task[p].op \notin {"none", "single", "publish"} => task[p].group \in Groups
    /\ task[p].op = "boxes" => \A c \in task[p].cargo : c[2] # 0
  BY TaskFacts
<1> USE DEF rows, locks, faults, At, Fail
<1>1. ASSUME RotateFails(p) PROVE TypeOK'
  <2>1. task' \in [Procs -> Tasks]
    BY <1>1, GotoTyped DEF RotateFails, Fits, Pcs
  <2> QED
    BY <1>1, <2>1 DEF RotateFails, TypeOK, NextVersion
<1>2. ASSUME RollbackFails(p) PROVE TypeOK'
  <2>1. members' \in [Groups -> SUBSET Users]
    <3>1. PICK out \in SUBSET task[p].users :
             members' = [members EXCEPT ![task[p].group] = @ \ out]
      BY <1>2 DEF RollbackFails
    <3> QED
      BY <3>1 DEF TypeOK
  <2> QED
    BY <1>2, <2>1, ReturnTyped DEF RollbackFails, TypeOK
<1>3. ASSUME StatementFails(p) PROVE TypeOK'
  BY <1>3, ReturnTyped DEF StatementFails, TypeOK
<1>4. ASSUME UpsertFails(p) PROVE TypeOK'
  BY <1>4, ReturnTyped DEF UpsertFails, TypeOK
<1>5. ASSUME RotateOneFails(p) PROVE TypeOK'
  <2>1. task' \in [Procs -> Tasks]
    BY <1>5, GotoTyped DEF RotateOneFails, Fits, Pcs
  <2> QED
    BY <1>5, <2>1 DEF RotateOneFails, TypeOK
<1>6. ASSUME RollbackIdentityFails(p) PROVE TypeOK'
  BY <1>6, ReturnTyped DEF RollbackIdentityFails, TypeOK
<1>7. ASSUME NotifyFails(p) PROVE TypeOK'
  BY <1>7, ReturnTyped DEF NotifyFails, TypeOK
<1>8. ASSUME NEW n \in task[p].notes, AnnounceFails(p, n) PROVE TypeOK'
  <2>1. [task[p] EXCEPT !.notes = task[p].notes \ {n}] \in Tasks
    <3>1. task[p].notes \ {n} \in SUBSET (Groups \X Nat)
      BY DEF Records
    <3> QED
      BY <3>1, EditedIsTask
  <2>2. task' \in [Procs -> Tasks]
    BY <1>8, <2>1, BecomeTyped DEF AnnounceFails
  <2> QED
    BY <1>8, <2>2 DEF AnnounceFails, TypeOK
<1> QED
  BY <1>1, <1>2, <1>3, <1>4, <1>5, <1>6, <1>7, <1>8 DEF FailedSteps

\* TypeOK is inductive.
LEMMA NextTypeOK == TypeOK /\ [Next]_vars => TypeOK'
<1> SUFFICES ASSUME TypeOK, [Next]_vars PROVE TypeOK'
  OBVIOUS
<1>1. ASSUME NEW u \in Users, DeleteUser(u) PROVE TypeOK'
  BY <1>1 DEF DeleteUser, TypeOK, locks, faults
<1>2. CASE Crash
  BY <1>2, IdleIsTask DEF Crash, TypeOK, rows
<1>3. CASE UNCHANGED vars
  BY <1>3 DEF TypeOK, vars, rows, locks, faults
<1> QED
  BY <1>1, <1>2, <1>3, RequestTypeOK, AcquireTypeOK, MemberTypeOK, KeyTypeOK, SendTypeOK,
     ClientTypeOK, FailedTypeOK DEF Next, Progress

\* Type correctness for every instance (TypeOK).
THEOREM TypeCorrect == Spec => []TypeOK
  BY InitTypeOK, NextTypeOK, PTL DEF Spec

----------------------------------------------------------------------------
(* One upload per version.                                                 *)

\* A step that stores no box keeps the boxes of each version one client's.
LEMMA FewerBoxes ==
  ASSUME OneUploadPerVersion, \A g \in Groups : boxes'[g] \subseteq boxes[g]
  PROVE  OneUploadPerVersion'
  BY DEF OneUploadPerVersion

\* Only ReplaceVersionBoxes stores boxes.
LEMMA StepsStoringNoBox ==
  ASSUME TypeOK, NEW p \in Procs,
         \/ Request(p) \/ Acquire(p) \/ MemberSteps(p)
         \/ KeySteps(p) /\ ~ReplaceVersionBoxes(p)
         \/ SendSteps(p) \/ ClientSteps(p) \/ FailedSteps(p)
  PROVE  \A g \in Groups : boxes'[g] \subseteq boxes[g]
<1> USE DEF rows, TypeOK
<1>1. CASE Request(p)
  <2>1. PICK u \in Users, g \in Groups :
      \/ \E us \in SUBSET Users : CreateGroup(p, u, g, us) \/ RequestAdd(p, u, g, us)
      \/ \E m \in Users : RequestRemove(p, u, g, m) \/ RequestSendSingle(p, u, m)
      \/ RequestLeave(p, u, g) \/ RequestDelete(p, u, g)
      \/ \E v \in 1 .. MaxVersion : RequestRotate(p, u, g, v)
      \/ \E type \in {"text", "call"} : RequestSendGroup(p, u, g, type)
      \/ \E k \in 1 .. MaxKey : RequestPublishKey(p, u, k)
      \/ GetGroupCurrentKeyBox(p, u, g)
    BY <1>1 DEF Request
  <2>2. ASSUME NEW us \in SUBSET Users, CreateGroup(p, u, g, us) \/ RequestAdd(p, u, g, us)
        PROVE  boxes' = boxes
    BY <2>2 DEF CreateGroup, RequestAdd
  <2>3. ASSUME NEW m \in Users, RequestRemove(p, u, g, m) \/ RequestSendSingle(p, u, m)
        PROVE  boxes' = boxes
    BY <2>3 DEF RequestRemove, RequestSendSingle
  <2>4. CASE RequestLeave(p, u, g) \/ RequestDelete(p, u, g) \/ GetGroupCurrentKeyBox(p, u, g)
    BY <2>4 DEF RequestLeave, RequestDelete, GetGroupCurrentKeyBox
  <2>5. ASSUME NEW v \in 1 .. MaxVersion, RequestRotate(p, u, g, v) PROVE boxes' = boxes
    BY <2>5 DEF RequestRotate
  <2>6. ASSUME NEW type \in {"text", "call"}, RequestSendGroup(p, u, g, type)
        PROVE  boxes' = boxes
    BY <2>6 DEF RequestSendGroup
  <2>7. ASSUME NEW k \in 1 .. MaxKey, RequestPublishKey(p, u, k) PROVE boxes' = boxes
    BY <2>7 DEF RequestPublishKey
  <2> QED
    BY <2>1, <2>2, <2>3, <2>4, <2>5, <2>6, <2>7
<1>2. CASE Acquire(p)
  BY <1>2 DEF Acquire, AcquireIdentityRead, AcquireIdentityWrite, AcquireGroup
<1>3. CASE MemberSteps(p)
  BY <1>3 DEF MemberSteps, Refuse, Pass, AddMembers, RemoveMember, DeleteGroup, Rotate,
     RotateRefused, Rollback, NotifyGroupKeyChanged, NextVersion
<1>4. CASE KeySteps(p) /\ ~ReplaceVersionBoxes(p)
  BY <1>4 DEF KeySteps, RotateGroupKeyIfCurrent, WriteRefused, Upsert, ListGroups,
     PublishReturns, RollbackIdentityChange, RotateOne, RotateOneRefused, Announce, NextVersion
<1>5. CASE SendSteps(p)
  BY <1>5 DEF SendSteps, AcceptGroupMessage, AcceptSingleMessage, Deliver
<1>6. CASE ClientSteps(p)
  BY <1>6 DEF ClientSteps, GiveUp, PostBoxes, GetUserPublicKey
<1>7. CASE FailedSteps(p)
  BY <1>7 DEF FailedSteps, RotateFails, RollbackFails, StatementFails, UpsertFails,
     RotateOneFails, RollbackIdentityFails, NotifyFails, AnnounceFails, NextVersion
<1> QED
  BY <1>1, <1>2, <1>3, <1>4, <1>5, <1>6, <1>7

\* Whatever fails, restarts or is deleted, the boxes of a version come from
\* one client (OneUploadPerVersion).
THEOREM OneUpload == Spec => []OneUploadPerVersion
<1>1. Init => OneUploadPerVersion
  BY DEF Init, OneUploadPerVersion
<1>2. TypeOK /\ OneUploadPerVersion /\ [Next]_vars => OneUploadPerVersion'
  <2> SUFFICES ASSUME TypeOK, OneUploadPerVersion, [Next]_vars PROVE OneUploadPerVersion'
    OBVIOUS
  <2>1. ASSUME NEW p \in Procs, ReplaceVersionBoxes(p) PROVE OneUploadPerVersion'
    BY <2>1 DEF ReplaceVersionBoxes, OneUploadPerVersion, TypeOK
  <2>2. ASSUME NEW p \in Procs, ~ReplaceVersionBoxes(p),
               \/ Request(p) \/ Acquire(p) \/ Progress(p)
               \/ ClientSteps(p) \/ FailedSteps(p)
        PROVE  OneUploadPerVersion'
    BY <2>2, StepsStoringNoBox, FewerBoxes DEF Progress
  <2>3. ASSUME NEW u \in Users, DeleteUser(u) PROVE OneUploadPerVersion'
    BY <2>3, FewerBoxes DEF DeleteUser, TypeOK
  <2>4. CASE Crash \/ UNCHANGED vars
    BY <2>4, FewerBoxes DEF Crash, vars, rows
  <2> QED
    BY <2>1, <2>2, <2>3, <2>4 DEF Next
<1> QED
  BY <1>1, <1>2, TypeCorrect, PTL DEF Spec

----------------------------------------------------------------------------
(* Locks.  A handler's position says what it holds; each lemma takes one   *)
(* kind of step.                                                           *)

\* Every group has a stripe.
LEMMA StripeTyped == \A g \in Groups : Stripe(g) \in Stripes
  BY ConstantsAssumption DEF Stripe, Stripes

\* What a process was given decides what it holds, nothing else.
LEMMA OthersHold ==
  ASSUME TypeOK, NEW p \in Procs, NEW t, Become(p, t)
  PROVE  /\ task'[p] = t
         /\ \A q \in Procs \ {p} :
              /\ task'[q] = task[q]
              /\ HoldsGroup(q)' <=> HoldsGroup(q)
              /\ HoldsWrite(q)' <=> HoldsWrite(q)
              /\ HoldsRead(q)' <=> HoldsRead(q)
  BY DEF Become, TypeOK, HoldsGroup, HoldsWrite, HoldsRead

\* A step that leaves the locks alone and needs the ones it has.
LEMMA StayKeepsLocks ==
  ASSUME TypeOK, LocksMatchHandlers, NEW p \in Procs, NEW t, Become(p, t), UNCHANGED locks,
         HoldsGroup(p)' <=> HoldsGroup(p), HoldsGroup(p) => t.group = task[p].group,
         HoldsWrite(p)' <=> HoldsWrite(p), HoldsRead(p)' <=> HoldsRead(p)
  PROVE  LocksMatchHandlers'
<1> USE OthersHold DEF locks
<1>1. \A q \in Procs : HoldsGroup(q)' => groupLock'[Stripe(task'[q].group)] = q
  BY DEF LocksMatchHandlers
<1>2. \A s \in Stripes : groupLock'[s] # None =>
         HoldsGroup(groupLock[s])' /\ Stripe(task'[groupLock'[s]].group) = s
  BY DEF LocksMatchHandlers, TypeOK
<1>3. \A q \in Procs : HoldsWrite(q)' <=> identityWriter' = q
  BY DEF LocksMatchHandlers
<1>4. \A q \in Procs : HoldsRead(q)' <=> q \in identityReaders'
  BY DEF LocksMatchHandlers
<1> QED
  BY <1>1, <1>2, <1>3, <1>4 DEF LocksMatchHandlers

\* A handler that returns gives every lock back.
LEMMA ReturnReleases ==
  ASSUME TypeOK, LocksMatchHandlers, NEW p \in Procs, Return(p)
  PROVE  LocksMatchHandlers'
<1>1. ~HoldsGroup(p)' /\ ~HoldsWrite(p)' /\ ~HoldsRead(p)'
  BY OthersHold DEF Return, Idle, Begin, HoldsGroup, HoldsWrite, HoldsRead
<1>2. \A q \in Procs \ {p} :
          /\ task'[q] = task[q]
          /\ HoldsGroup(q)' <=> HoldsGroup(q)
          /\ HoldsWrite(q)' <=> HoldsWrite(q)
          /\ HoldsRead(q)' <=> HoldsRead(q)
  BY OthersHold DEF Return
<1>3. /\ \A s \in Stripes : groupLock'[s] = IF groupLock[s] = p THEN None ELSE groupLock[s]
      /\ identityWriter' = (IF identityWriter = p THEN None ELSE identityWriter)
      /\ identityReaders' = identityReaders \ {p}
  BY DEF Return, ReleaseAll
<1>4. p # None
  BY ConstantsAssumption
<1>5. \A q \in Procs : HoldsGroup(q)' => groupLock'[Stripe(task'[q].group)] = q
  <2> SUFFICES ASSUME NEW q \in Procs, HoldsGroup(q)'
               PROVE  groupLock'[Stripe(task'[q].group)] = q
    OBVIOUS
  <2>1. q # p /\ HoldsGroup(q) /\ task'[q] = task[q]
    BY <1>1, <1>2
  <2>2. task[q].group \in Groups
    BY <2>1, TaskFacts DEF TypeOK, HoldsGroup, Fits
  <2> QED
    BY <1>3, <2>1, <2>2, StripeTyped DEF LocksMatchHandlers
<1>6. \A s \in Stripes : groupLock'[s] # None =>
         HoldsGroup(groupLock[s])' /\ Stripe(task'[groupLock'[s]].group) = s
  <2> SUFFICES ASSUME NEW s \in Stripes, groupLock'[s] # None
               PROVE  HoldsGroup(groupLock[s])' /\ Stripe(task'[groupLock'[s]].group) = s
    OBVIOUS
  <2>1. groupLock'[s] = groupLock[s] /\ groupLock[s] \in Procs \ {p}
    BY <1>3, <1>4 DEF TypeOK
  <2>2. task'[groupLock[s]] = task[groupLock[s]]
    BY <1>2, <2>1
  <2>3. HoldsGroup(groupLock[s]) /\ Stripe(task[groupLock[s]].group) = s
    BY <2>1, ConstantsAssumption DEF LocksMatchHandlers
  <2> QED
    BY <2>1, <2>2, <2>3 DEF HoldsGroup
<1>7. \A q \in Procs : HoldsWrite(q)' <=> identityWriter' = q
  BY <1>1, <1>2, <1>3, <1>4, ConstantsAssumption DEF LocksMatchHandlers
<1>8. \A q \in Procs : HoldsRead(q)' <=> q \in identityReaders'
  BY <1>1, <1>2, <1>3 DEF LocksMatchHandlers
<1>9. identityWriter' # None => identityReaders' = {}
  BY <1>3 DEF LocksMatchHandlers
<1> QED
  BY <1>5, <1>6, <1>7, <1>8, <1>9 DEF LocksMatchHandlers

\* What moving a task changes, for the forms the actions use.
LEMMA MovedFields ==
  ASSUME NEW t \in Tasks, NEW pc \in Pcs
  PROVE  /\ LET m == [t EXCEPT !.pc = pc]
            IN  m.pc = pc /\ m.op = t.op /\ m.group = t.group
         /\ \A us : LET m == [t EXCEPT !.pc = pc, !.users = us]
                    IN  m.pc = pc /\ m.op = t.op /\ m.group = t.group
         /\ \A v : LET m == [t EXCEPT !.pc = pc, !.ver = v]
                   IN  m.pc = pc /\ m.op = t.op /\ m.group = t.group
         /\ \A gs : LET m == [t EXCEPT !.pc = pc, !.groups = gs]
                    IN  m.pc = pc /\ m.op = t.op /\ m.group = t.group
         /\ \A c : LET m == [t EXCEPT !.pc = pc, !.cargo = c]
                   IN  m.pc = pc /\ m.op = t.op /\ m.group = t.group
  BY DEF Tasks, Records

\* An edit of what a task carries keeps position, operation and group.
LEMMA EditedFields ==
  ASSUME NEW t \in Tasks
  PROVE  /\ \A ns : LET m == [t EXCEPT !.notes = ns]
                    IN  m.pc = t.pc /\ m.op = t.op /\ m.group = t.group
         /\ \A gs, ns : LET m == [t EXCEPT !.groups = gs, !.notes = ns]
                        IN  m.pc = t.pc /\ m.op = t.op /\ m.group = t.group
         /\ \A us, c : LET m == [t EXCEPT !.users = us, !.cargo = c]
                       IN  m.pc = t.pc /\ m.op = t.op /\ m.group = t.group
  BY DEF Tasks, Records

\* A move changes one position and nothing else of any task.
LEMMA GotoFields ==
  ASSUME TypeOK, NEW p \in Procs, NEW pc \in Pcs, Goto(p, pc)
  PROVE  /\ task'[p].pc = pc /\ task'[p].op = task[p].op /\ task'[p].group = task[p].group
         /\ \A q \in Procs \ {p} : task'[q] = task[q]
  BY DEF Goto, Become, TypeOK, Tasks, Records

\* Taking a lock moves the handler to a place that needs it.
LEMMA AcquireKeepsLocks ==
  ASSUME TypeOK, LocksMatchHandlers, NEW p \in Procs, Acquire(p)
  PROVE  LocksMatchHandlers'
<1> task[p] \in Tasks
  BY DEF TypeOK
<1> Fits(task[p].op, task[p].pc) /\ p # None
  BY TaskFacts, ConstantsAssumption
<1>1. ASSUME AcquireIdentityRead(p) PROVE LocksMatchHandlers'
  <2> DEFINE pc == IF task[p].op = "single" THEN "check" ELSE "glock"
  <2>1. /\ task'[p].pc = pc /\ task'[p].op = task[p].op
        /\ \A q \in Procs \ {p} : task'[q] = task[q]
    BY <1>1, GotoFields DEF AcquireIdentityRead, Pcs
  <2>2. /\ HoldsRead(p)' /\ ~HoldsGroup(p)' /\ ~HoldsWrite(p)'
        /\ ~HoldsGroup(p) /\ ~HoldsWrite(p)
    BY <1>1, <2>1 DEF AcquireIdentityRead, HoldsGroup, HoldsRead, HoldsWrite, Fits
  <2> QED
    BY <1>1, <2>1, <2>2 DEF AcquireIdentityRead, LocksMatchHandlers, HoldsGroup, HoldsRead,
       HoldsWrite, TypeOK
<1>2. ASSUME AcquireIdentityWrite(p) PROVE LocksMatchHandlers'
  <2>1. /\ task'[p].pc = "upsert" /\ task'[p].op = task[p].op
        /\ \A q \in Procs \ {p} : task'[q] = task[q]
    BY <1>2, GotoFields DEF AcquireIdentityWrite, Pcs
  <2>2. HoldsWrite(p)' /\ ~HoldsGroup(p)' /\ ~HoldsRead(p)' /\ ~HoldsGroup(p)
    BY <1>2, <2>1 DEF AcquireIdentityWrite, HoldsGroup, HoldsRead, HoldsWrite
  <2> QED
    <3>1. \A s \in Stripes : groupLock'[s] # None =>
             HoldsGroup(groupLock[s])' /\ Stripe(task'[groupLock'[s]].group) = s
      BY <1>2, <2>1, <2>2 DEF AcquireIdentityWrite, LocksMatchHandlers, HoldsGroup, TypeOK
    <3>2. \A q \in Procs : HoldsGroup(q)' => groupLock'[Stripe(task'[q].group)] = q
      BY <1>2, <2>1, <2>2 DEF AcquireIdentityWrite, LocksMatchHandlers, HoldsGroup
    <3>3. \A q \in Procs : HoldsRead(q)' <=> q \in identityReaders'
      <4>1. ~HoldsRead(p)
        BY <1>2 DEF AcquireIdentityWrite, HoldsRead
      <4> QED
        BY <1>2, <2>1, <2>2, <4>1 DEF AcquireIdentityWrite, LocksMatchHandlers, HoldsRead
    <3>4. \A q \in Procs : HoldsWrite(q)' <=> identityWriter' = q
      <4>1. ~HoldsWrite(p) /\ identityWriter = None
        BY <1>2 DEF AcquireIdentityWrite, HoldsWrite
      <4>2. \A q \in Procs \ {p} : ~HoldsWrite(q)
        BY <4>1, ConstantsAssumption DEF LocksMatchHandlers
      <4> QED
        BY <1>2, <2>1, <2>2, <4>2 DEF AcquireIdentityWrite, HoldsWrite
    <3> QED
      BY <1>2, <3>1, <3>2, <3>3, <3>4 DEF AcquireIdentityWrite, LocksMatchHandlers
<1>3. ASSUME AcquireGroup(p) PROVE LocksMatchHandlers'
  <2> DEFINE pc == IF task[p].op = "create" THEN "rotate" ELSE "check"
             s0 == Stripe(task[p].group)
  <2>1. /\ task'[p].pc = pc /\ task'[p].op = task[p].op /\ task'[p].group = task[p].group
        /\ \A q \in Procs \ {p} : task'[q] = task[q]
    BY <1>3, GotoFields DEF AcquireGroup, Pcs
  <2>2. task[p].group \in Groups /\ s0 \in Stripes
    BY <1>3, TaskFacts, StripeTyped DEF AcquireGroup, Fits
  <2>3. groupLock[s0] = None /\ groupLock' = [groupLock EXCEPT ![s0] = p]
    BY <1>3 DEF AcquireGroup
  <2>4. /\ HoldsGroup(p)' /\ ~HoldsWrite(p)' /\ ~HoldsGroup(p) /\ ~HoldsWrite(p)
        /\ HoldsRead(p)' <=> HoldsRead(p)
    BY <1>3, <2>1 DEF AcquireGroup, HoldsGroup, HoldsRead, HoldsWrite, Fits
  <2>5. \A q \in Procs : HoldsGroup(q)' => groupLock'[Stripe(task'[q].group)] = q
    <3> SUFFICES ASSUME NEW q \in Procs, HoldsGroup(q)'
                 PROVE  groupLock'[Stripe(task'[q].group)] = q
      OBVIOUS
    <3>1. CASE q = p
      BY <2>1, <2>2, <2>3, <3>1 DEF TypeOK
    <3>2. CASE q # p
      <4>1. task'[q] = task[q] /\ HoldsGroup(q)
        BY <2>1, <3>2 DEF HoldsGroup
      <4>2. task[q].group \in Groups
        BY <4>1, TaskFacts DEF TypeOK, HoldsGroup, Fits
      <4>3. groupLock[Stripe(task[q].group)] = q /\ q # None
        BY <4>1, ConstantsAssumption DEF LocksMatchHandlers
      <4> QED
        BY <2>3, <3>2, <4>1, <4>2, <4>3, StripeTyped DEF TypeOK
    <3> QED
      BY <3>1, <3>2
  <2>6. \A s \in Stripes : groupLock'[s] # None =>
           HoldsGroup(groupLock[s])' /\ Stripe(task'[groupLock'[s]].group) = s
    BY <2>1, <2>2, <2>3, <2>4 DEF LocksMatchHandlers, HoldsGroup, TypeOK
  <2> QED
    BY <1>3, <2>1, <2>4, <2>5, <2>6 DEF AcquireGroup, LocksMatchHandlers, HoldsRead, HoldsWrite
<1> QED
  BY <1>1, <1>2, <1>3 DEF Acquire

\* AcceptGroupMessage unlocks the group before it delivers.
LEMMA AcceptReleasesGroup ==
  ASSUME TypeOK, LocksMatchHandlers, NEW p \in Procs, AcceptGroupMessage(p)
  PROVE  LocksMatchHandlers'
<1> DEFINE s0 == Stripe(task[p].group)
<1> task[p] \in Tasks
  BY DEF TypeOK
<1>1. Fits(task[p].op, task[p].pc) /\ task[p].op = "group" /\ task[p].pc = "check"
  BY TaskFacts DEF AcceptGroupMessage, At
<1>2. task'[p].pc = "deliver" /\ task'[p].op = "group"
  <2> DEFINE c == IF task[p].ver = 0 THEN {}
                  ELSE {<<b.user, b.key>> : b \in boxes[task[p].group]}
             m == [task[p] EXCEPT !.pc = "deliver", !.cargo = c]
  <2>1. m.pc = "deliver" /\ m.op = task[p].op
    BY MovedFields DEF Pcs
  <2>2. task'[p] = m
    BY OthersHold DEF AcceptGroupMessage
  <2> QED
    BY <1>1, <2>1, <2>2
<1>3. \A q \in Procs \ {p} : task'[q] = task[q]
  BY OthersHold DEF AcceptGroupMessage
<1>4. s0 \in Stripes /\ groupLock[s0] = p /\ groupLock' = [groupLock EXCEPT ![s0] = None]
  BY <1>1, TaskFacts, StripeTyped DEF AcceptGroupMessage, LocksMatchHandlers, HoldsGroup
<1>5. /\ HoldsGroup(p) /\ ~HoldsGroup(p)' /\ HoldsRead(p) /\ HoldsRead(p)'
      /\ ~HoldsWrite(p) /\ ~HoldsWrite(p)'
  BY <1>1, <1>2 DEF HoldsGroup, HoldsRead, HoldsWrite
<1>6. \A q \in Procs : HoldsGroup(q)' => groupLock'[Stripe(task'[q].group)] = q
  <2> SUFFICES ASSUME NEW q \in Procs, HoldsGroup(q)'
               PROVE  groupLock'[Stripe(task'[q].group)] = q
    OBVIOUS
  <2>1. q # p /\ task'[q] = task[q] /\ HoldsGroup(q)
    BY <1>3, <1>5 DEF HoldsGroup
  <2>2. task[q].group \in Groups
    BY <2>1, TaskFacts DEF TypeOK, HoldsGroup, Fits
  <2> QED
    BY <1>4, <2>1, <2>2, StripeTyped DEF LocksMatchHandlers, TypeOK
<1>7. \A s \in Stripes : groupLock'[s] # None =>
         HoldsGroup(groupLock[s])' /\ Stripe(task'[groupLock'[s]].group) = s
  BY <1>3, <1>4 DEF LocksMatchHandlers, HoldsGroup, TypeOK
<1> QED
  BY <1>3, <1>5, <1>6, <1>7 DEF AcceptGroupMessage, LocksMatchHandlers, HoldsRead, HoldsWrite

\* A step inside a stretch of the handler that is covered by the same locks.
LEMMA StretchKeepsLocks ==
  ASSUME TypeOK, LocksMatchHandlers, NEW p \in Procs, NEW t, Become(p, t), UNCHANGED locks,
         t.op = task[p].op, t.group = task[p].group,
         \/ t.pc = task[p].pc
         \/ /\ {t.pc, task[p].pc} \subseteq {"check", "write", "rotate", "rollback", "notify"}
            /\ t.op # "single"
            /\ t.op \in {"rotate", "boxes", "group"}
                  => {t.pc, task[p].pc} \subseteq {"check", "write", "notify"}
         \/ {t.pc, task[p].pc} \subseteq {"upsert", "list", "each", "restore"} /\ t.op = "publish"
         \/ {t.pc, task[p].pc} \subseteq {"check", "deliver"} /\ t.op = "single"
         \/ {t.pc, task[p].pc} \subseteq {"fetch", "rlock"}
  PROVE  LocksMatchHandlers'
<1>1. /\ HoldsGroup(p)' <=> HoldsGroup(p)
      /\ HoldsWrite(p)' <=> HoldsWrite(p)
      /\ HoldsRead(p)' <=> HoldsRead(p)
  <2> task'[p] = t
    BY OthersHold
  <2> QED
    BY DEF HoldsGroup, HoldsWrite, HoldsRead
<1> QED
  BY <1>1, StayKeepsLocks

\* The same for a plain move.
LEMMA GotoKeepsLocks ==
  ASSUME TypeOK, LocksMatchHandlers, NEW p \in Procs, NEW pc \in Pcs, Goto(p, pc), UNCHANGED locks,
         \/ /\ {pc, task[p].pc} \subseteq {"check", "write", "rotate", "rollback", "notify"}
            /\ task[p].op # "single"
            /\ task[p].op \in {"rotate", "boxes", "group"}
                  => {pc, task[p].pc} \subseteq {"check", "write", "notify"}
         \/ {pc, task[p].pc} \subseteq {"upsert", "list", "each", "restore"} /\ task[p].op = "publish"
         \/ {pc, task[p].pc} \subseteq {"check", "deliver"} /\ task[p].op = "single"
         \/ {pc, task[p].pc} \subseteq {"fetch", "rlock"}
  PROVE  LocksMatchHandlers'
<1> DEFINE t == [task[p] EXCEPT !.pc = pc]
<1>1. Become(p, t) /\ task[p] \in Tasks
  BY DEF Goto, TypeOK
<1>2. t.pc = pc /\ t.op = task[p].op /\ t.group = task[p].group
  BY <1>1, MovedFields
<1> HIDE DEF t
<1> QED
  BY <1>1, <1>2, StretchKeepsLocks

\* A request starts with no lock.
LEMMA StartKeepsLocks ==
  ASSUME TypeOK, LocksMatchHandlers, NEW p \in Procs, NEW t, Start(p, t), UNCHANGED locks,
         t.pc \in {"glock", "rlock", "wlock", "fetch"},
         t.pc = "glock" => t.op \in {"create", "add", "remove", "leave", "delete"}
  PROVE  LocksMatchHandlers'
<1>1. /\ ~HoldsGroup(p) /\ ~HoldsWrite(p) /\ ~HoldsRead(p)
      /\ ~HoldsGroup(p)' /\ ~HoldsWrite(p)' /\ ~HoldsRead(p)'
  <2> task'[p] = t /\ task[p] = Idle
    BY OthersHold DEF Start
  <2> QED
    BY DEF Start, Idle, Begin, HoldsGroup, HoldsWrite, HoldsRead
<1> QED
  BY <1>1, StayKeepsLocks DEF Start

\* A request starts where no lock is needed.
LEMMA RequestKeepsLocks ==
  ASSUME TypeOK, LocksMatchHandlers, NEW p \in Procs, Request(p)
  PROVE  LocksMatchHandlers'
<1> PICK u \in Users, g \in Groups :
      \/ \E us \in SUBSET Users : CreateGroup(p, u, g, us) \/ RequestAdd(p, u, g, us)
      \/ \E m \in Users : RequestRemove(p, u, g, m) \/ RequestSendSingle(p, u, m)
      \/ RequestLeave(p, u, g) \/ RequestDelete(p, u, g)
      \/ \E v \in 1 .. MaxVersion : RequestRotate(p, u, g, v)
      \/ \E type \in {"text", "call"} : RequestSendGroup(p, u, g, type)
      \/ \E k \in 1 .. MaxKey : RequestPublishKey(p, u, k)
      \/ GetGroupCurrentKeyBox(p, u, g)
  BY DEF Request
<1>1. ASSUME NEW us \in SUBSET Users, CreateGroup(p, u, g, us) PROVE LocksMatchHandlers'
  BY <1>1, StartKeepsLocks DEF CreateGroup, Begin
<1>2. ASSUME NEW us \in SUBSET Users, RequestAdd(p, u, g, us) PROVE LocksMatchHandlers'
  BY <1>2, StartKeepsLocks DEF RequestAdd, Begin
<1>3. ASSUME NEW m \in Users, RequestRemove(p, u, g, m) PROVE LocksMatchHandlers'
  BY <1>3, StartKeepsLocks DEF RequestRemove, Begin
<1>4. ASSUME NEW m \in Users, RequestSendSingle(p, u, m) PROVE LocksMatchHandlers'
  BY <1>4, StartKeepsLocks DEF RequestSendSingle, Begin
<1>5. ASSUME RequestLeave(p, u, g) PROVE LocksMatchHandlers'
  BY <1>5, StartKeepsLocks DEF RequestLeave, Begin
<1>6. ASSUME RequestDelete(p, u, g) PROVE LocksMatchHandlers'
  BY <1>6, StartKeepsLocks DEF RequestDelete, Begin
<1>7. ASSUME NEW v \in 1 .. MaxVersion, RequestRotate(p, u, g, v) PROVE LocksMatchHandlers'
  BY <1>7, StartKeepsLocks DEF RequestRotate, Begin
<1>8. ASSUME NEW type \in {"text", "call"}, RequestSendGroup(p, u, g, type) PROVE LocksMatchHandlers'
  BY <1>8, StartKeepsLocks DEF RequestSendGroup, Begin
<1>9. ASSUME NEW k \in 1 .. MaxKey, RequestPublishKey(p, u, k) PROVE LocksMatchHandlers'
  BY <1>9, StartKeepsLocks DEF RequestPublishKey, Begin
<1>10. ASSUME GetGroupCurrentKeyBox(p, u, g) PROVE LocksMatchHandlers'
  BY <1>10, StartKeepsLocks DEF GetGroupCurrentKeyBox, Begin
<1> QED
  BY <1>1, <1>2, <1>3, <1>4, <1>5, <1>6, <1>7, <1>8, <1>9, <1>10

\* GroupService keeps its locks until it returns.
LEMMA MemberStepsKeepLocks ==
  ASSUME TypeOK, LocksMatchHandlers, NEW p \in Procs, MemberSteps(p)
  PROVE  LocksMatchHandlers'
<1> task[p] \in Tasks
  BY DEF TypeOK
<1> Fits(task[p].op, task[p].pc)
  BY TaskFacts
<1>1. ASSUME Refuse(p) PROVE LocksMatchHandlers'
  BY <1>1, ReturnReleases DEF Refuse
<1>2. ASSUME Pass(p) PROVE LocksMatchHandlers'
  <2> DEFINE t == [task[p] EXCEPT !.pc = "write",
                !.users = IF task[p].op = "add" THEN NewMembers(task[p]) ELSE task[p].users]
  <2>1. t.pc = "write" /\ t.op = task[p].op /\ t.group = task[p].group
    BY MovedFields DEF Pcs
  <2>2. Become(p, t) /\ UNCHANGED locks
    BY <1>2 DEF Pass
  <2> HIDE DEF t
  <2> QED
    BY <1>2, <2>1, <2>2, StretchKeepsLocks DEF Pass, At, Fits
<1>3. ASSUME AddMembers(p) PROVE LocksMatchHandlers'
  BY <1>3, GotoKeepsLocks DEF AddMembers, At, Fits, Pcs
<1>4. ASSUME RemoveMember(p) PROVE LocksMatchHandlers'
  BY <1>4, GotoKeepsLocks DEF RemoveMember, At, Fits, Pcs
<1>5. ASSUME DeleteGroup(p) PROVE LocksMatchHandlers'
  BY <1>5, ReturnReleases DEF DeleteGroup
<1>6. ASSUME Rotate(p) PROVE LocksMatchHandlers'
  <2> DEFINE t == [task[p] EXCEPT !.pc = "notify", !.ver = version[task[p].group] + 1]
  <2>1. t.pc = "notify" /\ t.op = task[p].op /\ t.group = task[p].group
    BY MovedFields DEF Pcs
  <2>2. Become(p, t) /\ UNCHANGED locks
    BY <1>6 DEF Rotate
  <2> HIDE DEF t
  <2> QED
    BY <1>6, <2>1, <2>2, StretchKeepsLocks DEF Rotate, At, Fits
<1>7. ASSUME RotateRefused(p) PROVE LocksMatchHandlers'
  BY <1>7, GotoKeepsLocks DEF RotateRefused, At, Fits, Pcs
<1>8. ASSUME Rollback(p) PROVE LocksMatchHandlers'
  BY <1>8, ReturnReleases DEF Rollback
<1>9. ASSUME NotifyGroupKeyChanged(p) PROVE LocksMatchHandlers'
  BY <1>9, ReturnReleases DEF NotifyGroupKeyChanged
<1> QED
  BY <1>1, <1>2, <1>3, <1>4, <1>5, <1>6, <1>7, <1>8, <1>9 DEF MemberSteps

\* So does E2EEService.
LEMMA KeyStepsKeepLocks ==
  ASSUME TypeOK, LocksMatchHandlers, NEW p \in Procs, KeySteps(p)
  PROVE  LocksMatchHandlers'
<1> task[p] \in Tasks
  BY DEF TypeOK
<1> Fits(task[p].op, task[p].pc)
  BY TaskFacts
<1>1. ASSUME RotateGroupKeyIfCurrent(p) PROVE LocksMatchHandlers'
  <2> DEFINE t == [task[p] EXCEPT !.pc = "notify", !.ver = version'[task[p].group]]
  <2>1. t.pc = "notify" /\ t.op = task[p].op /\ t.group = task[p].group
    BY MovedFields DEF Pcs
  <2>2. Become(p, t) /\ UNCHANGED locks
    BY <1>1 DEF RotateGroupKeyIfCurrent
  <2> HIDE DEF t
  <2> QED
    BY <1>1, <2>1, <2>2, StretchKeepsLocks DEF RotateGroupKeyIfCurrent, At, Fits
<1>2. ASSUME ReplaceVersionBoxes(p) PROVE LocksMatchHandlers'
  BY <1>2, ReturnReleases DEF ReplaceVersionBoxes
<1>3. ASSUME WriteRefused(p) PROVE LocksMatchHandlers'
  BY <1>3, ReturnReleases DEF WriteRefused
<1>4. ASSUME Upsert(p) PROVE LocksMatchHandlers'
  <2> DEFINE t == [task[p] EXCEPT !.pc = "list", !.ver = idkey[task[p].user]]
  <2>1. t.pc = "list" /\ t.op = task[p].op /\ t.group = task[p].group
    BY MovedFields DEF Pcs
  <2>2. Return(p) \/ (Become(p, t) /\ UNCHANGED locks)
    BY <1>4 DEF Upsert
  <2> HIDE DEF t
  <2> QED
    BY <1>4, <2>1, <2>2, ReturnReleases, StretchKeepsLocks DEF Upsert, Fits
<1>5. ASSUME ListGroups(p) PROVE LocksMatchHandlers'
  <2> DEFINE t == [task[p] EXCEPT !.pc = "each",
                !.groups = {g \in Groups : Live(g) /\ IsMember(g, task[p].user)}]
  <2>1. t.pc = "each" /\ t.op = task[p].op /\ t.group = task[p].group
    BY MovedFields DEF Pcs
  <2>2. Become(p, t) /\ UNCHANGED locks
    BY <1>5 DEF ListGroups
  <2> HIDE DEF t
  <2> QED
    BY <1>5, <2>1, <2>2, StretchKeepsLocks DEF ListGroups, At, Fits
<1>6. ASSUME PublishReturns(p) PROVE LocksMatchHandlers'
  BY <1>6, ReturnReleases DEF PublishReturns
<1>7. ASSUME RollbackIdentityChange(p) PROVE LocksMatchHandlers'
  BY <1>7, ReturnReleases DEF RollbackIdentityChange
<1>8. ASSUME NEW g \in Groups, RotateOne(p, g) PROVE LocksMatchHandlers'
  <2> DEFINE t == [task[p] EXCEPT !.groups = task[p].groups \ {g},
                !.notes = task[p].notes \cup {<<g, version[g] + 1>>}]
  <2>1. t.pc = task[p].pc /\ t.op = task[p].op /\ t.group = task[p].group
    BY EditedFields DEF Pcs
  <2>2. Become(p, t) /\ UNCHANGED locks
    BY <1>8 DEF RotateOne
  <2> HIDE DEF t
  <2> QED
    BY <1>8, <2>1, <2>2, StretchKeepsLocks DEF RotateOne, At, Fits
<1>9. ASSUME NEW g \in Groups, RotateOneRefused(p, g) PROVE LocksMatchHandlers'
  BY <1>9, GotoKeepsLocks DEF RotateOneRefused, At, Fits, Pcs
<1>10. ASSUME NEW n \in task[p].notes, Announce(p, n) PROVE LocksMatchHandlers'
  <2> DEFINE t == [task[p] EXCEPT !.notes = task[p].notes \ {n}]
  <2>1. t.pc = task[p].pc /\ t.op = task[p].op /\ t.group = task[p].group
    BY EditedFields DEF Pcs
  <2>2. Become(p, t) /\ UNCHANGED locks
    BY <1>10 DEF Announce
  <2> HIDE DEF t
  <2> QED
    BY <1>10, <2>1, <2>2, StretchKeepsLocks DEF Announce, At, Fits
<1> QED
  BY <1>1, <1>2, <1>3, <1>4, <1>5, <1>6, <1>7, <1>8, <1>9, <1>10 DEF KeySteps

\* ChatService frees the group when it accepts, the rest when it returns.
LEMMA SendStepsKeepLocks ==
  ASSUME TypeOK, LocksMatchHandlers, NEW p \in Procs, SendSteps(p)
  PROVE  LocksMatchHandlers'
<1> task[p] \in Tasks
  BY DEF TypeOK
<1> Fits(task[p].op, task[p].pc)
  BY TaskFacts
<1>1. ASSUME AcceptGroupMessage(p) PROVE LocksMatchHandlers'
  BY <1>1, AcceptReleasesGroup DEF AcceptGroupMessage
<1>2. ASSUME AcceptSingleMessage(p) PROVE LocksMatchHandlers'
  BY <1>2, GotoKeepsLocks DEF AcceptSingleMessage, At, Fits, Pcs
<1>3. ASSUME Deliver(p) PROVE LocksMatchHandlers'
  BY <1>3, ReturnReleases DEF Deliver
<1> QED
  BY <1>1, <1>2, <1>3 DEF SendSteps

\* The uploading client holds no lock.
LEMMA ClientStepsKeepLocks ==
  ASSUME TypeOK, LocksMatchHandlers, NEW p \in Procs, ClientSteps(p)
  PROVE  LocksMatchHandlers'
<1> task[p] \in Tasks
  BY DEF TypeOK
<1> Fits(task[p].op, task[p].pc)
  BY TaskFacts
<1>1. ASSUME GiveUp(p) PROVE LocksMatchHandlers'
  <2>1. /\ ~HoldsGroup(p) /\ ~HoldsWrite(p) /\ ~HoldsRead(p)
        /\ ~HoldsGroup(p)' /\ ~HoldsWrite(p)' /\ ~HoldsRead(p)'
    BY <1>1, OthersHold DEF GiveUp, Idle, Begin, HoldsGroup, HoldsWrite, HoldsRead
  <2> QED
    BY <1>1, <2>1, StayKeepsLocks DEF GiveUp
<1>2. ASSUME PostBoxes(p) PROVE LocksMatchHandlers'
  BY <1>2, GotoKeepsLocks DEF PostBoxes, At, Fits, Pcs
<1>3. ASSUME NEW m \in task[p].users, GetUserPublicKey(p, m) PROVE LocksMatchHandlers'
  <2> DEFINE t == [task[p] EXCEPT !.users = task[p].users \ {m},
                !.cargo = task[p].cargo \cup {<<m, idkey[m]>>}]
  <2>1. t.pc = task[p].pc /\ t.op = task[p].op /\ t.group = task[p].group
    BY EditedFields DEF Pcs
  <2>2. Become(p, t) /\ UNCHANGED locks
    BY <1>3 DEF GetUserPublicKey
  <2> HIDE DEF t
  <2> QED
    BY <1>3, <2>1, <2>2, StretchKeepsLocks DEF GetUserPublicKey, At, Fits
<1> QED
  BY <1>1, <1>2, <1>3 DEF ClientSteps

\* A failed statement returns or leads to a rollback under the same locks.
LEMMA FailedStepsKeepLocks ==
  ASSUME TypeOK, LocksMatchHandlers, NEW p \in Procs, FailedSteps(p)
  PROVE  LocksMatchHandlers'
<1> task[p] \in Tasks
  BY DEF TypeOK
<1> Fits(task[p].op, task[p].pc)
  BY TaskFacts
<1>1. ASSUME RotateFails(p) PROVE LocksMatchHandlers'
  BY <1>1, GotoKeepsLocks DEF RotateFails, At, Fits, Pcs
<1>2. ASSUME RollbackFails(p) PROVE LocksMatchHandlers'
  BY <1>2, ReturnReleases DEF RollbackFails
<1>3. ASSUME StatementFails(p) PROVE LocksMatchHandlers'
  BY <1>3, ReturnReleases DEF StatementFails
<1>4. ASSUME UpsertFails(p) PROVE LocksMatchHandlers'
  BY <1>4, ReturnReleases DEF UpsertFails
<1>5. ASSUME RotateOneFails(p) PROVE LocksMatchHandlers'
  BY <1>5, GotoKeepsLocks DEF RotateOneFails, At, Fits, Pcs
<1>6. ASSUME RollbackIdentityFails(p) PROVE LocksMatchHandlers'
  BY <1>6, ReturnReleases DEF RollbackIdentityFails
<1>7. ASSUME NotifyFails(p) PROVE LocksMatchHandlers'
  BY <1>7, ReturnReleases DEF NotifyFails
<1>8. ASSUME NEW n \in task[p].notes, AnnounceFails(p, n) PROVE LocksMatchHandlers'
  <2> DEFINE t == [task[p] EXCEPT !.notes = task[p].notes \ {n}]
  <2>1. t.pc = task[p].pc /\ t.op = task[p].op /\ t.group = task[p].group
    BY EditedFields
  <2>2. Become(p, t) /\ UNCHANGED locks
    BY <1>8 DEF AnnounceFails
  <2> HIDE DEF t
  <2> QED
    BY <2>1, <2>2, StretchKeepsLocks
<1> QED
  BY <1>1, <1>2, <1>3, <1>4, <1>5, <1>6, <1>7, <1>8 DEF FailedSteps

\* On every path of every handler, through failures, restarts and deletions:
\* the locks held are the ones the handlers' positions call for
\* (LocksMatchHandlers).
THEOREM LocksHeld == Spec => []LocksMatchHandlers
<1>1. Init => LocksMatchHandlers
  BY ConstantsAssumption DEF Init, LocksMatchHandlers, HoldsGroup, HoldsWrite, HoldsRead,
     Idle, Begin
<1>2. TypeOK /\ LocksMatchHandlers /\ [Next]_vars => LocksMatchHandlers'
  <2> SUFFICES ASSUME TypeOK, LocksMatchHandlers, [Next]_vars PROVE LocksMatchHandlers'
    OBVIOUS
  <2>1. ASSUME NEW u \in Users, DeleteUser(u) PROVE LocksMatchHandlers'
    BY <2>1 DEF DeleteUser, locks, LocksMatchHandlers, HoldsGroup, HoldsWrite, HoldsRead
  <2>2. CASE Crash
    BY <2>2, ConstantsAssumption DEF Crash, LocksMatchHandlers, HoldsGroup, HoldsWrite,
       HoldsRead, Idle, Begin
  <2>3. CASE UNCHANGED vars
    BY <2>3 DEF vars, locks, LocksMatchHandlers, HoldsGroup, HoldsWrite, HoldsRead
  <2> QED
    BY <2>1, <2>2, <2>3, RequestKeepsLocks, AcquireKeepsLocks, MemberStepsKeepLocks,
       KeyStepsKeepLocks, SendStepsKeepLocks, ClientStepsKeepLocks, FailedStepsKeepLocks
       DEF Next, Progress
<1> QED
  BY <1>1, <1>2, TypeCorrect, PTL DEF Spec

----------------------------------------------------------------------------
(* Members and boxes, when at most one statement fails.  Covered is what   *)
(* the handlers rely on between two steps: of a group (GroupFits,          *)
(* BoxesCover) and of a request where it stands (TaskStands,               *)
(* UploadCovers).  Its heart is Audience, which says whom a version is     *)
(* for while a change of members is rotated or taken back.                 *)

\* The users a task carries wrapped keys for.
Wrapped(t) == {c[1] : c \in t.cargo}

\* A handler has changed the members of g and has neither rotated the key nor
\* put the members back.
Midway(t, g) ==
    /\ t.pc \in {"rotate", "rollback"} /\ t.op \in {"add", "remove", "leave"}
    /\ t.group = g

\* The members a rollback of t makes of ms.
Restored(t, ms) == IF t.op = "add" THEN ms \ t.users ELSE ms \cup t.users

\* The users a version of g is for: the members, or those before a change
\* that is not finished.
Audience(g, us) ==
    /\ (\A p \in Procs : ~Midway(task[p], g)) => us = members[g]
    /\ \A p \in Procs : Midway(task[p], g) => us = Restored(task[p], members[g])

\* A live group has its owner, the others are empty.
GroupFits(g) ==
    /\ IF Live(g) THEN owner[g] \in members[g] ELSE members[g] = {}
    /\ state[g] = "absent" => version[g] = 0 /\ boxes[g] = {}

\* What a handler knows of its group from where it stands.
TaskStands(t) ==
    /\ t.op \notin {"none", "single", "publish"} => state[t.group] # "absent"
    /\ t.op \in {"remove", "leave"} => t.users # {} /\ owner[t.group] \notin t.users
    /\ t.op \in {"add", "remove", "leave"} /\ t.pc \in {"write", "rotate", "rollback"} =>
          Live(t.group)
    /\ t.op = "add" =>
          /\ t.pc = "write" => t.users \cap members[t.group] = {}
          /\ t.pc \in {"rotate", "rollback"} => t.users \subseteq members[t.group] \ {owner[t.group]}
    /\ t.op \in {"remove", "leave"} =>
          /\ t.pc = "write" => t.users \subseteq members[t.group]
          /\ t.pc \in {"rotate", "rollback"} => t.users \cap members[t.group] = {}
    /\ t.pc = "rollback" /\ Live(t.group) => failures > 0
    /\ t.op = "boxes" =>
          /\ t.ver <= version[t.group]
          /\ t.pc # "fetch" => t.users = {}
          /\ t.pc = "write" => Wrapped(t) = members[t.group]

BoxesCover(g) == Live(g) => boxes[g] = {} \/ Audience(g, Holders(boxes[g]))

\* An upload in flight that is not stale.
UploadCovers(t) ==
    t.op = "boxes" /\ Live(t.group) /\ t.ver = version[t.group] =>
        Audience(t.group, t.users \cup Wrapped(t))

Covered ==
    /\ \A g \in Groups : GroupFits(g) /\ BoxesCover(g)
    /\ \A p \in Procs : TaskStands(task[p]) /\ UploadCovers(task[p])

CoveredAfterOneFailure == OneFailure => Covered

\* Two handlers never hold the lock of one group.
LEMMA OneHolder ==
  ASSUME TypeOK, LocksMatchHandlers, NEW p \in Procs, NEW q \in Procs \ {p},
         HoldsGroup(p), task[p].group = task[q].group
  PROVE  ~HoldsGroup(q)
  BY DEF LocksMatchHandlers

\* Become changes the task of one process.
LEMMA BecomeMoves ==
  ASSUME TypeOK, NEW p \in Procs, NEW t, Become(p, t)
  PROVE  task'[p] = t /\ \A q \in Procs \ {p} : task'[q] = task[q]
  BY DEF Become, TypeOK

\* A move keeps all of a task but its position.
LEMMA GotoSame ==
  ASSUME NEW x \in Tasks, NEW pc \in Pcs, NEW t, t = [x EXCEPT !.pc = pc]
  PROVE  /\ t.pc = pc /\ t.op = x.op /\ t.user = x.user /\ t.group = x.group /\ t.users = x.users
         /\ t.key = x.key /\ t.ver = x.ver /\ t.groups = x.groups /\ t.cargo = x.cargo
         /\ t.notes = x.notes
  BY DEF Tasks, Records

\* While one handler works on a group, the others stand before its lock.
LEMMA OthersWait ==
  ASSUME TypeOK, LocksMatchHandlers, NEW p \in Procs, HoldsGroup(p)
  PROVE  \A q \in Procs \ {p} : task[q].group = task[p].group =>
            task[q].pc \notin {"write", "rotate", "rollback"}
<1> SUFFICES ASSUME NEW q \in Procs \ {p}, task[q].group = task[p].group
             PROVE  task[q].pc \notin {"write", "rotate", "rollback"}
  OBVIOUS
<1>1. ~HoldsGroup(q)
  BY OneHolder
<1>2. Fits(task[q].op, task[q].pc)
  BY TaskFacts DEF TypeOK
<1> QED
  BY <1>1, <1>2 DEF HoldsGroup, Fits

\* No row of a group changes.
Untouched(g) ==
    /\ state'[g] = state[g] /\ owner'[g] = owner[g] /\ members'[g] = members[g]
    /\ version'[g] = version[g] /\ boxes'[g] = boxes[g]

\* What a version is for does not change with a step of somebody else.
LEMMA AudienceStays ==
  ASSUME TypeOK, NEW p \in Procs, NEW t, Become(p, t), NEW g, Untouched(g),
         ~Midway(task[p], g), ~Midway(t, g), NEW us, Audience(g, us)
  PROVE  Audience(g, us)'
<1>1. \A q \in Procs : Midway(task[q], g)' <=> Midway(task[q], g)
  BY BecomeMoves DEF Midway
<1>2. \A q \in Procs : Midway(task[q], g) =>
         Restored(task[q], members[g])' = Restored(task[q], members[g])
  BY BecomeMoves DEF Restored, Untouched
<1> QED
  BY <1>1, <1>2 DEF Audience, Untouched

\* A step that touches no row of a group.
LEMMA UntouchedGroup ==
  ASSUME TypeOK, Covered, NEW p \in Procs, NEW t, Become(p, t), NEW g \in Groups, Untouched(g),
         ~Midway(task[p], g), ~Midway(t, g)
  PROVE  GroupFits(g)' /\ BoxesCover(g)'
<1>1. GroupFits(g) /\ BoxesCover(g)
  BY DEF Covered
<1>2. GroupFits(g)'
  BY <1>1 DEF GroupFits, Untouched, Live
<1>3. BoxesCover(g)'
  BY <1>1, AudienceStays DEF BoxesCover, Untouched, Live, Holders
<1> QED
  BY <1>2, <1>3

\* A step that touches no row of the group of another task.
LEMMA UntouchedTask ==
  ASSUME TypeOK, TypeOK', Covered, NEW p \in Procs, NEW t, Become(p, t), NEW x \in Tasks,
         TaskStands(x), UploadCovers(x), failures' >= failures,
         x.op \notin {"none", "single", "publish"} => Untouched(x.group),
         ~Midway(task[p], x.group), ~Midway(t, x.group)
  PROVE  TaskStands(x)' /\ UploadCovers(x)'
<1>1. failures > 0 => failures' > 0
  BY DEF TypeOK
<1>2. CASE x.op \in {"none", "single", "publish"}
  <2>1. x.pc # "rollback"
    BY <1>2, TaskFacts DEF Fits
  <2> QED
    BY <1>2, <2>1 DEF TaskStands, UploadCovers
<1>3. CASE x.op \notin {"none", "single", "publish"}
  <2>1. Untouched(x.group)
    BY <1>3
  <2>2. TaskStands(x)'
    BY <1>1, <2>1 DEF TaskStands, Untouched, Live, Wrapped
  <2>3. \A us : Audience(x.group, us) => Audience(x.group, us)'
    BY <2>1, AudienceStays
  <2>4. UploadCovers(x)'
    BY <2>1, <2>3 DEF UploadCovers, Untouched, Live, Wrapped
  <2> QED
    BY <2>2, <2>4
<1> QED
  BY <1>2, <1>3

\* A step of p that touches the rows of h only.
LEMMA StepInGroup ==
  ASSUME TypeOK, TypeOK', Covered, NEW p \in Procs, NEW t \in Tasks, Become(p, t),
         NEW h \in Groups, \A g \in Groups \ {h} : Untouched(g), failures' >= failures,
         \A g : Midway(task[p], g) \/ Midway(t, g) => g = h,
         GroupFits(h)', BoxesCover(h)', TaskStands(t)', UploadCovers(t)',
         \A q \in Procs \ {p} : task[q].group = h =>
            TaskStands(task[q])' /\ UploadCovers(task[q])'
  PROVE  Covered'
<1>1. ASSUME NEW g \in Groups PROVE GroupFits(g)' /\ BoxesCover(g)'
  BY UntouchedGroup
<1>2. ASSUME NEW q \in Procs PROVE TaskStands(task[q])' /\ UploadCovers(task[q])'
  <2>1. CASE q = p
    BY <2>1, BecomeMoves DEF TaskStands, UploadCovers, Wrapped
  <2>2. CASE q # p
    <3>1. task'[q] = task[q] /\ task[q] \in Tasks
      BY <2>2, BecomeMoves DEF TypeOK
    <3>2. TaskStands(task[q]) /\ UploadCovers(task[q])
      BY DEF Covered
    <3>3. CASE task[q].group = h
      BY <2>2, <3>3
    <3>4. CASE task[q].group # h
      <4>1. task[q].op \notin {"none", "single", "publish"} => task[q].group \in Groups \ {h}
        BY <3>1, <3>4, TaskFacts
      <4>2. \A x \in Tasks : x = task[q] => TaskStands(x)' /\ UploadCovers(x)'
        BY <3>2, <3>4, <4>1, UntouchedTask
      <4> QED
        BY <3>1, <4>2 DEF TaskStands, UploadCovers, Wrapped
    <3> QED
      BY <3>3, <3>4
  <2> QED
    BY <2>1, <2>2
<1> QED
  BY <1>1, <1>2 DEF Covered

\* A step of p that touches no group.
LEMMA StepBeside ==
  ASSUME TypeOK, TypeOK', Covered, NEW p \in Procs, NEW t \in Tasks, Become(p, t),
         \A g \in Groups : Untouched(g), failures' >= failures,
         \A g : ~Midway(task[p], g) /\ ~Midway(t, g),
         TaskStands(t)', UploadCovers(t)'
  PROVE  Covered'
<1>1. ASSUME NEW g \in Groups PROVE GroupFits(g)' /\ BoxesCover(g)'
  BY UntouchedGroup
<1>2. ASSUME NEW q \in Procs PROVE TaskStands(task[q])' /\ UploadCovers(task[q])'
  <2>1. CASE q = p
    BY <2>1, BecomeMoves DEF TaskStands, UploadCovers, Wrapped
  <2>2. CASE q # p
    <3>1. task'[q] = task[q] /\ task[q] \in Tasks
      BY <2>2, BecomeMoves DEF TypeOK
    <3>2. TaskStands(task[q]) /\ UploadCovers(task[q])
      BY DEF Covered
    <3>3. task[q].op \notin {"none", "single", "publish"} => task[q].group \in Groups
      BY <3>1, TaskFacts
    <3>4. \A x \in Tasks : x = task[q] => TaskStands(x)' /\ UploadCovers(x)'
      BY <3>2, <3>3, UntouchedTask
    <3> QED
      BY <3>1, <3>4 DEF TaskStands, UploadCovers, Wrapped
  <2> QED
    BY <2>1, <2>2
<1> QED
  BY <1>1, <1>2 DEF Covered

\* A step of p that touches no group, to a task that stands already.
LEMMA StepAside ==
  ASSUME TypeOK, TypeOK', Covered, NEW p \in Procs, NEW t \in Tasks, Become(p, t),
         UNCHANGED <<state, owner, members, version, boxes>>, failures' >= failures,
         \A g : ~Midway(task[p], g) /\ ~Midway(t, g),
         TaskStands(t), UploadCovers(t)
  PROVE  Covered'
<1>1. \A g \in Groups : Untouched(g)
  BY DEF Untouched
<1>2. t.op \notin {"none", "single", "publish"} => t.group \in Groups
  BY TaskFacts
<1>3. TaskStands(t)' /\ UploadCovers(t)'
  BY <1>1, <1>2, UntouchedTask
<1> QED
  BY <1>1, <1>3, StepBeside

\* A return that touches no group.
LEMMA ReturnCovered ==
  ASSUME TypeOK, TypeOK', Covered, NEW p \in Procs, Become(p, Idle), failures' >= failures,
         UNCHANGED <<state, owner, members, version, boxes>>,
         \A g : ~Midway(task[p], g)
  PROVE  Covered'
<1>1. TaskStands(Idle) /\ UploadCovers(Idle) /\ \A g : ~Midway(Idle, g)
  BY DEF Idle, Begin, TaskStands, UploadCovers, Midway
<1> QED
  BY <1>1, IdleIsTask, StepAside

\* A step of a request that names no group.
LEMMA NoGroupCovered ==
  ASSUME TypeOK, TypeOK', Covered, NEW p \in Procs, NEW t \in Tasks, Become(p, t),
         UNCHANGED <<state, owner, members, version, boxes>>, failures' >= failures,
         task[p].op \in {"none", "single", "publish"}, t.op \in {"none", "single", "publish"}
  PROVE  Covered'
<1>1. Fits(t.op, t.pc)
  BY TaskFacts
<1>2. TaskStands(t) /\ UploadCovers(t) /\ \A g : ~Midway(task[p], g) /\ ~Midway(t, g)
  BY <1>1 DEF Fits, TaskStands, UploadCovers, Midway
<1> QED
  BY <1>2, StepAside

\* A move to a place where nothing more is known.
LEMMA MovedStands ==
  ASSUME NEW t \in Tasks, NEW x \in Tasks, TaskStands(x), UploadCovers(x),
         t.op = x.op, t.group = x.group, t.users = x.users, t.ver = x.ver, t.cargo = x.cargo,
         t.pc \notin {"write", "rotate", "rollback", "fetch"},
         x.pc = "fetch" => x.users = {}
  PROVE  TaskStands(t) /\ UploadCovers(t)
  BY DEF TaskStands, UploadCovers, Wrapped

\* Such a move under way.
LEMMA MoveCovered ==
  ASSUME TypeOK, TypeOK', Covered, NEW p \in Procs, NEW pc \in Pcs, Goto(p, pc),
         UNCHANGED <<state, owner, members, version, boxes>>, failures' >= failures,
         pc \notin {"write", "rotate", "rollback", "fetch"},
         task[p].pc \notin {"rotate", "rollback"},
         task[p].pc = "fetch" => task[p].users = {}
  PROVE  Covered'
<1> DEFINE t == [task[p] EXCEPT !.pc = pc]
<1>1. Become(p, t) /\ task[p] \in Tasks /\ t \in Tasks
  <2>1. Become(p, t)
    BY DEF Goto
  <2> QED
    BY <2>1, BecomeMoves DEF TypeOK
<1>2. /\ t.pc = pc /\ t.op = task[p].op /\ t.group = task[p].group /\ t.users = task[p].users
      /\ t.ver = task[p].ver /\ t.cargo = task[p].cargo
  BY <1>1, GotoSame
<1> HIDE DEF t
<1>3. TaskStands(task[p]) /\ UploadCovers(task[p])
  BY DEF Covered
<1>4. TaskStands(t) /\ UploadCovers(t)
  BY <1>1, <1>2, <1>3, MovedStands
<1>5. \A g : ~Midway(task[p], g) /\ ~Midway(t, g)
  BY <1>2 DEF Midway
<1> QED
  BY <1>1, <1>4, <1>5, StepAside

\* A request that starts.
LEMMA StartCovered ==
  ASSUME TypeOK, TypeOK', Covered, NEW p \in Procs, NEW t, Start(p, t),
         UNCHANGED <<rows, faults>>, t.pc \in {"rlock", "glock", "wlock", "fetch"},
         TaskStands(t), UploadCovers(t)
  PROVE  Covered'
<1>1. Become(p, t) /\ t \in Tasks
  <2>1. Become(p, t)
    BY DEF Start
  <2> QED
    BY <2>1, BecomeMoves DEF TypeOK
<1>2. \A g : ~Midway(task[p], g) /\ ~Midway(t, g)
  BY DEF Start, Idle, Begin, Midway
<1>3. UNCHANGED <<state, owner, members, version, boxes>> /\ failures' >= failures
  BY DEF rows, faults, TypeOK
<1> QED
  BY <1>1, <1>2, <1>3, StepAside

\* A new group has its owner, and no version.
LEMMA CreateCovered ==
  ASSUME TypeOK, TypeOK', Covered, NEW p \in Procs, NEW u \in Users, NEW g \in Groups,
         NEW us \in SUBSET Users, CreateGroup(p, u, g, us)
  PROVE  Covered'
<1> DEFINE t == Begin("create", "glock", u, g, us, 0, 0, {})
<1>1. Become(p, t) /\ task[p] = Idle /\ t \in Tasks
  <2>1. Become(p, t) /\ task[p] = Idle
    BY DEF CreateGroup, Start
  <2> QED
    BY <2>1, BecomeMoves DEF TypeOK
<1>2. /\ state[g] = "absent" /\ us # {} /\ u \notin us /\ failures' = failures
      /\ state' = [state EXCEPT ![g] = "live"] /\ owner' = [owner EXCEPT ![g] = u]
      /\ members' = [members EXCEPT ![g] = us \cup {u}]
      /\ version' = version /\ boxes' = boxes
  BY DEF CreateGroup, faults
<1>3. t.pc = "glock" /\ t.op = "create" /\ t.group = g
  BY DEF Begin
<1> HIDE DEF t
<1>4. \A h : ~Midway(task[p], h) /\ ~Midway(t, h)
  BY <1>1, <1>3 DEF Midway, Idle, Begin
<1>5. \A h \in Groups \ {g} : Untouched(h)
  BY <1>2 DEF Untouched, TypeOK
<1>6. version[g] = 0 /\ boxes[g] = {}
  BY <1>2 DEF Covered, GroupFits
<1>7. GroupFits(g)'
  BY <1>2 DEF GroupFits, Live, TypeOK
<1>8. BoxesCover(g)'
  BY <1>2, <1>6 DEF BoxesCover
<1>9. TaskStands(t)' /\ UploadCovers(t)'
  <2>1. state'[g] = "live"
    BY <1>2 DEF TypeOK
  <2> QED
    BY <1>3, <2>1 DEF TaskStands, UploadCovers
<1>10. ASSUME NEW q \in Procs \ {p}, task[q].group = g
       PROVE  TaskStands(task[q])' /\ UploadCovers(task[q])'
  <2>1. task'[q] = task[q] /\ task[q] \in Tasks /\ TaskStands(task[q])
    BY <1>1, BecomeMoves DEF TypeOK, Covered
  <2>2. task[q].op \in {"none", "single", "publish"} /\ task[q].pc # "rollback"
    BY <1>2, <1>10, <2>1, TaskFacts DEF TaskStands, Fits
  <2> QED
    BY <2>1, <2>2 DEF TaskStands, UploadCovers
<1>11. failures' >= failures
  BY <1>2 DEF TypeOK
<1> QED
  BY <1>1, <1>4, <1>5, <1>7, <1>8, <1>9, <1>10, <1>11, StepInGroup

\* A free group lock means that nobody is half way through a change.
LEMMA FreeLockCalm ==
  ASSUME TypeOK, LocksMatchHandlers, NEW g \in Groups, groupLock[Stripe(g)] = None
  PROVE  \A q \in Procs : ~Midway(task[q], g)
<1> SUFFICES ASSUME NEW q \in Procs, Midway(task[q], g) PROVE FALSE
  OBVIOUS
<1>1. HoldsGroup(q) /\ task[q].group = g
  BY DEF Midway, HoldsGroup
<1> QED
  BY <1>1, ConstantsAssumption DEF LocksMatchHandlers

\* No request disturbs what is known.
LEMMA RequestCovered ==
  ASSUME TypeOK, TypeOK', LocksMatchHandlers, Covered, NEW p \in Procs, Request(p)
  PROVE  Covered'
<1> PICK u \in Users, g \in Groups :
      \/ \E us \in SUBSET Users : CreateGroup(p, u, g, us) \/ RequestAdd(p, u, g, us)
      \/ \E m \in Users : RequestRemove(p, u, g, m) \/ RequestSendSingle(p, u, m)
      \/ RequestLeave(p, u, g) \/ RequestDelete(p, u, g)
      \/ \E v \in 1 .. MaxVersion : RequestRotate(p, u, g, v)
      \/ \E type \in {"text", "call"} : RequestSendGroup(p, u, g, type)
      \/ \E k \in 1 .. MaxKey : RequestPublishKey(p, u, k)
      \/ GetGroupCurrentKeyBox(p, u, g)
  BY DEF Request
<1> GroupFits(g)
  BY DEF Covered
<1> failures \in Nat
  BY DEF TypeOK
<1> USE DEF TaskStands, UploadCovers, Begin, GroupFits, Live, IsMember
<1>1. ASSUME NEW us \in SUBSET Users, RequestAdd(p, u, g, us) PROVE Covered'
  BY <1>1, StartCovered DEF RequestAdd
<1>2. ASSUME NEW m \in Users, RequestRemove(p, u, g, m) PROVE Covered'
  BY <1>2, StartCovered DEF RequestRemove
<1>3. ASSUME NEW m \in Users, RequestSendSingle(p, u, m) PROVE Covered'
  BY <1>3, StartCovered DEF RequestSendSingle
<1>4. ASSUME RequestLeave(p, u, g) PROVE Covered'
  BY <1>4, StartCovered DEF RequestLeave
<1>5. ASSUME RequestDelete(p, u, g) PROVE Covered'
  BY <1>5, StartCovered DEF RequestDelete
<1>6. ASSUME NEW v \in 1 .. MaxVersion, RequestRotate(p, u, g, v) PROVE Covered'
  <2>1. state[g] # "absent"
    BY <1>6 DEF RequestRotate
  <2> QED
    BY <1>6, <2>1, StartCovered DEF RequestRotate
<1>7. ASSUME NEW type \in {"text", "call"}, RequestSendGroup(p, u, g, type) PROVE Covered'
  <2>1. state[g] # "absent"
    BY <1>7 DEF RequestSendGroup
  <2> QED
    BY <1>7, <2>1, StartCovered DEF RequestSendGroup
<1>8. ASSUME NEW k \in 1 .. MaxKey, RequestPublishKey(p, u, k) PROVE Covered'
  BY <1>8, StartCovered DEF RequestPublishKey
<1>9. ASSUME GetGroupCurrentKeyBox(p, u, g) PROVE Covered'
  <2> DEFINE t == Begin("boxes", "fetch", u, g, members[g], 0, version[g], {})
  <2>1. /\ Start(p, t) /\ IsMember(g, u) /\ version[g] \in Nat /\ groupLock[Stripe(g)] = None
        /\ UNCHANGED rows /\ UNCHANGED faults
    BY <1>9 DEF GetGroupCurrentKeyBox, TypeOK
  <2>2. TaskStands(t)
    BY <2>1
  <2>3. Audience(g, members[g])
    BY <2>1, FreeLockCalm DEF Audience
  <2>4. UploadCovers(t) /\ t.pc = "fetch"
    <3>1. t.users \cup Wrapped(t) = members[g] /\ t.group = g
      BY DEF Wrapped
    <3> QED
      BY <2>3, <3>1
  <2> HIDE DEF t
  <2> QED
    BY <2>1, <2>2, <2>4, StartCovered
<1> QED
  BY <1>1, <1>2, <1>3, <1>4, <1>5, <1>6, <1>7, <1>8, <1>9, CreateCovered

\* No lock operation disturbs what is known.
LEMMA AcquireCovered ==
  ASSUME TypeOK, TypeOK', Covered, NEW p \in Procs, Acquire(p)
  PROVE  Covered'
<1>0. task[p] \in Tasks /\ TaskStands(task[p]) /\ failures \in Nat
  BY DEF TypeOK, Covered
<1> USE DEF rows, faults
<1>1. ASSUME AcquireIdentityRead(p) PROVE Covered'
  BY <1>0, <1>1, MoveCovered DEF AcquireIdentityRead, Pcs
<1>2. ASSUME AcquireIdentityWrite(p) PROVE Covered'
  BY <1>0, <1>2, MoveCovered DEF AcquireIdentityWrite, Pcs
<1>3. ASSUME AcquireGroup(p), task[p].op # "create" PROVE Covered'
  BY <1>0, <1>3, MoveCovered DEF AcquireGroup, Pcs
<1>4. ASSUME AcquireGroup(p), task[p].op = "create" PROVE Covered'
  <2> DEFINE t == [task[p] EXCEPT !.pc = "rotate"]
  <2>1. /\ Become(p, t) /\ task[p].pc = "glock"
        /\ UNCHANGED <<state, owner, members, version, boxes, failures>>
    BY <1>4 DEF AcquireGroup, Goto
  <2>2. t \in Tasks
    BY <2>1, BecomeMoves DEF TypeOK
  <2>3. t.pc = "rotate" /\ t.op = "create" /\ t.group = task[p].group
    BY <1>0, <1>4, GotoSame DEF Pcs
  <2> HIDE DEF t
  <2>4. TaskStands(t) /\ UploadCovers(t) /\ \A g : ~Midway(task[p], g) /\ ~Midway(t, g)
    BY <1>0, <1>4, <2>1, <2>3 DEF TaskStands, UploadCovers, Midway
  <2> QED
    BY <1>0, <2>1, <2>2, <2>4, StepAside
<1> QED
  BY <1>1, <1>2, <1>3, <1>4 DEF Acquire

\* Nor does accepting or delivering.
LEMMA SendCovered ==
  ASSUME TypeOK, TypeOK', Covered, NEW p \in Procs, SendSteps(p)
  PROVE  Covered'
<1>0. /\ task[p] \in Tasks /\ failures \in Nat
      /\ TaskStands(task[p]) /\ UploadCovers(task[p])
  BY DEF TypeOK, Covered
<1> USE DEF rows, faults
<1>1. ASSUME AcceptGroupMessage(p) PROVE Covered'
  <2> DEFINE g == task[p].group
             c == IF task[p].ver = 0 THEN {} ELSE {<<b.user, b.key>> : b \in boxes[g]}
             t == [task[p] EXCEPT !.pc = "deliver", !.cargo = c]
  <2>1. /\ Become(p, t) /\ At(p, "check", {"group"})
        /\ UNCHANGED <<state, owner, members, version, boxes, failures>>
    BY <1>1 DEF AcceptGroupMessage
  <2>2. t \in Tasks
    BY <2>1, BecomeMoves DEF TypeOK
  <2>3. t.pc = "deliver" /\ t.op = "group" /\ t.group = g
    BY <1>0, <2>1 DEF At, Tasks, Records
  <2> HIDE DEF t
  <2>4. TaskStands(t) /\ UploadCovers(t) /\ \A h : ~Midway(task[p], h) /\ ~Midway(t, h)
    BY <1>0, <2>1, <2>3 DEF TaskStands, UploadCovers, At, Midway
  <2> QED
    BY <1>0, <2>1, <2>2, <2>4, StepAside
<1>2. ASSUME AcceptSingleMessage(p) PROVE Covered'
  BY <1>0, <1>2, MoveCovered DEF AcceptSingleMessage, Pcs, At
<1>3. ASSUME Deliver(p) PROVE Covered'
  BY <1>0, <1>3, ReturnCovered DEF Deliver, Return, Midway
<1> QED
  BY <1>1, <1>2, <1>3 DEF SendSteps

\* One more key in the cargo.
LEMMA OneMore ==
  ASSUME NEW t, NEW s, NEW x, t.cargo = s.cargo \cup {x}
  PROVE  Wrapped(t) = Wrapped(s) \cup {x[1]}
<1> DEFINE first(c) == c[1]
<1>1. Wrapped(t) = {first(c) : c \in t.cargo} /\ Wrapped(s) = {first(c) : c \in s.cargo}
  BY DEF Wrapped
<1> HIDE DEF first
<1>2. Wrapped(t) = Wrapped(s) \cup {first(x)}
  BY <1>1
<1> QED
  BY <1>2 DEF first

\* Nor does the uploading client: a user moves from those to fetch to those fetched.
LEMMA ClientCovered ==
  ASSUME TypeOK, TypeOK', Covered, NEW p \in Procs, ClientSteps(p)
  PROVE  Covered'
<1>0. /\ task[p] \in Tasks /\ Fits(task[p].op, task[p].pc) /\ failures \in Nat
      /\ TaskStands(task[p]) /\ UploadCovers(task[p])
  BY TaskFacts DEF TypeOK, Covered
<1> USE DEF rows, faults
<1>1. ASSUME GiveUp(p) PROVE Covered'
  BY <1>0, <1>1, ReturnCovered DEF GiveUp, Midway
<1>2. ASSUME PostBoxes(p) PROVE Covered'
  BY <1>0, <1>2, MoveCovered DEF PostBoxes, Pcs
<1>3. ASSUME NEW m \in task[p].users, GetUserPublicKey(p, m) PROVE Covered'
  <2> DEFINE t == [task[p] EXCEPT !.users = task[p].users \ {m},
                                  !.cargo = task[p].cargo \cup {<<m, idkey[m]>>}]
             g == task[p].group
  <2>1. /\ Become(p, t) /\ task[p].pc = "fetch"
        /\ UNCHANGED <<state, owner, members, version, boxes, failures>>
    BY <1>3 DEF GetUserPublicKey
  <2>2. t \in Tasks
    BY <2>1, BecomeMoves DEF TypeOK
  <2>3. /\ t.pc = "fetch" /\ t.op = task[p].op /\ t.group = g /\ t.ver = task[p].ver
        /\ t.users = task[p].users \ {m} /\ t.cargo = task[p].cargo \cup {<<m, idkey[m]>>}
    BY <1>0, <2>1 DEF Tasks, Records
  <2> HIDE DEF t
  <2>4. TaskStands(t) /\ \A h : ~Midway(task[p], h) /\ ~Midway(t, h)
    BY <1>0, <2>1, <2>3 DEF TaskStands, Fits, Midway
  <2>5. t.users \cup Wrapped(t) = task[p].users \cup Wrapped(task[p])
    <3>1. Wrapped(t) = Wrapped(task[p]) \cup {m}
      <4> DEFINE x == <<m, idkey[m]>>
      <4>1. t.cargo = task[p].cargo \cup {x} /\ x[1] = m
        BY <2>3
      <4> HIDE DEF x
      <4> QED
        BY <4>1, OneMore
    <3> QED
      BY <2>3, <3>1
  <2>6. UploadCovers(t)
    BY <1>0, <2>3, <2>5 DEF UploadCovers
  <2> QED
    BY <1>0, <2>1, <2>2, <2>4, <2>6, StepAside
<1> QED
  BY <1>1, <1>2, <1>3 DEF ClientSteps

----------------------------------------------------------------------------
(* Changes of one group under its lock.                                    *)

\* A task that waits for the lock learns nothing of a change.
LEMMA WaitingStand ==
  ASSUME TypeOK, Covered, NEW q \in Procs, task'[q] = task[q],
         task[q].pc \notin {"write", "rotate", "rollback"}, NEW h \in Groups, task[q].group = h,
         state'[h] # "absent", owner'[h] = owner[h], version[h] \in Nat, version'[h] \in Nat,
         version'[h] >= version[h]
  PROVE  TaskStands(task[q])'
<1>1. TaskStands(task[q]) /\ task[q].ver \in Nat
  BY DEF Covered, TypeOK, Tasks, Records
<1> QED
  BY <1>1 DEF TaskStands

\* Before its handler changes the members, a group is in nobody else's hands.
LEMMA HolderSeesMembers ==
  ASSUME TypeOK, LocksMatchHandlers, NEW p \in Procs, HoldsGroup(p),
         NEW h \in Groups, h = task[p].group, ~Midway(task[p], h), NEW us, Audience(h, us)
  PROVE  us = members[h]
<1>1. \A q \in Procs : ~Midway(task[q], h)
  BY OthersWait DEF Midway
<1> QED
  BY <1>1 DEF Audience

\* A new version: no boxes, and every upload in flight is stale.
LEMMA NewVersionCovered ==
  ASSUME TypeOK, TypeOK', Covered, NEW p \in Procs, NEW t \in Tasks, Become(p, t),
         NEW g \in Groups, NextVersion(g), UNCHANGED <<state, owner, members>>,
         failures' >= failures, state[g] # "absent",
         \A h : Midway(task[p], h) \/ Midway(t, h) => h = g,
         \A q \in Procs \ {p} : task[q].group = g =>
            task[q].pc \notin {"write", "rotate", "rollback"},
         TaskStands(t)', t.op # "boxes"
  PROVE  Covered'
<1>1. /\ boxes'[g] = {} /\ version'[g] = version[g] + 1 /\ version[g] \in Nat
      /\ \A h \in Groups \ {g} : Untouched(h)
  BY DEF NextVersion, TypeOK, Untouched
<1>2. GroupFits(g)' /\ BoxesCover(g)'
  <2>1. GroupFits(g)
    BY DEF Covered
  <2> QED
    BY <1>1, <2>1 DEF GroupFits, BoxesCover, Live
<1>3. ASSUME NEW q \in Procs \ {p}, task[q].group = g
      PROVE  TaskStands(task[q])' /\ UploadCovers(task[q])'
  <2>1. task'[q] = task[q]
    BY BecomeMoves
  <2>2. version'[g] \in Nat /\ version'[g] >= version[g]
    BY <1>1
  <2>3. TaskStands(task[q])'
    BY <1>1, <1>3, <2>1, <2>2, WaitingStand
  <2>4. task[q].op = "boxes" => task[q].ver # version'[g]
    <3>1. TaskStands(task[q]) /\ task[q].ver \in Nat
      BY DEF Covered, TypeOK, Tasks, Records
    <3> QED
      BY <1>1, <1>3, <3>1 DEF TaskStands
  <2>5. UploadCovers(task[q])'
    BY <1>3, <2>1, <2>4 DEF UploadCovers
  <2> QED
    BY <2>3, <2>5
<1>4. UploadCovers(t)'
  BY DEF UploadCovers
<1> QED
  BY <1>1, <1>2, <1>3, <1>4, StepInGroup

\* The members of h change and its version does not.  What its version is for
\* must not change.
LEMMA MembersChange ==
  ASSUME TypeOK, TypeOK', LocksMatchHandlers, Covered, NEW p \in Procs, HoldsGroup(p),
         NEW t \in Tasks, Become(p, t), t.op # "boxes", NEW h \in Groups, h = task[p].group,
         NEW ms \in SUBSET Users, members' = [members EXCEPT ![h] = ms], owner[h] \in ms, Live(h),
         UNCHANGED <<state, owner, version, boxes, failures>>,
         \A g : Midway(t, g) => g = h,
         \A us : Audience(h, us) => Audience(h, us)',
         TaskStands(t)'
  PROVE  Covered'
<1>1. members'[h] = ms /\ \A g \in Groups \ {h} : Untouched(g)
  BY DEF Untouched, TypeOK
<1>2. GroupFits(h)' /\ BoxesCover(h)'
  <2>1. GroupFits(h) /\ BoxesCover(h)
    BY DEF Covered
  <2> QED
    BY <1>1, <2>1 DEF GroupFits, BoxesCover, Live
<1>3. ASSUME NEW q \in Procs \ {p}, task[q].group = h
      PROVE  TaskStands(task[q])' /\ UploadCovers(task[q])'
  <2>1. task'[q] = task[q] /\ UploadCovers(task[q])
    BY BecomeMoves DEF Covered
  <2>2. TaskStands(task[q])'
    BY <1>3, <2>1, OthersWait, WaitingStand DEF Live, TypeOK
  <2>3. UploadCovers(task[q])'
    BY <1>3, <2>1 DEF UploadCovers, Live, Wrapped
  <2> QED
    BY <2>2, <2>3
<1>4. UploadCovers(t)' /\ \A g : Midway(task[p], g) => g = h
  BY DEF UploadCovers, Midway
<1>5. failures' >= failures
  BY DEF TypeOK
<1> QED
  BY <1>1, <1>2, <1>3, <1>4, <1>5, StepInGroup

\* A change of members, which can be taken back.
LEMMA ChangedCovered ==
  ASSUME TypeOK, TypeOK', LocksMatchHandlers, Covered, NEW p \in Procs, HoldsGroup(p),
         task[p].pc = "write", Goto(p, "rotate"), task[p].op \in {"add", "remove", "leave"},
         NEW h \in Groups, h = task[p].group,
         NEW ms \in SUBSET Users, members' = [members EXCEPT ![h] = ms], owner[h] \in ms,
         IF task[p].op = "add" THEN ms = members[h] \cup task[p].users
                               ELSE ms = members[h] \ task[p].users,
         UNCHANGED <<state, owner, version, boxes, failures>>
  PROVE  Covered'
<1>1. TaskStands(task[p]) /\ GroupFits(h)
  BY DEF Covered
<1>2. PICK t \in Tasks :
         /\ Become(p, t)
         /\ t.pc = "rotate" /\ t.op = task[p].op /\ t.group = h /\ t.users = task[p].users
  <2> DEFINE x == [task[p] EXCEPT !.pc = "rotate"]
  <2>1. Become(p, x) /\ task[p] \in Tasks
    BY DEF Goto, TypeOK
  <2>2. x \in Tasks
    BY <2>1, BecomeMoves DEF TypeOK
  <2>3. /\ x.pc = "rotate" /\ x.op = task[p].op /\ x.group = h /\ x.users = task[p].users
    BY <2>1, GotoSame DEF Pcs
  <2> QED
    BY <2>1, <2>2, <2>3
<1>3. Live(h) /\ members'[h] = ms /\ task'[p] = t
  BY <1>1, <1>2, BecomeMoves DEF TaskStands, TypeOK
<1>4. Restored(t, ms) = members[h]
  BY <1>1, <1>2 DEF Restored, TaskStands
<1>5. ASSUME NEW us, Audience(h, us) PROVE Audience(h, us)'
  <2>1. us = members[h]
    BY <1>5, HolderSeesMembers DEF Midway
  <2>2. \A q \in Procs \ {p} : ~Midway(task[q], h)'
    BY <1>2, OthersWait, BecomeMoves DEF Midway
  <2>3. Midway(task[p], h)' /\ Restored(task[p], members[h])' = members[h]
    BY <1>2, <1>3, <1>4 DEF Midway, Restored
  <2> QED
    BY <2>1, <2>2, <2>3 DEF Audience
<1>6. TaskStands(t)'
  <2>1. t.op = "add" => t.users \subseteq ms \ {owner[h]}
    BY <1>1, <1>2, <1>3 DEF TaskStands, GroupFits
  <2>2. t.op # "add" => t.users \cap ms = {}
    BY <1>2
  <2> QED
    BY <1>1, <1>2, <1>3, <2>1, <2>2 DEF TaskStands, Live
<1> QED
  BY <1>2, <1>3, <1>5, <1>6, MembersChange DEF Midway

\* The rotation has failed: the members are those before the change.
LEMMA RolledBackCovered ==
  ASSUME TypeOK, TypeOK', LocksMatchHandlers, Covered, NEW p \in Procs, HoldsGroup(p),
         Become(p, Idle), NEW h \in Groups, Midway(task[p], h), Live(h),
         members' = [members EXCEPT ![h] = Restored(task[p], members[h])],
         UNCHANGED <<state, owner, version, boxes, failures>>
  PROVE  Covered'
<1>1. TaskStands(task[p]) /\ GroupFits(h) /\ task[p] \in Tasks /\ h = task[p].group
  BY DEF Covered, TypeOK, Midway
<1>2. PICK ms \in SUBSET Users : ms = Restored(task[p], members[h])
  BY <1>1 DEF Restored, TypeOK, Tasks, Records
<1>3. owner[h] \in ms
  BY <1>1, <1>2 DEF GroupFits, TaskStands, Midway, Restored
<1>4. members'[h] = ms /\ task'[p] = Idle
  BY <1>2, BecomeMoves DEF TypeOK
<1>5. ASSUME NEW us, Audience(h, us) PROVE Audience(h, us)'
  <2>1. us = ms
    BY <1>2, <1>5 DEF Audience
  <2>2. \A q \in Procs : ~Midway(task[q], h)'
    BY <1>1, <1>4, OthersWait, BecomeMoves DEF Midway, Idle, Begin
  <2> QED
    BY <1>4, <2>1, <2>2 DEF Audience
<1>6. TaskStands(Idle)' /\ Idle.op # "boxes" /\ \A g : ~Midway(Idle, g)
  BY DEF TaskStands, Idle, Begin, Midway
<1> QED
  BY <1>1, <1>2, <1>3, <1>5, <1>6, IdleIsTask, MembersChange

\* A group is dissolved.
LEMMA DissolvedCovered ==
  ASSUME TypeOK, TypeOK', LocksMatchHandlers, Covered, NEW p \in Procs, HoldsGroup(p),
         Become(p, Idle), NEW h \in Groups, h = task[p].group,
         members' = [members EXCEPT ![h] = {}], state' = [state EXCEPT ![h] = "deleted"],
         UNCHANGED <<owner, version, boxes, failures>>
  PROVE  Covered'
<1>1. /\ members'[h] = {} /\ state'[h] = "deleted" /\ failures' >= failures
      /\ \A g \in Groups \ {h} : Untouched(g)
  BY DEF Untouched, TypeOK
<1>2. GroupFits(h)' /\ BoxesCover(h)'
  BY <1>1 DEF GroupFits, BoxesCover, Live
<1>3. /\ TaskStands(Idle)' /\ UploadCovers(Idle)'
      /\ \A g : Midway(task[p], g) \/ Midway(Idle, g) => g = h
  BY DEF Idle, Begin, TaskStands, UploadCovers, Midway
<1>4. ASSUME NEW q \in Procs \ {p}, task[q].group = h
      PROVE  TaskStands(task[q])' /\ UploadCovers(task[q])'
  <2>1. task'[q] = task[q]
    BY BecomeMoves
  <2>2. TaskStands(task[q])'
    BY <1>1, <1>4, <2>1, OthersWait, WaitingStand DEF TypeOK
  <2>3. UploadCovers(task[q])'
    BY <1>1, <1>4, <2>1 DEF UploadCovers, Live
  <2> QED
    BY <2>2, <2>3
<1> QED
  BY <1>1, <1>2, <1>3, <1>4, IdleIsTask, StepInGroup

\* A new version by RotateGroupKey, whether or not reading it back fails.
LEMMA RotatedCovered ==
  ASSUME TypeOK, TypeOK', LocksMatchHandlers, Covered, NEW p \in Procs,
         task[p].pc = "rotate", CanRotate(task[p].group), NextVersion(task[p].group),
         NEW t \in Tasks, Become(p, t), t.group = task[p].group, t.op = task[p].op,
         t.users = task[p].users, t.pc \in {"notify", "rollback"},
         t.pc = "rollback" => failures' > 0,
         UNCHANGED <<state, owner, members>>, failures' >= failures
  PROVE  Covered'
<1>1. Fits(task[p].op, task[p].pc) /\ TaskStands(task[p])
  BY TaskFacts DEF TypeOK, Covered
<1>2. PICK h \in Groups : h = task[p].group
  BY <1>1, TaskFacts DEF TypeOK, Fits
<1>3. HoldsGroup(p) /\ Live(h)
  BY <1>1, <1>2 DEF HoldsGroup, Fits, CanRotate
<1>4. TaskStands(t)'
  BY <1>1, <1>2, <1>3 DEF TaskStands, Live, Fits
<1>5. t.op # "boxes" /\ \A g : Midway(task[p], g) \/ Midway(t, g) => g = h
  BY <1>1, <1>2 DEF Fits, Midway
<1> QED
  BY <1>2, <1>3, <1>4, <1>5, OthersWait, NewVersionCovered DEF Live

\* No step of GroupService disturbs what is known.
LEMMA MemberCovered ==
  ASSUME TypeOK, TypeOK', LocksMatchHandlers, Covered, NEW p \in Procs, MemberSteps(p)
  PROVE  Covered'
<1> DEFINE h == task[p].group
<1>0. /\ task[p] \in Tasks /\ Fits(task[p].op, task[p].pc) /\ failures \in Nat
      /\ TaskStands(task[p]) /\ UploadCovers(task[p])
      /\ task[p].op \notin {"none", "single", "publish"} => h \in Groups /\ GroupFits(h)
      /\ task[p].users \subseteq Users
  BY TaskFacts DEF TypeOK, Covered, Records
<1> USE DEF rows, faults
<1>1. ASSUME Refuse(p) PROVE Covered'
  BY <1>0, <1>1, ReturnCovered DEF Refuse, Return, Midway
<1>2. ASSUME Pass(p) PROVE Covered'
  <2> DEFINE us == IF task[p].op = "add" THEN NewMembers(task[p]) ELSE task[p].users
             t == [task[p] EXCEPT !.pc = "write", !.users = us]
  <2>1. /\ Become(p, t) /\ Admissible(task[p])
        /\ UNCHANGED <<state, owner, members, version, boxes, failures>>
        /\ At(p, "check", {"add", "remove", "leave", "delete", "rotate", "boxes"})
    BY <1>2 DEF Pass
  <2>2. t \in Tasks
    BY <2>1, BecomeMoves DEF TypeOK
  <2>3. /\ t.pc = "write" /\ t.op = task[p].op /\ t.group = h /\ t.users = us
        /\ t.ver = task[p].ver /\ t.cargo = task[p].cargo
    BY <1>0 DEF Tasks, Records
  <2> HIDE DEF t
  <2>4. task[p].op = "add" => Live(h) /\ us \cap members[h] = {}
    BY <2>1 DEF Admissible, NewMembers
  <2>5. task[p].op = "remove" => Live(h) /\ us \subseteq members[h]
    BY <2>1 DEF Admissible
  <2>6. task[p].op = "leave" => Live(h) /\ us \subseteq members[h]
    BY <1>0, <2>1 DEF Admissible, TaskStands, GroupFits
  <2>7. task[p].op = "boxes" => Wrapped(t) = members[h] /\ us = {}
    BY <1>0, <2>1, <2>3 DEF Admissible, TaskStands, Wrapped, At
  <2>8. TaskStands(t)
    BY <1>0, <2>1, <2>3, <2>4, <2>5, <2>6, <2>7 DEF TaskStands, At
  <2>9. UploadCovers(t) /\ \A g : ~Midway(task[p], g) /\ ~Midway(t, g)
    BY <1>0, <2>1, <2>3 DEF UploadCovers, At, Wrapped, Midway
  <2> QED
    BY <1>0, <2>1, <2>2, <2>8, <2>9, StepAside
<1>3. ASSUME AddMembers(p) PROVE Covered'
  <2>1. HoldsGroup(p) /\ h \in Groups /\ owner[h] \in members[h] /\ task[p].op = "add"
    BY <1>0, <1>3 DEF AddMembers, At, HoldsGroup, TaskStands, GroupFits
  <2>2. members' = [members EXCEPT ![h] = members[h] \cup task[p].users]
    BY <1>3 DEF AddMembers
  <2>3. members[h] \cup task[p].users \in SUBSET Users
    BY <1>0, <2>1 DEF TypeOK
  <2> QED
    BY <1>3, <2>1, <2>2, <2>3, ChangedCovered DEF AddMembers, At
<1>4. ASSUME RemoveMember(p) PROVE Covered'
  <2>1. /\ HoldsGroup(p) /\ h \in Groups /\ task[p].op \in {"remove", "leave"}
        /\ owner[h] \in members[h] \ task[p].users
    BY <1>0, <1>4 DEF RemoveMember, At, HoldsGroup, TaskStands, GroupFits
  <2>2. members' = [members EXCEPT ![h] = members[h] \ task[p].users]
    BY <1>4 DEF RemoveMember
  <2>3. members[h] \ task[p].users \in SUBSET Users
    BY <2>1 DEF TypeOK
  <2> QED
    BY <1>4, <2>1, <2>2, <2>3, ChangedCovered DEF RemoveMember, At
<1>5. ASSUME DeleteGroup(p) PROVE Covered'
  BY <1>0, <1>5, DissolvedCovered DEF DeleteGroup, At, HoldsGroup, Return
<1>6. ASSUME Rotate(p) PROVE Covered'
  <2>1. PICK t \in Tasks :
           /\ Become(p, t)
           /\ t.pc = "notify" /\ t.op = task[p].op /\ t.group = h /\ t.users = task[p].users
    <3> DEFINE x == [task[p] EXCEPT !.pc = "notify", !.ver = version[h] + 1]
    <3>1. Become(p, x)
      BY <1>6 DEF Rotate
    <3>2. x \in Tasks
      BY <3>1, BecomeMoves DEF TypeOK
    <3>3. x.pc = "notify" /\ x.op = task[p].op /\ x.group = h /\ x.users = task[p].users
      BY <1>0 DEF Tasks, Records
    <3> QED
      BY <3>1, <3>2, <3>3
  <2>2. /\ failures' >= failures /\ task[p].pc = "rotate" /\ CanRotate(h) /\ NextVersion(h)
        /\ UNCHANGED <<state, owner, members>>
    BY <1>0, <1>6 DEF Rotate
  <2> QED
    BY <2>1, <2>2, RotatedCovered
<1>7. ASSUME RotateRefused(p) PROVE Covered'
  <2> DEFINE t == [task[p] EXCEPT !.pc = "rollback"]
  <2>1. /\ Become(p, t) /\ task[p].pc = "rotate" /\ ~CanRotate(h)
        /\ UNCHANGED <<state, owner, members, version, boxes, failures>>
    BY <1>7 DEF RotateRefused, Goto
  <2>2. t \in Tasks
    BY <2>1, BecomeMoves DEF TypeOK
  <2>3. t.pc = "rollback" /\ t.op = task[p].op /\ t.group = h
    BY <1>0, GotoSame DEF Pcs
  <2>4. ~Live(h) /\ task[p].op = "create"
    BY <1>0, <2>1 DEF CanRotate, GroupFits, TaskStands, Fits
  <2> HIDE DEF t
  <2>5. TaskStands(t) /\ UploadCovers(t) /\ \A g : ~Midway(task[p], g) /\ ~Midway(t, g)
    BY <1>0, <2>1, <2>3, <2>4 DEF TaskStands, UploadCovers, Midway
  <2> QED
    BY <1>0, <2>1, <2>2, <2>5, StepAside
<1>8. ASSUME Rollback(p) PROVE Covered'
  <2>1. task[p].pc = "rollback" /\ h \in Groups /\ HoldsGroup(p) /\ Become(p, Idle)
        /\ UNCHANGED <<owner, version, boxes, failures>>
    BY <1>0, <1>8 DEF Rollback, Fits, HoldsGroup, Return
  <2>2. CASE task[p].op = "create"
    <3>1. members' = [members EXCEPT ![h] = {}] /\ state' = [state EXCEPT ![h] = "deleted"]
      BY <1>8, <2>2 DEF Rollback
    <3> QED
      BY <2>1, <3>1, DissolvedCovered
  <2>3. CASE task[p].op # "create"
    <3>1. Midway(task[p], h) /\ Live(h)
      BY <1>0, <2>1, <2>3 DEF Fits, Midway, TaskStands
    <3>2. members' = [members EXCEPT ![h] = Restored(task[p], members[h])] /\ state' = state
      BY <1>8, <2>3 DEF Rollback, Restored
    <3> QED
      BY <2>1, <3>1, <3>2, RolledBackCovered
  <2> QED
    BY <2>2, <2>3
<1>9. ASSUME NotifyGroupKeyChanged(p) PROVE Covered'
  BY <1>0, <1>9, ReturnCovered DEF NotifyGroupKeyChanged, Return, Midway
<1> QED
  BY <1>1, <1>2, <1>3, <1>4, <1>5, <1>6, <1>7, <1>8, <1>9 DEF MemberSteps

\* A caller rotates: the version is new, or the answer is the current one.
LEMMA RotateIfCurrentCovered ==
  ASSUME TypeOK, TypeOK', LocksMatchHandlers, Covered, NEW p \in Procs, RotateGroupKeyIfCurrent(p)
  PROVE  Covered'
<1>h. PICK h \in Groups : h = task[p].group
  BY TaskFacts DEF RotateGroupKeyIfCurrent, At, TypeOK
<1>0. /\ task[p] \in Tasks /\ task[p].pc = "write" /\ task[p].op = "rotate" /\ Live(h)
      /\ HoldsGroup(p) /\ UNCHANGED <<state, owner, members>> /\ failures' >= failures
  BY <1>h DEF RotateGroupKeyIfCurrent, At, TypeOK, HoldsGroup, faults
<1>1. PICK t \in Tasks : Become(p, t) /\ t.pc = "notify" /\ t.op = "rotate" /\ t.group = h
  <2> DEFINE x == [task[p] EXCEPT !.pc = "notify", !.ver = version'[task[p].group]]
  <2>1. Become(p, x)
    BY DEF RotateGroupKeyIfCurrent
  <2>2. x \in Tasks
    BY <2>1, BecomeMoves DEF TypeOK
  <2>3. x.pc = "notify" /\ x.op = "rotate" /\ x.group = h
    BY <1>h, <1>0 DEF Tasks, Records
  <2> HIDE DEF x
  <2> QED
    BY <2>1, <2>2, <2>3
<1>2. \A g : ~Midway(task[p], g) /\ ~Midway(t, g)
  BY <1>0, <1>1 DEF Midway
<1>3. CASE task[p].ver = version[h]
  <2>1. NextVersion(h)
    BY <1>h, <1>3 DEF RotateGroupKeyIfCurrent
  <2>2. TaskStands(t)'
    BY <1>0, <1>1 DEF TaskStands, Live
  <2> QED
    BY <1>h, <1>0, <1>1, <1>2, <2>1, <2>2, OthersWait, NewVersionCovered DEF Live
<1>4. CASE task[p].ver # version[h]
  <2>1. UNCHANGED <<version, boxes>>
    BY <1>h, <1>4 DEF RotateGroupKeyIfCurrent
  <2>2. TaskStands(t) /\ UploadCovers(t)
    BY <1>0, <1>1 DEF TaskStands, UploadCovers, Live
  <2> QED
    BY <1>0, <1>1, <1>2, <2>1, <2>2, StepAside
<1> QED
  BY <1>3, <1>4

\* An upload is stored: one box for each member.
LEMMA ReplaceBoxesCovered ==
  ASSUME TypeOK, TypeOK', LocksMatchHandlers, Covered, NEW p \in Procs, ReplaceVersionBoxes(p)
  PROVE  Covered'
<1>h. PICK h \in Groups : h = task[p].group
  BY TaskFacts DEF ReplaceVersionBoxes, At, TypeOK
<1>0. /\ task[p] \in Tasks /\ task[p].pc = "write" /\ task[p].op = "boxes" /\ Live(h)
      /\ HoldsGroup(p) /\ Become(p, Idle) /\ failures' >= failures
      /\ UNCHANGED <<state, owner, members, version>>
  BY <1>h DEF ReplaceVersionBoxes, At, TypeOK, HoldsGroup, Return, faults
<1>1. boxes' = [boxes EXCEPT ![h] =
         {[user |-> c[1], key |-> c[2], by |-> task[p].user] : c \in task[p].cargo}]
  BY <1>h DEF ReplaceVersionBoxes, TypeOK
<1>2. \A g \in Groups \ {h} : Untouched(g)
  BY <1>0, <1>1 DEF Untouched, TypeOK
<1>3. Holders(boxes'[h]) = members'[h]
  <2> DEFINE box(c) == [user |-> c[1], key |-> c[2], by |-> task[p].user]
  <2>1. Wrapped(task[p]) = members'[h]
    BY <1>h, <1>0 DEF TaskStands, Covered
  <2>2. \A c \in task[p].cargo : box(c).user = c[1]
    OBVIOUS
  <2>3. boxes'[h] = {box(c) : c \in task[p].cargo}
    BY <1>1 DEF TypeOK
  <2> HIDE DEF box
  <2>4. Holders(boxes'[h]) = Wrapped(task[p])
    BY <2>2, <2>3 DEF Holders, Wrapped
  <2> QED
    BY <2>1, <2>4
<1>4. \A q \in Procs : ~Midway(task[q], h) /\ ~Midway(task[q], h)'
  BY <1>h, <1>0, OthersWait, BecomeMoves DEF Midway, Idle, Begin
<1>5. GroupFits(h)'
  BY <1>0 DEF Covered, GroupFits, Live
<1>6. BoxesCover(h)'
  BY <1>3, <1>4 DEF BoxesCover, Audience, Holders
<1>7. /\ TaskStands(Idle)' /\ UploadCovers(Idle)'
      /\ \A g : ~Midway(task[p], g) /\ ~Midway(Idle, g)
  BY <1>0 DEF Idle, Begin, TaskStands, UploadCovers, Midway
<1>8. ASSUME NEW q \in Procs \ {p}, task[q].group = h
      PROVE  TaskStands(task[q])' /\ UploadCovers(task[q])'
  <2>1. task'[q] = task[q] /\ UploadCovers(task[q])
    BY <1>0, BecomeMoves DEF Covered
  <2>2. TaskStands(task[q])'
    BY <1>h, <1>0, <1>8, <2>1, OthersWait, WaitingStand DEF Live, TypeOK
  <2>3. \A us : Audience(h, us) => Audience(h, us)'
    BY <1>0, <1>4 DEF Audience
  <2>4. UploadCovers(task[q])'
    BY <1>0, <1>8, <2>1, <2>3 DEF UploadCovers, Wrapped, Live
  <2> QED
    BY <2>2, <2>4
<1> QED
  BY <1>0, <1>2, <1>5, <1>6, <1>7, <1>8, IdleIsTask, StepInGroup

\* An identity change gives one group a new version while nobody works on it.
LEMMA RotateOneCovered ==
  ASSUME TypeOK, TypeOK', LocksMatchHandlers, Covered, NEW p \in Procs, NEW g \in Groups,
         RotateOne(p, g)
  PROVE  Covered'
<1>0. /\ task[p] \in Tasks /\ task[p].pc = "each" /\ task[p].op = "publish" /\ Live(g)
      /\ groupLock[Stripe(g)] = None /\ NextVersion(g) /\ failures' >= failures
      /\ UNCHANGED <<state, owner, members>>
  BY TaskFacts DEF RotateOne, TypeOK, Fits, faults
<1>1. PICK t \in Tasks : Become(p, t) /\ t.pc = "each" /\ t.op = "publish"
  <2> DEFINE x == [task[p] EXCEPT !.groups = task[p].groups \ {g},
                                  !.notes = task[p].notes \cup {<<g, version[g] + 1>>}]
  <2>1. Become(p, x)
    BY DEF RotateOne
  <2>2. x \in Tasks
    BY <2>1, BecomeMoves DEF TypeOK
  <2>3. x.pc = "each" /\ x.op = "publish"
    BY <1>0 DEF Tasks, Records
  <2> HIDE DEF x
  <2> QED
    BY <2>1, <2>2, <2>3
<1>2. \A q \in Procs : task[q].group = g => task[q].pc \notin {"write", "rotate", "rollback"}
  <2> SUFFICES ASSUME NEW q \in Procs, task[q].group = g,
                      task[q].pc \in {"write", "rotate", "rollback"}
               PROVE  FALSE
    OBVIOUS
  <2>1. Fits(task[q].op, task[q].pc)
    BY TaskFacts DEF TypeOK
  <2>2. HoldsGroup(q)
    BY <2>1 DEF HoldsGroup, Fits
  <2> QED
    BY <1>0, <2>2, ConstantsAssumption DEF LocksMatchHandlers
<1>3. TaskStands(t)' /\ \A h : ~Midway(task[p], h) /\ ~Midway(t, h)
  BY <1>0, <1>1 DEF TaskStands, Midway
<1> QED
  BY <1>0, <1>1, <1>2, <1>3, NewVersionCovered DEF Live

\* The other steps of E2EEService name no group.
LEMMA PublisherCovered ==
  ASSUME TypeOK, TypeOK', Covered, NEW p \in Procs, task[p].op = "publish",
         UNCHANGED <<state, owner, members, version, boxes>>, failures' >= failures,
         task'[p].op \in {"none", "publish"}, NEW t, Become(p, t)
  PROVE  Covered'
<1>1. t \in Tasks /\ t = task'[p]
  BY BecomeMoves DEF TypeOK
<1> QED
  BY <1>1, NoGroupCovered

\* So for every step of an identity change but the rotations.
LEMMA PublishingCovered ==
  ASSUME TypeOK, TypeOK', Covered, NEW p \in Procs,
         \/ Upsert(p) \/ ListGroups(p) \/ PublishReturns(p) \/ RollbackIdentityChange(p)
         \/ \E g \in Groups : RotateOneRefused(p, g)
         \/ \E n \in task[p].notes : Announce(p, n)
         \/ UpsertFails(p) \/ RotateOneFails(p) \/ RollbackIdentityFails(p)
         \/ \E n \in task[p].notes : AnnounceFails(p, n)
  PROVE  Covered'
<1>0. task[p] \in Tasks /\ Fits(task[p].op, task[p].pc) /\ failures \in Nat
  BY TaskFacts DEF TypeOK
<1>1. /\ task[p].op = "publish" /\ failures' >= failures
      /\ UNCHANGED <<state, owner, members, version, boxes>>
  <2> USE <1>0 DEF Fits, rows, faults, Fail
  <2>1. CASE Upsert(p) \/ UpsertFails(p)
    BY <2>1 DEF Upsert, UpsertFails
  <2>2. CASE ListGroups(p) \/ PublishReturns(p) \/ RollbackIdentityChange(p)
    BY <2>2 DEF ListGroups, PublishReturns, RollbackIdentityChange
  <2>3. CASE \E g \in Groups : RotateOneRefused(p, g)
    BY <2>3 DEF RotateOneRefused
  <2>4. CASE RotateOneFails(p) \/ RollbackIdentityFails(p)
    BY <2>4 DEF RotateOneFails, RollbackIdentityFails
  <2>5. CASE \E n \in task[p].notes : Announce(p, n) \/ AnnounceFails(p, n)
    BY <2>5 DEF Announce, AnnounceFails
  <2> QED
    BY <2>1, <2>2, <2>3, <2>4, <2>5
<1>2. CASE Become(p, Idle)
  BY <1>1, <1>2, IdleIsTask, NoGroupCovered DEF Idle, Begin
<1>3. ASSUME NEW pc \in Pcs, Goto(p, pc) PROVE Covered'
  <2> DEFINE x == [task[p] EXCEPT !.pc = pc]
  <2>1. Become(p, x) /\ x.op = "publish"
    BY <1>0, <1>1, <1>3 DEF Goto, Tasks, Records
  <2>2. x \in Tasks
    BY <2>1, BecomeMoves DEF TypeOK
  <2> HIDE DEF x
  <2> QED
    BY <1>1, <2>1, <2>2, NoGroupCovered
<1>4. ASSUME NEW pc, NEW v, Become(p, [task[p] EXCEPT !.pc = pc, !.ver = v]) PROVE Covered'
  <2> DEFINE x == [task[p] EXCEPT !.pc = pc, !.ver = v]
  <2>1. Become(p, x) /\ x.op = "publish"
    BY <1>0, <1>1, <1>4 DEF Tasks, Records
  <2>2. x \in Tasks
    BY <2>1, BecomeMoves DEF TypeOK
  <2> HIDE DEF x
  <2> QED
    BY <1>1, <2>1, <2>2, NoGroupCovered
<1>5. ASSUME NEW pc, NEW gs, Become(p, [task[p] EXCEPT !.pc = pc, !.groups = gs]) PROVE Covered'
  <2> DEFINE x == [task[p] EXCEPT !.pc = pc, !.groups = gs]
  <2>1. Become(p, x) /\ x.op = "publish"
    BY <1>0, <1>1, <1>5 DEF Tasks, Records
  <2>2. x \in Tasks
    BY <2>1, BecomeMoves DEF TypeOK
  <2> HIDE DEF x
  <2> QED
    BY <1>1, <2>1, <2>2, NoGroupCovered
<1>6. ASSUME NEW ns, Become(p, [task[p] EXCEPT !.notes = ns]) PROVE Covered'
  <2> DEFINE x == [task[p] EXCEPT !.notes = ns]
  <2>1. Become(p, x) /\ x.op = "publish"
    BY <1>0, <1>1, <1>6 DEF Tasks, Records
  <2>2. x \in Tasks
    BY <2>1, BecomeMoves DEF TypeOK
  <2> HIDE DEF x
  <2> QED
    BY <1>1, <2>1, <2>2, NoGroupCovered
<1>7. CASE Upsert(p) \/ UpsertFails(p)
  BY <1>2, <1>4, <1>7 DEF Upsert, UpsertFails, Return
<1>8. CASE ListGroups(p)
  BY <1>5, <1>8 DEF ListGroups
<1>9. CASE PublishReturns(p) \/ RollbackIdentityChange(p) \/ RollbackIdentityFails(p)
  BY <1>2, <1>9 DEF PublishReturns, RollbackIdentityChange, RollbackIdentityFails, Return
<1>10. CASE (\E g \in Groups : RotateOneRefused(p, g)) \/ RotateOneFails(p)
  <2>1. Goto(p, "restore")
    BY <1>10 DEF RotateOneRefused, RotateOneFails
  <2> QED
    BY <1>3, <2>1 DEF Pcs
<1>11. CASE \E n \in task[p].notes : Announce(p, n) \/ AnnounceFails(p, n)
  BY <1>6, <1>11 DEF Announce, AnnounceFails
<1> QED
  BY <1>7, <1>8, <1>9, <1>10, <1>11

\* No step of E2EEService disturbs what is known.
LEMMA KeyCovered ==
  ASSUME TypeOK, TypeOK', LocksMatchHandlers, Covered, NEW p \in Procs, KeySteps(p)
  PROVE  Covered'
<1>1. ASSUME WriteRefused(p) PROVE Covered'
  <2>1. /\ Become(p, Idle) /\ failures' >= failures
        /\ UNCHANGED <<state, owner, members, version, boxes>>
    BY <1>1 DEF WriteRefused, Return, rows, faults, TypeOK
  <2>2. \A g : ~Midway(task[p], g)
    BY <1>1 DEF WriteRefused, At, Midway
  <2> QED
    BY <2>1, <2>2, ReturnCovered
<1> QED
  BY <1>1, RotateIfCurrentCovered, ReplaceBoxesCovered, PublishingCovered, RotateOneCovered
     DEF KeySteps

\* The first statement that fails: whatever was changed is rotated or put back.
LEMMA FailedCovered ==
  ASSUME TypeOK, TypeOK', LocksMatchHandlers, Covered, NEW p \in Procs, FailedSteps(p),
         failures' <= 1
  PROVE  Covered'
<1> DEFINE h == task[p].group
<1>0. /\ task[p] \in Tasks /\ Fits(task[p].op, task[p].pc) /\ failures \in Nat
      /\ TaskStands(task[p]) /\ UploadCovers(task[p])
      /\ task[p].op \notin {"none", "single", "publish"} => h \in Groups
  BY TaskFacts DEF TypeOK, Covered
<1>1. failures = 0 /\ failures' = 1
  <2>1. FailedSteps(p) => Fail
    BY DEF FailedSteps, RotateFails, RollbackFails, StatementFails, NotifyFails, UpsertFails,
       RotateOneFails, RollbackIdentityFails, AnnounceFails
  <2> QED
    BY <1>0, <2>1 DEF Fail
<1>2. ASSUME StatementFails(p) \/ NotifyFails(p) PROVE Covered'
  <2>1. Become(p, Idle) /\ UNCHANGED <<state, owner, members, version, boxes>>
    BY <1>2 DEF StatementFails, NotifyFails, Return, rows
  <2>2. \A g : ~Midway(task[p], g)
    BY <1>2 DEF StatementFails, NotifyFails, Midway
  <2> QED
    BY <1>1, <2>1, <2>2, ReturnCovered
<1>3. ASSUME RotateFails(p) PROVE Covered'
  <2>1. PICK t \in Tasks :
           /\ Become(p, t)
           /\ t.pc = "rollback" /\ t.op = task[p].op /\ t.group = h /\ t.users = task[p].users
           /\ t.ver = task[p].ver /\ t.cargo = task[p].cargo
    <3> DEFINE x == [task[p] EXCEPT !.pc = "rollback"]
    <3>1. Become(p, x)
      BY <1>3 DEF RotateFails, Goto
    <3>2. x \in Tasks
      BY <3>1, BecomeMoves DEF TypeOK
    <3>3. /\ x.pc = "rollback" /\ x.op = task[p].op /\ x.group = h /\ x.users = task[p].users
          /\ x.ver = task[p].ver /\ x.cargo = task[p].cargo
      BY <1>0, GotoSame DEF Pcs
    <3> QED
      BY <3>1, <3>2, <3>3
  <2>2. task[p].pc = "rotate" /\ UNCHANGED <<state, owner, members>> /\ task'[p] = t
    BY <1>3, <2>1, BecomeMoves DEF RotateFails
  <2>3. CASE CanRotate(h) /\ NextVersion(h)
    BY <1>1, <2>1, <2>2, <2>3, RotatedCovered
  <2>4. CASE UNCHANGED <<version, boxes>>
    <3>1. PICK g \in Groups : g = h
      BY <1>0, <2>2 DEF Fits
    <3>2. \A g1 \in Groups : Untouched(g1)
      BY <2>2, <2>4 DEF Untouched
    <3>3. \A g1 : Midway(task[p], g1) \/ Midway(t, g1) => g1 = g
      BY <2>1, <3>1 DEF Midway
    <3>4. ASSUME NEW us, Audience(g, us) PROVE Audience(g, us)'
      <4>1. \A q \in Procs : Midway(task[q], g)' <=> Midway(task[q], g)
        BY <2>1, <2>2, BecomeMoves DEF Midway
      <4>2. \A q \in Procs : Restored(task[q], members[g])' = Restored(task[q], members[g])
        BY <2>1, <2>2, BecomeMoves DEF Restored
      <4> QED
        BY <2>2, <3>4, <4>1, <4>2 DEF Audience
    <3>5. GroupFits(g)' /\ BoxesCover(g)'
      BY <2>2, <2>4, <3>4 DEF Covered, GroupFits, BoxesCover, Live
    <3>6. TaskStands(t)' /\ UploadCovers(t)'
      BY <1>0, <1>1, <2>1, <2>2, <2>4 DEF TaskStands, UploadCovers, Live, Fits
    <3>7. ASSUME NEW q \in Procs \ {p}, task[q].group = g
          PROVE  TaskStands(task[q])' /\ UploadCovers(task[q])'
      <4>1. task'[q] = task[q] /\ TaskStands(task[q]) /\ UploadCovers(task[q])
        BY <2>1, BecomeMoves DEF Covered
      <4>2. TaskStands(task[q])'
        BY <1>1, <2>2, <2>4, <4>1 DEF TaskStands, Live, Wrapped
      <4>3. UploadCovers(task[q])'
        BY <2>2, <2>4, <3>4, <3>7, <4>1 DEF UploadCovers, Live, Wrapped
      <4> QED
        BY <4>2, <4>3
    <3> QED
      BY <1>1, <2>1, <3>2, <3>3, <3>5, <3>6, <3>7, StepInGroup
  <2> QED
    BY <1>3, <2>3, <2>4 DEF RotateFails
<1>4. ASSUME RollbackFails(p) PROVE Covered'
  <2>1. /\ task[p].pc = "rollback" /\ Become(p, Idle)
        /\ UNCHANGED <<state, owner, version, boxes>>
    BY <1>4 DEF RollbackFails, Return
  <2>2. task[p].op = "create"
    BY <1>0, <1>1, <2>1 DEF TaskStands, Fits
  <2>3. members' = members
    BY <1>4, <2>2 DEF RollbackFails, TypeOK
  <2> QED
    BY <1>1, <2>1, <2>2, <2>3, ReturnCovered DEF Midway
<1> QED
  BY <1>2, <1>3, <1>4, PublishingCovered DEF FailedSteps

\* Before the first request.
LEMMA InitCovered == Init => Covered
  BY DEF Init, Covered, GroupFits, BoxesCover, TaskStands, UploadCovers, Live, Idle, Begin

\* A step that changes nothing.
LEMMA StutterCovered == ASSUME Covered, UNCHANGED vars PROVE Covered'
  BY DEF vars, rows, faults, Covered, GroupFits, BoxesCover, TaskStands, UploadCovers, Audience,
     Midway, Restored, Live, Holders, Wrapped

\* Every failed step counts as one failure, and changes nothing of the other faults.
LEMMA FailuresCount ==
  ASSUME NEW p \in Procs, FailedSteps(p)
  PROVE  failures' = failures + 1 /\ UNCHANGED <<crashes, accounts>>
<1> USE DEF Fail, rows
<1>1. CASE RotateFails(p) \/ RollbackFails(p) \/ StatementFails(p) \/ NotifyFails(p)
  BY <1>1 DEF RotateFails, RollbackFails, StatementFails, NotifyFails
<1>2. CASE UpsertFails(p) \/ RotateOneFails(p) \/ RollbackIdentityFails(p)
  BY <1>2 DEF UpsertFails, RotateOneFails, RollbackIdentityFails
<1>3. CASE \E n \in task[p].notes : AnnounceFails(p, n)
  BY <1>3 DEF AnnounceFails
<1> QED
  BY <1>1, <1>2, <1>3 DEF FailedSteps

\* Faults are remembered: a state without restart and deletion was reached without.
LEMMA FaultsStay ==
  ASSUME TypeOK, TypeOK', [Next]_vars, crashes' = 0, accounts' = Users
  PROVE  /\ crashes = 0 /\ accounts = Users /\ ~Crash /\ \A u \in Users : ~DeleteUser(u)
         /\ failures <= failures'
         /\ \A p \in Procs : FailedSteps(p) => failures < failures'
<1>1. \A u \in Users : ~DeleteUser(u)
  BY DEF DeleteUser
<1>2. ~Crash
  BY DEF Crash, TypeOK
<1>3. failures \in Nat /\ failures' \in Nat
  BY DEF TypeOK
<1>4. \/ UNCHANGED <<accounts, faults>>
      \/ \E p \in Procs : FailedSteps(p)
  <2>1. ASSUME NEW p \in Procs, Request(p) PROVE UNCHANGED <<accounts, faults>>
    <3>1. ASSUME NEW u, NEW g, NEW us, CreateGroup(p, u, g, us) \/ RequestAdd(p, u, g, us)
          PROVE  UNCHANGED <<accounts, faults>>
      BY <3>1 DEF CreateGroup, RequestAdd, rows
    <3>2. ASSUME NEW u, NEW g, NEW m, RequestRemove(p, u, g, m) \/ RequestSendSingle(p, u, m)
          PROVE  UNCHANGED <<accounts, faults>>
      BY <3>2 DEF RequestRemove, RequestSendSingle, rows
    <3>3. ASSUME NEW u, NEW g, RequestLeave(p, u, g) \/ RequestDelete(p, u, g)
                               \/ GetGroupCurrentKeyBox(p, u, g)
          PROVE  UNCHANGED <<accounts, faults>>
      BY <3>3 DEF RequestLeave, RequestDelete, GetGroupCurrentKeyBox, rows
    <3>4. ASSUME NEW u, NEW g, NEW v, RequestRotate(p, u, g, v) \/ RequestSendGroup(p, u, g, v)
                                      \/ RequestPublishKey(p, u, v)
          PROVE  UNCHANGED <<accounts, faults>>
      BY <3>4 DEF RequestRotate, RequestSendGroup, RequestPublishKey, rows
    <3> QED
      BY <2>1, <3>1, <3>2, <3>3, <3>4 DEF Request
  <2>2. ASSUME NEW p \in Procs, Acquire(p) PROVE UNCHANGED <<accounts, faults>>
    BY <2>2 DEF Acquire, AcquireIdentityRead, AcquireIdentityWrite, AcquireGroup, rows
  <2>3. ASSUME NEW p \in Procs, MemberSteps(p) PROVE UNCHANGED <<accounts, faults>>
    BY <2>3 DEF MemberSteps, Refuse, Pass, AddMembers, RemoveMember, DeleteGroup, Rotate,
       RotateRefused, Rollback, NotifyGroupKeyChanged, rows
  <2>4. ASSUME NEW p \in Procs, KeySteps(p) PROVE UNCHANGED <<accounts, faults>>
    BY <2>4 DEF KeySteps, RotateGroupKeyIfCurrent, ReplaceVersionBoxes, WriteRefused, Upsert,
       ListGroups, PublishReturns, RollbackIdentityChange, RotateOne, RotateOneRefused,
       Announce, rows
  <2>5. ASSUME NEW p \in Procs, SendSteps(p) \/ ClientSteps(p) PROVE UNCHANGED <<accounts, faults>>
    BY <2>5 DEF SendSteps, AcceptGroupMessage, AcceptSingleMessage, Deliver, ClientSteps,
       GiveUp, PostBoxes, GetUserPublicKey, rows
  <2>6. CASE UNCHANGED vars
    BY <2>6 DEF vars, rows
  <2> QED
    BY <1>1, <1>2, <2>1, <2>2, <2>3, <2>4, <2>5, <2>6 DEF Next, Progress
<1> QED
  BY <1>1, <1>2, <1>3, <1>4, FailuresCount DEF faults

\* Taken together, for as long as one statement fails and nothing worse.
LEMMA AlwaysCovered == Spec => []CoveredAfterOneFailure
<1>1. Init => CoveredAfterOneFailure
  BY InitCovered DEF CoveredAfterOneFailure
<1>2. TypeOK /\ TypeOK' /\ LocksMatchHandlers /\ CoveredAfterOneFailure /\ [Next]_vars
        => CoveredAfterOneFailure'
  <2> SUFFICES ASSUME TypeOK, TypeOK', LocksMatchHandlers, CoveredAfterOneFailure, [Next]_vars,
                      OneFailure'
               PROVE  Covered'
    BY DEF CoveredAfterOneFailure
  <2>1. OneFailure /\ ~Crash /\ \A u \in Users : ~DeleteUser(u)
    BY FaultsStay DEF OneFailure, TypeOK
  <2>2. Covered /\ failures' <= 1
    BY <2>1 DEF CoveredAfterOneFailure, OneFailure
  <2> QED
    BY <2>1, <2>2, RequestCovered, AcquireCovered, MemberCovered, KeyCovered, SendCovered,
       ClientCovered, FailedCovered, StutterCovered DEF Next, Progress
<1> QED
  BY <1>1, <1>2, TypeCorrect, LocksHeld, PTL DEF Spec

\* A group nobody works on has its current version wrapped for nobody yet or
\* for exactly its members, even after a change that failed.
THEOREM MembersCovered == Spec => []BoxesCoverMembers
<1>1. TypeOK /\ LocksMatchHandlers /\ CoveredAfterOneFailure => BoxesCoverMembers
  <2> SUFFICES ASSUME TypeOK, LocksMatchHandlers, Covered, NEW g \in Groups, Live(g),
                      groupLock[Stripe(g)] = None
               PROVE  Holders(boxes[g]) \in {{}, members[g]}
    BY DEF CoveredAfterOneFailure, BoxesCoverMembers
  <2>1. boxes[g] = {} \/ Audience(g, Holders(boxes[g]))
    BY DEF Covered, BoxesCover
  <2> QED
    BY <2>1, FreeLockCalm DEF Audience, Holders
<1> QED
  BY <1>1, AlwaysCovered, TypeCorrect, LocksHeld, PTL

----------------------------------------------------------------------------
(* Identity keys, as long as nothing fails.  The heart of Readable is      *)
(* Opens, which says of a wrapped key why it can be opened even in the     *)
(* middle of an identity change.                                           *)

\* A process has published a key that not all groups of its user know.
Changing(p) == task[p].pc \in {"list", "each", "restore"}
Changes(p, u) == Changing(p) /\ task[p].user = u

\* The key k of u, wrapped for g, can be opened: it is the one u has, or the
\* one u had before a change that will still rotate g or take itself back.
Opens(g, u, k) ==
    /\ \A q \in Procs : Changes(q, u) =>
          k = task[q].ver /\ (task[q].pc = "list" \/ g \in task[q].groups)
    /\ (\A q \in Procs : ~Changes(q, u)) => k = idkey[u]

BoxesOpen(g) ==
    Live(g) => \A b \in boxes[g] : IsMember(g, b.user) => Opens(g, b.user, b.key)

\* An upload in flight that is not stale.
UploadOpens(t) ==
    t.op = "boxes" /\ Live(t.group) /\ t.ver = version[t.group] =>
        \A c \in t.cargo : IsMember(t.group, c[1]) => Opens(t.group, c[1], c[2])

Delivers(t) == t.pc = "deliver" => \A c \in t.cargo : idkey[c[1]] = c[2]

Readable ==
    /\ \A g \in Groups : BoxesOpen(g)
    /\ \A p \in Procs : UploadOpens(task[p]) /\ Delivers(task[p])

ReadableUnlessFault == NoFaults => Readable

\* Whoever changes an identity key is alone, and nobody reads.
LEMMA OneWriter ==
  ASSUME LocksMatchHandlers, NEW p \in Procs, HoldsWrite(p)
  PROVE  /\ \A q \in Procs \ {p} : ~HoldsWrite(q) /\ ~Changing(q)
         /\ \A q \in Procs : ~HoldsRead(q)
  BY ConstantsAssumption DEF LocksMatchHandlers, HoldsWrite, Changing

\* A reader keeps the keys as they are.
LEMMA ReadersExclude ==
  ASSUME TypeOK, LocksMatchHandlers, NEW p \in Procs, HoldsRead(p) \/ identityWriter = None
  PROVE  \A q \in Procs : ~Changing(q)
  BY ConstantsAssumption DEF LocksMatchHandlers, HoldsWrite, Changing

\* A key that opens still does when the change under way goes on.
LEMMA OpensStays ==
  ASSUME TypeOK, NEW p \in Procs, NEW t, Become(p, t), idkey' = idkey,
         NEW g, NEW u, NEW k, Opens(g, u, k),
         Changes(p, u) <=> t.pc \in {"list", "each", "restore"} /\ t.user = u,
         Changes(p, u) => /\ t.ver = task[p].ver
                          /\ task[p].pc = "list" \/ g \in task[p].groups
                                => t.pc = "list" \/ g \in t.groups
  PROVE  Opens(g, u, k)'
<1>1. \A q \in Procs : Changes(q, u)' <=> Changes(q, u)
  BY BecomeMoves DEF Changes, Changing
<1>2. ASSUME NEW q \in Procs, Changes(q, u)
      PROVE  k = task'[q].ver /\ (task'[q].pc = "list" \/ g \in task'[q].groups)
  BY <1>2, BecomeMoves DEF Opens
<1> QED
  BY <1>1, <1>2 DEF Opens

\* A step of a process that changes no key.
Calm(p, t) ==
    /\ task[p].pc \notin {"list", "each", "restore"}
    /\ t.pc \notin {"list", "each", "restore"}

\* A calm step leaves every key that opens one that opens.
LEMMA CalmOpens ==
  ASSUME TypeOK, NEW p \in Procs, NEW t, Become(p, t), Calm(p, t), idkey' = idkey,
         NEW g, NEW u, NEW k, Opens(g, u, k)
  PROVE  Opens(g, u, k)'
  BY OpensStays DEF Calm, Changes, Changing

\* The keys that open for the members of g go on doing so.
KeysStay(g) == \A u, k : Live(g) /\ IsMember(g, u) /\ Opens(g, u, k) => Opens(g, u, k)'

\* What is wrapped for g opens after a step of p: what is stored, and what
\* others have in flight.
WrappedOpens(p, g) ==
    /\ BoxesOpen(g)'
    /\ \A q \in Procs \ {p} : task[q].group = g => UploadOpens(task[q])'

\* It does when the keys stay and no row of g changes.
LEMMA UntouchedOpens ==
  ASSUME TypeOK, Readable, NEW p \in Procs, NEW t, Become(p, t),
         NEW g \in Groups, Untouched(g), KeysStay(g)
  PROVE  WrappedOpens(p, g)
<1>1. BoxesOpen(g)'
  BY DEF Readable, BoxesOpen, Untouched, Live, IsMember, KeysStay
<1>2. ASSUME NEW q \in Procs \ {p}, task[q].group = g PROVE UploadOpens(task[q])'
  <2>1. task'[q] = task[q] /\ UploadOpens(task[q])
    BY BecomeMoves DEF Readable
  <2> QED
    BY <1>2, <2>1 DEF UploadOpens, Untouched, Live, IsMember, KeysStay
<1> QED
  BY <1>1, <1>2 DEF WrappedOpens

\* A step of p.
LEMMA StepReadable ==
  ASSUME TypeOK, Readable, NEW p \in Procs, NEW t \in Tasks, Become(p, t),
         \A g \in Groups : WrappedOpens(p, g), UploadOpens(t)', Delivers(t)',
         idkey' = idkey \/ \A q \in Procs \ {p} : task[q].pc # "deliver"
  PROVE  Readable'
<1>1. ASSUME NEW q \in Procs PROVE UploadOpens(task[q])' /\ Delivers(task[q])'
  <2>1. CASE q = p
    BY <2>1, BecomeMoves DEF UploadOpens, Delivers
  <2>2. CASE q # p
    <3>1. task'[q] = task[q] /\ task[q] \in Tasks /\ Delivers(task[q])
      BY <2>2, BecomeMoves DEF TypeOK, Readable
    <3>2. Delivers(task[q])'
      BY <2>2, <3>1 DEF Delivers
    <3>3. CASE task[q].op = "boxes"
      BY <2>2, <3>1, <3>2, <3>3, TaskFacts DEF WrappedOpens
    <3>4. CASE task[q].op # "boxes"
      BY <3>1, <3>2, <3>4 DEF UploadOpens
    <3> QED
      BY <3>3, <3>4
  <2> QED
    BY <2>1, <2>2
<1> QED
  BY <1>1 DEF Readable, WrappedOpens

\* A calm step that leaves the rows alone.
LEMMA CalmStep ==
  ASSUME TypeOK, Readable, NEW p \in Procs, NEW t \in Tasks, Become(p, t), Calm(p, t),
         UNCHANGED rows, UploadOpens(t), Delivers(t)
  PROVE  Readable'
<1>1. \A g \in Groups : Untouched(g) /\ KeysStay(g)
  BY CalmOpens DEF Untouched, KeysStay, rows
<1>2. t.op = "boxes" => t.group \in Groups
  BY TaskFacts
<1>3. UploadOpens(t)'
  BY <1>1, <1>2 DEF UploadOpens, Untouched, Live, IsMember, KeysStay
<1>4. Delivers(t)' /\ idkey' = idkey
  BY DEF Delivers, rows
<1> QED
  BY <1>1, <1>3, <1>4, UntouchedOpens, StepReadable

\* A calm step that changes the rows of h.
LEMMA CalmInGroup ==
  ASSUME TypeOK, Readable, NEW p \in Procs, NEW t \in Tasks, Become(p, t), Calm(p, t),
         idkey' = idkey, NEW h \in Groups, \A g \in Groups \ {h} : Untouched(g),
         WrappedOpens(p, h), UploadOpens(t)', Delivers(t)
  PROVE  Readable'
<1>1. \A g \in Groups \ {h} : KeysStay(g)
  BY CalmOpens DEF KeysStay
<1>2. Delivers(t)'
  BY DEF Delivers
<1> QED
  BY <1>1, <1>2, UntouchedOpens, StepReadable

\* An idle process carries nothing.
LEMMA IdleOpens == Idle \in Tasks /\ UploadOpens(Idle) /\ Delivers(Idle)
  BY IdleIsTask DEF Idle, Begin, UploadOpens, Delivers

\* A return that changes no row.
LEMMA ReturnReadable ==
  ASSUME TypeOK, Readable, NEW p \in Procs, Become(p, Idle), UNCHANGED rows,
         task[p].pc \notin {"list", "each", "restore"}
  PROVE  Readable'
<1>1. Calm(p, Idle)
  BY DEF Calm, Idle, Begin
<1> QED
  BY <1>1, IdleOpens, CalmStep

\* A move that changes no row.
LEMMA MoveReadable ==
  ASSUME TypeOK, TypeOK', Readable, NEW p \in Procs, NEW pc \in Pcs, Goto(p, pc), UNCHANGED rows,
         pc \notin {"deliver", "list", "each", "restore"},
         task[p].pc \notin {"list", "each", "restore"}
  PROVE  Readable'
<1> DEFINE t == [task[p] EXCEPT !.pc = pc]
<1>1. Become(p, t) /\ task[p] \in Tasks /\ t \in Tasks
  <2>1. Become(p, t)
    BY DEF Goto
  <2> QED
    BY <2>1, BecomeMoves DEF TypeOK
<1>2. /\ t.pc = pc /\ t.op = task[p].op /\ t.group = task[p].group
      /\ t.ver = task[p].ver /\ t.cargo = task[p].cargo
  BY <1>1, GotoSame
<1> HIDE DEF t
<1>3. UploadOpens(t)
  BY <1>2 DEF Readable, UploadOpens
<1>4. Delivers(t) /\ Calm(p, t)
  BY <1>2 DEF Calm, Delivers
<1> QED
  BY <1>1, <1>3, <1>4, CalmStep

----------------------------------------------------------------------------
(* Identity keys in requests, locks, sending and the uploading client.     *)

\* A request that changes no row.
LEMMA StartReadable ==
  ASSUME TypeOK, TypeOK', Readable, NEW p \in Procs, NEW t, Start(p, t), UNCHANGED rows,
         t.pc \in {"rlock", "glock", "wlock", "fetch"}, t.op = "boxes" => t.cargo = {}
  PROVE  Readable'
<1>1. Become(p, t) /\ task[p] = Idle
  BY DEF Start
<1>2. t \in Tasks
  BY <1>1, BecomeMoves DEF TypeOK
<1>3. Calm(p, t) /\ Delivers(t) /\ UploadOpens(t)
  BY <1>1 DEF Calm, Delivers, UploadOpens, Idle, Begin
<1> QED
  BY <1>1, <1>2, <1>3, CalmStep

\* A new group has no boxes.
LEMMA CreateReadable ==
  ASSUME TypeOK, TypeOK', Covered, Readable, NEW p \in Procs, NEW u \in Users, NEW g \in Groups,
         NEW us \in SUBSET Users, CreateGroup(p, u, g, us)
  PROVE  Readable'
<1> DEFINE t == Begin("create", "glock", u, g, us, 0, 0, {})
<1>1. Become(p, t) /\ task[p] = Idle /\ t \in Tasks
  <2>1. Become(p, t) /\ task[p] = Idle
    BY DEF CreateGroup, Start
  <2> QED
    BY <2>1, BecomeMoves DEF TypeOK
<1>2. /\ state[g] = "absent" /\ idkey' = idkey /\ version' = version /\ boxes' = boxes
      /\ \A h \in Groups \ {g} : Untouched(h)
  BY DEF CreateGroup, Untouched, TypeOK
<1>3. t.pc = "glock" /\ t.op = "create"
  BY DEF Begin
<1> HIDE DEF t
<1>4. Calm(p, t) /\ UploadOpens(t)' /\ Delivers(t)
  BY <1>1, <1>3 DEF Calm, UploadOpens, Delivers, Idle, Begin
<1>5. BoxesOpen(g)'
  <2>1. boxes'[g] = {}
    BY <1>2 DEF Covered, GroupFits
  <2> QED
    BY <2>1 DEF BoxesOpen
<1>6. ASSUME NEW q \in Procs \ {p}, task[q].group = g PROVE UploadOpens(task[q])'
  <2>1. task'[q] = task[q] /\ task[q].op # "boxes"
    BY <1>1, <1>2, <1>6, BecomeMoves DEF Covered, TaskStands
  <2> QED
    BY <2>1 DEF UploadOpens
<1> QED
  BY <1>1, <1>2, <1>4, <1>5, <1>6, CalmInGroup DEF WrappedOpens

\* No request disturbs what is known of keys.
LEMMA RequestReadable ==
  ASSUME TypeOK, TypeOK', Covered, Readable, NEW p \in Procs, Request(p)
  PROVE  Readable'
<1> PICK u \in Users, g \in Groups :
      \/ \E us \in SUBSET Users : CreateGroup(p, u, g, us) \/ RequestAdd(p, u, g, us)
      \/ \E m \in Users : RequestRemove(p, u, g, m) \/ RequestSendSingle(p, u, m)
      \/ RequestLeave(p, u, g) \/ RequestDelete(p, u, g)
      \/ \E v \in 1 .. MaxVersion : RequestRotate(p, u, g, v)
      \/ \E type \in {"text", "call"} : RequestSendGroup(p, u, g, type)
      \/ \E k \in 1 .. MaxKey : RequestPublishKey(p, u, k)
      \/ GetGroupCurrentKeyBox(p, u, g)
  BY DEF Request
<1> USE DEF Begin
<1>1. ASSUME NEW us \in SUBSET Users, RequestAdd(p, u, g, us) PROVE Readable'
  BY <1>1, StartReadable DEF RequestAdd
<1>2. ASSUME NEW m \in Users, RequestRemove(p, u, g, m) PROVE Readable'
  BY <1>2, StartReadable DEF RequestRemove
<1>3. ASSUME NEW m \in Users, RequestSendSingle(p, u, m) PROVE Readable'
  BY <1>3, StartReadable DEF RequestSendSingle
<1>4. ASSUME RequestLeave(p, u, g) \/ RequestDelete(p, u, g) PROVE Readable'
  BY <1>4, StartReadable DEF RequestLeave, RequestDelete
<1>5. ASSUME NEW v \in 1 .. MaxVersion, RequestRotate(p, u, g, v) PROVE Readable'
  BY <1>5, StartReadable DEF RequestRotate
<1>6. ASSUME NEW type \in {"text", "call"}, RequestSendGroup(p, u, g, type) PROVE Readable'
  BY <1>6, StartReadable DEF RequestSendGroup
<1>7. ASSUME NEW k \in 1 .. MaxKey, RequestPublishKey(p, u, k) PROVE Readable'
  BY <1>7, StartReadable DEF RequestPublishKey
<1>8. ASSUME GetGroupCurrentKeyBox(p, u, g) PROVE Readable'
  BY <1>8, StartReadable DEF GetGroupCurrentKeyBox
<1> QED
  BY <1>1, <1>2, <1>3, <1>4, <1>5, <1>6, <1>7, <1>8, CreateReadable

\* No lock operation does.
LEMMA AcquireReadable ==
  ASSUME TypeOK, TypeOK', Readable, NEW p \in Procs, Acquire(p)
  PROVE  Readable'
<1>1. ASSUME AcquireIdentityRead(p) PROVE Readable'
  BY <1>1, MoveReadable DEF AcquireIdentityRead, Pcs
<1>2. ASSUME AcquireIdentityWrite(p) PROVE Readable'
  BY <1>2, MoveReadable DEF AcquireIdentityWrite, Pcs
<1>3. ASSUME AcquireGroup(p) PROVE Readable'
  BY <1>3, MoveReadable DEF AcquireGroup, Pcs
<1> QED
  BY <1>1, <1>2, <1>3 DEF Acquire

\* A message is accepted with boxes that open, and under the read lock.
LEMMA SendReadable ==
  ASSUME TypeOK, TypeOK', LocksMatchHandlers, Covered, Readable, NEW p \in Procs, SendSteps(p)
  PROVE  Readable'
<1>0. /\ task[p] \in Tasks
      /\ task[p].op \notin {"none", "single", "publish"} => task[p].group \in Groups
  BY TaskFacts DEF TypeOK
<1>1. ASSUME AcceptGroupMessage(p) PROVE Readable'
  <2> DEFINE g == task[p].group
             c == IF task[p].ver = 0 THEN {} ELSE {<<b.user, b.key>> : b \in boxes[g]}
             t == [task[p] EXCEPT !.pc = "deliver", !.cargo = c]
  <2>1. Become(p, t) /\ UNCHANGED rows /\ At(p, "check", {"group"}) /\ Admissible(task[p])
    BY <1>1 DEF AcceptGroupMessage
  <2>2. t \in Tasks /\ g \in Groups
    BY <1>0, <2>1, BecomeMoves DEF TypeOK, At
  <2>3. t.pc = "deliver" /\ t.op = "group" /\ t.cargo = c
    BY <1>0, <2>1 DEF At, Tasks, Records
  <2>4. UploadOpens(t) /\ Calm(p, t)
    BY <2>1, <2>3 DEF UploadOpens, Calm, At
  <2>5. Delivers(t)
    <3>1. IsMember(g, task[p].user) /\ (task[p].ver = 0 \/ TextIsCurrent(task[p]))
      BY <2>1 DEF Admissible, At
    <3>2. Live(g)
      BY <2>2, <3>1 DEF Covered, GroupFits, IsMember
    <3>3. HoldsRead(p)
      BY <2>1 DEF HoldsRead, At
    <3>4. \A q \in Procs : ~Changing(q)
      BY <3>3, ReadersExclude
    <3>5. ASSUME task[p].ver # 0, NEW b \in boxes[g] PROVE idkey[b.user] = b.key
      <4>1. Holders(boxes[g]) = members[g]
        BY <3>1, <3>5 DEF TextIsCurrent
      <4>2. IsMember(g, b.user)
        BY <4>1 DEF Holders, IsMember
      <4>3. Opens(g, b.user, b.key)
        BY <2>2, <3>2, <4>2 DEF Readable, BoxesOpen
      <4> QED
        BY <3>4, <4>3 DEF Opens, Changes
    <3>6. \A x \in c : idkey[x[1]] = x[2]
      BY <3>5
    <3> QED
      BY <2>3, <3>6 DEF Delivers
  <2> HIDE DEF t
  <2> QED
    BY <2>1, <2>2, <2>4, <2>5, CalmStep
<1>2. ASSUME AcceptSingleMessage(p) PROVE Readable'
  <2> DEFINE t == [task[p] EXCEPT !.pc = "deliver"]
  <2>1. Become(p, t) /\ UNCHANGED rows /\ At(p, "check", {"single"}) /\ Admissible(task[p])
    BY <1>2 DEF AcceptSingleMessage, Goto
  <2>2. t \in Tasks
    BY <2>1, BecomeMoves DEF TypeOK
  <2>3. t.pc = "deliver" /\ t.op = "single" /\ t.cargo = task[p].cargo
    BY <1>0, <2>1, GotoSame DEF At, Pcs
  <2>4. \A c \in task[p].cargo : idkey[c[1]] = c[2]
    BY <2>1 DEF Admissible, At
  <2> HIDE DEF t
  <2>5. UploadOpens(t) /\ Delivers(t) /\ Calm(p, t)
    BY <2>1, <2>3, <2>4 DEF UploadOpens, Delivers, Calm, At
  <2> QED
    BY <2>1, <2>2, <2>5, CalmStep
<1>3. ASSUME Deliver(p) PROVE Readable'
  BY <1>3, ReturnReadable DEF Deliver, Return
<1> QED
  BY <1>1, <1>2, <1>3 DEF SendSteps

\* The uploading client wraps for keys that are current when it reads them.
LEMMA ClientReadable ==
  ASSUME TypeOK, TypeOK', LocksMatchHandlers, Readable, NEW p \in Procs, ClientSteps(p)
  PROVE  Readable'
<1>0. task[p] \in Tasks /\ UploadOpens(task[p])
  BY DEF TypeOK, Readable
<1>1. ASSUME GiveUp(p) PROVE Readable'
  BY <1>1, ReturnReadable DEF GiveUp
<1>2. ASSUME PostBoxes(p) PROVE Readable'
  BY <1>2, MoveReadable DEF PostBoxes, Pcs
<1>3. ASSUME NEW m \in task[p].users, GetUserPublicKey(p, m) PROVE Readable'
  <2> DEFINE t == [task[p] EXCEPT !.users = task[p].users \ {m},
                                  !.cargo = task[p].cargo \cup {<<m, idkey[m]>>}]
             g == task[p].group
  <2>1. Become(p, t) /\ UNCHANGED rows /\ task[p].pc = "fetch" /\ CanRead
    BY <1>3 DEF GetUserPublicKey
  <2>2. t \in Tasks
    BY <2>1, BecomeMoves DEF TypeOK
  <2>3. /\ t.pc = "fetch" /\ t.op = task[p].op /\ t.group = g /\ t.ver = task[p].ver
        /\ t.cargo = task[p].cargo \cup {<<m, idkey[m]>>}
    BY <1>0, <2>1 DEF Tasks, Records
  <2> HIDE DEF t
  <2>4. Delivers(t) /\ Calm(p, t)
    BY <2>1, <2>3 DEF Delivers, Calm
  <2>5. Opens(g, m, idkey[m])
    <3>1. \A q \in Procs : ~Changing(q)
      BY <2>1, ReadersExclude DEF CanRead
    <3> QED
      BY <3>1 DEF Opens, Changes
  <2>6. UploadOpens(t)
    BY <1>0, <2>3, <2>5 DEF UploadOpens
  <2> QED
    BY <2>1, <2>2, <2>4, <2>6, CalmStep
<1> QED
  BY <1>1, <1>2, <1>3 DEF ClientSteps

----------------------------------------------------------------------------
(* Identity keys in a change of one group under its lock.                  *)

\* A new version: no boxes, and every upload in flight is stale.
LEMMA NewVersionReadable ==
  ASSUME TypeOK, Covered, Readable, NEW p \in Procs, NEW t \in Tasks, Become(p, t),
         NEW g \in Groups, NextVersion(g), UNCHANGED <<state, owner, members, idkey>>,
         \A h \in Groups \ {g} : KeysStay(h), UploadOpens(t)', Delivers(t)
  PROVE  Readable'
<1>1. /\ boxes'[g] = {} /\ version'[g] = version[g] + 1 /\ version[g] \in Nat
      /\ \A h \in Groups \ {g} : Untouched(h)
  BY DEF NextVersion, TypeOK, Untouched
<1>2. ASSUME NEW q \in Procs \ {p}, task[q].group = g PROVE UploadOpens(task[q])'
  <2>1. task'[q] = task[q] /\ TaskStands(task[q]) /\ task[q].ver \in Nat
    BY BecomeMoves DEF Covered, TypeOK, Tasks, Records
  <2>2. task[q].op = "boxes" => task[q].ver # version'[g]
    BY <1>1, <1>2, <2>1 DEF TaskStands
  <2> QED
    BY <1>2, <2>1, <2>2 DEF UploadOpens
<1>3. WrappedOpens(p, g)
  BY <1>1, <1>2 DEF WrappedOpens, BoxesOpen
<1>4. Delivers(t)'
  BY DEF Delivers
<1> QED
  BY <1>1, <1>3, <1>4, UntouchedOpens, StepReadable

\* New members for a group whose key is rotated next: what is wrapped was
\* wrapped for the members before.
LEMMA NewMembersReadable ==
  ASSUME TypeOK, TypeOK', LocksMatchHandlers, Covered, Readable, NEW p \in Procs, HoldsGroup(p),
         task[p].pc = "write", Goto(p, "rotate"), NEW h \in Groups, h = task[p].group,
         NEW ms \in SUBSET Users, members' = [members EXCEPT ![h] = ms], Live(h),
         UNCHANGED <<state, owner, version, boxes, idkey>>
  PROVE  Readable'
<1>1. PICK t \in Tasks : Become(p, t) /\ t.pc = "rotate"
  <2> DEFINE x == [task[p] EXCEPT !.pc = "rotate"]
  <2>1. Become(p, x) /\ task[p] \in Tasks
    BY DEF Goto, TypeOK
  <2>2. x \in Tasks
    BY <2>1, BecomeMoves DEF TypeOK
  <2>3. x.pc = "rotate"
    BY <2>1, GotoSame DEF Pcs
  <2> QED
    BY <2>1, <2>2, <2>3
<1>2. Calm(p, t) /\ ~Midway(task[p], h)
  BY <1>1 DEF Calm, Midway
<1>3. \A g \in Groups \ {h} : Untouched(g)
  BY DEF Untouched, TypeOK
<1>4. ASSUME NEW b \in boxes[h] PROVE Opens(h, b.user, b.key)'
  <2>1. Audience(h, Holders(boxes[h]))
    BY <1>4 DEF Covered, BoxesCover
  <2>2. Holders(boxes[h]) = members[h]
    BY <1>2, <2>1, HolderSeesMembers
  <2>3. Opens(h, b.user, b.key)
    BY <1>4, <2>2 DEF Readable, BoxesOpen, Holders, IsMember
  <2> QED
    BY <1>1, <1>2, <2>3, CalmOpens
<1>5. ASSUME NEW q \in Procs \ {p}, task[q].group = h PROVE UploadOpens(task[q])'
  <2>1. task'[q] = task[q] /\ UploadCovers(task[q]) /\ UploadOpens(task[q])
    BY <1>1, BecomeMoves DEF Covered, Readable
  <2>2. ASSUME task[q].op = "boxes", task[q].ver = version[h], NEW c \in task[q].cargo
        PROVE  Opens(h, c[1], c[2])'
    <3>1. Audience(h, task[q].users \cup Wrapped(task[q]))
      BY <1>5, <2>1, <2>2 DEF UploadCovers
    <3>2. task[q].users \cup Wrapped(task[q]) = members[h]
      BY <1>2, <3>1, HolderSeesMembers
    <3>3. Opens(h, c[1], c[2])
      BY <1>5, <2>1, <2>2, <3>2 DEF UploadOpens, Wrapped, IsMember
    <3> QED
      BY <1>1, <1>2, <3>3, CalmOpens
  <2> QED
    BY <1>5, <2>1, <2>2 DEF UploadOpens
<1>6. WrappedOpens(p, h)
  BY <1>4, <1>5 DEF WrappedOpens, BoxesOpen
<1>7. UploadOpens(t)' /\ Delivers(t)
  <2>1. Fits(t.op, t.pc)
    BY TaskFacts
  <2> QED
    BY <1>1, <2>1 DEF UploadOpens, Delivers, Fits
<1> QED
  BY <1>1, <1>2, <1>3, <1>6, <1>7, CalmInGroup

\* A group is dissolved: its boxes do not matter any more.
LEMMA DissolvedReadable ==
  ASSUME TypeOK, Readable, NEW p \in Procs, HoldsGroup(p), Become(p, Idle),
         NEW h \in Groups, members' = [members EXCEPT ![h] = {}],
         state' = [state EXCEPT ![h] = "deleted"], UNCHANGED <<owner, version, boxes, idkey>>
  PROVE  Readable'
<1>1. Calm(p, Idle)
  BY DEF Calm, Idle, Begin, HoldsGroup
<1>2. state'[h] = "deleted" /\ \A g \in Groups \ {h} : Untouched(g)
  BY DEF Untouched, TypeOK
<1>3. ASSUME NEW q \in Procs \ {p}, task[q].group = h PROVE UploadOpens(task[q])'
  <2>1. task'[q] = task[q]
    BY BecomeMoves
  <2> QED
    BY <1>2, <1>3, <2>1 DEF UploadOpens, Live
<1>4. WrappedOpens(p, h)
  BY <1>2, <1>3 DEF WrappedOpens, BoxesOpen, Live
<1>5. UploadOpens(Idle)'
  BY DEF Idle, Begin, UploadOpens
<1> QED
  BY <1>1, <1>2, <1>4, <1>5, IdleOpens, CalmInGroup

\* No step of GroupService disturbs what is known of keys.
LEMMA MemberReadable ==
  ASSUME TypeOK, TypeOK', LocksMatchHandlers, NoFaults, Covered, Readable, NEW p \in Procs,
         MemberSteps(p)
  PROVE  Readable'
<1> DEFINE h == task[p].group
<1>0. /\ task[p] \in Tasks /\ Fits(task[p].op, task[p].pc) /\ failures = 0
      /\ TaskStands(task[p]) /\ UploadOpens(task[p])
      /\ task[p].op \notin {"none", "single", "publish"} => h \in Groups
      /\ task[p].users \subseteq Users
  BY TaskFacts DEF TypeOK, NoFaults, Covered, Readable, Records
<1>1. ASSUME Refuse(p) PROVE Readable'
  BY <1>1, ReturnReadable DEF Refuse, Return
<1>2. ASSUME Pass(p) PROVE Readable'
  <2> DEFINE us == IF task[p].op = "add" THEN NewMembers(task[p]) ELSE task[p].users
             t == [task[p] EXCEPT !.pc = "write", !.users = us]
  <2>1. Become(p, t) /\ UNCHANGED rows /\ task[p].pc = "check"
    BY <1>2 DEF Pass, At
  <2>2. t \in Tasks
    BY <2>1, BecomeMoves DEF TypeOK
  <2>3. /\ t.pc = "write" /\ t.op = task[p].op /\ t.group = h
        /\ t.ver = task[p].ver /\ t.cargo = task[p].cargo
    BY <1>0 DEF Tasks, Records
  <2> HIDE DEF t
  <2>4. UploadOpens(t) /\ Delivers(t) /\ Calm(p, t)
    BY <1>0, <2>1, <2>3 DEF UploadOpens, Delivers, Calm
  <2> QED
    BY <2>1, <2>2, <2>4, CalmStep
<1>3. ASSUME AddMembers(p) PROVE Readable'
  <2>1. HoldsGroup(p) /\ Live(h) /\ h \in Groups
    BY <1>0, <1>3 DEF AddMembers, At, HoldsGroup, TaskStands
  <2>2. members' = [members EXCEPT ![h] = members[h] \cup task[p].users]
    BY <1>3 DEF AddMembers
  <2>3. members[h] \cup task[p].users \in SUBSET Users
    BY <1>0, <2>1 DEF TypeOK
  <2> QED
    BY <1>3, <2>1, <2>2, <2>3, NewMembersReadable DEF AddMembers, At
<1>4. ASSUME RemoveMember(p) PROVE Readable'
  <2>1. HoldsGroup(p) /\ Live(h) /\ h \in Groups
    BY <1>0, <1>4 DEF RemoveMember, At, HoldsGroup, TaskStands
  <2>2. members' = [members EXCEPT ![h] = members[h] \ task[p].users]
    BY <1>4 DEF RemoveMember
  <2>3. members[h] \ task[p].users \in SUBSET Users
    BY <2>1 DEF TypeOK
  <2> QED
    BY <1>4, <2>1, <2>2, <2>3, NewMembersReadable DEF RemoveMember, At
<1>5. ASSUME DeleteGroup(p) PROVE Readable'
  BY <1>0, <1>5, DissolvedReadable DEF DeleteGroup, At, HoldsGroup, Return
<1>6. ASSUME Rotate(p) PROVE Readable'
  <2>1. NextVersion(h) /\ task[p].pc = "rotate" /\ h \in Groups
    BY <1>0, <1>6 DEF Rotate, Fits
  <2>2. PICK t \in Tasks : Become(p, t) /\ t.pc = "notify" /\ t.op = task[p].op
    <3> DEFINE x == [task[p] EXCEPT !.pc = "notify", !.ver = version[h] + 1]
    <3>1. Become(p, x)
      BY <1>6 DEF Rotate
    <3>2. x \in Tasks
      BY <3>1, BecomeMoves DEF TypeOK
    <3>3. x.pc = "notify" /\ x.op = task[p].op
      BY <1>0 DEF Tasks, Records
    <3> QED
      BY <3>1, <3>2, <3>3
  <2>3. Calm(p, t)
    BY <2>1, <2>2 DEF Calm
  <2>4. \A g \in Groups \ {h} : KeysStay(g)
    BY <1>6, <2>2, <2>3, CalmOpens DEF KeysStay, Rotate
  <2>5. UploadOpens(t)' /\ Delivers(t)
    BY <1>0, <2>1, <2>2 DEF UploadOpens, Delivers, Fits
  <2> QED
    BY <1>6, <2>1, <2>2, <2>4, <2>5, NewVersionReadable DEF Rotate
<1>7. ASSUME RotateRefused(p) PROVE Readable'
  BY <1>7, MoveReadable DEF RotateRefused, Pcs
<1>8. ASSUME Rollback(p) PROVE Readable'
  <2>1. task[p].pc = "rollback" /\ h \in Groups /\ HoldsGroup(p)
    BY <1>0, <1>8 DEF Rollback, Fits, HoldsGroup
  <2>2. task[p].op = "create"
    BY <1>0, <2>1 DEF Fits, TaskStands
  <2>3. members' = [members EXCEPT ![h] = {}] /\ state' = [state EXCEPT ![h] = "deleted"]
    BY <1>8, <2>2 DEF Rollback
  <2> QED
    BY <1>8, <2>1, <2>3, DissolvedReadable DEF Rollback, Return
<1>9. ASSUME NotifyGroupKeyChanged(p) PROVE Readable'
  BY <1>9, ReturnReadable DEF NotifyGroupKeyChanged, Return
<1> QED
  BY <1>1, <1>2, <1>3, <1>4, <1>5, <1>6, <1>7, <1>8, <1>9 DEF MemberSteps

\* A caller rotates: the version is new, or the answer is the current one.
LEMMA RotateIfCurrentReadable ==
  ASSUME TypeOK, TypeOK', Covered, Readable, NEW p \in Procs, RotateGroupKeyIfCurrent(p)
  PROVE  Readable'
<1>h. PICK h \in Groups : h = task[p].group
  BY TaskFacts DEF RotateGroupKeyIfCurrent, At, TypeOK
<1>0. /\ task[p] \in Tasks /\ task[p].pc = "write" /\ task[p].op = "rotate"
      /\ UNCHANGED <<accounts, state, owner, members, idkey>>
  BY <1>h DEF RotateGroupKeyIfCurrent, At, TypeOK
<1>1. PICK t \in Tasks : Become(p, t) /\ t.pc = "notify" /\ t.op = "rotate"
  <2> DEFINE x == [task[p] EXCEPT !.pc = "notify", !.ver = version'[task[p].group]]
  <2>1. Become(p, x)
    BY DEF RotateGroupKeyIfCurrent
  <2>2. x \in Tasks
    BY <2>1, BecomeMoves DEF TypeOK
  <2>3. x.pc = "notify" /\ x.op = "rotate"
    BY <1>0 DEF Tasks, Records
  <2> HIDE DEF x
  <2> QED
    BY <2>1, <2>2, <2>3
<1>2. Calm(p, t) /\ Delivers(t) /\ UploadOpens(t) /\ UploadOpens(t)'
  BY <1>0, <1>1 DEF Calm, Delivers, UploadOpens
<1>3. CASE task[p].ver = version[h]
  <2>1. NextVersion(h)
    BY <1>h, <1>3 DEF RotateGroupKeyIfCurrent
  <2>2. \A g \in Groups \ {h} : KeysStay(g)
    BY <1>0, <1>1, <1>2, CalmOpens DEF KeysStay
  <2> QED
    BY <1>0, <1>1, <1>2, <2>1, <2>2, NewVersionReadable
<1>4. CASE task[p].ver # version[h]
  <2>1. UNCHANGED rows
    BY <1>h, <1>0, <1>4 DEF RotateGroupKeyIfCurrent, rows
  <2> QED
    BY <1>1, <1>2, <2>1, CalmStep
<1> QED
  BY <1>3, <1>4

\* An upload is stored: it opens as a stored version as it did in flight.
LEMMA ReplaceBoxesReadable ==
  ASSUME TypeOK, TypeOK', Readable, NEW p \in Procs, ReplaceVersionBoxes(p)
  PROVE  Readable'
<1>h. PICK h \in Groups : h = task[p].group
  BY TaskFacts DEF ReplaceVersionBoxes, At, TypeOK
<1>0. /\ task[p].pc = "write" /\ task[p].op = "boxes" /\ Live(h)
      /\ Become(p, Idle) /\ task[p].ver = version[h]
      /\ UNCHANGED <<accounts, state, owner, members, version, idkey>>
  BY <1>h DEF ReplaceVersionBoxes, At, Return
<1>1. Calm(p, Idle)
  BY <1>0 DEF Calm, Idle, Begin
<1>2. boxes' = [boxes EXCEPT ![h] =
         {[user |-> c[1], key |-> c[2], by |-> task[p].user] : c \in task[p].cargo}]
  BY <1>h, <1>0 DEF ReplaceVersionBoxes, TypeOK
<1>3. /\ \A g \in Groups \ {h} : Untouched(g)
      /\ boxes'[h] = {[user |-> c[1], key |-> c[2], by |-> task[p].user] : c \in task[p].cargo}
  BY <1>0, <1>2 DEF Untouched, TypeOK
<1>4. ASSUME NEW b \in boxes'[h], IsMember(h, b.user)' PROVE Opens(h, b.user, b.key)'
  <2>1. PICK c \in task[p].cargo : b = [user |-> c[1], key |-> c[2], by |-> task[p].user]
    BY <1>3
  <2>2. Opens(h, c[1], c[2])
    BY <1>h, <1>0, <1>4, <2>1 DEF Readable, UploadOpens, IsMember
  <2> QED
    BY <1>0, <1>1, <2>1, <2>2, CalmOpens
<1>5. ASSUME NEW q \in Procs \ {p}, task[q].group = h PROVE UploadOpens(task[q])'
  <2>1. task'[q] = task[q] /\ UploadOpens(task[q])
    BY <1>0, BecomeMoves DEF Readable
  <2>2. \A c \in task[q].cargo : Opens(h, c[1], c[2]) => Opens(h, c[1], c[2])'
    BY <1>0, <1>1, CalmOpens
  <2> QED
    BY <1>0, <1>5, <2>1, <2>2 DEF UploadOpens, IsMember, Live
<1>6. WrappedOpens(p, h) /\ UploadOpens(Idle)'
  BY <1>4, <1>5 DEF WrappedOpens, BoxesOpen, Idle, Begin, UploadOpens
<1> QED
  BY <1>0, <1>1, <1>3, <1>6, IdleOpens, CalmInGroup

----------------------------------------------------------------------------
(* Identity changes.                                                       *)

\* A step of a publisher that touches no group.
LEMMA PublisherStep ==
  ASSUME TypeOK, Readable, NEW p \in Procs, NEW t \in Tasks, Become(p, t),
         t.op \in {"publish", "none"}, UNCHANGED <<state, owner, members, version, boxes>>,
         \A g \in Groups : KeysStay(g),
         idkey' = idkey \/ \A q \in Procs \ {p} : task[q].pc # "deliver"
  PROVE  Readable'
<1>1. Fits(t.op, t.pc)
  BY TaskFacts
<1>2. UploadOpens(t)' /\ Delivers(t)'
  BY <1>1 DEF Fits, UploadOpens, Delivers
<1>3. \A g \in Groups : Untouched(g)
  BY DEF Untouched
<1> QED
  BY <1>2, <1>3, UntouchedOpens, StepReadable

\* Nobody delivers while somebody writes.
LEMMA NobodyDelivers ==
  ASSUME TypeOK, LocksMatchHandlers, NEW p \in Procs, HoldsWrite(p)
  PROVE  \A q \in Procs : task[q].pc # "deliver"
<1> SUFFICES ASSUME NEW q \in Procs, task[q].pc = "deliver" PROVE FALSE
  OBVIOUS
<1>1. Fits(task[q].op, task[q].pc)
  BY TaskFacts DEF TypeOK
<1>2. HoldsRead(q)
  BY <1>1 DEF HoldsRead, Fits
<1> QED
  BY <1>2, OneWriter

\* Publishing: the key changes, and the old one is remembered.
LEMMA UpsertReadable ==
  ASSUME TypeOK, TypeOK', LocksMatchHandlers, Readable, NEW p \in Procs, Upsert(p)
  PROVE  Readable'
<1> DEFINE u == task[p].user
<1>0. /\ task[p] \in Tasks /\ task[p].pc = "upsert" /\ task[p].op = "publish" /\ u \in Users
      /\ idkey' = [idkey EXCEPT ![u] = task[p].key]
      /\ UNCHANGED <<accounts, state, owner, members, version, boxes>>
  BY TaskFacts DEF Upsert, TypeOK, Fits
<1>1. CASE idkey[u] = task[p].key
  <2>1. idkey' = idkey
    BY <1>0, <1>1 DEF TypeOK
  <2>2. Become(p, Idle)
    BY <1>1 DEF Upsert, Return
  <2> QED
    BY <1>0, <2>1, <2>2, ReturnReadable DEF rows
<1>2. CASE idkey[u] # task[p].key
  <2>1. PICK t \in Tasks :
           Become(p, t) /\ t.pc = "list" /\ t.op = "publish" /\ t.user = u /\ t.ver = idkey[u]
    <3> DEFINE x == [task[p] EXCEPT !.pc = "list", !.ver = idkey[u]]
    <3>1. Become(p, x)
      BY <1>2 DEF Upsert
    <3>2. x \in Tasks
      BY <3>1, BecomeMoves DEF TypeOK
    <3>3. x.pc = "list" /\ x.op = "publish" /\ x.user = u /\ x.ver = idkey[u]
      BY <1>0 DEF Tasks, Records
    <3> QED
      BY <3>1, <3>2, <3>3
  <2>2. HoldsWrite(p) /\ ~Changing(p)
    BY <1>0 DEF HoldsWrite, Changing
  <2>3. \A q \in Procs : ~Changing(q)
    BY <2>2, OneWriter
  <2>4. \A q \in Procs \ {p} : ~Changing(q)'
    BY <2>1, <2>3, BecomeMoves DEF Changing
  <2>5. task'[p] = t /\ Changing(p)'
    BY <2>1, BecomeMoves DEF Changing
  <2>6. ASSUME NEW g \in Groups, NEW v \in Users, NEW k, Opens(g, v, k) PROVE Opens(g, v, k)'
    <3>1. k = idkey[v]
      BY <2>3, <2>6 DEF Opens, Changes
    <3>2. CASE v = u
      BY <2>1, <2>4, <2>5, <3>1, <3>2 DEF Opens, Changes
    <3>3. CASE v # u
      <4>1. idkey'[v] = idkey[v]
        BY <1>0, <3>3 DEF TypeOK
      <4>2. \A q \in Procs : ~Changes(q, v)'
        BY <2>1, <2>4, <2>5, <3>3 DEF Changes
      <4> QED
        BY <3>1, <4>1, <4>2 DEF Opens
    <3> QED
      BY <3>2, <3>3
  <2>7. \A g \in Groups : KeysStay(g)
    BY <2>6 DEF KeysStay, IsMember, TypeOK
  <2> QED
    BY <1>0, <2>1, <2>2, <2>7, NobodyDelivers, PublisherStep
<1> QED
  BY <1>1, <1>2

\* Taking a key back: what was wrapped for the old one is good again.
LEMMA RestoreReadable ==
  ASSUME TypeOK, TypeOK', LocksMatchHandlers, Readable, NEW p \in Procs, RollbackIdentityChange(p)
  PROVE  Readable'
<1> DEFINE u == task[p].user
<1>0. /\ task[p] \in Tasks /\ task[p].pc = "restore" /\ task[p].op = "publish" /\ u \in Users
      /\ idkey' = [idkey EXCEPT ![u] = task[p].ver] /\ Become(p, Idle)
      /\ UNCHANGED <<accounts, state, owner, members, version, boxes>>
  BY TaskFacts DEF RollbackIdentityChange, TypeOK, Fits, Return
<1>1. HoldsWrite(p) /\ Changing(p)
  BY <1>0 DEF HoldsWrite, Changing
<1>2. \A q \in Procs \ {p} : ~Changing(q)
  BY <1>1, OneWriter
<1>3. \A q \in Procs : ~Changing(q)'
  BY <1>0, <1>2, BecomeMoves DEF Changing, Idle, Begin
<1>4. ASSUME NEW g \in Groups, NEW v \in Users, NEW k, Opens(g, v, k) PROVE Opens(g, v, k)'
  <2>1. k = idkey'[v]
    <3>1. CASE v = u
      BY <1>0, <1>1, <1>4, <3>1 DEF Opens, Changes, TypeOK
    <3>2. CASE v # u
      BY <1>0, <1>2, <1>4, <3>2 DEF Opens, Changes, TypeOK
    <3> QED
      BY <3>1, <3>2
  <2> QED
    BY <1>3, <2>1 DEF Opens, Changes
<1>5. \A g \in Groups : KeysStay(g)
  BY <1>4 DEF KeysStay, IsMember, TypeOK
<1>6. Idle.op = "none"
  BY DEF Idle, Begin
<1> QED
  BY <1>0, <1>1, <1>5, <1>6, IdleIsTask, NobodyDelivers, PublisherStep

\* Everything is rotated and told: nothing is wrapped for the old key.
LEMMA PublishReturnsReadable ==
  ASSUME TypeOK, TypeOK', Readable, NEW p \in Procs, PublishReturns(p)
  PROVE  Readable'
<1>1. /\ task[p].pc = "each" /\ task[p].op = "publish" /\ task[p].groups = {} /\ Become(p, Idle)
      /\ UNCHANGED <<state, owner, members, version, boxes, idkey>>
  <2>1. Fits(task[p].op, task[p].pc)
    BY TaskFacts DEF TypeOK
  <2> QED
    BY <2>1 DEF PublishReturns, Fits, Return, rows
<1>2. Idle.op = "none" /\ Idle.pc = "idle"
  BY DEF Idle, Begin
<1>3. \A g \in Groups : KeysStay(g)
  <2> SUFFICES ASSUME NEW g \in Groups, NEW u, NEW k, Opens(g, u, k) PROVE Opens(g, u, k)'
    BY DEF KeysStay
  <2>1. ~Changes(p, u)
    BY <1>1 DEF Opens
  <2> QED
    BY <1>1, <1>2, <2>1, OpensStays
<1> QED
  BY <1>1, <1>2, <1>3, IdleIsTask, PublisherStep

\* The other steps of a change go from group to group.
LEMMA ChangeGoesOn ==
  ASSUME TypeOK, TypeOK', Readable, NEW p \in Procs,
         \/ ListGroups(p)
         \/ \E g \in Groups : RotateOneRefused(p, g)
         \/ \E n \in task[p].notes : Announce(p, n)
  PROVE  Readable'
<1> DEFINE u == task[p].user
<1>0. /\ task[p] \in Tasks /\ task[p].op = "publish" /\ Changing(p)
      /\ UNCHANGED <<state, owner, members, version, boxes, idkey>>
  <2>1. Fits(task[p].op, task[p].pc) /\ task[p] \in Tasks
    BY TaskFacts DEF TypeOK
  <2> QED
    BY <2>1 DEF ListGroups, RotateOneRefused, Announce, Fits, rows, Changing
<1>1. PICK t \in Tasks :
         /\ Become(p, t) /\ t.pc \in {"each", "restore"} /\ t.op = "publish" /\ t.user = u
         /\ t.ver = task[p].ver
         /\ \/ task[p].pc = "list" /\ t.groups = {g \in Groups : Live(g) /\ IsMember(g, u)}
            \/ task[p].pc # "list" /\ t.groups = task[p].groups
  <2>1. CASE ListGroups(p)
    <3> DEFINE x == [task[p] EXCEPT !.pc = "each",
                        !.groups = {g \in Groups : Live(g) /\ IsMember(g, u)}]
    <3>1. Become(p, x) /\ task[p].pc = "list"
      BY <2>1 DEF ListGroups
    <3>2. x \in Tasks
      BY <3>1, BecomeMoves DEF TypeOK
    <3>3. /\ x.pc = "each" /\ x.op = "publish" /\ x.user = u /\ x.ver = task[p].ver
          /\ x.groups = {g \in Groups : Live(g) /\ IsMember(g, u)}
      BY <1>0 DEF Tasks, Records
    <3> HIDE DEF x
    <3> QED
      BY <3>1, <3>2, <3>3
  <2>2. CASE \E g \in Groups : RotateOneRefused(p, g)
    <3> DEFINE x == [task[p] EXCEPT !.pc = "restore"]
    <3>1. Become(p, x) /\ task[p].pc = "each"
      BY <2>2 DEF RotateOneRefused, Goto
    <3>2. x \in Tasks
      BY <3>1, BecomeMoves DEF TypeOK
    <3>3. /\ x.pc = "restore" /\ x.op = "publish" /\ x.user = u /\ x.ver = task[p].ver
          /\ x.groups = task[p].groups
      BY <1>0 DEF Tasks, Records
    <3> HIDE DEF x
    <3> QED
      BY <3>1, <3>2, <3>3
  <2>3. CASE \E n \in task[p].notes : Announce(p, n)
    <3> PICK n \in task[p].notes : Announce(p, n)
      BY <2>3
    <3> DEFINE x == [task[p] EXCEPT !.notes = task[p].notes \ {n}]
    <3>1. Become(p, x) /\ task[p].pc = "each"
      BY DEF Announce
    <3>2. x \in Tasks
      BY <3>1, BecomeMoves DEF TypeOK
    <3>3. /\ x.pc = "each" /\ x.op = "publish" /\ x.user = u /\ x.ver = task[p].ver
          /\ x.groups = task[p].groups
      BY <1>0, <3>1 DEF Tasks, Records
    <3> HIDE DEF x
    <3> QED
      BY <3>1, <3>2, <3>3
  <2> QED
    BY <2>1, <2>2, <2>3
<1>2. \A g \in Groups : KeysStay(g)
  <2> SUFFICES ASSUME NEW g \in Groups, NEW v, NEW k, Live(g), IsMember(g, v), Opens(g, v, k)
               PROVE  Opens(g, v, k)'
    BY DEF KeysStay
  <2>1. Changes(p, v) <=> t.pc \in {"list", "each", "restore"} /\ t.user = v
    BY <1>0, <1>1 DEF Changes
  <2>2. Changes(p, v) => t.groups = task[p].groups \/ g \in t.groups
    BY <1>1 DEF Changes
  <2>3. Changes(p, v) => (task[p].pc = "list" \/ g \in task[p].groups
                            => t.pc = "list" \/ g \in t.groups)
    BY <1>1, <2>2 DEF Changes
  <2> QED
    BY <1>0, <1>1, <2>1, <2>3, OpensStays
<1> QED
  BY <1>0, <1>1, <1>2, PublisherStep

\* An identity change gives one group a new version, wrapped for nobody.
LEMMA RotateOneReadable ==
  ASSUME TypeOK, TypeOK', Covered, Readable, NEW p \in Procs, NEW g \in Groups, RotateOne(p, g)
  PROVE  Readable'
<1>0. /\ task[p] \in Tasks /\ task[p].pc = "each" /\ task[p].op = "publish"
      /\ NextVersion(g) /\ UNCHANGED <<state, owner, members, idkey>>
  BY TaskFacts DEF RotateOne, TypeOK, Fits
<1>1. PICK t \in Tasks :
         /\ Become(p, t) /\ t.pc = "each" /\ t.op = "publish" /\ t.user = task[p].user
         /\ t.ver = task[p].ver /\ t.groups = task[p].groups \ {g}
  <2> DEFINE x == [task[p] EXCEPT !.groups = task[p].groups \ {g},
                                  !.notes = task[p].notes \cup {<<g, version[g] + 1>>}]
  <2>1. Become(p, x)
    BY DEF RotateOne
  <2>2. x \in Tasks
    BY <2>1, BecomeMoves DEF TypeOK
  <2>3. /\ x.pc = "each" /\ x.op = "publish" /\ x.user = task[p].user
        /\ x.ver = task[p].ver /\ x.groups = task[p].groups \ {g}
    BY <1>0 DEF Tasks, Records
  <2> HIDE DEF x
  <2> QED
    BY <2>1, <2>2, <2>3
<1>2. \A h \in Groups \ {g} : KeysStay(h)
  <2> SUFFICES ASSUME NEW h \in Groups \ {g}, NEW v, NEW k, Opens(h, v, k) PROVE Opens(h, v, k)'
    BY DEF KeysStay
  <2>1. Changes(p, v) <=> t.pc \in {"list", "each", "restore"} /\ t.user = v
    BY <1>0, <1>1 DEF Changes, Changing
  <2>2. task[p].pc = "list" \/ h \in task[p].groups => t.pc = "list" \/ h \in t.groups
    BY <1>0, <1>1
  <2> QED
    BY <1>0, <1>1, <2>1, <2>2, OpensStays
<1>3. UploadOpens(t)' /\ Delivers(t)
  BY <1>1 DEF UploadOpens, Delivers
<1> QED
  BY <1>0, <1>1, <1>2, <1>3, NewVersionReadable

\* No step of E2EEService disturbs what is known of keys.
LEMMA KeyReadable ==
  ASSUME TypeOK, TypeOK', LocksMatchHandlers, Covered, Readable, NEW p \in Procs, KeySteps(p)
  PROVE  Readable'
<1>1. ASSUME WriteRefused(p) PROVE Readable'
  BY <1>1, ReturnReadable DEF WriteRefused, Return, At
<1> QED
  BY <1>1, RotateIfCurrentReadable, ReplaceBoxesReadable, UpsertReadable, ChangeGoesOn,
     PublishReturnsReadable, RestoreReadable, RotateOneReadable DEF KeySteps

\* Before the first request nothing is wrapped.
LEMMA InitReadable == Init => Readable
  BY DEF Init, Readable, BoxesOpen, UploadOpens, Delivers, Idle, Begin

\* A step that changes nothing.
LEMMA StutterReadable == ASSUME Readable, UNCHANGED vars PROVE Readable'
<1>1. ASSUME NEW g \in Groups PROVE BoxesOpen(g)'
  BY DEF vars, rows, Readable, BoxesOpen, Live, IsMember, Opens, Changes, Changing
<1>2. ASSUME NEW q \in Procs PROVE UploadOpens(task[q])' /\ Delivers(task[q])'
  BY DEF vars, rows, Readable, UploadOpens, Delivers, Live, IsMember, Opens, Changes, Changing
<1> QED
  BY <1>1, <1>2 DEF Readable

\* What is wrapped opens, for as long as nothing fails.
LEMMA AlwaysReadable == Spec => []ReadableUnlessFault
<1>1. Init => ReadableUnlessFault
  BY InitReadable DEF ReadableUnlessFault
<1>2. TypeOK /\ TypeOK' /\ LocksMatchHandlers /\ CoveredAfterOneFailure
        /\ ReadableUnlessFault /\ [Next]_vars => ReadableUnlessFault'
  <2> SUFFICES ASSUME TypeOK, TypeOK', LocksMatchHandlers, CoveredAfterOneFailure,
                      ReadableUnlessFault, [Next]_vars, NoFaults'
               PROVE  Readable'
    BY DEF ReadableUnlessFault
  <2>1. /\ NoFaults /\ ~Crash /\ \A u \in Users : ~DeleteUser(u)
        /\ \A p \in Procs : ~FailedSteps(p)
    BY FaultsStay DEF NoFaults, TypeOK
  <2>2. Covered /\ Readable
    BY <2>1 DEF CoveredAfterOneFailure, ReadableUnlessFault, NoFaults, OneFailure
  <2> QED
    BY <2>1, <2>2, RequestReadable, AcquireReadable, MemberReadable, KeyReadable, SendReadable,
       ClientReadable, StutterReadable DEF Next, Progress
<1> QED
  BY <1>1, <1>2, AlwaysCovered, TypeCorrect, LocksHeld, PTL DEF Spec

\* However membership changes, rotations, identity changes and uploads
\* interleave: while no identity change is under way, every member's box of
\* the current version opens with the key the member has.
THEOREM BoxesMatch == Spec => []BoxesMatchIdentityUnlessFault
<1>1. LocksMatchHandlers /\ CoveredAfterOneFailure /\ ReadableUnlessFault
        => BoxesMatchIdentityUnlessFault
  <2> SUFFICES ASSUME LocksMatchHandlers, Covered, Readable, identityWriter = None,
                      NEW g \in Groups, NEW b \in boxes[g], IsMember(g, b.user)
               PROVE  b.key = idkey[b.user]
    BY DEF CoveredAfterOneFailure, ReadableUnlessFault, BoxesMatchIdentityUnlessFault,
       BoxesMatchIdentity, NoFaults, OneFailure
  <2>1. Live(g)
    BY DEF Covered, GroupFits, IsMember
  <2>2. Opens(g, b.user, b.key)
    BY <2>1 DEF Readable, BoxesOpen
  <2>3. \A q \in Procs : ~Changing(q)
    BY ConstantsAssumption DEF LocksMatchHandlers, HoldsWrite, Changing
  <2> QED
    BY <2>2, <2>3 DEF Opens, Changes
<1> QED
  BY <1>1, AlwaysCovered, AlwaysReadable, LocksHeld, PTL

\* From acceptance to the end of delivery no recipient's key changes under a
\* message.
THEOREM AcceptedReadable == Spec => []AcceptedStaysReadable
<1>1. ReadableUnlessFault => AcceptedStaysReadable
  BY DEF ReadableUnlessFault, Readable, Delivers, AcceptedStaysReadable
<1> QED
  BY <1>1, AlwaysReadable, PTL

----------------------------------------------------------------------------
(* What a step may do to members and identity keys, whatever fails.        *)

\* Steps that write neither.
LEMMA QuietSteps ==
  ASSUME TypeOK, NEW p \in Procs,
         Acquire(p) \/ SendSteps(p) \/ ClientSteps(p)
  PROVE  UNCHANGED <<members, idkey>>
<1> USE DEF rows
<1>1. Acquire(p) => UNCHANGED <<members, idkey>>
  BY DEF Acquire, AcquireIdentityRead, AcquireIdentityWrite, AcquireGroup
<1>2. SendSteps(p) => UNCHANGED <<members, idkey>>
  BY DEF SendSteps, AcceptGroupMessage, AcceptSingleMessage, Deliver
<1>3. ClientSteps(p) => UNCHANGED <<members, idkey>>
  BY DEF ClientSteps, GiveUp, PostBoxes, GetUserPublicKey
<1> QED
  BY <1>1, <1>2, <1>3

\* A request writes no key, and members only of a group that did not exist.
LEMMA RequestsWrite ==
  ASSUME TypeOK, NEW p \in Procs, Request(p)
  PROVE  idkey' = idkey /\ \A g \in Groups : Live(g) => members'[g] = members[g]
<1> USE DEF rows
<1>1. ASSUME NEW u \in Users, NEW g \in Groups, NEW us, CreateGroup(p, u, g, us)
      PROVE  idkey' = idkey /\ \A h \in Groups : Live(h) => members'[h] = members[h]
  BY <1>1 DEF CreateGroup, Live, TypeOK
<1>2. ASSUME NEW u, NEW g, NEW us, RequestAdd(p, u, g, us) PROVE UNCHANGED <<members, idkey>>
  BY <1>2 DEF RequestAdd
<1>3. ASSUME NEW u, NEW g, NEW m, RequestRemove(p, u, g, m) \/ RequestSendSingle(p, u, m)
      PROVE  UNCHANGED <<members, idkey>>
  BY <1>3 DEF RequestRemove, RequestSendSingle
<1>4. ASSUME NEW u, NEW g, RequestLeave(p, u, g) \/ RequestDelete(p, u, g)
                           \/ GetGroupCurrentKeyBox(p, u, g)
      PROVE  UNCHANGED <<members, idkey>>
  BY <1>4 DEF RequestLeave, RequestDelete, GetGroupCurrentKeyBox
<1>5. ASSUME NEW u, NEW g, NEW v, RequestRotate(p, u, g, v) \/ RequestSendGroup(p, u, g, v)
                                  \/ RequestPublishKey(p, u, v)
      PROVE  UNCHANGED <<members, idkey>>
  BY <1>5 DEF RequestRotate, RequestSendGroup, RequestPublishKey
<1> QED
  BY <1>1, <1>2, <1>3, <1>4, <1>5 DEF Request

\* A handler writes the members of its group only, and under its lock.
LEMMA HandlersWriteMembers ==
  ASSUME TypeOK, NEW p \in Procs, MemberSteps(p) \/ KeySteps(p) \/ FailedSteps(p),
         NEW g \in Groups, members'[g] # members[g]
  PROVE  HoldsGroup(p) /\ task[p].group = g
<1>1. Fits(task[p].op, task[p].pc)
  BY TaskFacts DEF TypeOK
<1> USE DEF rows, HoldsGroup, At
<1>2. MemberSteps(p) => HoldsGroup(p) /\ task[p].group = g
  BY <1>1 DEF MemberSteps, Refuse, Pass, AddMembers, RemoveMember, DeleteGroup, Rotate,
     RotateRefused, Rollback, NotifyGroupKeyChanged, Fits, TypeOK
<1>3. ~KeySteps(p)
  BY DEF KeySteps, RotateGroupKeyIfCurrent, ReplaceVersionBoxes, WriteRefused, Upsert,
     ListGroups, PublishReturns, RollbackIdentityChange, RotateOne, RotateOneRefused, Announce
<1>4. FailedSteps(p) => HoldsGroup(p) /\ task[p].group = g
  BY <1>1 DEF FailedSteps, RotateFails, RollbackFails, StatementFails, NotifyFails, UpsertFails,
     RotateOneFails, RollbackIdentityFails, AnnounceFails, Fits, TypeOK
<1> QED
  BY <1>2, <1>3, <1>4

\* A handler writes the key of its caller only, and under the write lock.
LEMMA HandlersWriteKeys ==
  ASSUME TypeOK, NEW p \in Procs, MemberSteps(p) \/ KeySteps(p) \/ FailedSteps(p),
         NEW u \in Users, idkey'[u] # idkey[u]
  PROVE  HoldsWrite(p) /\ task[p].user = u
<1> USE DEF rows, HoldsWrite
<1>1. ~MemberSteps(p)
  BY DEF MemberSteps, Refuse, Pass, AddMembers, RemoveMember, DeleteGroup, Rotate,
     RotateRefused, Rollback, NotifyGroupKeyChanged
<1>2. KeySteps(p) => HoldsWrite(p) /\ task[p].user = u
  BY DEF KeySteps, RotateGroupKeyIfCurrent, ReplaceVersionBoxes, WriteRefused, Upsert,
     ListGroups, PublishReturns, RollbackIdentityChange, RotateOne, RotateOneRefused, Announce,
     TypeOK
<1>3. ~FailedSteps(p)
  BY DEF FailedSteps, RotateFails, RollbackFails, StatementFails, NotifyFails, UpsertFails,
     RotateOneFails, RollbackIdentityFails, AnnounceFails
<1> QED
  BY <1>1, <1>2, <1>3

\* p works on g, and nobody else does.
WorksAlone(p, g) ==
    /\ HoldsGroup(p) /\ task[p].group = g
    /\ \A q \in Procs \ {p} : HoldsGroup(q) => task[q].group # g

\* p changes the key of u; nobody else changes a key, and nobody is between
\* the acceptance of a message and its delivery.
ChangesAlone(p, u) ==
    /\ HoldsWrite(p) /\ task[p].user = u
    /\ \A q \in Procs \ {p} : ~HoldsWrite(q)
    /\ \A q \in Procs : ~HoldsRead(q) /\ task[q].pc # "deliver"

\* Whatever fails or restarts, the members of a live group change in a handler
\* that works on it alone, or lose a user whose account is deleted: this is
\* the one step that breaks MembershipChangesRotate.
THEOREM MembersChangeUnderLock ==
  Spec => [][\A g \in Groups : Live(g) /\ members'[g] # members[g] =>
                \/ \E u \in accounts \ accounts' : members'[g] = members[g] \ {u}
                \/ \E p \in Procs : WorksAlone(p, g)]_vars
<1>1. ASSUME TypeOK, LocksMatchHandlers, Next, NEW g \in Groups, Live(g),
             members'[g] # members[g]
      PROVE  \/ \E u \in accounts \ accounts' : members'[g] = members[g] \ {u}
             \/ \E p \in Procs : WorksAlone(p, g)
  <2>1. ASSUME NEW u \in Users, DeleteUser(u)
        PROVE  u \in accounts \ accounts' /\ members'[g] = members[g] \ {u}
    BY <2>1 DEF DeleteUser
  <2>2. ~Crash
    BY <1>1 DEF Crash, rows
  <2>3. ASSUME NEW p \in Procs, HoldsGroup(p), task[p].group = g
        PROVE  WorksAlone(p, g)
    BY <1>1, <2>3, OneHolder DEF WorksAlone
  <2>4. ASSUME NEW p \in Procs,
               Request(p) \/ Acquire(p) \/ Progress(p) \/ ClientSteps(p) \/ FailedSteps(p)
        PROVE  HoldsGroup(p) /\ task[p].group = g
    BY <1>1, <2>4, QuietSteps, RequestsWrite, HandlersWriteMembers DEF Progress
  <2> QED
    BY <1>1, <2>1, <2>2, <2>3, <2>4 DEF Next
<1>2. TypeOK /\ LocksMatchHandlers /\ [Next]_vars =>
         [\A g \in Groups : Live(g) /\ members'[g] # members[g] =>
                \/ \E u \in accounts \ accounts' : members'[g] = members[g] \ {u}
                \/ \E p \in Procs : WorksAlone(p, g)]_vars
  BY <1>1
<1> QED
  BY <1>2, TypeCorrect, LocksHeld, PTL DEF Spec

\* Whatever fails or restarts, the identity key of an account that goes on
\* changes in the handler its owner called, while no other handler changes
\* one and none is between the acceptance of a message and its delivery.
THEOREM KeysChangeAlone ==
  Spec => [][\A u \in Users : u \in accounts' /\ idkey'[u] # idkey[u] =>
                \E p \in Procs : ChangesAlone(p, u)]_vars
<1>1. ASSUME TypeOK, LocksMatchHandlers, Next, NEW u \in Users, u \in accounts', idkey'[u] # idkey[u]
      PROVE  \E p \in Procs : ChangesAlone(p, u)
  <2>1. ASSUME NEW v \in Users, DeleteUser(v) PROVE FALSE
    BY <1>1, <2>1 DEF DeleteUser, TypeOK
  <2>2. ~Crash
    BY <1>1 DEF Crash, rows
  <2>3. ASSUME NEW p \in Procs,
               Request(p) \/ Acquire(p) \/ Progress(p) \/ ClientSteps(p) \/ FailedSteps(p)
        PROVE  HoldsWrite(p) /\ task[p].user = u
    BY <1>1, <2>1, <2>3, QuietSteps, RequestsWrite, HandlersWriteKeys DEF Progress
  <2>4. ASSUME NEW p \in Procs, HoldsWrite(p)
        PROVE  ChangesAlone(p, task[p].user)
    BY <1>1, <2>4, OneWriter, NobodyDelivers DEF ChangesAlone
  <2> QED
    BY <1>1, <2>1, <2>2, <2>3, <2>4 DEF Next
<1>2. TypeOK /\ LocksMatchHandlers /\ [Next]_vars =>
         [\A u \in Users : u \in accounts' /\ idkey'[u] # idkey[u] =>
                \E p \in Procs : ChangesAlone(p, u)]_vars
  BY <1>1
<1> QED
  BY <1>2, TypeCorrect, LocksHeld, PTL DEF Spec
=============================================================================
