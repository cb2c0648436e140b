# A TLA+ model of the chat backend

The repository is a Go backend (Fiber, PostgreSQL through GORM, Redis, LiveKit
tokens) for a chat application: accounts with one session each, friends, groups
with end-to-end encrypted keys, a WebSocket chat with offline queues, voice and
video calls, and a small feed. This directory models the parts of it where
several goroutines, clients or timers meet, checks them with TLC and proves the
main safety properties with TLAPS.

Run everything from this directory: `tlc -workers 2 -config <name>.cfg <MC module>.tla`
and `tlapm <module>Proofs.tla`. `PROJECT.json` names the runs, maps every
definition to the source lines it translates, and lists hazards and findings.

## 1. Inventory

| Component | State | Operations | What is hard | What makes it correct |
|---|---|---|---|---|
| Group membership (`group_service.go`, `group_repo.go`) | `chat_group`, `chat_group_member` | create, add, remove, leave, dissolve | checks are made before and again under a striped mutex; each change is followed by a key rotation that may fail and is compensated | members change only together with a new key version; a handler that returns has given its lock back |
| Group keys (`e2ee_service.go`, `e2ee_group_key_repo.go`) | versions of a group's key, one box per member and version | rotate, upload boxes, fetch own box (428 asks the client to wrap) | clients gather members and keys in several requests; two clients wrap the same version | one upload per version; boxes cover exactly the members |
| Identity keys (`e2ee_service.go`, `e2ee_key_repo.go`) | one public key per user | publish (store, rotate every group, announce, compensate), read | not one transaction; runs under a global write lock while messages hold the read side | current boxes and accepted messages fit the current keys |
| Message acceptance and delivery (`chat_service.go`, `chat_handler.go`) | connections, in-memory and Redis queues, recall memory | send, recall, mark read, register, unregister, kick | the connection list is read under a lock and used after it; two queues hold the same message | no accepted message is lost or delivered twice |
| Calls (`rtc_service.go`) | map of calls, busy slot per user, timers; memory only | invite, accept, reject, cancel, hangup, disconnect, timeout | check and insertion are separate critical sections; pushes happen outside the mutex; answers race timers and disconnects | a slot names a live call of its user; a call ends once; answers agree with the status; offers are resolved |
| Presence and grace (`chat_handler.go`) | foreground connections, one timer per user | connect, disconnect, 3 s grace, end the call | the timer looks for a connection and then acts | a user who is back keeps his call |
| Accounts and sessions (`user_handler.go`, `middleware/auth.go`, `jwt.go`, `redis.go`) | session id per user and refresh id per session in Redis, password and account in PostgreSQL | login, refresh, change of password, delete | a handler is a sequence of Redis commands and statements, each of which may fail; concurrent logins; token checks against a session replaced meanwhile | one session; a refresh token is redeemed once; the valid session can be refreshed; a password change ends what the old password opened |
| Friends (`friend_service.go`, `friend_repo.go`) | requests, two directed friend rows | request, accept, reject, remark, remove | checks outside the transaction; accepts, rejections, removals and account deletions cross | friendship is mutual; an accepted request made friends |
| Feed (`feed_service.go`, `feed_repo.go`) | posts, likes, comments, counters | post, like, comment, delete | counters kept beside rows; two deletions of one comment | counters equal the rows they count |
| Start and shutdown (`app.go`, `main.go`) | closers, listener, server goroutine | bootstrap, run, drain, close in reverse | a failure half way; a signal between bind and serve; handlers that do not return | what was opened is closed once, in reverse, and not under an HTTP handler that was waited for; a signal ends the process |
| Configuration, logging, database, object storage, passwords, responses | none shared | – | – | – |

How they interact: group handlers call the E2EE service to rotate, and the chat
service to announce. Sending reads memberships, versions and identity keys under
the locks that those handlers take. Calls ask the chat service for connections
and push events through it; the chat handler's grace timer calls back into the
calls. Login and a change of password kick the chat service's connections. Account deletion edits the
tables of all of them without any of their locks.

## 2. Modules

### GroupKeys: membership, key versions, identity keys, acceptance

*State.* `accounts`, `state`, `owner`, `members`, `version`, `boxes` and `idkey` are
the rows; `groupLock` the striped mutexes (`g % LockCount`), `identityWriter` and
`identityReaders` the global RWMutex; `task[p]` is a request goroutine: a program
counter, its operation and its locals (`ver` is the version read or, for
`publish`, the previous key; `cargo` what is wrapped for whom; `notes` the
announcements owed). `told` records the versions announced.

*Steps.* A step is one transaction, one lock operation, or a run of reads that
nothing can disturb because of the locks held. `Request...` actions are the checks
made before a lock; `Admissible` those repeated under it, one case per operation.

| Handler | Path through the program counter |
|---|---|
| `CreateGroup` | commit, `glock`, `rotate`, `notify` (or `rollback`) |
| `AddMembers`, `RemoveMember`, `LeaveGroup` | `glock`, `check`, `write`, `rotate`, `notify` (or `rollback`) |
| `DeleteGroup` | `glock`, `check`, `write` |
| `RotateGroupKeyIfCurrent` | `rlock`, `glock`, `check`, `write`, `notify` |
| `PublishGroupKeyBoxes` | `fetch` (client), `rlock`, `glock`, `check`, `write` |
| `SendMessage` to a group | `rlock`, `glock`, `check`, unlock the group, `deliver` |
| `SendMessage` to a friend | `rlock`, `check`, `deliver` |
| `PublishUserPublicKey` | `wlock`, `upsert`, `list`, `each` (one group lock at a time), announce (or `restore`) |

`StatementFails`, `RotateFails`, `RollbackFails`, `NotifyFails`, `UpsertFails`,
`RotateOneFails`, `AnnounceFails` and `RollbackIdentityFails` are the error paths;
`Crash` ends every handler and keeps the rows; `DeleteUser` is the one writer
that takes no lock. The client between a 428 and its upload is external: `GiveUp`, `PostBoxes`.

A box remembers the identity key it was wrapped for and the client that wrapped
it (`by` stands for the group key, which the server never sees).

### RTCCalls: voice and video calls

*State.* One field of `rtcCall` per variable (`status`, `initiator`, `invitees`,
`grouped`, `accepted`, `rejected`), `active` is `activeCallByID`; `stage`, `left`,
`reached` are where `Invite` and its timer stand; `online`, `mail`, `rung` and `lost`
are the chat service as far as calls see it: connections, queued invitations,
invitations delivered, disconnect callbacks outstanding.

*Steps.* Each method of `rtcService` is one critical section and one action.
`Invite` is four: availability check (`Invite`), insertion (`InsertCall`), one step
per push (`PushInvite`, `QueueInvite`), and the answer with its timer
(`InviteSent`) or `ReleaseCall`. Freeing slots is translated as written: every path that ends a
call deletes the slots of all its participants, whichever call they name.
A client can name a call once it learned the id (`Knows`).

### CallLifecycle: what a call promises

The abstract specification: a call is offered once to fixed people, joined, given
up or finished, and then never changes. `RTCCalls!Lifecycle` instantiates it
with `phase <- Phases`, `asked <- Asked`, `joined <- accepted`.

### ChatDelivery: connections, queues, drains

*State.* `table` is `chatService.connections`, `offline` and `system` the two memory
queues, `redis` the lists `chat:push:v2:<user>`, `recent` the messages that may be
recalled. `stage[i]`, `to`, `todo`, `at`, `left`, `failed`, `taken` are the locals
of the goroutine that delivers item `i`: the users still to be served, the one it
is at, the connections it read under the lock and has not written to. `handler[c]`,
`user`, `drains`, `batch`, `done` are those of the goroutine that
serves connection `c`: what it copied and has still to write, `deliveredIDs`. `wire`
and `seen` are observers: what the sockets took.

An *item* is a message or the event that recalls it. Read receipts and group
events are delivered as a recall is, by `PushSystemEvent`. Queues are sets: an item
joins a user's queue at most once, and no property is about their order.

| In the code | Steps |
|---|---|
| `SendMessage`, `RecallMessage` up to the delivery | one, after the checks of `GroupKeys`; `Forget` is the end of the recall window, or a recall consumed and then refused |
| `deliverToUser`, `PushSystemEvent` | `ListConnections` (under the lock), one `WriteLive` per connection, `DropFailed` (under the lock), `PushRedisMessage`, `EnqueueOffline`, next user |
| `RegisterConnection` | insertion with the copies of the queues (under the lock), one `WriteQueued` per item, `ClearOffline`, events, `ClearSystem`, `ListRedis`, `WriteQueued` and `RemoveRedisCopy` per message, `StartReading` |
| the end of the reading loop | `UnregisterConnection` |
| `KickUserConnections` | one; closing the sockets after it is `Break` |

`Break` is the peer going away, the network, or the server closing the socket: all
later writes fail. A write to a socket that is not broken succeeds. `Crash` loses memory
and every goroutine. `PushRedisFails`, `ListRedisFails`, `RemoveRedisFails` are the
ignored errors; a failing push may have stored the message (`EXPIRE` failed).
A member of `Conns` is a connection while anything refers to it and can stand for a new
one afterwards, as the code never uses an id twice.

### Mailbox: what the delivery promises

The abstract specification: for each user an item is on its way, kept in Redis, held in
memory, delivered, or lost. It knows no connections, no goroutines and no locks. Only what
was sent to a user reaches him, and it stays delivered; Redis gives a message up only by
delivering it; a message is held in memory alone only after a failure of Redis; what memory
holds is lost only by a restart, or after a kick (a drain under way may still deliver it).
The event that recalls a message is sent when the message is on its way to nobody.
`ChatDelivery!Mail` instantiates it with `box <- Boxes`, where `Where(i, u)` takes together
all that may still bring item `i` to user `u`: both queues, Redis, the batch a drain has
copied, and the goroutine that has the user before it.

### Sessions: login, refresh, change of password

*State.* `session` is the key `user:session:<uid>`, `refresh` the keys `user:refresh:<uid>:<sid>`
(0 is an absent key), `password` and `exists` the row, `tokens` the pairs handed out, `conn` and
`via` the chat sockets with the session that let them in, `req[p]` a request in flight.
Session and refresh ids are random in the code; here they are numbered as Redis stores them.
The WebSocket middleware checks the session before the upgrade and nothing checks it afterwards: `Authenticate` and
`RegisterConnection` are two steps.

| Handler | Steps |
|---|---|
| `Login` | check, `SetUserSession`, `SetRefreshTokenID`, `LoginReturns` (kick, then the tokens) |
| `RefreshToken` | `IsSessionValid`, `CompareRefresh` (`WATCH`, `GET`), `RotateRefreshTokenID` (`MULTI`/`EXEC`, void if the key was written since), `ExpireUserSession` with the answer |
| `UpdatePassword` | check, `StorePassword`, `DelUserSession`, `SweepRefreshKeys` (`SCAN`, `DEL`), `UpdatePasswordReturns` (kick) |
| `Delete` | one transaction; Redis and sockets are left alone |

`LoginFails`, `RefreshRefused`, `RefreshFails`, `StorePasswordFails` and `DelUserSessionFails` are failing commands
(executed by Redis or not), `SessionExpires` and `RefreshExpires` times to live, `Halt` a restart.
Four history variables hold what the code gives up, so that the properties say exactly when:
`escaped` (a session that a password change could not reach), `cutOff` (a session whose refresh key or pair was lost),
`missed` (a socket that no kick will reach), `redeemed`.

### Presence: sockets and the grace timer

`handler[c]` is where the handler of a foreground socket stands, `table` the connections,
`timer` every `time.Timer`, `entry` the one in `disconnectTimers`. The callback takes three
steps (look for a connection, end the calls, remove the entry) and only the last under the
mutex. `RTCCalls` leaves open when that callback runs (its `lost`), so every order
found here is one there.

### Friends

`friend` and `request` are the committed rows, `tx[p]` a request in flight with its pending
writes. A statement is a step: it sees what is committed (READ COMMITTED), keeps the rows it
wrote until `Commit` or `Rollback`, and waits for the rows of others (`FriendFree`, `RequestFree`).
`SendFriendRequest` is three statements that are no transaction; `HandleFriendRequest` reads the
request long before it saves it, and GORM's `Save` writes the whole row back, also over another
answer, and inserts it anew when it is gone (`CanSave`).

### Feed

Rows (`post`, `likes`, `comment`), counters, and `job[p]`, a request in flight. `LockPost` and `LockParent` are
`SELECT ... FOR UPDATE`; the stages in `Holding` own the row of the post. A comment is read three times before it is
removed: for the permission (`DeleteComment`), to find its post (`FindParent`), and again under the lock
(`DeleteCommentWithCount`); in between another request may remove it. `DeleteAccount` is the transaction
of `user_repo.go`, which counts nothing off; `sweptLikes` and `sweptComments` record by how much it makes a counter
too high.

### Application: the process

`phase` is where `main` stands in `Bootstrap`, `Run` and `Close`; `server` the goroutine in Fiber's listener, which is
external, as are the handlers (`Admit`, `Upgrade`, `Finish`). `requests` are the HTTP handlers, whose connections the server
counts; a handler that upgrades to a WebSocket (chat, online status) goes on in `upgraded` on a hijacked connection,
which fasthttp counts no longer. Both waits of the shutdown have a deadline, so `Drain` and
`AwaitServer` are always enabled; `drained` says that the first ended because no counted connection was left.
`Shutdown` may also return without waiting: no server runs yet, or its own close of the listener, which `Run` closed before
(`app.go:226`), fails with the error that `Run` expects (`app.go:250`). What Fiber does then is not in the repository, so
both are possible here.

### MCGroupKeys, MCRTCCalls, MCChatDelivery, MCBackend

The first three add only the symmetry sets. `MCBackend` puts `Sessions`, `Presence`, `Friends`, `Feed` and
`Application` in one run: they share no variable, and no handler of one reads what a handler of another writes
(visibility of a post, which depends on friendship, is left open in `Feed`; `Evict` in `Presence`
may take any sockets, as a login does; a request of `Application` is any handler, one that serves a WebSocket once it has upgraded). A product of them would show nothing but the product of their
state spaces, so a behaviour of `BackendSpec` is a behaviour of one, the others resting.

### GroupKeysProofs, RTCCallsProofs, ChatDeliveryProofs, SessionsProofs, PresenceProofs, FriendsProofs, FeedProofs, ApplicationProofs

Theorems about the modules they are named after (section 5).

## 3. Runs

| Run | Question | Result |
|---|---|---|
| `GroupKeys_safety` | Every request, two handlers in flight, no faults: do locks, uploads, boxes, members and identity keys stay consistent, and accepted messages readable? | holds |
| `GroupKeys_faults` | One failed statement, one restart and one deleted account at any point: is a lock ever leaked, a membership change taken back badly? | holds |
| `GroupKeys_live` | Does every handler return, and is every version announced? | holds |
| `GroupKeys_restart` | Do current boxes fit the current identity keys also after a restart? | violated |
| `GroupKeys_delete_member` | Does every change of members happen under the lock of the group, in a handler that rotates? | violated |
| `RTCCalls_safety` | Two overlapping calls among three users: do slots and answers stay consistent? | holds |
| `RTCCalls_live` | Does the service implement `CallLifecycle`, with its liveness? | holds |
| `RTCCalls_slot` | Is everyone who joined a live call busy? | violated |
| `ChatDelivery_safety` | With a Redis failure, a restart and a kick at any point: is anything lost, written twice to a connection, or left in Redis after delivery, and is every step one of `Mailbox`? | holds |
| `ChatDelivery_live` | Does everything kept for a user reach him if he keeps coming back? | holds |
| `Backend_run` | For sessions, presence, friends, feed and the process, each by itself, with failures: see the properties below | holds |
| `ChatDelivery_replay` | Is a message that reached a user gone from the memory queue? | violated |

Bounds of `GroupKeys`. Two users and one group are enough for an owner, a member
who comes and goes, and a sender; a third user or a second group adds no new pair
of conflicting steps, since a handler touches one group at a time and
`PublishUserPublicKey`, the exception, holds one group lock at a time. Two
processes give every pairwise interleaving (and a waiting writer between two
readers needs the client's own step, not a third handler). `MaxKey = 2` lets a
key change and change back; `MaxVersion = 4` leaves a client two versions behind.
`HasRoom` admits a rotating request only while every process in flight has room,
so the bound never stops a handler half way. The locking theorem, proved for
every number of processes, users, groups and stripes, covers what the
run's bound leaves out. `GroupKeys_faults` allows the system to stop
(`CHECK_DEADLOCK FALSE`): with the last account deleted and the bounds used up
nothing is left to request. The liveness run keeps `create`, `rotate`, `group` and
`publish`: readers, a writer and both kinds of group locking.

Bounds of `RTCCalls`. Two calls overlap on shared users, three users make a group
call with an invitee who refuses and one who joins. `Flaky` users are those
whose connections fail: one in the safety run, all three in the liveness run
with a single call and in `RTCCalls_slot`.

Bounds of `ChatDelivery`. No step of one item reads what belongs to another, and none
of one user what belongs to another, so one recipient and one message with its recall
show every conflict between a delivery and a drain; what the two items share is the
connection and the faults. Two connections (and any number one after the other, as members
of `Conns` are reused) give a delivery that lists one of them while the
other drains, and two drains at once. The liveness run sends the message to a group,
the other two to a friend. Each fault happens once: `NothingLost` speaks of
failures of Redis without restarts or kicks, and the reverse, and its proof covers
any number of them.

Bounds of `Backend_run`. *Sessions*: two requests in flight, two sessions and three refresh ids (a login, its
refresh, and a second login that replaces it, or two refreshes of one pair), one change of password, one failure or expiry at any
point, one socket (sockets do not meet), restarts at will. *Presence*: two sockets, so that one arrives while the other
leaves; three timers, the least with which an old callback meets a newer timer and a third is started after it.
*Friends*: two users (no statement but those of an account deletion touches rows of a third) and two requests, which stand
for every pair of crossing transactions. *Feed*: one post (a transaction
locks one), two comments, two accounts of which one is deleted. *Application*: three resources of which
one was injected, two handlers, each of which may come and go, upgrade, or stay. `CHECK_DEADLOCK FALSE`: with ids, timers and comments used
up, an instance has no next step. The proofs cover any number of each.

What its properties say:

* `RefreshRedeemedOnce`, `CurrentSessionRefreshable`, `NeverRevived`: refreshes that meet each other, a login, a sweep or a failure
  redeem a token once, do not leave the owner of the valid session without a good pair, and do not bring back a session.
* `SocketsFollowSession`, `SessionFollowsPassword`: what a login or a change of password replaces is gone, or a
  handler is on its way to remove it; the exceptions are the histories `missed` and `escaped`.
* `GoneIsReported`, `ArmedTimersAreKnown`: nobody disappears from a call unnoticed, and one who is back can stop the
  timer, except the `orphans` of a late callback.
* `FriendsSymmetric`, `AcceptedAreFriends`; `LikesCounted`, `CommentsCounted`.
* `ServesOnlyWhenOpen`, `ReturnsWithAllClosed`, `SignalEndsProcess`; `NothingClosedUnderRequests`: after a drain
  that ended well no HTTP handler is in flight while `Close` works, also none that came in during the drain. It promises
  nothing to WebSocket handlers, nor after a drain that timed out or did not take place.

Symmetry is used in safety runs only. Users, processes, calls and connections are model values
that no definition tells apart; groups are numbers (they select a stripe) and are
not permuted.

## 4. Fairness

*GroupKeys.* Weak fairness of `Progress`: a goroutine that can take its next step
takes it; the database answers, socket writes return. Strong fairness of each
lock acquisition: `sync.Mutex` hands over to a waiter after 1 ms (starvation
mode), and `sync.RWMutex` lets the readers that waited pass when a writer unlocks. New readers wait for a
pending writer, as in `RWMutex`. No fairness for clients and requests: nobody has
to send or answer. *RTCCalls.* Weak fairness of `Proceed(c)`, for each call: `Invite`
continues, pushes return and the 45 s timer fires. Nothing makes a person
answer, cancel or hang up, and that is why a call that is *ongoing* need never end.
*ChatDelivery.* Weak fairness of `Deliver(i)` and of `Drain(c)`: goroutines run, writes to
sockets and Redis return. No fairness of connecting: `EverythingArrives` assumes
in its premise that the user again and again has a foreground connection that lasts until
`StartReading`, and promises nothing to one who does not. *Application.* Weak fairness of `Main`: the goroutine of
`main` is scheduled, its timers fire and a client can be closed; nothing is assumed of handlers, of Fiber or of whoever starts the
process. The other parts of `Backend_run` state no liveness and have no fairness.

## 5. What is proved

All proofs are for arbitrary constants (under `ConstantsAssumption`): any number
of users, groups, processes, stripes, calls, and faults.

* `GroupKeysProofs!TypeCorrect` – `TypeOK`, which is inductive. Its parts that
  are not mere typing: a task stands only where its operation can stand (`Fits`), and nobody
  has a box without an identity key.
* `GroupKeysProofs!OneUpload` – `OneUploadPerVersion`. Inductive with `TypeOK`: only
  `ReplaceVersionBoxes` adds boxes, all by one client, and only when there are none
  under the same version.
* `GroupKeysProofs!LocksHeld` – `LocksMatchHandlers`: with `TypeOK` it is
  inductive. It is stated as an equivalence between the position of every
  handler and the locks because neither half is inductive alone: `ReleaseAll` frees what a
  process holds, and that this is exactly what its position needs has to be known before
  the step. Lemmas treat the three kinds of steps once: those that stay
  where the same locks are needed, those that return, those that acquire.
* `GroupKeysProofs!MembersCovered` – `BoxesCoverMembers`, for as long as at most one statement fails and the server
  does not restart. It is not inductive, because what a handler writes rests on what it found out before. The
  invariant (`Covered`) has a part for the rows and one for every request in flight: a live group has its owner, the
  others are empty (`GroupFits`); a handler past its checks still finds what it checked, one waiting for the lock
  need not, and a change of members is taken back only after a failure (`TaskStands`); the boxes of the current version
  and every upload in flight that is not stale are for the `Audience` of the version (`BoxesCover`,
  `UploadCovers`): the members, or, while a handler is `Midway` between a change of members and its rotation, those
  whom its rollback would restore. So whichever way that handler goes on, the boxes fit. A second failure can hit
  the rollback itself, and then they need not.
* `GroupKeysProofs!BoxesMatch`, `AcceptedReadable` – from `MembersCovered`'s invariant and a second one, `Readable`,
  which holds for as long as nothing fails: every key that something is wrapped for, stored or in flight,
  `Opens`: it is the one its user has, or the one the user had before
  a change that will still rotate the group or take itself back. This makes boxes and
  identity changes provable together: `Upsert` makes every box of the user open by way of the change,
  `RotateOne` removes the boxes before the group is struck off, `RollbackIdentityChange` makes the old key
  the current one. `Covered` is needed where a member joins: nothing wrapped before is for him. TLC checked both
  invariants before the proofs.
* `GroupKeysProofs!MembersChangeUnderLock`, `KeysChangeAlone` – action properties for any failures, restarts and
  deletions. The members of a live group change in the one handler that works on the group, or by the deletion of an
  account: that deletion is the only step that breaks `MembershipChangesRotate`. An identity key
  changes in the handler its owner called, while nobody else changes one and no message is between acceptance and
  delivery.
* `RTCCallsProofs!TypeCorrect`, `NoStaleSlot`, `ConsistentAnswers` – from one inductive
  invariant, `IInv`: types, slots, answers, and `CallsFit`, which ties a call's record to the stage of
  its `Invite` (no answers before the insertion, caller not among the invitees).
  `CallsFit` is needed because `InsertCall` writes the slots and `accepted` in one step and the
  properties would not survive it on a record that already had answers.
* `RTCCallsProofs!ImplementsLifecycle` – `CallsLiveOnce`, the refinement of
  `CallLifecycle`: every step under `IInv` is a step of the abstract specification or leaves its
  variables alone.

* `ChatDeliveryProofs!TypeCorrect`, `NoLoss` – from `IInv`: types, `ItemsFit` and `ConnsFit`
  (a goroutine that writes or queues works for a user of its item who is still in `todo`; a connection in
  use has a user, one that is not is in no table), and `Kept`, which splits
  `NothingLost` into its two reasons: while nobody crashed or kicked, a handled item was
  seen or is in memory; while Redis did not fail, a handled message was seen or is in Redis.
  The disjunction alone is not inductive, since each fault removes one of the copies.
* `ChatDeliveryProofs!OnceEach` – `OncePerConnection`. Three goroutines may write an item to the same
  connection: the live delivery, the drain from memory, the drain from Redis.
  `WaitsInTurn` says that an item waits, or is being drained, only for a user whom its
  goroutine has finished with or is queueing it for; `WiresFit`, that an item written to a
  connection is either in its `done`, or was written live and is then in no queue of the user.
  So a connection that is drained is not in the list of a live delivery of the same item.
* `ChatDeliveryProofs!CopiesCleared` – `RedisCopyCleared`. An item was seen through a drain of what waited, or live
  (`SeenInTurn`); only foreground connections drain messages (`DrainsFit`); and of every message both seen and in Redis
  there is a registration that delivered it and has still to remove the copy (`Clearing`).
* `ChatDeliveryProofs!ImplementsMailbox` – `MailIsKept`, the refinement of `Mailbox`, from `IInv` and `MInv`:
  what was seen, waits or is being drained was sent to that user (`SentTo`); while the goroutine of an item has
  a user before it, memory has the item for him at most as a copy of what Redis keeps (`NotHeldYet`);
  a goroutine that returned and a drain that ended left nothing behind (`NothingLeft`). A step then moves one
  item for one user (`OneMoves`) or none (`NothingMoves`), except the start of a delivery, a kick and a
  restart, which have a lemma each.

* `SessionsProofs!SessionTypesHold`, `TokensRedeemOnce`, `ValidSessionRefreshable`,
  `StaleSocketsAreKicked`, `PasswordEndsSessions` – from one inductive invariant, `IInv`.
  A refresh id is redeemed once because a redeemed id is stored nowhere and an `EXEC` that was not
  overtaken finds what was compared (`Chain`; it needs `Fresh`: no pair of a session is out before its
  login returns, or the login would write its refresh key over one that is being redeemed). The valid session can be
  refreshed because of every session the current pair is out, or a request is bringing it, or something was lost
  (`Refreshable`). For the password, every login with an older one precedes a removal (`Awaited`); for the
  sockets, `Followed` speaks also of those that were let in and have not registered, which
  `SocketsFollowSession` leaves out.
* `SessionsProofs!SessionsNeverRevived` – `NeverRevived`, an action property, directly from the actions: only
  `StoreSession` writes the key, with a new id.
* `PresenceProofs!DepartureIsNoticed`, `ReturnFindsTheTimer` – for any number of sockets and timers.
  `GoneIsReported` speaks of the moment when every handler has ended; `Noticed`, which is inductive with
  `InTable`, says who goes on before: a handler, or a timer. `ArmedTimersAreKnown` is inductive with the types.
* `FriendsProofs!FriendTypesHold`, `FriendshipIsMutual`, `AcceptMakesFriends` – the invariant says what
  each transaction has written by its stage and that no two wrote the same row; that rows to be
  removed are still there, and their mirror goes with them, is gone already, or the pair is `torn`.
* `FeedProofs!FeedTypesHold`, `LikesAreCounted`, `CommentsAreCounted` – the invariant adds what a request
  knows of the rows it will change under the post's lock (`Fits`), that the likes are finitely many and that comments
  are attached to posts. What a request read before it had the lock is not in `Fits`: a comment it found may be gone
by then, which is why it is read again. The deletion of accounts only takes rows away, and `sweptLikes` and `sweptComments` count them.
* `ApplicationProofs!ApplicationTypesHold`, `ServedByOpenResources`, `HandlersKeepResources`,
  `CloseUndoesBootstrap` – for any resources in any order. The invariant follows `main`: the closers are those of what
  was opened (`Stacked`), closed from the top (`Unstacked`); the listener accepts while `Run` serves or its
  server is gone (`Listens`); after a drain that ended well nobody is in flight and nobody comes in (`Waited`).

Assumptions beside the sizes of the bounds: `Order` is a finite sequence and `Owned` names resources in it.

Only model-checked: the liveness properties
(`EveryRequestReturns`, `EveryVersionAnnounced`, `OffersAreResolved`, `EverythingArrives`,
`SignalEndsProcess`), which TLAPS does not handle.

## 6. Findings

* **Restart during an identity change** (`GroupKeys_restart`). The key is stored
  before the groups are rotated (`e2ee_service.go:134`). After a restart in
  between, the boxes of the current version are wrapped for a key its owner gave up, and
  publishing the same key again compares equal and rotates nothing, although
  `api/doc.md:549` promises the rotation.
* **Deleting an account** (`GroupKeys_delete_member`) removes memberships and boxes
  without lock, version or announcement; `api/doc.md:534` says that a change of
  members makes a new version.
* **Busy slots** (`RTCCalls_slot`). `ensureUsersAvailable` unlocks before `Invite`
  inserts, and slots are freed whichever call they name: a user in a live call
  may count as free and be called again.
* **A message delivered twice** (`ChatDelivery_replay`). The recipient registers
  between the connection list of a delivery and its queueing: the drain finds nothing in memory
  (copied before), delivers the message from Redis and removes that copy; the memory copy is
  delivered again at the next connection, which `chat_service_test.go:272` calls an error.

Smaller observations made while translating, not stated as properties:

* An identity change whose k-th rotation fails restores the key and tells nobody
  of the versions it did make; members learn of them from a later 428 or 409.
* A removed member who publishes a new key while the removal waits for its failing rotation is not in the group when
  `GetGroupsByUserID` reads it (`e2ee_service.go:140`), and is put back afterwards (`group_service.go:322`): his box of
  the current version stays wrapped for the old key. Hence `BoxesMatchIdentityUnlessFault` allows no failure,
  unlike `BoxesCoverMembers`.
* `RotateGroupKeyIfCurrent` with an outdated version answers 200 with the current one,
  and announces nothing.
* Versions made by an identity change are announced after all groups are unlocked,
  so a client may hear of version 2 before version 1; hence
  `EveryVersionAnnounced` accepts a newer one.
* Delivery writes to sockets without a deadline while the identity read lock is
  held: a client that stops reading delays identity changes and, behind the waiting
  writer, all messages.
* In the same window a message or event may wait in a queue while its recipient is online,
  until he registers another connection: deliveries do not look at the queue.
* A recall can be delivered live while the message it recalls still waits in a queue.
* A recall is consumed before membership or friendship is checked; refused, it cannot be repeated.
* A socket that was authenticated but not registered when a login kicks stays (`missed`); a login that checked the
  old password and stores its session after the removal survives the change (`escaped`).
* The sweep of a password change (`redis.go:157`) deletes the refresh keys of sessions opened since, too. A deleted account's session,
  tokens and sockets stay good until they expire.
* A refresh whose `EXEC` or `EXPIRE` fails has redeemed the token without an answer: the client must log in again.
* A late grace callback removes the entry of a newer timer (`chat_handler.go:91`): the returning user cannot stop that timer, and his next
  departure has less than the full grace. One who returns between the check and the call's end loses the call.
* An unfriending that deletes nothing in one direction, an accept that commits, and the second statement of the
  unfriending leave a friendship in one direction (`friend_repo.go:153`; `api/doc.md:431` says both
  directions are removed). `FriendsSymmetric` holds outside exactly this order (`torn`).
* An answer read before a removal or an account deletion inserts the request again; of an accept and a reject the later writer wins.
* Account deletion leaves the counters of others' posts too high (`user_repo.go:65`).
* A post is not created in one transaction with its media (`feed_service.go:71`).
* E-mail addresses are checked and then inserted without a unique index: two concurrent registrations with one address both
  succeed (`user_service.go:81`).
* `Run` returns without `Close` when its context is already done (`app.go:192`).
* Every shutdown closes Redis and the database under the open WebSocket handlers: `ShutdownWithContext` does not wait
  for hijacked connections, and nothing closes them (`app.go:230`).
* `Run` closes the listener (`app.go:226`) before it calls `ShutdownWithContext`, although the comment on `Close` says that
  shutdown runs "while the listener is still active" (`app.go:268`). If closing it again makes Fiber return at once,
  `Run` takes the error for an expected one and closes the resources under HTTP handlers, too.
  `NothingClosedUnderRequests` therefore speaks of a drain that ended well (`drained`).
* `rtc_invite` may ring after its call was released, and a call accepted during the
  pushes is released when the remaining pushes fail and `successCount` stays 0.

## 7. Not modelled

Within the modelled parts: boxes of versions that are no longer current; the
rotation of boxes in a format the code no longer writes; `notifyFriendsKeyChanged` (a
push without state); read-only lists; the tokens of `IssueToken`; `RTCService.Close`,
which nothing calls; the reuse of a call id after a thousand invitations in one
second; growth of the call map; the order of queued messages, the expiry of Redis lists
after three days, and malformed entries in them. A restart is not an action of `RTCCalls`:
calls live in memory, and a restart returns to the initial state.

In the parts of `Backend_run`: registration, profile and avatar (single statements on one row that no other step
reads); remarks of friends and lists; contents, media, replies and visibility in the feed; the online-status
socket, which only reads; `Application.Shutdown`, which no command calls.

Other parts: configuration, logging, the database connection, CORS, object
storage, token signing, password hashing and response formatting have no state
that several actors share.

## 8. Plan

In this order.

1. **Presence with RTCCalls** – one run of both, with the callbacks in place of the nondeterministic `lost`.
2. **Feed** – replies, and the visibility check before an insertion, over `Friends`.
