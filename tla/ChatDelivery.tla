---------------------------- MODULE ChatDelivery ----------------------------
(***************************************************************************)
(* How chatService brings messages and system events to their recipients   *)
(* (chat_service.go).  A goroutine that delivers an item reads a user's    *)
(* connections under the mutex, unlocks, writes to each of them, and, when *)
(* none took it, keeps the item for later: a message in a Redis list and   *)
(* in memory, an event in memory only.  A goroutine that registers a       *)
(* connection copies the two memory queues under the mutex, unlocks, and   *)
(* drains them and then Redis, while other goroutines already write to the *)
(* new connection.  Nothing orders the two kinds of goroutines.            *)
(***************************************************************************)
EXTENDS Naturals

CONSTANTS
    Users,           \* recipients
    Conns,           \* connections alive or still referred to at one time;
                     \* a member is reused when nothing refers to it, as the
                     \* code's connection ids are never reused
    Messages,        \* message ids
    GroupMessages,   \* those sent to a group; the others go to one friend
    None,
    MaxFailures,     \* bound: Redis commands that fail
    MaxCrashes,      \* bound: server restarts
    MaxKicks         \* bound: logins that kick

ASSUME ConstantsAssumption ==
    /\ GroupMessages \subseteq Messages
    /\ None \notin Users
    /\ MaxFailures \in Nat /\ MaxCrashes \in Nat /\ MaxKicks \in Nat

\* What is delivered: a message, or the event that recalls it.  Every other
\* system event is delivered as a recall is.
Kinds == {"chat", "recall"}
Items == Kinds \X Messages
IsChat(i) == i[1] = "chat"

VARIABLES
    stage,     \* where the goroutine that delivers an item stands
    to,        \* the users an item is for
    todo,      \* those the loop over them has not finished with
    at,        \* the one it is working on
    left,      \* connections read under the lock and not written to yet
    failed,    \* those whose write failed
    taken,     \* successCount > 0
    handler,   \* where the goroutine of a connection stands
    user,      \* whose connection it is
    drains,    \* options.DrainOfflineMessages: a foreground connection
    broken,    \* connections whose writes fail from now on
    batch,     \* items the drain under way has still to write
    done,      \* deliveredIDs and deliveredSystem of the registration
    wire,      \* how often each item was written to a connection
    table,     \* chatService.connections
    offline,   \* chatService.offline
    system,    \* chatService.systemOffline
    redis,     \* the lists chat:push:v2:<user>
    recent,    \* chatService.recentMessages
    seen,      \* items that some connection of a user took
    failures, crashes, kicks

delivering == <<stage, to, todo, at, left, failed, taken>>
serving == <<handler, user, drains, batch, done>>
sockets == <<broken, wire, seen>>
queues == <<offline, system, redis>>
faults == <<failures, crashes, kicks>>
vars == <<delivering, serving, sockets, table, queues, recent, faults>>

Stages == {"none", "next", "write", "redis", "queue", "done", "cut"}
Handlers == {"free", "memory", "events", "list", "redis", "open"}

ConnsOf(u) == {c \in table : user[c] = u}
Fail == failures < MaxFailures /\ failures' = failures + 1 /\ UNCHANGED <<crashes, kicks>>

\* A write that the socket takes.
Take(c, i) ==
    /\ wire' = [wire EXCEPT ![c][i] = @ + 1]
    /\ seen' = [seen EXCEPT ![user[c]] = @ \cup {i}]
    /\ UNCHANGED broken

----------------------------------------------------------------------------
(* Sending and recalling.                                                  *)

Begin(i, us) ==
    /\ stage[i] = "none"
    /\ stage' = [stage EXCEPT ![i] = "next"]
    /\ to' = [to EXCEPT ![i] = us]
    /\ todo' = [todo EXCEPT ![i] = us]
    /\ UNCHANGED <<at, left, failed, taken, serving, sockets, table, queues, faults>>

\* trackRecentMessage comes before the delivery.
SendMessage(m, us) ==
    /\ m \in GroupMessages \/ \E u \in Users : us = {u}
    /\ Begin(<<"chat", m>>, us)
    /\ recent' = recent \cup {m}

\* The sender learns the id when SendMessage returns.  A group's recall goes
\* to those who are members by then.
RecallMessage(m, us) ==
    /\ stage[<<"chat", m>>] = "done" /\ m \in recent
    /\ m \in GroupMessages \/ us = to[<<"chat", m>>]
    /\ Begin(<<"recall", m>>, us)
    /\ recent' = recent \ {m}

\* The minute is over; or the recall was consumed and then refused, as the
\* sender is no member or no friend any more.
Forget(m) ==
    /\ m \in recent
    /\ recent' = recent \ {m}
    /\ UNCHANGED <<delivering, serving, sockets, table, queues, faults>>

----------------------------------------------------------------------------
(* deliverToUser and PushSystemEvent.                                      *)

Keep(i) == IF IsChat(i) THEN "redis" ELSE "queue"

ListConnections(i, u) ==
    /\ stage[i] = "next" /\ u \in todo[i]
    /\ at' = [at EXCEPT ![i] = u]
    /\ left' = [left EXCEPT ![i] = ConnsOf(u)]
    /\ stage' = [stage EXCEPT ![i] = IF ConnsOf(u) = {} THEN Keep(i) ELSE "write"]
    /\ failed' = [failed EXCEPT ![i] = {}]
    /\ taken' = [taken EXCEPT ![i] = FALSE]
    /\ UNCHANGED <<to, todo, serving, sockets, table, queues, recent, faults>>

WriteLive(i, c) ==
    /\ stage[i] = "write" /\ c \in left[i]
    /\ left' = [left EXCEPT ![i] = left[i] \ {c}]
    /\ IF c \in broken
       THEN /\ failed' = [failed EXCEPT ![i] = failed[i] \cup {c}]
            /\ UNCHANGED <<taken, sockets>>
       ELSE /\ taken' = [taken EXCEPT ![i] = TRUE]
            /\ Take(c, i)
            /\ UNCHANGED failed
    /\ UNCHANGED <<stage, to, todo, at, serving, table, queues, recent, faults>>

\* The loop goes on to the next user, or ends; successCount is counted afresh.
Finish(i) ==
    /\ todo' = [todo EXCEPT ![i] = todo[i] \ {at[i]}]
    /\ at' = [at EXCEPT ![i] = None]
    /\ failed' = [failed EXCEPT ![i] = {}]
    /\ stage' = [stage EXCEPT ![i] = "next"]
    /\ taken' = [taken EXCEPT ![i] = FALSE]

\* Defect: queues a message only if no connection was listed.
DropFailedOnly(i) ==
    /\ stage[i] = "write" /\ left[i] = {}
    /\ table' = table \ failed[i]
    /\ Finish(i)
    /\ UNCHANGED <<to, left, serving, sockets, queues, recent, faults>>

\* Connections that failed are forgotten; an item nobody took is kept.
DropFailed(i) ==
    /\ stage[i] = "write" /\ left[i] = {}
    /\ table' = table \ failed[i]
    /\ IF taken[i]
       THEN Finish(i)
       ELSE /\ stage' = [stage EXCEPT ![i] = Keep(i)]
            /\ UNCHANGED <<todo, at, failed, taken>>
    /\ UNCHANGED <<to, left, serving, sockets, queues, recent, faults>>

PushRedisMessage(i) ==
    /\ stage[i] = "redis"
    /\ redis' = [redis EXCEPT ![at[i]] = @ \cup {i}]
    /\ stage' = [stage EXCEPT ![i] = "queue"]
    /\ UNCHANGED <<to, todo, at, left, failed, taken, serving, sockets, table,
                   offline, system, recent, faults>>

\* RPUSH fails, or it succeeds and EXPIRE fails.
PushRedisFails(i) ==
    /\ stage[i] = "redis" /\ Fail
    /\ redis' \in {redis, [redis EXCEPT ![at[i]] = @ \cup {i}]}
    /\ stage' = [stage EXCEPT ![i] = "queue"]
    /\ UNCHANGED <<to, todo, at, left, failed, taken, serving, sockets, table,
                   offline, system, recent>>

\* Defect: one queue for messages and events.
EnqueueMixed(i) ==
    /\ stage[i] = "queue"
    /\ offline' = [offline EXCEPT ![at[i]] = @ \cup {i}]
    /\ Finish(i)
    /\ UNCHANGED <<to, left, serving, sockets, table, system, redis, recent, faults>>

EnqueueOffline(i) ==
    /\ stage[i] = "queue"
    /\ IF IsChat(i)
       THEN offline' = [offline EXCEPT ![at[i]] = @ \cup {i}] /\ UNCHANGED system
       ELSE system' = [system EXCEPT ![at[i]] = @ \cup {i}] /\ UNCHANGED offline
    /\ Finish(i)
    /\ UNCHANGED <<to, left, serving, sockets, table, redis, recent, faults>>

\* The caller returns; the sender of a message is told "sent".
Return(i) ==
    /\ stage[i] = "next" /\ todo[i] = {}
    /\ stage' = [stage EXCEPT ![i] = "done"]
    /\ UNCHANGED <<to, todo, at, left, failed, taken, serving, sockets, table,
                   queues, recent, faults>>

----------------------------------------------------------------------------
(* RegisterConnection, from the locked section on, and the reading loop.   *)

Unused(c) ==
    /\ handler[c] = "free"
    /\ \A i \in Items : c \notin left[i] \cup failed[i]

RegisterConnection(c, u, fg) ==
    /\ Unused(c)
    /\ handler' = [handler EXCEPT ![c] = "memory"]
    /\ user' = [user EXCEPT ![c] = u]
    /\ drains' = [drains EXCEPT ![c] = fg]
    /\ table' = table \cup {c}
    /\ broken' = broken \ {c}
    /\ wire' = [wire EXCEPT ![c] = [i \in Items |-> 0]]
    /\ done' = [done EXCEPT ![c] = {}]
    /\ batch' = [batch EXCEPT ![c] = IF fg THEN offline[u] \cup system[u] ELSE system[u]]
    /\ UNCHANGED <<delivering, seen, queues, recent, faults>>

\* Defect: what was written to a broken connection counts as delivered.
WriteUnchecked(c, i) ==
    /\ i \in batch[c]
    /\ \/ handler[c] = "memory" /\ IsChat(i)
       \/ handler[c] = "events" /\ ~IsChat(i)
       \/ handler[c] = "redis" /\ i \notin done[c]
    /\ done' = [done EXCEPT ![c] = done[c] \cup {i}]
    /\ batch' = IF handler[c] = "redis" THEN batch ELSE [batch EXCEPT ![c] = batch[c] \ {i}]
    /\ IF c \in broken THEN UNCHANGED sockets ELSE Take(c, i)
    /\ UNCHANGED <<handler, user, drains, delivering, table, queues, recent, faults>>

\* One write of the drain: a failure is passed over.
WriteQueued(c, i) ==
    /\ i \in batch[c]
    /\ \/ handler[c] = "memory" /\ IsChat(i)
       \/ handler[c] = "events" /\ ~IsChat(i)
       \/ handler[c] = "redis" /\ i \notin done[c]
    /\ IF c \in broken
       THEN /\ batch' = [batch EXCEPT ![c] = batch[c] \ {i}]
            /\ UNCHANGED <<done, sockets>>
       ELSE /\ done' = [done EXCEPT ![c] = done[c] \cup {i}]
            /\ batch' = IF handler[c] = "redis" THEN batch
                        ELSE [batch EXCEPT ![c] = batch[c] \ {i}]
            /\ Take(c, i)
    /\ UNCHANGED <<handler, user, drains, delivering, table, queues, recent, faults>>

\* Defect: clears the queue instead of taking out what was delivered.
ClearWholeQueue(c) ==
    /\ handler[c] = "memory" /\ {i \in batch[c] : IsChat(i)} = {}
    /\ offline' = [offline EXCEPT ![user[c]] = {}]
    /\ handler' = [handler EXCEPT ![c] = "events"]
    /\ UNCHANGED <<user, drains, batch, done, delivering, sockets, table, system,
                   redis, recent, faults>>

\* What was delivered leaves the queue, whatever joined it meanwhile stays.
ClearOffline(c) ==
    /\ handler[c] = "memory" /\ {i \in batch[c] : IsChat(i)} = {}
    /\ offline' = [offline EXCEPT ![user[c]] = @ \ done[c]]
    /\ handler' = [handler EXCEPT ![c] = "events"]
    /\ UNCHANGED <<user, drains, batch, done, delivering, sockets, table, system,
                   redis, recent, faults>>

ClearSystem(c) ==
    /\ handler[c] = "events" /\ batch[c] = {}
    /\ system' = [system EXCEPT ![user[c]] = @ \ done[c]]
    /\ handler' = [handler EXCEPT ![c] = IF drains[c] THEN "list" ELSE "open"]
    /\ drains' = [drains EXCEPT ![c] = FALSE]
    /\ UNCHANGED <<user, batch, done, delivering, sockets, table, offline,
                   redis, recent, faults>>

\* Defect: the drain of Redis starts without the ids delivered from memory.
ListRedisAfresh(c) ==
    /\ handler[c] = "list"
    /\ batch' = [batch EXCEPT ![c] = redis[user[c]]]
    /\ done' = [done EXCEPT ![c] = {}]
    /\ handler' = [handler EXCEPT ![c] = "redis"]
    /\ UNCHANGED <<user, drains, delivering, sockets, table, queues, recent, faults>>

ListRedis(c) ==
    /\ handler[c] = "list"
    /\ batch' = [batch EXCEPT ![c] = redis[user[c]]]
    /\ handler' = [handler EXCEPT ![c] = "redis"]
    /\ UNCHANGED <<user, drains, done, delivering, sockets, table, queues, recent, faults>>

ListRedisFails(c) ==
    /\ handler[c] = "list" /\ Fail
    /\ handler' = [handler EXCEPT ![c] = "open"]
    /\ UNCHANGED <<user, drains, batch, done, delivering, sockets, table, queues, recent>>

\* Defect: passes over a message that memory delivered and leaves its copy.
SkipDelivered(c, i) ==
    /\ handler[c] = "redis" /\ i \in batch[c] \cap done[c]
    /\ batch' = [batch EXCEPT ![c] = batch[c] \ {i}]
    /\ UNCHANGED <<handler, user, drains, done, delivering, sockets, table, queues,
                   recent, faults>>

\* LREM of a message delivered just now or by the drain of memory.
RemoveRedisCopy(c, i) ==
    /\ handler[c] = "redis" /\ i \in batch[c] \cap done[c]
    /\ redis' = [redis EXCEPT ![user[c]] = @ \ {i}]
    /\ batch' = [batch EXCEPT ![c] = batch[c] \ {i}]
    /\ UNCHANGED <<handler, user, drains, done, delivering, sockets, table, offline,
                   system, recent, faults>>

RemoveRedisFails(c, i) ==
    /\ handler[c] = "redis" /\ i \in batch[c] \cap done[c] /\ Fail
    /\ batch' = [batch EXCEPT ![c] = batch[c] \ {i}]
    /\ UNCHANGED <<handler, user, drains, done, delivering, sockets, table, queues, recent>>

\* RegisterConnection returns and the handler starts to read.
StartReading(c) ==
    /\ handler[c] = "redis" /\ batch[c] = {}
    /\ handler' = [handler EXCEPT ![c] = "open"]
    /\ UNCHANGED <<user, drains, batch, done, delivering, sockets, table, queues,
                   recent, faults>>

\* The peer goes away, or the server closed the socket: writes fail from now on.
Break(c) ==
    /\ handler[c] # "free" /\ c \notin broken
    /\ broken' = broken \cup {c}
    /\ UNCHANGED <<serving, delivering, wire, seen, table, queues, recent, faults>>

\* Reading fails or times out.
UnregisterConnection(c) ==
    /\ handler[c] = "open"
    /\ handler' = [handler EXCEPT ![c] = "free"]
    /\ table' = table \ {c}
    /\ UNCHANGED <<user, drains, batch, done, delivering, sockets, queues, recent, faults>>

----------------------------------------------------------------------------
(* What happens to the service.                                            *)

\* A login elsewhere.  The sockets are closed once the mutex is free: Break.
KickUserConnections(u) ==
    /\ kicks < MaxKicks /\ kicks' = kicks + 1
    /\ table' = table \ ConnsOf(u)
    /\ offline' = [offline EXCEPT ![u] = {}]
    /\ system' = [system EXCEPT ![u] = {}]
    /\ UNCHANGED <<delivering, serving, sockets, redis, recent, failures, crashes>>

\* Memory is lost, Redis is not; a message being sent is never acknowledged.
Crash ==
    /\ crashes < MaxCrashes /\ crashes' = crashes + 1
    /\ stage' = [i \in Items |-> IF stage[i] \in {"none", "done"} THEN stage[i] ELSE "cut"]
    /\ left' = [i \in Items |-> {}] /\ failed' = [i \in Items |-> {}]
    /\ handler' = [c \in Conns |-> "free"]
    /\ batch' = [c \in Conns |-> {}] /\ done' = [c \in Conns |-> {}]
    /\ table' = {} /\ recent' = {}
    /\ offline' = [u \in Users |-> {}] /\ system' = [u \in Users |-> {}]
    /\ UNCHANGED <<to, todo, at, taken, user, drains, sockets, redis, failures, kicks>>

----------------------------------------------------------------------------
Init ==
    /\ stage = [i \in Items |-> "none"]
    /\ to = [i \in Items |-> {}] /\ todo = [i \in Items |-> {}]
    /\ at = [i \in Items |-> None]
    /\ left = [i \in Items |-> {}] /\ failed = [i \in Items |-> {}]
    /\ taken = [i \in Items |-> FALSE]
    /\ handler = [c \in Conns |-> "free"]
    /\ user = [c \in Conns |-> None]
    /\ drains = [c \in Conns |-> FALSE]
    /\ broken = {}
    /\ batch = [c \in Conns |-> {}] /\ done = [c \in Conns |-> {}]
    /\ wire = [c \in Conns |-> [i \in Items |-> 0]]
    /\ table = {}
    /\ offline = [u \in Users |-> {}] /\ system = [u \in Users |-> {}]
    /\ redis = [u \in Users |-> {}]
    /\ recent = {}
    /\ seen = [u \in Users |-> {}]
    /\ failures = 0 /\ crashes = 0 /\ kicks = 0

Sending == \E m \in Messages, us \in SUBSET Users :
    SendMessage(m, us) \/ RecallMessage(m, us)

Deliver(i) ==
    \/ \E u \in todo[i] : ListConnections(i, u)
    \/ \E c \in left[i] : WriteLive(i, c)
    \/ DropFailed(i) \/ PushRedisMessage(i) \/ EnqueueOffline(i) \/ Return(i)

Drain(c) ==
    \/ \E i \in batch[c] : WriteQueued(c, i) \/ RemoveRedisCopy(c, i)
    \/ ClearOffline(c) \/ ClearSystem(c) \/ ListRedis(c) \/ StartReading(c)

Connecting == \E c \in Conns :
    \/ \E u \in Users, fg \in BOOLEAN : RegisterConnection(c, u, fg)
    \/ Break(c)
    \/ UnregisterConnection(c)

Failing ==
    \/ \E i \in Items : PushRedisFails(i)
    \/ \E c \in Conns : ListRedisFails(c) \/ \E i \in batch[c] : RemoveRedisFails(c, i)

Next ==
    \/ Sending
    \/ \E m \in Messages : Forget(m)
    \/ \E i \in Items : Deliver(i)
    \/ \E c \in Conns : Drain(c)
    \/ Connecting \/ Failing
    \/ \E u \in Users : KickUserConnections(u)
    \/ Crash

Spec == Init /\ [][Next]_vars

\* Goroutines run, and writes to sockets and to Redis return.  Whether users
\* connect is up to them.
Fairness ==
    /\ \A i \in Items : WF_vars(Deliver(i))
    /\ \A c \in Conns : WF_vars(Drain(c))
FairSpec == Spec /\ Fairness

----------------------------------------------------------------------------
(* Properties.                                                             *)

\* Every variable keeps its shape; messages and events never mix in a queue.
TypeOK ==
    /\ stage \in [Items -> Stages]
    /\ to \in [Items -> SUBSET Users] /\ todo \in [Items -> SUBSET Users]
    /\ at \in [Items -> Users \cup {None}]
    /\ left \in [Items -> SUBSET Conns] /\ failed \in [Items -> SUBSET Conns]
    /\ taken \in [Items -> BOOLEAN]
    /\ handler \in [Conns -> Handlers]
    /\ user \in [Conns -> Users \cup {None}]
    /\ drains \in [Conns -> BOOLEAN]
    /\ broken \subseteq Conns /\ table \subseteq Conns
    /\ batch \in [Conns -> SUBSET Items] /\ done \in [Conns -> SUBSET Items]
    /\ wire \in [Conns -> [Items -> Nat]]
    /\ offline \in [Users -> SUBSET ({"chat"} \X Messages)]
    /\ redis \in [Users -> SUBSET ({"chat"} \X Messages)]
    /\ system \in [Users -> SUBSET ({"recall"} \X Messages)]
    /\ recent \subseteq Messages
    /\ seen \in [Users -> SUBSET Items]
    /\ failures \in Nat /\ crashes \in Nat /\ kicks \in Nat

\* The memory queues survive, or a copy outside memory exists.
Covered(i) == crashes + kicks = 0 \/ (IsChat(i) /\ failures = 0)

Handled(i, u) == u \in to[i] \ todo[i]

\* The two queues make up for each other: as long as Redis answers, neither a
\* restart nor a kick loses a message, and as long as there is neither, no
\* failure of Redis does.  Once a user has been dealt with, the item was taken
\* by one of his connections or waits in a queue, however deliveries, drains,
\* closing sockets and kicks interleave.
NothingLost ==
    \A i \in Items, u \in Users :
        Handled(i, u) /\ Covered(i) => i \in seen[u] \cup offline[u] \cup system[u] \cup redis[u]

\* No connection is handed the same message or event twice, although it may be
\* written to by its own drain, from memory and from Redis, and live.
OncePerConnection == \A c \in Conns, i \in Items : wire[c][i] <= 1

\* Nobody is working for the user.
Quiet(u) ==
    /\ \A i \in Items : stage[i] \in {"write", "redis", "queue"} => at[i] # u
    /\ \A c \in Conns : user[c] = u => handler[c] \in {"free", "open"}

\* A message that reached the user does not wait in Redis to be delivered once
\* more (TestChatServiceOfflineDeliveryClearsRedisCopy), unless Redis failed or
\* the server stopped in between.
RedisCopyCleared ==
    \A u \in Users : Quiet(u) /\ failures + crashes = 0 => redis[u] \cap seen[u] = {}

\* Memory has it: a queue, or the batch that a drain has read.
Held(i, u) ==
    \/ i \in offline[u] \cup system[u]
    \/ \E c \in Conns : user[c] = u /\ i \in batch[c]

OnItsWay(i, u) == u \in todo[i] /\ stage[i] # "cut"

\* Where item i stands for user u, all that may still bring it to him taken
\* together.
Where(i, u) ==
    IF i \in seen[u] THEN "delivered"
    ELSE IF i \in redis[u] THEN "kept"
    ELSE IF Held(i, u) THEN "held"
    ELSE IF OnItsWay(i, u) THEN "pending"
    ELSE IF u \in to[i] THEN "lost" ELSE "none"

Boxes == [i \in Items |-> [u \in Users |-> Where(i, u)]]

Mail == INSTANCE Mailbox WITH
    box <- Boxes, outage <- failures > 0, forgot <- crashes + kicks > 0

\* Two queues, three drains and the live writes, in any order, are one mailbox
\* to each user: what reaches him was sent to him, nothing he has got comes
\* back, Redis gives up a message only to him, memory alone holds one only
\* when Redis failed, and only a restart or a kick empties memory.  The event
\* that recalls a message is sent when the message is under way to nobody.
MailIsKept == Mail!Spec

\* A user who again and again opens a foreground connection that lasts until
\* its queues are drained gets everything that was kept for him.
WellConnected(u) == \E c \in Conns : user[c] = u /\ c \notin broken /\ StartReading(c)

EverythingArrives ==
    \A u \in Users : []<><<WellConnected(u)>>_vars =>
        \A i \in Items : (Handled(i, u) /\ Covered(i)) ~> (i \in seen[u] \/ ~Covered(i))

----------------------------------------------------------------------------
(* What a test says and the code does not do.                              *)

\* "offline message was replayed after reconnect" (chat_service_test.go:272)
\* is an error: without faults, a message that reached a user does not wait in
\* memory for the next connection either.
OfflineDeliveryIsFinal ==
    \A u \in Users : Quiet(u) /\ failures + crashes = 0 => offline[u] \cap seen[u] = {}
=============================================================================
