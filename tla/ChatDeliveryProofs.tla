------------------------- MODULE ChatDeliveryProofs -------------------------
(***************************************************************************)
(* Proofs about ChatDelivery, for any users, connections and messages and  *)
(* any number of failures, restarts and kicks: type correctness, no loss,  *)
(* no item written twice to one connection, no copy of a delivered message *)
(* left in Redis, and that the service implements Mailbox.                 *)
(***************************************************************************)
EXTENDS ChatDelivery, TLAPS

----------------------------------------------------------------------------
(* The inductive invariants.                                               *)

Working == {"write", "redis", "queue"}

\* Where the goroutine of an item stands, against its locals.
ItemFits(i) ==
    /\ stage[i] = "none" => to[i] = {}
    /\ todo[i] \subseteq to[i]
    /\ stage[i] \in Working => at[i] \in todo[i]
    /\ stage[i] = "redis" => IsChat(i)
    /\ left[i] # {} => stage[i] = "write"
    /\ \A c \in left[i] : user[c] = at[i]
    /\ stage[i] = "write" /\ taken[i] => i \in seen[at[i]]
    /\ stage[i] = "queue" /\ IsChat(i) /\ failures = 0 => i \in redis[at[i]] \cup seen[at[i]]

ItemsFit == \A i \in Items : ItemFits(i)

\* A connection being served belongs to a user; what its registration has
\* delivered, that user has seen.
ConnFits(c) ==
    /\ handler[c] # "free" => user[c] \in Users
    /\ c \in table => handler[c] # "free"
    /\ \A i \in done[c] : user[c] \in Users /\ i \in seen[user[c]]

ConnsFit == \A c \in Conns : ConnFits(c)

\* NothingLost, with the two reasons for it taken apart.
InMemory(i, u) == crashes + kicks = 0 => i \in seen[u] \cup offline[u] \cup system[u]
InRedis(i, u) == IsChat(i) /\ failures = 0 => i \in seen[u] \cup redis[u]
Kept == \A i \in Items, u \in Users : Handled(i, u) => InMemory(i, u) /\ InRedis(i, u)

IInv == TypeOK /\ ItemsFit /\ ConnsFit /\ Kept

\* An item may wait for a user once its goroutine found nobody to take it.
Waiting(u) == offline[u] \cup system[u] \cup redis[u]
MayWait(i, u) == stage[i] = "cut" \/ Handled(i, u) \/ (stage[i] = "queue" /\ at[i] = u)
TakenLive(i, u) == Handled(i, u) \/ (stage[i] = "write" /\ at[i] = u /\ taken[i])

WaitsInTurn ==
    /\ \A u \in Users : \A i \in Waiting(u) : MayWait(i, u)
    /\ \A c \in Conns : handler[c] # "free" =>
          \A i \in batch[c] \cup done[c] : MayWait(i, user[c])

WireFits(c, i) ==
    /\ wire[c][i] <= 1
    /\ c \in left[i] => wire[c][i] = 0
    /\ handler[c] \in {"memory", "events"} => batch[c] \cap done[c] = {}
    /\ handler[c] # "free" /\ wire[c][i] = 1 /\ i \notin done[c] =>
          /\ i \notin Waiting(user[c]) \cup batch[c]
          /\ TakenLive(i, user[c])

WiresFit == \A c \in Conns, i \in Items : WireFits(c, i)

\* The initial state satisfies every part.
LEMMA InitIInv == Init => IInv /\ WaitsInTurn /\ WiresFit
  BY ConstantsAssumption DEF Init, IInv, TypeOK, Stages, Handlers, ItemsFit, ItemFits, ConnsFit, ConnFits,
     Kept, Handled, Working, WaitsInTurn, Waiting, WiresFit, WireFits

----------------------------------------------------------------------------
(* Facts about items and writes.                                           *)

\* Items come in two kinds.
LEMMA ItemKinds ==
  /\ \A i \in Items : IF IsChat(i) THEN i \in {"chat"} \X Messages ELSE i \in {"recall"} \X Messages
  /\ \A m \in Messages : <<"chat", m>> \in Items /\ <<"recall", m>> \in Items /\ ~IsChat(<<"recall", m>>)
  BY DEF Items, Kinds, IsChat

\* What users have seen only grows, by the item that is written.
LEMMA TakeFacts ==
  ASSUME TypeOK, NEW c \in Conns, NEW i \in Items, user[c] \in Users, Take(c, i)
  PROVE  /\ wire' \in [Conns -> [Items -> Nat]]
         /\ seen' \in [Users -> SUBSET Items]
         /\ \A u \in Users : seen[u] \subseteq seen'[u]
         /\ i \in seen'[user[c]]
         /\ broken' = broken
         /\ wire'[c][i] = wire[c][i] + 1
         /\ \A d \in Conns, j \in Items : <<d, j>> # <<c, i>> => wire'[d][j] = wire[d][j]
<1>1. wire[c] \in [Items -> Nat]
  BY DEF TypeOK
<1>2. /\ wire' \in [Conns -> [Items -> Nat]]
      /\ wire'[c][i] = wire[c][i] + 1
      /\ \A d \in Conns, j \in Items : <<d, j>> # <<c, i>> => wire'[d][j] = wire[d][j]
  BY <1>1 DEF Take, TypeOK
<1>3. /\ seen' \in [Users -> SUBSET Items]
      /\ \A u \in Users : seen[u] \subseteq seen'[u]
      /\ i \in seen'[user[c]]
      /\ broken' = broken
  BY DEF Take, TypeOK
<1>4. QED
  BY <1>2, <1>3

\* Going on to the next user.
LEMMA FinishTyped ==
  ASSUME TypeOK, NEW i \in Items, Finish(i)
  PROVE  /\ stage' \in [Items -> Stages] /\ todo' \in [Items -> SUBSET Users]
         /\ at' \in [Items -> Users \cup {None}] /\ failed' \in [Items -> SUBSET Conns]
         /\ taken' \in [Items -> BOOLEAN]
<1>1. stage' \in [Items -> Stages]
  BY DEF Finish, TypeOK, Stages
<1>2. todo' \in [Items -> SUBSET Users]
  BY DEF Finish, TypeOK
<1>3. at' \in [Items -> Users \cup {None}]
  BY DEF Finish, TypeOK
<1>4. failed' \in [Items -> SUBSET Conns]
  BY DEF Finish, TypeOK
<1>5. taken' \in [Items -> BOOLEAN]
  BY DEF Finish, TypeOK
<1>6. QED
  BY <1>1, <1>2, <1>3, <1>4, <1>5

\* A delivery starts: nothing is known of the item yet, and nothing else moves.
BeginOK(b) ==
    /\ b \in Items /\ stage[b] = "none" /\ to[b] = {} /\ left[b] = {}
    /\ stage'[b] = "next" /\ to'[b] = todo'[b]
    /\ \A j \in Items : j # b => stage'[j] = stage[j] /\ to'[j] = to[j] /\ todo'[j] = todo[j]
    /\ UNCHANGED <<at, left, failed, taken, handler, user, batch, done, wire, seen, table,
                   offline, system, redis, failures, crashes, kicks>>

LEMMA BeginFacts ==
  ASSUME TypeOK, ItemsFit, NEW b \in Items, NEW us \in SUBSET Users, Begin(b, us)
  PROVE  BeginOK(b)
<1>1. stage[b] = "none" /\ to[b] = {} /\ left[b] = {}
  BY DEF Begin, ItemsFit, ItemFits
<1>2. /\ stage'[b] = "next" /\ to'[b] = todo'[b]
      /\ \A j \in Items : j # b => stage'[j] = stage[j] /\ to'[j] = to[j] /\ todo'[j] = todo[j]
  BY DEF Begin, TypeOK
<1>3. QED
  BY <1>1, <1>2 DEF Begin, BeginOK, serving, sockets, queues, faults

\* A live write concerns a connection of the user at hand.
LEMMA WriteLiveFacts ==
  ASSUME TypeOK, ItemsFit, NEW i \in Items, NEW c \in left[i], WriteLive(i, c)
  PROVE  /\ c \in Conns /\ user[c] = at[i] /\ at[i] \in Users /\ at[i] \in todo[i]
         /\ stage[i] = "write"
         /\ wire' \in [Conns -> [Items -> Nat]]
         /\ seen' \in [Users -> SUBSET Items]
         /\ \A u \in Users : seen[u] \subseteq seen'[u]
         /\ broken' = broken
         /\ left' = [left EXCEPT ![i] = left[i] \ {c}]
         /\ failed' \in [Items -> SUBSET Conns]
         /\ taken' \in [Items -> BOOLEAN]
         /\ \A j \in Items : j # i => taken'[j] = taken[j]
         /\ \/ /\ taken' = taken /\ wire' = wire
            \/ /\ taken'[i] /\ i \in seen'[at[i]]
               /\ wire'[c][i] = wire[c][i] + 1
               /\ \A d \in Conns, j \in Items : <<d, j>> # <<c, i>> => wire'[d][j] = wire[d][j]
<1>1. c \in Conns /\ user[c] = at[i] /\ at[i] \in todo[i] /\ at[i] \in Users /\ stage[i] = "write"
  BY DEF TypeOK, ItemsFit, ItemFits, Working, WriteLive
<1>2. left' = [left EXCEPT ![i] = left[i] \ {c}]
  BY DEF WriteLive
<1>3. CASE c \in broken
  BY <1>1, <1>2, <1>3 DEF WriteLive, TypeOK, sockets
<1>4. CASE c \notin broken
  <2>1. Take(c, i) /\ taken' = [taken EXCEPT ![i] = TRUE] /\ UNCHANGED failed
    BY <1>4 DEF WriteLive
  <2>2. taken' \in [Items -> BOOLEAN] /\ taken'[i] /\ \A j \in Items : j # i => taken'[j] = taken[j]
    BY <2>1 DEF TypeOK
  <2>3. QED
    BY <1>1, <1>2, <2>1, <2>2, TakeFacts DEF TypeOK
<1>5. QED
  BY <1>3, <1>4

\* A drain writes to a connection that is being served.
LEMMA WriteQueuedFacts ==
  ASSUME TypeOK, ConnsFit, NEW c \in Conns, NEW i \in batch[c], WriteQueued(c, i)
  PROVE  /\ i \in Items /\ user[c] \in Users /\ handler[c] # "free"
         /\ wire' \in [Conns -> [Items -> Nat]]
         /\ seen' \in [Users -> SUBSET Items]
         /\ \A u \in Users : seen[u] \subseteq seen'[u]
         /\ broken' = broken
         /\ batch' \in [Conns -> SUBSET Items] /\ done' \in [Conns -> SUBSET Items]
         /\ \A d \in Conns : batch'[d] \subseteq batch[d]
         /\ \/ /\ done' = done /\ wire' = wire /\ seen' = seen
            \/ /\ done' = [done EXCEPT ![c] = done[c] \cup {i}]
               /\ i \in seen'[user[c]]
               /\ handler[c] # "redis" => batch'[c] = batch[c] \ {i}
               /\ wire'[c][i] = wire[c][i] + 1
               /\ \A d \in Conns, j \in Items : <<d, j>> # <<c, i>> => wire'[d][j] = wire[d][j]
<1>1. i \in Items /\ user[c] \in Users /\ handler[c] # "free"
  BY DEF TypeOK, ConnsFit, ConnFits, WriteQueued
<1>2. CASE c \in broken
  <2>1. /\ batch' = [batch EXCEPT ![c] = batch[c] \ {i}]
        /\ UNCHANGED <<done, wire, seen, broken>>
    BY <1>2 DEF WriteQueued, sockets
  <2>2. batch' \in [Conns -> SUBSET Items] /\ \A d \in Conns : batch'[d] \subseteq batch[d]
    BY <2>1 DEF TypeOK
  <2>3. QED
    BY <1>1, <2>1, <2>2 DEF TypeOK
<1>3. CASE c \notin broken
  <2>1. /\ Take(c, i) /\ done' = [done EXCEPT ![c] = done[c] \cup {i}]
        /\ batch' = IF handler[c] = "redis" THEN batch ELSE [batch EXCEPT ![c] = batch[c] \ {i}]
    BY <1>3 DEF WriteQueued
  <2>2. /\ batch' \in [Conns -> SUBSET Items] /\ done' \in [Conns -> SUBSET Items]
        /\ \A d \in Conns : batch'[d] \subseteq batch[d]
        /\ handler[c] # "redis" => batch'[c] = batch[c] \ {i}
    BY <2>1, <1>1 DEF TypeOK
  <2>3. QED
    BY <1>1, <2>1, <2>2, TakeFacts
<1>4. QED
  BY <1>2, <1>3

----------------------------------------------------------------------------
(* Types.                                                                  *)

\* Every step keeps the types.
LEMMA NextTypeOK ==
  ASSUME TypeOK, ItemsFit, ConnsFit, [Next]_vars
  PROVE  TypeOK'
<1>1. ASSUME NEW m \in Messages, NEW us \in SUBSET Users, SendMessage(m, us) PROVE TypeOK'
  BY <1>1, ItemKinds DEF SendMessage, Begin, serving, sockets, queues, faults, TypeOK,
     Stages, Handlers
<1>2. ASSUME NEW m \in Messages, NEW us \in SUBSET Users, RecallMessage(m, us) PROVE TypeOK'
  BY <1>2, ItemKinds DEF RecallMessage, Begin, serving, sockets, queues, faults, TypeOK,
     Stages, Handlers
<1>3. ASSUME NEW m \in Messages, Forget(m) PROVE TypeOK'
  BY <1>3 DEF Forget, delivering, serving, sockets, queues, faults, TypeOK, Stages, Handlers
<1>4. ASSUME NEW i \in Items, NEW u \in todo[i], ListConnections(i, u) PROVE TypeOK'
  BY <1>4 DEF ListConnections, ConnsOf, Keep, serving, sockets, queues, faults, TypeOK,
     Stages, Handlers, ItemsFit, ItemFits, Working, ConnsFit, ConnFits
<1>5. ASSUME NEW i \in Items, NEW c \in left[i], WriteLive(i, c) PROVE TypeOK'
  BY <1>5, WriteLiveFacts DEF WriteLive, serving, queues, faults, TypeOK
<1>6. ASSUME NEW i \in Items, DropFailed(i) PROVE TypeOK'
  <2>1. /\ stage' \in [Items -> Stages] /\ todo' \in [Items -> SUBSET Users]
        /\ at' \in [Items -> Users \cup {None}] /\ failed' \in [Items -> SUBSET Conns]
        /\ taken' \in [Items -> BOOLEAN]
    <3>1. CASE taken[i]
      BY <1>6, <3>1, FinishTyped DEF DropFailed
    <3>2. CASE ~taken[i]
      BY <1>6, <3>2 DEF DropFailed, Keep, TypeOK, Stages
    <3>3. QED
      BY <3>1, <3>2
  <2>2. QED
    BY <1>6, <2>1 DEF DropFailed, serving, sockets, queues, faults, TypeOK
<1>7. ASSUME NEW i \in Items, PushRedisMessage(i) PROVE TypeOK'
  BY <1>7, ItemKinds DEF PushRedisMessage, serving, sockets, faults, TypeOK, Stages,
     Handlers, ItemsFit, ItemFits, Working, ConnsFit, ConnFits
<1>8. ASSUME NEW i \in Items, EnqueueOffline(i) PROVE TypeOK'
  <2>1. stage[i] = "queue" /\ at[i] \in Users
    BY <1>8 DEF EnqueueOffline, TypeOK, ItemsFit, ItemFits, Working
  <2>2. /\ stage' \in [Items -> Stages] /\ todo' \in [Items -> SUBSET Users]
        /\ at' \in [Items -> Users \cup {None}] /\ failed' \in [Items -> SUBSET Conns]
        /\ taken' \in [Items -> BOOLEAN]
    BY <1>8, FinishTyped DEF EnqueueOffline
  <2>3. /\ offline' \in [Users -> SUBSET ({"chat"} \X Messages)]
        /\ system' \in [Users -> SUBSET ({"recall"} \X Messages)]
    <3>1. CASE IsChat(i)
      <4>1. i \in {"chat"} \X Messages
        BY <3>1, ItemKinds
      <4>2. QED
        <5>1. /\ offline' = [offline EXCEPT ![at[i]] = offline[at[i]] \cup {i}]
              /\ system' = system
          BY <1>8, <3>1 DEF EnqueueOffline
        <5>2. QED
          BY <2>1, <4>1, <5>1 DEF TypeOK
    <3>2. CASE ~IsChat(i)
      <4>1. i \in {"recall"} \X Messages
        BY <3>2, ItemKinds
      <4>2. QED
        <5>1. /\ system' = [system EXCEPT ![at[i]] = system[at[i]] \cup {i}]
              /\ offline' = offline
          BY <1>8, <3>2 DEF EnqueueOffline
        <5>2. QED
          BY <2>1, <4>1, <5>1 DEF TypeOK
    <3>3. QED
      BY <3>1, <3>2
  <2>4. QED
    BY <1>8, <2>2, <2>3 DEF EnqueueOffline, serving, sockets, faults, TypeOK
<1>9. ASSUME NEW i \in Items, Return(i) PROVE TypeOK'
  BY <1>9 DEF Return, serving, sockets, queues, faults, TypeOK, Stages, Handlers
<1>10. ASSUME NEW c \in Conns, NEW i \in batch[c], WriteQueued(c, i) PROVE TypeOK'
  BY <1>10, WriteQueuedFacts DEF WriteQueued, delivering, queues, faults, TypeOK
<1>11. ASSUME NEW c \in Conns, NEW i \in batch[c], RemoveRedisCopy(c, i) PROVE TypeOK'
  BY <1>11 DEF RemoveRedisCopy, delivering, sockets, faults, TypeOK, Stages, Handlers,
     ItemsFit, ItemFits, Working, ConnsFit, ConnFits
<1>12. ASSUME NEW c \in Conns, ClearOffline(c) PROVE TypeOK'
  BY <1>12 DEF ClearOffline, delivering, sockets, faults, TypeOK, Stages, Handlers,
     ItemsFit, ItemFits, Working, ConnsFit, ConnFits
<1>13. ASSUME NEW c \in Conns, ClearSystem(c) PROVE TypeOK'
  BY <1>13 DEF ClearSystem, delivering, sockets, faults, TypeOK, Stages, Handlers, ItemsFit,
     ItemFits, Working, ConnsFit, ConnFits
<1>14. ASSUME NEW c \in Conns, ListRedis(c) PROVE TypeOK'
  <2>1. user[c] \in Users
    BY <1>14 DEF ListRedis, ConnsFit, ConnFits
  <2>2. redis[user[c]] \subseteq Items
    BY <2>1, ItemKinds DEF TypeOK, Items, Kinds
  <2>3. batch' \in [Conns -> SUBSET Items]
    BY <1>14, <2>2 DEF ListRedis, TypeOK
  <2>4. QED
    BY <1>14, <2>3 DEF ListRedis, delivering, sockets, queues, faults, TypeOK, Handlers
<1>15. ASSUME NEW c \in Conns, StartReading(c) PROVE TypeOK'
  BY <1>15 DEF StartReading, delivering, sockets, queues, faults, TypeOK, Stages, Handlers
<1>16. ASSUME NEW c \in Conns, NEW u \in Users, NEW fg \in BOOLEAN, RegisterConnection(c, u, fg) PROVE TypeOK'
  <2>1. offline[u] \cup system[u] \subseteq Items /\ system[u] \subseteq Items
    BY DEF TypeOK, Items, Kinds
  <2>2. batch' \in [Conns -> SUBSET Items] /\ done' \in [Conns -> SUBSET Items]
    BY <1>16, <2>1 DEF RegisterConnection, TypeOK
  <2>3. wire' \in [Conns -> [Items -> Nat]]
    BY <1>16 DEF RegisterConnection, TypeOK
  <2>4. QED
    BY <1>16, <2>2, <2>3 DEF RegisterConnection, delivering, queues, faults, TypeOK, Handlers
<1>17. ASSUME NEW c \in Conns, Break(c) PROVE TypeOK'
  BY <1>17 DEF Break, delivering, serving, queues, faults, TypeOK, Stages, Handlers
<1>18. ASSUME NEW c \in Conns, UnregisterConnection(c) PROVE TypeOK'
  BY <1>18 DEF UnregisterConnection, delivering, sockets, queues, faults, TypeOK, Stages,
     Handlers
<1>19. ASSUME NEW i \in Items, PushRedisFails(i) PROVE TypeOK'
  <2>1. stage[i] = "redis" /\ at[i] \in Users /\ i \in {"chat"} \X Messages
    BY <1>19, ItemKinds DEF PushRedisFails, TypeOK, ItemsFit, ItemFits, Working
  <2>2. redis' = redis \/ redis' = [redis EXCEPT ![at[i]] = redis[at[i]] \cup {i}]
    BY <1>19 DEF PushRedisFails
  <2>3. redis' \in [Users -> SUBSET ({"chat"} \X Messages)]
    BY <2>1, <2>2 DEF TypeOK
  <2>4. QED
    BY <1>19, <2>3 DEF PushRedisFails, Fail, serving, sockets, TypeOK, Stages
<1>20. ASSUME NEW c \in Conns, ListRedisFails(c) PROVE TypeOK'
  BY <1>20 DEF ListRedisFails, Fail, delivering, sockets, queues, TypeOK, Stages, Handlers
<1>21. ASSUME NEW c \in Conns, NEW i \in batch[c], RemoveRedisFails(c, i) PROVE TypeOK'
  BY <1>21 DEF RemoveRedisFails, Fail, delivering, sockets, queues, TypeOK, Stages, Handlers
<1>22. ASSUME NEW u \in Users, KickUserConnections(u) PROVE TypeOK'
  BY <1>22 DEF KickUserConnections, ConnsOf, delivering, serving, sockets, TypeOK, Stages,
     Handlers
<1>23. ASSUME Crash PROVE TypeOK'
  BY <1>23 DEF Crash, sockets, TypeOK, Stages, Handlers
<1>24. CASE UNCHANGED vars
  BY <1>24 DEF vars, delivering, serving, sockets, queues, faults, TypeOK, Stages, Handlers
<1>25. QED
  BY <1>1, <1>2, <1>3, <1>4, <1>5, <1>6, <1>7, <1>8, <1>9, <1>10, <1>11, <1>12, <1>13,
     <1>14, <1>15, <1>16, <1>17, <1>18, <1>19, <1>20, <1>21, <1>22, <1>23, <1>24 DEF Next,
     Sending, Deliver, Drain, Connecting, Failing

----------------------------------------------------------------------------
(* Items, connections, and what is kept.                                   *)

\* Every step keeps items and their locals in line.
LEMMA NextItemsFit ==
  ASSUME TypeOK, ItemsFit, ConnsFit, [Next]_vars
  PROVE  ItemsFit'
<1>1. ASSUME NEW m \in Messages, NEW us \in SUBSET Users, SendMessage(m, us) PROVE ItemsFit'
  <2>1. BeginOK(<<"chat", m>>)
    BY <1>1, BeginFacts, ItemKinds DEF SendMessage
  <2>2. QED
    BY <2>1 DEF BeginOK, ItemsFit, ItemFits, Working
<1>2. ASSUME NEW m \in Messages, NEW us \in SUBSET Users, RecallMessage(m, us) PROVE ItemsFit'
  <2>1. BeginOK(<<"recall", m>>)
    BY <1>2, BeginFacts, ItemKinds DEF RecallMessage
  <2>2. QED
    BY <2>1 DEF BeginOK, ItemsFit, ItemFits, Working
<1>3. ASSUME NEW m \in Messages, Forget(m) PROVE ItemsFit'
  BY <1>3 DEF Forget, delivering, serving, sockets, queues, faults, ItemsFit, ItemFits,
     Working, TypeOK, Stages, Handlers
<1>4. ASSUME NEW i \in Items, NEW u \in todo[i], ListConnections(i, u) PROVE ItemsFit'
  BY <1>4 DEF ListConnections, ConnsOf, Keep, serving, sockets, queues, faults, ItemsFit,
     ItemFits, Working, TypeOK, Stages, Handlers
<1>5. ASSUME NEW i \in Items, NEW c \in left[i], WriteLive(i, c) PROVE ItemsFit'
  <2>1. /\ \A j \in Items : left'[j] \subseteq left[j] /\ (j # i => left'[j] = left[j])
        /\ UNCHANGED <<stage, to, todo, at, user, redis, failures>>
    BY <1>5, WriteLiveFacts DEF WriteLive, serving, queues, faults, TypeOK
  <2>2. \A j \in Items : stage[j] = "write" => at[j] \in Users
    BY DEF TypeOK, ItemsFit, ItemFits, Working
  <2>3. \A j \in Items : stage[j] = "queue" => at[j] \in Users
    BY DEF TypeOK, ItemsFit, ItemFits, Working
  <2>4. QED
    BY <1>5, <2>1, <2>2, <2>3, WriteLiveFacts DEF ItemsFit, ItemFits, Working
<1>6. ASSUME NEW i \in Items, DropFailed(i) PROVE ItemsFit'
  BY <1>6 DEF DropFailed, Finish, Keep, serving, sockets, queues, faults, ItemsFit,
     ItemFits, Working, TypeOK, Stages, Handlers
<1>7. ASSUME NEW i \in Items, PushRedisMessage(i) PROVE ItemsFit'
  BY <1>7 DEF PushRedisMessage, serving, sockets, faults, ItemsFit, ItemFits, Working,
     TypeOK, Stages, Handlers
<1>8. ASSUME NEW i \in Items, EnqueueOffline(i) PROVE ItemsFit'
  BY <1>8 DEF EnqueueOffline, Finish, serving, sockets, faults, ItemsFit, ItemFits, Working,
     TypeOK, Stages, Handlers
<1>9. ASSUME NEW i \in Items, Return(i) PROVE ItemsFit'
  BY <1>9 DEF Return, serving, sockets, queues, faults, ItemsFit, ItemFits, Working, TypeOK,
     Stages, Handlers
<1>10. ASSUME NEW c \in Conns, NEW i \in batch[c], WriteQueued(c, i) PROVE ItemsFit'
  <2>1. UNCHANGED <<stage, to, todo, at, left, taken, user, redis, failures>>
    BY <1>10 DEF WriteQueued, delivering, queues, faults
  <2>2. \A j \in Items : stage[j] \in Working => at[j] \in Users
    BY DEF TypeOK, ItemsFit, ItemFits
  <2>3. QED
    BY <1>10, <2>1, <2>2, WriteQueuedFacts DEF ItemsFit, ItemFits, Working
<1>11. ASSUME NEW c \in Conns, NEW i \in batch[c], RemoveRedisCopy(c, i) PROVE ItemsFit'
  <2>1. UNCHANGED <<stage, to, todo, at, left, taken, user, seen, failures>>
    BY <1>11 DEF RemoveRedisCopy, delivering, sockets, faults
  <2>2. user[c] \in Users /\ i \in seen[user[c]] /\ i \in Items
    BY <1>11 DEF RemoveRedisCopy, ConnsFit, ConnFits, TypeOK
  <2>3. \A u \in Users : redis[u] \cup seen[u] \subseteq redis'[u] \cup seen[u]
    BY <1>11, <2>2 DEF RemoveRedisCopy, TypeOK
  <2>4. \A j \in Items : stage[j] \in Working => at[j] \in Users
    BY DEF TypeOK, ItemsFit, ItemFits
  <2>5. QED
    BY <2>1, <2>3, <2>4 DEF ItemsFit, ItemFits, Working
<1>12. ASSUME NEW c \in Conns, ClearOffline(c) PROVE ItemsFit'
  BY <1>12 DEF ClearOffline, delivering, sockets, faults, ItemsFit, ItemFits, Working,
     TypeOK, Stages, Handlers
<1>13. ASSUME NEW c \in Conns, ClearSystem(c) PROVE ItemsFit'
  BY <1>13 DEF ClearSystem, delivering, sockets, faults, ItemsFit, ItemFits, Working,
     TypeOK, Stages, Handlers
<1>14. ASSUME NEW c \in Conns, ListRedis(c) PROVE ItemsFit'
  BY <1>14 DEF ListRedis, delivering, sockets, queues, faults, ItemsFit, ItemFits, Working,
     TypeOK, Stages, Handlers
<1>15. ASSUME NEW c \in Conns, StartReading(c) PROVE ItemsFit'
  BY <1>15 DEF StartReading, delivering, sockets, queues, faults, ItemsFit, ItemFits,
     Working, TypeOK, Stages, Handlers
<1>16. ASSUME NEW c \in Conns, NEW u \in Users, NEW fg \in BOOLEAN, RegisterConnection(c, u, fg) PROVE ItemsFit'
  BY <1>16 DEF RegisterConnection, Unused, delivering, queues, faults, ItemsFit, ItemFits,
     Working, TypeOK, Stages, Handlers
<1>17. ASSUME NEW c \in Conns, Break(c) PROVE ItemsFit'
  BY <1>17 DEF Break, delivering, serving, queues, faults, ItemsFit, ItemFits, Working,
     TypeOK, Stages, Handlers
<1>18. ASSUME NEW c \in Conns, UnregisterConnection(c) PROVE ItemsFit'
  BY <1>18 DEF UnregisterConnection, delivering, sockets, queues, faults, ItemsFit,
     ItemFits, Working, TypeOK, Stages, Handlers
<1>19. ASSUME NEW i \in Items, PushRedisFails(i) PROVE ItemsFit'
  BY <1>19 DEF PushRedisFails, Fail, serving, sockets, ItemsFit, ItemFits, Working, TypeOK,
     Stages, Handlers
<1>20. ASSUME NEW c \in Conns, ListRedisFails(c) PROVE ItemsFit'
  BY <1>20 DEF ListRedisFails, Fail, delivering, sockets, queues, ItemsFit, ItemFits,
     Working, TypeOK, Stages, Handlers
<1>21. ASSUME NEW c \in Conns, NEW i \in batch[c], RemoveRedisFails(c, i) PROVE ItemsFit'
  BY <1>21 DEF RemoveRedisFails, Fail, delivering, sockets, queues, ItemsFit, ItemFits,
     Working, TypeOK, Stages, Handlers
<1>22. ASSUME NEW u \in Users, KickUserConnections(u) PROVE ItemsFit'
  BY <1>22 DEF KickUserConnections, ConnsOf, delivering, serving, sockets, ItemsFit,
     ItemFits, Working, TypeOK, Stages, Handlers
<1>23. ASSUME Crash PROVE ItemsFit'
  BY <1>23 DEF Crash, sockets, ItemsFit, ItemFits, Working, TypeOK, Stages, Handlers
<1>24. CASE UNCHANGED vars
  BY <1>24 DEF vars, delivering, serving, sockets, queues, faults, ItemsFit, ItemFits,
     Working, TypeOK, Stages, Handlers
<1>25. QED
  BY <1>1, <1>2, <1>3, <1>4, <1>5, <1>6, <1>7, <1>8, <1>9, <1>10, <1>11, <1>12, <1>13,
     <1>14, <1>15, <1>16, <1>17, <1>18, <1>19, <1>20, <1>21, <1>22, <1>23, <1>24 DEF Next,
     Sending, Deliver, Drain, Connecting, Failing

\* Every step keeps connections in line.
LEMMA NextConnsFit ==
  ASSUME TypeOK, ItemsFit, ConnsFit, [Next]_vars
  PROVE  ConnsFit'
<1>1. ASSUME NEW m \in Messages, NEW us \in SUBSET Users, SendMessage(m, us) PROVE ConnsFit'
  BY <1>1 DEF SendMessage, Begin, serving, sockets, queues, faults, ConnsFit, ConnFits,
     TypeOK, Stages, Handlers
<1>2. ASSUME NEW m \in Messages, NEW us \in SUBSET Users, RecallMessage(m, us) PROVE ConnsFit'
  BY <1>2 DEF RecallMessage, Begin, serving, sockets, queues, faults, ConnsFit, ConnFits,
     TypeOK, Stages, Handlers
<1>3. ASSUME NEW m \in Messages, Forget(m) PROVE ConnsFit'
  BY <1>3 DEF Forget, delivering, serving, sockets, queues, faults, ConnsFit, ConnFits,
     TypeOK, Stages, Handlers
<1>4. ASSUME NEW i \in Items, NEW u \in todo[i], ListConnections(i, u) PROVE ConnsFit'
  BY <1>4 DEF ListConnections, ConnsOf, Keep, serving, sockets, queues, faults, ConnsFit,
     ConnFits, TypeOK, Stages, Handlers
<1>5. ASSUME NEW i \in Items, NEW c \in left[i], WriteLive(i, c) PROVE ConnsFit'
  BY <1>5, WriteLiveFacts DEF WriteLive, serving, ConnsFit, ConnFits
<1>6. ASSUME NEW i \in Items, DropFailed(i) PROVE ConnsFit'
  BY <1>6 DEF DropFailed, Finish, Keep, serving, sockets, queues, faults, ConnsFit,
     ConnFits, TypeOK, Stages, Handlers
<1>7. ASSUME NEW i \in Items, PushRedisMessage(i) PROVE ConnsFit'
  BY <1>7 DEF PushRedisMessage, serving, sockets, faults, ConnsFit, ConnFits, TypeOK,
     Stages, Handlers
<1>8. ASSUME NEW i \in Items, EnqueueOffline(i) PROVE ConnsFit'
  BY <1>8 DEF EnqueueOffline, Finish, serving, sockets, faults, ConnsFit, ConnFits, TypeOK,
     Stages, Handlers
<1>9. ASSUME NEW i \in Items, Return(i) PROVE ConnsFit'
  BY <1>9 DEF Return, serving, sockets, queues, faults, ConnsFit, ConnFits, TypeOK, Stages,
     Handlers
<1>10. ASSUME NEW c \in Conns, NEW i \in batch[c], WriteQueued(c, i) PROVE ConnsFit'
  <2>1. UNCHANGED <<handler, user, table>>
    BY <1>10 DEF WriteQueued
  <2>2. \A d \in Conns : \A j \in done'[d] : user[d] \in Users /\ j \in seen'[user[d]]
    <3>1. \A d \in Conns : \A j \in done[d] : user[d] \in Users /\ j \in seen'[user[d]]
      BY <1>10, WriteQueuedFacts DEF ConnsFit, ConnFits
    <3>2. \A d \in Conns : \A j \in done'[d] : j \in done[d] \/ (d = c /\ j = i /\ i \in seen'[user[c]])
      BY <1>10, WriteQueuedFacts DEF TypeOK
    <3>3. QED
      BY <1>10, <3>1, <3>2, WriteQueuedFacts
  <2>3. QED
    BY <2>1, <2>2 DEF ConnsFit, ConnFits
<1>11. ASSUME NEW c \in Conns, NEW i \in batch[c], RemoveRedisCopy(c, i) PROVE ConnsFit'
  BY <1>11 DEF RemoveRedisCopy, delivering, sockets, faults, ConnsFit, ConnFits, TypeOK,
     Stages, Handlers
<1>12. ASSUME NEW c \in Conns, ClearOffline(c) PROVE ConnsFit'
  BY <1>12 DEF ClearOffline, delivering, sockets, faults, ConnsFit, ConnFits, TypeOK,
     Stages, Handlers
<1>13. ASSUME NEW c \in Conns, ClearSystem(c) PROVE ConnsFit'
  BY <1>13 DEF ClearSystem, delivering, sockets, faults, ConnsFit, ConnFits, TypeOK, Stages,
     Handlers
<1>14. ASSUME NEW c \in Conns, ListRedis(c) PROVE ConnsFit'
  BY <1>14 DEF ListRedis, delivering, sockets, queues, faults, ConnsFit, ConnFits, TypeOK,
     Stages, Handlers
<1>15. ASSUME NEW c \in Conns, StartReading(c) PROVE ConnsFit'
  BY <1>15 DEF StartReading, delivering, sockets, queues, faults, ConnsFit, ConnFits,
     TypeOK, Stages, Handlers
<1>16. ASSUME NEW c \in Conns, NEW u \in Users, NEW fg \in BOOLEAN, RegisterConnection(c, u, fg) PROVE ConnsFit'
  BY <1>16 DEF RegisterConnection, Unused, delivering, queues, faults, ConnsFit, ConnFits,
     TypeOK, Stages, Handlers
<1>17. ASSUME NEW c \in Conns, Break(c) PROVE ConnsFit'
  BY <1>17 DEF Break, delivering, serving, queues, faults, ConnsFit, ConnFits, TypeOK,
     Stages, Handlers
<1>18. ASSUME NEW c \in Conns, UnregisterConnection(c) PROVE ConnsFit'
  BY <1>18 DEF UnregisterConnection, delivering, sockets, queues, faults, ConnsFit,
     ConnFits, TypeOK, Stages, Handlers
<1>19. ASSUME NEW i \in Items, PushRedisFails(i) PROVE ConnsFit'
  BY <1>19 DEF PushRedisFails, Fail, serving, sockets, ConnsFit, ConnFits, TypeOK, Stages,
     Handlers
<1>20. ASSUME NEW c \in Conns, ListRedisFails(c) PROVE ConnsFit'
  BY <1>20 DEF ListRedisFails, Fail, delivering, sockets, queues, ConnsFit, ConnFits,
     TypeOK, Stages, Handlers
<1>21. ASSUME NEW c \in Conns, NEW i \in batch[c], RemoveRedisFails(c, i) PROVE ConnsFit'
  BY <1>21 DEF RemoveRedisFails, Fail, delivering, sockets, queues, ConnsFit, ConnFits,
     TypeOK, Stages, Handlers
<1>22. ASSUME NEW u \in Users, KickUserConnections(u) PROVE ConnsFit'
  BY <1>22 DEF KickUserConnections, ConnsOf, delivering, serving, sockets, ConnsFit,
     ConnFits, TypeOK, Stages, Handlers
<1>23. ASSUME Crash PROVE ConnsFit'
  BY <1>23 DEF Crash, sockets, ConnsFit, ConnFits, TypeOK, Stages, Handlers
<1>24. CASE UNCHANGED vars
  BY <1>24 DEF vars, delivering, serving, sockets, queues, faults, ConnsFit, ConnFits,
     TypeOK, Stages, Handlers
<1>25. QED
  BY <1>1, <1>2, <1>3, <1>4, <1>5, <1>6, <1>7, <1>8, <1>9, <1>10, <1>11, <1>12, <1>13,
     <1>14, <1>15, <1>16, <1>17, <1>18, <1>19, <1>20, <1>21, <1>22, <1>23, <1>24 DEF Next,
     Sending, Deliver, Drain, Connecting, Failing

\* No step loses an item.
LEMMA NextKept ==
  ASSUME IInv, [Next]_vars
  PROVE  Kept'
<1>1. ASSUME NEW m \in Messages, NEW us \in SUBSET Users, SendMessage(m, us) PROVE Kept'
  BY <1>1, ItemKinds DEF SendMessage, Begin, serving, sockets, queues, faults, IInv, Kept,
     Handled, InMemory, InRedis, TypeOK, Stages, Handlers, ItemsFit, ItemFits, Working,
     ConnsFit, ConnFits
<1>2. ASSUME NEW m \in Messages, NEW us \in SUBSET Users, RecallMessage(m, us) PROVE Kept'
  BY <1>2, ItemKinds DEF RecallMessage, Begin, serving, sockets, queues, faults, IInv, Kept,
     Handled, InMemory, InRedis, TypeOK, Stages, Handlers, ItemsFit, ItemFits, Working,
     ConnsFit, ConnFits
<1>3. ASSUME NEW m \in Messages, Forget(m) PROVE Kept'
  BY <1>3 DEF Forget, delivering, serving, sockets, queues, faults, IInv, Kept, Handled,
     InMemory, InRedis, TypeOK, Stages, Handlers
<1>4. ASSUME NEW i \in Items, NEW u \in todo[i], ListConnections(i, u) PROVE Kept'
  BY <1>4 DEF ListConnections, ConnsOf, Keep, serving, sockets, queues, faults, IInv, Kept,
     Handled, InMemory, InRedis, TypeOK, Stages, Handlers
<1>5. ASSUME NEW i \in Items, NEW c \in left[i], WriteLive(i, c) PROVE Kept'
  <2>1. /\ UNCHANGED <<to, todo, offline, system, redis, failures, crashes, kicks>>
        /\ \A u \in Users : seen[u] \subseteq seen'[u]
    BY <1>5, WriteLiveFacts DEF IInv, WriteLive, delivering, queues, faults
  <2>2. QED
    BY <2>1 DEF IInv, Kept, Handled, InMemory, InRedis
<1>6. ASSUME NEW i \in Items, DropFailed(i) PROVE Kept'
  <2>1. /\ UNCHANGED <<to, offline, system, redis, seen, failures, crashes, kicks>>
        /\ \A j \in Items : j # i => todo'[j] = todo[j]
    BY <1>6 DEF DropFailed, Finish, TypeOK, IInv, sockets, queues, faults
  <2>2. CASE taken[i]
    <3>1. i \in seen[at[i]] /\ todo'[i] = todo[i] \ {at[i]}
      BY <1>6, <2>2 DEF DropFailed, Finish, IInv, TypeOK, ItemsFit, ItemFits
    <3>2. QED
      BY <2>1, <3>1 DEF IInv, Kept, Handled, InMemory, InRedis
  <2>3. CASE ~taken[i]
    BY <1>6, <2>1, <2>3 DEF DropFailed, IInv, Kept, Handled, InMemory, InRedis
  <2>4. QED
    BY <2>2, <2>3
<1>7. ASSUME NEW i \in Items, PushRedisMessage(i) PROVE Kept'
  BY <1>7 DEF PushRedisMessage, serving, sockets, faults, IInv, Kept, Handled, InMemory,
     InRedis, TypeOK, Stages, Handlers
<1>8. ASSUME NEW i \in Items, EnqueueOffline(i) PROVE Kept'
  BY <1>8, ItemKinds DEF EnqueueOffline, Finish, serving, sockets, faults, IInv, Kept,
     Handled, InMemory, InRedis, TypeOK, Stages, Handlers, ItemsFit, ItemFits, Working,
     ConnsFit, ConnFits
<1>9. ASSUME NEW i \in Items, Return(i) PROVE Kept'
  BY <1>9 DEF Return, serving, sockets, queues, faults, IInv, Kept, Handled, InMemory,
     InRedis, TypeOK, Stages, Handlers
<1>10. ASSUME NEW c \in Conns, NEW i \in batch[c], WriteQueued(c, i) PROVE Kept'
  <2>1. /\ UNCHANGED <<to, todo, offline, system, redis, failures, crashes, kicks>>
        /\ \A u \in Users : seen[u] \subseteq seen'[u]
    BY <1>10, WriteQueuedFacts DEF IInv, WriteQueued, delivering, queues, faults
  <2>2. QED
    BY <2>1 DEF IInv, Kept, Handled, InMemory, InRedis
<1>11. ASSUME NEW c \in Conns, NEW i \in batch[c], RemoveRedisCopy(c, i) PROVE Kept'
  BY <1>11 DEF RemoveRedisCopy, delivering, sockets, faults, IInv, Kept, Handled, InMemory,
     InRedis, TypeOK, Stages, Handlers, ItemsFit, ItemFits, Working, ConnsFit, ConnFits
<1>12. ASSUME NEW c \in Conns, ClearOffline(c) PROVE Kept'
  BY <1>12 DEF ClearOffline, delivering, sockets, faults, IInv, Kept, Handled, InMemory,
     InRedis, TypeOK, Stages, Handlers, ItemsFit, ItemFits, Working, ConnsFit, ConnFits
<1>13. ASSUME NEW c \in Conns, ClearSystem(c) PROVE Kept'
  BY <1>13 DEF ClearSystem, delivering, sockets, faults, IInv, Kept, Handled, InMemory,
     InRedis, TypeOK, Stages, Handlers, ItemsFit, ItemFits, Working, ConnsFit, ConnFits
<1>14. ASSUME NEW c \in Conns, ListRedis(c) PROVE Kept'
  BY <1>14 DEF ListRedis, delivering, sockets, queues, faults, IInv, Kept, Handled,
     InMemory, InRedis, TypeOK, Stages, Handlers
<1>15. ASSUME NEW c \in Conns, StartReading(c) PROVE Kept'
  BY <1>15 DEF StartReading, delivering, sockets, queues, faults, IInv, Kept, Handled,
     InMemory, InRedis, TypeOK, Stages, Handlers
<1>16. ASSUME NEW c \in Conns, NEW u \in Users, NEW fg \in BOOLEAN, RegisterConnection(c, u, fg) PROVE Kept'
  BY <1>16 DEF RegisterConnection, Unused, delivering, queues, faults, IInv, Kept, Handled,
     InMemory, InRedis, TypeOK, Stages, Handlers
<1>17. ASSUME NEW c \in Conns, Break(c) PROVE Kept'
  BY <1>17 DEF Break, delivering, serving, queues, faults, IInv, Kept, Handled, InMemory,
     InRedis, TypeOK, Stages, Handlers
<1>18. ASSUME NEW c \in Conns, UnregisterConnection(c) PROVE Kept'
  BY <1>18 DEF UnregisterConnection, delivering, sockets, queues, faults, IInv, Kept,
     Handled, InMemory, InRedis, TypeOK, Stages, Handlers
<1>19. ASSUME NEW i \in Items, PushRedisFails(i) PROVE Kept'
  BY <1>19 DEF PushRedisFails, Fail, serving, sockets, IInv, Kept, Handled, InMemory,
     InRedis, TypeOK, Stages, Handlers
<1>20. ASSUME NEW c \in Conns, ListRedisFails(c) PROVE Kept'
  BY <1>20 DEF ListRedisFails, Fail, delivering, sockets, queues, IInv, Kept, Handled,
     InMemory, InRedis, TypeOK, Stages, Handlers
<1>21. ASSUME NEW c \in Conns, NEW i \in batch[c], RemoveRedisFails(c, i) PROVE Kept'
  BY <1>21 DEF RemoveRedisFails, Fail, delivering, sockets, queues, IInv, Kept, Handled,
     InMemory, InRedis, TypeOK, Stages, Handlers
<1>22. ASSUME NEW u \in Users, KickUserConnections(u) PROVE Kept'
  BY <1>22 DEF KickUserConnections, ConnsOf, delivering, serving, sockets, IInv, Kept,
     Handled, InMemory, InRedis, TypeOK, Stages, Handlers
<1>23. ASSUME Crash PROVE Kept'
  BY <1>23 DEF Crash, sockets, IInv, Kept, Handled, InMemory, InRedis, TypeOK, Stages,
     Handlers
<1>24. CASE UNCHANGED vars
  BY <1>24 DEF vars, delivering, serving, sockets, queues, faults, IInv, Kept, Handled,
     InMemory, InRedis, TypeOK, Stages, Handlers
<1>25. QED
  BY <1>1, <1>2, <1>3, <1>4, <1>5, <1>6, <1>7, <1>8, <1>9, <1>10, <1>11, <1>12, <1>13,
     <1>14, <1>15, <1>16, <1>17, <1>18, <1>19, <1>20, <1>21, <1>22, <1>23, <1>24 DEF Next,
     Sending, Deliver, Drain, Connecting, Failing

LEMMA Invariant == Spec => []IInv
<1>1. IInv /\ [Next]_vars => IInv'
  BY NextTypeOK, NextItemsFit, NextConnsFit, NextKept DEF IInv
<1>2. QED
  BY InitIInv, <1>1, PTL DEF Spec

\* Every reachable state is well formed.
THEOREM TypeCorrect == Spec => []TypeOK
<1>1. IInv => TypeOK
  BY DEF IInv
<1>2. QED
  BY Invariant, <1>1, PTL

\* No item is lost: neither by a restart or a kick while Redis answers, nor by
\* failures of Redis while there is neither.
THEOREM NoLoss == Spec => []NothingLost
<1>1. IInv => NothingLost
  BY DEF IInv, Kept, InMemory, InRedis, NothingLost, Covered
<1>2. QED
  BY Invariant, <1>1, PTL

----------------------------------------------------------------------------
(* No item twice on one connection.                                        *)

\* What waits is an item.
LEMMA WaitsAreItems ==
  ASSUME TypeOK
  PROVE  /\ \A u \in Users : Waiting(u) \subseteq Items
         /\ \A c \in Conns : batch[c] \cup done[c] \subseteq Items
  BY DEF TypeOK, Waiting, Items, Kinds

\* Items wait only for users their goroutine found nobody for.
LEMMA NextWaits ==
  ASSUME IInv, WaitsInTurn, [Next]_vars
  PROVE  WaitsInTurn'
<1>1. ASSUME NEW m \in Messages, NEW us \in SUBSET Users, SendMessage(m, us) PROVE WaitsInTurn'
  <2>1. BeginOK(<<"chat", m>>)
    BY <1>1, BeginFacts, ItemKinds DEF SendMessage, IInv
  <2>2. \A j \in Items, u \in Users : MayWait(j, u) => MayWait(j, u)'
    BY <2>1 DEF BeginOK, MayWait, Handled
  <2>3. QED
    BY <2>1, <2>2, WaitsAreItems DEF BeginOK, WaitsInTurn, Waiting, IInv, ConnsFit, ConnFits
<1>2. ASSUME NEW m \in Messages, NEW us \in SUBSET Users, RecallMessage(m, us) PROVE WaitsInTurn'
  <2>1. BeginOK(<<"recall", m>>)
    BY <1>2, BeginFacts, ItemKinds DEF RecallMessage, IInv
  <2>2. \A j \in Items, u \in Users : MayWait(j, u) => MayWait(j, u)'
    BY <2>1 DEF BeginOK, MayWait, Handled
  <2>3. QED
    BY <2>1, <2>2, WaitsAreItems DEF BeginOK, WaitsInTurn, Waiting, IInv, ConnsFit, ConnFits
<1>3. ASSUME NEW m \in Messages, Forget(m) PROVE WaitsInTurn'
  BY <1>3 DEF Forget, delivering, serving, sockets, queues, faults, WaitsInTurn, Waiting,
     MayWait, Handled, IInv, TypeOK, Stages, Handlers
<1>4. ASSUME NEW i \in Items, NEW u \in todo[i], ListConnections(i, u) PROVE WaitsInTurn'
  BY <1>4 DEF ListConnections, ConnsOf, Keep, serving, sockets, queues, faults, WaitsInTurn,
     Waiting, MayWait, Handled, IInv, TypeOK, Stages, Handlers
<1>5. ASSUME NEW i \in Items, NEW c \in left[i], WriteLive(i, c) PROVE WaitsInTurn'
  BY <1>5 DEF WriteLive, Take, serving, sockets, queues, faults, WaitsInTurn, Waiting,
     MayWait, Handled, IInv, TypeOK, Stages, Handlers
<1>6. ASSUME NEW i \in Items, DropFailed(i) PROVE WaitsInTurn'
  <2>1. \A j \in Items, u \in Users : MayWait(j, u) => MayWait(j, u)'
    BY <1>6 DEF DropFailed, Finish, MayWait, Handled, IInv, TypeOK
  <2>2. UNCHANGED <<handler, user, batch, done, offline, system, redis>>
    BY <1>6 DEF DropFailed, serving, queues
  <2>3. QED
    BY <2>1, <2>2, WaitsAreItems DEF WaitsInTurn, Waiting, IInv, ConnsFit, ConnFits
<1>7. ASSUME NEW i \in Items, PushRedisMessage(i) PROVE WaitsInTurn'
  BY <1>7 DEF PushRedisMessage, serving, sockets, faults, WaitsInTurn, Waiting, MayWait,
     Handled, IInv, TypeOK, Stages, Handlers, ItemsFit, ItemFits, Working
<1>8. ASSUME NEW i \in Items, EnqueueOffline(i) PROVE WaitsInTurn'
  BY <1>8 DEF EnqueueOffline, Finish, serving, sockets, faults, WaitsInTurn, Waiting,
     MayWait, Handled, IInv, TypeOK, Stages, Handlers, ItemsFit, ItemFits, Working
<1>9. ASSUME NEW i \in Items, Return(i) PROVE WaitsInTurn'
  BY <1>9 DEF Return, serving, sockets, queues, faults, WaitsInTurn, Waiting, MayWait,
     Handled, IInv, TypeOK, Stages, Handlers
<1>10. ASSUME NEW c \in Conns, NEW i \in batch[c], WriteQueued(c, i) PROVE WaitsInTurn'
  <2>1. \A d \in Conns : batch'[d] \cup done'[d] \subseteq batch[d] \cup done[d]
    <3>1. /\ \A d \in Conns : batch'[d] \subseteq batch[d]
          /\ done' = done \/ done' = [done EXCEPT ![c] = done[c] \cup {i}]
      BY <1>10, WriteQueuedFacts DEF IInv
    <3>2. \A d \in Conns : done'[d] = done[d] \/ (d = c /\ done'[d] = done[d] \cup {i})
      BY <3>1 DEF IInv, TypeOK
    <3>3. QED
      BY <3>1, <3>2
  <2>2. UNCHANGED <<handler, user, stage, to, todo, at, offline, system, redis>>
    BY <1>10 DEF WriteQueued, delivering, queues
  <2>3. QED
    BY <2>1, <2>2 DEF WaitsInTurn, Waiting, MayWait, Handled
<1>11. ASSUME NEW c \in Conns, NEW i \in batch[c], RemoveRedisCopy(c, i) PROVE WaitsInTurn'
  BY <1>11 DEF RemoveRedisCopy, delivering, sockets, faults, WaitsInTurn, Waiting, MayWait,
     Handled, IInv, TypeOK, Stages, Handlers
<1>12. ASSUME NEW c \in Conns, ClearOffline(c) PROVE WaitsInTurn'
  BY <1>12 DEF ClearOffline, delivering, sockets, faults, WaitsInTurn, Waiting, MayWait,
     Handled, IInv, TypeOK, Stages, Handlers
<1>13. ASSUME NEW c \in Conns, ClearSystem(c) PROVE WaitsInTurn'
  BY <1>13 DEF ClearSystem, delivering, sockets, faults, WaitsInTurn, Waiting, MayWait,
     Handled, IInv, TypeOK, Stages, Handlers
<1>14. ASSUME NEW c \in Conns, ListRedis(c) PROVE WaitsInTurn'
  <2>1. user[c] \in Users
    BY <1>14 DEF ListRedis, IInv, ConnsFit, ConnFits
  <2>2. batch' = [batch EXCEPT ![c] = redis[user[c]]]
    BY <1>14 DEF ListRedis
  <2>3. UNCHANGED <<user, done, stage, to, todo, at, offline, system, redis>>
    BY <1>14 DEF ListRedis, delivering, queues
  <2>4. \A d \in Conns : handler'[d] # "free" => handler[d] # "free"
    BY <1>14 DEF ListRedis, IInv, TypeOK
  <2>5. \A d \in Conns : batch'[d] \subseteq batch[d] \/ (d = c /\ batch'[d] \subseteq Waiting(user[c]))
    BY <2>2 DEF IInv, TypeOK, Waiting
  <2>6. QED
    BY <2>1, <2>3, <2>4, <2>5 DEF WaitsInTurn, Waiting, MayWait, Handled
<1>15. ASSUME NEW c \in Conns, StartReading(c) PROVE WaitsInTurn'
  BY <1>15 DEF StartReading, delivering, sockets, queues, faults, WaitsInTurn, Waiting,
     MayWait, Handled, IInv, TypeOK, Stages, Handlers
<1>16. ASSUME NEW c \in Conns, NEW u \in Users, NEW fg \in BOOLEAN, RegisterConnection(c, u, fg) PROVE WaitsInTurn'
  BY <1>16 DEF RegisterConnection, Unused, delivering, queues, faults, WaitsInTurn, Waiting,
     MayWait, Handled, IInv, TypeOK, Stages, Handlers
<1>17. ASSUME NEW c \in Conns, Break(c) PROVE WaitsInTurn'
  BY <1>17 DEF Break, delivering, serving, queues, faults, WaitsInTurn, Waiting, MayWait,
     Handled, IInv, TypeOK, Stages, Handlers
<1>18. ASSUME NEW c \in Conns, UnregisterConnection(c) PROVE WaitsInTurn'
  BY <1>18 DEF UnregisterConnection, delivering, sockets, queues, faults, WaitsInTurn,
     Waiting, MayWait, Handled, IInv, TypeOK, Stages, Handlers
<1>19. ASSUME NEW i \in Items, PushRedisFails(i) PROVE WaitsInTurn'
  BY <1>19 DEF PushRedisFails, Fail, serving, sockets, WaitsInTurn, Waiting, MayWait,
     Handled, IInv, TypeOK, Stages, Handlers, ItemsFit, ItemFits, Working
<1>20. ASSUME NEW c \in Conns, ListRedisFails(c) PROVE WaitsInTurn'
  BY <1>20 DEF ListRedisFails, Fail, delivering, sockets, queues, WaitsInTurn, Waiting,
     MayWait, Handled, IInv, TypeOK, Stages, Handlers
<1>21. ASSUME NEW c \in Conns, NEW i \in batch[c], RemoveRedisFails(c, i) PROVE WaitsInTurn'
  BY <1>21 DEF RemoveRedisFails, Fail, delivering, sockets, queues, WaitsInTurn, Waiting,
     MayWait, Handled, IInv, TypeOK, Stages, Handlers
<1>22. ASSUME NEW u \in Users, KickUserConnections(u) PROVE WaitsInTurn'
  BY <1>22 DEF KickUserConnections, ConnsOf, delivering, serving, sockets, WaitsInTurn,
     Waiting, MayWait, Handled, IInv, TypeOK, Stages, Handlers
<1>23. ASSUME Crash PROVE WaitsInTurn'
  <2>1. \A j \in Items, u \in Users : MayWait(j, u) => MayWait(j, u)'
    BY <1>23 DEF Crash, MayWait, Handled, IInv, TypeOK
  <2>2. \A u \in Users : Waiting(u)' \subseteq Waiting(u)
    BY <1>23 DEF Crash, Waiting, IInv, TypeOK
  <2>3. \A c \in Conns : handler'[c] = "free"
    BY <1>23 DEF Crash
  <2>4. QED
    BY <2>1, <2>2, <2>3, WaitsAreItems DEF WaitsInTurn, IInv
<1>24. CASE UNCHANGED vars
  BY <1>24 DEF vars, delivering, serving, sockets, queues, faults, WaitsInTurn, Waiting,
     MayWait, Handled, IInv, TypeOK, Stages, Handlers
<1>25. QED
  BY <1>1, <1>2, <1>3, <1>4, <1>5, <1>6, <1>7, <1>8, <1>9, <1>10, <1>11, <1>12, <1>13,
     <1>14, <1>15, <1>16, <1>17, <1>18, <1>19, <1>20, <1>21, <1>22, <1>23, <1>24 DEF Next,
     Sending, Deliver, Drain, Connecting, Failing

\* No step writes an item to a connection that has it.
LEMMA NextWires ==
  ASSUME IInv, WaitsInTurn, WiresFit, [Next]_vars
  PROVE  WiresFit'
<1>1. ASSUME NEW m \in Messages, NEW us \in SUBSET Users, SendMessage(m, us) PROVE WiresFit'
  <2> DEFINE b == <<"chat", m>>
  <2>1. BeginOK(b)
    BY <1>1, BeginFacts, ItemKinds DEF SendMessage, IInv
  <2>2. \A u \in Users : ~MayWait(b, u) /\ ~TakenLive(b, u)
    BY <2>1 DEF BeginOK, MayWait, TakenLive, Handled
  <2>3. \A c \in Conns : handler[c] # "free" => user[c] \in Users
    BY DEF IInv, ConnsFit, ConnFits
  <2>4. \A c \in Conns : handler[c] # "free" /\ wire[c][b] = 1 => b \in done[c]
    BY <2>1, <2>2, <2>3 DEF BeginOK, WiresFit, WireFits
  <2>5. \A j \in Items, u \in Users : j # b /\ TakenLive(j, u) => TakenLive(j, u)'
    BY <2>1 DEF BeginOK, TakenLive, Handled
  <2>6. QED
    BY <2>1, <2>3, <2>4, <2>5 DEF BeginOK, WiresFit, WireFits, Waiting
<1>2. ASSUME NEW m \in Messages, NEW us \in SUBSET Users, RecallMessage(m, us) PROVE WiresFit'
  <2> DEFINE b == <<"recall", m>>
  <2>1. BeginOK(b)
    BY <1>2, BeginFacts, ItemKinds DEF RecallMessage, IInv
  <2>2. \A u \in Users : ~MayWait(b, u) /\ ~TakenLive(b, u)
    BY <2>1 DEF BeginOK, MayWait, TakenLive, Handled
  <2>3. \A c \in Conns : handler[c] # "free" => user[c] \in Users
    BY DEF IInv, ConnsFit, ConnFits
  <2>4. \A c \in Conns : handler[c] # "free" /\ wire[c][b] = 1 => b \in done[c]
    BY <2>1, <2>2, <2>3 DEF BeginOK, WiresFit, WireFits
  <2>5. \A j \in Items, u \in Users : j # b /\ TakenLive(j, u) => TakenLive(j, u)'
    BY <2>1 DEF BeginOK, TakenLive, Handled
  <2>6. QED
    BY <2>1, <2>3, <2>4, <2>5 DEF BeginOK, WiresFit, WireFits, Waiting
<1>3. ASSUME NEW m \in Messages, Forget(m) PROVE WiresFit'
  BY <1>3 DEF Forget, delivering, serving, sockets, queues, faults, WiresFit, WireFits,
     TakenLive, WaitsInTurn, Waiting, MayWait, Handled, IInv, TypeOK, Stages, Handlers,
     ItemsFit, ItemFits, Working, ConnsFit, ConnFits
<1>4. ASSUME NEW i \in Items, NEW u \in todo[i], ListConnections(i, u) PROVE WiresFit'
  <2>1. i \in Items /\ u \in Users /\ stage[i] = "next" /\ ~Handled(i, u)
    BY <1>4 DEF ListConnections, Handled, IInv, TypeOK
  <2>2. ~MayWait(i, u) /\ ~TakenLive(i, u)
    BY <2>1 DEF MayWait, TakenLive
  <2>3. \A c \in ConnsOf(u) : c \in Conns /\ user[c] = u /\ handler[c] # "free"
    BY DEF ConnsOf, IInv, TypeOK, ConnsFit, ConnFits
  <2>4. \A c \in ConnsOf(u) : i \notin done[c]
    BY <2>2, <2>3 DEF WaitsInTurn
  <2>5. \A c \in ConnsOf(u) : wire[c][i] # 1 /\ wire[c][i] <= 1 /\ wire[c][i] \in Nat
    BY <2>1, <2>2, <2>3, <2>4 DEF WiresFit, WireFits, IInv, TypeOK
  <2>6. \A j \in Items, v \in Users : TakenLive(j, v) => TakenLive(j, v)'
    BY <1>4, <2>1 DEF ListConnections, TakenLive, Handled, IInv, TypeOK
  <2>7. /\ left' = [left EXCEPT ![i] = ConnsOf(u)]
        /\ UNCHANGED <<handler, user, batch, done, wire, offline, system, redis>>
    BY <1>4 DEF ListConnections, serving, sockets, queues
  <2>8. \A c \in Conns, j \in Items : c \in left'[j] => wire[c][j] = 0
    <3>1. ASSUME NEW c \in ConnsOf(u) PROVE wire[c][i] = 0
      <4>1. \A n \in Nat : n <= 1 /\ n # 1 => n = 0
        OBVIOUS
      <4>2. QED
        BY <2>5, <4>1
    <3>2. left'[i] = ConnsOf(u) /\ \A j \in Items : j # i => left'[j] = left[j]
      BY <2>1, <2>7 DEF IInv, TypeOK
    <3>3. QED
      BY <3>1, <3>2 DEF WiresFit, WireFits
  <2>9. \A c \in Conns : handler[c] # "free" => user[c] \in Users
    BY DEF IInv, ConnsFit, ConnFits
  <2>10. QED
    BY <2>6, <2>7, <2>8, <2>9 DEF WiresFit, WireFits, Waiting
<1>5. ASSUME NEW i \in Items, NEW c \in left[i], WriteLive(i, c) PROVE WiresFit'
  BY <1>5 DEF WriteLive, Take, serving, sockets, queues, faults, WiresFit, WireFits,
     TakenLive, WaitsInTurn, Waiting, MayWait, Handled, IInv, TypeOK, Stages, Handlers,
     ItemsFit, ItemFits, Working, ConnsFit, ConnFits
<1>6. ASSUME NEW i \in Items, DropFailed(i) PROVE WiresFit'
  <2>1. \A j \in Items, v \in Users : TakenLive(j, v) => TakenLive(j, v)'
    <3>1. at[i] \in to[i] /\ stage[i] = "write"
      BY <1>6 DEF DropFailed, IInv, ItemsFit, ItemFits, Working
    <3>2. CASE taken[i]
      <4>1. /\ todo'[i] = todo[i] \ {at[i]}
            /\ \A j \in Items : j # i => stage'[j] = stage[j] /\ at'[j] = at[j] /\ todo'[j] = todo[j]
            /\ \A j \in Items : j # i => taken'[j] = taken[j]
            /\ UNCHANGED to
        BY <1>6, <3>2 DEF DropFailed, Finish, IInv, TypeOK
      <4>2. \A v \in Users : TakenLive(i, v) => Handled(i, v)'
        BY <3>1, <4>1 DEF TakenLive, Handled
      <4>3. QED
        BY <4>1, <4>2 DEF TakenLive, Handled
    <3>3. CASE ~taken[i]
      BY <1>6, <3>1, <3>3 DEF DropFailed, TakenLive, Handled, IInv, TypeOK
    <3>4. QED
      BY <3>2, <3>3
  <2>2. UNCHANGED <<left, handler, user, batch, done, wire, offline, system, redis>>
    BY <1>6 DEF DropFailed, serving, sockets, queues
  <2>3. \A c \in Conns : handler[c] # "free" => user[c] \in Users
    BY DEF IInv, ConnsFit, ConnFits
  <2>4. QED
    BY <2>1, <2>2, <2>3 DEF WiresFit, WireFits, Waiting
<1>7. ASSUME NEW i \in Items, PushRedisMessage(i) PROVE WiresFit'
  BY <1>7 DEF PushRedisMessage, serving, sockets, faults, WiresFit, WireFits, TakenLive,
     WaitsInTurn, Waiting, MayWait, Handled, IInv, TypeOK, Stages, Handlers, ItemsFit,
     ItemFits, Working, ConnsFit, ConnFits
<1>8. ASSUME NEW i \in Items, EnqueueOffline(i) PROVE WiresFit'
  BY <1>8 DEF EnqueueOffline, Finish, serving, sockets, faults, WiresFit, WireFits,
     TakenLive, WaitsInTurn, Waiting, MayWait, Handled, IInv, TypeOK, Stages, Handlers,
     ItemsFit, ItemFits, Working, ConnsFit, ConnFits
<1>9. ASSUME NEW i \in Items, Return(i) PROVE WiresFit'
  BY <1>9 DEF Return, serving, sockets, queues, faults, WiresFit, WireFits, TakenLive,
     WaitsInTurn, Waiting, MayWait, Handled, IInv, TypeOK, Stages, Handlers, ItemsFit,
     ItemFits, Working, ConnsFit, ConnFits
<1>10. ASSUME NEW c \in Conns, NEW i \in batch[c], WriteQueued(c, i) PROVE WiresFit'
  <2>1. i \in Items /\ user[c] \in Users /\ handler[c] # "free"
    BY <1>10, WriteQueuedFacts DEF IInv
  <2>2. i \notin done[c]
    BY <1>10, <2>1 DEF WriteQueued, WiresFit, WireFits
  <2>3. wire[c][i] = 0
    <3>1. wire[c][i] <= 1 /\ wire[c][i] # 1
      BY <1>10, <2>1, <2>2 DEF WiresFit, WireFits
    <3>2. wire[c][i] \in Nat
      BY <2>1 DEF IInv, TypeOK
    <3>3. QED
      BY <3>1, <3>2
  <2>4. c \notin left[i]
    BY <2>1 DEF WaitsInTurn, MayWait, Handled, IInv, ItemsFit, ItemFits, Working
  <2>5. /\ UNCHANGED <<stage, to, todo, at, left, taken, handler, user, offline, system, redis>>
        /\ \A d \in Conns : batch'[d] \subseteq batch[d]
    BY <1>10, WriteQueuedFacts DEF IInv, WriteQueued, delivering, queues
  <2>6. CASE done' = done /\ wire' = wire
    BY <2>5, <2>6 DEF WiresFit, WireFits, TakenLive, Handled, Waiting
  <2>7. CASE /\ done' = [done EXCEPT ![c] = done[c] \cup {i}]
             /\ handler[c] # "redis" => batch'[c] = batch[c] \ {i}
             /\ wire'[c][i] = wire[c][i] + 1
             /\ \A d \in Conns, j \in Items : <<d, j>> # <<c, i>> => wire'[d][j] = wire[d][j]
    <3>1. /\ done'[c] = done[c] \cup {i}
          /\ \A d \in Conns : d # c => done'[d] = done[d]
      BY <2>7 DEF IInv, TypeOK
    <3>2. wire'[c][i] = 1
      BY <2>3, <2>7
    <3>3. \A d \in Conns : handler[d] \in {"memory", "events"} => batch'[d] \cap done'[d] = {}
      <4>1. \A d \in Conns : handler[d] \in {"memory", "events"} => batch[d] \cap done[d] = {}
        BY <2>1 DEF WiresFit, WireFits
      <4>2. QED
        BY <2>5, <2>7, <3>1, <4>1
    <3>4. WireFits(c, i)'
      BY <2>4, <2>5, <3>1, <3>2, <3>3 DEF WireFits
    <3>5. ASSUME NEW d \in Conns, NEW j \in Items, <<d, j>> # <<c, i>> PROVE WireFits(d, j)'
      <4>1. wire'[d][j] = wire[d][j] /\ WireFits(d, j) /\ (j \notin done'[d] => j \notin done[d])
        BY <2>7, <3>1, <3>5 DEF WiresFit
      <4>2. QED
        BY <2>5, <3>3, <4>1 DEF WireFits, TakenLive, Handled, Waiting
    <3>6. QED
      BY <3>4, <3>5 DEF WiresFit
  <2>8. QED
    BY <1>10, <2>6, <2>7, WriteQueuedFacts DEF IInv
<1>11. ASSUME NEW c \in Conns, NEW i \in batch[c], RemoveRedisCopy(c, i) PROVE WiresFit'
  BY <1>11 DEF RemoveRedisCopy, delivering, sockets, faults, WiresFit, WireFits, TakenLive,
     WaitsInTurn, Waiting, MayWait, Handled, IInv, TypeOK, Stages, Handlers, ItemsFit,
     ItemFits, Working, ConnsFit, ConnFits
<1>12. ASSUME NEW c \in Conns, ClearOffline(c) PROVE WiresFit'
  BY <1>12 DEF ClearOffline, delivering, sockets, faults, WiresFit, WireFits, TakenLive,
     WaitsInTurn, Waiting, MayWait, Handled, IInv, TypeOK, Stages, Handlers, ItemsFit,
     ItemFits, Working, ConnsFit, ConnFits
<1>13. ASSUME NEW c \in Conns, ClearSystem(c) PROVE WiresFit'
  BY <1>13 DEF ClearSystem, delivering, sockets, faults, WiresFit, WireFits, TakenLive,
     WaitsInTurn, Waiting, MayWait, Handled, IInv, TypeOK, Stages, Handlers, ItemsFit,
     ItemFits, Working, ConnsFit, ConnFits
<1>14. ASSUME NEW c \in Conns, ListRedis(c) PROVE WiresFit'
  BY <1>14 DEF ListRedis, delivering, sockets, queues, faults, WiresFit, WireFits,
     TakenLive, WaitsInTurn, Waiting, MayWait, Handled, IInv, TypeOK, Stages, Handlers,
     ItemsFit, ItemFits, Working, ConnsFit, ConnFits
<1>15. ASSUME NEW c \in Conns, StartReading(c) PROVE WiresFit'
  BY <1>15 DEF StartReading, delivering, sockets, queues, faults, WiresFit, WireFits,
     TakenLive, WaitsInTurn, Waiting, MayWait, Handled, IInv, TypeOK, Stages, Handlers,
     ItemsFit, ItemFits, Working, ConnsFit, ConnFits
<1>16. ASSUME NEW c \in Conns, NEW u \in Users, NEW fg \in BOOLEAN, RegisterConnection(c, u, fg) PROVE WiresFit'
  BY <1>16 DEF RegisterConnection, Unused, delivering, queues, faults, WiresFit, WireFits,
     TakenLive, WaitsInTurn, Waiting, MayWait, Handled, IInv, TypeOK, Stages, Handlers,
     ItemsFit, ItemFits, Working, ConnsFit, ConnFits
<1>17. ASSUME NEW c \in Conns, Break(c) PROVE WiresFit'
  BY <1>17 DEF Break, delivering, serving, queues, faults, WiresFit, WireFits, TakenLive,
     WaitsInTurn, Waiting, MayWait, Handled, IInv, TypeOK, Stages, Handlers, ItemsFit,
     ItemFits, Working, ConnsFit, ConnFits
<1>18. ASSUME NEW c \in Conns, UnregisterConnection(c) PROVE WiresFit'
  BY <1>18 DEF UnregisterConnection, delivering, sockets, queues, faults, WiresFit,
     WireFits, TakenLive, WaitsInTurn, Waiting, MayWait, Handled, IInv, TypeOK, Stages,
     Handlers, ItemsFit, ItemFits, Working, ConnsFit, ConnFits
<1>19. ASSUME NEW i \in Items, PushRedisFails(i) PROVE WiresFit'
  BY <1>19 DEF PushRedisFails, Fail, serving, sockets, WiresFit, WireFits, TakenLive,
     WaitsInTurn, Waiting, MayWait, Handled, IInv, TypeOK, Stages, Handlers, ItemsFit,
     ItemFits, Working, ConnsFit, ConnFits
<1>20. ASSUME NEW c \in Conns, ListRedisFails(c) PROVE WiresFit'
  BY <1>20 DEF ListRedisFails, Fail, delivering, sockets, queues, WiresFit, WireFits,
     TakenLive, WaitsInTurn, Waiting, MayWait, Handled, IInv, TypeOK, Stages, Handlers,
     ItemsFit, ItemFits, Working, ConnsFit, ConnFits
<1>21. ASSUME NEW c \in Conns, NEW i \in batch[c], RemoveRedisFails(c, i) PROVE WiresFit'
  BY <1>21 DEF RemoveRedisFails, Fail, delivering, sockets, queues, WiresFit, WireFits,
     TakenLive, WaitsInTurn, Waiting, MayWait, Handled, IInv, TypeOK, Stages, Handlers,
     ItemsFit, ItemFits, Working, ConnsFit, ConnFits
<1>22. ASSUME NEW u \in Users, KickUserConnections(u) PROVE WiresFit'
  BY <1>22 DEF KickUserConnections, ConnsOf, delivering, serving, sockets, WiresFit,
     WireFits, TakenLive, WaitsInTurn, Waiting, MayWait, Handled, IInv, TypeOK, Stages,
     Handlers, ItemsFit, ItemFits, Working, ConnsFit, ConnFits
<1>23. ASSUME Crash PROVE WiresFit'
  BY <1>23 DEF Crash, sockets, WiresFit, WireFits, TakenLive, WaitsInTurn, Waiting, MayWait,
     Handled, IInv, TypeOK, Stages, Handlers, ItemsFit, ItemFits, Working, ConnsFit,
     ConnFits
<1>24. CASE UNCHANGED vars
  BY <1>24 DEF vars, delivering, serving, sockets, queues, faults, WiresFit, WireFits,
     TakenLive, WaitsInTurn, Waiting, MayWait, Handled, IInv, TypeOK, Stages, Handlers,
     ItemsFit, ItemFits, Working, ConnsFit, ConnFits
<1>25. QED
  BY <1>1, <1>2, <1>3, <1>4, <1>5, <1>6, <1>7, <1>8, <1>9, <1>10, <1>11, <1>12, <1>13,
     <1>14, <1>15, <1>16, <1>17, <1>18, <1>19, <1>20, <1>21, <1>22, <1>23, <1>24 DEF Next,
     Sending, Deliver, Drain, Connecting, Failing

\* However live writes and drains of memory and Redis overlap, no connection is
\* handed an item twice.
THEOREM OnceEach == Spec => []OncePerConnection
<1>1. IInv /\ WaitsInTurn /\ WiresFit /\ [Next]_vars => (IInv /\ WaitsInTurn /\ WiresFit)'
  BY NextTypeOK, NextItemsFit, NextConnsFit, NextKept, NextWaits, NextWires DEF IInv
<1>2. WiresFit => OncePerConnection
  BY DEF WiresFit, WireFits, OncePerConnection
<1>3. QED
  BY InitIInv, <1>1, <1>2, PTL DEF Spec
----------------------------------------------------------------------------
(* No message that reached the user stays in Redis.                        *)

\* An item was seen through a drain of what waited, or live.
SeenInTurn == \A u \in Users : \A i \in seen[u] : MayWait(i, u) \/ TakenLive(i, u)

\* Only a foreground connection drains messages from memory.
DrainsFit ==
    \A c \in Conns : handler[c] \in {"memory", "events"} =>
        \A i \in batch[c] \cup done[c] : IsChat(i) => drains[c]

\* The registration of c has delivered i to u and will remove the copy.
Clears(c, u, i) ==
    /\ user[c] = u /\ i \in done[c]
    /\ \/ handler[c] \in {"memory", "events"} /\ drains[c]
       \/ handler[c] = "list"
       \/ handler[c] = "redis" /\ i \in batch[c]

Clearing ==
    failures + crashes = 0 =>
        \A u \in Users : \A i \in redis[u] \cap seen[u] : \E c \in Conns : Clears(c, u, i)

LEMMA InitClears == Init => SeenInTurn /\ DrainsFit /\ Clearing
  BY DEF Init, SeenInTurn, DrainsFit, Clearing

\* Who has seen an item went before it in the same way.
LEMMA NextSeen ==
  ASSUME IInv, WaitsInTurn, SeenInTurn, [Next]_vars
  PROVE  SeenInTurn'
<1> DEFINE InTurn(i, u) == MayWait(i, u) \/ TakenLive(i, u)
<1>1. ASSUME seen' = seen, \A i \in Items, u \in Users : InTurn(i, u) => InTurn(i, u)'
      PROVE  SeenInTurn'
  <2>1. \A u \in Users : seen[u] \subseteq Items
    BY DEF IInv, TypeOK
  <2>2. QED
    BY <1>1, <2>1 DEF SeenInTurn
<1>2. ASSUME UNCHANGED <<delivering, seen>> PROVE SeenInTurn'
  BY <1>2 DEF delivering, SeenInTurn, MayWait, TakenLive, Handled
<1>3. ASSUME NEW b \in Items, BeginOK(b) PROVE SeenInTurn'
  <2>1. \A i \in Items, u \in Users : InTurn(i, u) => InTurn(i, u)'
    BY <1>3 DEF BeginOK, MayWait, TakenLive, Handled
  <2>2. QED
    BY <1>1, <1>3, <2>1 DEF BeginOK
<1>4. ASSUME NEW m \in Messages, NEW us \in SUBSET Users, SendMessage(m, us) PROVE SeenInTurn'
  BY <1>3, <1>4, BeginFacts, ItemKinds DEF SendMessage, IInv
<1>5. ASSUME NEW m \in Messages, NEW us \in SUBSET Users, RecallMessage(m, us) PROVE SeenInTurn'
  BY <1>3, <1>5, BeginFacts, ItemKinds DEF RecallMessage, IInv
<1>6. ASSUME NEW i \in Items, NEW u \in todo[i], ListConnections(i, u) PROVE SeenInTurn'
  <2>1. \A j \in Items, v \in Users : InTurn(j, v) => InTurn(j, v)'
    BY <1>6 DEF ListConnections, Keep, MayWait, TakenLive, Handled, IInv, TypeOK
  <2>2. QED
    BY <1>1, <1>6, <2>1 DEF ListConnections, sockets
<1>7. ASSUME NEW i \in Items, NEW c \in left[i], WriteLive(i, c) PROVE SeenInTurn'
  <2>1. /\ user[c] = at[i] /\ at[i] \in Users /\ stage[i] = "write"
        /\ UNCHANGED <<stage, to, todo, at>>
        /\ \A u \in Users : seen[u] \subseteq Items
    BY <1>7, WriteLiveFacts DEF WriteLive, IInv, TypeOK
  <2>2. CASE c \in broken
    <3>1. UNCHANGED <<taken, seen>>
      BY <1>7, <2>2 DEF WriteLive, sockets
    <3>2. QED
      BY <2>1, <3>1 DEF SeenInTurn, MayWait, TakenLive, Handled
  <2>3. CASE c \notin broken
    <3>1. /\ taken' = [taken EXCEPT ![i] = TRUE]
          /\ seen' = [seen EXCEPT ![at[i]] = @ \cup {i}]
      BY <1>7, <2>1, <2>3 DEF WriteLive, Take
    <3>2. taken'[i] /\ \A j \in Items : taken[j] => taken'[j]
      BY <3>1 DEF IInv, TypeOK
    <3>3. \A u \in Users : \A j \in seen'[u] : j \in seen[u] \/ (j = i /\ u = at[i])
      BY <3>1 DEF IInv, TypeOK
    <3>4. \A j \in Items, u \in Users : InTurn(j, u) => InTurn(j, u)'
      BY <2>1, <3>2 DEF MayWait, TakenLive, Handled
    <3>5. TakenLive(i, at[i])'
      BY <2>1, <3>2 DEF TakenLive
    <3>6. SUFFICES ASSUME NEW u \in Users, NEW j \in seen'[u] PROVE InTurn(j, u)'
      BY DEF SeenInTurn
    <3>7. CASE j \in seen[u]
      BY <2>1, <3>4, <3>7 DEF SeenInTurn
    <3>8. CASE j = i /\ u = at[i]
      BY <2>1, <3>2, <3>8 DEF TakenLive
    <3>9. QED
      BY <3>3, <3>7, <3>8
  <2>4. QED
    BY <2>2, <2>3
<1>8. ASSUME NEW i \in Items, DropFailed(i) PROVE SeenInTurn'
  <2>1. at[i] \in to[i]
    BY <1>8 DEF DropFailed, IInv, ItemsFit, ItemFits, Working
  <2>2. \A j \in Items, v \in Users : InTurn(j, v) => InTurn(j, v)'
    <3>1. CASE taken[i]
      BY <1>8, <2>1, <3>1 DEF DropFailed, Finish, MayWait, TakenLive, Handled, IInv, TypeOK
    <3>2. CASE ~taken[i]
      BY <1>8, <3>2 DEF DropFailed, Keep, MayWait, TakenLive, Handled, IInv, TypeOK
    <3>3. QED
      BY <3>1, <3>2
  <2>3. QED
    BY <1>1, <1>8, <2>2 DEF DropFailed, sockets
<1>9. ASSUME NEW i \in Items, PushRedisMessage(i) \/ PushRedisFails(i) PROVE SeenInTurn'
  <2>1. \A j \in Items, v \in Users : InTurn(j, v) => InTurn(j, v)'
    BY <1>9 DEF PushRedisMessage, PushRedisFails, MayWait, TakenLive, Handled, IInv, TypeOK
  <2>2. QED
    BY <1>1, <1>9, <2>1 DEF PushRedisMessage, PushRedisFails, sockets
<1>10. ASSUME NEW i \in Items, EnqueueOffline(i) PROVE SeenInTurn'
  <2>1. at[i] \in to[i]
    BY <1>10 DEF EnqueueOffline, IInv, ItemsFit, ItemFits, Working
  <2>2. \A j \in Items, v \in Users : InTurn(j, v) => InTurn(j, v)'
    BY <1>10, <2>1 DEF EnqueueOffline, Finish, MayWait, TakenLive, Handled, IInv, TypeOK
  <2>3. QED
    BY <1>1, <1>10, <2>2 DEF EnqueueOffline, sockets
<1>11. ASSUME NEW i \in Items, Return(i) PROVE SeenInTurn'
  <2>1. \A j \in Items, v \in Users : InTurn(j, v) => InTurn(j, v)'
    BY <1>11 DEF Return, MayWait, TakenLive, Handled, IInv, TypeOK
  <2>2. QED
    BY <1>1, <1>11, <2>1 DEF Return, sockets
\* A drain delivers what waited.
<1>12. ASSUME NEW c \in Conns, NEW i \in batch[c], WriteQueued(c, i) PROVE SeenInTurn'
  <2>1. user[c] \in Users /\ handler[c] # "free" /\ UNCHANGED <<stage, to, todo, at, taken>>
    BY <1>12, WriteQueuedFacts DEF WriteQueued, delivering, IInv
  <2>2. MayWait(i, user[c])
    BY <2>1 DEF WaitsInTurn
  <2>3. \A u \in Users : \A j \in seen'[u] : j \in seen[u] \/ (j = i /\ u = user[c])
    BY <1>12, <2>1 DEF WriteQueued, Take, sockets, IInv, TypeOK
  <2>4. QED
    BY <2>1, <2>2, <2>3 DEF SeenInTurn, MayWait, TakenLive, Handled
<1>13. ASSUME NEW c \in Conns, \/ ClearOffline(c) \/ ClearSystem(c) \/ ListRedis(c) \/ StartReading(c)
                               \/ Break(c) \/ UnregisterConnection(c) \/ ListRedisFails(c)
       PROVE  SeenInTurn'
  BY <1>2, <1>13 DEF ClearOffline, ClearSystem, ListRedis, StartReading, Break, UnregisterConnection,
     ListRedisFails, sockets
<1>14. ASSUME NEW c \in Conns, NEW i, RemoveRedisCopy(c, i) \/ RemoveRedisFails(c, i) PROVE SeenInTurn'
  BY <1>2, <1>14 DEF RemoveRedisCopy, RemoveRedisFails, sockets
<1>15. ASSUME NEW c \in Conns, NEW u, NEW fg, RegisterConnection(c, u, fg) PROVE SeenInTurn'
  BY <1>2, <1>15 DEF RegisterConnection
<1>16. ASSUME NEW u \in Users, KickUserConnections(u) PROVE SeenInTurn'
  BY <1>2, <1>16 DEF KickUserConnections, sockets
<1>17. ASSUME NEW m \in Messages, Forget(m) PROVE SeenInTurn'
  BY <1>2, <1>17 DEF Forget, sockets
<1>18. CASE Crash
  <2>1. \A j \in Items, v \in Users : InTurn(j, v) => InTurn(j, v)'
    BY <1>18 DEF Crash, MayWait, TakenLive, Handled, IInv, TypeOK
  <2>2. QED
    BY <1>1, <1>18, <2>1 DEF Crash, sockets
<1>19. CASE UNCHANGED vars
  BY <1>2, <1>19 DEF vars, sockets
<1>20. QED
  BY <1>4, <1>5, <1>6, <1>7, <1>8, <1>9, <1>10, <1>11, <1>12, <1>13, <1>14, <1>15, <1>16, <1>17, <1>18,
     <1>19 DEF Next, Sending, Deliver, Drain, Connecting, Failing

\* A background connection is given events only.
LEMMA NextDrains ==
  ASSUME IInv, DrainsFit, [Next]_vars
  PROVE  DrainsFit'
<1>1. ASSUME UNCHANGED <<handler, drains, batch, done>> PROVE DrainsFit'
  BY <1>1 DEF DrainsFit
<1>2. ASSUME NEW m \in Messages, NEW us, SendMessage(m, us) \/ RecallMessage(m, us) \/ Forget(m)
      PROVE  DrainsFit'
  BY <1>1, <1>2 DEF SendMessage, RecallMessage, Begin, Forget, serving
<1>3. ASSUME NEW i \in Items, Deliver(i) PROVE DrainsFit'
  BY <1>1, <1>3 DEF Deliver, ListConnections, WriteLive, DropFailed, PushRedisMessage,
     EnqueueOffline, Return, serving
<1>4. ASSUME NEW c \in Conns, NEW i \in batch[c], WriteQueued(c, i) PROVE DrainsFit'
  <2>1. UNCHANGED <<handler, drains>>
    BY <1>4 DEF WriteQueued
  <2>2. \A d \in Conns : batch'[d] \cup done'[d] \subseteq batch[d] \cup done[d]
    <3>1. /\ \A d \in Conns : batch'[d] \subseteq batch[d]
          /\ done' = done \/ done' = [done EXCEPT ![c] = done[c] \cup {i}]
      BY <1>4, WriteQueuedFacts DEF IInv
    <3>2. \A d \in Conns : done'[d] = done[d] \/ (d = c /\ done'[d] = done[d] \cup {i})
      BY <3>1 DEF IInv, TypeOK
    <3>3. QED
      BY <3>1, <3>2
  <2>3. QED
    BY <2>1, <2>2 DEF DrainsFit
<1>5. ASSUME NEW c \in Conns, NEW i \in batch[c], RemoveRedisCopy(c, i) \/ RemoveRedisFails(c, i)
      PROVE  DrainsFit'
  <2>1. UNCHANGED <<handler, drains, done>> /\ \A d \in Conns : batch'[d] \subseteq batch[d]
    BY <1>5 DEF RemoveRedisCopy, RemoveRedisFails, IInv, TypeOK
  <2>2. QED
    BY <2>1 DEF DrainsFit
<1>6. ASSUME NEW c \in Conns, ClearOffline(c) PROVE DrainsFit'
  BY <1>6 DEF ClearOffline, DrainsFit, IInv, TypeOK
<1>7. ASSUME NEW c \in Conns, \/ ClearSystem(c) \/ ListRedis(c) \/ StartReading(c)
                              \/ UnregisterConnection(c) \/ ListRedisFails(c)
      PROVE  DrainsFit'
  <2>1. /\ done' = done /\ handler'[c] \notin {"memory", "events"}
        /\ \A d \in Conns \ {c} : /\ handler'[d] = handler[d] /\ batch'[d] = batch[d]
                                  /\ drains'[d] = drains[d]
    BY <1>7 DEF ClearSystem, ListRedis, StartReading, UnregisterConnection, ListRedisFails, serving,
       IInv, TypeOK
  <2>2. QED
    BY <2>1 DEF DrainsFit
<1>8. ASSUME NEW c \in Conns, NEW u \in Users, NEW fg \in BOOLEAN, RegisterConnection(c, u, fg)
      PROVE  DrainsFit'
  <2>1. \A i \in system[u] : ~IsChat(i)
    BY DEF IInv, TypeOK, IsChat
  <2>2. /\ drains'[c] = fg /\ done'[c] = {}
        /\ batch'[c] = IF fg THEN offline[u] \cup system[u] ELSE system[u]
        /\ \A d \in Conns \ {c} : /\ handler'[d] = handler[d] /\ batch'[d] = batch[d]
                                  /\ drains'[d] = drains[d] /\ done'[d] = done[d]
    BY <1>8 DEF RegisterConnection, IInv, TypeOK
  <2>3. QED
    BY <2>1, <2>2 DEF DrainsFit
<1>9. ASSUME NEW c \in Conns, Break(c) PROVE DrainsFit'
  BY <1>1, <1>9 DEF Break, serving
<1>10. ASSUME NEW i \in Items, PushRedisFails(i) PROVE DrainsFit'
  BY <1>1, <1>10 DEF PushRedisFails, serving
<1>11. ASSUME NEW u \in Users, KickUserConnections(u) PROVE DrainsFit'
  BY <1>1, <1>11 DEF KickUserConnections, serving
<1>12. CASE Crash
  BY <1>12 DEF Crash, DrainsFit
<1>13. CASE UNCHANGED vars
  BY <1>1, <1>13 DEF vars, serving
<1>14. QED
  BY <1>2, <1>3, <1>4, <1>5, <1>6, <1>7, <1>8, <1>9, <1>10, <1>11, <1>12, <1>13
  DEF Next, Sending, Drain, Connecting, Failing

\* What was clear or had somebody who clears it has somebody still.
LEMMA StaysClear ==
  ASSUME IInv, Clearing, failures' + crashes' = 0 => failures + crashes = 0,
         \A u \in Users, i \in Items : i \in redis'[u] /\ i \in seen'[u] =>
            \/ i \in redis[u] /\ i \in seen[u]
            \/ \E c \in Conns : Clears(c, u, i)',
         \A c \in Conns, u \in Users, i \in Items :
            Clears(c, u, i) /\ i \in redis'[u] => Clears(c, u, i)',
         TypeOK'
  PROVE  Clearing'
<1>1. SUFFICES ASSUME failures' + crashes' = 0, NEW u \in Users, NEW i \in redis'[u] \cap seen'[u]
               PROVE  \E c \in Conns : Clears(c, u, i)'
  BY DEF Clearing
<1>2. i \in Items
  BY DEF TypeOK
<1>3. CASE i \in redis[u] /\ i \in seen[u]
  BY <1>1, <1>2, <1>3 DEF Clearing
<1>4. QED
  BY <1>2, <1>3

LEMMA NextClearing ==
  ASSUME IInv, TypeOK', WaitsInTurn, SeenInTurn, DrainsFit, Clearing, [Next]_vars
  PROVE  Clearing'
<1>1. ASSUME UNCHANGED <<serving, redis, seen, failures, crashes>> PROVE Clearing'
  BY <1>1 DEF serving, Clearing, Clears
<1>2. ASSUME NEW m \in Messages, NEW us, SendMessage(m, us) \/ RecallMessage(m, us) \/ Forget(m)
      PROVE  Clearing'
  BY <1>1, <1>2 DEF SendMessage, RecallMessage, Begin, Forget, sockets, queues, faults
<1>3. ASSUME NEW i \in Items, \/ \E u \in todo[i] : ListConnections(i, u)
                              \/ DropFailed(i) \/ EnqueueOffline(i) \/ Return(i)
      PROVE  Clearing'
  BY <1>1, <1>3 DEF ListConnections, DropFailed, EnqueueOffline, Return, sockets, queues, faults
\* What is written live was never in Redis.
<1>4. ASSUME NEW i \in Items, NEW c \in left[i], WriteLive(i, c) PROVE Clearing'
  <2>1. /\ user[c] = at[i] /\ at[i] \in Users /\ at[i] \in todo[i] /\ stage[i] = "write"
        /\ UNCHANGED <<serving, redis, failures, crashes>>
    BY <1>4, WriteLiveFacts DEF WriteLive, queues, faults, IInv
  <2>2. i \notin redis[at[i]]
    BY <2>1 DEF WaitsInTurn, Waiting, MayWait, Handled
  <2>3. \A u \in Users : \A j \in seen'[u] : j \in seen[u] \/ (j = i /\ u = at[i])
    <3>1. seen' = seen \/ seen' = [seen EXCEPT ![at[i]] = @ \cup {i}]
      BY <1>4, <2>1 DEF WriteLive, Take, sockets
    <3>2. QED
      BY <2>1, <3>1 DEF IInv, TypeOK
  <2>4. \A d \in Conns, u \in Users, j \in Items : Clears(d, u, j) => Clears(d, u, j)'
    BY <2>1 DEF serving, Clears
  <2>5. QED
    BY <2>1, <2>2, <2>3, <2>4, StaysClear
\* What nobody took has not been seen when it is stored in Redis.
<1>5. ASSUME NEW i \in Items, PushRedisMessage(i) PROVE Clearing'
  <2>1. /\ at[i] \in Users /\ at[i] \in todo[i] /\ stage[i] = "redis"
        /\ UNCHANGED <<serving, seen, failures, crashes>>
        /\ redis' = [redis EXCEPT ![at[i]] = @ \cup {i}]
    BY <1>5 DEF PushRedisMessage, sockets, faults, IInv, TypeOK, ItemsFit, ItemFits, Working
  <2>2. i \notin seen[at[i]]
    BY <2>1 DEF SeenInTurn, MayWait, TakenLive, Handled
  <2>3. \A u \in Users : \A j \in redis'[u] : j \in redis[u] \/ (j = i /\ u = at[i])
    BY <2>1 DEF IInv, TypeOK
  <2>4. \A d \in Conns, u \in Users, j \in Items : Clears(d, u, j) => Clears(d, u, j)'
    BY <2>1 DEF serving, Clears
  <2>5. QED
    BY <2>1, <2>2, <2>3, <2>4, StaysClear
<1>6. ASSUME failures' + crashes' # 0 PROVE Clearing'
  BY <1>6 DEF Clearing
<1>7. ASSUME Fail PROVE Clearing'
  BY <1>6, <1>7 DEF Fail, IInv, TypeOK
<1>8. ASSUME NEW c \in Conns, NEW i, \/ PushRedisFails(i) \/ ListRedisFails(c) \/ RemoveRedisFails(c, i)
      PROVE  Clearing'
  BY <1>7, <1>8 DEF PushRedisFails, ListRedisFails, RemoveRedisFails
<1>9. ASSUME NEW i, PushRedisFails(i) PROVE Clearing'
  BY <1>7, <1>9 DEF PushRedisFails
\* What a drain has written, its registration removes.
<1>10. ASSUME NEW c \in Conns, NEW i \in batch[c], WriteQueued(c, i) PROVE Clearing'
  <2>1. user[c] \in Users /\ i \in Items /\ UNCHANGED <<handler, user, drains, redis, failures, crashes>>
    BY <1>10, WriteQueuedFacts DEF WriteQueued, queues, faults, IInv
  <2>2. \A d \in Conns : done[d] \subseteq done'[d]
    <3>1. done' = done \/ done' = [done EXCEPT ![c] = done[c] \cup {i}]
      BY <1>10, WriteQueuedFacts DEF IInv
    <3>2. DOMAIN done = Conns
      BY DEF IInv, TypeOK
    <3>3. \A d \in Conns : done'[d] = done[d] \/ done'[d] = done[d] \cup {i}
      BY <3>1, <3>2
    <3>4. QED
      BY <3>3
  <2>3. \A d \in Conns, j \in Items : j \in batch[d] /\ j \notin batch'[d] =>
           d = c /\ j = i /\ (handler[c] = "redis" => i \notin done[c])
    BY <1>10 DEF WriteQueued, IInv, TypeOK
  <2>4. \A d \in Conns, u \in Users, j \in Items : Clears(d, u, j) => Clears(d, u, j)'
    BY <2>1, <2>2, <2>3 DEF Clears
  <2>5. \A u \in Users : \A j \in seen'[u] : j \in seen[u] \/ (j = i /\ u = user[c] /\ c \notin broken)
    BY <1>10, <2>1 DEF WriteQueued, Take, sockets, IInv, TypeOK
  <2>6. c \notin broken /\ i \in redis[user[c]] => Clears(c, user[c], i)'
    <3> SUFFICES ASSUME c \notin broken, i \in redis[user[c]] PROVE Clears(c, user[c], i)'
      OBVIOUS
    <3>1. IsChat(i)
      BY <2>1 DEF IInv, TypeOK, IsChat
    <3>2. i \in done'[c] /\ (handler[c] = "redis" => batch' = batch)
      BY <1>10 DEF WriteQueued, IInv, TypeOK
    <3>3. (handler[c] = "memory" /\ drains[c]) \/ handler[c] = "redis"
      BY <1>10, <3>1 DEF WriteQueued, DrainsFit
    <3>4. QED
      BY <2>1, <3>2, <3>3 DEF Clears
  <2>7. \A u \in Users, j \in Items : j \in redis'[u] /\ j \in seen'[u] =>
           (j \in redis[u] /\ j \in seen[u]) \/ Clears(c, u, j)'
    <3> SUFFICES ASSUME NEW u \in Users, NEW j \in Items, j \in redis[u], j \in seen'[u], j \notin seen[u]
                 PROVE  Clears(c, u, j)'
      BY <2>1
    <3>1. j = i /\ u = user[c] /\ c \notin broken
      BY <2>5
    <3>2. QED
      BY <2>1, <2>6, <3>1 DEF Clears
  <2>8. QED
    BY <2>1, <2>4, <2>7, StaysClear
<1>11. ASSUME NEW c \in Conns, NEW i \in batch[c], RemoveRedisCopy(c, i) PROVE Clearing'
  <2>1. /\ UNCHANGED <<handler, user, drains, done, seen, failures, crashes>>
        /\ handler[c] = "redis" /\ user[c] \in Users
        /\ redis' = [redis EXCEPT ![user[c]] = @ \ {i}]
        /\ batch' = [batch EXCEPT ![c] = batch[c] \ {i}]
    BY <1>11 DEF RemoveRedisCopy, sockets, faults, IInv, ConnsFit, ConnFits
  <2>2. /\ i \notin redis'[user[c]] /\ \A u \in Users : redis'[u] \subseteq redis[u]
        /\ \A d \in Conns : \A j \in batch[d] : j \in batch'[d] \/ (d = c /\ j = i)
    BY <2>1 DEF IInv, TypeOK
  <2>3. \A d \in Conns, u \in Users, j \in Items :
           Clears(d, u, j) /\ j \in redis'[u] => Clears(d, u, j)'
    BY <2>1, <2>2 DEF Clears
  <2>4. QED
    BY <2>1, <2>2, <2>3, StaysClear
<1>12. ASSUME NEW c \in Conns, NEW from \in Handlers, handler[c] = from,
              UNCHANGED <<user, done, redis, seen, failures, crashes>>,
              \A d \in Conns \ {c} : /\ handler'[d] = handler[d] /\ batch'[d] = batch[d]
                                     /\ drains'[d] = drains[d],
              \A u \in Users, i \in Items : Clears(c, u, i) /\ i \in redis[u] => Clears(c, u, i)'
       PROVE  Clearing'
  <2>1. \A d \in Conns, u \in Users, j \in Items :
           Clears(d, u, j) /\ j \in redis'[u] => Clears(d, u, j)'
    BY <1>12 DEF Clears
  <2>2. QED
    BY <1>12, <2>1, StaysClear
<1>13. ASSUME NEW c \in Conns, ClearOffline(c) PROVE Clearing'
  <2>1. handler'[c] = "events" /\ \A u, i : Clears(c, u, i) => Clears(c, u, i)'
    BY <1>13 DEF ClearOffline, Clears, IInv, TypeOK
  <2>2. QED
    BY <1>12, <1>13, <2>1 DEF ClearOffline, sockets, faults, IInv, TypeOK
<1>14. ASSUME NEW c \in Conns, ClearSystem(c) PROVE Clearing'
  <2>1. \A u, i : Clears(c, u, i) => Clears(c, u, i)'
    BY <1>14 DEF ClearSystem, Clears, IInv, TypeOK
  <2>2. QED
    BY <1>12, <1>14, <2>1 DEF ClearSystem, sockets, faults, IInv, TypeOK
<1>15. ASSUME NEW c \in Conns, ListRedis(c) PROVE Clearing'
  <2>1. \A u \in Users, i \in Items : Clears(c, u, i) /\ i \in redis[u] => Clears(c, u, i)'
    BY <1>15 DEF ListRedis, Clears, IInv, TypeOK
  <2>2. QED
    BY <1>12, <1>15, <2>1 DEF ListRedis, sockets, queues, faults, IInv, TypeOK
<1>16. ASSUME NEW c \in Conns, StartReading(c) \/ UnregisterConnection(c) PROVE Clearing'
  <2>1. \A u, i : ~Clears(c, u, i)
    BY <1>16 DEF StartReading, UnregisterConnection, Clears
  <2>2. QED
    BY <1>12, <1>16, <2>1 DEF StartReading, UnregisterConnection, sockets, queues, faults, IInv, TypeOK
<1>17. ASSUME NEW c \in Conns, NEW u \in Users, NEW fg \in BOOLEAN, RegisterConnection(c, u, fg)
       PROVE  Clearing'
  <2>1. \A v, j : ~Clears(c, v, j)
    BY <1>17 DEF RegisterConnection, Unused, Clears
  <2>2. /\ UNCHANGED <<redis, seen, failures, crashes>>
        /\ \A d \in Conns \ {c} : /\ handler'[d] = handler[d] /\ batch'[d] = batch[d]
                                  /\ user'[d] = user[d] /\ drains'[d] = drains[d] /\ done'[d] = done[d]
    BY <1>17 DEF RegisterConnection, queues, faults, IInv, TypeOK
  <2>3. \A d \in Conns, v \in Users, j \in Items : Clears(d, v, j) => Clears(d, v, j)'
    BY <2>1, <2>2 DEF Clears
  <2>4. QED
    BY <2>2, <2>3, StaysClear
<1>18. ASSUME NEW c \in Conns, Break(c) PROVE Clearing'
  BY <1>1, <1>18 DEF Break, queues, faults
<1>19. ASSUME NEW u \in Users, KickUserConnections(u) PROVE Clearing'
  BY <1>1, <1>19 DEF KickUserConnections, sockets
<1>20. CASE Crash
  BY <1>6, <1>20 DEF Crash, IInv, TypeOK
<1>21. CASE UNCHANGED vars
  BY <1>1, <1>21 DEF vars, sockets, queues, faults
<1>22. QED
  BY <1>2, <1>3, <1>4, <1>5, <1>8, <1>9, <1>10, <1>11, <1>13, <1>14, <1>15, <1>16, <1>17, <1>18, <1>19,
     <1>20, <1>21 DEF Next, Sending, Deliver, Drain, Connecting, Failing

\* A drain leaves no message in Redis that it delivered, from memory or from
\* there, and nobody stores one that was taken.
THEOREM CopiesCleared == Spec => []RedisCopyCleared
<1> DEFINE All == IInv /\ WaitsInTurn /\ SeenInTurn /\ DrainsFit /\ Clearing
<1>1. All /\ [Next]_vars => All'
  BY NextTypeOK, NextItemsFit, NextConnsFit, NextKept, NextWaits, NextSeen, NextDrains, NextClearing
  DEF IInv
<1>2. All => RedisCopyCleared
  <2> SUFFICES ASSUME All, NEW u \in Users, Quiet(u), failures + crashes = 0,
                      NEW i \in redis[u] \cap seen[u]
               PROVE  FALSE
    BY DEF RedisCopyCleared
  <2>1. PICK c \in Conns : Clears(c, u, i)
    BY DEF Clearing
  <2>2. QED
    BY <2>1 DEF Clears, Quiet
<1>3. Init => All
  BY InitIInv, InitClears
<1>4. QED
  BY <1>1, <1>2, <1>3, PTL DEF Spec
----------------------------------------------------------------------------
(* The mailbox.                                                            *)

\* What has reached a user, or waits for him, was sent to him.
SentTo ==
    /\ \A u \in Users : \A i \in seen[u] \cup Waiting(u) : u \in to[i]
    /\ \A c \in Conns : \A i \in batch[c] : user[c] \in to[i]

\* While the goroutine of an item still has a user before it, memory does not
\* have the item for him, but for a copy of what Redis keeps.
NotHeldYet ==
    /\ \A u \in Users : \A i \in offline[u] \cup system[u] : u \notin todo[i]
    /\ \A c \in Conns : \A i \in batch[c] :
          user[c] \in todo[i] => i \in redis[user[c]] \cup seen[user[c]]

\* A goroutine returns with nobody left to do; a drain ends with nothing left
\* to write.
NothingLeft ==
    /\ \A i \in Items : stage[i] = "done" => todo[i] = {}
    /\ \A c \in Conns : handler[c] \in {"free", "list", "open"} => batch[c] = {}

MInv == SentTo /\ NotHeldYet /\ NothingLeft

\* Initially nothing is anywhere.
LEMMA InitMInv == Init => MInv
  BY DEF Init, MInv, SentTo, Waiting, NotHeldYet, NothingLeft

\* The goroutine of an item works on a user it was sent to and is not done with.
LEMMA AtWork ==
  ASSUME IInv, NEW i \in Items, stage[i] \in Working
  PROVE  /\ at[i] \in Users /\ at[i] \in todo[i] /\ at[i] \in to[i]
         /\ stage[i] = "redis" => IsChat(i)
  BY DEF IInv, TypeOK, ItemsFit, ItemFits

\* A step of a goroutine that neither delivers nor keeps anything.
LEMMA QuietKeepsMInv ==
  ASSUME MInv, UNCHANGED <<to, seen, handler, user, batch, offline, system, redis>>,
         \A i \in Items : todo'[i] \subseteq todo[i] /\ (stage'[i] = "done" => todo'[i] = {}),
         IInv
  PROVE  MInv'
<1>1. /\ \A u \in Users : offline[u] \cup system[u] \subseteq Items
      /\ \A c \in Conns : batch[c] \subseteq Items
  BY DEF IInv, TypeOK, Items, Kinds
<1>2. QED
  BY <1>1 DEF MInv, SentTo, Waiting, NotHeldYet, NothingLeft

\* A new delivery finds its item nowhere.
LEMMA BeginKeepsMInv ==
  ASSUME IInv, MInv, NEW b \in Items, BeginOK(b)
  PROVE  MInv'
<1>1. /\ \A u \in Users : seen[u] \cup Waiting(u) \subseteq Items
      /\ \A c \in Conns : batch[c] \subseteq Items
  BY WaitsAreItems DEF IInv, TypeOK
<1>2. /\ \A u \in Users : b \notin seen[u] \cup Waiting(u)
      /\ \A c \in Conns : b \notin batch[c]
  BY DEF MInv, SentTo, BeginOK
<1>3. SentTo'
  BY <1>1, <1>2 DEF MInv, SentTo, BeginOK, Waiting
<1>4. NotHeldYet'
  BY <1>1, <1>2 DEF MInv, NotHeldYet, BeginOK, Waiting
<1>5. NothingLeft'
  BY DEF MInv, NothingLeft, BeginOK
<1>6. QED
  BY <1>3, <1>4, <1>5 DEF MInv

\* The goroutine that delivers an item keeps MInv.
LEMMA DeliverKeepsMInv ==
  ASSUME IInv, MInv, NEW i \in Items, Deliver(i) \/ PushRedisFails(i)
  PROVE  MInv'
<1>1. ASSUME NEW u \in todo[i], ListConnections(i, u) PROVE MInv'
  <2>1. \A j \in Items : todo'[j] = todo[j] /\ (stage'[j] = "done" => stage[j] = "done")
    BY <1>1 DEF ListConnections, Keep, IInv, TypeOK
  <2>2. QED
    BY <1>1, <2>1, QuietKeepsMInv DEF ListConnections, serving, sockets, queues, MInv, NothingLeft
<1>2. ASSUME NEW c \in left[i], WriteLive(i, c) PROVE MInv'
  <2>1. /\ at[i] \in to[i] /\ user[c] = at[i] /\ UNCHANGED <<stage, to, todo, offline, system, redis, handler, user, batch>>
    BY <1>2, WriteLiveFacts, AtWork DEF WriteLive, serving, queues, IInv, Working
  <2>2. \A u \in Users : seen[u] \subseteq seen'[u]
    BY <1>2, WriteLiveFacts DEF IInv
  <2>3. \A u \in Users : \A j \in seen'[u] : j \in seen[u] \/ (j = i /\ u = at[i])
    BY <1>2, <2>1 DEF WriteLive, Take, sockets, IInv, TypeOK
  <2>4. \A c1 \in Conns : \A j \in batch[c1] : user[c1] \in todo[j] => user[c1] \in Users
    BY DEF IInv, TypeOK, Items, Kinds
  <2>5. SentTo'
    BY <2>1, <2>2, <2>3, <2>4 DEF MInv, SentTo, Waiting
  <2>6. NotHeldYet'
    BY <2>1, <2>2, <2>3, <2>4 DEF MInv, NotHeldYet
  <2>7. NothingLeft'
    BY <2>1, <2>2, <2>3, <2>4 DEF MInv, NothingLeft
  <2>8. QED
    BY <2>5, <2>6, <2>7 DEF MInv
<1>3. ASSUME DropFailed(i) PROVE MInv'
  <2>1. \A j \in Items : todo'[j] \subseteq todo[j] /\ (stage'[j] = "done" => stage[j] = "done" /\ j # i)
    BY <1>3 DEF DropFailed, Finish, Keep, IInv, TypeOK
  <2>2. \A j \in Items : j # i => todo'[j] = todo[j]
    BY <1>3 DEF DropFailed, Finish, IInv, TypeOK
  <2>3. QED
    BY <1>3, <2>1, <2>2, QuietKeepsMInv DEF DropFailed, serving, sockets, queues, MInv, NothingLeft
<1>4. ASSUME Return(i) PROVE MInv'
  <2>1. \A j \in Items : todo'[j] = todo[j] /\ (stage'[j] = "done" => stage[j] = "done" \/ todo[j] = {})
    BY <1>4 DEF Return, IInv, TypeOK
  <2>2. QED
    BY <1>4, <2>1, QuietKeepsMInv DEF Return, serving, sockets, queues, MInv, NothingLeft
<1>5. ASSUME PushRedisMessage(i) \/ PushRedisFails(i) PROVE MInv'
  <2>1. at[i] \in Users /\ at[i] \in to[i]
    BY <1>5, AtWork DEF PushRedisMessage, PushRedisFails, Working
  <2>2. /\ UNCHANGED <<to, todo, seen, handler, user, batch, offline, system>>
        /\ \A j \in Items : stage'[j] = "done" => stage[j] = "done"
    BY <1>5 DEF PushRedisMessage, PushRedisFails, serving, sockets, IInv, TypeOK
  <2>3. redis' = redis \/ redis' = [redis EXCEPT ![at[i]] = redis[at[i]] \cup {i}]
    BY <1>5 DEF PushRedisMessage, PushRedisFails
  <2>4. \A u \in Users : /\ redis[u] \subseteq redis'[u]
                         /\ \A j \in redis'[u] : j \in redis[u] \/ (j = i /\ u = at[i])
    BY <2>1, <2>3 DEF IInv, TypeOK
  <2>5. \A c \in Conns : \A j \in batch[c] : user[c] \in todo[j] => user[c] \in Users
    BY DEF IInv, TypeOK, Items, Kinds
  <2>6. SentTo'
    BY <2>1, <2>2, <2>4, <2>5 DEF MInv, SentTo, Waiting
  <2>7. NotHeldYet'
    BY <2>1, <2>2, <2>4, <2>5 DEF MInv, NotHeldYet
  <2>8. NothingLeft'
    BY <2>1, <2>2, <2>4, <2>5 DEF MInv, NothingLeft
  <2>9. QED
    BY <2>6, <2>7, <2>8 DEF MInv
<1>6. ASSUME EnqueueOffline(i) PROVE MInv'
  <2>1. at[i] \in Users /\ at[i] \in to[i]
    BY <1>6, AtWork DEF EnqueueOffline, Working
  <2>2. UNCHANGED <<to, seen, handler, user, batch, redis>>
    BY <1>6 DEF EnqueueOffline, serving, sockets
  <2>3. /\ todo'[i] = todo[i] \ {at[i]} /\ stage'[i] = "next"
        /\ \A j \in Items : j # i => todo'[j] = todo[j] /\ stage'[j] = stage[j]
    BY <1>6 DEF EnqueueOffline, Finish, IInv, TypeOK
  <2>4. \A u \in Users : \A j \in offline'[u] \cup system'[u] :
           j \in offline[u] \cup system[u] \/ (j = i /\ u = at[i])
    BY <1>6, <2>1 DEF EnqueueOffline, IInv, TypeOK
  <2>5. /\ \A u \in Users : offline[u] \cup system[u] \subseteq Items
        /\ \A c \in Conns : batch[c] \subseteq Items
    BY DEF IInv, TypeOK, Items, Kinds
  <2>6. SentTo'
    BY <2>1, <2>2, <2>3, <2>4, <2>5 DEF MInv, SentTo, Waiting
  <2>7. NotHeldYet'
    BY <2>1, <2>2, <2>3, <2>4, <2>5 DEF MInv, NotHeldYet
  <2>8. NothingLeft'
    BY <2>1, <2>2, <2>3, <2>4, <2>5 DEF MInv, NothingLeft
  <2>9. QED
    BY <2>6, <2>7, <2>8 DEF MInv
<1>7. QED
  BY <1>1, <1>2, <1>3, <1>4, <1>5, <1>6 DEF Deliver

\* So do the drains, and so does a connection that comes or goes.
LEMMA ConnKeepsMInv ==
  ASSUME IInv, MInv, NEW c \in Conns,
         \/ Drain(c) \/ ListRedisFails(c) \/ \E i \in batch[c] : RemoveRedisFails(c, i)
         \/ \E u \in Users, fg \in BOOLEAN : RegisterConnection(c, u, fg)
         \/ Break(c) \/ UnregisterConnection(c)
  PROVE  MInv'
<1>1. ASSUME NEW i \in batch[c], WriteQueued(c, i) PROVE MInv'
  <2>1. /\ user[c] \in Users /\ handler[c] # "free" /\ i \in Items
        /\ \A u \in Users : seen[u] \subseteq seen'[u]
        /\ \A d \in Conns : batch'[d] \subseteq batch[d]
    BY <1>1, WriteQueuedFacts DEF IInv
  <2>2. UNCHANGED <<stage, to, todo, handler, user, offline, system, redis>>
    BY <1>1 DEF WriteQueued, delivering, queues
  <2>3. \A u \in Users : \A j \in seen'[u] : j \in seen[u] \/ (j = i /\ u = user[c])
    <3>1. seen' = seen \/ seen' = [seen EXCEPT ![user[c]] = seen[user[c]] \cup {i}]
      BY <1>1 DEF WriteQueued, Take, sockets
    <3>2. QED
      BY <2>1, <3>1 DEF IInv, TypeOK
  <2>4. \A d \in Conns : \A j \in batch[d] : user[d] \in todo[j] => user[d] \in Users
    BY DEF IInv, TypeOK, Items, Kinds
  <2>5. user[c] \in to[i]
    BY DEF MInv, SentTo
  <2>6. SentTo'
    BY <2>1, <2>2, <2>3, <2>4, <2>5 DEF MInv, SentTo, Waiting
  <2>7. NotHeldYet'
    BY <2>1, <2>2, <2>3, <2>4, <2>5 DEF MInv, NotHeldYet
  <2>8. NothingLeft'
    BY <2>1, <2>2, <2>3, <2>4, <2>5 DEF MInv, NothingLeft
  <2>9. QED
    BY <2>6, <2>7, <2>8 DEF MInv
<1>2. ASSUME NEW i \in batch[c], RemoveRedisCopy(c, i) \/ RemoveRedisFails(c, i) PROVE MInv'
  <2>1. user[c] \in Users /\ i \in seen[user[c]] /\ handler[c] = "redis"
    BY <1>2 DEF RemoveRedisCopy, RemoveRedisFails, IInv, ConnsFit, ConnFits
  <2>2. UNCHANGED <<stage, to, todo, seen, handler, user, offline, system>>
    BY <1>2 DEF RemoveRedisCopy, RemoveRedisFails, delivering, sockets, queues
  <2>3. \A d \in Conns : batch'[d] \subseteq batch[d]
    <3>1. batch' = [batch EXCEPT ![c] = batch[c] \ {i}]
      BY <1>2 DEF RemoveRedisCopy, RemoveRedisFails
    <3>2. batch \in [Conns -> SUBSET Items]
      BY DEF IInv, TypeOK
    <3>3. QED
      BY <3>1, <3>2
  <2>4. \A u \in Users : /\ redis'[u] \subseteq redis[u]
                         /\ \A j \in redis[u] : j \in redis'[u] \/ j \in seen[u]
    <3>1. redis' = redis \/ redis' = [redis EXCEPT ![user[c]] = redis[user[c]] \ {i}]
      BY <1>2 DEF RemoveRedisCopy, RemoveRedisFails, queues
    <3>2. CASE redis' = redis
      BY <3>2
    <3>3. CASE redis' = [redis EXCEPT ![user[c]] = redis[user[c]] \ {i}]
      <4>1. /\ redis'[user[c]] = redis[user[c]] \ {i}
            /\ \A u \in Users : u # user[c] => redis'[u] = redis[u]
        BY <2>1, <3>3 DEF IInv, TypeOK
      <4>2. QED
        BY <2>1, <4>1
    <3>4. QED
      BY <3>1, <3>2, <3>3
  <2>5. \A d \in Conns : \A j \in batch[d] : user[d] \in todo[j] => user[d] \in Users
    BY DEF IInv, TypeOK, Items, Kinds
  <2>6. SentTo'
    BY <2>2, <2>3, <2>4, <2>5 DEF MInv, SentTo, Waiting
  <2>7. NotHeldYet'
    BY <2>2, <2>3, <2>4, <2>5 DEF MInv, NotHeldYet
  <2>8. NothingLeft'
    BY <2>2, <2>3, <2>4, <2>5 DEF MInv, NothingLeft
  <2>9. QED
    BY <2>6, <2>7, <2>8 DEF MInv
<1>3. ASSUME ClearOffline(c) \/ ClearSystem(c) PROVE MInv'
  <2>1. UNCHANGED <<stage, to, todo, seen, user, batch, redis>>
    BY <1>3 DEF ClearOffline, ClearSystem, delivering, sockets
  <2>2. \A u \in Users : offline'[u] \subseteq offline[u] /\ system'[u] \subseteq system[u]
    <3>1. /\ offline' = offline \/ offline' = [offline EXCEPT ![user[c]] = offline[user[c]] \ done[c]]
          /\ system' = system \/ system' = [system EXCEPT ![user[c]] = system[user[c]] \ done[c]]
      BY <1>3 DEF ClearOffline, ClearSystem
    <3>2. ASSUME NEW q \in [Users -> SUBSET Items], NEW r,
                 r = q \/ r = [q EXCEPT ![user[c]] = q[user[c]] \ done[c]]
          PROVE  \A u \in Users : r[u] \subseteq q[u]
      BY <3>2
    <3>3. offline \in [Users -> SUBSET Items] /\ system \in [Users -> SUBSET Items]
      BY DEF IInv, TypeOK, Items, Kinds
    <3>4. QED
      BY <3>1, <3>2, <3>3
  <2>3. \A d \in Conns : handler'[d] \in {"free", "list", "open"} =>
           handler[d] \in {"free", "list", "open"} \/ batch[d] = {}
    <3>1. \A d \in Conns \ {c} : handler'[d] = handler[d]
      BY <1>3 DEF ClearOffline, ClearSystem, IInv, TypeOK
    <3>2. handler'[c] = "events" \/ batch[c] = {}
      BY <1>3 DEF ClearOffline, ClearSystem, IInv, TypeOK
    <3>3. QED
      BY <3>1, <3>2
  <2>4. SentTo'
    BY <2>1, <2>2, <2>3 DEF MInv, SentTo, Waiting
  <2>5. NotHeldYet'
    BY <2>1, <2>2, <2>3 DEF MInv, NotHeldYet
  <2>6. NothingLeft'
    BY <2>1, <2>2, <2>3 DEF MInv, NothingLeft
  <2>7. QED
    BY <2>4, <2>5, <2>6 DEF MInv
<1>4. ASSUME ListRedis(c) PROVE MInv'
  <2>1. /\ user[c] \in Users /\ batch'[c] = redis[user[c]] /\ handler'[c] = "redis"
        /\ \A d \in Conns \ {c} : batch'[d] = batch[d] /\ handler'[d] = handler[d]
        /\ UNCHANGED <<stage, to, todo, seen, user, offline, system, redis>>
    BY <1>4 DEF ListRedis, delivering, sockets, queues, IInv, TypeOK, ConnsFit, ConnFits
  <2>2. SentTo'
    BY <2>1 DEF MInv, SentTo, Waiting
  <2>3. NotHeldYet'
    BY <2>1 DEF MInv, NotHeldYet
  <2>4. NothingLeft'
    BY <2>1 DEF MInv, NothingLeft
  <2>5. QED
    BY <2>2, <2>3, <2>4 DEF MInv
<1>5. ASSUME ListRedisFails(c) \/ StartReading(c) \/ UnregisterConnection(c) \/ Break(c) PROVE MInv'
  <2>1. UNCHANGED <<stage, to, todo, seen, user, batch, offline, system, redis>>
    BY <1>5 DEF ListRedisFails, StartReading, UnregisterConnection, Break, delivering, serving,
       sockets, queues
  <2>2. \A d \in Conns : handler'[d] \in {"free", "list", "open"} =>
           handler[d] \in {"free", "list", "open"} \/ batch[d] = {}
    BY <1>5 DEF ListRedisFails, StartReading, UnregisterConnection, Break, serving, IInv, TypeOK
  <2>3. SentTo'
    BY <2>1, <2>2 DEF MInv, SentTo, Waiting
  <2>4. NotHeldYet'
    BY <2>1, <2>2 DEF MInv, NotHeldYet
  <2>5. NothingLeft'
    BY <2>1, <2>2 DEF MInv, NothingLeft
  <2>6. QED
    BY <2>3, <2>4, <2>5 DEF MInv
<1>6. ASSUME NEW u \in Users, NEW fg \in BOOLEAN, RegisterConnection(c, u, fg) PROVE MInv'
  <2>1. /\ user'[c] = u /\ batch'[c] \subseteq offline[u] \cup system[u] /\ handler'[c] = "memory"
        /\ \A d \in Conns \ {c} : /\ batch'[d] = batch[d] /\ handler'[d] = handler[d]
                                  /\ user'[d] = user[d]
        /\ UNCHANGED <<stage, to, todo, seen, offline, system, redis>>
    BY <1>6 DEF RegisterConnection, delivering, queues, IInv, TypeOK
  <2>2. SentTo'
    BY <2>1 DEF MInv, SentTo, Waiting
  <2>3. NotHeldYet'
    BY <2>1 DEF MInv, NotHeldYet
  <2>4. NothingLeft'
    BY <2>1 DEF MInv, NothingLeft
  <2>5. QED
    BY <2>2, <2>3, <2>4 DEF MInv
<1>7. QED
  BY <1>1, <1>2, <1>3, <1>4, <1>5, <1>6 DEF Drain

\* Every step keeps MInv.
LEMMA NextMInv ==
  ASSUME IInv, MInv, [Next]_vars
  PROVE  MInv'
<1>1. ASSUME NEW m \in Messages, NEW us \in SUBSET Users, SendMessage(m, us) \/ RecallMessage(m, us)
      PROVE  MInv'
  BY <1>1, BeginFacts, BeginKeepsMInv, ItemKinds DEF SendMessage, RecallMessage, IInv
<1>2. ASSUME NEW m \in Messages, Forget(m) PROVE MInv'
  BY <1>2, QuietKeepsMInv DEF Forget, delivering, serving, sockets, queues, MInv, NothingLeft
<1>3. ASSUME NEW u \in Users, KickUserConnections(u) PROVE MInv'
  <2>1. /\ UNCHANGED <<stage, to, todo, seen, handler, user, batch, redis>>
        /\ \A v \in Users : offline'[v] \subseteq offline[v] /\ system'[v] \subseteq system[v]
    BY <1>3 DEF KickUserConnections, delivering, serving, sockets, IInv, TypeOK
  <2>2. QED
    BY <2>1 DEF MInv, SentTo, NotHeldYet, NothingLeft, Waiting
<1>4. CASE Crash
  <2>1. /\ UNCHANGED <<to, todo, seen, redis>>
        /\ \A c \in Conns : batch'[c] = {}
        /\ \A u \in Users : offline'[u] = {} /\ system'[u] = {}
        /\ \A i \in Items : stage'[i] = "done" => stage[i] = "done"
    BY <1>4 DEF Crash, sockets
  <2>2. QED
    BY <2>1 DEF MInv, SentTo, NotHeldYet, NothingLeft, Waiting
<1>5. CASE UNCHANGED vars
  BY <1>5, QuietKeepsMInv DEF vars, delivering, serving, sockets, queues, MInv, NothingLeft
<1>6. QED
  BY <1>1, <1>2, <1>3, <1>4, <1>5, DeliverKeepsMInv, ConnKeepsMInv
  DEF Next, Sending, Connecting, Failing

\* The step may do to the boxes what the mailbox allows.
MailStep == [Mail!Next]_(Mail!vars)

\* Who gets an item is known from its box.
LEMMA NoneIffNotSent ==
  ASSUME IInv, MInv, NEW i \in Items, NEW u \in Users
  PROVE  Where(i, u) = "none" <=> u \notin to[i]
<1>1. i \in seen[u] \/ i \in redis[u] \/ Held(i, u) => u \in to[i]
  BY DEF MInv, SentTo, Waiting, Held
<1>2. u \in todo[i] => u \in to[i]
  BY DEF IInv, ItemsFit, ItemFits
<1>3. QED
  BY <1>1, <1>2 DEF Where, OnItsWay

\* The mailbox's names for what is there.
LEMMA MailNames ==
  /\ Mail!Items = Items
  /\ \A i \in Items : Mail!IsChat(i) <=> IsChat(i)
  /\ \A i \in Items, u \in Users : Boxes[i][u] = Where(i, u)
  BY DEF Mail!Items, Items, Kinds, Mail!IsChat, IsChat, Boxes

\* Boxes are compared pair by pair.
LEMMA BoxesMove ==
  ASSUME NEW S, NEW s,
         \A i \in Items, u \in Users :
            Where(i, u)' = IF <<i, u>> \in S THEN s ELSE Where(i, u)
  PROVE  Mail!Put(S, s)
<1>1. [i \in Items |-> [u \in Users |-> Where(i, u)']] =
      [i \in Items |-> [u \in Users |-> IF <<i, u>> \in S THEN s ELSE Boxes[i][u]]]
  BY MailNames
<1>2. QED
  BY <1>1, MailNames DEF Mail!Put, Boxes

\* A step that moves no item, and may have met a failing Redis.
LEMMA NothingMoves ==
  ASSUME IInv, \A i \in Items, u \in Users : Where(i, u)' = Where(i, u),
         UNCHANGED <<crashes, kicks>>, failures' = failures \/ failures' = failures + 1
  PROVE  MailStep
<1>1. Boxes' = Boxes
  BY DEF Boxes
<1>2. CASE failures' = failures
  BY <1>1, <1>2 DEF MailStep, Mail!vars
<1>3. CASE failures' = failures + 1
  <2>1. (failures' > 0) = TRUE
    BY <1>3 DEF IInv, TypeOK
  <2>2. Mail!RedisFails
    BY <1>1, <2>1 DEF Mail!RedisFails
  <2>3. QED
    BY <2>2 DEF MailStep, Mail!Next
<1>4. QED
  BY <1>2, <1>3

\* A step that moves one item for one user, as the mailbox may.
LEMMA OneMoves ==
  ASSUME IInv, NEW i \in Items, NEW u \in Users,
         \A j \in Items, v \in Users : ~(j = i /\ v = u) => Where(j, v)' = Where(j, v),
         UNCHANGED <<crashes, kicks>>,
         \/ /\ Where(i, u) \in {"pending", "kept", "held"} /\ Where(i, u)' = "delivered"
            /\ failures' = failures
         \/ /\ IsChat(i) /\ Where(i, u) = "pending" /\ Where(i, u)' = "kept"
            /\ failures' = failures \/ failures' = failures + 1
         \/ /\ Where(i, u) = "pending" /\ Where(i, u)' = "held"
            /\ failures' = failures /\ (IsChat(i) => failures > 0)
         \/ /\ Where(i, u) = "held" /\ Where(i, u)' = "lost"
            /\ failures' = failures /\ crashes + kicks > 0
  PROVE  MailStep
<1>1. Mail!Put({<<i, u>>}, Where(i, u)')
  <2>1. \A j \in Items, v \in Users :
           Where(j, v)' = IF <<j, v>> \in {<<i, u>>} THEN Where(i, u)' ELSE Where(j, v)
    OBVIOUS
  <2>2. QED
    BY <2>1, BoxesMove
<1>2. Boxes[i][u] = Where(i, u) /\ i \in Mail!Items /\ (Mail!IsChat(i) <=> IsChat(i))
  BY MailNames
<1>3. Boxes' # Boxes
  <2>1. Boxes[i][u] # Where(i, u)' /\ Boxes'[i][u] = Where(i, u)'
    BY <1>2 DEF Boxes
  <2>2. QED
    BY <2>1
<1>4. \/ Mail!Deliver(i, u) \/ Mail!Keep(i, u) \/ Mail!Hold(i, u) \/ Mail!Lose(i, u)
  <2>1. (crashes' + kicks' > 0) = (crashes + kicks > 0)
    OBVIOUS
  <2>2. CASE failures' = failures
    <3>1. (failures' > 0) = (failures > 0)
      BY <2>2
    <3>2. QED
      BY <1>1, <1>2, <2>1, <2>2, <3>1 DEF Mail!Deliver, Mail!Keep, Mail!Hold, Mail!Lose
  <2>3. CASE failures' = failures + 1
    <3>1. (failures' > 0) = TRUE
      BY <2>3 DEF IInv, TypeOK
    <3>2. IsChat(i) /\ Where(i, u) = "pending" /\ Where(i, u)' = "kept"
      BY <2>3 DEF IInv, TypeOK
    <3>3. QED
      BY <1>1, <1>2, <2>1, <3>1, <3>2 DEF Mail!Keep
  <2>4. QED
    BY <2>2, <2>3
<1>5. QED
  BY <1>2, <1>3, <1>4 DEF MailStep, Mail!Next, Mail!Move

\* A pair of which nothing changed.
LEMMA SamePlace ==
  ASSUME NEW i, NEW u,
         i \in seen'[u] <=> i \in seen[u], i \in redis'[u] <=> i \in redis[u],
         Held(i, u)' <=> Held(i, u), OnItsWay(i, u)' <=> OnItsWay(i, u),
         u \in to'[i] <=> u \in to[i]
  PROVE  Where(i, u)' = Where(i, u)
  BY DEF Where

\* While a goroutine works on a user, his item is under way, in Redis or there.
LEMMA NotYetHeld ==
  ASSUME IInv, MInv, NEW i \in Items, stage[i] \in Working
  PROVE  /\ OnItsWay(i, at[i]) /\ at[i] \in Users
         /\ Held(i, at[i]) => i \in redis[at[i]] \cup seen[at[i]]
         /\ Where(i, at[i]) \in {"pending", "kept", "delivered"}
<1>1. /\ at[i] \in Users /\ at[i] \in todo[i] /\ stage[i] # "cut"
  BY AtWork DEF Working
<1>2. Held(i, at[i]) => i \in redis[at[i]] \cup seen[at[i]]
  BY <1>1 DEF MInv, NotHeldYet, Held
<1>3. QED
  BY <1>1, <1>2 DEF Where, OnItsWay

----------------------------------------------------------------------------
\* Nobody has heard of an item when its delivery starts.
LEMMA BeginPuts ==
  ASSUME IInv, MInv, NEW b \in Items, NEW us \in SUBSET Users, BeginOK(b), to'[b] = us
  PROVE  /\ Mail!Recipients(b) = {}
         /\ Mail!Put({b} \X us, "pending")
         /\ (failures' > 0) = (failures > 0) /\ (crashes' + kicks' > 0) = (crashes + kicks > 0)
<1>1. \A u \in Users : Where(b, u) = "none"
  BY NoneIffNotSent DEF BeginOK
<1>2. \A j \in Items, u \in Users : Held(j, u)' <=> Held(j, u)
  BY DEF BeginOK, Held
<1>3. \A j \in Items, u \in Users : j # b => Where(j, u)' = Where(j, u)
  <2> SUFFICES ASSUME NEW j \in Items, NEW u \in Users, j # b PROVE Where(j, u)' = Where(j, u)
    OBVIOUS
  <2>1. stage'[j] = stage[j] /\ to'[j] = to[j] /\ todo'[j] = todo[j] /\ seen' = seen /\ redis' = redis
    BY DEF BeginOK
  <2>2. QED
    BY <1>2, <2>1 DEF Where, OnItsWay
<1>4. ASSUME NEW u \in Users PROVE Where(b, u)' = IF u \in us THEN "pending" ELSE Where(b, u)
  <2>1. b \notin seen'[u] /\ b \notin redis'[u] /\ ~Held(b, u)'
    <3>1. b \notin seen[u] /\ b \notin redis[u] /\ ~Held(b, u)
      BY <1>1 DEF Where
    <3>2. QED
      BY <1>2, <3>1 DEF BeginOK
  <2>2. todo'[b] = us /\ to'[b] = us /\ stage'[b] = "next"
    BY DEF BeginOK
  <2>3. QED
    BY <1>1, <2>1, <2>2 DEF Where, OnItsWay
<1>5. \A j \in Items, u \in Users : Where(j, u)' = IF <<j, u>> \in {b} \X us THEN "pending" ELSE Where(j, u)
  BY <1>3, <1>4
<1>6. Mail!Put({b} \X us, "pending")
  BY <1>5, BoxesMove
<1>7. Mail!Recipients(b) = {}
  BY <1>1, MailNames DEF Mail!Recipients
<1>8. QED
  BY <1>6, <1>7 DEF BeginOK

\* Sending posts the message to its recipients.
LEMMA SendIsMail ==
  ASSUME IInv, MInv, NEW m \in Messages, NEW us \in SUBSET Users, SendMessage(m, us)
  PROVE  MailStep
<1>1. BeginOK(<<"chat", m>>) /\ <<"chat", m>> \in Items
  BY BeginFacts, ItemKinds DEF SendMessage, IInv
<1>2. to'[<<"chat", m>>] = us
  BY <1>1 DEF SendMessage, Begin, IInv, TypeOK
<1>3. Mail!Send(m, us)
  BY <1>1, <1>2, BeginPuts DEF Mail!Send, SendMessage
<1>4. QED
  BY <1>3 DEF MailStep, Mail!Next, Mail!Move, Mail!vars, Mail!Send

\* Recalling posts the event when the message is under way to nobody, and a
\* friend's to the same friend.
LEMMA RecallIsMail ==
  ASSUME IInv, MInv, NEW m \in Messages, NEW us \in SUBSET Users, RecallMessage(m, us)
  PROVE  MailStep
<1> DEFINE chat == <<"chat", m>>
           recall == <<"recall", m>>
<1>1. BeginOK(recall) /\ recall \in Items /\ chat \in Items
  BY BeginFacts, ItemKinds DEF RecallMessage, IInv
<1>2. to'[recall] = us
  BY <1>1 DEF RecallMessage, Begin, IInv, TypeOK
<1>3. \A u \in Users : Boxes[chat][u] # "pending"
  <2>1. todo[chat] = {}
    BY <1>1 DEF RecallMessage, MInv, NothingLeft
  <2>2. QED
    BY <1>1, <2>1, MailNames DEF Where, OnItsWay
<1>4. Mail!Recipients(chat) = to[chat]
  <2>1. to[chat] \subseteq Users
    BY <1>1 DEF IInv, TypeOK
  <2>2. \A u \in Users : Boxes[chat][u] # "none" <=> u \in to[chat]
    BY <1>1, NoneIffNotSent, MailNames
  <2>3. QED
    BY <2>1, <2>2 DEF Mail!Recipients
<1>5. Mail!Recall(m, us)
  BY <1>1, <1>2, <1>3, <1>4, BeginPuts DEF Mail!Recall, RecallMessage
<1>6. QED
  BY <1>5 DEF MailStep, Mail!Next, Mail!Move, Mail!vars, Mail!Recall

\* What a goroutine does for a user, the mailbox may do to his item: deliver
\* it, keep it in Redis, hold it in memory, or nothing.
LEMMA DeliverIsMail ==
  ASSUME IInv, MInv, NEW i \in Items, Deliver(i) \/ PushRedisFails(i)
  PROVE  MailStep
<1>1. ASSUME UNCHANGED <<to, seen, redis, offline, system, user, batch>>,
             \A j \in Items, v \in Users : OnItsWay(j, v)' <=> OnItsWay(j, v),
             UNCHANGED faults
      PROVE  MailStep
  <2>1. \A j \in Items, v \in Users : Where(j, v)' = Where(j, v)
    BY <1>1, SamePlace DEF Held
  <2>2. QED
    BY <1>1, <2>1, NothingMoves DEF faults
<1>2. ASSUME NEW u \in todo[i], ListConnections(i, u) PROVE MailStep
  <2>1. \A j \in Items, v \in Users : OnItsWay(j, v)' <=> OnItsWay(j, v)
    BY <1>2 DEF ListConnections, Keep, OnItsWay, IInv, TypeOK
  <2>2. QED
    BY <1>1, <1>2, <2>1 DEF ListConnections, serving, sockets, queues
<1>3. ASSUME NEW c \in left[i], WriteLive(i, c) PROVE MailStep
  <2> PICK u \in Users : u = at[i]
    BY <1>3, AtWork DEF WriteLive, Working
  <2>1. /\ user[c] = at[i] /\ at[i] \in Users /\ stage[i] = "write"
        /\ UNCHANGED <<stage, to, todo, redis, offline, system, user, batch, failures, crashes, kicks>>
    BY <1>3, WriteLiveFacts DEF WriteLive, serving, queues, faults, IInv
  <2>2. CASE c \in broken
    BY <1>1, <1>3, <2>1, <2>2 DEF WriteLive, sockets, faults, OnItsWay
  <2>3. CASE c \notin broken
    <3>1. seen' = [seen EXCEPT ![at[i]] = seen[at[i]] \cup {i}]
      BY <1>3, <2>1, <2>3 DEF WriteLive, Take
    <3>2. i \in seen'[at[i]] /\ \A j \in Items, v \in Users :
             ~(j = i /\ v = u) => (j \in seen'[v] <=> j \in seen[v])
      BY <2>1, <3>1 DEF IInv, TypeOK
    <3>3. \A j \in Items, v \in Users : ~(j = i /\ v = u) => Where(j, v)' = Where(j, v)
      BY <2>1, <3>2, SamePlace DEF Held, OnItsWay
    <3>4. Where(i, u)' = "delivered" /\ Where(i, u) \in {"pending", "kept", "delivered"}
      BY <2>1, <3>2, NotYetHeld DEF Where, Working
    <3>5. CASE Where(i, u) = "delivered"
      <4>1. \A j \in Items, v \in Users : Where(j, v)' = Where(j, v)
        BY <3>3, <3>4, <3>5
      <4>2. QED
        BY <2>1, <4>1, NothingMoves
    <3>6. CASE Where(i, u) # "delivered"
      BY <2>1, <3>3, <3>4, <3>6, OneMoves
    <3>7. QED
      BY <3>5, <3>6
  <2>4. QED
    BY <2>2, <2>3
<1>4. ASSUME DropFailed(i) PROVE MailStep
  <2>1. at[i] \in Users /\ stage[i] = "write" /\ (taken[i] => i \in seen[at[i]])
    BY <1>4, AtWork DEF DropFailed, Working, IInv, ItemsFit, ItemFits
  <2>2. UNCHANGED <<to, seen, redis, offline, system, user, batch, failures, crashes, kicks>>
    BY <1>4 DEF DropFailed, serving, sockets, queues, faults
  <2>3. \A j \in Items, v \in Users : (OnItsWay(j, v)' <=> OnItsWay(j, v)) \/ j \in seen[v]
    <3>1. /\ \A j \in Items : j # i => todo'[j] = todo[j] /\ stage'[j] = stage[j]
          /\ stage'[i] # "cut"
          /\ todo'[i] = todo[i] \/ (taken[i] /\ todo'[i] = todo[i] \ {at[i]})
      BY <1>4 DEF DropFailed, Finish, Keep, IInv, TypeOK
    <3>2. QED
      BY <2>1, <3>1 DEF OnItsWay
  <2>4. \A j \in Items, v \in Users : Where(j, v)' = Where(j, v)
    BY <2>2, <2>3 DEF Where, Held
  <2>5. QED
    BY <2>2, <2>4, NothingMoves
<1>5. ASSUME PushRedisMessage(i) \/ PushRedisFails(i) PROVE MailStep
  <2> PICK u \in Users : u = at[i]
    BY <1>5, AtWork DEF PushRedisMessage, PushRedisFails, Working
  <2>1. /\ stage[i] = "redis" /\ at[i] \in Users /\ IsChat(i)
        /\ Where(i, u) \in {"pending", "kept", "delivered"}
    BY <1>5, AtWork, NotYetHeld DEF PushRedisMessage, PushRedisFails, Working
  <2>2. /\ UNCHANGED <<to, todo, seen, offline, system, user, batch, crashes, kicks>>
        /\ failures' = failures \/ failures' = failures + 1
    BY <1>5 DEF PushRedisMessage, PushRedisFails, Fail, serving, sockets, faults
  <2>3. \A j \in Items, v \in Users : OnItsWay(j, v)' <=> OnItsWay(j, v)
    BY <1>5 DEF PushRedisMessage, PushRedisFails, OnItsWay, IInv, TypeOK
  <2>4. CASE redis' = redis
    BY <2>2, <2>3, <2>4, SamePlace, NothingMoves DEF Held
  <2>5. CASE redis' = [redis EXCEPT ![at[i]] = redis[at[i]] \cup {i}]
    <3>1. i \in redis'[at[i]] /\ \A j \in Items, v \in Users :
             ~(j = i /\ v = u) => (j \in redis'[v] <=> j \in redis[v])
      BY <2>1, <2>5 DEF IInv, TypeOK
    <3>2. \A j \in Items, v \in Users : ~(j = i /\ v = u) => Where(j, v)' = Where(j, v)
      BY <2>2, <2>3, <3>1, SamePlace DEF Held
    <3>3. Where(i, u)' = IF Where(i, u) = "pending" THEN "kept" ELSE Where(i, u)
      BY <2>1, <2>2, <3>1 DEF Where
    <3>4. CASE Where(i, u) = "pending"
      BY <2>1, <2>2, <3>2, <3>3, <3>4, OneMoves
    <3>5. CASE Where(i, u) # "pending"
      <4>1. \A j \in Items, v \in Users : Where(j, v)' = Where(j, v)
        BY <3>2, <3>3, <3>5
      <4>2. QED
        BY <2>2, <4>1, NothingMoves
    <3>6. QED
      BY <3>4, <3>5
  <2>6. redis' = redis \/ redis' = [redis EXCEPT ![at[i]] = redis[at[i]] \cup {i}]
    BY <1>5 DEF PushRedisMessage, PushRedisFails
  <2>7. QED
    BY <2>4, <2>5, <2>6
<1>6. ASSUME EnqueueOffline(i) PROVE MailStep
  <2> PICK u \in Users : u = at[i]
    BY <1>6, AtWork DEF EnqueueOffline, Working
  <2>1. /\ stage[i] = "queue" /\ at[i] \in Users /\ at[i] \in to[i]
        /\ Where(i, u) \in {"pending", "kept", "delivered"}
        /\ Where(i, u) = "pending" /\ IsChat(i) => failures > 0
    <3>1. stage[i] = "queue" /\ at[i] \in Users /\ at[i] \in to[i]
      BY <1>6, AtWork DEF EnqueueOffline, Working
    <3>2. IsChat(i) /\ failures = 0 => i \in redis[at[i]] \cup seen[at[i]]
      BY <3>1 DEF IInv, ItemsFit, ItemFits
    <3>3. failures \in Nat
      BY DEF IInv, TypeOK
    <3>4. Where(i, u) = "pending" => i \notin redis[at[i]] \cup seen[at[i]]
      BY DEF Where
    <3>5. Where(i, u) \in {"pending", "kept", "delivered"}
      BY <3>1, NotYetHeld DEF Working
    <3>6. QED
      BY <3>1, <3>2, <3>3, <3>4, <3>5
  <2>2. UNCHANGED <<to, seen, redis, user, batch, failures, crashes, kicks>>
    BY <1>6 DEF EnqueueOffline, serving, sockets, faults
  <2>3. \A j \in Items, v \in Users : ~(j = i /\ v = u) => (OnItsWay(j, v)' <=> OnItsWay(j, v))
    <3>1. /\ todo'[i] = todo[i] \ {at[i]} /\ stage'[i] = "next"
          /\ \A j \in Items : j # i => todo'[j] = todo[j] /\ stage'[j] = stage[j]
      BY <1>6 DEF EnqueueOffline, Finish, IInv, TypeOK
    <3>2. QED
      BY <2>1, <3>1 DEF OnItsWay
  <2>4. /\ i \in offline'[at[i]] \cup system'[at[i]]
        /\ \A j \in Items, v \in Users : ~(j = i /\ v = u) =>
              (j \in offline'[v] \cup system'[v] <=> j \in offline[v] \cup system[v])
    BY <1>6, <2>1 DEF EnqueueOffline, IInv, TypeOK
  <2>5. Held(i, u)' /\ \A j \in Items, v \in Users :
           ~(j = i /\ v = u) => (Held(j, v)' <=> Held(j, v))
    BY <2>2, <2>4 DEF Held
  <2>6. \A j \in Items, v \in Users : ~(j = i /\ v = u) => Where(j, v)' = Where(j, v)
    BY <2>2, <2>3, <2>5, SamePlace
  <2>7. Where(i, u)' = IF Where(i, u) = "pending" THEN "held" ELSE Where(i, u)
    BY <2>1, <2>2, <2>5 DEF Where
  <2>8. CASE Where(i, u) = "pending"
    BY <2>1, <2>2, <2>6, <2>7, <2>8, OneMoves
  <2>9. CASE Where(i, u) # "pending"
    <3>1. \A j \in Items, v \in Users : Where(j, v)' = Where(j, v)
      BY <2>6, <2>7, <2>9
    <3>2. QED
      BY <2>2, <3>1, NothingMoves
  <2>10. QED
    BY <2>8, <2>9
<1>7. ASSUME Return(i) PROVE MailStep
  <2>1. \A j \in Items, v \in Users : OnItsWay(j, v)' <=> OnItsWay(j, v)
    BY <1>7 DEF Return, OnItsWay, IInv, TypeOK
  <2>2. QED
    BY <1>1, <1>7, <2>1 DEF Return, serving, sockets, queues
<1>8. QED
  BY <1>2, <1>3, <1>4, <1>5, <1>6, <1>7 DEF Deliver

\* A drain delivers what Redis kept or memory held, and loses an item only
\* after a restart or a kick; a connection that comes or goes moves nothing.
LEMMA ConnIsMail ==
  ASSUME IInv, MInv, NEW c \in Conns,
         \/ Drain(c) \/ ListRedisFails(c) \/ \E i \in batch[c] : RemoveRedisFails(c, i)
         \/ \E u \in Users, fg \in BOOLEAN : RegisterConnection(c, u, fg)
         \/ Break(c) \/ UnregisterConnection(c)
  PROVE  MailStep
<1>1. ASSUME UNCHANGED <<stage, to, todo, seen, crashes, kicks>>,
             failures' = failures \/ failures' = failures + 1,
             \A j \in Items, v \in Users : \/ j \in seen[v]
                                           \/ /\ j \in redis'[v] <=> j \in redis[v]
                                              /\ j \notin redis[v] => (Held(j, v)' <=> Held(j, v))
      PROVE  MailStep
  <2>1. \A j \in Items, v \in Users : Where(j, v)' = Where(j, v)
    BY <1>1 DEF Where, OnItsWay
  <2>2. QED
    BY <1>1, <2>1, NothingMoves
<1>2. ASSUME NEW i \in batch[c], WriteQueued(c, i) PROVE MailStep
  <2> PICK u \in Users : u = user[c]
    BY <1>2, WriteQueuedFacts DEF IInv
  <2>1. /\ user[c] \in Users /\ i \in Items /\ Held(i, u)
        /\ UNCHANGED <<stage, to, todo, user, offline, system, redis, failures, crashes, kicks>>
        /\ \A d \in Conns : batch'[d] \subseteq batch[d] /\ (d # c => batch'[d] = batch[d])
        /\ \A j \in batch[c] : j # i => j \in batch'[c]
    BY <1>2, WriteQueuedFacts DEF WriteQueued, delivering, queues, faults, Held, IInv, TypeOK
  <2>2. \A j \in Items, v \in Users : ~(j = i /\ v = u) => (Held(j, v)' <=> Held(j, v))
    BY <2>1 DEF Held
  <2>3. CASE c \in broken
    <3>1. seen' = seen
      BY <1>2, <2>3 DEF WriteQueued, sockets
    <3>2. \A j \in Items, v \in Users : ~(j = i /\ v = u) => Where(j, v)' = Where(j, v)
      BY <2>1, <2>2, <3>1, SamePlace DEF OnItsWay
    <3>3. CASE Where(i, u)' = Where(i, u)
      <4>1. \A j \in Items, v \in Users : Where(j, v)' = Where(j, v)
        BY <3>2, <3>3
      <4>2. QED
        BY <2>1, <4>1, NothingMoves
    <3>4. CASE Where(i, u)' # Where(i, u)
      <4>1. i \notin seen[u] \cup redis[u] /\ ~Held(i, u)'
        BY <2>1, <3>1, <3>4 DEF Where, OnItsWay
      <4>2. u \in to[i] /\ u \notin todo[i]
        BY <4>1 DEF MInv, SentTo, NotHeldYet
      <4>3. Where(i, u) = "held" /\ Where(i, u)' = "lost"
        BY <2>1, <3>1, <4>1, <4>2 DEF Where, OnItsWay
      <4>4. i \notin offline[u] \cup system[u]
        BY <2>1, <4>1 DEF Held
      <4>5. crashes + kicks > 0
        <5>1. InMemory(i, u)
          BY <2>1, <4>2 DEF IInv, Kept, Handled
        <5>2. crashes + kicks # 0
          BY <4>1, <4>4, <5>1 DEF InMemory
        <5>3. crashes \in Nat /\ kicks \in Nat
          BY DEF IInv, TypeOK
        <5>4. QED
          BY <5>2, <5>3
      <4>6. QED
        BY <2>1, <3>2, <4>3, <4>5, OneMoves
    <3>5. QED
      BY <3>3, <3>4
  <2>4. CASE c \notin broken
    <3>1. seen' = [seen EXCEPT ![user[c]] = seen[user[c]] \cup {i}]
      BY <1>2, <2>4 DEF WriteQueued, Take
    <3>2. i \in seen'[user[c]] /\ \A j \in Items, v \in Users :
             ~(j = i /\ v = u) => (j \in seen'[v] <=> j \in seen[v])
      BY <2>1, <3>1 DEF IInv, TypeOK
    <3>3. \A j \in Items, v \in Users : ~(j = i /\ v = u) => Where(j, v)' = Where(j, v)
      BY <2>1, <2>2, <3>2, SamePlace DEF OnItsWay
    <3>4. Where(i, u)' = "delivered" /\ Where(i, u) \in {"held", "kept", "delivered"}
      BY <2>1, <3>2 DEF Where
    <3>5. CASE Where(i, u) = "delivered"
      <4>1. \A j \in Items, v \in Users : Where(j, v)' = Where(j, v)
        BY <3>3, <3>4, <3>5
      <4>2. QED
        BY <2>1, <4>1, NothingMoves
    <3>6. CASE Where(i, u) # "delivered"
      BY <2>1, <3>3, <3>4, <3>6, OneMoves
    <3>7. QED
      BY <3>5, <3>6
  <2>5. QED
    BY <2>3, <2>4
<1>3. ASSUME NEW i \in batch[c], RemoveRedisCopy(c, i) \/ RemoveRedisFails(c, i) PROVE MailStep
  <2>1. user[c] \in Users /\ i \in seen[user[c]] /\ i \in Items
    BY <1>3 DEF RemoveRedisCopy, RemoveRedisFails, IInv, TypeOK, ConnsFit, ConnFits
  <2>2. /\ UNCHANGED <<stage, to, todo, seen, user, offline, system, crashes, kicks>>
        /\ failures' = failures \/ failures' = failures + 1
    BY <1>3 DEF RemoveRedisCopy, RemoveRedisFails, Fail, delivering, sockets, queues, faults
  <2>3. \A j \in Items, v \in Users : ~(j = i /\ v = user[c]) => (j \in redis'[v] <=> j \in redis[v])
    <3>1. CASE redis' = redis
      BY <3>1
    <3>2. CASE redis' = [redis EXCEPT ![user[c]] = redis[user[c]] \ {i}]
      BY <2>1, <3>2 DEF IInv, TypeOK
    <3>3. QED
      BY <1>3, <3>1, <3>2 DEF RemoveRedisCopy, RemoveRedisFails, queues
  <2>4. \A d \in Conns : \A j \in Items :
           (j \in batch'[d] <=> j \in batch[d]) \/ (d = c /\ j = i)
    <3>1. batch' = [batch EXCEPT ![c] = batch[c] \ {i}]
      BY <1>3 DEF RemoveRedisCopy, RemoveRedisFails
    <3>2. batch \in [Conns -> SUBSET Items]
      BY DEF IInv, TypeOK
    <3>3. QED
      BY <3>1, <3>2
  <2>5. \A j \in Items, v \in Users : ~(j = i /\ v = user[c]) => (Held(j, v)' <=> Held(j, v))
    BY <2>2, <2>4 DEF Held
  <2>6. QED
    BY <1>1, <2>1, <2>2, <2>3, <2>5
<1>4. ASSUME ClearOffline(c) \/ ClearSystem(c) PROVE MailStep
  <2>1. user[c] \in Users /\ done[c] \subseteq seen[user[c]]
    BY <1>4 DEF ClearOffline, ClearSystem, IInv, ConnsFit, ConnFits
  <2>2. /\ UNCHANGED <<stage, to, todo, seen, user, batch, redis, failures, crashes, kicks>>
        /\ offline' = offline \/ offline' = [offline EXCEPT ![user[c]] = offline[user[c]] \ done[c]]
        /\ system' = system \/ system' = [system EXCEPT ![user[c]] = system[user[c]] \ done[c]]
    BY <1>4 DEF ClearOffline, ClearSystem, delivering, sockets, faults
  <2>3. ASSUME NEW q \in [Users -> SUBSET Items], NEW r,
               r = q \/ r = [q EXCEPT ![user[c]] = q[user[c]] \ done[c]]
        PROVE  \A v \in Users : \A j \in Items : j \in seen[v] \/ (j \in r[v] <=> j \in q[v])
    BY <2>1, <2>3
  <2>4. offline \in [Users -> SUBSET Items] /\ system \in [Users -> SUBSET Items]
    BY DEF IInv, TypeOK, Items, Kinds
  <2>5. \A v \in Users : \A j \in Items :
           j \in seen[v] \/ (j \in offline'[v] \cup system'[v] <=> j \in offline[v] \cup system[v])
    <3>1. \A v \in Users : \A j \in Items : j \in seen[v] \/ (j \in offline'[v] <=> j \in offline[v])
      BY <2>2, <2>3, <2>4
    <3>2. \A v \in Users : \A j \in Items : j \in seen[v] \/ (j \in system'[v] <=> j \in system[v])
      BY <2>2, <2>3, <2>4
    <3>3. QED
      BY <3>1, <3>2
  <2>6. \A j \in Items, v \in Users : j \in seen[v] \/ (Held(j, v)' <=> Held(j, v))
    BY <2>2, <2>5 DEF Held
  <2>7. QED
    BY <1>1, <2>2, <2>6
<1>5. ASSUME ListRedis(c) PROVE MailStep
  <2>1. /\ user[c] \in Users /\ batch[c] = {} /\ batch'[c] = redis[user[c]]
        /\ \A d \in Conns \ {c} : batch'[d] = batch[d]
        /\ UNCHANGED <<stage, to, todo, seen, user, offline, system, redis, failures, crashes, kicks>>
    BY <1>5 DEF ListRedis, delivering, sockets, queues, faults, IInv, TypeOK, ConnsFit, ConnFits,
       MInv, NothingLeft
  <2>2. \A j \in Items, v \in Users : j \notin redis[v] => (Held(j, v)' <=> Held(j, v))
    BY <2>1 DEF Held
  <2>3. QED
    BY <1>1, <2>1, <2>2
<1>6. ASSUME ListRedisFails(c) \/ StartReading(c) \/ UnregisterConnection(c) \/ Break(c)
      PROVE  MailStep
  <2>1. /\ UNCHANGED <<stage, to, todo, seen, user, batch, offline, system, redis, crashes, kicks>>
        /\ failures' = failures \/ failures' = failures + 1
    BY <1>6 DEF ListRedisFails, Fail, StartReading, UnregisterConnection, Break, delivering, serving,
       sockets, queues, faults
  <2>2. QED
    BY <1>1, <2>1 DEF Held
<1>7. ASSUME NEW u \in Users, NEW fg \in BOOLEAN, RegisterConnection(c, u, fg) PROVE MailStep
  <2>1. /\ batch[c] = {} /\ user'[c] = u /\ batch'[c] \subseteq offline[u] \cup system[u]
        /\ \A d \in Conns \ {c} : batch'[d] = batch[d] /\ user'[d] = user[d]
        /\ UNCHANGED <<stage, to, todo, seen, offline, system, redis, failures, crashes, kicks>>
    BY <1>7 DEF RegisterConnection, Unused, delivering, queues, faults, IInv, TypeOK,
       MInv, NothingLeft
  <2>2. \A j \in Items, v \in Users : Held(j, v)' <=> Held(j, v)
    BY <2>1 DEF Held
  <2>3. QED
    BY <1>1, <2>1, <2>2
<1>8. QED
  BY <1>2, <1>3, <1>4, <1>5, <1>6, <1>7 DEF Drain

\* A kick empties one user's queues; what a drain has read is held on.
LEMMA KickIsMail ==
  ASSUME IInv, MInv, NEW u \in Users, KickUserConnections(u)
  PROVE  MailStep
<1> DEFINE is == {i \in Items : Where(i, u) = "held" /\ Where(i, u)' = "lost"}
<1>1. /\ UNCHANGED <<stage, to, todo, seen, user, batch, redis, failures, crashes>>
      /\ kicks' = kicks + 1
      /\ \A v \in Users : /\ v # u => offline'[v] = offline[v] /\ system'[v] = system[v]
                          /\ offline'[v] \subseteq offline[v] /\ system'[v] \subseteq system[v]
  BY DEF KickUserConnections, delivering, serving, sockets, IInv, TypeOK
<1>2. \A j \in Items, v \in Users : v # u => Where(j, v)' = Where(j, v)
  BY <1>1, SamePlace DEF Held, OnItsWay
<1>3. ASSUME NEW i \in Items, Where(i, u)' # Where(i, u)
      PROVE  Where(i, u) = "held" /\ Where(i, u)' = "lost"
  <2>1. i \notin seen[u] /\ i \notin redis[u] /\ Held(i, u) /\ ~Held(i, u)'
    BY <1>1, <1>3 DEF Where, OnItsWay, Held
  <2>2. i \in offline[u] \cup system[u]
    BY <1>1, <2>1 DEF Held
  <2>3. u \in to[i] /\ u \notin todo[i]
    BY <2>2 DEF MInv, SentTo, NotHeldYet, Waiting
  <2>4. QED
    BY <1>1, <2>1, <2>3 DEF Where, OnItsWay
<1>4. \A j \in Items, v \in Users : Where(j, v)' = IF <<j, v>> \in is \X {u} THEN "lost" ELSE Where(j, v)
  BY <1>2, <1>3
<1>5. Mail!Put(is \X {u}, "lost")
  BY <1>4, BoxesMove
<1>6. is \in SUBSET {i \in Mail!Items : Boxes[i][u] = "held"}
  BY MailNames
<1>7. (failures' > 0) = (failures > 0) /\ (crashes' + kicks' > 0) = TRUE
  BY <1>1 DEF IInv, TypeOK
<1>8. Mail!Kick(u)
  BY <1>5, <1>6, <1>7 DEF Mail!Kick
<1>9. QED
  BY <1>8 DEF MailStep, Mail!Next

\* A restart loses what was under way or in memory, and only that.
LEMMA RestartIsMail ==
  ASSUME IInv, MInv, Crash
  PROVE  MailStep
<1> DEFINE gone == {p \in Items \X Users : Boxes[p[1]][p[2]] \in {"pending", "held"}}
<1>1. /\ UNCHANGED <<to, todo, seen, redis, failures, kicks>> /\ crashes' = crashes + 1
      /\ \A i \in Items, u \in Users : ~Held(i, u)'
  BY DEF Crash, sockets, Held
<1>2. \A i \in Items, u \in Users : ~OnItsWay(i, u)'
  <2>1. \A i \in Items : stage'[i] = "cut" \/ (stage[i] \in {"none", "done"} /\ stage'[i] = stage[i])
    BY DEF Crash
  <2>2. \A i \in Items : stage[i] \in {"none", "done"} => todo[i] = {}
    BY DEF MInv, NothingLeft, IInv, ItemsFit, ItemFits
  <2>3. QED
    BY <1>1, <2>1, <2>2 DEF OnItsWay
<1>3. ASSUME NEW i \in Items, NEW u \in Users
      PROVE  Where(i, u)' = IF Where(i, u) \in {"pending", "held"} THEN "lost" ELSE Where(i, u)
  <2>1. Held(i, u) \/ OnItsWay(i, u) => u \in to[i]
    BY DEF MInv, SentTo, Waiting, Held, OnItsWay, IInv, ItemsFit, ItemFits
  <2>2. QED
    BY <1>1, <1>2, <2>1 DEF Where
<1>4. \A i \in Items, u \in Users : <<i, u>> \in gone <=> Where(i, u) \in {"pending", "held"}
  BY MailNames
<1>5. Mail!Put(gone, "lost")
  BY <1>3, <1>4, BoxesMove
<1>6. gone = {p \in Mail!Items \X Users : Boxes[p[1]][p[2]] \in {"pending", "held"}}
  BY MailNames
<1>7. (failures' > 0) = (failures > 0) /\ (crashes' + kicks' > 0) = TRUE
  BY <1>1 DEF IInv, TypeOK
<1>8. Mail!Restart
  BY <1>5, <1>6, <1>7 DEF Mail!Restart
<1>9. QED
  BY <1>8 DEF MailStep, Mail!Next

\* Every step of the service is one the mailbox may take.
LEMMA NextIsMail ==
  ASSUME IInv, MInv, [Next]_vars
  PROVE  MailStep
<1>1. ASSUME UNCHANGED <<stage, to, todo, seen, user, batch, queues, faults>> PROVE MailStep
  <2>1. \A i \in Items, u \in Users : Where(i, u)' = Where(i, u)
    BY <1>1, SamePlace DEF Held, OnItsWay, queues
  <2>2. QED
    BY <1>1, <2>1, NothingMoves DEF faults
<1>2. ASSUME NEW m \in Messages, Forget(m) PROVE MailStep
  BY <1>1, <1>2 DEF Forget, delivering, serving, sockets
<1>3. CASE UNCHANGED vars
  BY <1>1, <1>3 DEF vars, delivering, serving, sockets
<1>4. QED
  BY <1>2, <1>3, SendIsMail, RecallIsMail, DeliverIsMail, ConnIsMail, KickIsMail, RestartIsMail
  DEF Next, Sending, Connecting, Failing

\* The service is a mailbox to each of its users: goroutines that deliver, that
\* drain and that serve other connections, kicks, restarts and a failing Redis
\* do to his items what Mailbox allows and nothing else.
THEOREM ImplementsMailbox == Spec => MailIsKept
<1>1. Init => Mail!Init
  <2> SUFFICES ASSUME Init PROVE Mail!Init
    OBVIOUS
  <2>1. \A i \in Items, u \in Users : Where(i, u) = "none"
    BY DEF Init, Where, Held, OnItsWay
  <2>2. Boxes = [i \in Mail!Items |-> [u \in Users |-> "none"]]
    BY <2>1, MailNames DEF Boxes
  <2>3. (failures > 0) = FALSE /\ (crashes + kicks > 0) = FALSE
    BY DEF Init
  <2>4. QED
    BY <2>2, <2>3 DEF Mail!Init
<1>2. IInv /\ MInv /\ [Next]_vars => MInv' /\ [Mail!Next]_(Mail!vars)
  BY NextMInv, NextIsMail DEF MailStep
<1>3. Init => MInv
  BY InitMInv
<1>4. QED
  BY Invariant, <1>1, <1>2, <1>3, PTL DEF Spec, MailIsKept, Mail!Spec
=============================================================================
