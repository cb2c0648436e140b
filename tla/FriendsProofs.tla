---------------------------- MODULE FriendsProofs ---------------------------
(* Friends, for every set of users and any number of requests in flight:    *)
(* friendship is mutual, and an accepted request has made friends.          *)
(*                                                                          *)
(* The invariant says what each transaction has written by its stage, that  *)
(* no two have written the same row, that a row about to be removed is      *)
(* still there, and that the other row of it is removed as well or is gone. *)
EXTENDS Friends, TLAPS

Early == {"idle", "check", "ask", "reject", "save"}

\* What a request in flight has written, by its stage.
Shape(t) ==
    /\ t.stage \in Early => t.took = {} /\ t.saved = {}
    /\ t.stage = "befriend" => t.kind = "accept" /\ t.took = {} /\ t.saved = {t.pair}
    /\ t.stage = "return" => t.kind = "accept" /\ t.took = {t.pair} /\ t.saved = {t.pair}
    /\ t.stage = "unfriend" => t.kind = "remove" /\ t.took \subseteq {t.pair} /\ t.saved = {}
    /\ t.stage = "wipe" => t.kind = "wipe" /\ t.saved = {}
    /\ t.stage = "commit" =>
          /\ t.kind # "none"
          /\ t.kind = "accept" => t.pair \in Pairs /\ t.took = Both(t.pair) /\ t.saved = {t.pair}
          /\ t.kind = "remove" => t.saved = {}

\* The rows it removes are there; each one's mirror goes with it or is gone.
Removes(t) ==
    t.kind # "accept" =>
        /\ \A row \in t.took : friend[row]
        /\ t.stage \in {"wipe", "commit"} =>
              \A row \in t.took : Mirror(row) \in t.took \/ ~friend[Mirror(row)] \/ row \in torn

\* A removal passes over a row that is not there.
Passes(t) == t.stage = "unfriend" /\ t.took = {} => ~friend[t.pair] \/ t.pair \in torn

Good(t) == Shape(t) /\ Removes(t) /\ Passes(t)

Exclusive ==
    \A p, q \in Workers : p # q =>
        tx[p].took \cap tx[q].took = {} /\ tx[p].saved \cap tx[q].saved = {}

TornBoth == \A pr \in torn : Mirror(pr) \in torn

IInv ==
    /\ FriendTypeOK
    /\ \A p \in Workers : Good(tx[p])
    /\ Exclusive /\ TornBoth /\ FriendsSymmetric /\ AcceptedAreFriends

----------------------------------------------------------------------------
LEMMA Mirrors ==
    \A pr \in Pairs : /\ Mirror(pr) \in Pairs /\ Mirror(Mirror(pr)) = pr
                      /\ Both(Mirror(pr)) = Both(pr) /\ Both(pr) \subseteq Pairs
                      /\ pr \in Both(pr) /\ Mirror(pr) \in Both(pr) /\ Mirror(pr) # pr
  BY DEF Pairs, Mirror, Both

LEMMA InitGood == FriendInit => IInv
  <1> SUFFICES ASSUME FriendInit PROVE IInv
    OBVIOUS
  <1>1. NoTx \in TxType
    BY DEF NoTx, TxType, TxStages
  <1>2. FriendTypeOK
    BY <1>1 DEF FriendInit, FriendTypeOK, NoTx
  <1>3. \A p \in Workers : Good(tx[p])
    BY DEF FriendInit, Good, Shape, Removes, Passes, NoTx, Early
  <1> QED
    BY <1>2, <1>3 DEF FriendInit, IInv, Exclusive, TornBoth, FriendsSymmetric,
       AcceptedAreFriends, NoTx, Pairs, Mirror

\* One request moves on, the committed friend rows stay as they are.
LEMMA Moves ==
    ASSUME IInv, NEW p \in Workers, NEW t \in TxType,
           tx' = [tx EXCEPT ![p] = t], UNCHANGED <<friend, torn, ended>>,
           t.stage \notin {"idle", "wipe", "commit"} => t.pair \in Pairs,
           Good(t),
           \A q \in Workers \ {p} :
               t.took \cap tx[q].took = {} /\ t.saved \cap tx[q].saved = {},
           request' \in [Pairs -> {"none", "pending", "accepted", "rejected"}],
           \A pr \in Pairs : request'[pr] = "accepted" => request[pr] = "accepted"
    PROVE  IInv'
  <1>1. FriendTypeOK'
    BY DEF IInv, FriendTypeOK
  <1>2. \A q \in Workers : Good(tx[q])'
    <2> SUFFICES ASSUME NEW q \in Workers PROVE Good(tx[q])'
      OBVIOUS
    <2>1. tx'[q] = IF q = p THEN t ELSE tx[q]
      BY DEF IInv, FriendTypeOK
    <2>2. Good(tx[q])
      BY DEF IInv
    <2> QED
      BY <2>1, <2>2 DEF Good, Shape, Removes, Passes
  <1>3. Exclusive'
    <2> SUFFICES ASSUME NEW q \in Workers, NEW r \in Workers, q # r
                 PROVE  tx'[q].took \cap tx'[r].took = {} /\ tx'[q].saved \cap tx'[r].saved = {}
      BY DEF Exclusive
    <2>1. \A s \in Workers : tx'[s] = IF s = p THEN t ELSE tx[s]
      BY DEF IInv, FriendTypeOK
    <2> QED
      BY <2>1 DEF IInv, Exclusive
  <1>4. TornBoth' /\ FriendsSymmetric' /\ AcceptedAreFriends'
    BY DEF IInv, TornBoth, FriendsSymmetric, AcceptedAreFriends
  <1> QED
    BY <1>1, <1>2, <1>3, <1>4 DEF IInv


----------------------------------------------------------------------------
(* One lemma for each group of steps, all but the last by Moves.            *)

\* The same for the steps that write nothing at all yet.
LEMMA Quiet ==
    ASSUME IInv, NEW p \in Workers, NEW t \in TxType,
           tx' = [tx EXCEPT ![p] = t], UNCHANGED <<friend, torn, ended, request>>,
           t.stage \notin {"idle", "wipe", "commit"} => t.pair \in Pairs,
           Good(t),
           \A q \in Workers \ {p} :
               t.took \cap tx[q].took = {} /\ t.saved \cap tx[q].saved = {}
    PROVE  IInv'
  <1>1. request' \in [Pairs -> {"none", "pending", "accepted", "rejected"}]
    BY DEF IInv, FriendTypeOK
  <1>2. \A pr \in Pairs : request'[pr] = "accepted" => request[pr] = "accepted"
    OBVIOUS
  <1> QED
    BY <1>1, <1>2, Moves

LEMMA RequestTyped ==
    ASSUME IInv, UNCHANGED request
    PROVE  /\ request' \in [Pairs -> {"none", "pending", "accepted", "rejected"}]
           /\ \A pr \in Pairs : request'[pr] = "accepted" => request[pr] = "accepted"
  BY DEF IInv, FriendTypeOK

\* The request in flight that is left with nothing.
LEMMA Ends ==
    ASSUME IInv, NEW p \in Workers, End(p), UNCHANGED <<friend, torn, ended>>,
           request' \in [Pairs -> {"none", "pending", "accepted", "rejected"}],
           \A pr \in Pairs : request'[pr] = "accepted" => request[pr] = "accepted"
    PROVE  IInv'
  <1>1. NoTx \in TxType /\ Good(NoTx)
    BY DEF NoTx, TxType, TxStages, Good, Shape, Removes, Passes, Early
  <1>2. tx' = [tx EXCEPT ![p] = NoTx]
    BY DEF End
  <1>3. /\ NoTx.stage = "idle"
        /\ \A q \in Workers \ {p} :
              NoTx.took \cap tx[q].took = {} /\ NoTx.saved \cap tx[q].saved = {}
    BY DEF NoTx
  <1> QED
    BY <1>1, <1>2, <1>3, Moves

LEMMA SendStep ==
    ASSUME IInv, NEW p \in Workers, NEW pr \in Pairs, SendFriendRequest(p, pr)
    PROVE  IInv'
  <1> DEFINE t == [NoTx EXCEPT !.stage = "check", !.pair = pr]
  <1>1. t \in TxType /\ Good(t) /\ t.took = {} /\ t.saved = {} /\ t.pair \in Pairs
    BY DEF NoTx, TxType, TxStages, Good, Shape, Removes, Passes, Early
  <1>2. tx' = [tx EXCEPT ![p] = t] /\ UNCHANGED <<friend, torn, ended, request>>
    BY DEF SendFriendRequest, Begin
  <1> HIDE DEF t
  <1>9. \A q \in Workers \ {p} : t.took \cap tx[q].took = {} /\ t.saved \cap tx[q].saved = {}
    BY <1>1, <1>2
  <1> QED
    BY <1>1, <1>2, <1>9, Quiet

LEMMA CheckStep ==
    ASSUME IInv, NEW p \in Workers, CheckRequestExists(p)
    PROVE  IInv'
  <1> DEFINE t == [tx[p] EXCEPT !.stage = "ask"]
  <1>1. tx[p] \in TxType /\ tx[p].stage = "check" /\ tx[p].pair \in Pairs /\ Good(tx[p])
    BY DEF CheckRequestExists, InTx, IInv, FriendTypeOK
  <1>2. t \in TxType /\ Good(t) /\ t.took = {} /\ t.saved = {} /\ t.pair \in Pairs
    BY <1>1 DEF TxType, TxStages, Good, Shape, Removes, Passes, Early
  <1>3. UNCHANGED <<friend, torn, ended, request>>
    BY DEF CheckRequestExists
  <1>4. CASE End(p)
    BY <1>3, <1>4, Ends, RequestTyped
  <1>5. CASE tx' = [tx EXCEPT ![p] = t]
    <2> HIDE DEF t
    <2>1. \A q \in Workers \ {p} : t.took \cap tx[q].took = {} /\ t.saved \cap tx[q].saved = {}
      BY <1>2
    <2> QED
      BY <1>2, <1>3, <1>5, <2>1, Quiet
  <1>6. End(p) \/ tx' = [tx EXCEPT ![p] = t]
    BY <1>1 DEF CheckRequestExists, Advance
  <1> QED
    BY <1>4, <1>5, <1>6

LEMMA UpsertStep ==
    ASSUME IInv, NEW p \in Workers, UpsertRequest(p) \/ UpdateRequestStatus(p)
    PROVE  IInv'
  <1>1. End(p) /\ UNCHANGED <<friend, torn, ended>>
    BY DEF UpsertRequest, UpdateRequestStatus
  <1>2. request' \in [Pairs -> {"none", "pending", "accepted", "rejected"}]
    BY DEF UpsertRequest, UpdateRequestStatus, IInv, FriendTypeOK
  <1>3. \A pr \in Pairs : request'[pr] = "accepted" => request[pr] = "accepted"
    BY DEF UpsertRequest, UpdateRequestStatus, IInv, FriendTypeOK
  <1> QED
    BY <1>1, <1>2, <1>3, Ends

LEMMA HandleStep ==
    ASSUME IInv, NEW p \in Workers, NEW pr \in Pairs, NEW answer \in {"reject", "save"},
           HandleFriendRequest(p, pr, answer)
    PROVE  IInv'
  <1> DEFINE t == [NoTx EXCEPT !.stage = answer, !.pair = pr]
  <1>1. t \in TxType /\ Good(t) /\ t.took = {} /\ t.saved = {} /\ t.pair \in Pairs
    BY DEF NoTx, TxType, TxStages, Good, Shape, Removes, Passes, Early
  <1>2. tx' = [tx EXCEPT ![p] = t] /\ UNCHANGED <<friend, torn, ended, request>>
    BY DEF HandleFriendRequest, Begin
  <1> HIDE DEF t
  <1>9. \A q \in Workers \ {p} : t.took \cap tx[q].took = {} /\ t.saved \cap tx[q].saved = {}
    BY <1>1, <1>2
  <1> QED
    BY <1>1, <1>2, <1>9, Quiet

LEMMA SaveStep ==
    ASSUME IInv, NEW p \in Workers, SaveAccepted(p)
    PROVE  IInv'
  <1> DEFINE t == [tx[p] EXCEPT !.stage = "befriend", !.kind = "accept", !.saved = {tx[p].pair}]
  <1>1. tx[p] \in TxType /\ tx[p].stage = "save" /\ tx[p].pair \in Pairs /\ Good(tx[p])
    BY DEF SaveAccepted, InTx, IInv, FriendTypeOK
  <1>2. t \in TxType /\ Good(t) /\ t.took = {} /\ t.saved = {tx[p].pair} /\ t.pair \in Pairs
    BY <1>1 DEF TxType, TxStages, Good, Shape, Removes, Passes, Early
  <1>3. tx' = [tx EXCEPT ![p] = t] /\ UNCHANGED <<friend, torn, ended, request>>
    BY <1>1 DEF SaveAccepted
  <1>4. \A q \in Workers \ {p} : tx[p].pair \notin tx[q].saved
    BY DEF SaveAccepted, CanSave, RequestFree
  <1> HIDE DEF t
  <1>9. \A q \in Workers \ {p} : t.took \cap tx[q].took = {} /\ t.saved \cap tx[q].saved = {}
    BY <1>2, <1>3, <1>4
  <1> QED
    BY <1>2, <1>3, <1>4, <1>9, Quiet

LEMMA SenderStep ==
    ASSUME IInv, NEW p \in Workers, UpsertSender(p)
    PROVE  IInv'
  <1> DEFINE t == [tx[p] EXCEPT !.stage = "return", !.took = {tx[p].pair}]
  <1>1. tx[p] \in TxType /\ tx[p].stage = "befriend" /\ tx[p].pair \in Pairs /\ Good(tx[p])
    BY DEF UpsertSender, InTx, IInv, FriendTypeOK
  <1>2. t \in TxType /\ Good(t) /\ t.took = {tx[p].pair} /\ t.saved = tx[p].saved /\ t.pair \in Pairs
    BY <1>1 DEF TxType, TxStages, Good, Shape, Removes, Passes, Early
  <1>3. tx' = [tx EXCEPT ![p] = t] /\ UNCHANGED <<friend, torn, ended, request>>
    BY <1>1 DEF UpsertSender
  <1>4. \A q \in Workers \ {p} : tx[p].pair \notin tx[q].took /\ tx[p].saved \cap tx[q].saved = {}
    BY DEF UpsertSender, FriendFree, IInv, Exclusive
  <1> HIDE DEF t
  <1>9. \A q \in Workers \ {p} : t.took \cap tx[q].took = {} /\ t.saved \cap tx[q].saved = {}
    BY <1>2, <1>3, <1>4
  <1> QED
    BY <1>2, <1>3, <1>4, <1>9, Quiet

LEMMA ReceiverStep ==
    ASSUME IInv, NEW p \in Workers, UpsertReceiver(p)
    PROVE  IInv'
  <1> DEFINE t == [tx[p] EXCEPT !.stage = "commit", !.took = Both(tx[p].pair)]
  <1>1. tx[p] \in TxType /\ tx[p].stage = "return" /\ tx[p].pair \in Pairs /\ Good(tx[p])
    BY DEF UpsertReceiver, InTx, IInv, FriendTypeOK
  <1>2. Both(tx[p].pair) \subseteq Pairs
    BY <1>1, Mirrors
  <1>3. t \in TxType /\ Good(t) /\ t.took = Both(tx[p].pair) /\ t.saved = tx[p].saved /\ t.pair \in Pairs
    BY <1>1, <1>2 DEF TxType, TxStages, Good, Shape, Removes, Passes, Early
  <1>4. tx' = [tx EXCEPT ![p] = t] /\ UNCHANGED <<friend, torn, ended, request>>
    BY <1>1 DEF UpsertReceiver
  <1>5. \A q \in Workers \ {p} :
            Both(tx[p].pair) \cap tx[q].took = {} /\ tx[p].saved \cap tx[q].saved = {}
    BY <1>1 DEF UpsertReceiver, FriendFree, IInv, Exclusive, Both, Good, Shape
  <1> HIDE DEF t
  <1>9. \A q \in Workers \ {p} : t.took \cap tx[q].took = {} /\ t.saved \cap tx[q].saved = {}
    BY <1>3, <1>4, <1>5
  <1> QED
    BY <1>3, <1>4, <1>5, <1>9, Quiet

LEMMA RemoveStep ==
    ASSUME IInv, NEW p \in Workers, NEW pr \in Pairs, RemoveBothFriends(p, pr)
    PROVE  IInv'
  <1> DEFINE rows == {row \in {pr} : friend[row]}
             t == [NoTx EXCEPT !.stage = "unfriend", !.kind = "remove", !.pair = pr, !.took = rows]
  <1>1. t \in TxType /\ t.took = rows /\ t.saved = {} /\ t.pair = pr /\ t.stage = "unfriend"
        /\ t.kind = "remove"
    BY DEF NoTx, TxType, TxStages
  <1>2. Good(t)
    BY DEF NoTx, Good, Shape, Removes, Passes, Early
  <1>3. tx' = [tx EXCEPT ![p] = t] /\ UNCHANGED <<friend, torn, ended, request>>
    BY DEF RemoveBothFriends, Begin
  <1>4. \A q \in Workers \ {p} : rows \cap tx[q].took = {}
    BY DEF RemoveBothFriends, FriendFree
  <1> HIDE DEF t, rows
  <1>9. \A q \in Workers \ {p} : t.took \cap tx[q].took = {} /\ t.saved \cap tx[q].saved = {}
    BY <1>1, <1>2, <1>3, <1>4
  <1> QED
    BY <1>1, <1>2, <1>3, <1>4, <1>9, Quiet

LEMMA ReverseStep ==
    ASSUME IInv, NEW p \in Workers, RemoveReverse(p)
    PROVE  IInv'
  <1> DEFINE back == Mirror(tx[p].pair)
             rows == {row \in {back} : friend[row]}
             t == [tx[p] EXCEPT !.stage = "commit", !.took = tx[p].took \cup rows]
  <1>1. tx[p] \in TxType /\ tx[p].stage = "unfriend" /\ tx[p].pair \in Pairs /\ Good(tx[p])
    BY DEF RemoveReverse, InTx, IInv, FriendTypeOK
  <1>2. back \in Pairs /\ Mirror(back) = tx[p].pair
    BY <1>1, Mirrors
  <1>3. t \in TxType /\ t.took = tx[p].took \cup rows /\ t.saved = {} /\ t.pair \in Pairs
        /\ t.stage = "commit" /\ t.kind = "remove"
    BY <1>1, <1>2 DEF TxType, TxStages, Good, Shape
  <1>4. \A row \in t.took : friend[row]
    BY <1>1, <1>3 DEF Good, Removes, Shape
  <1>5. \A row \in t.took : Mirror(row) \in t.took \/ ~friend[Mirror(row)] \/ row \in torn
    <2>1. tx[p].took = {} \/ tx[p].took = {tx[p].pair}
      BY <1>1 DEF Good, Shape
    <2>2. friend[back] => back \in rows
      OBVIOUS
    <2>3. CASE tx[p].took = {}
      <3>1. ~friend[tx[p].pair] \/ tx[p].pair \in torn
        BY <1>1, <2>3 DEF Good, Passes
      <3>2. tx[p].pair \in torn => back \in torn
        BY DEF IInv, TornBoth
      <3> QED
        BY <1>2, <1>3, <2>3, <3>1, <3>2
    <2>4. CASE tx[p].took = {tx[p].pair}
      BY <1>2, <1>3, <2>2, <2>4
    <2> QED
      BY <2>1, <2>3, <2>4
  <1>6. Good(t)
    BY <1>3, <1>4, <1>5 DEF Good, Shape, Removes, Passes, Early
  <1>7. tx' = [tx EXCEPT ![p] = t] /\ UNCHANGED <<friend, torn, ended, request>>
    BY <1>1 DEF RemoveReverse
  <1>8. \A q \in Workers \ {p} : t.took \cap tx[q].took = {}
    BY <1>3 DEF RemoveReverse, FriendFree, IInv, Exclusive
  <1> HIDE DEF t, rows, back
  <1>9. \A q \in Workers \ {p} : t.took \cap tx[q].took = {} /\ t.saved \cap tx[q].saved = {}
    BY <1>3, <1>6, <1>7, <1>8
  <1> QED
    BY <1>3, <1>6, <1>7, <1>8, <1>9, Quiet

LEMMA WipeStep ==
    ASSUME IInv, NEW p \in Workers, NEW u \in Users, DeleteFriends(p, u)
    PROVE  IInv'
  <1> DEFINE rows == {pr \in Pairs : u \in {pr[1], pr[2]} /\ friend[pr]}
             t == [NoTx EXCEPT !.stage = "wipe", !.kind = "wipe", !.pair = <<u, u>>, !.took = rows]
  <1>1. t \in TxType /\ t.took = rows /\ t.saved = {} /\ t.stage = "wipe" /\ t.kind = "wipe"
    BY DEF NoTx, TxType, TxStages
  <1>2. \A row \in rows : friend[row] /\ (Mirror(row) \in rows \/ ~friend[Mirror(row)])
    BY Mirrors DEF Mirror
  <1>3. Good(t)
    BY <1>1, <1>2 DEF Good, Shape, Removes, Passes, Early
  <1>4. tx' = [tx EXCEPT ![p] = t] /\ UNCHANGED <<friend, torn, ended, request>>
    BY DEF DeleteFriends, Begin
  <1>5. \A q \in Workers \ {p} : rows \cap tx[q].took = {}
    BY DEF DeleteFriends, FriendFree
  <1> HIDE DEF t, rows
  <1>9. \A q \in Workers \ {p} : t.took \cap tx[q].took = {} /\ t.saved \cap tx[q].saved = {}
    BY <1>1, <1>3, <1>4, <1>5
  <1> QED
    BY <1>1, <1>3, <1>4, <1>5, <1>9, Quiet

LEMMA WipeRequestsStep ==
    ASSUME IInv, NEW p \in Workers, DeleteRequests(p)
    PROVE  IInv'
  <1> DEFINE u == tx[p].pair[1]
             rows == {pr \in Pairs : u \in {pr[1], pr[2]} /\ request[pr] # "none"}
             t == [tx[p] EXCEPT !.stage = "commit", !.saved = rows]
  <1>1. tx[p] \in TxType /\ tx[p].stage = "wipe" /\ Good(tx[p])
    BY DEF DeleteRequests, InTx, IInv, FriendTypeOK
  <1>2. t \in TxType /\ t.took = tx[p].took /\ t.saved = rows /\ t.stage = "commit"
        /\ t.kind = "wipe"
    BY <1>1 DEF TxType, TxStages, Good, Shape
  <1>3. Good(t)
    BY <1>1, <1>2 DEF Good, Shape, Removes, Passes, Early
  <1>4. tx' = [tx EXCEPT ![p] = t] /\ UNCHANGED <<friend, torn, ended, request>>
    BY <1>1 DEF DeleteRequests
  <1>5. \A q \in Workers \ {p} : rows \cap tx[q].saved = {} /\ tx[p].took \cap tx[q].took = {}
    BY DEF DeleteRequests, RequestFree, IInv, Exclusive
  <1> HIDE DEF t, rows
  <1>9. \A q \in Workers \ {p} : t.took \cap tx[q].took = {} /\ t.saved \cap tx[q].saved = {}
    BY <1>2, <1>3, <1>4, <1>5
  <1> QED
    BY <1>2, <1>3, <1>4, <1>5, <1>9, Quiet

LEMMA RollbackStep ==
    ASSUME IInv, NEW p \in Workers, Rollback(p)
    PROVE  IInv'
  BY Ends, RequestTyped DEF Rollback

----------------------------------------------------------------------------
(* A commit.  What it publishes is disjoint from what the others have       *)
(* written, and a pair of rows is published or removed by its halves' marks. *)

\* What is left of each request in flight.
LEMMA Leaves ==
    ASSUME IInv, NEW p \in Workers, Commit(p)
    PROVE  /\ tx' \in [Workers -> TxType]
           /\ tx'[p] = NoTx
           /\ \A q \in Workers \ {p} :
                 /\ tx'[q].stage = tx[q].stage /\ tx'[q].kind = tx[q].kind
                 /\ tx'[q].pair = tx[q].pair /\ tx'[q].took = tx[q].took
                 /\ tx'[q].saved = tx[q].saved
  <1>1. NoTx \in TxType
    BY DEF NoTx, TxType, TxStages
  <1>2. tx \in [Workers -> TxType]
    BY DEF IInv, FriendTypeOK
  <1>3. tx'[p] = NoTx
    BY DEF Commit
  <1>4. ASSUME NEW q \in Workers \ {p}
        PROVE  /\ tx'[q] \in TxType
               /\ tx'[q].stage = tx[q].stage /\ tx'[q].kind = tx[q].kind
               /\ tx'[q].pair = tx[q].pair /\ tx'[q].took = tx[q].took
               /\ tx'[q].saved = tx[q].saved
    <2> DEFINE late == tx[q].stale \/ (/\ tx[p].kind = "wipe"
                                       /\ tx[q].stage \in {"reject", "save"}
                                       /\ tx[q].pair \in tx[p].saved)
    <2>1. tx'[q] = [tx[q] EXCEPT !.stale = late]
      BY DEF Commit
    <2>2. tx[q] \in TxType
      BY <1>2
    <2>3. late \in BOOLEAN
      BY <2>2 DEF TxType
    <2> HIDE DEF late
    <2> QED
      BY <2>1, <2>2, <2>3 DEF TxType
  <1>5. tx' = [q \in Workers |-> tx'[q]]
    BY DEF Commit
  <1> QED
    BY <1>1, <1>3, <1>4, <1>5

\* What a commit publishes of the friend rows.
LEMMA Publishes ==
    ASSUME IInv, NEW p \in Workers, Commit(p)
    PROVE  /\ tx[p] \in TxType /\ Good(tx[p]) /\ tx[p].stage = "commit"
           /\ friend' \in [Pairs -> BOOLEAN]
           /\ \A pr \in Pairs :
                 friend'[pr] = IF pr \in tx[p].took THEN tx[p].kind = "accept" ELSE friend[pr]
           /\ torn \subseteq torn' /\ torn' \subseteq Pairs /\ TornBoth'
  <1>1. tx[p] \in TxType /\ Good(tx[p]) /\ tx[p].stage = "commit"
    BY DEF IInv, FriendTypeOK, Commit, InTx
  <1>2. friend \in [Pairs -> BOOLEAN] /\ torn \subseteq Pairs
    BY DEF IInv, FriendTypeOK
  <1>3. friend' \in [Pairs -> BOOLEAN]
    BY <1>2, Zenon DEF Commit
  <1>4. \A pr \in Pairs :
            friend'[pr] = IF pr \in tx[p].took THEN tx[p].kind = "accept" ELSE friend[pr]
    BY Zenon DEF Commit
  <1>5. torn \subseteq torn' /\ torn' \subseteq Pairs /\ TornBoth'
    <2>1. CASE tx[p].kind = "accept" /\ HalfWay(tx[p].pair)
      <3>1. tx[p].pair \in Pairs /\ torn' = torn \cup Both(tx[p].pair)
        BY <1>1, <2>1 DEF Commit, Good, Shape
      <3>2. \A pr \in Both(tx[p].pair) : pr \in Pairs /\ Mirror(pr) \in Both(tx[p].pair)
        BY <3>1, Mirrors DEF Both
      <3> QED
        BY <1>2, <3>1, <3>2 DEF IInv, TornBoth
    <2>2. CASE ~(tx[p].kind = "accept" /\ HalfWay(tx[p].pair))
      BY <1>2, <2>2 DEF Commit, IInv, TornBoth
    <2> QED
      BY <2>1, <2>2
  <1> QED
    BY <1>1, <1>3, <1>4, <1>5

\* The others are left as good as they were.
LEMMA OthersStayGood ==
    ASSUME IInv, NEW p \in Workers, Commit(p), NEW q \in Workers \ {p}
    PROVE  Good(tx[q])'
  <1>1. Good(tx[q]) /\ tx[q] \in TxType /\ tx[p].took \cap tx[q].took = {}
    BY DEF IInv, FriendTypeOK, Exclusive
  <1>2. /\ tx'[q].stage = tx[q].stage /\ tx'[q].kind = tx[q].kind
        /\ tx'[q].pair = tx[q].pair /\ tx'[q].took = tx[q].took
        /\ tx'[q].saved = tx[q].saved
    BY Leaves
  <1>3. Shape(tx[q])'
    BY <1>1, <1>2 DEF Good, Shape
  <1>4. Removes(tx[q])'
    <2> SUFFICES ASSUME tx[q].kind # "accept", NEW row \in tx[q].took
                 PROVE  /\ friend'[row]
                        /\ tx[q].stage \in {"wipe", "commit"} =>
                              \/ Mirror(row) \in tx[q].took \/ ~friend'[Mirror(row)]
                              \/ row \in torn'
      BY <1>2 DEF Removes
    <2>1. row \in Pairs /\ row \notin tx[p].took /\ friend[row]
      BY <1>1 DEF TxType, Good, Removes
    <2>2. friend'[row]
      BY <2>1, Publishes
    <2>3. Mirror(row) \in Pairs /\ Mirror(Mirror(row)) = row
      BY <2>1, Mirrors
    <2>4. Mirror(row) \in tx[p].took => tx[p].kind # "accept"
      <3> SUFFICES ASSUME Mirror(row) \in tx[p].took, tx[p].kind = "accept" PROVE FALSE
        OBVIOUS
      <3>1. tx[p].pair \in Pairs /\ tx[p].took = Both(tx[p].pair)
        BY Publishes DEF Good, Shape
      <3>2. Mirror(Mirror(row)) \in Both(tx[p].pair)
        BY <3>1, Mirrors DEF Both
      <3> QED
        BY <2>1, <2>3, <3>1, <3>2
    <2>5. ~friend[Mirror(row)] => ~friend'[Mirror(row)]
      BY <2>3, <2>4, Publishes
    <2>6. tx[q].stage \in {"wipe", "commit"} =>
              Mirror(row) \in tx[q].took \/ ~friend[Mirror(row)] \/ row \in torn
      BY <1>1 DEF Good, Removes
    <2> QED
      BY <2>2, <2>5, <2>6, Publishes
  <1>5. Passes(tx[q])'
    <2> SUFFICES ASSUME tx[q].stage = "unfriend", tx[q].took = {}
                 PROVE  ~friend'[tx[q].pair] \/ tx[q].pair \in torn'
      BY <1>2 DEF Passes
    <2>1. tx[q].pair \in Pairs /\ (~friend[tx[q].pair] \/ tx[q].pair \in torn)
      BY <1>1 DEF Good, Passes, IInv, FriendTypeOK
    <2>2. CASE tx[q].pair \in tx[p].took /\ tx[p].kind = "accept"
      <3>1. tx[p].took = Both(tx[p].pair)
        BY <2>2, Publishes DEF Good, Shape
      <3>2. HalfWay(tx[p].pair)
        BY <2>2, <3>1 DEF HalfWay, InTx
      <3> QED
        BY <2>2, <3>1, <3>2 DEF Commit
    <2>3. CASE ~(tx[q].pair \in tx[p].took /\ tx[p].kind = "accept")
      BY <2>1, <2>3, Publishes
    <2> QED
      BY <2>2, <2>3
  <1> QED
    BY <1>3, <1>4, <1>5 DEF Good

LEMMA CommitSymmetric ==
    ASSUME IInv, NEW p \in Workers, Commit(p)
    PROVE  FriendsSymmetric'
  <1> SUFFICES ASSUME NEW pr \in Pairs, pr \notin torn'
               PROVE  friend'[pr] = friend'[Mirror(pr)]
    BY DEF FriendsSymmetric
  <1>1. /\ Mirror(pr) \in Pairs /\ Mirror(Mirror(pr)) = pr
        /\ pr \notin torn /\ Mirror(pr) \notin torn
    BY Mirrors, Publishes DEF IInv, TornBoth
  <1>2. friend[pr] = friend[Mirror(pr)]
    BY <1>1 DEF IInv, FriendsSymmetric
  <1>3. CASE tx[p].kind = "accept"
    <2>1. tx[p].pair \in Pairs /\ tx[p].took = Both(tx[p].pair)
      BY <1>3, Publishes DEF Good, Shape
    <2>2. pr \in tx[p].took <=> Mirror(pr) \in tx[p].took
      BY <1>1, <2>1, Mirrors DEF Both
    <2> QED
      BY <1>1, <1>2, <1>3, <2>2, Publishes
  <1>4. CASE tx[p].kind # "accept"
    <2>1. \A row \in tx[p].took :
              Mirror(row) \in tx[p].took \/ ~friend[Mirror(row)] \/ row \in torn
      BY <1>4, Publishes DEF Good, Removes
    <2>2. /\ friend'[pr] = (pr \notin tx[p].took /\ friend[pr])
          /\ friend'[Mirror(pr)] = (Mirror(pr) \notin tx[p].took /\ friend[Mirror(pr)])
      <3>1. friend[pr] \in BOOLEAN /\ friend[Mirror(pr)] \in BOOLEAN
        BY <1>1 DEF IInv, FriendTypeOK
      <3> QED
        BY <1>1, <1>4, <3>1, Publishes
    <2> QED
      BY <1>1, <1>2, <2>1, <2>2
  <1> QED
    BY <1>3, <1>4

LEMMA CommitAccepted ==
    ASSUME IInv, NEW p \in Workers, Commit(p)
    PROVE  AcceptedAreFriends'
  <1> SUFFICES ASSUME NEW pr \in Pairs, request'[pr] = "accepted", pr \notin ended'
               PROVE  friend'[pr]
    BY DEF AcceptedAreFriends
  <1>1. request'[pr] = IF pr \notin tx[p].saved THEN request[pr]
                       ELSE IF tx[p].kind = "accept" THEN "accepted" ELSE "none"
    BY DEF Commit
  <1>2. CASE tx[p].kind = "accept"
    <2>1. tx[p].pair \in Pairs /\ tx[p].took = Both(tx[p].pair) /\ tx[p].saved = {tx[p].pair}
      BY <1>2, Publishes DEF Good, Shape
    <2>2. CASE pr \in tx[p].took
      BY <1>2, <2>2, Publishes
    <2>3. CASE pr \notin tx[p].took
      <3>1. request[pr] = "accepted" /\ pr \notin ended
        BY <1>1, <1>2, <2>1, <2>3, Mirrors DEF Commit
      <3> QED
        BY <2>3, <3>1, Publishes DEF IInv, AcceptedAreFriends
    <2> QED
      BY <2>2, <2>3
  <1>3. CASE tx[p].kind # "accept"
    <2>1. pr \notin tx[p].took /\ pr \notin ended
      BY <1>3 DEF Commit
    <2>2. request[pr] = "accepted"
      BY <1>1, <1>3
    <2> QED
      BY <2>1, <2>2, Publishes DEF IInv, AcceptedAreFriends
  <1> QED
    BY <1>2, <1>3

LEMMA CommitStep ==
    ASSUME IInv, NEW p \in Workers, Commit(p)
    PROVE  IInv'
  <1>1. FriendTypeOK'
    <2>1. tx' \in [Workers -> TxType] /\ tx'[p] = NoTx
      BY Leaves
    <2>2. request' \in [Pairs -> {"none", "pending", "accepted", "rejected"}]
      BY DEF Commit, IInv, FriendTypeOK
    <2>3. ended' \subseteq Pairs
      <3>1. ended \subseteq Pairs /\ tx[p].took \subseteq Pairs
        BY Publishes DEF IInv, FriendTypeOK, TxType
      <3> QED
        BY <3>1 DEF Commit
    <2>4. \A q \in Workers : tx'[q].stage \notin {"idle", "wipe", "commit"} => tx'[q].pair \in Pairs
      <3>1. tx'[p].stage = "idle"
        BY <2>1 DEF NoTx
      <3>2. \A q \in Workers \ {p} : tx'[q].stage = tx[q].stage /\ tx'[q].pair = tx[q].pair
        BY Leaves
      <3> QED
        BY <3>1, <3>2 DEF IInv, FriendTypeOK
    <2> QED
      BY <2>1, <2>2, <2>3, <2>4, Publishes DEF FriendTypeOK
  <1>2. \A q \in Workers : Good(tx[q])'
    <2>1. Good(tx[p])'
      BY Leaves DEF Good, Shape, Removes, Passes, Early, NoTx
    <2> QED
      BY <2>1, OthersStayGood
  <1>3. Exclusive'
    <2>1. tx'[p].took = {} /\ tx'[p].saved = {}
      BY Leaves DEF NoTx
    <2>2. \A q \in Workers \ {p} : tx'[q].took = tx[q].took /\ tx'[q].saved = tx[q].saved
      BY Leaves
    <2> QED
      BY <2>1, <2>2 DEF IInv, Exclusive
  <1>4. TornBoth'
    BY Publishes
  <1> QED
    BY <1>1, <1>2, <1>3, <1>4, CommitSymmetric, CommitAccepted DEF IInv

----------------------------------------------------------------------------
\* Every step of every request preserves the invariant.
LEMMA NextInv == IInv /\ [FriendNext]_friendVars => IInv'
  <1> SUFFICES ASSUME IInv, [FriendNext]_friendVars PROVE IInv'
    OBVIOUS
  <1>1. CASE UNCHANGED friendVars
    BY <1>1 DEF friendVars, IInv, FriendTypeOK, Good, Shape, Removes, Passes, Exclusive,
       TornBoth, FriendsSymmetric, AcceptedAreFriends
  <1>2. ASSUME NEW p \in Workers, FriendStart(p) PROVE IInv'
    <2>1. ASSUME NEW pr \in Pairs,
                 \/ SendFriendRequest(p, pr) \/ RemoveBothFriends(p, pr)
                 \/ HandleFriendRequest(p, pr, "reject") \/ HandleFriendRequest(p, pr, "save")
          PROVE  IInv'
      BY <2>1, SendStep, RemoveStep, HandleStep
    <2>2. ASSUME NEW u \in Users, DeleteFriends(p, u) PROVE IInv'
      BY <2>2, WipeStep
    <2> QED
      BY <1>2, <2>1, <2>2 DEF FriendStart
  <1>3. ASSUME NEW p \in Workers, FriendStep(p) PROVE IInv'
    BY <1>3, CheckStep, UpsertStep, SaveStep, SenderStep, ReceiverStep, ReverseStep,
       WipeRequestsStep, CommitStep, RollbackStep DEF FriendStep
  <1> QED
    BY <1>1, <1>2, <1>3 DEF FriendNext

LEMMA InvHolds == FriendSpec => []IInv
  BY InitGood, NextInv, PTL DEF FriendSpec

\* Rows and requests in flight stay of their types, for any number of either:
\* no request asks, answers or removes a row that cannot exist (friend_repo.go).
THEOREM FriendTypesHold == FriendSpec => []FriendTypeOK
  <1>1. IInv => FriendTypeOK
    BY DEF IInv
  <1> QED
    BY <1>1, InvHolds, PTL

\* Friendship is mutual whatever requests, answers, removals and deletions run
\* at the same time, but where an accept commits inside a removal that has
\* passed over its first row (AcceptFriendRequest, RemoveBothFriends).
THEOREM FriendshipIsMutual == FriendSpec => []FriendsSymmetric
  <1>1. IInv => FriendsSymmetric
    BY DEF IInv
  <1> QED
    BY <1>1, InvHolds, PTL

\* An accepted request has made friends until somebody ends it: the request is
\* saved and both rows are written in one transaction (AcceptFriendRequest).
THEOREM AcceptMakesFriends == FriendSpec => []AcceptedAreFriends
  <1>1. IInv => AcceptedAreFriends
    BY DEF IInv
  <1> QED
    BY <1>1, InvHolds, PTL

=============================================================================
