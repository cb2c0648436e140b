------------------------------ MODULE Friends -------------------------------
(***************************************************************************)
(* Friend requests and friendships: friend_service.go over friend_repo.go, *)
(* and what user_repo.go's Delete does to both tables.  A friendship is two *)
(* rows, one for each direction.                                           *)
(*                                                                         *)
(* The database is PostgreSQL at READ COMMITTED: a statement sees what was *)
(* committed before it, locks the rows it writes until its transaction     *)
(* ends, and waits for the locks of others.  An UPDATE or DELETE whose     *)
(* condition no committed row meets locks nothing and waits for nobody.    *)
(***************************************************************************)
EXTENDS Naturals, FiniteSets

CONSTANTS
    Users,
    Workers         \* HTTP requests in flight at the same time

VARIABLES
    friend,         \* the committed rows of "friend" that are not soft-deleted
    request,        \* the committed status of each row of "friend_request"
    tx,             \* what each request in flight is doing, and its pending writes
    \* History, read by the properties only:
    torn,           \* pairs for which an accept committed inside a removal
    ended           \* pairs that were unfriended since the last accept

friendVars == <<friend, request, tx, torn, ended>>

Pairs == {pr \in Users \X Users : pr[1] # pr[2]}
Mirror(pr) == <<pr[2], pr[1]>>
Both(pr) == {pr, Mirror(pr)}
TxStages == {"idle", "check", "ask", "reject", "save", "befriend", "return",
           "unfriend", "wipe", "commit"}

\* `took` are the friend rows written and not committed, `saved` the request
\* rows; all of a transaction's writes are of one kind.
NoTx == [stage |-> "idle", kind |-> "none", pair |-> <<>>,
         took |-> {}, saved |-> {}, stale |-> FALSE]

InTx(p, s) == tx[p].stage = s
Begin(p, r) == InTx(p, "idle") /\ tx' = [tx EXCEPT ![p] = r]
Advance(p, s) == tx' = [tx EXCEPT ![p].stage = s]
End(p) == tx' = [tx EXCEPT ![p] = NoTx]

\* Nobody else holds the row.
FriendFree(p, pr) == \A q \in Workers \ {p} : pr \notin tx[q].took
RequestFree(p, pr) == \A q \in Workers \ {p} : pr \notin tx[q].saved

----------------------------------------------------------------------------
(* SendFriendRequest: three statements, each on its own.                    *)

\* Defect: nothing keeps a user from asking himself.
RequestSelf(p, pr) ==
    /\ Begin(p, [NoTx EXCEPT !.stage = "check", !.pair = <<pr[1], pr[1]>>])
    /\ UNCHANGED <<friend, request, torn, ended>>

\* CheckFriendship, in either direction.  A refusal leaves no trace.
SendFriendRequest(p, pr) ==
    /\ \A row \in Both(pr) : ~friend[row]
    /\ Begin(p, [NoTx EXCEPT !.stage = "check", !.pair = pr])
    /\ UNCHANGED <<friend, request, torn, ended>>

CheckRequestExists(p) ==
    /\ InTx(p, "check")
    /\ IF \E row \in Both(tx[p].pair) : request[row] = "pending" THEN End(p) ELSE Advance(p, "ask")
    /\ UNCHANGED <<friend, request, torn, ended>>

\* Insert, or reopen the row that is there, whatever its status is by now.
UpsertRequest(p) ==
    /\ InTx(p, "ask")
    /\ RequestFree(p, tx[p].pair)
    /\ request' = [request EXCEPT ![tx[p].pair] = "pending"]
    /\ End(p)
    /\ UNCHANGED <<friend, torn, ended>>

----------------------------------------------------------------------------
(* HandleFriendRequest, by the receiver.                                    *)

HandleFriendRequest(p, pr, answer) ==
    /\ request[pr] = "pending"
    /\ Begin(p, [NoTx EXCEPT !.stage = answer, !.pair = pr])
    /\ UNCHANGED <<friend, request, torn, ended>>

\* Save writes the whole row it was given, by its id: over another answer, and
\* anew when the row is gone, unless a new request has taken its place.
CanSave(p) == RequestFree(p, tx[p].pair) /\ (tx[p].stale => request[tx[p].pair] = "none")

UpdateRequestStatus(p) ==
    /\ InTx(p, "reject")
    /\ CanSave(p)
    /\ request' = [request EXCEPT ![tx[p].pair] = "rejected"]
    /\ End(p)
    /\ UNCHANGED <<friend, torn, ended>>

\* Defect: the request is saved before the transaction begins.
SaveAtOnce(p) ==
    /\ InTx(p, "save")
    /\ CanSave(p)
    /\ request' = [request EXCEPT ![tx[p].pair] = "accepted"]
    /\ tx' = [tx EXCEPT ![p].stage = "befriend", ![p].kind = "accept"]
    /\ UNCHANGED <<friend, torn, ended>>

\* AcceptFriendRequest, one transaction: the request, ...
SaveAccepted(p) ==
    /\ InTx(p, "save")
    /\ CanSave(p)
    /\ tx' = [tx EXCEPT ![p].stage = "befriend", ![p].kind = "accept", ![p].saved = {tx[p].pair}]
    /\ UNCHANGED <<friend, request, torn, ended>>

\* ... the sender's row, ...
UpsertSender(p) ==
    /\ InTx(p, "befriend")
    /\ FriendFree(p, tx[p].pair)
    /\ tx' = [tx EXCEPT ![p].stage = "return", ![p].took = {tx[p].pair}]
    /\ UNCHANGED <<friend, request, torn, ended>>

\* Defect: the receiver's row is forgotten.
UpsertNothing(p) ==
    /\ InTx(p, "return")
    /\ FriendFree(p, Mirror(tx[p].pair))
    /\ Advance(p, "commit")
    /\ UNCHANGED <<friend, request, torn, ended>>

\* ... and the receiver's.
UpsertReceiver(p) ==
    /\ InTx(p, "return")
    /\ FriendFree(p, Mirror(tx[p].pair))
    /\ tx' = [tx EXCEPT ![p].stage = "commit", ![p].took = Both(tx[p].pair)]
    /\ UNCHANGED <<friend, request, torn, ended>>

----------------------------------------------------------------------------
(* RemoveFriend: RemoveBothFriends, one transaction of two statements.      *)

RemoveBothFriends(p, pr) ==
    /\ friend[pr] => FriendFree(p, pr)
    /\ Begin(p, [NoTx EXCEPT !.stage = "unfriend", !.kind = "remove", !.pair = pr,
                             !.took = {row \in {pr} : friend[row]}])
    /\ UNCHANGED <<friend, request, torn, ended>>

RemoveReverse(p) ==
    /\ InTx(p, "unfriend")
    /\ LET back == Mirror(tx[p].pair) IN
          /\ friend[back] => FriendFree(p, back)
          /\ tx' = [tx EXCEPT ![p].stage = "commit",
                              ![p].took = @ \cup {row \in {back} : friend[row]}]
    /\ UNCHANGED <<friend, request, torn, ended>>

----------------------------------------------------------------------------
(* Delete of an account, as far as it concerns these tables.  A deleted     *)
(* account whose token is still good may go on, and be deleted again.       *)

DeleteFriends(p, u) ==
    LET rows == {pr \in Pairs : u \in {pr[1], pr[2]} /\ friend[pr]} IN
    /\ \A row \in rows : FriendFree(p, row)
    /\ Begin(p, [NoTx EXCEPT !.stage = "wipe", !.kind = "wipe", !.pair = <<u, u>>, !.took = rows])
    /\ UNCHANGED <<friend, request, torn, ended>>

DeleteRequests(p) ==
    LET u == tx[p].pair[1]
        rows == {pr \in Pairs : u \in {pr[1], pr[2]} /\ request[pr] # "none"}
    IN
    /\ InTx(p, "wipe")
    /\ \A row \in rows : RequestFree(p, row)
    /\ tx' = [tx EXCEPT ![p].stage = "commit", ![p].saved = rows]
    /\ UNCHANGED <<friend, request, torn, ended>>

----------------------------------------------------------------------------
\* The removals that have passed over their first row, and not seen the second.
HalfWay(pr) == \E q \in Workers : InTx(q, "unfriend") /\ tx[q].pair \in Both(pr) /\ tx[q].took = {}

Commit(p) ==
    /\ InTx(p, "commit")
    /\ friend' = [pr \in Pairs |-> IF pr \in tx[p].took THEN tx[p].kind = "accept" ELSE friend[pr]]
    /\ request' = [pr \in Pairs |->
                      IF pr \notin tx[p].saved THEN request[pr]
                      ELSE IF tx[p].kind = "accept" THEN "accepted" ELSE "none"]
    /\ tx' = [q \in Workers |->
                 IF q = p THEN NoTx
                 ELSE [tx[q] EXCEPT !.stale = @ \/ (/\ tx[p].kind = "wipe"
                                                    /\ tx[q].stage \in {"reject", "save"}
                                                    /\ tx[q].pair \in tx[p].saved)]]
    /\ torn' = IF tx[p].kind = "accept" /\ HalfWay(tx[p].pair)
               THEN torn \cup Both(tx[p].pair) ELSE torn
    /\ ended' = IF tx[p].kind = "accept" THEN ended \ Both(tx[p].pair) ELSE ended \cup tx[p].took

\* A statement fails, the request is cut off, or the database resolves a
\* deadlock: what is not committed is rolled back.
Rollback(p) ==
    /\ ~InTx(p, "idle")
    /\ End(p)
    /\ UNCHANGED <<friend, request, torn, ended>>

FriendInit ==
    /\ friend = [pr \in Pairs |-> FALSE]
    /\ request = [pr \in Pairs |-> "none"]
    /\ tx = [p \in Workers |-> NoTx]
    /\ torn = {} /\ ended = {}

FriendStart(p) ==
    \/ \E pr \in Pairs : \/ SendFriendRequest(p, pr)
                         \/ HandleFriendRequest(p, pr, "reject")
                         \/ HandleFriendRequest(p, pr, "save")
                         \/ RemoveBothFriends(p, pr)
    \/ \E u \in Users : DeleteFriends(p, u)

FriendStep(p) ==
    \/ CheckRequestExists(p) \/ UpsertRequest(p) \/ UpdateRequestStatus(p)
    \/ SaveAccepted(p) \/ UpsertSender(p) \/ UpsertReceiver(p)
    \/ RemoveReverse(p) \/ DeleteRequests(p)
    \/ Commit(p) \/ Rollback(p)

FriendNext == \E p \in Workers : FriendStart(p) \/ FriendStep(p)

FriendSpec == FriendInit /\ [][FriendNext]_friendVars

----------------------------------------------------------------------------
(* Properties.                                                              *)

TxType ==
    [stage : TxStages, kind : {"none", "accept", "remove", "wipe"},
     pair : Pairs \cup {<<u, u>> : u \in Users} \cup {<<>>},
     took : SUBSET Pairs, saved : SUBSET Pairs, stale : BOOLEAN]

\* Every row and every request in flight is of its type, and rows that do not
\* exist are not handled.
FriendTypeOK ==
    /\ friend \in [Pairs -> BOOLEAN]
    /\ request \in [Pairs -> {"none", "pending", "accepted", "rejected"}]
    /\ tx \in [Workers -> TxType]
    /\ torn \subseteq Pairs /\ ended \subseteq Pairs
    /\ \A p \in Workers : tx[p].stage \notin {"idle", "wipe", "commit"} => tx[p].pair \in Pairs

\* Friendship is mutual (RemoveBothFriends, AcceptFriendRequest), in whatever
\* order requests, answers, removals and deletions meet: what one of two users
\* sees of the other, the other sees too.  Except where an accept committed
\* after a removal had found nothing in its first row and before it looked at
\* the second: then the second row alone is removed.
FriendsSymmetric ==
    \A pr \in Pairs : friend[pr] # friend[Mirror(pr)] => pr \in torn

\* An accepted request has made friends of its two users, until one of them
\* ends it: request and rows change together, although both may be read,
\* answered again, overwritten and deleted meanwhile.
AcceptedAreFriends ==
    \A pr \in Pairs : request[pr] = "accepted" => friend[pr] \/ pr \in ended
=============================================================================
