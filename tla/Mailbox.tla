------------------------------- MODULE Mailbox -------------------------------
(***************************************************************************)
(* What the delivery of messages and events promises, whatever the order   *)
(* in which live writes, drains, closing sockets, logins elsewhere, a      *)
(* failing Redis and restarts meet.  For each user an item is on its way,  *)
(* kept in Redis, held in memory, or delivered.  What is delivered was     *)
(* sent to that user and stays delivered.  What Redis keeps stays there    *)
(* until it is delivered.  A message is held in memory alone only if Redis *)
(* has failed, and what memory alone holds is lost only by a restart or    *)
(* after a login elsewhere.                                                *)
(***************************************************************************)
CONSTANTS Users, Messages, GroupMessages

Items == {"chat", "recall"} \X Messages
IsChat(i) == i[1] = "chat"

VARIABLES
    box,       \* box[i][u]: "none", "pending", "kept", "held", "delivered", "lost"
    outage,    \* Redis has failed
    forgot     \* a restart or a login elsewhere has emptied memory

vars == <<box, outage, forgot>>

Init ==
    /\ box = [i \in Items |-> [u \in Users |-> "none"]]
    /\ outage = FALSE /\ forgot = FALSE

\* The pairs of S are now in state s.
Put(S, s) ==
    box' = [i \in Items |-> [u \in Users |-> IF <<i, u>> \in S THEN s ELSE box[i][u]]]

Recipients(i) == {u \in Users : box[i][u] # "none"}

Send(m, us) ==
    /\ Recipients(<<"chat", m>>) = {}
    /\ m \in GroupMessages \/ \E u \in Users : us = {u}
    /\ Put({<<"chat", m>>} \X us, "pending")
    /\ UNCHANGED <<outage, forgot>>

\* The message is on its way to nobody any more; a friend's goes to the same
\* friend.
Recall(m, us) ==
    /\ Recipients(<<"recall", m>>) = {}
    /\ \A u \in Users : box[<<"chat", m>>][u] # "pending"
    /\ m \in GroupMessages \/ us = Recipients(<<"chat", m>>)
    /\ Put({<<"recall", m>>} \X us, "pending")
    /\ UNCHANGED <<outage, forgot>>

Deliver(i, u) ==
    /\ box[i][u] \in {"pending", "kept", "held"}
    /\ Put({<<i, u>>}, "delivered")
    /\ UNCHANGED <<outage, forgot>>

\* Redis may report a failure all the same.
Keep(i, u) ==
    /\ IsChat(i) /\ box[i][u] = "pending"
    /\ Put({<<i, u>>}, "kept")
    /\ outage' \in {outage, TRUE}
    /\ UNCHANGED forgot

Hold(i, u) ==
    /\ box[i][u] = "pending"
    /\ IsChat(i) => outage
    /\ Put({<<i, u>>}, "held")
    /\ UNCHANGED <<outage, forgot>>

RedisFails ==
    /\ outage' = TRUE
    /\ UNCHANGED <<box, forgot>>

\* A login elsewhere; a drain under way may still deliver what it has read,
Kick(u) ==
    /\ forgot' = TRUE
    /\ UNCHANGED outage
    /\ \E is \in SUBSET {i \in Items : box[i][u] = "held"} : Put(is \X {u}, "lost")

\* or lose it.
Lose(i, u) ==
    /\ forgot /\ box[i][u] = "held"
    /\ Put({<<i, u>>}, "lost")
    /\ UNCHANGED <<outage, forgot>>

Restart ==
    /\ forgot' = TRUE
    /\ UNCHANGED outage
    /\ Put({p \in Items \X Users : box[p[1]][p[2]] \in {"pending", "held"}}, "lost")

Move ==
    \/ \E i \in Items, u \in Users : Deliver(i, u) \/ Keep(i, u) \/ Hold(i, u) \/ Lose(i, u)
    \/ \E m \in Messages, us \in SUBSET Users : Send(m, us) \/ Recall(m, us)

\* A move that leaves every box as it was is no step.
Next ==
    \/ box' # box /\ Move
    \/ RedisFails \/ Restart
    \/ \E u \in Users : Kick(u)

Spec == Init /\ [][Next]_vars
=============================================================================
