------------------------------ MODULE RTCCalls ------------------------------
(***************************************************************************)
(* Voice and video calls as rtcService keeps them (rtc_service.go): a map  *)
(* of calls and, per user, the call that makes him busy, both under one    *)
(* mutex, and both in memory only.  Every method is one critical section   *)
(* except Invite, which checks, inserts and pushes in separate ones, and   *)
(* leaves a timer goroutine behind.  The chat service's connections and    *)
(* queue of system events (chat_service.go) decide whom an invitation      *)
(* reaches and when.                                                       *)
(***************************************************************************)
EXTENDS Naturals, FiniteSets

CONSTANTS
    Users,       \* accounts, all friends of each other and in one group
    Calls,       \* call ids that nextCallIdentifiers returns
    Flaky,       \* users whose connections may fail, close or be closed;
                 \* the others stay connected
    None         \* "no call"

ASSUME ConstantsAssumption == None \notin Calls \cup Users /\ Flaky \subseteq Users

VARIABLES
    status,      \* rtcCall.Status; "none" before the insertion, "released"
                 \* once releaseCall has deleted the call from the map
    initiator,   \* rtcCall.InitiatorID
    invitees,    \* rtcCall.InviteeIDs
    grouped,     \* rtcCall.PeerID = 0
    accepted,    \* keys of rtcCall.AcceptedIDs
    rejected,    \* keys of rtcCall.RejectedIDs
    stage,       \* where Invite, and then its timer goroutine, stands
    left,        \* invitees that pushInviteEvents has not reached yet
    reached,     \* successCount > 0
    active,      \* activeCallByID
    online,      \* users with a chat connection
    lost,        \* users with a disconnect callback outstanding
    mail,        \* invitations waiting in systemOffline
    rung         \* invitations delivered to a client

setup == <<initiator, invitees, grouped>>
answers == <<accepted, rejected>>
pushing == <<left, reached>>
presence == <<online, lost, mail, rung>>
vars == <<status, setup, answers, stage, pushing, active, presence>>

Terminal == {"rejected", "canceled", "ended", "timeout"}
Statuses == {"none", "pending", "ongoing", "released"} \cup Terminal
Stages == {"none", "insert", "push", "timer", "over"}

----------------------------------------------------------------------------
(* Helpers of the service.                                                 *)

Participants(c) == {initiator[c]} \cup invitees[c]

\* In the map and not over.
Live(c) == status[c] \in {"pending", "ongoing"}

\* Every path that ends a call frees the slots of all its participants,
\* whichever call those slots name by then.
Free(us) == active' = [u \in Users |-> IF u \in us THEN None ELSE active[u]]

End(c, outcome) ==
    /\ status' = [status EXCEPT ![c] = outcome]
    /\ Free(Participants(c))

\* A client knows a call id from the invitation, from the rtc_accept of
\* another invitee, or, the caller, from the answer to Invite or the first
\* rtc_reject.
Knows(u, c) ==
    \/ c \in rung[u]
    \/ \E v \in invitees[c] : v \in accepted[c]
    \/ u = initiator[c] /\ (stage[c] \in {"timer", "over"} \/ rejected[c] # {})

----------------------------------------------------------------------------
(* Invite.                                                                 *)

\* Defect: the call record is built without its InitiatorID.
InviteForgetsCaller(c, u, vs, g) ==
    /\ stage[c] = "none"
    /\ vs # {} /\ u \notin vs /\ vs \subseteq online
    /\ g \/ Cardinality(vs) = 1
    /\ \A w \in {u} \cup vs : active[w] = None
    /\ stage' = [stage EXCEPT ![c] = "insert"]
    /\ invitees' = [invitees EXCEPT ![c] = vs]
    /\ grouped' = [grouped EXCEPT ![c] = g]
    /\ UNCHANGED <<status, initiator, answers, pushing, active, presence>>

\* Callees with no connection are refused (peer) or skipped (group); then
\* ensureUsersAvailable looks at the slots, and unlocks.
Invite(c, u, vs, g) ==
    /\ stage[c] = "none"
    /\ vs # {} /\ u \notin vs /\ vs \subseteq online
    /\ g \/ Cardinality(vs) = 1
    /\ \A w \in {u} \cup vs : active[w] = None
    /\ stage' = [stage EXCEPT ![c] = "insert"]
    /\ initiator' = [initiator EXCEPT ![c] = u]
    /\ invitees' = [invitees EXCEPT ![c] = vs]
    /\ grouped' = [grouped EXCEPT ![c] = g]
    /\ UNCHANGED <<status, answers, pushing, active, presence>>

InsertCall(c) ==
    /\ stage[c] = "insert"
    /\ stage' = [stage EXCEPT ![c] = "push"]
    /\ status' = [status EXCEPT ![c] = "pending"]
    /\ accepted' = [accepted EXCEPT ![c] = {initiator[c]}]
    /\ left' = [left EXCEPT ![c] = invitees[c]]
    /\ active' = [u \in Users |-> IF u \in Participants(c) THEN c ELSE active[u]]
    /\ UNCHANGED <<setup, rejected, reached, presence>>

\* pushInviteEvents to one invitee: a connection takes the event ...
PushInvite(c, v) ==
    /\ stage[c] = "push" /\ v \in left[c]
    /\ v \in online
    /\ left' = [left EXCEPT ![c] = left[c] \ {v}]
    /\ reached' = [reached EXCEPT ![c] = TRUE]
    /\ rung' = [rung EXCEPT ![v] = rung[v] \cup {c}]
    /\ UNCHANGED <<status, setup, answers, stage, active, online, lost, mail>>

\* ... or none does, and the event is queued: there was no connection, or
\* every write failed and those connections were dropped.  A connection made
\* after the list was read survives.
QueueInvite(c, v) ==
    /\ stage[c] = "push" /\ v \in left[c] \cap Flaky
    /\ left' = [left EXCEPT ![c] = left[c] \ {v}]
    /\ mail' = [mail EXCEPT ![v] = mail[v] \cup {c}]
    /\ online' \in {online, online \ {v}}
    /\ UNCHANGED <<status, setup, answers, stage, reached, active, lost, rung>>

\* Defect: the timer goroutine is started for one-to-one calls only.
InviteSentPeerTimerOnly(c) ==
    /\ stage[c] = "push" /\ left[c] = {} /\ reached[c]
    /\ stage' = [stage EXCEPT ![c] = IF grouped[c] THEN "over" ELSE "timer"]
    /\ UNCHANGED <<status, setup, answers, pushing, active, presence>>

\* Somebody was reached: Invite answers 200 and starts scheduleTimeout.
InviteSent(c) ==
    /\ stage[c] = "push" /\ left[c] = {} /\ reached[c]
    /\ stage' = [stage EXCEPT ![c] = "timer"]
    /\ UNCHANGED <<status, setup, answers, pushing, active, presence>>

\* Nobody was: releaseCall forgets the call, whatever became of it meanwhile.
ReleaseCall(c) ==
    /\ stage[c] = "push" /\ left[c] = {} /\ ~reached[c]
    /\ stage' = [stage EXCEPT ![c] = "over"]
    /\ End(c, "released")
    /\ UNCHANGED <<setup, answers, pushing, presence>>

\* Defect: frees the caller and forgets the callees.
TimeoutFreesCaller(c) ==
    /\ stage[c] = "timer"
    /\ stage' = [stage EXCEPT ![c] = "over"]
    /\ IF status[c] = "pending"
       THEN /\ status' = [status EXCEPT ![c] = "timeout"]
            /\ Free({initiator[c]})
       ELSE UNCHANGED <<status, active>>
    /\ UNCHANGED <<setup, answers, pushing, presence>>

\* scheduleTimeout wakes up.
Timeout(c) ==
    /\ stage[c] = "timer"
    /\ stage' = [stage EXCEPT ![c] = "over"]
    /\ IF status[c] = "pending"
       THEN End(c, "timeout")
       ELSE UNCHANGED <<status, active>>
    /\ UNCHANGED <<setup, answers, pushing, presence>>

----------------------------------------------------------------------------
(* What participants and their connections do to a call.                   *)

\* Defect: an earlier rejection is not taken back.
AcceptKeepsRejection(u, c) ==
    /\ Knows(u, c)
    /\ u \in invitees[c] \ accepted[c]
    /\ Live(c)
    /\ accepted' = [accepted EXCEPT ![c] = accepted[c] \cup {u}]
    /\ active' = [active EXCEPT ![u] = c]
    /\ status' = [status EXCEPT ![c] = "ongoing"]
    /\ UNCHANGED <<setup, rejected, stage, pushing, presence>>

\* Defect: does not look whether the call is over.
AcceptEndedCall(u, c) ==
    /\ Knows(u, c)
    /\ u \in invitees[c] \ accepted[c]
    /\ status[c] # "released"
    /\ accepted' = [accepted EXCEPT ![c] = accepted[c] \cup {u}]
    /\ rejected' = [rejected EXCEPT ![c] = rejected[c] \ {u}]
    /\ active' = [active EXCEPT ![u] = c]
    /\ status' = [status EXCEPT ![c] = "ongoing"]
    /\ UNCHANGED <<setup, stage, pushing, presence>>

\* A repeated accept is answered without effect, so it is no step.
Accept(u, c) ==
    /\ Knows(u, c)
    /\ u \in invitees[c]
    /\ Live(c)
    /\ u \notin accepted[c]
    /\ accepted' = [accepted EXCEPT ![c] = accepted[c] \cup {u}]
    /\ rejected' = [rejected EXCEPT ![c] = rejected[c] \ {u}]
    /\ active' = [active EXCEPT ![u] = c]
    /\ status' = [status EXCEPT ![c] = "ongoing"]
    /\ UNCHANGED <<setup, stage, pushing, presence>>

Reject(u, c) ==
    /\ Knows(u, c)
    /\ u \in invitees[c]
    /\ Live(c)
    /\ u \notin accepted[c]
    /\ rejected' = [rejected EXCEPT ![c] = rejected[c] \cup {u}]
    /\ IF invitees[c] \subseteq rejected'[c]
       THEN End(c, "rejected")
       ELSE Free({u}) /\ UNCHANGED status
    /\ UNCHANGED <<setup, accepted, stage, pushing, presence>>

Cancel(u, c) ==
    /\ Knows(u, c)
    /\ u = initiator[c]
    /\ status[c] = "pending"
    /\ End(c, "canceled")
    /\ UNCHANGED <<setup, answers, stage, pushing, presence>>

Hangup(u, c) ==
    /\ u = initiator[c] \/ u \in accepted[c]
    /\ Live(c)
    /\ ~(status[c] = "pending" /\ u = initiator[c])
    /\ End(c, "ended")
    /\ UNCHANGED <<setup, answers, stage, pushing, presence>>

\* The callback of the chat handler's grace timer.  A slot that names a call
\* no longer live is only cleared; a group call outlives its members'
\* connections.
HandleParticipantDisconnected(u) ==
    /\ u \in lost
    /\ lost' \in {lost, lost \ {u}}
    /\ LET c == active[u] IN
       IF c = None THEN UNCHANGED <<status, active>>
       ELSE IF ~Live(c) THEN Free({u}) /\ UNCHANGED status
       ELSE IF grouped[c] THEN UNCHANGED <<status, active>>
       ELSE End(c, IF status[c] = "pending" THEN "canceled" ELSE "ended")
    /\ UNCHANGED <<setup, answers, stage, pushing, online, mail, rung>>

----------------------------------------------------------------------------
(* Connections.                                                            *)

\* RegisterConnection delivers what is queued, as far as the writes succeed,
\* and cancelForegroundDisconnect stops the timer unless its callback is
\* already past the check for a connection.
Connect(u) ==
    /\ online' = online \cup {u}
    /\ \E got \in SUBSET mail[u] :
          /\ rung' = [rung EXCEPT ![u] = rung[u] \cup got]
          /\ mail' = [mail EXCEPT ![u] = mail[u] \ got]
    /\ lost' \in {lost, lost \ {u}}
    /\ UNCHANGED <<status, setup, answers, stage, pushing, active>>

\* A connection closes: the last foreground one arms the timer, even while a
\* background one keeps the user reachable.
Disconnect(u) ==
    /\ u \in online
    /\ online' \in {online, online \ {u}}
    /\ lost' \in {lost, lost \cup {u}}
    /\ UNCHANGED <<status, setup, answers, stage, pushing, active, mail, rung>>

\* A login elsewhere drops the user's connections and his queue.
KickUserConnections(u) ==
    /\ online' = online \ {u}
    /\ mail' = [mail EXCEPT ![u] = {}]
    /\ lost' \in {lost, IF u \in online THEN lost \cup {u} ELSE lost}
    /\ UNCHANGED <<status, setup, answers, stage, pushing, active, rung>>

----------------------------------------------------------------------------
Init ==
    /\ status = [c \in Calls |-> "none"]
    /\ initiator = [c \in Calls |-> None]
    /\ invitees = [c \in Calls |-> {}]
    /\ grouped = [c \in Calls |-> FALSE]
    /\ accepted = [c \in Calls |-> {}]
    /\ rejected = [c \in Calls |-> {}]
    /\ stage = [c \in Calls |-> "none"]
    /\ left = [c \in Calls |-> {}]
    /\ reached = [c \in Calls |-> FALSE]
    /\ active = [u \in Users |-> None]
    /\ online = Users \ Flaky
    /\ lost = {}
    /\ mail = [u \in Users |-> {}]
    /\ rung = [u \in Users |-> {}]

Inviting == \E c \in Calls, u \in Users, vs \in SUBSET Users, g \in BOOLEAN :
    Invite(c, u, vs, g)

\* The rest of Invite, and its timer: the program goes on by itself.
Proceed(c) ==
    \/ InsertCall(c)
    \/ \E v \in Users : PushInvite(c, v) \/ QueueInvite(c, v)
    \/ InviteSent(c)
    \/ ReleaseCall(c)
    \/ Timeout(c)

Answering == \E u \in Users, c \in Calls :
    Accept(u, c) \/ Reject(u, c) \/ Cancel(u, c) \/ Hangup(u, c)

Connecting == \E u \in Flaky :
    \/ Connect(u) \/ Disconnect(u) \/ KickUserConnections(u)
    \/ HandleParticipantDisconnected(u)

Next == Inviting \/ (\E c \in Calls : Proceed(c)) \/ Answering \/ Connecting

Spec == Init /\ [][Next]_vars

\* Goroutines keep running, writes to sockets return, and timers fire.
\* Nothing makes a person answer, reject, cancel or hang up.
Fairness == \A c \in Calls : WF_vars(Proceed(c))
FairSpec == Spec /\ Fairness

----------------------------------------------------------------------------
\* Every variable holds what its Go counterpart can hold.
TypeOK ==
    /\ status \in [Calls -> Statuses]
    /\ initiator \in [Calls -> Users \cup {None}]
    /\ invitees \in [Calls -> SUBSET Users]
    /\ grouped \in [Calls -> BOOLEAN]
    /\ accepted \in [Calls -> SUBSET Users]
    /\ rejected \in [Calls -> SUBSET Users]
    /\ stage \in [Calls -> Stages]
    /\ left \in [Calls -> SUBSET Users]
    /\ reached \in [Calls -> BOOLEAN]
    /\ active \in [Users -> Calls \cup {None}]
    /\ online \subseteq Users /\ lost \subseteq Users
    /\ mail \in [Users -> SUBSET Calls]
    /\ rung \in [Users -> SUBSET Calls]

\* Nobody is kept busy by a call that is over or that he is no part of,
\* although slots are overwritten by Accept and by a racing Invite and freed
\* by calls they do not name: otherwise a user could never be called again,
\* as calls are never looked at twice once they have ended.
SlotsPointAtLiveCalls ==
    \A u \in Users : active[u] # None =>
        Live(active[u]) /\ u \in Participants(active[u])

\* The two answer sets and the status of one call.
AnswersFit(c) ==
    /\ accepted[c] \cap rejected[c] = {}
    /\ status[c] = "pending" => ~(invitees[c] \subseteq rejected[c])
    /\ status[c] = "rejected" => invitees[c] \subseteq rejected[c]
    /\ status[c] \in {"pending", "rejected", "canceled", "timeout"} =>
          accepted[c] = {initiator[c]}
    /\ status[c] \in {"ongoing", "ended"} => accepted[c] \cap invitees[c] # {}

\* Answers tell one story, in whatever order accepts, rejects, second thoughts
\* and timers come: nobody is both in the call and recorded as having refused
\* it, a pending call still has somebody who may answer, one recorded as
\* rejected was refused by all, and a call is ongoing or ended exactly when
\* somebody besides the caller joined it.
AnswersAreConsistent == \A c \in Calls : AnswersFit(c)

\* A call is in one phase of its life; a released one was, for its
\* participants, whatever its answers make it.
Phase(c) ==
    CASE status[c] = "none" -> "none"
      [] status[c] = "pending" -> "offered"
      [] status[c] = "ongoing" -> "talking"
      [] status[c] = "ended" -> "finished"
      [] status[c] \in {"rejected", "canceled", "timeout"} -> "unanswered"
      [] status[c] = "released" ->
            IF accepted[c] = {initiator[c]} THEN "unanswered" ELSE "finished"

Phases == [c \in Calls |-> Phase(c)]
Asked == [c \in Calls |-> IF status[c] = "none" THEN {} ELSE invitees[c]]

Lifecycle == INSTANCE CallLifecycle WITH
    phase <- Phases, asked <- Asked, joined <- accepted

\* Every call lives the life CallLifecycle promises: no answer, hang-up,
\* disconnect or timer, in any order, revives or rewrites a call that ended.
CallsLiveOnce == Lifecycle!Spec

\* Every call that is offered is answered or given up: by the people, or by
\* the 45 s timer.  (api/doc.md, POST /api/rtc/call/invite)
OffersAreResolved == Lifecycle!FairSpec

----------------------------------------------------------------------------
(* What the documents and comments say and the code does not do.           *)

\* The slot tells whether the user has a call in progress
\* (rtc_service.go:165), which makes inviting him a conflict (api/doc.md:40):
\* whoever has joined a live call has one.  Two invitations may both pass the
\* check before either is inserted, and ending a call, or refusing it, frees
\* slots that name another one.
JoinedAreBusy ==
    \A c \in Calls, u \in Users :
        Live(c) /\ u \in accepted[c] => active[u] # None
=============================================================================
