--------------------------- MODULE RTCCallsProofs ---------------------------
(***************************************************************************)
(* Proofs about RTCCalls, for any users, calls and unreliable connections: *)
(* type correctness, slots that name live calls only, consistent answers,  *)
(* and that the service implements CallLifecycle.                          *)
(***************************************************************************)
EXTENDS RTCCalls, TLAPS

\* What the handlers rely on about one call: Invite's stage and the status
\* move together, and answers come from participants only.
CallFits(c) ==
    /\ stage[c] \in {"none", "insert"} <=> status[c] = "none"
    /\ stage[c] # "none" =>
          initiator[c] \in Users /\ invitees[c] # {} /\ initiator[c] \notin invitees[c]
    /\ status[c] = "none" => accepted[c] = {} /\ rejected[c] = {}
    /\ rejected[c] \subseteq invitees[c]
    /\ status[c] # "none" => initiator[c] \in accepted[c] /\ accepted[c] \subseteq Participants(c)

CallsFit == \A c \in Calls : CallFits(c)

IInv == TypeOK /\ CallsFit /\ SlotsPointAtLiveCalls /\ AnswersAreConsistent

\* The initial state satisfies every part.
LEMMA InitIInv == Init => IInv
  BY ConstantsAssumption DEF Init, IInv, TypeOK, Statuses, Terminal, Stages, CallsFit, CallFits,
     Participants, SlotsPointAtLiveCalls, AnswersAreConsistent, AnswersFit

\* Every variable keeps its type; the caller of an inserted call is a user.
LEMMA NextTypeOK ==
  ASSUME TypeOK, CallsFit, [Next]_vars
  PROVE  TypeOK'
<1>1. ASSUME NEW c \in Calls, NEW u \in Users, NEW vs \in SUBSET Users, NEW g \in BOOLEAN, Invite(c, u, vs, g) PROVE TypeOK'
  BY <1>1 DEF Invite, answers, pushing, presence, TypeOK, Statuses, Terminal, Stages
<1>2. ASSUME NEW c \in Calls, InsertCall(c) PROVE TypeOK'
  BY <1>2 DEF InsertCall, setup, presence, TypeOK, Statuses, Terminal, Stages, CallsFit, CallFits
<1>3. ASSUME NEW c \in Calls, NEW u \in Users, PushInvite(c, u) PROVE TypeOK'
  BY <1>3 DEF PushInvite, setup, answers, TypeOK
<1>4. ASSUME NEW c \in Calls, NEW u \in Users, QueueInvite(c, u) PROVE TypeOK'
  BY <1>4 DEF QueueInvite, setup, answers, TypeOK
<1>5. ASSUME NEW c \in Calls, InviteSent(c) PROVE TypeOK'
  BY <1>5 DEF InviteSent, setup, answers, pushing, presence, TypeOK, Statuses, Terminal, Stages
<1>6. ASSUME NEW c \in Calls, ReleaseCall(c) PROVE TypeOK'
  BY <1>6 DEF ReleaseCall, End, Free, setup, answers, pushing, presence, TypeOK, Statuses, Terminal, Stages
<1>7. ASSUME NEW c \in Calls, Timeout(c) PROVE TypeOK'
  BY <1>7 DEF Timeout, End, Free, setup, answers, pushing, presence, TypeOK, Statuses, Terminal, Stages
<1>8. ASSUME NEW c \in Calls, NEW u \in Users, Accept(u, c) PROVE TypeOK'
  BY <1>8 DEF Accept, setup, pushing, presence, TypeOK, Statuses, Terminal, Stages
<1>9. ASSUME NEW c \in Calls, NEW u \in Users, Reject(u, c) PROVE TypeOK'
  BY <1>9 DEF Reject, End, Free, setup, pushing, presence, TypeOK, Statuses, Terminal, Stages
<1>10. ASSUME NEW c \in Calls, NEW u \in Users, Cancel(u, c) PROVE TypeOK'
  BY <1>10 DEF Cancel, End, Free, setup, answers, pushing, presence, TypeOK, Statuses, Terminal, Stages
<1>11. ASSUME NEW c \in Calls, NEW u \in Users, Hangup(u, c) PROVE TypeOK'
  BY <1>11 DEF Hangup, End, Free, setup, answers, pushing, presence, TypeOK, Statuses, Terminal, Stages
<1>12. ASSUME NEW u \in Users, HandleParticipantDisconnected(u) PROVE TypeOK'
  BY <1>12 DEF HandleParticipantDisconnected, End, Free, setup, answers, pushing, TypeOK, Statuses, Terminal, Stages
<1>13. ASSUME NEW u \in Users, Connect(u) PROVE TypeOK'
  BY <1>13 DEF Connect, setup, answers, pushing, TypeOK
<1>14. ASSUME NEW u \in Users, Disconnect(u) PROVE TypeOK'
  BY <1>14 DEF Disconnect, setup, answers, pushing, TypeOK
<1>15. ASSUME NEW u \in Users, KickUserConnections(u) PROVE TypeOK'
  BY <1>15 DEF KickUserConnections, setup, answers, pushing, TypeOK
<1>16. CASE UNCHANGED vars
  BY <1>16 DEF vars, setup, answers, pushing, presence, TypeOK
<1>17. QED
  BY <1>1, <1>2, <1>3, <1>4, <1>5, <1>6, <1>7, <1>8, <1>9, <1>10, <1>11, <1>12, <1>13, <1>14, <1>15, <1>16, ConstantsAssumption DEF Next, Inviting, Proceed, Answering, Connecting

\* Stage, status and answers of every call keep moving together.
LEMMA NextCallsFit ==
  ASSUME TypeOK, CallsFit, [Next]_vars
  PROVE  CallsFit'
<1>1. ASSUME NEW c \in Calls, NEW u \in Users, NEW vs \in SUBSET Users, NEW g \in BOOLEAN, Invite(c, u, vs, g) PROVE CallsFit'
  BY <1>1 DEF Invite, answers, pushing, presence, TypeOK, CallsFit, CallFits, Participants
<1>2. ASSUME NEW c \in Calls, InsertCall(c) PROVE CallsFit'
  BY <1>2 DEF InsertCall, setup, presence, TypeOK, CallsFit, CallFits, Participants
<1>3. ASSUME NEW c \in Calls, NEW u \in Users, PushInvite(c, u) PROVE CallsFit'
  BY <1>3 DEF PushInvite, setup, answers, TypeOK, CallsFit, CallFits, Participants
<1>4. ASSUME NEW c \in Calls, NEW u \in Users, QueueInvite(c, u) PROVE CallsFit'
  BY <1>4 DEF QueueInvite, setup, answers, TypeOK, CallsFit, CallFits, Participants
<1>5. ASSUME NEW c \in Calls, InviteSent(c) PROVE CallsFit'
  BY <1>5 DEF InviteSent, setup, answers, pushing, presence, TypeOK, CallsFit, CallFits, Participants
<1>6. ASSUME NEW c \in Calls, ReleaseCall(c) PROVE CallsFit'
  BY <1>6 DEF ReleaseCall, End, Free, setup, answers, pushing, presence, TypeOK, CallsFit, CallFits, Participants
<1>7. ASSUME NEW c \in Calls, Timeout(c) PROVE CallsFit'
  BY <1>7 DEF Timeout, End, Free, setup, answers, pushing, presence, TypeOK, CallsFit, CallFits, Participants
<1>8. ASSUME NEW c \in Calls, NEW u \in Users, Accept(u, c) PROVE CallsFit'
  BY <1>8 DEF Accept, setup, pushing, presence, TypeOK, CallsFit, CallFits, Participants, Live
<1>9. ASSUME NEW c \in Calls, NEW u \in Users, Reject(u, c) PROVE CallsFit'
  BY <1>9 DEF Reject, End, Free, setup, pushing, presence, TypeOK, CallsFit, CallFits, Participants, Live
<1>10. ASSUME NEW c \in Calls, NEW u \in Users, Cancel(u, c) PROVE CallsFit'
  BY <1>10 DEF Cancel, End, Free, setup, answers, pushing, presence, TypeOK, CallsFit, CallFits, Participants
<1>11. ASSUME NEW c \in Calls, NEW u \in Users, Hangup(u, c) PROVE CallsFit'
  BY <1>11 DEF Hangup, End, Free, setup, answers, pushing, presence, TypeOK, CallsFit, CallFits, Participants, Live
<1>12. ASSUME NEW u \in Users, HandleParticipantDisconnected(u) PROVE CallsFit'
  BY <1>12 DEF HandleParticipantDisconnected, End, Free, setup, answers, pushing, TypeOK, CallsFit, CallFits, Participants, Live
<1>13. ASSUME NEW u \in Users, Connect(u) PROVE CallsFit'
  BY <1>13 DEF Connect, setup, answers, pushing, TypeOK, CallsFit, CallFits, Participants
<1>14. ASSUME NEW u \in Users, Disconnect(u) PROVE CallsFit'
  BY <1>14 DEF Disconnect, setup, answers, pushing, TypeOK, CallsFit, CallFits, Participants
<1>15. ASSUME NEW u \in Users, KickUserConnections(u) PROVE CallsFit'
  BY <1>15 DEF KickUserConnections, setup, answers, pushing, TypeOK, CallsFit, CallFits, Participants
<1>16. CASE UNCHANGED vars
  BY <1>16 DEF vars, setup, answers, pushing, presence, TypeOK, CallsFit, CallFits, Participants
<1>17. QED
  BY <1>1, <1>2, <1>3, <1>4, <1>5, <1>6, <1>7, <1>8, <1>9, <1>10, <1>11, <1>12, <1>13, <1>14, <1>15, <1>16, ConstantsAssumption DEF Next, Inviting, Proceed, Answering, Connecting

\* Slots keep naming live calls of their users.
LEMMA NextSlots ==
  ASSUME TypeOK, CallsFit, SlotsPointAtLiveCalls, [Next]_vars
  PROVE  SlotsPointAtLiveCalls'
<1>1. ASSUME NEW c \in Calls, NEW u \in Users, NEW vs \in SUBSET Users, NEW g \in BOOLEAN, Invite(c, u, vs, g) PROVE SlotsPointAtLiveCalls'
  BY <1>1 DEF Invite, answers, pushing, presence, TypeOK, CallsFit, CallFits, Participants, SlotsPointAtLiveCalls, Live
<1>2. ASSUME NEW c \in Calls, InsertCall(c) PROVE SlotsPointAtLiveCalls'
  BY <1>2 DEF InsertCall, setup, presence, TypeOK, CallsFit, CallFits, Participants, SlotsPointAtLiveCalls, Live
<1>3. ASSUME NEW c \in Calls, NEW u \in Users, PushInvite(c, u) PROVE SlotsPointAtLiveCalls'
  BY <1>3 DEF PushInvite, setup, answers, TypeOK, CallsFit, CallFits, Participants, SlotsPointAtLiveCalls, Live
<1>4. ASSUME NEW c \in Calls, NEW u \in Users, QueueInvite(c, u) PROVE SlotsPointAtLiveCalls'
  BY <1>4 DEF QueueInvite, setup, answers, TypeOK, CallsFit, CallFits, Participants, SlotsPointAtLiveCalls, Live
<1>5. ASSUME NEW c \in Calls, InviteSent(c) PROVE SlotsPointAtLiveCalls'
  BY <1>5 DEF InviteSent, setup, answers, pushing, presence, TypeOK, CallsFit, CallFits, Participants, SlotsPointAtLiveCalls, Live
<1>6. ASSUME NEW c \in Calls, ReleaseCall(c) PROVE SlotsPointAtLiveCalls'
  BY <1>6 DEF ReleaseCall, End, Free, setup, answers, pushing, presence, TypeOK, CallsFit, CallFits, Participants, SlotsPointAtLiveCalls, Live
<1>7. ASSUME NEW c \in Calls, Timeout(c) PROVE SlotsPointAtLiveCalls'
  BY <1>7 DEF Timeout, End, Free, setup, answers, pushing, presence, TypeOK, CallsFit, CallFits, Participants, SlotsPointAtLiveCalls, Live
<1>8. ASSUME NEW c \in Calls, NEW u \in Users, Accept(u, c) PROVE SlotsPointAtLiveCalls'
  BY <1>8 DEF Accept, setup, pushing, presence, TypeOK, CallsFit, CallFits, Participants, SlotsPointAtLiveCalls, Live
<1>9. ASSUME NEW c \in Calls, NEW u \in Users, Reject(u, c) PROVE SlotsPointAtLiveCalls'
  BY <1>9 DEF Reject, End, Free, setup, pushing, presence, TypeOK, CallsFit, CallFits, Participants, SlotsPointAtLiveCalls, Live
<1>10. ASSUME NEW c \in Calls, NEW u \in Users, Cancel(u, c) PROVE SlotsPointAtLiveCalls'
  BY <1>10 DEF Cancel, End, Free, setup, answers, pushing, presence, TypeOK, CallsFit, CallFits, Participants, SlotsPointAtLiveCalls, Live
<1>11. ASSUME NEW c \in Calls, NEW u \in Users, Hangup(u, c) PROVE SlotsPointAtLiveCalls'
  BY <1>11 DEF Hangup, End, Free, setup, answers, pushing, presence, TypeOK, CallsFit, CallFits, Participants, SlotsPointAtLiveCalls, Live
<1>12. ASSUME NEW u \in Users, HandleParticipantDisconnected(u) PROVE SlotsPointAtLiveCalls'
  BY <1>12 DEF HandleParticipantDisconnected, End, Free, setup, answers, pushing, TypeOK, CallsFit, CallFits, Participants, SlotsPointAtLiveCalls, Live
<1>13. ASSUME NEW u \in Users, Connect(u) PROVE SlotsPointAtLiveCalls'
  BY <1>13 DEF Connect, setup, answers, pushing, TypeOK, CallsFit, CallFits, Participants, SlotsPointAtLiveCalls, Live
<1>14. ASSUME NEW u \in Users, Disconnect(u) PROVE SlotsPointAtLiveCalls'
  BY <1>14 DEF Disconnect, setup, answers, pushing, TypeOK, CallsFit, CallFits, Participants, SlotsPointAtLiveCalls, Live
<1>15. ASSUME NEW u \in Users, KickUserConnections(u) PROVE SlotsPointAtLiveCalls'
  BY <1>15 DEF KickUserConnections, setup, answers, pushing, TypeOK, CallsFit, CallFits, Participants, SlotsPointAtLiveCalls, Live
<1>16. CASE UNCHANGED vars
  BY <1>16 DEF vars, setup, answers, pushing, presence, TypeOK, CallsFit, CallFits, Participants, SlotsPointAtLiveCalls, Live
<1>17. QED
  BY <1>1, <1>2, <1>3, <1>4, <1>5, <1>6, <1>7, <1>8, <1>9, <1>10, <1>11, <1>12, <1>13, <1>14, <1>15, <1>16, ConstantsAssumption DEF Next, Inviting, Proceed, Answering, Connecting

\* Answers stay consistent.
LEMMA NextAnswers ==
  ASSUME TypeOK, CallsFit, AnswersAreConsistent, [Next]_vars
  PROVE  AnswersAreConsistent'
<1>1. ASSUME NEW c \in Calls, NEW u \in Users, NEW vs \in SUBSET Users, NEW g \in BOOLEAN, Invite(c, u, vs, g) PROVE AnswersAreConsistent'
  BY <1>1 DEF Invite, answers, pushing, presence, TypeOK, CallsFit, CallFits, Participants, AnswersAreConsistent, AnswersFit
<1>2. ASSUME NEW c \in Calls, InsertCall(c) PROVE AnswersAreConsistent'
  BY <1>2 DEF InsertCall, setup, presence, TypeOK, CallsFit, CallFits, Participants, AnswersAreConsistent, AnswersFit
<1>3. ASSUME NEW c \in Calls, NEW u \in Users, PushInvite(c, u) PROVE AnswersAreConsistent'
  BY <1>3 DEF PushInvite, setup, answers, TypeOK, CallsFit, CallFits, Participants, AnswersAreConsistent, AnswersFit
<1>4. ASSUME NEW c \in Calls, NEW u \in Users, QueueInvite(c, u) PROVE AnswersAreConsistent'
  BY <1>4 DEF QueueInvite, setup, answers, TypeOK, CallsFit, CallFits, Participants, AnswersAreConsistent, AnswersFit
<1>5. ASSUME NEW c \in Calls, InviteSent(c) PROVE AnswersAreConsistent'
  BY <1>5 DEF InviteSent, setup, answers, pushing, presence, TypeOK, CallsFit, CallFits, Participants, AnswersAreConsistent, AnswersFit
<1>6. ASSUME NEW c \in Calls, ReleaseCall(c) PROVE AnswersAreConsistent'
  BY <1>6 DEF ReleaseCall, End, Free, setup, answers, pushing, presence, TypeOK, CallsFit, CallFits, Participants, AnswersAreConsistent, AnswersFit
<1>7. ASSUME NEW c \in Calls, Timeout(c) PROVE AnswersAreConsistent'
  BY <1>7 DEF Timeout, End, Free, setup, answers, pushing, presence, TypeOK, CallsFit, CallFits, Participants, AnswersAreConsistent, AnswersFit
<1>8. ASSUME NEW c \in Calls, NEW u \in Users, Accept(u, c) PROVE AnswersAreConsistent'
  BY <1>8 DEF Accept, setup, pushing, presence, TypeOK, CallsFit, CallFits, Participants, AnswersAreConsistent, AnswersFit, Live
<1>9. ASSUME NEW c \in Calls, NEW u \in Users, Reject(u, c) PROVE AnswersAreConsistent'
  BY <1>9 DEF Reject, End, Free, setup, pushing, presence, TypeOK, CallsFit, CallFits, Participants, AnswersAreConsistent, AnswersFit, Live
<1>10. ASSUME NEW c \in Calls, NEW u \in Users, Cancel(u, c) PROVE AnswersAreConsistent'
  BY <1>10 DEF Cancel, End, Free, setup, answers, pushing, presence, TypeOK, CallsFit, CallFits, Participants, AnswersAreConsistent, AnswersFit
<1>11. ASSUME NEW c \in Calls, NEW u \in Users, Hangup(u, c) PROVE AnswersAreConsistent'
  BY <1>11 DEF Hangup, End, Free, setup, answers, pushing, presence, TypeOK, CallsFit, CallFits, Participants, AnswersAreConsistent, AnswersFit, Live
<1>12. ASSUME NEW u \in Users, HandleParticipantDisconnected(u) PROVE AnswersAreConsistent'
  BY <1>12 DEF HandleParticipantDisconnected, End, Free, setup, answers, pushing, TypeOK, CallsFit, CallFits, Participants, AnswersAreConsistent, AnswersFit, Live
<1>13. ASSUME NEW u \in Users, Connect(u) PROVE AnswersAreConsistent'
  BY <1>13 DEF Connect, setup, answers, pushing, TypeOK, CallsFit, CallFits, Participants, AnswersAreConsistent, AnswersFit
<1>14. ASSUME NEW u \in Users, Disconnect(u) PROVE AnswersAreConsistent'
  BY <1>14 DEF Disconnect, setup, answers, pushing, TypeOK, CallsFit, CallFits, Participants, AnswersAreConsistent, AnswersFit
<1>15. ASSUME NEW u \in Users, KickUserConnections(u) PROVE AnswersAreConsistent'
  BY <1>15 DEF KickUserConnections, setup, answers, pushing, TypeOK, CallsFit, CallFits, Participants, AnswersAreConsistent, AnswersFit
<1>16. CASE UNCHANGED vars
  BY <1>16 DEF vars, setup, answers, pushing, presence, TypeOK, CallsFit, CallFits, Participants, AnswersAreConsistent, AnswersFit
<1>17. QED
  BY <1>1, <1>2, <1>3, <1>4, <1>5, <1>6, <1>7, <1>8, <1>9, <1>10, <1>11, <1>12, <1>13, <1>14, <1>15, <1>16, ConstantsAssumption DEF Next, Inviting, Proceed, Answering, Connecting

\* The inductive invariant holds throughout.
LEMMA Invariant == Spec => []IInv
<1>1. IInv /\ [Next]_vars => IInv'
  BY NextTypeOK, NextCallsFit, NextSlots, NextAnswers DEF IInv
<1>2. QED
  BY InitIInv, <1>1, PTL DEF Spec

\* Types never go wrong: in particular no call is stored without its caller.
THEOREM TypeCorrect == Spec => []TypeOK
<1>1. IInv => TypeOK
  BY DEF IInv
<1>2. QED
  BY Invariant, <1>1, PTL

\* Nobody is kept busy by a call that has ended: releaseCall, scheduleTimeout,
\* Reject, Cancel, Hangup and HandleParticipantDisconnected leave no slot.
THEOREM NoStaleSlot == Spec => []SlotsPointAtLiveCalls
<1>1. IInv => SlotsPointAtLiveCalls
  BY DEF IInv
<1>2. QED
  BY Invariant, <1>1, PTL

\* Status, accepted and rejected sets never contradict each other.
THEOREM ConsistentAnswers == Spec => []AnswersAreConsistent
<1>1. IInv => AnswersAreConsistent
  BY DEF IInv
<1>2. QED
  BY Invariant, <1>1, PTL

\* A step that writes one call's status, and no other call's answers, moves
\* one phase.
LEMMA OnePhaseMoves ==
  ASSUME TypeOK, NEW c \in Calls, NEW o, status' = [status EXCEPT ![c] = o],
         UNCHANGED setup, \A d \in Calls \ {c} : accepted'[d] = accepted[d]
  PROVE  Phases' = [Phases EXCEPT ![c] = Phase(c)']
<1>1. \A d \in Calls \ {c} : status'[d] = status[d] /\ initiator'[d] = initiator[d]
  BY DEF TypeOK, setup
<1>2. \A d \in Calls \ {c} : Phase(d)' = Phase(d)
  BY <1>1 DEF Phase
<1>3. QED
  BY <1>2 DEF Phases

\* The invitees of a call, once offered, are fixed.
LEMMA AskedStays ==
  ASSUME TypeOK, NEW c \in Calls, NEW o, status' = [status EXCEPT ![c] = o],
         status[c] # "none", o # "none", UNCHANGED setup
  PROVE  Asked' = Asked
  BY DEF TypeOK, setup, Asked

\* Ending a live call is giving it up or finishing it; ending it again,
\* as releaseCall may, is nothing.
LEMMA EndingIsAllowed ==
  ASSUME IInv, IInv', NEW c \in Calls, NEW o, status' = [status EXCEPT ![c] = o],
         status[c] # "none", o \in Terminal \cup {"released"}, UNCHANGED <<setup, accepted>>,
         Live(c) \/ o = "released"
  PROVE  [Lifecycle!Next]_(Lifecycle!vars)
<1>1. Phases' = [Phases EXCEPT ![c] = Phase(c)'] /\ Asked' = Asked
  BY OnePhaseMoves, AskedStays DEF IInv, Terminal
<1>2. Phases[c] = Phase(c) /\ DOMAIN Phases = Calls
  BY DEF Phases
<1>3. status'[c] = o /\ accepted' = accepted /\ initiator' = initiator /\ invitees' = invitees
  BY DEF IInv, TypeOK, setup
<1>4. AnswersFit(c) /\ AnswersFit(c)' /\ CallFits(c)
  BY DEF IInv, AnswersAreConsistent, CallsFit
<1>5. CASE Live(c) /\ status[c] = "pending"
  <2>1. Phase(c) = "offered"
    BY <1>5 DEF Phase
  <2>2. accepted[c] = {initiator[c]}
    BY <1>4, <1>5 DEF AnswersFit
  <2>3. Phase(c)' = "unanswered"
    BY <1>3, <1>4, <2>2 DEF Phase, AnswersFit, Terminal, CallFits
  <2>4. Lifecycle!GiveUp(c)
    BY <1>1, <1>2, <1>3, <2>1, <2>3 DEF Lifecycle!GiveUp
  <2>5. QED
    BY <2>4 DEF Lifecycle!Next, Lifecycle!Resolve
<1>6. CASE Live(c) /\ status[c] = "ongoing"
  <2>1. Phase(c) = "talking"
    BY <1>6 DEF Phase
  <2>2. accepted[c] # {initiator[c]}
    BY <1>4, <1>6 DEF AnswersFit, CallFits
  <2>3. Phase(c)' = "finished"
    BY <1>3, <1>4, <2>2 DEF Phase, AnswersFit, Terminal
  <2>4. Lifecycle!Finish(c)
    BY <1>1, <1>2, <1>3, <2>1, <2>3 DEF Lifecycle!Finish
  <2>5. QED
    BY <2>4 DEF Lifecycle!Next
<1>7. CASE ~Live(c)
  <2>1. Phase(c)' = Phase(c)
    <3>1. o = "released" /\ status[c] \in Terminal \cup {"released"}
      BY <1>7 DEF Live, IInv, TypeOK, Statuses
    <3>2. QED
      BY <1>3, <1>4, <3>1 DEF Phase, AnswersFit, Terminal, CallFits
  <2>2. Phases' = Phases
    BY <1>1, <1>2, <2>1 DEF Phases
  <2>3. QED
    BY <1>1, <1>3, <2>2 DEF Lifecycle!vars
<1>8. QED
  BY <1>5, <1>6, <1>7 DEF Live

\* A step that leaves statuses, answers and invitees alone is invisible.
LEMMA QuietSteps ==
  ASSUME UNCHANGED <<status, setup, accepted>>
  PROVE  UNCHANGED Lifecycle!vars
<1>1. UNCHANGED <<status, initiator, invitees, accepted>>
  BY DEF setup
<1>2. UNCHANGED <<Phases, Asked>>
  BY <1>1 DEF Phases, Phase, Asked
<1>3. QED
  BY <1>1, <1>2 DEF Lifecycle!vars

\* Before the insertion a call is invisible, whatever Invite has decided.
LEMMA InviteIsQuiet ==
  ASSUME IInv, NEW c \in Calls, NEW u \in Users, NEW vs \in SUBSET Users, NEW g \in BOOLEAN,
         Invite(c, u, vs, g)
  PROVE  UNCHANGED Lifecycle!vars
<1>1. status[c] = "none" /\ status' = status /\ accepted' = accepted
  BY DEF Invite, IInv, CallsFit, CallFits, answers
<1>2. \A d \in Calls \ {c} : invitees'[d] = invitees[d] /\ initiator'[d] = initiator[d]
  BY DEF Invite, IInv, TypeOK
<1>3. \A d \in Calls : Phase(d)' = Phase(d)
  BY <1>1, <1>2 DEF Phase
<1>4. UNCHANGED <<Phases, Asked>>
  BY <1>1, <1>2, <1>3 DEF Phases, Asked
<1>5. QED
  BY <1>1, <1>4 DEF Lifecycle!vars

\* Inserting a call offers it.
LEMMA InsertOffers ==
  ASSUME IInv, IInv', NEW c \in Calls, InsertCall(c)
  PROVE  Lifecycle!Next
<1>1. status[c] = "none" /\ CallFits(c) /\ stage[c] = "insert"
  BY DEF InsertCall, IInv, CallsFit, CallFits
<1>2. initiator[c] \in Users /\ invitees[c] \in SUBSET Users
  BY <1>1 DEF CallFits, IInv, TypeOK
<1>3. Phases' = [Phases EXCEPT ![c] = Phase(c)']
  BY OnePhaseMoves DEF InsertCall, IInv, TypeOK
<1>4. Phase(c) = "none" /\ Phase(c)' = "offered" /\ Phases[c] = Phase(c)
  BY <1>1 DEF Phase, Phases, InsertCall, IInv, TypeOK
<1>5. Asked' = [Asked EXCEPT ![c] = invitees[c]]
  BY DEF Asked, InsertCall, IInv, TypeOK, setup
<1>6. accepted' = [accepted EXCEPT ![c] = {initiator[c]}]
  BY DEF InsertCall
<1>7. Lifecycle!Offer(c, initiator[c], invitees[c])
  BY <1>1, <1>3, <1>4, <1>5, <1>6 DEF Lifecycle!Offer, CallFits
<1>8. QED
  BY <1>2, <1>7 DEF Lifecycle!Next

\* Accepting joins.
LEMMA AcceptJoins ==
  ASSUME IInv, IInv', NEW c \in Calls, NEW u \in Users, Accept(u, c)
  PROVE  Lifecycle!Next
<1>1. status[c] \in {"pending", "ongoing"} /\ status' = [status EXCEPT ![c] = "ongoing"]
  BY DEF Accept, Live
<1>2. UNCHANGED setup /\ accepted' = [accepted EXCEPT ![c] = accepted[c] \cup {u}]
  BY DEF Accept
<1>3. Phases' = [Phases EXCEPT ![c] = Phase(c)']
  BY <1>1, <1>2, OnePhaseMoves DEF IInv, TypeOK
<1>4. Phase(c) \in {"offered", "talking"} /\ Phase(c)' = "talking" /\ Phases[c] = Phase(c)
  BY <1>1 DEF Phase, Phases, IInv, TypeOK
<1>5. Asked' = Asked
  BY <1>1, <1>2, AskedStays DEF IInv
<1>6. u \in Asked[c] \ accepted[c]
  BY <1>1 DEF Asked, Accept
<1>7. Lifecycle!Join(c, u)
  BY <1>2, <1>3, <1>4, <1>5, <1>6 DEF Lifecycle!Join
<1>8. QED
  BY <1>7 DEF Lifecycle!Next, Lifecycle!Resolve

\* Every step of the service is a step of the abstract life, or none.
LEMMA NextIsAllowed ==
  ASSUME IInv, IInv', [Next]_vars
  PROVE  [Lifecycle!Next]_(Lifecycle!vars)
<1>1. ASSUME NEW c \in Calls, NEW u \in Users, NEW vs \in SUBSET Users, NEW g \in BOOLEAN,
             Invite(c, u, vs, g)
      PROVE  UNCHANGED Lifecycle!vars
  BY <1>1, InviteIsQuiet
<1>2. ASSUME NEW c \in Calls, InsertCall(c) PROVE Lifecycle!Next
  BY <1>2, InsertOffers
<1>3. ASSUME NEW c \in Calls, NEW u \in Users, PushInvite(c, u) \/ QueueInvite(c, u)
      PROVE  UNCHANGED Lifecycle!vars
  BY <1>3, QuietSteps DEF PushInvite, QueueInvite, answers
<1>4. ASSUME NEW c \in Calls, InviteSent(c) PROVE UNCHANGED Lifecycle!vars
  BY <1>4, QuietSteps DEF InviteSent, answers
<1>5. ASSUME NEW c \in Calls, ReleaseCall(c) PROVE [Lifecycle!Next]_(Lifecycle!vars)
  <2>1. status[c] # "none"
    BY <1>5 DEF ReleaseCall, IInv, CallsFit, CallFits
  <2>2. QED
    BY <1>5, <2>1, EndingIsAllowed DEF ReleaseCall, End, answers
<1>6. ASSUME NEW c \in Calls, Timeout(c) PROVE [Lifecycle!Next]_(Lifecycle!vars)
  <2>1. CASE status[c] = "pending"
    BY <1>6, <2>1, EndingIsAllowed DEF Timeout, End, answers, Live, Terminal
  <2>2. CASE status[c] # "pending"
    BY <1>6, <2>2, QuietSteps DEF Timeout, answers
  <2>3. QED
    BY <2>1, <2>2
<1>7. ASSUME NEW c \in Calls, NEW u \in Users, Accept(u, c) PROVE Lifecycle!Next
  BY <1>7, AcceptJoins
<1>8. ASSUME NEW c \in Calls, NEW u \in Users, Reject(u, c)
      PROVE  [Lifecycle!Next]_(Lifecycle!vars)
  <2>1. CASE invitees[c] \subseteq rejected'[c]
    BY <1>8, <2>1, EndingIsAllowed DEF Reject, End, Live, Terminal
  <2>2. CASE ~(invitees[c] \subseteq rejected'[c])
    BY <1>8, <2>2, QuietSteps DEF Reject
  <2>3. QED
    BY <2>1, <2>2
<1>9. ASSUME NEW c \in Calls, NEW u \in Users, Cancel(u, c) \/ Hangup(u, c)
      PROVE  [Lifecycle!Next]_(Lifecycle!vars)
  BY <1>9, EndingIsAllowed DEF Cancel, Hangup, End, answers, Live, Terminal
<1>10. ASSUME NEW u \in Users, HandleParticipantDisconnected(u)
       PROVE  [Lifecycle!Next]_(Lifecycle!vars)
  <2>1. active[u] # None => active[u] \in Calls /\ Live(active[u])
    BY DEF IInv, TypeOK, SlotsPointAtLiveCalls
  <2>2. CASE active[u] = None \/ grouped[active[u]]
    BY <1>10, <2>1, <2>2, QuietSteps DEF HandleParticipantDisconnected, answers
  <2>3. CASE active[u] # None /\ ~grouped[active[u]]
    BY <1>10, <2>1, <2>3, EndingIsAllowed
       DEF HandleParticipantDisconnected, End, answers, Live, Terminal
  <2>4. QED
    BY <2>2, <2>3
<1>11. ASSUME NEW u \in Users, Connect(u) \/ Disconnect(u) \/ KickUserConnections(u)
       PROVE  UNCHANGED Lifecycle!vars
  BY <1>11, QuietSteps DEF Connect, Disconnect, KickUserConnections, answers
<1>12. CASE UNCHANGED vars
  BY <1>12, QuietSteps DEF vars, answers
<1>13. QED
  BY <1>1, <1>2, <1>3, <1>4, <1>5, <1>6, <1>7, <1>8, <1>9, <1>10, <1>11, <1>12,
     ConstantsAssumption DEF Next, Inviting, Proceed, Answering, Connecting

\* The service implements CallLifecycle: no order of answers, hang-ups,
\* disconnects, releases and timers revives or rewrites a call that ended.
THEOREM ImplementsLifecycle == Spec => CallsLiveOnce
<1>1. Init => Lifecycle!Init
  BY DEF Init, Lifecycle!Init, Phases, Phase, Asked
<1>2. IInv /\ IInv' /\ [Next]_vars => [Lifecycle!Next]_(Lifecycle!vars)
  BY NextIsAllowed
<1>3. QED
  BY Invariant, <1>1, <1>2, PTL DEF Spec, CallsLiveOnce, Lifecycle!Spec

=============================================================================
