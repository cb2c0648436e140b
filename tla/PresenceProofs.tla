--------------------------- MODULE PresenceProofs ---------------------------
(* Presence, for any number of sockets and timers: nobody leaves a call     *)
(* unnoticed, and the timer that is armed can be stopped.                   *)
(*                                                                          *)
(* The second is inductive beside the types.  The first needs to know who   *)
(* goes on: a socket in the table has a handler that has not left, and      *)
(* whoever is connected nowhere and not reported yet still has a handler    *)
(* that will look for the others, or a timer.                               *)
EXTENDS Presence, TLAPS

\* What the variables hold.
PresenceTypeOK ==
    /\ handler \in [Conns -> {"off", "registered", "reading", "leaving", "gone"}]
    /\ table \subseteq Conns
    /\ timer \in [Timers -> {"none", "armed", "fired", "reporting", "reported", "done"}]
    /\ lastTimer \in 0..MaxTimers /\ entry \in 0..lastTimer
    /\ unreported \in BOOLEAN

InTable == \A c \in table : handler[c] \in {"registered", "reading"}

Handled == \E c \in Conns : handler[c] # "off"
Pending == \E t \in Timers : timer[t] \in {"armed", "fired", "reporting"}
Noticed == unreported /\ table = {} => Handled \/ Pending

IInv == PresenceTypeOK /\ InTable /\ Noticed /\ ArmedTimersAreKnown

LEMMA InitInv == PresenceInit => IInv
  <1> SUFFICES ASSUME PresenceInit PROVE IInv
    OBVIOUS
  <1>1. PresenceTypeOK
    <2>1. handler \in [Conns -> {"off", "registered", "reading", "leaving", "gone"}]
      BY DEF PresenceInit
    <2>2. timer \in [Timers -> {"none", "armed", "fired", "reporting", "reported", "done"}]
      BY DEF PresenceInit
    <2>3. 0 \in 0..MaxTimers /\ 0 \in 0..0
      BY TimerBound
    <2>4. table \subseteq Conns
      BY DEF PresenceInit
    <2> QED
      BY <2>1, <2>2, <2>3, <2>4 DEF PresenceInit, PresenceTypeOK
  <1>2. InTable /\ Noticed /\ ArmedTimersAreKnown
    BY DEF PresenceInit, InTable, Noticed, ArmedTimersAreKnown
  <1> QED
    BY <1>1, <1>2 DEF IInv

LEMMA Walks ==
    ASSUME PresenceTypeOK, NEW c \in Conns, NEW from,
           NEW to \in {"off", "registered", "reading", "leaving", "gone"}, Walk(c, from, to)
    PROVE  /\ handler' \in [Conns -> {"off", "registered", "reading", "leaving", "gone"}]
           /\ handler[c] = from /\ handler'[c] = to
           /\ \A d \in Conns \ {c} : handler'[d] = handler[d]
  BY DEF PresenceTypeOK, Walk

LEMMA Turns ==
    ASSUME PresenceTypeOK, NEW t \in Timers, NEW from,
           NEW to \in {"fired", "reporting", "reported", "done"}, Turn(t, from, to)
    PROVE  /\ timer' \in [Timers -> {"none", "armed", "fired", "reporting", "reported", "done"}]
           /\ timer[t] = from /\ timer'[t] = to
           /\ \A s \in Timers \ {t} : timer'[s] = timer[s]
  BY DEF PresenceTypeOK, Turn

\* Stop ends the timer in the map and no other.
LEMMA Stops ==
    ASSUME PresenceTypeOK
    PROVE  /\ Stopped \in [Timers -> {"none", "armed", "fired", "reporting", "reported", "done"}]
           /\ \A t \in Timers : Stopped[t] = "armed" => timer[t] = "armed" /\ t # entry
  BY DEF PresenceTypeOK, Stopped

\* The handler of a socket is on its way.
LEMMA NoticedByHandler ==
    ASSUME NEW c \in Conns, handler'[c] # "off"
    PROVE  Noticed'
  BY DEF Noticed, Handled

LEMMA SocketKeeps ==
    ASSUME IInv, NEW c \in Conns, Socket(c)
    PROVE  IInv'
  <1> USE DEF IInv
  <1>1. CASE RegisterSocket(c)
    <2>1. handler'[c] = "registered" /\ \A d \in Conns \ {c} : handler'[d] = handler[d]
      BY <1>1, Walks DEF RegisterSocket
    <2>2. PresenceTypeOK'
      BY <1>1, Walks DEF RegisterSocket, timers, PresenceTypeOK
    <2>3. InTable'
      BY <1>1, <2>1 DEF RegisterSocket, InTable, PresenceTypeOK
    <2>4. Noticed'
      BY <2>1, NoticedByHandler
    <2>5. ArmedTimersAreKnown'
      BY <1>1 DEF RegisterSocket, timers, ArmedTimersAreKnown
    <2> QED
      BY <2>2, <2>3, <2>4, <2>5
  <1>2. CASE CancelDisconnect(c)
    <2>1. handler'[c] = "reading" /\ \A d \in Conns \ {c} : handler'[d] = handler[d]
      BY <1>2, Walks DEF CancelDisconnect
    <2>2. PresenceTypeOK'
      BY <1>2, Walks, Stops DEF CancelDisconnect, PresenceTypeOK
    <2>3. InTable'
      BY <1>2, <2>1 DEF CancelDisconnect, InTable, PresenceTypeOK
    <2>4. Noticed'
      BY <2>1, NoticedByHandler
    <2>5. ArmedTimersAreKnown'
      BY <1>2, Stops DEF CancelDisconnect, ArmedTimersAreKnown
    <2> QED
      BY <2>2, <2>3, <2>4, <2>5
  <1>3. CASE UnregisterSocket(c)
    <2>1. handler'[c] = "leaving" /\ \A d \in Conns \ {c} : handler'[d] = handler[d]
      BY <1>3, Walks DEF UnregisterSocket
    <2>2. PresenceTypeOK'
      BY <1>3, Walks DEF UnregisterSocket, timers, PresenceTypeOK
    <2>3. InTable'
      BY <1>3, <2>1 DEF UnregisterSocket, InTable, PresenceTypeOK
    <2>4. Noticed'
      BY <2>1, NoticedByHandler
    <2>5. ArmedTimersAreKnown'
      BY <1>3 DEF UnregisterSocket, timers, ArmedTimersAreKnown
    <2> QED
      BY <2>2, <2>3, <2>4, <2>5
  \* A handler that finds another socket leaves the rest to that one's handler.
  <1>4. CASE HasConnectionClient(c)
    <2>1. /\ handler[c] = "leaving" /\ handler'[c] = (IF table = {} THEN "gone" ELSE "off")
          /\ \A d \in Conns \ {c} : handler'[d] = handler[d]
      BY <1>4, Walks DEF HasConnectionClient
    <2>2. PresenceTypeOK'
      BY <1>4, Walks DEF HasConnectionClient, timers, PresenceTypeOK
    <2>3. InTable'
      BY <1>4, <2>1 DEF HasConnectionClient, InTable, PresenceTypeOK
    <2>4. Noticed'
      BY <1>4, <2>1 DEF HasConnectionClient, Noticed, Handled
    <2>5. ArmedTimersAreKnown'
      BY <1>4 DEF HasConnectionClient, timers, ArmedTimersAreKnown
    <2> QED
      BY <2>2, <2>3, <2>4, <2>5
  <1>5. CASE ScheduleDisconnect(c)
    <2>1. /\ handler[c] = "gone" /\ handler'[c] = "off"
          /\ \A d \in Conns \ {c} : handler'[d] = handler[d]
      BY <1>5, Walks DEF ScheduleDisconnect
    <2>2. /\ lastTimer + 1 \in Timers /\ lastTimer' = lastTimer + 1 /\ entry' = lastTimer + 1
          /\ timer' = [Stopped EXCEPT ![lastTimer + 1] = "armed"]
      BY <1>5, TimerBound DEF ScheduleDisconnect, Arm, PresenceTypeOK, Timers
    <2>3. PresenceTypeOK'
      BY <1>5, <2>2, Walks, Stops, TimerBound DEF ScheduleDisconnect, PresenceTypeOK, Timers
    <2>4. InTable'
      BY <1>5, <2>1 DEF ScheduleDisconnect, InTable, PresenceTypeOK
    <2>5. Noticed'
      BY <2>2, Stops DEF Noticed, Pending
    <2>6. ArmedTimersAreKnown'
      BY <1>5, <2>2, Stops DEF ScheduleDisconnect, ArmedTimersAreKnown
    <2> QED
      BY <2>3, <2>4, <2>5, <2>6
  <1> QED
    BY <1>1, <1>2, <1>3, <1>4, <1>5 DEF Socket

\* What is taken out of the table has a handler that will notice.
LEMMA EvictKeeps ==
    ASSUME IInv, NEW cs, Evict(cs)
    PROVE  IInv'
  <1> USE DEF IInv
  <1>1. PresenceTypeOK' /\ InTable' /\ ArmedTimersAreKnown'
    BY DEF Evict, timers, PresenceTypeOK, InTable, ArmedTimersAreKnown
  <1>2. table # {} => Handled
    BY DEF InTable, Handled, PresenceTypeOK
  <1>3. Noticed'
    BY <1>2 DEF Evict, timers, Noticed, Handled, Pending
  <1> QED
    BY <1>1, <1>3

LEMMA CallbackKeeps ==
    ASSUME IInv, NEW t \in Timers, Callback(t)
    PROVE  IInv'
  <1> USE DEF IInv
  <1>1. CASE Fire(t)
    <2>1. timer'[t] = "fired" /\ \A s \in Timers \ {t} : timer'[s] = timer[s]
      BY <1>1, Turns DEF Fire
    <2>2. PresenceTypeOK' /\ InTable'
      BY <1>1, Turns DEF Fire, PresenceTypeOK, InTable
    <2>3. Noticed'
      BY <2>1 DEF Noticed, Pending
    <2>4. ArmedTimersAreKnown'
      BY <1>1, <2>1 DEF Fire, ArmedTimersAreKnown
    <2> QED
      BY <2>2, <2>3, <2>4
  <1>2. CASE CheckConnection(t)
    <2>1. /\ timer[t] = "fired" /\ timer'[t] = (IF table = {} THEN "reporting" ELSE "done")
          /\ \A s \in Timers \ {t} : timer'[s] = timer[s]
      BY <1>2, Turns DEF CheckConnection
    <2>2. PresenceTypeOK' /\ InTable'
      BY <1>2, Turns DEF CheckConnection, PresenceTypeOK, InTable
    <2>3. Noticed'
      BY <1>2, <2>1 DEF CheckConnection, Noticed, Pending
    <2>4. ArmedTimersAreKnown'
      BY <1>2, <2>1 DEF CheckConnection, ArmedTimersAreKnown
    <2> QED
      BY <2>2, <2>3, <2>4
  <1>3. CASE HandleParticipantDisconnected(t)
    <2>1. timer'[t] = "reported" /\ \A s \in Timers \ {t} : timer'[s] = timer[s]
      BY <1>3, Turns DEF HandleParticipantDisconnected
    <2>2. PresenceTypeOK' /\ InTable'
      BY <1>3, Turns DEF HandleParticipantDisconnected, PresenceTypeOK, InTable
    <2>3. Noticed'
      BY <1>3 DEF HandleParticipantDisconnected, Noticed
    <2>4. ArmedTimersAreKnown'
      BY <1>3, <2>1 DEF HandleParticipantDisconnected, ArmedTimersAreKnown
    <2> QED
      BY <2>2, <2>3, <2>4
  <1>4. CASE RemoveEntry(t)
    <2>1. timer[t] = "reported" /\ timer'[t] = "done" /\ \A s \in Timers \ {t} : timer'[s] = timer[s]
      BY <1>4, Turns DEF RemoveEntry
    <2>2. PresenceTypeOK' /\ InTable'
      BY <1>4, Turns DEF RemoveEntry, PresenceTypeOK, InTable
    <2>3. Noticed'
      BY <1>4, <2>1 DEF RemoveEntry, Noticed, Handled, Pending
    <2>4. ArmedTimersAreKnown'
      BY <1>4, <2>1, TimerBound DEF RemoveEntry, ArmedTimersAreKnown, Timers
    <2> QED
      BY <2>2, <2>3, <2>4
  <1> QED
    BY <1>1, <1>2, <1>3, <1>4 DEF Callback

LEMMA NextInv == IInv /\ [PresenceNext]_presenceVars => IInv'
  <1> SUFFICES ASSUME IInv, [PresenceNext]_presenceVars PROVE IInv'
    OBVIOUS
  <1>1. CASE UNCHANGED presenceVars
    BY <1>1 DEF presenceVars, timers, IInv, PresenceTypeOK, InTable, Noticed, Handled, Pending,
       ArmedTimersAreKnown
  <1> QED
    BY <1>1, SocketKeeps, EvictKeeps, CallbackKeeps DEF PresenceNext

\* The invariant holds however handlers, kicks and callbacks overlap.
THEOREM InvHolds == PresenceSpec => []IInv
  BY InitInv, NextInv, PTL DEF PresenceSpec

\* ChatHandler's timers end the calls of everyone who left: once the handlers
\* of his sockets are through, a timer or its callback remains, or his calls
\* were ended since he was last connected.
THEOREM DepartureIsNoticed == PresenceSpec => []GoneIsReported
  <1>1. IInv => GoneIsReported
    BY DEF IInv, Noticed, Handled, Pending, GoneIsReported
  <1> QED
    BY <1>1, InvHolds, PTL

\* cancelForegroundDisconnect finds the armed timer of a user who is back, in
\* the map, except one whose entry a late callback has removed.
THEOREM ReturnFindsTheTimer == PresenceSpec => []ArmedTimersAreKnown
  <1>1. IInv => ArmedTimersAreKnown
    BY DEF IInv
  <1> QED
    BY <1>1, InvHolds, PTL
=============================================================================
