------------------------------- MODULE Presence -------------------------------
(***************************************************************************)
(* When a user's calls are ended because he is gone: the grace timer of    *)
(* chat_handler.go over the connections of chat_service.go.  The handler   *)
(* of each foreground socket registers it, stops a pending timer, reads    *)
(* until the socket breaks, and starts a timer when it was the last.  The  *)
(* table of connections, the map of timers and the timers themselves are   *)
(* guarded each on its own.                                                *)
(*                                                                         *)
(* Users never meet, so one is enough.  RTCCalls leaves open when these     *)
(* callbacks run; background sockets neither stop nor start a timer.       *)
(***************************************************************************)
EXTENDS Naturals, FiniteSets

CONSTANTS
    Conns,          \* foreground sockets of the user
    MaxTimers       \* bound: timers started

ASSUME TimerBound == MaxTimers \in Nat

VARIABLES
    handler,        \* where the handler of each socket stands
    table,          \* the sockets in chatService.connections
    timer,          \* every timer that was started
    entry,          \* disconnectTimers[user]; 0 when absent
    lastTimer,
    \* History, read by the properties only:
    unreported,     \* he was connected since his calls were last ended
    orphans         \* armed timers whose entry an older callback removed

timers == <<timer, entry, lastTimer>>
presenceVars == <<handler, table, timers, unreported, orphans>>

Timers == 1..MaxTimers
Walk(c, from, to) == handler[c] = from /\ handler' = [handler EXCEPT ![c] = to]
Turn(t, from, to) == timer[t] = from /\ timer' = [timer EXCEPT ![t] = to]

\* time.Timer.Stop: a callback that runs already is not stopped.
Stopped == [t \in Timers |-> IF t = entry /\ timer[t] = "armed" THEN "done" ELSE timer[t]]

----------------------------------------------------------------------------
(* The handler of one socket.                                               *)

RegisterSocket(c) ==
    /\ Walk(c, "off", "registered")
    /\ table' = table \cup {c}
    /\ unreported' = TRUE
    /\ UNCHANGED <<timers, orphans>>

\* cancelForegroundDisconnect.
CancelDisconnect(c) ==
    /\ Walk(c, "registered", "reading")
    /\ timer' = Stopped
    /\ entry' = 0
    /\ UNCHANGED <<table, lastTimer, unreported, orphans>>

\* The deferred steps: unregister, ...
UnregisterSocket(c) ==
    /\ Walk(c, "reading", "leaving")
    /\ table' = table \ {c}
    /\ UNCHANGED <<timers, unreported, orphans>>

\* ... look for the others, ...
HasConnectionClient(c) ==
    /\ Walk(c, "leaving", IF table = {} THEN "gone" ELSE "off")
    /\ UNCHANGED <<table, timers, unreported, orphans>>

Arm ==
    /\ lastTimer < MaxTimers
    /\ lastTimer' = lastTimer + 1
    /\ entry' = lastTimer + 1

\* Defect: a timer that is pending goes on.
ScheduleAnother(c) ==
    /\ Walk(c, "gone", "off")
    /\ Arm
    /\ timer' = [timer EXCEPT ![lastTimer + 1] = "armed"]
    /\ UNCHANGED <<table, unreported, orphans>>

\* Defect: as long as the map names a timer, no other is started.
KeepPrevious(c) ==
    /\ Walk(c, "gone", "off")
    /\ IF entry = 0 THEN Arm /\ timer' = [timer EXCEPT ![lastTimer + 1] = "armed"]
       ELSE UNCHANGED timers
    /\ UNCHANGED <<table, unreported, orphans>>

\* ... and scheduleForegroundDisconnect, under the mutex of the map.
ScheduleDisconnect(c) ==
    /\ Walk(c, "gone", "off")
    /\ Arm
    /\ timer' = [Stopped EXCEPT ![lastTimer + 1] = "armed"]
    /\ UNCHANGED <<table, unreported, orphans>>

\* The chat service takes sockets out of the table, all of them on a kick or
\* one whose write failed; their handlers find out later.
Evict(cs) ==
    /\ cs \subseteq table
    /\ table' = table \ cs
    /\ UNCHANGED <<handler, timers, unreported, orphans>>

----------------------------------------------------------------------------
(* The callback of a timer: three steps, of which only the last takes the   *)
(* mutex of the map.                                                        *)

Fire(t) ==
    /\ Turn(t, "armed", "fired")
    /\ orphans' = orphans \ {t}
    /\ UNCHANGED <<handler, table, entry, lastTimer, unreported>>

\* Back by now: the entry is left where it is.
CheckConnection(t) ==
    /\ Turn(t, "fired", IF table = {} THEN "reporting" ELSE "done")
    /\ UNCHANGED <<handler, table, entry, lastTimer, unreported, orphans>>

\* Also when he has come back since.
HandleParticipantDisconnected(t) ==
    /\ Turn(t, "reporting", "reported")
    /\ unreported' = (table # {})
    /\ UNCHANGED <<handler, table, entry, lastTimer, orphans>>

\* Whichever timer the entry names by now.
RemoveEntry(t) ==
    /\ Turn(t, "reported", "done")
    /\ entry' = 0
    /\ orphans' = orphans \cup {s \in {entry} \ {0, t} : timer[s] = "armed"}
    /\ UNCHANGED <<handler, table, lastTimer, unreported>>

PresenceInit ==
    /\ handler = [c \in Conns |-> "off"] /\ table = {}
    /\ timer = [t \in Timers |-> "none"] /\ entry = 0 /\ lastTimer = 0
    /\ unreported = FALSE /\ orphans = {}

Socket(c) ==
    \/ RegisterSocket(c) \/ CancelDisconnect(c)
    \/ UnregisterSocket(c) \/ HasConnectionClient(c) \/ ScheduleDisconnect(c)

Callback(t) ==
    Fire(t) \/ CheckConnection(t) \/ HandleParticipantDisconnected(t) \/ RemoveEntry(t)

PresenceNext ==
    \/ \E c \in Conns : Socket(c) \/ Evict({c})
    \/ Evict(table) /\ table # {}
    \/ \E t \in Timers : Callback(t)

PresenceSpec == PresenceInit /\ [][PresenceNext]_presenceVars

----------------------------------------------------------------------------
(* Properties.                                                              *)

\* Nobody disappears from a call unnoticed: when the last foreground socket of
\* a user is gone and its handler has ended, a timer is running or its callback
\* is about to end his calls, unless they were ended since.  However handlers
\* overlap, are kicked, stop each other's timers, or meet a late callback.
GoneIsReported ==
    unreported /\ table = {} /\ (\A c \in Conns : handler[c] = "off")
    => \E t \in Timers : timer[t] \in {"armed", "fired", "reporting"}

\* A user who is back can stop the timer that would end his calls: the one
\* that is armed is the one in the map.  Except after a callback that came
\* late: it removes the entry of the timer that was started since.
ArmedTimersAreKnown ==
    \A t \in Timers : timer[t] = "armed" => t = entry \/ t \in orphans
=============================================================================
