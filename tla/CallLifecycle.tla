--------------------------- MODULE CallLifecycle ---------------------------
(***************************************************************************)
(* What one call promises to its participants, whatever the order in which *)
(* accepts, rejects, hang-ups, disconnects and timers arrive: it is        *)
(* offered once, to people named when it is offered; it becomes a          *)
(* conversation when somebody else joins; it ends once, either unanswered  *)
(* (nobody but the caller ever joined) or finished (somebody did), and     *)
(* nothing happens to it afterwards.                                       *)
(***************************************************************************)
CONSTANTS Users, Calls

VARIABLES
    phase,    \* "none", "offered", "talking", "unanswered", "finished"
    asked,    \* who was invited
    joined    \* who has ever been in the call, the caller included

vars == <<phase, asked, joined>>

Init ==
    /\ phase = [c \in Calls |-> "none"]
    /\ asked = [c \in Calls |-> {}]
    /\ joined = [c \in Calls |-> {}]

Offer(c, u, vs) ==
    /\ phase[c] = "none"
    /\ vs # {} /\ u \notin vs
    /\ phase' = [phase EXCEPT ![c] = "offered"]
    /\ asked' = [asked EXCEPT ![c] = vs]
    /\ joined' = [joined EXCEPT ![c] = {u}]

Join(c, u) ==
    /\ phase[c] \in {"offered", "talking"}
    /\ u \in asked[c] \ joined[c]
    /\ phase' = [phase EXCEPT ![c] = "talking"]
    /\ joined' = [joined EXCEPT ![c] = joined[c] \cup {u}]
    /\ UNCHANGED asked

GiveUp(c) ==
    /\ phase[c] = "offered"
    /\ phase' = [phase EXCEPT ![c] = "unanswered"]
    /\ UNCHANGED <<asked, joined>>

Finish(c) ==
    /\ phase[c] = "talking"
    /\ phase' = [phase EXCEPT ![c] = "finished"]
    /\ UNCHANGED <<asked, joined>>

Resolve(c) == GiveUp(c) \/ \E u \in Users : Join(c, u)

Next == \E c \in Calls :
    \/ \E u \in Users, vs \in SUBSET Users : Offer(c, u, vs)
    \/ Resolve(c)
    \/ Finish(c)

Spec == Init /\ [][Next]_vars

\* An offered call is answered or given up; nobody must ever hang up.
FairSpec == Spec /\ \A c \in Calls : WF_vars(phase[c] = "offered" /\ Resolve(c))
=============================================================================
