----------------------------- MODULE Application -----------------------------
(***************************************************************************)
(* The process: app.go's Bootstrap, Run and Close as main.go calls them.   *)
(* Bootstrap opens the resources one after the other and stacks a closer   *)
(* for each; Run binds the listener, serves in a goroutine, and on SIGTERM *)
(* stops accepting, drains, waits and closes.  Fiber's server is external: *)
(* it is modelled as Run uses it.  It counts the connections it serves,    *)
(* but no longer those that a handler has turned into a WebSocket.         *)
(***************************************************************************)
EXTENDS Naturals, Sequences, SequencesExt

CONSTANTS
    Order,       \* the resources, in the order in which Bootstrap opens them
    Owned,       \* those with a closer: opened here, not injected by a test
    Requests     \* HTTP requests

ASSUME OrderIsFinite == Order \in Seq(ToSet(Order))
ASSUME OwnedAreOpened == Owned \subseteq ToSet(Order)

VARIABLES
    phase,       \* where main stands
    opened,      \* how many resources are open or were
    closers,     \* Application.closers
    closed,      \* the closers that Close has called, in its order
    canceled,    \* the signal context is done
    listening,   \* the bound listener accepts
    server,      \* the goroutine in HTTP.Listener: "none", "starting", "serving", "stopped"
    drained,     \* Shutdown has waited until no connection was left
    requests,    \* HTTP handlers in flight
    upgraded     \* WebSocket handlers in flight, on hijacked connections

resources == <<opened, closers, closed>>
http == <<listening, server, drained>>
handlers == <<requests, upgraded>>
appVars == <<phase, resources, canceled, http, handlers>>

Phases == {"off", "open", "route", "ready", "serving", "stopping", "draining",
           "waiting", "closing", "exited", "abandoned"}

Goto(from, to) == phase = from /\ phase' = to

----------------------------------------------------------------------------
(* main: the process starts, is told to stop, and is gone.                  *)

\* A broken configuration ends it before there is anything to clean up.
Launch ==
    /\ phase = "off"
    /\ phase' \in {"open", "exited"}
    /\ UNCHANGED <<resources, canceled, http, handlers>>

Signal ==
    /\ phase # "off" /\ ~canceled
    /\ canceled' = TRUE
    /\ UNCHANGED <<phase, resources, http, handlers>>

Fresh ==
    /\ phase' = "off"
    /\ opened' = 0 /\ closers' = <<>> /\ closed' = <<>>
    /\ canceled' = FALSE
    /\ listening' = FALSE /\ server' = "none" /\ drained' = FALSE
    /\ requests' = {} /\ upgraded' = {}

\* main returns, or the process is killed: what still runs is cut off.
Exit == phase \in {"exited", "abandoned"} /\ Fresh
Kill == phase \notin {"off", "exited", "abandoned"} /\ Fresh

----------------------------------------------------------------------------
(* Bootstrap.                                                               *)

\* Defect: a resource that was injected gets a closer too.
OwnInjected ==
    /\ phase = "open"
    /\ IF opened = Len(Order)
       THEN phase' = "route" /\ UNCHANGED resources
       ELSE /\ opened' = opened + 1
            /\ closers' = Append(closers, Order[opened + 1])
            /\ UNCHANGED <<phase, closed>>
    /\ UNCHANGED <<canceled, http, handlers>>

OpenNext ==
    /\ phase = "open"
    /\ IF opened = Len(Order)
       THEN phase' = "route" /\ UNCHANGED resources
       ELSE /\ opened' = opened + 1
            /\ closers' = IF Order[opened + 1] \in Owned
                          THEN Append(closers, Order[opened + 1]) ELSE closers
            /\ UNCHANGED <<phase, closed>>
    /\ UNCHANGED <<canceled, http, handlers>>

\* Every later failure goes through cleanup, which is Close.
OpenFails ==
    /\ phase = "open" /\ opened < Len(Order)
    /\ phase' = "closing"
    /\ UNCHANGED <<resources, canceled, http, handlers>>

BuildRouter ==
    /\ phase = "route"
    /\ phase' \in {"ready", "closing"}
    /\ UNCHANGED <<resources, canceled, http, handlers>>

----------------------------------------------------------------------------
(* Run.                                                                     *)

\* A context that is done already: Run returns without Close.
RunRefused ==
    /\ canceled
    /\ Goto("ready", "abandoned")
    /\ UNCHANGED <<resources, canceled, http, handlers>>

Bind ==
    /\ ~canceled
    /\ \/ Goto("ready", "serving") /\ listening' = TRUE /\ server' = "starting"
       \/ Goto("ready", "closing") /\ UNCHANGED <<listening, server>>
    /\ UNCHANGED <<resources, canceled, drained, handlers>>

\* Fiber has prepared its server; on a closed listener it returns at once.
ServerStarts ==
    /\ server = "starting"
    /\ server' = IF listening THEN "serving" ELSE "none"
    /\ UNCHANGED <<phase, resources, canceled, listening, drained, handlers>>

\* HTTP.Listener returns: the listener is closed, or accepting failed.  The
\* connections it accepted are served all the same.
ServerStops ==
    /\ server = "serving"
    /\ server' = "stopped"
    /\ UNCHANGED <<phase, resources, canceled, listening, drained, handlers>>

ServerFailed ==
    /\ server = "stopped"
    /\ Goto("serving", "closing")
    /\ UNCHANGED <<resources, canceled, http, handlers>>

\* Defect: Shutdown is trusted to close the listener.
StopListeningLater ==
    /\ canceled
    /\ Goto("serving", "stopping")
    /\ UNCHANGED <<resources, canceled, http, handlers>>

StopListening ==
    /\ canceled
    /\ Goto("serving", "stopping")
    /\ listening' = FALSE
    /\ UNCHANGED <<resources, canceled, server, drained, handlers>>

\* ShutdownWithContext returns at once when no server runs yet, and it may when
\* the listener it closes was closed before: Run expects that error.
Shutdown ==
    /\ phase = "stopping"
    /\ \/ phase' = "waiting"
       \/ server # "starting" /\ phase' = "draining"
    /\ listening' = (listening /\ server = "starting")
    /\ UNCHANGED <<resources, canceled, server, drained, handlers>>

\* Defect: the drain has no deadline.
DrainForever ==
    /\ Goto("draining", "waiting")
    /\ requests = {} /\ drained' = TRUE
    /\ UNCHANGED <<resources, canceled, listening, server, handlers>>

\* Defect: it stops waiting before the handlers are done.
DrainAtOnce ==
    /\ Goto("draining", "waiting")
    /\ drained' = TRUE
    /\ UNCHANGED <<resources, canceled, listening, server, handlers>>

\* It returns when no connection that the server counts is left, or when the
\* timeout has passed.
Drain ==
    /\ Goto("draining", "waiting")
    /\ drained' = (requests = {})
    /\ UNCHANGED <<resources, canceled, listening, server, handlers>>

\* The result of the listener goroutine, or the second timeout.
AwaitServer ==
    /\ Goto("waiting", "closing")
    /\ UNCHANGED <<resources, canceled, http, handlers>>

----------------------------------------------------------------------------
(* Close.                                                                   *)

\* Defect: in the order of opening.
CloseForwards ==
    /\ phase = "closing"
    /\ IF Len(closed) = Len(closers)
       THEN phase' = "exited" /\ listening' = FALSE /\ UNCHANGED closed
       ELSE closed' = Append(closed, closers[Len(closed) + 1]) /\ UNCHANGED <<phase, listening>>
    /\ UNCHANGED <<opened, closers, canceled, server, drained, handlers>>

\* Last opened first; an error is remembered and the next one is closed.  The
\* deferred close of the listener comes last.
CloseNext ==
    /\ phase = "closing"
    /\ IF Len(closed) = Len(closers)
       THEN phase' = "exited" /\ listening' = FALSE /\ UNCHANGED closed
       ELSE /\ closed' = Append(closed, closers[Len(closers) - Len(closed)])
            /\ UNCHANGED <<phase, listening>>
    /\ UNCHANGED <<opened, closers, canceled, server, drained, handlers>>

----------------------------------------------------------------------------
(* Handlers, which may take as long as they like.  Requests arrive as long  *)
(* as some connection is open: also after the listener is closed, and when  *)
(* Shutdown gave up, until the process ends.                                *)

Admit(r) ==
    /\ server \in {"serving", "stopped"} /\ ~drained
    /\ r \notin requests \cup upgraded
    /\ requests' = requests \cup {r}
    /\ UNCHANGED <<phase, resources, canceled, http, upgraded>>

\* The chat and online sockets: the server gives the connection away and
\* counts it no longer; the handler goes on.
Upgrade(r) ==
    /\ r \in requests
    /\ requests' = requests \ {r} /\ upgraded' = upgraded \cup {r}
    /\ UNCHANGED <<phase, resources, canceled, http>>

Finish(r) ==
    /\ r \in requests \cup upgraded
    /\ requests' = requests \ {r} /\ upgraded' = upgraded \ {r}
    /\ UNCHANGED <<phase, resources, canceled, http>>

Main ==
    \/ OpenNext \/ OpenFails \/ BuildRouter
    \/ RunRefused \/ Bind \/ StopListening \/ Shutdown \/ Drain \/ AwaitServer
    \/ ServerFailed \/ CloseNext

Serve == ServerStarts \/ ServerStops

AppInit ==
    /\ phase = "off"
    /\ opened = 0 /\ closers = <<>> /\ closed = <<>>
    /\ canceled = FALSE
    /\ listening = FALSE /\ server = "none" /\ drained = FALSE
    /\ requests = {} /\ upgraded = {}

AppNext ==
    \/ Launch \/ Signal \/ Exit \/ Kill
    \/ Main \/ Serve
    \/ \E r \in Requests : Admit(r) \/ Upgrade(r) \/ Finish(r)

\* The goroutine of main is scheduled, its timers fire, closing a client returns.
\* Nothing is assumed of the handlers, of Fiber or of a supervisor.
Fairness == WF_appVars(Main)

AppSpec == AppInit /\ [][AppNext]_appVars /\ Fairness

----------------------------------------------------------------------------
(* Properties.                                                              *)

AppTypeOK ==
    /\ phase \in Phases
    /\ opened \in 0..Len(Order)
    /\ closers \in Seq(Owned) /\ closed \in Seq(Owned)
    /\ canceled \in BOOLEAN /\ listening \in BOOLEAN
    /\ server \in {"none", "starting", "serving", "stopped"}
    /\ drained \in BOOLEAN
    /\ requests \subseteq Requests /\ upgraded \subseteq Requests \ requests

\* While the server can accept a connection everything it was wired with is
\* open: a signal in the instant between binding and serving does not leave a
\* server behind that starts after Close.
ServesOnlyWhenOpen ==
    listening /\ server = "serving" => opened = Len(Order) /\ closed = <<>>

\* Once Shutdown has waited for all handlers, Close takes nothing away from an
\* HTTP handler, not even from one that came in while the others were waited
\* for.  That is all: a WebSocket handler is not waited for, and nobody is when
\* Shutdown gives up, meets the closed listener, or is not called because the
\* server broke down by itself.
NothingClosedUnderRequests ==
    drained /\ closed # <<>> => requests = {}

\* Whatever step of Bootstrap or Run failed: when it has returned, each owned
\* resource that was opened has been closed, once, after everything opened
\* later than it.  RunRefused alone returns without Close.
ReturnsWithAllClosed ==
    /\ closed = SubSeq(Reverse(closers), 1, Len(closed))
    /\ phase = "exited" =>
          /\ Len(closed) = Len(closers) /\ ~listening
          /\ ToSet(closed) = {Order[i] : i \in 1..opened} \cap Owned

\* A signal ends the process, even if no handler ever returns: both waits have
\* a deadline.
SignalEndsProcess == canceled ~> phase \in {"exited", "abandoned", "off"}
=============================================================================
