-------------------------- MODULE ApplicationProofs --------------------------
(* Application, for any resources, in any order, and any requests: what is  *)
(* open while requests are served, and what is closed when Run returns.     *)
(*                                                                          *)
(* The invariant follows main from phase to phase: the closers are those of *)
(* the resources opened so far (Stacked), nothing is closed before Close    *)
(* and then from the top (Unstacked), the listener accepts only as long as  *)
(* Run serves or its server is gone already (Listens), and nobody comes in  *)
(* after a drain that ended well (Waited).                                  *)
EXTENDS Application, TLAPS

Stacked ==
    /\ ToSet(closers) = {Order[i] : i \in 1..opened} \cap Owned
    /\ phase \in {"route", "ready", "serving", "stopping", "draining", "waiting"} =>
          opened = Len(Order)
    /\ phase = "off" => closers = <<>>

Unstacked ==
    /\ phase \notin {"closing", "exited"} => closed = <<>>
    /\ Len(closed) <= Len(closers)
    /\ \A i \in 1..Len(closed) : closed[i] = closers[Len(closers) - i + 1]
    /\ phase = "exited" => Len(closed) = Len(closers) /\ ~listening

Listens ==
    /\ listening => opened = Len(Order)
    /\ listening => phase = "serving" \/ (phase = "closing" /\ server = "stopped")
    /\ phase = "serving" => listening
    /\ phase \in {"off", "open", "route", "ready"} => server = "none"

Waited ==
    /\ handlers # <<{}, {}>> => server \in {"serving", "stopped"}
    /\ drained => phase \in {"waiting", "closing", "exited"} /\ requests = {}

IInv == AppTypeOK /\ Stacked /\ Unstacked /\ Listens /\ Waited

LEMMA StartKeeps ==
    ASSUME phase' = "off", opened' = 0, closers' = <<>>, closed' = <<>>, canceled' = FALSE,
           listening' = FALSE, server' = "none", drained' = FALSE, requests' = {}, upgraded' = {}
    PROVE  IInv'
  <1>1. 0 \in 0..Len(Order) /\ <<>> \in Seq(Owned)
    BY OrderIsFinite
  <1>2. AppTypeOK'
    <2>1. phase' \in Phases
      BY DEF Phases
    <2> QED
      BY <1>1, <2>1 DEF handlers, AppTypeOK
  <1>3. Stacked' /\ Unstacked'
    BY DEF Stacked, Unstacked, ToSet
  <1>4. Listens' /\ Waited'
    BY DEF handlers, Listens, Waited
  <1> QED
    BY <1>2, <1>3, <1>4 DEF IInv

\* Steps that neither open nor close anything.
LEMMA ResourcesRest ==
    ASSUME AppTypeOK, Stacked, Unstacked, UNCHANGED resources,
           phase' = "off" => phase = "off",
           phase' \in {"route", "ready", "serving", "stopping", "draining", "waiting"} =>
              phase \in {"route", "ready", "serving", "stopping", "draining", "waiting"},
           phase \in {"closing", "exited"} => phase' \in {"closing", "exited"},
           phase' = "exited" => Len(closed) = Len(closers) /\ ~listening'
    PROVE  Stacked' /\ Unstacked'
  BY DEF resources, Stacked, Unstacked

LEMMA OpenNextKeeps ==
    ASSUME IInv, OpenNext
    PROVE  IInv'
  <1> USE DEF IInv
  <1>1. Len(Order) \in Nat /\ phase = "open" /\ UNCHANGED <<canceled, http, handlers>>
    BY OrderIsFinite DEF OpenNext
  <1>2. Listens' /\ Waited'
    BY <1>1 DEF handlers, OpenNext, http, resources, Listens, Waited
  <1>3. CASE opened = Len(Order)
    <2>1. phase' = "route" /\ UNCHANGED resources
      BY <1>3 DEF OpenNext
    <2>2. AppTypeOK'
      BY <1>1, <2>1 DEF handlers, AppTypeOK, Phases, http, resources
    <2>3. Stacked' /\ Unstacked'
      BY <1>1, <1>3, <2>1 DEF resources, Stacked, Unstacked
    <2> QED
      BY <1>2, <2>2, <2>3
  <1>4. CASE opened # Len(Order)
    <2>1. /\ opened' = opened + 1 /\ phase' = "open" /\ closed' = closed /\ closed = <<>>
          /\ closers' = IF Order[opened + 1] \in Owned
                        THEN Append(closers, Order[opened + 1]) ELSE closers
      BY <1>1, <1>4 DEF OpenNext, Unstacked
    <2>2. closers \in Seq(Owned) /\ opened \in Nat /\ opened + 1 \in 0..Len(Order)
      BY <1>1, <1>4 DEF AppTypeOK
    <2>3. AppTypeOK'
      BY <1>1, <2>1, <2>2 DEF handlers, AppTypeOK, Phases, http
    <2>4. {Order[i] : i \in 1..opened'} = {Order[i] : i \in 1..opened} \cup {Order[opened + 1]}
      <3>1. 1..opened' = 1..opened \cup {opened + 1}
        BY <2>1, <2>2
      <3> QED
        BY <3>1
    <2>5. ToSet(closers') = {Order[i] : i \in 1..opened'} \cap Owned
      <3>1. CASE Order[opened + 1] \in Owned
        <4>1. ToSet(closers') = ToSet(closers) \cup {Order[opened + 1]}
          <5>1. closers' = Append(closers, Order[opened + 1]) /\ DOMAIN closers = 1..Len(closers)
                /\ DOMAIN closers' = 1..(Len(closers) + 1) /\ Len(closers) \in Nat
            BY <2>1, <2>2, <3>1
          <5>2. \A i \in DOMAIN closers : closers'[i] = closers[i]
            BY <2>2, <3>1, <5>1
          <5>3. closers'[Len(closers) + 1] = Order[opened + 1]
            BY <2>2, <3>1, <5>1
          <5>4. DOMAIN closers' = DOMAIN closers \cup {Len(closers) + 1}
            BY <5>1
          <5> HIDE <5>1
          <5> QED
            BY <5>2, <5>3, <5>4 DEF ToSet
        <4> QED
          BY <2>4, <3>1, <4>1 DEF Stacked
      <3>2. CASE Order[opened + 1] \notin Owned
        BY <2>1, <2>4, <3>2 DEF Stacked
      <3> QED
        BY <3>1, <3>2
    <2>6. Stacked'
      BY <2>1, <2>5 DEF Stacked
    <2>7. Unstacked'
      <3>1. Len(closed') = 0 /\ Len(closers') \in Nat
        BY <2>1, <2>2, <2>3 DEF handlers, AppTypeOK
      <3> QED
        BY <2>1, <3>1 DEF Unstacked
    <2> QED
      BY <1>2, <2>3, <2>6, <2>7
  <1> QED
    BY <1>3, <1>4

LEMMA CloseNextKeeps ==
    ASSUME IInv, CloseNext
    PROVE  IInv'
  <1> USE DEF IInv
  <1>1. /\ phase = "closing"
        /\ UNCHANGED <<opened, closers, canceled, server, drained, handlers>>
        /\ closers \in Seq(Owned) /\ closed \in Seq(Owned)
        /\ Len(closers) \in Nat /\ Len(closed) \in Nat
    BY DEF CloseNext, AppTypeOK
  <1>2. CASE Len(closed) = Len(closers)
    <2>1. phase' = "exited" /\ ~listening' /\ closed' = closed /\ listening' \in BOOLEAN
      BY <1>2 DEF CloseNext
    <2>2. AppTypeOK'
      BY <1>1, <2>1 DEF handlers, AppTypeOK, Phases
    <2>3. Stacked' /\ Unstacked'
      BY <1>1, <1>2, <2>1 DEF Stacked, Unstacked
    <2>4. Listens' /\ Waited'
      BY <1>1, <2>1 DEF handlers, Listens, Waited
    <2> QED
      BY <2>2, <2>3, <2>4
  <1>3. CASE Len(closed) # Len(closers)
    <2> DEFINE next == closers[Len(closers) - Len(closed)]
    <2>1. phase' = "closing" /\ listening' = listening /\ closed' = Append(closed, next)
      BY <1>1, <1>3 DEF CloseNext
    <2>2. Len(closed) < Len(closers) /\ next \in Owned
      <3>1. Len(closed) < Len(closers)
        BY <1>1, <1>3 DEF Unstacked
      <3>2. Len(closers) - Len(closed) \in 1..Len(closers)
        BY <1>1, <3>1
      <3> QED
        BY <1>1, <3>1, <3>2
    <2> HIDE DEF next
    <2>3. /\ closed' \in Seq(Owned) /\ Len(closed') = Len(closed) + 1
          /\ \A i \in 1..Len(closed) : closed'[i] = closed[i]
          /\ closed'[Len(closed) + 1] = next
      BY <1>1, <2>1, <2>2
    <2>4. AppTypeOK'
      BY <1>1, <2>1, <2>3 DEF handlers, AppTypeOK, Phases
    <2>5. Stacked'
      BY <1>1, <2>1 DEF Stacked
    <2>6. Len(closers) - (Len(closed) + 1) + 1 = Len(closers) - Len(closed)
      BY <1>1
    <2>7. \A i \in 1..Len(closed') : closed'[i] = closers[Len(closers) - i + 1]
      <3> SUFFICES ASSUME NEW i \in 1..Len(closed')
                   PROVE  closed'[i] = closers[Len(closers) - i + 1]
        OBVIOUS
      <3>1. i \in 1..Len(closed) \/ i = Len(closed) + 1
        BY <1>1, <2>3
      <3>2. CASE i \in 1..Len(closed)
        BY <2>3, <3>2 DEF Unstacked
      <3>3. CASE i = Len(closed) + 1
        BY <2>3, <2>6, <3>3 DEF next
      <3> QED
        BY <3>1, <3>2, <3>3
    <2>8. Unstacked'
      BY <1>1, <2>1, <2>2, <2>3, <2>7 DEF Unstacked
    <2>9. Listens' /\ Waited'
      BY <1>1, <2>1 DEF handlers, Listens, Waited
    <2> QED
      BY <2>4, <2>5, <2>8, <2>9
  <1> QED
    BY <1>2, <1>3

LEMMA BootstrapKeeps ==
    ASSUME IInv, Launch \/ Signal \/ OpenFails \/ BuildRouter
    PROVE  IInv'
  <1> USE DEF IInv
  <1>1. UNCHANGED <<resources, http, handlers>>
    BY DEF Launch, Signal, OpenFails, BuildRouter
  <1>2. phase' \in Phases /\ canceled' \in BOOLEAN
    BY DEF Launch, Signal, OpenFails, BuildRouter, AppTypeOK, Phases
  <1>3. AppTypeOK'
    BY <1>1, <1>2 DEF resources, http, handlers, AppTypeOK
  <1>4. phase' = "exited" => phase = "exited" \/ Len(closed) = Len(closers)
    BY DEF Launch, Signal, OpenFails, BuildRouter, Stacked, Unstacked
  <1>5. phase' = "exited" => ~listening
    BY DEF Launch, Signal, OpenFails, BuildRouter, Listens, Unstacked
  <1>6. Stacked' /\ Unstacked'
    BY <1>1, <1>4, <1>5, ResourcesRest DEF Launch, Signal, OpenFails, BuildRouter, http, Unstacked
  <1>7. Listens' /\ Waited'
    BY <1>1 DEF handlers, Launch, Signal, OpenFails, BuildRouter, resources, http, Listens, Waited
  <1> QED
    BY <1>3, <1>6, <1>7

\* Between the bound listener and Close: nothing is opened or closed.
RunStep ==
    RunRefused \/ Bind \/ ServerFailed \/ StopListening \/ Shutdown \/ Drain \/ AwaitServer

LEMMA RunKeeps ==
    ASSUME IInv, RunStep
    PROVE  IInv'
  <1> USE DEF IInv
  <1>1. UNCHANGED <<resources, canceled, handlers>> /\ phase' # "exited"
    BY DEF RunStep, RunRefused, Bind, ServerFailed, StopListening, Shutdown, Drain, AwaitServer, Goto
  <1>2. AppTypeOK'
    <2>1. /\ phase' \in Phases /\ listening' \in BOOLEAN
          /\ server' \in {"none", "starting", "serving", "stopped"}
          /\ drained' \in BOOLEAN
      BY DEF RunStep, RunRefused, Bind, ServerFailed, StopListening, Shutdown, Drain, AwaitServer,
         Goto, http, AppTypeOK, Phases
    <2> QED
      BY <1>1, <2>1 DEF handlers, resources, AppTypeOK
  <1>3. /\ phase' # "off"
        /\ phase \in {"route", "ready", "serving", "stopping", "draining", "waiting"}
    BY DEF RunStep, RunRefused, Bind, ServerFailed, StopListening, Shutdown, Drain, AwaitServer, Goto
  <1>4. Stacked' /\ Unstacked'
    BY <1>1, <1>3, ResourcesRest
  <1>5. opened' = Len(Order)
    BY <1>1, <1>3 DEF Stacked, resources
  <1>6. Listens'
    BY <1>5 DEF RunStep, RunRefused, Bind, ServerFailed, StopListening, Shutdown, Drain, AwaitServer,
       Goto, http, Listens, AppTypeOK
  <1>7. Waited'
    <2>1. CASE Bind \/ RunRefused
      BY <2>1 DEF handlers, Bind, RunRefused, Goto, http, Listens, Waited
    <2>2. CASE ServerFailed \/ StopListening \/ AwaitServer
      BY <2>2 DEF handlers, ServerFailed, StopListening, AwaitServer, Goto, http, Waited
    <2>3. CASE Shutdown
      BY <2>3 DEF handlers, Shutdown, http, Waited
    <2>4. CASE Drain
      <3>1. phase' = "waiting" /\ (drained' => requests' = {})
        BY <2>4 DEF Drain, Goto, handlers
      <3>2. server' = server /\ handlers' = handlers
        BY <2>4 DEF Drain
      <3> QED
        BY <3>1, <3>2 DEF Waited
    <2> QED
      BY <2>1, <2>2, <2>3, <2>4 DEF RunStep
  <1> QED
    BY <1>2, <1>4, <1>6, <1>7

LEMMA ServerKeeps ==
    ASSUME IInv, Serve \/ \E r \in Requests : Admit(r) \/ Upgrade(r) \/ Finish(r)
    PROVE  IInv'
  <1> USE DEF IInv
  <1>1. UNCHANGED <<phase, resources, canceled, listening, drained>>
    BY DEF Serve, ServerStarts, ServerStops, Admit, Upgrade, Finish, http, handlers
  <1>2. AppTypeOK'
    <2>1. /\ server' \in {"none", "starting", "serving", "stopped"}
          /\ requests' \subseteq Requests /\ upgraded' \subseteq Requests \ requests'
      BY DEF Serve, ServerStarts, ServerStops, Admit, Upgrade, Finish, http, handlers, AppTypeOK
    <2> QED
      BY <1>1, <2>1 DEF handlers, resources, AppTypeOK
  <1>3. Stacked' /\ Unstacked'
    BY <1>1, ResourcesRest DEF Unstacked
  <1>4. Listens'
    BY <1>1 DEF Serve, ServerStarts, ServerStops, Admit, Upgrade, Finish, http, handlers, resources, Listens
  <1>5. Waited'
    BY <1>1 DEF Serve, ServerStarts, ServerStops, Admit, Upgrade, Finish, http, handlers, Waited, Listens, AppTypeOK
  <1> QED
    BY <1>2, <1>3, <1>4, <1>5

LEMMA InitInv == AppInit => IInv
  <1> SUFFICES ASSUME AppInit PROVE IInv
    OBVIOUS
  <1>1. 0 \in 0..Len(Order) /\ <<>> \in Seq(Owned)
    BY OrderIsFinite
  <1>2. AppTypeOK
    <2>1. phase \in Phases
      BY DEF AppInit, Phases
    <2> QED
      BY <1>1, <2>1 DEF handlers, AppInit, AppTypeOK
  <1>3. Stacked /\ Unstacked
    BY DEF AppInit, Stacked, Unstacked, ToSet
  <1>4. Listens /\ Waited
    BY DEF handlers, AppInit, Listens, Waited
  <1> QED
    BY <1>2, <1>3, <1>4 DEF IInv

LEMMA NextInv == IInv /\ [AppNext]_appVars => IInv'
  <1> SUFFICES ASSUME IInv, [AppNext]_appVars PROVE IInv'
    OBVIOUS
  <1>1. CASE Exit \/ Kill
    BY <1>1, StartKeeps DEF Exit, Kill, Fresh
  <1>2. CASE UNCHANGED appVars
    BY <1>2 DEF handlers, appVars, resources, http, IInv, AppTypeOK, Stacked, Unstacked, Listens, Waited
  <1> QED
    BY <1>1, <1>2, OpenNextKeeps, CloseNextKeeps, BootstrapKeeps, RunKeeps, ServerKeeps
    DEF AppNext, Main, RunStep

\* The invariant holds in every run of the process.
THEOREM InvHolds == AppSpec => []IInv
  BY InitInv, NextInv, PTL DEF AppSpec

\* The closers are a sequence of what Bootstrap owns, and every flag of Run
\* keeps its type.
THEOREM ApplicationTypesHold == AppSpec => []AppTypeOK
  <1>1. IInv => AppTypeOK
    BY DEF IInv
  <1> QED
    BY <1>1, InvHolds, PTL

\* Run accepts connections only between the last open and the first close,
\* whenever the signal comes.
THEOREM ServedByOpenResources == AppSpec => []ServesOnlyWhenOpen
  <1>1. IInv => ServesOnlyWhenOpen
    BY DEF IInv, Listens, Unstacked, ServesOnlyWhenOpen
  <1> QED
    BY <1>1, InvHolds, PTL

\* Run: when Shutdown has waited to the end, no HTTP handler is in flight while
\* Close closes what they use.  WebSocket handlers are not waited for.
THEOREM HandlersKeepResources == AppSpec => []NothingClosedUnderRequests
  <1>1. IInv => NothingClosedUnderRequests
    BY DEF IInv, Unstacked, Waited, NothingClosedUnderRequests
  <1> QED
    BY <1>1, InvHolds, PTL

\* Close undoes Bootstrap: every owned resource that was opened, in reverse.
THEOREM CloseUndoesBootstrap == AppSpec => []ReturnsWithAllClosed
  <1>1. IInv => ReturnsWithAllClosed
    <2> SUFFICES ASSUME IInv PROVE ReturnsWithAllClosed
      OBVIOUS
    <2>1. /\ closers \in Seq(Owned) /\ closed \in Seq(Owned)
          /\ Len(closers) \in Nat /\ Len(closed) \in Nat /\ Len(closed) <= Len(closers)
          /\ DOMAIN closed = 1..Len(closed) /\ DOMAIN closers = 1..Len(closers)
          /\ \A i \in 1..Len(closed) : closed[i] = closers[Len(closers) - i + 1]
      BY DEF IInv, AppTypeOK, Unstacked
    <2>2. closed = SubSeq(Reverse(closers), 1, Len(closed))
      <3>1. \A i \in 1..Len(closers) : Reverse(closers)[i] = closers[Len(closers) - i + 1]
        BY <2>1 DEF Reverse
      <3>2. Reverse(closers) \in Seq(Owned) /\ Len(Reverse(closers)) = Len(closers)
        <4>1. \A i \in 1..Len(closers) : closers[Len(closers) - i + 1] \in Owned
          BY <2>1
        <4> QED
          BY <2>1, <4>1 DEF Reverse
      <3> DEFINE part == SubSeq(Reverse(closers), 1, Len(closed))
      <3>3. part \in Seq(Owned) /\ Len(part) = Len(closed)
            /\ \A i \in 1..Len(closed) : part[i] = Reverse(closers)[i]
        BY <2>1, <3>2
      <3> HIDE DEF part
      <3>4. \A i \in 1..Len(closed) : part[i] = closed[i]
        BY <2>1, <3>1, <3>3
      <3>5. part = closed
        BY <2>1, <3>3, <3>4
      <3> QED
        BY <3>5 DEF part
    <2>3. ASSUME phase = "exited"
          PROVE  /\ Len(closed) = Len(closers) /\ ~listening
                 /\ ToSet(closed) = {Order[i] : i \in 1..opened} \cap Owned
      <3>1. Len(closed) = Len(closers) /\ ~listening
        BY <2>3 DEF IInv, Unstacked
      <3>2. ToSet(closed) = ToSet(closers)
        <4> DEFINE n == Len(closers)
        <4>1. \A i \in 1..n : n - i + 1 \in 1..n /\ n - (n - i + 1) + 1 = i
          BY <2>1
        <4>2. \A i \in 1..n : closed[i] = closers[n - i + 1]
          BY <2>1, <3>1
        <4>3. \A i \in 1..n : closers[i] = closed[n - i + 1]
          BY <4>1, <4>2
        <4>4. DOMAIN closed = 1..n /\ DOMAIN closers = 1..n
          BY <2>1, <3>1
        <4> HIDE DEF n
        <4> QED
          BY <4>1, <4>2, <4>3, <4>4 DEF ToSet
      <3> QED
        BY <3>1, <3>2 DEF IInv, Stacked
    <2> QED
      BY <2>2, <2>3 DEF ReturnsWithAllClosed
  <1> QED
    BY <1>1, InvHolds, PTL
=============================================================================
