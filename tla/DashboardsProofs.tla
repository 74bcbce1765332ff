--------------------------- MODULE DashboardsProofs --------------------------
(***************************************************************************)
(* What the dashboards show, for every set of dashboards, requests and     *)
(* suggestions, every capacity of their channels and any number of hook    *)
(* events, rounds of the reader thread and daemon stops.                   *)
(***************************************************************************)
EXTENDS Dashboards, FiniteSetTheorems, FunctionTheorems, SequenceTheorems, TLAPS

------------------------------------------------------------------------------
(* Events and broadcasts                                                   *)

\* A set of requests is put in an order that has each of them once.
LEMMA OrderOfRequests ==
    ASSUME NEW S \in SUBSET Requests
    PROVE  /\ Cardinality(S) \in Nat /\ Cardinality(S) <= Cardinality(Requests)
           /\ Cardinality(Requests) \in Nat
           /\ SetToSeq(S) \in [1..Cardinality(S) -> S]
           /\ \A i, j \in 1..Cardinality(S) : SetToSeq(S)[i] = SetToSeq(S)[j] => i = j
           /\ \A r \in S : \E i \in 1..Cardinality(S) : SetToSeq(S)[i] = r
  <1>1. IsFiniteSet(Requests)
    BY DashboardTypes
  <1>2. IsFiniteSet(S) /\ Cardinality(S) <= Cardinality(Requests)
    BY <1>1, FS_Subset
  <1>3. Cardinality(S) \in Nat /\ Cardinality(Requests) \in Nat
    BY <1>1, <1>2, FS_CardinalityType
  <1> DEFINE n == Cardinality(S)
  <1>4. PICK g : g \in Bijection(1..n, S)
    BY <1>2, FS_CardinalityType DEF ExistsBijection
  <1>5. g \in [1..n -> S] /\ IsInjective(g)
    BY <1>4, Fun_BijectionProperties DEF Injection, Bijection
  <1> DEFINE f == SetToSeq(S)
  <1>6. f \in [1..n -> S] /\ IsInjective(f)
    BY <1>5 DEF SetToSeq
  <1> HIDE DEF f
  <1>7. f \in Injection(1..n, S)
    BY <1>6 DEF Injection
  <1>8. IsFiniteSet(1..n) /\ Cardinality(1..n) = n
    BY <1>3, FS_Interval
  <1>9. f \in Surjection(1..n, S)
    <2>1. Cardinality(1..n) = Cardinality(S) <=> f \in Surjection(1..n, S)
      BY <1>2, <1>7, FS_Injection
    <2> QED
      BY <1>8, <2>1
  <1>10. \A r \in S : \E i \in 1..n : f[i] = r
    BY <1>9 DEF Surjection
  <1>11. \A i, j \in 1..n : f[i] = f[j] => i = j
    BY <1>6 DEF IsInjective
  <1> QED
    BY <1>2, <1>3, <1>6, <1>10, <1>11 DEF f

PermissionTypes == {"PermissionPending", "PermissionResolved"}

\* An event of a channel is one of the two sorts.
LEMMA EventSorts ==
    /\ \A s \in State : StateUpdate(s) \in Event /\ StateUpdate(s).type = "StateUpdate"
                        /\ StateUpdate(s).state = s
    /\ \A t \in PermissionTypes, r \in Requests :
          /\ PermissionEvent(t, r) \in Event
          /\ PermissionEvent(t, r).type = t /\ PermissionEvent(t, r).request = r
    /\ \A e \in Event : \/ e.type = "StateUpdate" /\ e.state \in State /\ e = StateUpdate(e.state)
                        \/ e.type \in PermissionTypes /\ e.request \in Requests
                           /\ e = PermissionEvent(e.type, e.request)
  BY DEF Event, StateUpdate, PermissionEvent, PermissionTypes

\* One event for each of the requests.
LEMMA EventsForRequests ==
    ASSUME NEW t \in PermissionTypes, NEW S \in SUBSET Requests
    PROVE  /\ EventsFor(t, S) \in Seq(Event) /\ Len(EventsFor(t, S)) = Cardinality(S)
           /\ Cardinality(S) \in Nat /\ Cardinality(S) <= Cardinality(Requests)
           /\ Cardinality(Requests) \in Nat
           /\ \A i \in 1..Cardinality(S) : /\ EventsFor(t, S)[i].request \in S
                                           /\ EventsFor(t, S)[i] = PermissionEvent(t, EventsFor(t, S)[i].request)
           /\ \A i, j \in 1..Cardinality(S) : EventsFor(t, S)[i].request = EventsFor(t, S)[j].request => i = j
           /\ \A r \in S : \E i \in 1..Cardinality(S) : EventsFor(t, S)[i] = PermissionEvent(t, r)
  <1> DEFINE n == Cardinality(S)
             f == SetToSeq(S)
             ev == [i \in 1..n |-> PermissionEvent(t, f[i])]
  <1>1. /\ n \in Nat /\ n <= Cardinality(Requests) /\ Cardinality(Requests) \in Nat
        /\ f \in [1..n -> S]
        /\ \A i, j \in 1..n : f[i] = f[j] => i = j
        /\ \A r \in S : \E i \in 1..n : f[i] = r
    BY OrderOfRequests
  <1> HIDE DEF n, f
  <1>2. EventsFor(t, S) = ev
    BY <1>1 DEF EventsFor, f
  <1>3. \A i \in 1..n : ev[i] = PermissionEvent(t, f[i]) /\ ev[i].request = f[i] /\ f[i] \in S /\ ev[i] \in Event
    BY <1>1, EventSorts
  <1>4. ev \in Seq(Event) /\ Len(ev) = n
    BY <1>1, <1>3
  <1> QED
    BY <1>1, <1>2, <1>3, <1>4 DEF n

\* A subscriber that is still one after a broadcast was sent all its events.
LEMMA BroadcastReaches ==
    ASSUME TypeOK, NEW events \in Seq(Event), Broadcast(events)
    PROVE  /\ queue' \in [Conns -> Seq(Event)] /\ \A d \in Conns : Len(queue'[d]) <= QueueCap
           /\ subscribers' \in SUBSET Conns /\ subscribers' \subseteq subscribers
           /\ \A d \in Conns : d \notin subscribers \/ Closed(d) => queue'[d] = queue[d]
           /\ \A d \in subscribers' : ~Closed(d) /\ queue'[d] = queue[d] \o events
  <1> DEFINE cut(d) == IF Len(events) < Room(d) THEN Len(events) ELSE Room(d)
  <1>1. /\ queue \in [Conns -> Seq(Event)] /\ subscribers \in SUBSET Conns /\ QueueCap \in Nat
        /\ \A d \in Conns : Len(queue[d]) <= QueueCap
    BY DashboardTypes DEF TypeOK
  <1>2. /\ queue' = [d \in Conns |-> IF d \notin subscribers \/ Closed(d) THEN queue[d]
                                     ELSE queue[d] \o SubSeq(events, 1, cut(d))]
        /\ subscribers' = {d \in subscribers : ~Closed(d) /\ Len(events) <= Room(d)}
    BY DEF Broadcast
  <1>3. ASSUME NEW d \in Conns
        PROVE  /\ Room(d) \in Nat /\ cut(d) \in 0..Len(events) /\ cut(d) <= Room(d)
               /\ Len(queue[d]) + Room(d) = QueueCap
    BY <1>1, LenProperties DEF Room
  <1>4. ASSUME NEW d \in Conns
        PROVE  /\ SubSeq(events, 1, cut(d)) \in Seq(Event)
               /\ Len(SubSeq(events, 1, cut(d))) = cut(d)
               /\ cut(d) = Len(events) => SubSeq(events, 1, cut(d)) = events
    BY <1>3, SubSeqProperties
  <1>5. ASSUME NEW d \in Conns
        PROVE  queue'[d] \in Seq(Event) /\ Len(queue'[d]) <= QueueCap
    <2>1. CASE d \notin subscribers \/ Closed(d)
      BY <1>1, <1>2, <2>1
    <2>2. CASE d \in subscribers /\ ~Closed(d)
      <3>1. queue'[d] = queue[d] \o SubSeq(events, 1, cut(d))
        BY <1>2, <2>2
      <3> QED
        BY <1>1, <1>3, <1>4, <3>1, ConcatProperties
    <2> QED
      BY <2>1, <2>2
  <1>6. ASSUME NEW d \in subscribers' PROVE ~Closed(d) /\ queue'[d] = queue[d] \o events
    <2>1. d \in subscribers /\ d \in Conns /\ ~Closed(d) /\ Len(events) <= Room(d)
      BY <1>1, <1>2
    <2>2. cut(d) = Len(events)
      BY <1>3, <2>1, LenProperties
    <2> HIDE DEF cut
    <2> QED
      BY <1>2, <1>4, <2>1, <2>2
  <1>7. queue' \in [Conns -> Seq(Event)]
    BY <1>2, <1>5
  <1>8. \A d \in Conns : d \notin subscribers \/ Closed(d) => queue'[d] = queue[d]
    BY <1>2
  <1> QED
    BY <1>1, <1>2, <1>5, <1>6, <1>7, <1>8

\* The same of a handler that changes the state: its last event is the update.
LEMMA NewStateReaches ==
    ASSUME TypeOK, NEW s \in State, NEW events \in Seq(Event), NewState(s, events)
    PROVE  /\ state' = s /\ state' \in State
           /\ queue' \in [Conns -> Seq(Event)] /\ \A d \in Conns : Len(queue'[d]) <= QueueCap
           /\ subscribers' \in SUBSET Conns /\ subscribers' \subseteq subscribers
           /\ \A d \in subscribers' : ~Closed(d) /\ queue'[d] = queue[d] \o Append(events, StateUpdate(s))
  <1>1. Append(events, StateUpdate(s)) \in Seq(Event)
    BY EventSorts, AppendProperties
  <1> QED
    BY <1>1, BroadcastReaches DEF NewState

------------------------------------------------------------------------------
(* Types                                                                   *)

View == [kind : Kinds, task : {"new", "subscribed", "ended"}, state : State,
         permissions : SUBSET Requests, crowded : BOOLEAN,
         stale : SUBSET Requests, untold : SUBSET Requests]

\* What an event changes of what a dashboard shows.
LEMMA AfterAnEvent ==
    ASSUME NEW view \in View, NEW e \in Event
    PROVE  /\ After(view, e) \in View
           /\ After(view, e).kind = view.kind /\ After(view, e).task = view.task
           /\ After(view, e).stale = view.stale /\ After(view, e).untold = view.untold
           /\ After(view, e).state = IF e.type = "StateUpdate" THEN e.state ELSE view.state
           /\ e.type = "StateUpdate" => After(view, e).permissions = view.permissions
           /\ e.type = "PermissionResolved" => After(view, e).permissions = view.permissions \ {e.request}
           /\ e.type = "PermissionPending" =>
                 /\ After(view, e).permissions =
                       {e.request} \cup IF view.kind = "page" THEN {} ELSE view.permissions
                 /\ After(view, e).crowded <=>
                       view.crowded \/ (view.kind = "page" /\ view.permissions \ {e.request} # {})
           /\ e.type # "PermissionPending" => After(view, e).crowded = view.crowded
  <1>1. \/ e.type = "StateUpdate" /\ e.state \in State
        \/ e.type \in PermissionTypes /\ e.request \in Requests
    BY EventSorts
  <1>2. CASE e.type = "StateUpdate" /\ e.state \in State
    <2>1. After(view, e) = [view EXCEPT !.state = e.state]
      BY <1>2 DEF After
    <2> QED
      BY <1>2, <2>1 DEF View
  <1>3. CASE e.type = "PermissionResolved" /\ e.request \in Requests
    <2>1. After(view, e) = [view EXCEPT !.permissions = @ \ {e.request}]
      BY <1>3 DEF After
    <2> QED
      BY <1>3, <2>1 DEF View
  <1>4. CASE e.type = "PermissionPending" /\ e.request \in Requests
    <2>1. After(view, e) = [view EXCEPT
             !.permissions = {e.request} \cup IF view.kind = "page" THEN {} ELSE @,
             !.crowded = @ \/ (view.kind = "page" /\ view.permissions \ {e.request} # {})]
      BY <1>4 DEF After
    <2> DEFINE P == {e.request} \cup IF view.kind = "page" THEN {} ELSE view.permissions
               C == view.crowded \/ (view.kind = "page" /\ view.permissions \ {e.request} # {})
    <2>2. After(view, e) = [view EXCEPT !.permissions = P, !.crowded = C]
      BY <2>1
    <2>3. P \in SUBSET Requests /\ C \in BOOLEAN
      BY <1>4 DEF View
    <2> HIDE DEF P, C
    <2>4. /\ After(view, e) \in View /\ After(view, e).permissions = P /\ After(view, e).crowded = C
          /\ After(view, e).kind = view.kind /\ After(view, e).task = view.task
          /\ After(view, e).stale = view.stale /\ After(view, e).untold = view.untold
          /\ After(view, e).state = view.state
      BY <2>2, <2>3 DEF View
    <2> QED
      BY <1>4, <2>4 DEF P, C
  <1> QED
    BY <1>1, <1>2, <1>3, <1>4 DEF PermissionTypes

\* A bounded step is counted, and within its bound.
LEMMA UsesType ==
    ASSUME TypeOK, NEW kind \in DOMAIN Bounds, Uses(kind)
    PROVE  used' \in [DOMAIN Bounds -> Nat] /\ \A b \in DOMAIN Bounds : used'[b] <= Bounds[b]
  <1>1. used \in [DOMAIN Bounds -> Nat] /\ \A b \in DOMAIN Bounds : used[b] <= Bounds[b]
    BY DEF TypeOK
  <1>2. \A b \in DOMAIN Bounds : Bounds[b] \in Nat
    BY DashboardTypes DEF Bounds
  <1>3. used[kind] < Bounds[kind] /\ used' = [used EXCEPT ![kind] = @ + 1]
    BY DEF Uses
  <1> HIDE DEF Uses
  <1>4. used' \in [DOMAIN Bounds -> Nat]
    BY <1>1, <1>3
  <1>5. ASSUME NEW b \in DOMAIN Bounds PROVE used'[b] <= Bounds[b]
    BY <1>1, <1>2, <1>3
  <1> QED
    BY <1>4, <1>5

LEMMA BoundKinds == "outputs" \in DOMAIN Bounds /\ "hooks" \in DOMAIN Bounds /\ "stops" \in DOMAIN Bounds
  BY DEF Bounds

\* The states the handlers make of a state are such.
LEMMA StateChanges ==
    ASSUME NEW st \in State
    PROVE  /\ \A b \in BOOLEAN : [st EXCEPT !.needs_input = b] \in State
           /\ [st EXCEPT !.session = TRUE] \in State
           /\ \A s \in Shown : [st EXCEPT !.suggestion = s] \in State
           /\ NoState \in State
  BY DEF State, NoState, Shown

LEMMA InitType == Init => TypeOK
  <1> SUFFICES ASSUME Init PROVE TypeOK
    OBVIOUS
  <1>1. NoState \in State /\ None \in Shown
    BY DEF State, NoState, Shown
  <1>2. /\ screen_rx \in Seq(Shown) /\ Len(screen_rx) <= ScreenCap
        /\ screen_sender \in [conn : Connection, last : Shown] /\ listener \in Connection
    BY <1>1, DashboardTypes DEF Init, Connection
  <1>3. queue \in [Conns -> Seq(Event)] /\ \A d \in Conns : Len(queue[d]) <= QueueCap
    BY DashboardTypes DEF Init
  <1>4. dash \in [Conns -> View]
    <2>1. PICK kind \in [Conns -> Kinds] :
            dash = [d \in Conns |-> [kind |-> kind[d], task |-> "new", state |-> NoState,
                                     permissions |-> {}, crowded |-> FALSE, stale |-> {},
                                     untold |-> {}]]
      BY DEF Init
    <2> QED
      BY <1>1, <2>1 DEF View
  <1>5. used \in [DOMAIN Bounds -> Nat] /\ \A b \in DOMAIN Bounds : used[b] <= Bounds[b]
    BY DashboardTypes DEF Init, Bounds
  <1> QED
    BY <1>1, <1>2, <1>3, <1>4, <1>5 DEF Init, TypeOK, View

\* A new subscriber is told of these requests.
Subscribed(d, told) ==
    /\ Cardinality(told) < QueueCap
    /\ queue' = [queue EXCEPT ![d] = <<StateUpdate(state)>> \o EventsFor("PermissionPending", told)]
    /\ dash' = [dash EXCEPT ![d] = [@ EXCEPT !.task = "subscribed", !.crowded = FALSE,
                                            !.stale = dash[d].permissions \ pending,
                                            !.untold = pending \ told]]

LEMMA SubscriptionSends ==
    ASSUME TypeOK, NEW d \in Conns, HandleSubscribe(d)
    PROVE  /\ \E told \in SUBSET pending : Subscribed(d, told)
           /\ UNCHANGED <<state, pending, vanished>> /\ subscribers' = subscribers \cup {d}
           /\ \A c \in Conns \ {d} : queue'[c] = queue[c] /\ dash'[c] = dash[c]
  <1>1. PICK told \in SUBSET pending :
          /\ Cardinality(told) < QueueCap
          /\ queue' = [queue EXCEPT ![d] = <<StateUpdate(state)>> \o EventsFor("PermissionPending", told)]
          /\ dash' = [dash EXCEPT ![d].task = "subscribed", ![d].crowded = FALSE,
                                  ![d].stale = dash[d].permissions \ pending, ![d].untold = pending \ told]
    BY DEF HandleSubscribe
  <1>2. dash \in [Conns -> View] /\ DOMAIN queue = Conns
    BY DEF TypeOK, View
  <1>3. dash' = [dash EXCEPT ![d] = [@ EXCEPT !.task = "subscribed", !.crowded = FALSE,
                                            !.stale = dash[d].permissions \ pending,
                                            !.untold = pending \ told]]
    BY <1>1, <1>2 DEF View
  <1>4. \A c \in Conns \ {d} : queue'[c] = queue[c] /\ dash'[c] = dash[c]
    BY <1>1, <1>2, <1>3
  <1> QED
    BY <1>1, <1>3, <1>4 DEF HandleSubscribe, Subscribed, history

LEMMA HandlersType ==
    ASSUME TypeOK
    PROVE  /\ HandleHookEvent => TypeOK'
           /\ HandleRegisterWrapper => TypeOK'
           /\ HandleUnregisterWrapper => TypeOK'
           /\ \A r \in Requests : HandlePermissionRequest(r) \/ HandlePermissionResponse(r) => TypeOK'
           /\ \A d \in Conns : HandleSubscribe(d) => TypeOK'
  <1>1. state \in State /\ pending \in SUBSET Requests
    BY DEF TypeOK
  <1>2. <<>> \in Seq(Event)
    OBVIOUS
  <1>3. ASSUME HandleHookEvent PROVE TypeOK'
    <2>1. EventsFor("PermissionResolved", pending) \in Seq(Event)
      BY <1>1, EventsForRequests DEF PermissionTypes
    <2>2. [state EXCEPT !.needs_input = FALSE] \in State
      BY <1>1, StateChanges
    <2>3. NewState([state EXCEPT !.needs_input = FALSE], EventsFor("PermissionResolved", pending))
      BY <1>3 DEF HandleHookEvent
    <2>4. /\ state' \in State /\ subscribers' \in SUBSET Conns
          /\ queue' \in [Conns -> Seq(Event)] /\ \A d \in Conns : Len(queue'[d]) <= QueueCap
      BY <2>1, <2>2, <2>3, NewStateReaches
    <2>5. used' \in [DOMAIN Bounds -> Nat] /\ \A b \in DOMAIN Bounds : used'[b] <= Bounds[b]
      BY <1>3, BoundKinds, UsesType DEF HandleHookEvent
    <2> QED
      BY <1>3, <2>4, <2>5 DEF HandleHookEvent, TypeOK, wrapper
  <1>4. ASSUME HandleRegisterWrapper PROVE TypeOK'
    <2>1. [state EXCEPT !.session = TRUE] \in State
      BY <1>1, StateChanges
    <2>2. NewState([state EXCEPT !.session = TRUE], <<>>)
      BY <1>4 DEF HandleRegisterWrapper
    <2>3. /\ state' \in State /\ subscribers' \in SUBSET Conns
          /\ queue' \in [Conns -> Seq(Event)] /\ \A d \in Conns : Len(queue'[d]) <= QueueCap
      BY <1>2, <2>1, <2>2, NewStateReaches
    <2> QED
      BY <1>4, <2>3 DEF HandleRegisterWrapper, TypeOK, Connection, history
  <1>5. ASSUME HandleUnregisterWrapper PROVE TypeOK'
    <2>1. /\ state' \in State /\ subscribers' \in SUBSET Conns
          /\ queue' \in [Conns -> Seq(Event)] /\ \A d \in Conns : Len(queue'[d]) <= QueueCap
      <3>1. CASE up
        <4>1. NewState(NoState, <<>>)
          BY <1>5, <3>1 DEF HandleUnregisterWrapper
        <4> QED
          BY <1>1, <1>2, <4>1, NewStateReaches, StateChanges
      <3>2. CASE ~up
        BY <1>5, <3>2 DEF HandleUnregisterWrapper, TypeOK
      <3> QED
        BY <3>1, <3>2
    <2>2. vanished' \in SUBSET Requests
      BY <1>5 DEF HandleUnregisterWrapper, TypeOK
    <2> QED
      BY <1>5, <2>1, <2>2 DEF HandleUnregisterWrapper, TypeOK
  <1>6. ASSUME NEW r \in Requests, HandlePermissionRequest(r) PROVE TypeOK'
    <2>1. [state EXCEPT !.needs_input = TRUE] \in State
      BY <1>1, StateChanges
    <2>2. <<PermissionEvent("PermissionPending", r)>> \in Seq(Event)
      BY EventSorts DEF PermissionTypes
    <2>3. NewState([state EXCEPT !.needs_input = TRUE], <<PermissionEvent("PermissionPending", r)>>)
      BY <1>6 DEF HandlePermissionRequest
    <2>4. /\ state' \in State /\ subscribers' \in SUBSET Conns
          /\ queue' \in [Conns -> Seq(Event)] /\ \A d \in Conns : Len(queue'[d]) <= QueueCap
      BY <2>1, <2>2, <2>3, NewStateReaches
    <2> QED
      BY <1>6, <2>4 DEF HandlePermissionRequest, TypeOK, wrapper
  <1>7. ASSUME NEW r \in Requests, HandlePermissionResponse(r) PROVE TypeOK'
    <2>1. [state EXCEPT !.needs_input = pending \ {r} # {}] \in State
      BY <1>1, StateChanges
    <2>2. <<PermissionEvent("PermissionResolved", r)>> \in Seq(Event)
      BY EventSorts DEF PermissionTypes
    <2>3. NewState([state EXCEPT !.needs_input = pending \ {r} # {}], <<PermissionEvent("PermissionResolved", r)>>)
      BY <1>7 DEF HandlePermissionResponse
    <2>4. /\ state' \in State /\ subscribers' \in SUBSET Conns
          /\ queue' \in [Conns -> Seq(Event)] /\ \A d \in Conns : Len(queue'[d]) <= QueueCap
      BY <2>1, <2>2, <2>3, NewStateReaches
    <2> QED
      BY <1>7, <2>4 DEF HandlePermissionResponse, TypeOK, wrapper, history
  <1>8. ASSUME NEW d \in Conns, HandleSubscribe(d) PROVE TypeOK'
    <2>0. PICK told \in SUBSET pending : Subscribed(d, told)
      BY <1>8, SubscriptionSends
    <2> DEFINE ev == EventsFor("PermissionPending", told)
    <2>1. ev \in Seq(Event) /\ Len(ev) = Cardinality(told) /\ Cardinality(told) \in Nat
      BY <1>1, EventsForRequests DEF PermissionTypes
    <2>2. <<StateUpdate(state)>> \in Seq(Event) /\ Len(<<StateUpdate(state)>>) = 1
      BY <1>1, EventSorts
    <2>3. queue' = [queue EXCEPT ![d] = <<StateUpdate(state)>> \o ev] /\ Cardinality(told) < QueueCap
      BY <2>0 DEF Subscribed
    <2> HIDE DEF ev
    <2>4. <<StateUpdate(state)>> \o ev \in Seq(Event)
          /\ Len(<<StateUpdate(state)>> \o ev) <= QueueCap
      BY <2>1, <2>2, <2>3, ConcatProperties, DashboardTypes
    <2>5. queue' \in [Conns -> Seq(Event)] /\ \A c \in Conns : Len(queue'[c]) <= QueueCap
      BY <2>3, <2>4 DEF TypeOK
    <2>6. dash' \in [Conns -> View]
      <3>1. dash \in [Conns -> View] /\ \A c \in Conns : dash[c].permissions \in SUBSET Requests
        BY DEF TypeOK, View
      <3>2. \A c \in Conns \ {d} : dash'[c] = dash[c]
        BY <1>8, SubscriptionSends
      <3>3. DOMAIN dash' = Conns /\ dash' = [c \in DOMAIN dash' |-> dash'[c]]
        BY <2>0, <3>1 DEF Subscribed
      <3>4. dash'[d] \in View
        BY <1>1, <2>0, <3>1 DEF Subscribed, View
      <3> QED
        BY <3>1, <3>2, <3>3, <3>4
    <2>7. subscribers' \in SUBSET Conns
      <3>1. subscribers' = subscribers \cup {d}
        BY <1>8, SubscriptionSends
      <3> QED
        BY <3>1 DEF TypeOK
    <2>8. UNCHANGED <<running, screen, last_update, screen_rx, screen_sender, listener>>
      BY <1>8 DEF HandleSubscribe, wrapper
    <2>9. UNCHANGED <<up, state, pending, unread, asked, vanished, overlooked, used>>
      BY <1>8 DEF HandleSubscribe, history
    <2> QED
      BY <2>5, <2>6, <2>7, <2>8, <2>9 DEF TypeOK, View
  <1> QED
    BY <1>3, <1>4, <1>5, <1>6, <1>7, <1>8

LEMMA DaemonAndWrapperType ==
    ASSUME TypeOK
    PROVE  /\ DaemonStops => TypeOK'
           /\ DaemonStarts => TypeOK'
           /\ \A s \in Shown, due \in BOOLEAN : ReadPty(s, due) => TypeOK'
           /\ ScreenConnects => TypeOK'
           /\ ScreenSends => TypeOK'
  <1>1. ASSUME DaemonStops PROVE TypeOK'
    <2>1. used' \in [DOMAIN Bounds -> Nat] /\ \A b \in DOMAIN Bounds : used'[b] <= Bounds[b]
      BY <1>1, BoundKinds, UsesType DEF DaemonStops
    <2>2. /\ screen_sender' = [screen_sender EXCEPT !.conn = IF @ = "connected" THEN "closed" ELSE @]
          /\ listener' = IF listener = "connected" THEN "closed" ELSE listener
      BY <1>1 DEF DaemonStops
    <2>3. screen_sender' \in [conn : Connection, last : Shown] /\ listener' \in Connection
      BY <2>2 DEF TypeOK, Connection
    <2>4. queue' \in [Conns -> Seq(Event)] /\ \A d \in Conns : Len(queue'[d]) <= QueueCap
      BY <1>1, DashboardTypes DEF DaemonStops
    <2>5. dash' \in [Conns -> View]
      <3> DEFINE task(d) == IF dash[d].task = "subscribed" THEN "ended" ELSE dash[d].task
      <3>1. dash \in [Conns -> View]
        BY DEF TypeOK, View
      <3>2. dash' = [d \in Conns |-> [dash[d] EXCEPT !.task = task(d)]]
        BY <1>1 DEF DaemonStops
      <3>3. \A d \in Conns : task(d) \in {"new", "subscribed", "ended"}
        BY <3>1 DEF View
      <3> HIDE DEF task
      <3> QED
        BY <3>1, <3>2, <3>3 DEF View
    <2>6. state' \in State /\ pending' \in SUBSET Requests /\ subscribers' \in SUBSET Conns /\ up' \in BOOLEAN
          /\ vanished' \in SUBSET Requests
      BY <1>1, StateChanges DEF DaemonStops, TypeOK
    <2>7. UNCHANGED <<running, screen, last_update, screen_rx, unread, asked, overlooked>>
      BY <1>1 DEF DaemonStops
    <2> QED
      BY <2>1, <2>3, <2>4, <2>5, <2>6, <2>7 DEF TypeOK, View
  <1>2. ASSUME DaemonStarts PROVE TypeOK'
    BY <1>2 DEF DaemonStarts, TypeOK, wrapper, dashboards, history
  <1>3. ASSUME NEW s \in Shown, NEW due \in BOOLEAN, ReadPty(s, due) PROVE TypeOK'
    <2>1. used' \in [DOMAIN Bounds -> Nat] /\ \A b \in DOMAIN Bounds : used'[b] <= Bounds[b]
      BY <1>3, BoundKinds, UsesType DEF ReadPty
    <2>2. screen_rx \in Seq(Shown) /\ Len(screen_rx) <= ScreenCap /\ ScreenCap \in Nat
      BY DashboardTypes DEF TypeOK
    <2>3. Append(screen_rx, s) \in Seq(Shown) /\ Len(Append(screen_rx, s)) = Len(screen_rx) + 1
      BY <2>2, AppendProperties
    <2>4. \/ screen_rx' = screen_rx
          \/ screen_rx' = Append(screen_rx, s) /\ Len(screen_rx) < ScreenCap
      BY <1>3 DEF ReadPty
    <2>5. screen_rx' \in Seq(Shown) /\ Len(screen_rx') <= ScreenCap
      BY <2>2, <2>3, <2>4
    <2>6. overlooked' \in SUBSET {"full", "unknown"}
      BY <1>3 DEF ReadPty, Overlooks, TypeOK
    <2>7. screen' = s /\ last_update' \in {s, last_update}
      BY <1>3 DEF ReadPty
    <2>8. UNCHANGED <<running, screen_sender, listener, daemon, dashboards, asked, vanished>>
      BY <1>3 DEF ReadPty
    <2> QED
      BY <2>1, <2>5, <2>6, <2>7, <2>8 DEF TypeOK, daemon, dashboards
  <1>4. ASSUME ScreenConnects PROVE TypeOK'
    BY <1>4 DEF ScreenConnects, TypeOK, Connection, daemon, dashboards, history
  <1>5. ASSUME ScreenSends PROVE TypeOK'
    <2> DEFINE s == Head(screen_rx)
    <2>1. screen_rx \in Seq(Shown) /\ screen_rx # <<>> /\ Len(screen_rx) <= ScreenCap /\ ScreenCap \in Nat
      BY <1>5, DashboardTypes DEF TypeOK, ScreenSends
    <2>2. s \in Shown /\ Tail(screen_rx) \in Seq(Shown) /\ Len(Tail(screen_rx)) <= ScreenCap
      BY <2>1, HeadTailProperties
    <2>3. screen_sender' \in [conn : Connection, last : Shown]
      BY <1>5, <2>2 DEF ScreenSends, TypeOK, Connection
    <2>4. /\ state' \in State /\ subscribers' \in SUBSET Conns
          /\ queue' \in [Conns -> Seq(Event)] /\ \A d \in Conns : Len(queue'[d]) <= QueueCap
          /\ overlooked' \in SUBSET {"full", "unknown"}
      <3>1. CASE NewState([state EXCEPT !.suggestion = s], <<>>) /\ HandleUpdateSuggestion(s)
        <4>1. [state EXCEPT !.suggestion = s] \in State
          BY <2>2, StateChanges DEF TypeOK
        <4>2. overlooked' \in SUBSET {"full", "unknown"}
          BY <3>1 DEF HandleUpdateSuggestion, Overlooks, TypeOK
        <4>3. <<>> \in Seq(Event)
          OBVIOUS
        <4> QED
          BY <3>1, <4>1, <4>2, <4>3, NewStateReaches
      <3>2. CASE UNCHANGED <<state, queue, subscribers>> /\ HandleUpdateSuggestion(s)
        BY <3>2 DEF HandleUpdateSuggestion, Overlooks, TypeOK
      <3>3. CASE UNCHANGED <<state, queue, subscribers, overlooked>>
        BY <3>3 DEF TypeOK
      <3>4. HandleUpdateSuggestion(s) \/ UNCHANGED <<state, queue, subscribers, overlooked>>
        BY <1>5 DEF ScreenSends
      <3> QED
        BY <3>1, <3>2, <3>3, <3>4 DEF HandleUpdateSuggestion
    <2> QED
      BY <1>5, <2>2, <2>3, <2>4 DEF ScreenSends, TypeOK
  <1> QED
    BY <1>1, <1>2, <1>3, <1>4, <1>5

Reconnects(d) == ClientReconnects(d) \/ PageReconnects(d)

LEMMA DashboardType ==
    ASSUME TypeOK, NEW d \in Conns
    PROVE  /\ DashboardShows(d) => TypeOK'
           /\ StreamEnds(d) \/ DashboardLeaves(d) \/ Reconnects(d) => TypeOK'
           /\ \A r \in Requests : PhoneAnswers(d, r) => TypeOK'
  <1>1. ASSUME DashboardShows(d) PROVE TypeOK'
    <2>1. queue[d] \in Seq(Event) /\ queue[d] # <<>> /\ Len(queue[d]) <= QueueCap /\ QueueCap \in Nat
      BY <1>1, DashboardTypes DEF TypeOK, DashboardShows
    <2>2. Head(queue[d]) \in Event /\ Tail(queue[d]) \in Seq(Event) /\ Len(Tail(queue[d])) <= QueueCap
      BY <2>1, HeadTailProperties
    <2>3. dash[d] \in View
      BY DEF TypeOK, View
    <2>4. After(dash[d], Head(queue[d])) \in View
      BY <2>2, <2>3, AfterAnEvent
    <2>5. /\ queue' = [queue EXCEPT ![d] = Tail(queue[d])]
          /\ dash' = [dash EXCEPT ![d] = After(dash[d], Head(queue[d]))]
      BY <1>1 DEF DashboardShows
    <2>6. dash' \in [Conns -> View]
      BY <2>4, <2>5 DEF TypeOK, View
    <2>7. queue' \in [Conns -> Seq(Event)] /\ \A c \in Conns : Len(queue'[c]) <= QueueCap
      BY <2>2, <2>5 DEF TypeOK
    <2> QED
      BY <1>1, <2>6, <2>7 DEF DashboardShows, TypeOK, View, wrapper, daemon, history
  <1>2. ASSUME StreamEnds(d) \/ DashboardLeaves(d) \/ Reconnects(d) PROVE TypeOK'
    <2>0. dash \in [Conns -> View] /\ <<>> \in Seq(Event) /\ Len(<<>>) = 0
      BY DEF TypeOK, View
    <2>1. dash' \in [Conns -> View]
      <3>1. CASE StreamEnds(d) \/ DashboardLeaves(d)
        <4>1. dash' = [dash EXCEPT ![d].task = "ended"]
          BY <3>1 DEF StreamEnds, DashboardLeaves
        <4> QED
          BY <2>0, <4>1 DEF View
      <3>2. CASE Reconnects(d)
        <4>1. \/ dash' = [dash EXCEPT ![d].task = "new", ![d].permissions = {}]
              \/ dash' = [dash EXCEPT ![d].task = "new"]
          BY <3>2 DEF Reconnects, ClientReconnects, PageReconnects
        <4> QED
          BY <2>0, <4>1 DEF View
      <3> QED
        BY <1>2, <3>1, <3>2
    <2>2. queue' = queue \/ queue' = [queue EXCEPT ![d] = <<>>]
      BY <1>2 DEF StreamEnds, DashboardLeaves, Reconnects, ClientReconnects, PageReconnects
    <2>3. queue' \in [Conns -> Seq(Event)] /\ \A c \in Conns : Len(queue'[c]) <= QueueCap
      <3>1. queue \in [Conns -> Seq(Event)] /\ QueueCap \in Nat /\ \A c \in Conns : Len(queue[c]) <= QueueCap
        BY DashboardTypes DEF TypeOK
      <3>2. ASSUME queue' = [queue EXCEPT ![d] = <<>>]
            PROVE  queue' \in [Conns -> Seq(Event)] /\ \A c \in Conns : Len(queue'[c]) <= QueueCap
        <4>1. queue' \in [Conns -> Seq(Event)]
          BY <2>0, <3>1, <3>2
        <4>2. \A c \in Conns : queue'[c] = IF c = d THEN <<>> ELSE queue[c]
          BY <3>1, <3>2
        <4> QED
          BY <2>0, <3>1, <4>1, <4>2
      <3> QED
        BY <2>2, <3>1, <3>2
    <2>4. UNCHANGED <<wrapper, daemon, unread, history>>
      BY <1>2 DEF StreamEnds, DashboardLeaves, Reconnects, ClientReconnects, PageReconnects
    <2> QED
      BY <2>1, <2>3, <2>4 DEF TypeOK, View, wrapper, daemon, history
  <1>3. ASSUME NEW r \in Requests, PhoneAnswers(d, r) PROVE TypeOK'
    BY <1>3 DEF PhoneAnswers, TypeOK, wrapper, daemon, history
  <1> QED
    BY <1>1, <1>2, <1>3

LEMMA TypeStep == TypeOK /\ [Next]_vars => TypeOK'
  <1> SUFFICES ASSUME TypeOK, [Next]_vars PROVE TypeOK'
    OBVIOUS
  <1>1. CASE UNCHANGED vars
    BY <1>1 DEF vars, TypeOK
  <1>2. CASE Next
    BY <1>2, HandlersType, DaemonAndWrapperType, DashboardType DEF Next, Reconnects
  <1> QED
    BY <1>1, <1>2

\* The variables keep their types; in particular no channel holds more than
\* its capacity, whatever is broadcast to it (try_send in daemon.rs and
\* wrapper.rs).
THEOREM DashboardsTypeCorrect == Spec => []TypeOK
  <1> QED
    BY InitType, TypeStep, PTL DEF Spec

------------------------------------------------------------------------------
(* The suggestion on the screen                                            *)

\* The last suggestion the sender has sent or will send.
Latest == IF screen_rx = <<>> THEN screen_sender.last ELSE screen_rx[Len(screen_rx)]

\* Unless the last suggestion found the channel full, the sender will come to it.
DetectedIsLatest == "full" \notin overlooked => Latest = last_update

\* What the sender sent last is what the daemon has, unless the session was
\* unknown; a session that is not known has had no suggestion.
SentIsKnown ==
    /\ screen_sender.conn = "connected" /\ "unknown" \notin overlooked =>
          /\ state.session => state.suggestion = screen_sender.last
          /\ ~state.session /\ running => screen_sender.last = None
    /\ screen_sender.conn = "connecting" => screen_sender.last = None /\ state.suggestion = None
    /\ ~state.session => state.suggestion = None

SuggestionInv == TypeOK /\ DetectedIsLatest /\ SentIsKnown

LEMMA SuggestionInit == Init => SuggestionInv
  <1> SUFFICES ASSUME Init PROVE SuggestionInv
    OBVIOUS
  <1>1. TypeOK
    BY InitType
  <1>2. DetectedIsLatest
    BY DEF Init, DetectedIsLatest, Latest
  <1>3. SentIsKnown
    BY DEF Init, SentIsKnown, NoState
  <1> QED
    BY <1>1, <1>2, <1>3 DEF SuggestionInv

\* Channel and sender: a suggestion moves from one to the other.
LEMMA LatestMoves ==
    ASSUME TypeOK
    PROVE  /\ \A s \in Shown : screen_rx' = Append(screen_rx, s) => Latest' = s
           /\ (/\ screen_rx # <<>> /\ screen_rx' = Tail(screen_rx)
               /\ screen_sender'.last = Head(screen_rx)) => Latest' = Latest
  <1>1. screen_rx \in Seq(Shown)
    BY DEF TypeOK
  <1>2. ASSUME NEW s \in Shown, screen_rx' = Append(screen_rx, s) PROVE Latest' = s
    <2>1. /\ Append(screen_rx, s) # <<>> /\ Len(Append(screen_rx, s)) = Len(screen_rx) + 1
          /\ Append(screen_rx, s)[Len(screen_rx) + 1] = s
      BY <1>1, AppendProperties
    <2> QED
      BY <1>2, <2>1 DEF Latest
  <1>3. ASSUME screen_rx # <<>>, screen_rx' = Tail(screen_rx), screen_sender'.last = Head(screen_rx)
        PROVE  Latest' = Latest
    <2>1. /\ Tail(screen_rx) \in Seq(Shown) /\ Len(Tail(screen_rx)) = Len(screen_rx) - 1
          /\ \A i \in 1..Len(Tail(screen_rx)) : Tail(screen_rx)[i] = screen_rx[i + 1]
          /\ Len(screen_rx) \in Nat /\ Len(screen_rx) > 0 /\ Head(screen_rx) = screen_rx[1]
      BY <1>1, <1>3, HeadTailProperties, EmptySeq, LenProperties
    <2> DEFINE tail == Tail(screen_rx)
    <2>2. CASE Len(screen_rx) = 1
      <3>1. tail \in Seq(Shown) /\ Len(tail) = 0
        BY <2>1, <2>2
      <3>2. tail = <<>>
        BY <3>1, EmptySeq
      <3> QED
        BY <1>3, <2>1, <2>2, <3>2 DEF Latest
    <2>3. CASE Len(screen_rx) > 1
      <3>1. Tail(screen_rx) # <<>>
        <4>1. tail \in Seq(Shown) /\ Len(tail) > 0
          BY <2>1, <2>3
        <4>2. Len(<<>>) = 0
          OBVIOUS
        <4> HIDE DEF tail
        <4>3. tail # <<>>
          BY <4>1, <4>2
        <4> QED
          BY <4>3 DEF tail
      <3>2. Tail(screen_rx)[Len(screen_rx) - 1] = screen_rx[Len(screen_rx)]
        BY <2>1, <2>3
      <3> QED
        BY <1>3, <2>1, <3>1, <3>2 DEF Latest
    <2> QED
      BY <2>1, <2>2, <2>3
  <1> QED
    BY <1>2, <1>3

LEMMA SuggestionStep == SuggestionInv /\ [Next]_vars => SuggestionInv'
  <1> SUFFICES ASSUME SuggestionInv, [Next]_vars PROVE DetectedIsLatest' /\ SentIsKnown'
    BY TypeStep DEF SuggestionInv
  <1>0. TypeOK /\ DetectedIsLatest /\ SentIsKnown /\ state \in State
    BY DEF SuggestionInv, TypeOK
  <1> DEFINE sender == <<last_update, screen_rx, screen_sender, overlooked>>
  <1>1. ASSUME UNCHANGED <<sender, running>>, state'.session = state.session,
               state'.suggestion = state.suggestion
        PROVE  DetectedIsLatest' /\ SentIsKnown'
    BY <1>0, <1>1 DEF DetectedIsLatest, SentIsKnown, Latest
  <1>2. CASE UNCHANGED vars
    BY <1>1, <1>2 DEF vars
  <1>3. CASE HandleHookEvent
    BY <1>0, <1>1, <1>3 DEF HandleHookEvent, wrapper, NewState, State
  <1>4. CASE HandleRegisterWrapper
    <2>1. /\ UNCHANGED <<sender, running>> /\ running
          /\ state' = [state EXCEPT !.session = TRUE]
      BY <1>4 DEF HandleRegisterWrapper, NewState, history
    <2>2. state'.session = TRUE /\ state'.suggestion = state.suggestion
      BY <1>0, <2>1 DEF State
    <2> QED
      BY <1>0, <2>1, <2>2 DEF DetectedIsLatest, SentIsKnown, Latest, State
  <1>5. CASE HandleUnregisterWrapper
    <2>1. UNCHANGED sender /\ running' = FALSE /\ (state' = NoState \/ state' = state)
      BY <1>5 DEF HandleUnregisterWrapper, NewState
    <2> QED
      BY <1>0, <2>1 DEF DetectedIsLatest, SentIsKnown, Latest, NoState
  <1>6. CASE DaemonStops
    <2>1. /\ UNCHANGED <<last_update, screen_rx, overlooked, running>> /\ state' = NoState
          /\ screen_sender' = [screen_sender EXCEPT !.conn = IF @ = "connected" THEN "closed" ELSE @]
      BY <1>6 DEF DaemonStops
    <2>2. screen_sender'.last = screen_sender.last /\ screen_sender'.conn # "connected"
          /\ (screen_sender'.conn = "connecting" => screen_sender.conn = "connecting")
      BY <1>0, <2>1 DEF TypeOK
    <2> QED
      BY <1>0, <2>1, <2>2 DEF DetectedIsLatest, SentIsKnown, Latest, NoState
  <1>7. CASE DaemonStarts
    BY <1>0, <1>1, <1>7 DEF DaemonStarts, wrapper, history
  <1>8. ASSUME NEW s \in Shown, NEW due \in BOOLEAN, ReadPty(s, due)
        PROVE  DetectedIsLatest' /\ SentIsKnown'
    <2>1. UNCHANGED <<screen_sender, state, running>>
      BY <1>8 DEF ReadPty, daemon
    <2>2. \/ screen_rx' = screen_rx /\ last_update' = last_update /\ overlooked' = overlooked
          \/ screen_rx' = Append(screen_rx, s) /\ last_update' = s /\ overlooked' = overlooked \ {"full"}
          \/ screen_rx' = screen_rx /\ last_update' = s /\ overlooked' = overlooked \cup {"full"}
      <3> DEFINE room == Len(screen_rx) < ScreenCap
      <3>1. CASE ~(due /\ s # last_update)
        <4>1. last_update' = last_update /\ UNCHANGED overlooked
          BY <1>8, <3>1 DEF ReadPty
        <4>2. screen_rx' = screen_rx
          BY <1>8, <3>1 DEF ReadPty
        <4> QED
          BY <4>1, <4>2
      <3>2. CASE due /\ s # last_update
        <4>1. /\ last_update' = s
              /\ screen_rx' = IF room THEN Append(screen_rx, s) ELSE screen_rx
              /\ Overlooks("full", ~room)
          BY <1>8, <3>2 DEF ReadPty
        <4>2. CASE room
          <5>1. screen_rx' = Append(screen_rx, s)
            BY <4>1, <4>2
          <5>2. overlooked' = overlooked \ {"full"}
            BY <4>1, <4>2 DEF Overlooks
          <5> QED
            BY <4>1, <5>1, <5>2
        <4>3. CASE ~room
          <5>1. screen_rx' = screen_rx
            BY <4>1, <4>3
          <5>2. overlooked' = overlooked \cup {"full"}
            BY <4>1, <4>3 DEF Overlooks
          <5> QED
            BY <4>1, <5>1, <5>2
        <4> QED
          BY <4>2, <4>3
      <3> QED
        BY <3>1, <3>2
    <2>3. "unknown" \in overlooked' <=> "unknown" \in overlooked
      BY <2>2
    <2>4. SentIsKnown'
      BY <1>0, <2>1, <2>3 DEF SentIsKnown
    <2>5. DetectedIsLatest'
      BY <1>0, <2>1, <2>2, LatestMoves DEF DetectedIsLatest, Latest
    <2> QED
      BY <2>4, <2>5
  <1>9. CASE ScreenConnects
    <2>1. /\ screen_sender.conn = "connecting" /\ UNCHANGED <<last_update, screen_rx, overlooked, running, state>>
          /\ screen_sender' = [screen_sender EXCEPT !.conn = IF up THEN "connected" ELSE "ended"]
      BY <1>9 DEF ScreenConnects, daemon, history
    <2>2. screen_sender'.last = screen_sender.last /\ screen_sender'.conn # "connecting"
      BY <1>0, <2>1 DEF TypeOK
    <2> QED
      BY <1>0, <2>1, <2>2 DEF DetectedIsLatest, SentIsKnown, Latest
  <1>10. CASE ScreenSends
    <2> DEFINE s == Head(screen_rx)
    <2>1. /\ screen_rx # <<>> /\ screen_rx' = Tail(screen_rx) /\ UNCHANGED <<running, last_update>>
          /\ screen_sender.conn \in {"connected", "closed"}
          /\ screen_sender' = IF s = screen_sender.last \/ screen_sender.conn = "connected"
                              THEN [screen_sender EXCEPT !.last = s]
                              ELSE [conn |-> "ended", last |-> s]
      BY <1>10 DEF ScreenSends
    <2>2. /\ screen_sender'.last = s
          /\ screen_sender'.conn = "connected" => screen_sender.conn = "connected"
          /\ screen_sender'.conn # "connecting"
      BY <1>0, <2>1 DEF TypeOK
    <2>3. Latest' = Latest
      BY <1>0, <2>1, <2>2, LatestMoves
    <2>4. CASE s # screen_sender.last /\ screen_sender.conn = "connected"
      <3>1. HandleUpdateSuggestion(s)
        BY <1>10, <2>4 DEF ScreenSends
      <3>2. CASE state.session
        <4>1. state'.session /\ state'.suggestion = s
          BY <1>0, <3>1, <3>2 DEF HandleUpdateSuggestion, NewState, State
        <4>2. overlooked' = overlooked \ {"unknown"}
          BY <3>1, <3>2 DEF HandleUpdateSuggestion, Overlooks
        <4> QED
          BY <1>0, <2>1, <2>2, <2>3, <4>1, <4>2 DEF DetectedIsLatest, SentIsKnown
      <3>3. CASE ~state.session
        <4>1. state' = state /\ overlooked' = overlooked \cup {"unknown"}
          BY <3>1, <3>3 DEF HandleUpdateSuggestion, Overlooks
        <4> QED
          BY <1>0, <2>1, <2>2, <2>3, <4>1 DEF DetectedIsLatest, SentIsKnown
      <3> QED
        BY <3>2, <3>3
    <2>5. CASE ~(s # screen_sender.last /\ screen_sender.conn = "connected")
      <3>1. UNCHANGED <<state, overlooked>>
        BY <1>10, <2>5 DEF ScreenSends
      <3> QED
        BY <1>0, <2>1, <2>2, <2>3, <2>5, <3>1 DEF DetectedIsLatest, SentIsKnown
    <2> QED
      BY <2>4, <2>5
  <1>11. ASSUME NEW r \in Requests, HandlePermissionRequest(r) \/ HandlePermissionResponse(r)
         PROVE  DetectedIsLatest' /\ SentIsKnown'
    BY <1>0, <1>1, <1>11 DEF HandlePermissionRequest, HandlePermissionResponse, wrapper, history,
                             NewState, State
  <1>12. ASSUME NEW d \in Conns, NEW r \in Requests, PhoneAnswers(d, r)
         PROVE  DetectedIsLatest' /\ SentIsKnown'
    BY <1>1, <1>12 DEF PhoneAnswers, wrapper, daemon, history
  <1>13. ASSUME NEW d \in Conns,
                \/ DashboardShows(d) \/ StreamEnds(d) \/ DashboardLeaves(d)
                \/ ClientReconnects(d) \/ PageReconnects(d) \/ HandleSubscribe(d)
         PROVE  DetectedIsLatest' /\ SentIsKnown'
    BY <1>1, <1>13 DEF DashboardShows, StreamEnds, DashboardLeaves, ClientReconnects, PageReconnects, HandleSubscribe,
                       wrapper, daemon, history
  <1> QED
    BY <1>2, <1>3, <1>4, <1>5, <1>6, <1>7, <1>8, <1>9, <1>10, <1>11, <1>12, <1>13 DEF Next

\* The daemon has the suggestion that is on the agent's screen, through every
\* interleaving of the reader thread, the screen update sender, registrations
\* and restarts, but for the cases the property names: what the two threads
\* leave out as already sent (wrapper.rs) the daemon already has.
THEOREM SuggestionCurrentHolds == Spec => []SuggestionCurrent
  <1>1. SuggestionInv => SuggestionCurrent
    BY DEF SuggestionInv, DetectedIsLatest, SentIsKnown, SuggestionCurrent, Latest
  <1> QED
    BY <1>1, SuggestionInit, SuggestionStep, PTL DEF Spec

------------------------------------------------------------------------------
(* The state that is shown                                                 *)

\* A place in a channel that was extended is one of the old or of the new events.
LEMMA Places ==
    ASSUME NEW q \in Seq(Event), NEW evs \in Seq(Event)
    PROVE  /\ Len(q \o evs) = Len(q) + Len(evs) /\ Len(q) \in Nat /\ Len(evs) \in Nat
           /\ q \o evs \in Seq(Event)
           /\ DOMAIN q = 1..Len(q) /\ DOMAIN evs = 1..Len(evs) /\ DOMAIN (q \o evs) = 1..(Len(q) + Len(evs))
           /\ \A i \in 1..Len(q) : (q \o evs)[i] = q[i]
           /\ \A i \in 1..Len(evs) : (q \o evs)[Len(q) + i] = evs[i]
           /\ \A i \in 1..(Len(q) + Len(evs)) : i > Len(q) => i - Len(q) \in 1..Len(evs)
                                                               /\ (q \o evs)[i] = evs[i - Len(q)]
  <1>1. /\ Len(q \o evs) = Len(q) + Len(evs) /\ Len(q) \in Nat /\ Len(evs) \in Nat
        /\ q \o evs \in Seq(Event)
        /\ DOMAIN q = 1..Len(q) /\ DOMAIN evs = 1..Len(evs)
        /\ \A i \in 1..(Len(q) + Len(evs)) :
              (q \o evs)[i] = IF i <= Len(q) THEN q[i] ELSE evs[i - Len(q)]
    BY ConcatProperties, LenProperties
  <1>2. DOMAIN (q \o evs) = 1..(Len(q) + Len(evs))
    BY <1>1, LenProperties
  <1>3. ASSUME NEW i \in 1..Len(q) PROVE (q \o evs)[i] = q[i]
    BY <1>1
  <1>4. ASSUME NEW i \in 1..Len(evs) PROVE (q \o evs)[Len(q) + i] = evs[i]
    <2>1. Len(q) + i \in 1..(Len(q) + Len(evs)) /\ ~(Len(q) + i <= Len(q)) /\ (Len(q) + i) - Len(q) = i
      BY <1>1
    <2> QED
      BY <1>1, <2>1
  <1>5. ASSUME NEW i \in 1..(Len(q) + Len(evs)), i > Len(q)
        PROVE  i - Len(q) \in 1..Len(evs) /\ (q \o evs)[i] = evs[i - Len(q)]
    BY <1>1, <1>5
  <1> QED
    BY <1>1, <1>2, <1>3, <1>4, <1>5

\* An event appended is the last one.
LEMMA AppendedEvent ==
    ASSUME NEW evs \in Seq(Event), NEW e \in Event
    PROVE  Append(evs, e) \in Seq(Event) /\ Len(Append(evs, e)) = Len(evs) + 1 /\ Len(evs) \in Nat
           /\ Append(evs, e)[Len(evs) + 1] = e /\ \A i \in 1..Len(evs) : Append(evs, e)[i] = evs[i]
  BY AppendProperties, LenProperties

\* Whoever is still subscribed after a change of the state is told of it last.
LEMMA ToldOfState ==
    ASSUME TypeOK, NEW s \in State, NEW events \in Seq(Event), NewState(s, events)
    PROVE  \A d \in subscribers' : WillShowState(d, state)'
  <1> SUFFICES ASSUME NEW d \in subscribers' PROVE WillShowState(d, state)'
    OBVIOUS
  <1> DEFINE evs == Append(events, StateUpdate(s))
             q == queue[d]
             n == Len(q) + Len(evs)
  <1>1. state' = s /\ queue'[d] = q \o evs /\ d \in Conns
    BY NewStateReaches DEF TypeOK
  <1>2. q \in Seq(Event)
    BY <1>1 DEF TypeOK
  <1>3. evs \in Seq(Event) /\ Len(evs) \in Nat /\ Len(evs) > 0 /\ evs[Len(evs)] = StateUpdate(s)
    BY AppendedEvent, EventSorts
  <1> HIDE DEF evs, q
  <1>4. DOMAIN (q \o evs) = 1..n /\ n \in 1..n /\ (q \o evs)[n] = StateUpdate(s)
    BY <1>2, <1>3, Places
  <1> HIDE DEF n
  <1>5. \A j \in DOMAIN (q \o evs) : ~(j > n)
    BY <1>4
  <1> QED
    BY <1>1, <1>4, <1>5 DEF WillShowState

\* What a dashboard will show does not change by its showing the next event.
LEMMA ShowingKeepsState ==
    ASSUME TypeOK, NEW d \in Conns, DashboardShows(d), NEW s \in State, WillShowState(d, s)
    PROVE  WillShowState(d, s)'
  <1> DEFINE q == queue[d]
             t == Tail(q)
             n == Len(q)
  <1>1. /\ q \in Seq(Event) /\ q # <<>> /\ queue'[d] = t /\ dash'[d] = After(dash[d], Head(q))
        /\ dash[d] \in View
    BY DEF TypeOK, View, DashboardShows
  <1>2. /\ t \in Seq(Event) /\ Len(t) = n - 1 /\ n \in Nat /\ n >= 1 /\ Head(q) = q[1] /\ q[1] \in Event
        /\ DOMAIN q = 1..n /\ DOMAIN t = 1..(n - 1)
        /\ \A i \in 1..(n - 1) : t[i] = q[i + 1]
    BY <1>1, HeadTailProperties, EmptySeq, LenProperties
  <1> HIDE DEF q, t, n
  <1>3. dash'[d].state = IF q[1].type = "StateUpdate" THEN q[1].state ELSE dash[d].state
    BY <1>1, <1>2, AfterAnEvent
  <1>4. CASE dash[d].state = s /\ \A i \in 1..n : q[i].type # "StateUpdate"
    <2>1. dash'[d].state = s
      BY <1>2, <1>3, <1>4
    <2>2. ASSUME NEW i \in 1..(n - 1) PROVE t[i].type # "StateUpdate"
      BY <1>2, <1>4
    <2> QED
      BY <1>1, <1>2, <2>1, <2>2 DEF WillShowState
  <1>5. CASE \E i \in 1..n : q[i] = StateUpdate(s) /\ \A j \in 1..n : j > i => q[j].type # "StateUpdate"
    <2>1. PICK i \in 1..n : q[i] = StateUpdate(s) /\ \A j \in 1..n : j > i => q[j].type # "StateUpdate"
      BY <1>5
    <2>2. CASE i = 1
      <3>1. dash'[d].state = s
        BY <1>3, <2>1, <2>2, EventSorts
      <3>2. ASSUME NEW j \in 1..(n - 1) PROVE t[j].type # "StateUpdate"
        BY <1>2, <2>1, <2>2
      <3> QED
        BY <1>1, <1>2, <3>1, <3>2 DEF WillShowState
    <2>3. CASE i > 1
      <3>1. i - 1 \in 1..(n - 1) /\ t[i - 1] = StateUpdate(s)
        BY <1>2, <2>1, <2>3
      <3>2. ASSUME NEW j \in 1..(n - 1), j > i - 1 PROVE t[j].type # "StateUpdate"
        BY <1>2, <2>1, <3>2
      <3> QED
        BY <1>1, <1>2, <3>1, <3>2 DEF WillShowState
    <2> QED
      BY <1>2, <2>2, <2>3
  <1> QED
    BY <1>2, <1>4, <1>5 DEF WillShowState, q

\* The handlers that change the state tell the subscribers; the other steps
\* leave it, or concern one dashboard, or stop the daemon.
LEMMA StateSteps ==
    ASSUME TypeOK, [Next]_vars
    PROVE  \/ UNCHANGED dash /\ \E s \in State, events \in Seq(Event) : NewState(s, events)
           \/ UNCHANGED <<state, queue, subscribers, dash>>
           \/ DaemonStops
           \/ \E d \in Conns : \/ DashboardShows(d) \/ StreamEnds(d) \/ DashboardLeaves(d)
                               \/ Reconnects(d) \/ HandleSubscribe(d)
  <1>1. state \in State /\ pending \in SUBSET Requests /\ <<>> \in Seq(Event) /\ screen_rx \in Seq(Shown)
    BY DEF TypeOK
  <1>2. CASE UNCHANGED vars
    BY <1>2 DEF vars
  <1>3. CASE HandleHookEvent
    <2>1. EventsFor("PermissionResolved", pending) \in Seq(Event)
      BY <1>1, EventsForRequests DEF PermissionTypes
    <2>2. [state EXCEPT !.needs_input = FALSE] \in State
      BY <1>1, StateChanges
    <2> QED
      BY <1>3, <2>1, <2>2 DEF HandleHookEvent
  <1>4. CASE HandleRegisterWrapper
    <2>1. [state EXCEPT !.session = TRUE] \in State
      BY <1>1, StateChanges
    <2> QED
      BY <1>1, <1>4, <2>1 DEF HandleRegisterWrapper
  <1>5. CASE HandleUnregisterWrapper
    BY <1>1, <1>5, StateChanges DEF HandleUnregisterWrapper
  <1>6. CASE DaemonStarts
    BY <1>6 DEF DaemonStarts, dashboards
  <1>7. ASSUME NEW s \in Shown, NEW due \in BOOLEAN, ReadPty(s, due)
        PROVE  UNCHANGED <<state, queue, subscribers, dash>>
    BY <1>7 DEF ReadPty, daemon, dashboards
  <1>8. CASE ScreenConnects
    BY <1>8 DEF ScreenConnects, daemon, dashboards
  <1>9. CASE ScreenSends
    <2> DEFINE s == Head(screen_rx)
    <2>1. s \in Shown
      BY <1>1, <1>9, HeadTailProperties DEF ScreenSends
    <2>2. [state EXCEPT !.suggestion = s] \in State
      BY <1>1, <2>1, StateChanges
    <2>3. UNCHANGED dash /\ (HandleUpdateSuggestion(s) \/ UNCHANGED <<state, queue, subscribers>>)
      BY <1>9 DEF ScreenSends
    <2>4. NewState([state EXCEPT !.suggestion = s], <<>>) \/ UNCHANGED <<state, queue, subscribers>>
      BY <2>3 DEF HandleUpdateSuggestion
    <2> QED
      BY <1>1, <2>2, <2>3, <2>4
  <1>10. ASSUME NEW r \in Requests, HandlePermissionRequest(r)
         PROVE  UNCHANGED dash /\ \E s \in State, events \in Seq(Event) : NewState(s, events)
    <2>1. [state EXCEPT !.needs_input = TRUE] \in State
      BY <1>1, StateChanges
    <2>2. <<PermissionEvent("PermissionPending", r)>> \in Seq(Event)
      BY EventSorts DEF PermissionTypes
    <2> QED
      BY <1>10, <2>1, <2>2 DEF HandlePermissionRequest
  <1>11. ASSUME NEW r \in Requests, HandlePermissionResponse(r)
         PROVE  UNCHANGED dash /\ \E s \in State, events \in Seq(Event) : NewState(s, events)
    <2>1. [state EXCEPT !.needs_input = pending \ {r} # {}] \in State
      BY <1>1, StateChanges
    <2>2. <<PermissionEvent("PermissionResolved", r)>> \in Seq(Event)
      BY EventSorts DEF PermissionTypes
    <2> QED
      BY <1>11, <2>1, <2>2 DEF HandlePermissionResponse
  <1>12. ASSUME NEW d \in Conns, NEW r \in Requests, PhoneAnswers(d, r)
         PROVE  UNCHANGED <<state, queue, subscribers, dash>>
    BY <1>12 DEF PhoneAnswers, daemon
  <1> QED
    BY <1>2, <1>3, <1>4, <1>5, <1>6, <1>7, <1>8, <1>9, <1>10, <1>11, <1>12 DEF Next, Reconnects

\* A new subscriber's channel begins with the state; no other event follows
\* that would say another.
LEMMA SubscribedToState ==
    ASSUME TypeOK, NEW d \in Conns, HandleSubscribe(d)
    PROVE  WillShowState(d, state)'
  <1>0. PICK told \in SUBSET pending : Subscribed(d, told)
    BY SubscriptionSends
  <1> DEFINE evs == EventsFor("PermissionPending", told)
             n == Len(evs)
             u == <<StateUpdate(state)>>
             q == u \o evs
  <1>1. /\ evs \in Seq(Event) /\ n \in Nat
        /\ \A i \in 1..n : evs[i] = PermissionEvent("PermissionPending", evs[i].request) /\ evs[i].request \in Requests
    BY EventsForRequests DEF TypeOK, PermissionTypes
  <1>2. \A i \in 1..n : evs[i].type # "StateUpdate"
    BY <1>1, EventSorts DEF PermissionTypes
  <1>3. u \in Seq(Event) /\ Len(u) = 1 /\ u[1] = StateUpdate(state)
    BY EventSorts DEF TypeOK
  <1>4. queue'[d] = q /\ state' = state
    BY <1>0, SubscriptionSends DEF Subscribed, TypeOK
  <1> HIDE DEF evs, u
  <1>5. DOMAIN q = 1..(1 + n) /\ q[1] = StateUpdate(state)
        /\ \A i \in 1..(1 + n) : i > 1 => q[i].type # "StateUpdate"
    <2>1. /\ DOMAIN q = 1..(1 + n) /\ q[1] = u[1]
          /\ \A i \in 1..(1 + n) : i > 1 => i - 1 \in 1..n /\ q[i] = evs[i - 1]
      BY <1>1, <1>3, Places
    <2> QED
      BY <1>2, <1>3, <2>1
  <1> HIDE DEF q
  <1>6. 1 \in DOMAIN q
    BY <1>1, <1>5
  <1> QED
    BY <1>4, <1>5, <1>6 DEF WillShowState

LEMMA SubscriberStep == TypeOK /\ SubscriberCurrent /\ [Next]_vars => SubscriberCurrent'
  <1> SUFFICES ASSUME TypeOK, SubscriberCurrent, [Next]_vars,
                      NEW d \in subscribers', ~Closed(d)'
               PROVE  WillShowState(d, state)'
    BY DEF SubscriberCurrent
  <1>1. subscribers \in SUBSET Conns /\ state \in State
    BY DEF TypeOK
  <1>2. ASSUME NEW s \in State, NEW events \in Seq(Event), NewState(s, events)
        PROVE  WillShowState(d, state)'
    BY <1>2, ToldOfState
  <1>3. ASSUME UNCHANGED state, d \in subscribers, d \in Conns, queue'[d] = queue[d], dash'[d] = dash[d]
        PROVE  WillShowState(d, state)'
    <2>1. WillShowState(d, state)
      BY <1>3 DEF SubscriberCurrent, Closed
    <2> QED
      BY <1>3, <2>1 DEF WillShowState
  <1>4. CASE UNCHANGED <<state, queue, subscribers, dash>>
    BY <1>1, <1>3, <1>4
  <1>5. CASE DaemonStops
    BY <1>5 DEF DaemonStops
  <1>6. ASSUME NEW c \in Conns, DashboardShows(c) PROVE WillShowState(d, state)'
    <2>1. UNCHANGED <<state, subscribers>> /\ d \in Conns
      BY <1>1, <1>6 DEF DashboardShows, daemon
    <2>2. CASE c = d
      <3>1. ~Closed(d)
        BY <1>6, <2>2 DEF DashboardShows, Closed
      <3>2. WillShowState(d, state)
        BY <2>1, <3>1 DEF SubscriberCurrent
      <3>3. WillShowState(d, state) => \A s \in State : s = state => WillShowState(d, s)'
        BY <1>6, <2>1, <2>2, ShowingKeepsState
      <3> QED
        BY <1>1, <2>1, <3>2, <3>3 DEF WillShowState
    <2>3. CASE c # d
      <3>1. queue'[d] = queue[d] /\ dash'[d] = dash[d]
        BY <1>6, <2>1, <2>3 DEF DashboardShows, TypeOK
      <3> QED
        BY <1>3, <2>1, <3>1
    <2> QED
      BY <2>2, <2>3
  <1>7. ASSUME NEW c \in Conns, StreamEnds(c) \/ DashboardLeaves(c) \/ Reconnects(c)
        PROVE  WillShowState(d, state)'
    <2>1. UNCHANGED <<state, subscribers>> /\ d \in Conns
      BY <1>1, <1>7 DEF StreamEnds, DashboardLeaves, Reconnects, ClientReconnects, PageReconnects, daemon
    <2>2. c # d
      <3>1. CASE StreamEnds(c)
        BY <2>1, <3>1 DEF StreamEnds, SenderDropped
      <3>2. CASE DashboardLeaves(c) \/ Reconnects(c)
        <4>1. dash'[c].task # "subscribed"
          BY <3>2 DEF DashboardLeaves, Reconnects, ClientReconnects, PageReconnects, TypeOK
        <4> QED
          BY <4>1 DEF Closed
      <3> QED
        BY <1>7, <3>1, <3>2
    <2>3. queue'[d] = queue[d] /\ dash'[d] = dash[d]
      BY <1>7, <2>1, <2>2 DEF StreamEnds, DashboardLeaves, Reconnects, ClientReconnects, PageReconnects, TypeOK
    <2> QED
      BY <1>3, <2>1, <2>3
  <1>8. ASSUME NEW c \in Conns, HandleSubscribe(c) PROVE WillShowState(d, state)'
    <2>1. CASE c = d
      BY <1>8, <2>1, SubscribedToState
    <2>2. CASE c # d
      <3>1. d \in subscribers /\ d \in Conns /\ UNCHANGED state
        BY <1>1, <1>8, <2>2, SubscriptionSends
      <3>2. queue'[d] = queue[d] /\ dash'[d] = dash[d]
        BY <1>8, <2>2, <3>1, SubscriptionSends
      <3> QED
        BY <1>3, <3>1, <3>2
    <2> QED
      BY <2>1, <2>2
  <1> QED
    BY <1>2, <1>4, <1>5, <1>6, <1>7, <1>8, StateSteps

\* A subscriber that has read its channel shows the daemon's state: every
\* handler that changes it ends with broadcast_state, and whoever had no room
\* for an event is a subscriber no longer (broadcast_to_subscribers).
THEOREM SubscriberCurrentHolds == Spec => []SubscriberCurrent
  <1>1. Init => SubscriberCurrent
    BY DEF Init, SubscriberCurrent
  <1> QED
    BY <1>1, InitType, TypeStep, SubscriberStep, PTL DEF Spec

------------------------------------------------------------------------------
(* The requests that are shown                                             *)

\* WillShow and WillCrowd of any channel, and of a view of what is shown.
Keeps(k, q, m, n, r) == \A j \in DOMAIN q : m < j /\ j <= n => ~Hides(k, q[j], r)

Showing(k, shown, q, n, r) ==
    \/ r \in shown /\ Keeps(k, q, 0, n, r)
    \/ \E i \in DOMAIN q : i <= n /\ q[i] = PermissionEvent("PermissionPending", r) /\ Keeps(k, q, i, n, r)

Crowding(k, shown, q) ==
    \E i \in DOMAIN q, r \in Requests :
       /\ k = "page" /\ q[i].type = "PermissionPending"
       /\ q[i].request # r /\ Showing(k, shown, q, i - 1, r)

LEMMA WillShowIsShowing ==
    \A d \in Conns :
       /\ \A n, r : WillShow(d, n, r) <=> Showing(dash[d].kind, dash[d].permissions, queue[d], n, r)
       /\ WillCrowd(d) <=> dash[d].crowded \/ Crowding(dash[d].kind, dash[d].permissions, queue[d])
  BY Zenon DEF WillShow, WillCrowd, Showing, Crowding, Keeps

LEMMA WillShowIsShowingNext ==
    \A d \in Conns :
       /\ \A n, r : WillShow(d, n, r)' <=> Showing(dash'[d].kind, dash'[d].permissions, queue'[d], n, r)
       /\ WillCrowd(d)' <=> dash'[d].crowded \/ Crowding(dash'[d].kind, dash'[d].permissions, queue'[d])
  BY Zenon DEF WillShow, WillCrowd, Showing, Crowding, Keeps

\* What an event takes off or puts on a display.
LEMMA HidesWhat ==
    /\ \A k, s, r : ~Hides(k, StateUpdate(s), r)
    /\ \A k, r1, r2 : Hides(k, PermissionEvent("PermissionResolved", r1), r2) <=> r1 = r2
    /\ \A k, r1, r2 : Hides(k, PermissionEvent("PermissionPending", r1), r2) <=> r1 # r2 /\ k = "page"
    /\ \A s, r : StateUpdate(s) # PermissionEvent("PermissionPending", r)
    /\ \A r1, r2 : PermissionEvent("PermissionResolved", r1) # PermissionEvent("PermissionPending", r2)
    /\ \A r1, r2 : PermissionEvent("PermissionPending", r1) = PermissionEvent("PermissionPending", r2) <=> r1 = r2
  BY DEF Hides, StateUpdate, PermissionEvent

LEMMA KeepsExtended ==
    ASSUME NEW q \in Seq(Event), NEW evs \in Seq(Event), NEW k, NEW r
    PROVE  /\ \A m \in Nat, n \in 0..Len(q) : Keeps(k, q \o evs, m, n, r) <=> Keeps(k, q, m, n, r)
           /\ \A m \in 0..Len(q) : Keeps(k, q \o evs, m, Len(q) + Len(evs), r)
                 <=> Keeps(k, q, m, Len(q), r) /\ \A j \in 1..Len(evs) : ~Hides(k, evs[j], r)
           /\ \A i \in 1..Len(evs) : Keeps(k, q \o evs, Len(q) + i, Len(q) + Len(evs), r)
                 <=> \A j \in 1..Len(evs) : i < j => ~Hides(k, evs[j], r)
  <1> DEFINE p == q \o evs
             n == Len(q)
             l == Len(evs)
  <1>1. /\ n \in Nat /\ l \in Nat
        /\ DOMAIN q = 1..n /\ DOMAIN evs = 1..l /\ DOMAIN p = 1..(n + l)
        /\ \A i \in 1..n : p[i] = q[i]
        /\ \A i \in 1..l : p[n + i] = evs[i]
        /\ \A i \in 1..(n + l) : i > n => i - n \in 1..l /\ p[i] = evs[i - n]
    BY Places
  <1> HIDE DEF p, n, l
  <1>2. ASSUME NEW m \in Nat, NEW x \in 0..n PROVE Keeps(k, p, m, x, r) <=> Keeps(k, q, m, x, r)
    <2>1. ASSUME Keeps(k, p, m, x, r), NEW j \in 1..n, m < j, j <= x PROVE ~Hides(k, q[j], r)
      <3>1. j \in 1..(n + l) /\ p[j] = q[j]
        BY <1>1
      <3> QED
        BY <1>1, <2>1, <3>1 DEF Keeps
    <2>2. ASSUME Keeps(k, q, m, x, r), NEW j \in 1..(n + l), m < j, j <= x PROVE ~Hides(k, p[j], r)
      <3>1. j \in 1..n /\ p[j] = q[j]
        BY <1>1, <2>2
      <3> QED
        BY <1>1, <2>2, <3>1 DEF Keeps
    <2> QED
      BY <1>1, <2>1, <2>2 DEF Keeps
  <1>3. ASSUME NEW m \in 0..n
        PROVE  Keeps(k, p, m, n + l, r) <=> Keeps(k, q, m, n, r) /\ \A j \in 1..l : ~Hides(k, evs[j], r)
    <2>1. ASSUME Keeps(k, p, m, n + l, r), NEW j \in 1..n, m < j PROVE ~Hides(k, q[j], r)
      <3>1. j \in 1..(n + l) /\ p[j] = q[j] /\ j <= n + l
        BY <1>1
      <3> QED
        BY <1>1, <2>1, <3>1 DEF Keeps
    <2>2. ASSUME Keeps(k, p, m, n + l, r), NEW j \in 1..l PROVE ~Hides(k, evs[j], r)
      <3>1. n + j \in 1..(n + l) /\ p[n + j] = evs[j] /\ m < n + j /\ n + j <= n + l
        BY <1>1
      <3> QED
        BY <1>1, <2>2, <3>1 DEF Keeps
    <2>3. ASSUME Keeps(k, q, m, n, r), \A j \in 1..l : ~Hides(k, evs[j], r), NEW j \in 1..(n + l), m < j
          PROVE  ~Hides(k, p[j], r)
      <3>1. CASE j <= n
        <4>1. j \in 1..n /\ p[j] = q[j]
          BY <1>1, <3>1
        <4> QED
          BY <1>1, <2>3, <3>1, <4>1 DEF Keeps
      <3>2. CASE j > n
        BY <1>1, <2>3, <3>2
      <3> QED
        BY <1>1, <3>1, <3>2
    <2> QED
      BY <1>1, <2>1, <2>2, <2>3 DEF Keeps
  <1>4. ASSUME NEW i \in 1..l
        PROVE  Keeps(k, p, n + i, n + l, r) <=> \A j \in 1..l : i < j => ~Hides(k, evs[j], r)
    <2>1. ASSUME Keeps(k, p, n + i, n + l, r), NEW j \in 1..l, i < j PROVE ~Hides(k, evs[j], r)
      <3>1. n + j \in 1..(n + l) /\ p[n + j] = evs[j] /\ n + i < n + j /\ n + j <= n + l
        BY <1>1, <2>1
      <3> QED
        BY <1>1, <2>1, <3>1 DEF Keeps
    <2>2. ASSUME \A j \in 1..l : i < j => ~Hides(k, evs[j], r), NEW j \in 1..(n + l), n + i < j
          PROVE  ~Hides(k, p[j], r)
      <3>1. j - n \in 1..l /\ p[j] = evs[j - n] /\ i < j - n
        BY <1>1, <2>2
      <3> QED
        BY <2>2, <3>1
    <2> QED
      BY <1>1, <2>1, <2>2 DEF Keeps
  <1> QED
    BY <1>2, <1>3, <1>4 DEF p, n, l

LEMMA ShowingExtended ==
    ASSUME NEW q \in Seq(Event), NEW evs \in Seq(Event), NEW k, NEW shown, NEW r
    PROVE  /\ \A n \in 0..Len(q) : Showing(k, shown, q \o evs, n, r) <=> Showing(k, shown, q, n, r)
           /\ Showing(k, shown, q \o evs, Len(q \o evs), r)
                <=> \/ Showing(k, shown, q, Len(q), r) /\ \A j \in 1..Len(evs) : ~Hides(k, evs[j], r)
                    \/ \E i \in 1..Len(evs) :
                         /\ evs[i] = PermissionEvent("PermissionPending", r)
                         /\ \A j \in 1..Len(evs) : i < j => ~Hides(k, evs[j], r)
  <1> DEFINE p == q \o evs
             n == Len(q)
             l == Len(evs)
             e == PermissionEvent("PermissionPending", r)
             Told(i) == evs[i] = e /\ \A j \in 1..l : i < j => ~Hides(k, evs[j], r)
             Quiet == \A j \in 1..l : ~Hides(k, evs[j], r)
  <1>1. /\ n \in Nat /\ l \in Nat /\ Len(p) = n + l
        /\ DOMAIN q = 1..n /\ DOMAIN evs = 1..l /\ DOMAIN p = 1..(n + l)
        /\ \A i \in 1..n : p[i] = q[i]
        /\ \A i \in 1..l : p[n + i] = evs[i]
        /\ \A i \in 1..(n + l) : i > n => i - n \in 1..l /\ p[i] = evs[i - n]
    BY Places
  <1>2. /\ \A m \in Nat, x \in 0..n : Keeps(k, p, m, x, r) <=> Keeps(k, q, m, x, r)
        /\ \A m \in 0..n : Keeps(k, p, m, n + l, r) <=> Keeps(k, q, m, n, r) /\ Quiet
        /\ \A i \in 1..l : Keeps(k, p, n + i, n + l, r) <=> \A j \in 1..l : i < j => ~Hides(k, evs[j], r)
    BY KeepsExtended
  <1> HIDE DEF p, n, l, e, Quiet
  <1>3. ASSUME NEW x \in 0..n PROVE Showing(k, shown, p, x, r) <=> Showing(k, shown, q, x, r)
    <2>1. ASSUME NEW i \in 1..(n + l), i <= x, p[i] = e, Keeps(k, p, i, x, r)
          PROVE  Showing(k, shown, q, x, r)
      <3>1. i \in 1..n /\ p[i] = q[i] /\ Keeps(k, q, i, x, r)
        BY <1>1, <1>2, <2>1
      <3> QED
        BY <1>1, <2>1, <3>1 DEF Showing, e
    <2>2. ASSUME NEW i \in 1..n, i <= x, q[i] = e, Keeps(k, q, i, x, r)
          PROVE  Showing(k, shown, p, x, r)
      <3>1. i \in 1..(n + l) /\ p[i] = q[i] /\ Keeps(k, p, i, x, r)
        BY <1>1, <1>2, <2>2
      <3> QED
        BY <1>1, <2>2, <3>1 DEF Showing, e
    <2>3. Keeps(k, p, 0, x, r) <=> Keeps(k, q, 0, x, r)
      BY <1>2
    <2> QED
      BY <1>1, <2>1, <2>2, <2>3 DEF Showing, e
  <1>4. Showing(k, shown, p, n + l, r) => (Showing(k, shown, q, n, r) /\ Quiet) \/ \E i \in 1..l : Told(i)
    <2>1. ASSUME NEW i \in 1..(n + l), p[i] = e, Keeps(k, p, i, n + l, r)
          PROVE  (Showing(k, shown, q, n, r) /\ Quiet) \/ \E j \in 1..l : Told(j)
      <3>1. CASE i <= n
        <4>1. i \in 1..n /\ q[i] = e /\ Keeps(k, q, i, n, r) /\ Quiet
          BY <1>1, <1>2, <2>1, <3>1
        <4> QED
          BY <1>1, <3>1, <4>1 DEF Showing, e
      <3>2. CASE i > n
        <4>1. i - n \in 1..l /\ evs[i - n] = e /\ n + (i - n) = i
          BY <1>1, <2>1, <3>2
        <4>2. Keeps(k, p, n + (i - n), n + l, r)
          BY <2>1, <4>1
        <4>3. Told(i - n)
          BY <1>2, <4>1, <4>2
        <4> QED
          BY <4>1, <4>3
      <3> QED
        BY <1>1, <3>1, <3>2
    <2>2. ASSUME r \in shown, Keeps(k, p, 0, n + l, r) PROVE Showing(k, shown, q, n, r) /\ Quiet
      <3>1. Keeps(k, q, 0, n, r) /\ Quiet
        BY <1>1, <1>2, <2>2
      <3> QED
        BY <2>2, <3>1 DEF Showing
    <2> QED
      BY <1>1, <2>1, <2>2 DEF Showing, e
  <1>5. Showing(k, shown, q, n, r) /\ Quiet => Showing(k, shown, p, n + l, r)
    <2>1. ASSUME Quiet, NEW i \in 1..n, q[i] = e, Keeps(k, q, i, n, r) PROVE Showing(k, shown, p, n + l, r)
      <3>1. i \in 1..(n + l) /\ i <= n + l /\ p[i] = e /\ Keeps(k, p, i, n + l, r)
        BY <1>1, <1>2, <2>1
      <3> QED
        BY <1>1, <3>1 DEF Showing, e
    <2>2. ASSUME Quiet, r \in shown, Keeps(k, q, 0, n, r) PROVE Showing(k, shown, p, n + l, r)
      <3>1. Keeps(k, p, 0, n + l, r)
        BY <1>1, <1>2, <2>2
      <3> QED
        BY <2>2, <3>1 DEF Showing
    <2> QED
      BY <1>1, <2>1, <2>2 DEF Showing, e
  <1>6. ASSUME NEW i \in 1..l, Told(i) PROVE Showing(k, shown, p, n + l, r)
    <2>1. n + i \in 1..(n + l) /\ n + i <= n + l /\ p[n + i] = e /\ Keeps(k, p, n + i, n + l, r)
      <3>1. n + i \in 1..(n + l) /\ n + i <= n + l /\ p[n + i] = evs[i]
        BY <1>1
      <3>2. Keeps(k, p, n + i, n + l, r)
        BY <1>2, <1>6
      <3> QED
        BY <1>6, <3>1, <3>2
    <2> QED
      BY <1>1, <2>1 DEF Showing, e
  <1>7. Showing(k, shown, p, Len(p), r) <=> (Showing(k, shown, q, n, r) /\ Quiet) \/ \E i \in 1..l : Told(i)
    BY <1>1, <1>4, <1>5, <1>6
  <1> QED
    BY <1>3, <1>7 DEF p, n, l, e, Quiet

LEMMA CrowdingExtended ==
    ASSUME NEW q \in Seq(Event), NEW evs \in Seq(Event), NEW k, NEW shown
    PROVE  /\ Crowding(k, shown, q) => Crowding(k, shown, q \o evs)
           /\ \A i \in 1..Len(evs), r \in Requests :
                 k = "page" /\ evs[i].type = "PermissionPending" /\ evs[i].request # r
                    /\ Showing(k, shown, q \o evs, Len(q) + i - 1, r)
                 => Crowding(k, shown, q \o evs)
  <1> DEFINE p == q \o evs
             n == Len(q)
             l == Len(evs)
  <1>1. /\ n \in Nat /\ l \in Nat
        /\ DOMAIN q = 1..n /\ DOMAIN p = 1..(n + l)
        /\ \A i \in 1..n : p[i] = q[i]
        /\ \A i \in 1..l : p[n + i] = evs[i]
    BY Places
  <1>2. \A r : \A x \in 0..n : Showing(k, shown, p, x, r) <=> Showing(k, shown, q, x, r)
    BY ShowingExtended
  <1> HIDE DEF p, n, l
  <1>3. ASSUME NEW i \in 1..n, NEW r \in Requests, k = "page", q[i].type = "PermissionPending",
               q[i].request # r, Showing(k, shown, q, i - 1, r)
        PROVE  Crowding(k, shown, p)
    <2>1. i \in 1..(n + l) /\ p[i] = q[i] /\ i - 1 \in 0..n
      BY <1>1
    <2>2. Showing(k, shown, p, i - 1, r)
      BY <1>2, <1>3, <2>1
    <2> QED
      BY <1>1, <1>3, <2>1, <2>2 DEF Crowding
  <1>4. ASSUME NEW i \in 1..l, NEW r \in Requests, k = "page", evs[i].type = "PermissionPending",
               evs[i].request # r, Showing(k, shown, p, n + i - 1, r)
        PROVE  Crowding(k, shown, p)
    <2>1. n + i \in 1..(n + l) /\ p[n + i] = evs[i]
      BY <1>1
    <2> QED
      BY <1>1, <1>4, <2>1 DEF Crowding
  <1>5. Crowding(k, shown, q) => Crowding(k, shown, p)
    BY <1>1, <1>3 DEF Crowding
  <1> QED
    BY <1>4, <1>5 DEF p, n, l

\* What is in the channel after the first event, shown after it.
LEMMA ShowingTail ==
    ASSUME NEW q \in Seq(Event), q # <<>>, NEW k, NEW shown, NEW next, NEW r,
           r \in next <=> (r \in shown /\ ~Hides(k, q[1], r)) \/ q[1] = PermissionEvent("PermissionPending", r)
    PROVE  \A n \in 1..Len(q) : Showing(k, shown, q, n, r) <=> Showing(k, next, Tail(q), n - 1, r)
  <1> DEFINE t == Tail(q)
             l == Len(q)
             e == PermissionEvent("PermissionPending", r)
  <1>1. /\ l \in Nat /\ l >= 1 /\ DOMAIN q = 1..l /\ DOMAIN t = 1..(l - 1)
        /\ \A i \in 1..(l - 1) : t[i] = q[i + 1]
    BY HeadTailProperties, EmptySeq, LenProperties
  <1> SUFFICES ASSUME NEW n \in 1..l PROVE Showing(k, shown, q, n, r) <=> Showing(k, next, t, n - 1, r)
    OBVIOUS
  <1> HIDE DEF t, l, e
  <1>2. ASSUME NEW m \in 1..l PROVE Keeps(k, q, m, n, r) <=> Keeps(k, t, m - 1, n - 1, r)
    <2>1. ASSUME Keeps(k, q, m, n, r), NEW j \in 1..(l - 1), m - 1 < j, j <= n - 1 PROVE ~Hides(k, t[j], r)
      <3>1. j + 1 \in 1..l /\ t[j] = q[j + 1] /\ m < j + 1 /\ j + 1 <= n
        BY <1>1, <2>1
      <3> QED
        BY <1>1, <2>1, <3>1 DEF Keeps
    <2>2. ASSUME Keeps(k, t, m - 1, n - 1, r), NEW j \in 1..l, m < j, j <= n PROVE ~Hides(k, q[j], r)
      <3>1. /\ j - 1 \in 1..(l - 1) /\ (j - 1) + 1 = j
            /\ m - 1 < j - 1 /\ j - 1 <= n - 1
        BY <1>1, <2>2
      <3>2. t[j - 1] = q[j]
        BY <1>1, <3>1
      <3> QED
        BY <1>1, <2>2, <3>1, <3>2 DEF Keeps
    <2> QED
      BY <1>1, <2>1, <2>2 DEF Keeps
  <1>3. Keeps(k, q, 0, n, r) <=> ~Hides(k, q[1], r) /\ Keeps(k, t, 0, n - 1, r)
    <2>1. Keeps(k, q, 0, n, r) <=> ~Hides(k, q[1], r) /\ Keeps(k, q, 1, n, r)
      <3>1. 1 \in 1..l /\ \A j \in 1..l : 0 < j /\ (j = 1 \/ 1 < j)
        BY <1>1
      <3> QED
        BY <1>1, <3>1 DEF Keeps
    <2>2. 1 \in 1..l /\ 1 - 1 = 0
      BY <1>1
    <2> QED
      BY <1>2, <2>1, <2>2
  <1>4. ASSUME Showing(k, shown, q, n, r) PROVE Showing(k, next, t, n - 1, r)
    <2>1. CASE r \in shown /\ Keeps(k, q, 0, n, r)
      BY <1>3, <2>1 DEF Showing
    <2>2. ASSUME NEW i \in 1..l, i <= n, q[i] = e, Keeps(k, q, i, n, r) PROVE Showing(k, next, t, n - 1, r)
      <3>1. Keeps(k, t, i - 1, n - 1, r)
        BY <1>2, <2>2
      <3>2. CASE i = 1
        <4>1. r \in next /\ Keeps(k, t, 0, n - 1, r)
          BY <2>2, <3>1, <3>2 DEF e
        <4> QED
          BY <4>1 DEF Showing
      <3>3. CASE i > 1
        <4>1. i - 1 \in 1..(l - 1) /\ (i - 1) + 1 = i /\ i - 1 <= n - 1
          BY <1>1, <2>2, <3>3
        <4>2. t[i - 1] = e
          BY <1>1, <2>2, <4>1
        <4> QED
          BY <1>1, <3>1, <4>1, <4>2 DEF Showing, e
      <3> QED
        BY <1>1, <3>2, <3>3
    <2> QED
      BY <1>1, <1>4, <2>1, <2>2 DEF Showing, e
  <1>5. ASSUME Showing(k, next, t, n - 1, r) PROVE Showing(k, shown, q, n, r)
    <2>1. CASE r \in next /\ Keeps(k, t, 0, n - 1, r)
      <3>1. CASE r \in shown /\ ~Hides(k, q[1], r)
        BY <1>3, <2>1, <3>1 DEF Showing
      <3>2. CASE q[1] = e
        <4>1. 1 \in 1..l /\ 1 <= n /\ 1 - 1 = 0
          BY <1>1
        <4>2. Keeps(k, q, 1, n, r)
          BY <1>2, <2>1, <4>1
        <4> QED
          BY <1>1, <3>2, <4>1, <4>2 DEF Showing, e
      <3> QED
        BY <2>1, <3>1, <3>2 DEF e
    <2>2. ASSUME NEW i \in 1..(l - 1), i <= n - 1, t[i] = e, Keeps(k, t, i, n - 1, r)
          PROVE  Showing(k, shown, q, n, r)
      <3>1. i + 1 \in 1..l /\ (i + 1) - 1 = i /\ i + 1 <= n /\ q[i + 1] = e
        BY <1>1, <2>2
      <3>2. Keeps(k, q, i + 1, n, r)
        BY <1>2, <2>2, <3>1
      <3> QED
        BY <1>1, <3>1, <3>2 DEF Showing, e
    <2> QED
      BY <1>1, <1>5, <2>1, <2>2 DEF Showing, e
  <1> QED
    BY <1>4, <1>5

\* What a dashboard will show, and whether it was or will be asked a second
\* time, does not change by its showing the next event.
LEMMA ShowingKeepsRequests ==
    ASSUME TypeOK, NEW d \in Conns, DashboardShows(d)
    PROVE  /\ \A r \in Requests : WillShow(d, Len(queue[d]), r) <=> WillShow(d, Len(queue[d]), r)'
           /\ WillCrowd(d) => WillCrowd(d)'
  <1> DEFINE q == queue[d]
             t == Tail(q)
             k == dash[d].kind
             shown == dash[d].permissions
             next == dash'[d].permissions
  <1>1. /\ q \in Seq(Event) /\ q # <<>> /\ queue'[d] = t /\ dash'[d] = After(dash[d], Head(q))
        /\ dash[d] \in View
    BY DEF TypeOK, View, DashboardShows
  <1>2. /\ t \in Seq(Event) /\ Len(t) = Len(q) - 1 /\ Len(q) \in Nat /\ Len(q) >= 1
        /\ Head(q) = q[1] /\ q[1] \in Event
        /\ DOMAIN q = 1..Len(q) /\ DOMAIN t = 1..(Len(q) - 1)
        /\ \A i \in 1..(Len(q) - 1) : t[i] = q[i + 1]
    BY <1>1, HeadTailProperties, EmptySeq, LenProperties
  <1>3. /\ dash'[d].kind = k
        /\ q[1].type = "StateUpdate" => next = shown
        /\ q[1].type = "PermissionResolved" => next = shown \ {q[1].request}
        /\ q[1].type = "PermissionPending" =>
              /\ next = {q[1].request} \cup IF k = "page" THEN {} ELSE shown
              /\ dash'[d].crowded <=> dash[d].crowded \/ (k = "page" /\ shown \ {q[1].request} # {})
        /\ q[1].type # "PermissionPending" => dash'[d].crowded = dash[d].crowded
    <2> DEFINE view == After(dash[d], q[1])
    <2>1. view.kind = k
      BY <1>1, <1>2, AfterAnEvent
    <2>2. q[1].type = "StateUpdate" => view.permissions = shown
      BY <1>1, <1>2, AfterAnEvent
    <2>3. q[1].type = "PermissionResolved" => view.permissions = shown \ {q[1].request}
      BY <1>1, <1>2, AfterAnEvent
    <2>4. q[1].type = "PermissionPending" =>
            view.permissions = {q[1].request} \cup IF k = "page" THEN {} ELSE shown
      BY <1>1, <1>2, AfterAnEvent
    <2>5. q[1].type = "PermissionPending" =>
            (view.crowded <=> dash[d].crowded \/ (k = "page" /\ shown \ {q[1].request} # {}))
      BY <1>1, <1>2, AfterAnEvent
    <2>6. q[1].type # "PermissionPending" => view.crowded = dash[d].crowded
      BY <1>1, <1>2, AfterAnEvent
    <2>7. dash'[d] = view
      BY <1>1, <1>2
    <2> HIDE DEF view
    <2> QED
      BY <2>1, <2>2, <2>3, <2>4, <2>5, <2>6, <2>7
  <1>4. \/ q[1].type = "StateUpdate" /\ q[1] = StateUpdate(q[1].state)
        \/ q[1].type = "PermissionResolved" /\ q[1] = PermissionEvent("PermissionResolved", q[1].request)
        \/ q[1].type = "PermissionPending" /\ q[1] = PermissionEvent("PermissionPending", q[1].request)
    BY <1>2, EventSorts DEF PermissionTypes
  <1> HIDE DEF q, t, k, shown, next
  <1>5. ASSUME NEW r
        PROVE  r \in next <=> (r \in shown /\ ~Hides(k, q[1], r)) \/ q[1] = PermissionEvent("PermissionPending", r)
    <2>1. CASE q[1].type = "StateUpdate" /\ q[1] = StateUpdate(q[1].state)
      BY <1>3, <2>1, HidesWhat
    <2>2. CASE q[1].type = "PermissionResolved" /\ q[1] = PermissionEvent("PermissionResolved", q[1].request)
      BY <1>3, <2>2, HidesWhat
    <2>3. CASE q[1].type = "PermissionPending" /\ q[1] = PermissionEvent("PermissionPending", q[1].request)
      BY <1>3, <2>3, HidesWhat
    <2> QED
      BY <1>4, <2>1, <2>2, <2>3
  <1>6. \A r : \A n \in 1..Len(q) : Showing(k, shown, q, n, r) <=> Showing(k, next, t, n - 1, r)
    BY <1>1, <1>5, ShowingTail DEF t
  <1>7. /\ \A n, r : WillShow(d, n, r) <=> Showing(k, shown, q, n, r)
        /\ \A n, r : WillShow(d, n, r)' <=> Showing(k, next, t, n, r)
        /\ WillCrowd(d) <=> dash[d].crowded \/ Crowding(k, shown, q)
        /\ WillCrowd(d)' <=> dash'[d].crowded \/ Crowding(k, next, t)
    BY <1>1, <1>3, WillShowIsShowing, WillShowIsShowingNext DEF q, k, shown, next
  <1>8. \A r : WillShow(d, Len(queue[d]), r)' <=> Showing(k, next, t, Len(q) - 1, r)
    BY <1>1, <1>2, WillShowIsShowingNext, <1>3 DEF next
  <1>9. \A r : WillShow(d, Len(queue[d]), r) <=> Showing(k, shown, q, Len(q), r)
    BY <1>7 DEF q
  <1>10. \A r : WillShow(d, Len(queue[d]), r) <=> WillShow(d, Len(queue[d]), r)'
    BY <1>2, <1>6, <1>8, <1>9
  <1>11. ASSUME NEW i \in 1..Len(q), NEW r \in Requests, k = "page", q[i].type = "PermissionPending",
                q[i].request # r, Showing(k, shown, q, i - 1, r)
         PROVE  dash'[d].crowded \/ Crowding(k, next, t)
    <2>1. CASE i = 1
      <3>1. r \in shown
        <4>1. ~\E j \in DOMAIN q : j <= 0
          BY <1>2
        <4> QED
          BY <1>11, <2>1, <4>1 DEF Showing
      <3> QED
        BY <1>3, <1>11, <2>1, <3>1
    <2>2. CASE i > 1
      <3>1. /\ i - 1 \in 1..Len(q) /\ i - 1 \in 1..(Len(q) - 1) /\ (i - 1) + 1 = i
        BY <1>2, <2>2
      <3>2. t[i - 1] = q[i]
        BY <1>2, <3>1
      <3>3. Showing(k, next, t, (i - 1) - 1, r)
        BY <1>6, <1>11, <3>1
      <3> QED
        BY <1>2, <1>11, <3>1, <3>2, <3>3 DEF Crowding
    <2> QED
      BY <1>2, <2>1, <2>2
  <1>12. dash[d].crowded => dash'[d].crowded
    BY <1>3
  <1>13. WillCrowd(d) => WillCrowd(d)'
    BY <1>2, <1>7, <1>11, <1>12 DEF Crowding
  <1> QED
    BY <1>10, <1>13

\* The same of a subscriber that is told of a change of the state: only the
\* events before the state update matter.
LEMMA ToldOfRequests ==
    ASSUME TypeOK, NEW s \in State, NEW events \in Seq(Event), NewState(s, events), UNCHANGED dash,
           NEW d \in subscribers'
    PROVE  /\ \A r \in Requests : WillShow(d, Len(queue[d]), r)'
                <=> \/ WillShow(d, Len(queue[d]), r)
                       /\ \A j \in 1..Len(events) : ~Hides(dash[d].kind, events[j], r)
                    \/ \E i \in 1..Len(events) :
                         /\ events[i] = PermissionEvent("PermissionPending", r)
                         /\ \A j \in 1..Len(events) : i < j => ~Hides(dash[d].kind, events[j], r)
           /\ WillCrowd(d) => WillCrowd(d)'
           /\ \A r, r1 \in Requests :
                 (/\ dash[d].kind = "page" /\ events = <<PermissionEvent("PermissionPending", r1)>>
                  /\ r # r1 /\ WillShow(d, Len(queue[d]), r)) => WillCrowd(d)'
  <1> DEFINE evs == Append(events, StateUpdate(s))
             q == queue[d]
             k == dash[d].kind
             shown == dash[d].permissions
             l == Len(events)
  <1>1. d \in Conns /\ d \in subscribers /\ queue'[d] = q \o evs /\ dash'[d] = dash[d] /\ q \in Seq(Event)
    BY NewStateReaches DEF TypeOK
  <1>2. /\ evs \in Seq(Event) /\ Len(evs) = l + 1 /\ l \in Nat /\ evs[l + 1] = StateUpdate(s)
        /\ \A i \in 1..l : evs[i] = events[i]
    BY AppendedEvent, EventSorts
  <1> HIDE DEF evs, q, k, shown, l
  <1>3. /\ \A n, r : WillShow(d, n, r) <=> Showing(k, shown, q, n, r)
        /\ WillCrowd(d) <=> dash[d].crowded \/ Crowding(k, shown, q)
    BY <1>1, WillShowIsShowing DEF q, k, shown
  <1>4. /\ \A r : WillShow(d, Len(queue[d]), r)' <=> Showing(k, shown, q \o evs, Len(q \o evs), r)
        /\ WillCrowd(d)' <=> dash[d].crowded \/ Crowding(k, shown, q \o evs)
    BY <1>1, WillShowIsShowingNext DEF k, shown
  <1>5. ASSUME NEW r \in Requests
        PROVE  WillShow(d, Len(queue[d]), r)'
                 <=> \/ WillShow(d, Len(queue[d]), r) /\ \A j \in 1..l : ~Hides(k, events[j], r)
                     \/ \E i \in 1..l : /\ events[i] = PermissionEvent("PermissionPending", r)
                                        /\ \A j \in 1..l : i < j => ~Hides(k, events[j], r)
    <2> DEFINE e == PermissionEvent("PermissionPending", r)
    <2>1. Showing(k, shown, q \o evs, Len(q \o evs), r)
            <=> \/ Showing(k, shown, q, Len(q), r) /\ \A j \in 1..Len(evs) : ~Hides(k, evs[j], r)
                \/ \E i \in 1..Len(evs) : evs[i] = e /\ \A j \in 1..Len(evs) : i < j => ~Hides(k, evs[j], r)
      BY <1>1, <1>2, ShowingExtended
    <2>2. ~Hides(k, evs[l + 1], r) /\ evs[l + 1] # e
      BY <1>2, HidesWhat
    <2> HIDE DEF e
    <2>3. (\A j \in 1..Len(evs) : ~Hides(k, evs[j], r)) <=> \A j \in 1..l : ~Hides(k, events[j], r)
      <3>1. \A j \in 1..(l + 1) : j = l + 1 \/ j \in 1..l
        BY <1>2
      <3>2. \A j \in 1..l : j \in 1..(l + 1)
        BY <1>2
      <3> QED
        BY <1>2, <2>2, <3>1, <3>2
    <2>4. ASSUME NEW i \in 1..l
          PROVE  (\A j \in 1..Len(evs) : i < j => ~Hides(k, evs[j], r))
                   <=> \A j \in 1..l : i < j => ~Hides(k, events[j], r)
      <3>1. \A j \in 1..(l + 1) : j = l + 1 \/ j \in 1..l
        BY <1>2
      <3>2. \A j \in 1..l : j \in 1..(l + 1)
        BY <1>2
      <3> QED
        BY <1>2, <2>2, <3>1, <3>2
    <2>5. (\E i \in 1..Len(evs) : evs[i] = e /\ \A j \in 1..Len(evs) : i < j => ~Hides(k, evs[j], r))
            <=> \E i \in 1..l : events[i] = e /\ \A j \in 1..l : i < j => ~Hides(k, events[j], r)
      <3>1. \A i \in 1..(l + 1) : i = l + 1 \/ i \in 1..l
        BY <1>2
      <3>2. \A i \in 1..l : i \in 1..(l + 1)
        BY <1>2
      <3> QED
        BY <1>2, <2>2, <2>4, <3>1, <3>2
    <2>6. WillShow(d, Len(queue[d]), r) <=> Showing(k, shown, q, Len(q), r)
      BY <1>3 DEF q
    <2> QED
      BY <1>4, <2>1, <2>3, <2>5, <2>6 DEF e
  <1>6. WillCrowd(d) => WillCrowd(d)'
    BY <1>1, <1>2, <1>3, <1>4, CrowdingExtended
  <1>7. ASSUME NEW r \in Requests, NEW r1 \in Requests, k = "page",
               events = <<PermissionEvent("PermissionPending", r1)>>, r # r1,
               WillShow(d, Len(queue[d]), r)
        PROVE  WillCrowd(d)'
    <2>1. /\ l = 1 /\ 1 \in 1..Len(evs) /\ evs[1].type = "PermissionPending" /\ evs[1].request # r
          /\ Len(q) \in Nat /\ Len(q) + 1 - 1 = Len(q) /\ Len(q) \in 0..Len(q)
      <3>1. l = 1 /\ events[1] = PermissionEvent("PermissionPending", r1)
        BY <1>7 DEF l
      <3>2. Len(q) \in Nat
        BY <1>1, LenProperties
      <3> QED
        BY <1>2, <1>7, <3>1, <3>2, EventSorts DEF PermissionTypes
    <2>2. Showing(k, shown, q, Len(q), r)
      BY <1>3, <1>7 DEF q
    <2>3. Showing(k, shown, q \o evs, Len(q), r)
      BY <1>1, <1>2, <2>1, <2>2, ShowingExtended
    <2>4. Crowding(k, shown, q \o evs)
      BY <1>1, <1>2, <1>7, <2>1, <2>3, CrowdingExtended
    <2> QED
      BY <1>4, <2>4
  <1> QED
    BY <1>5, <1>6, <1>7 DEF k, l

\* What PermissionsCurrent says of one subscriber.
RequestsCurrent(d) ==
    /\ \A r \in Requests : WillShow(d, Len(queue[d]), r) => r \in pending \cup vanished \cup dash[d].stale
    /\ (\A r \in pending \ dash[d].untold : WillShow(d, Len(queue[d]), r)) \/ WillCrowd(d)

\* A new subscriber is sent the pending requests, or as many as it has room
\* for. A page shows the last of them, and if there are more it is crowded.
LEMMA SubscribedToRequests ==
    ASSUME TypeOK, NEW d \in Conns, HandleSubscribe(d)
    PROVE  RequestsCurrent(d)'
  <1>0. PICK told \in SUBSET pending : Subscribed(d, told)
    BY SubscriptionSends
  <1> DEFINE evs == EventsFor("PermissionPending", told)
             n == Cardinality(told)
             u == <<StateUpdate(state)>>
             q == u \o evs
             k == dash[d].kind
             shown == dash[d].permissions
             P(r) == PermissionEvent("PermissionPending", r)
  <1>1. /\ evs \in Seq(Event) /\ Len(evs) = n /\ n \in Nat
        /\ \A i \in 1..n : evs[i].request \in told /\ evs[i] = P(evs[i].request)
        /\ \A i, j \in 1..n : evs[i].request = evs[j].request => i = j
        /\ \A r \in told : \E i \in 1..n : evs[i] = P(r)
    BY EventsForRequests DEF TypeOK, PermissionTypes
  <1>2. u \in Seq(Event) /\ Len(u) = 1 /\ u[1] = StateUpdate(state)
    BY EventSorts DEF TypeOK
  <1>3. /\ queue'[d] = q /\ pending' = pending /\ vanished' = vanished
        /\ dash'[d].permissions = shown /\ dash'[d].kind = k
        /\ dash'[d].stale = shown \ pending /\ dash'[d].untold = pending \ told
    <2>1. dash[d] \in View /\ d \in DOMAIN dash /\ d \in DOMAIN queue
      BY DEF TypeOK, View
    <2>2. queue'[d] = q /\ UNCHANGED <<pending, vanished>>
      BY <1>0, <2>1, SubscriptionSends DEF Subscribed
    <2>3. dash'[d] = [dash[d] EXCEPT !.task = "subscribed", !.crowded = FALSE,
                                     !.stale = shown \ pending, !.untold = pending \ told]
      BY <1>0, <2>1 DEF Subscribed
    <2> QED
      BY <2>1, <2>2, <2>3 DEF View
  <1>4. told \subseteq pending
    BY <1>0
  <1> HIDE DEF evs, u, n, k, shown
  <1>5. /\ q \in Seq(Event) /\ Len(q) = 1 + n /\ DOMAIN q = 1..(1 + n) /\ q[1] = StateUpdate(state)
        /\ \A i \in 1..n : q[1 + i] = evs[i]
        /\ \A i \in 1..(1 + n) : i > 1 => i - 1 \in 1..n /\ q[i] = evs[i - 1]
    <2>1. /\ q \in Seq(Event) /\ Len(q) = Len(u) + Len(evs) /\ DOMAIN q = 1..(Len(u) + Len(evs))
          /\ DOMAIN u = 1..Len(u)
          /\ \A i \in 1..Len(u) : q[i] = u[i]
          /\ \A i \in 1..Len(evs) : q[Len(u) + i] = evs[i]
          /\ \A i \in 1..(Len(u) + Len(evs)) : i > Len(u) => i - Len(u) \in 1..Len(evs) /\ q[i] = evs[i - Len(u)]
      BY <1>1, <1>2, Places
    <2> HIDE DEF q
    <2>2. q[1] = StateUpdate(state)
      BY <1>2, <2>1
    <2> QED
      BY <1>1, <1>2, <2>1, <2>2
  <1> HIDE DEF q
  <1>6. /\ \A r : WillShow(d, Len(queue[d]), r)' <=> Showing(k, shown, q, 1 + n, r)
        /\ WillCrowd(d)' <=> dash'[d].crowded \/ Crowding(k, shown, q)
    BY <1>3, <1>5, WillShowIsShowingNext
  <1>7. ASSUME NEW r \in Requests, Showing(k, shown, q, 1 + n, r) PROVE r \in pending \cup (shown \ pending)
    <2>1. ASSUME NEW i \in 1..(1 + n), q[i] = P(r) PROVE r \in pending
      <3>1. i # 1
        BY <1>5, <2>1, HidesWhat
      <3>2. i - 1 \in 1..n /\ q[i] = evs[i - 1]
        BY <1>1, <1>5, <3>1
      <3>3. P(evs[i - 1].request) = P(r) /\ evs[i - 1].request \in pending
        BY <1>1, <1>4, <2>1, <3>2
      <3> QED
        BY <3>3, HidesWhat
    <2> QED
      BY <1>5, <1>7, <2>1 DEF Showing
  \* A client shows them all.
  <1>8. ASSUME k # "page", NEW r \in told PROVE Showing(k, shown, q, 1 + n, r)
    <2>1. PICK i \in 1..n : evs[i] = P(r)
      BY <1>1
    <2>2. 1 + i \in 1..(1 + n) /\ 1 + i <= 1 + n /\ q[1 + i] = P(r)
      BY <1>1, <1>5, <2>1
    <2>3. ASSUME NEW j \in 1..(1 + n) PROVE ~Hides(k, q[j], r)
      <3>1. CASE j = 1
        BY <1>5, <3>1, HidesWhat
      <3>2. CASE j > 1
        <4>1. j - 1 \in 1..n /\ q[j] = evs[j - 1]
          BY <1>5, <3>2
        <4>2. q[j] = P(evs[j - 1].request)
          BY <1>1, <4>1
        <4> QED
          BY <1>8, <4>2, HidesWhat
      <3> QED
        BY <1>1, <3>1, <3>2
    <2>4. Keeps(k, q, 1 + i, 1 + n, r)
      BY <1>5, <2>3 DEF Keeps
    <2> QED
      BY <1>5, <2>2, <2>4 DEF Showing
  \* The last event in the channel is shown whatever the viewer.
  <1>9. ASSUME NEW m \in 1..n PROVE Showing(k, shown, q, 1 + m, evs[m].request)
    <2>1. 1 + m \in 1..(1 + n) /\ q[1 + m] = P(evs[m].request)
      BY <1>1, <1>5
    <2>2. \A j \in DOMAIN q : ~(1 + m < j /\ j <= 1 + m)
      BY <1>1, <1>5
    <2>3. Keeps(k, q, 1 + m, 1 + m, evs[m].request)
      BY <2>2 DEF Keeps
    <2>4. 1 + m <= 1 + m
      BY <1>1
    <2> QED
      BY <1>5, <2>1, <2>3, <2>4 DEF Showing
  <1>14. ASSUME (\A r \in told : Showing(k, shown, q, 1 + n, r)) \/ Crowding(k, shown, q)
         PROVE  RequestsCurrent(d)'
    <2>1. \A r \in Requests : WillShow(d, Len(queue[d]), r)' => r \in (pending \cup vanished \cup dash[d].stale)'
      BY <1>3, <1>6, <1>7
    <2>2. (\A r \in (pending \ dash[d].untold)' : WillShow(d, Len(queue[d]), r)') \/ WillCrowd(d)'
      BY <1>3, <1>6, <1>14
    <2> QED
      BY <2>1, <2>2 DEF RequestsCurrent
  <1>10. CASE n = 0
    <2>1. told = {}
      BY <1>1, <1>10
    <2> QED
      BY <1>14, <2>1
  <1>11. CASE n = 1
    <2>1. \A r \in told : Showing(k, shown, q, 1 + n, r)
      <3>1. ASSUME NEW r \in told PROVE r = evs[1].request
        <4>1. PICK i \in 1..n : evs[i] = P(r)
          BY <1>1
        <4>2. i = 1 /\ P(evs[1].request) = P(r)
          BY <1>1, <1>11, <4>1
        <4> QED
          BY <4>2, HidesWhat
      <3> QED
        BY <1>9, <1>11, <3>1
    <2> QED
      BY <1>14, <2>1
  <1>12. CASE n > 1 /\ k = "page"
    <2> DEFINE r == evs[n - 1].request
    <2>1. n - 1 \in 1..n /\ n \in 1..n /\ 1 + (n - 1) = (1 + n) - 1 /\ 1 + n \in 1..(1 + n)
      BY <1>1, <1>12
    <2>2. Showing(k, shown, q, (1 + n) - 1, r)
      BY <1>9, <2>1
    <2>3. q[1 + n] = P(evs[n].request) /\ evs[n].request \in Requests /\ r \in Requests
      BY <1>1, <1>4, <1>5, <2>1 DEF TypeOK
    <2>4. q[1 + n].type = "PermissionPending" /\ q[1 + n].request = evs[n].request
      BY <2>3, EventSorts DEF PermissionTypes
    <2>5. evs[n].request # r
      BY <1>1, <1>12, <2>1
    <2> HIDE DEF r
    <2>6. Crowding(k, shown, q)
      BY <1>5, <1>12, <2>1, <2>2, <2>3, <2>4, <2>5 DEF Crowding
    <2> QED
      BY <1>14, <2>6
  <1>13. CASE k # "page"
    BY <1>8, <1>13, <1>14
  <1> QED
    BY <1>1, <1>10, <1>11, <1>12, <1>13

PermissionsInv == TypeOK /\ PermissionsCurrent

\* The handlers' effect on the requests that are pending, and what they send.
LEMMA RequestSteps ==
    ASSUME TypeOK, [Next]_vars
    PROVE  \/ /\ UNCHANGED dash /\ pending' = {} /\ pending \subseteq vanished' /\ vanished \subseteq vanished'
              /\ \E s \in State : NewState(s, <<>>)
           \/ /\ UNCHANGED <<dash, pending, vanished>> /\ \E s \in State : NewState(s, <<>>)
           \/ /\ UNCHANGED <<dash, vanished>> /\ pending' = {}
              /\ \E s \in State : NewState(s, EventsFor("PermissionResolved", pending))
           \/ /\ UNCHANGED <<dash, vanished>>
              /\ \E r \in Requests : /\ pending' = pending \cup {r}
                                     /\ \E s \in State : NewState(s, <<PermissionEvent("PermissionPending", r)>>)
           \/ /\ UNCHANGED <<dash, vanished>>
              /\ \E r \in Requests : /\ pending' = pending \ {r}
                                     /\ \E s \in State : NewState(s, <<PermissionEvent("PermissionResolved", r)>>)
           \/ /\ UNCHANGED <<queue, subscribers, dash>>
              /\ pending' \subseteq pending /\ vanished \cup pending \subseteq vanished' \cup pending'
           \/ DaemonStops
           \/ \E d \in Conns : \/ DashboardShows(d) \/ StreamEnds(d) \/ DashboardLeaves(d)
                               \/ Reconnects(d) \/ HandleSubscribe(d)
  <1>1. state \in State /\ screen_rx \in Seq(Shown)
    BY DEF TypeOK
  <1>2. CASE UNCHANGED vars
    BY <1>2 DEF vars
  <1>3. CASE HandleHookEvent
    <2>1. [state EXCEPT !.needs_input = FALSE] \in State
      BY <1>1, StateChanges
    <2> QED
      BY <1>3, <2>1 DEF HandleHookEvent
  <1>4. CASE HandleRegisterWrapper
    <2>1. [state EXCEPT !.session = TRUE] \in State
      BY <1>1, StateChanges
    <2> QED
      BY <1>4, <2>1 DEF HandleRegisterWrapper, history
  <1>5. CASE HandleUnregisterWrapper
    <2>1. UNCHANGED dash /\ pending' = {} /\ vanished' = vanished \cup pending
      BY <1>5 DEF HandleUnregisterWrapper
    <2>2. CASE up
      <3>1. NewState(NoState, <<>>)
        BY <1>5, <2>2 DEF HandleUnregisterWrapper
      <3> QED
        <4>1. \E s \in State : NewState(s, <<>>)
          BY <1>1, <3>1, StateChanges
        <4>2. pending \subseteq vanished' /\ vanished \subseteq vanished'
          BY <2>1
        <4> QED
          BY <2>1, <4>1, <4>2
    <2>3. CASE ~up
      BY <1>5, <2>1, <2>3 DEF HandleUnregisterWrapper
    <2> QED
      BY <2>2, <2>3
  <1>6. CASE DaemonStarts
    BY <1>6 DEF DaemonStarts, dashboards, history
  <1>7. ASSUME NEW s \in Shown, NEW due \in BOOLEAN, ReadPty(s, due)
        PROVE  UNCHANGED <<queue, subscribers, dash, pending, vanished>>
    BY <1>7 DEF ReadPty, daemon, dashboards
  <1>8. CASE ScreenConnects
    BY <1>8 DEF ScreenConnects, daemon, dashboards, history
  <1>9. CASE ScreenSends
    <2> DEFINE s == Head(screen_rx)
    <2>1. s \in Shown
      BY <1>1, <1>9, HeadTailProperties DEF ScreenSends
    <2>2. [state EXCEPT !.suggestion = s] \in State
      BY <1>1, <2>1, StateChanges
    <2>3. UNCHANGED <<dash, pending, vanished>>
          /\ (HandleUpdateSuggestion(s) \/ UNCHANGED <<state, queue, subscribers>>)
      BY <1>9 DEF ScreenSends
    <2>4. NewState([state EXCEPT !.suggestion = s], <<>>) \/ UNCHANGED <<state, queue, subscribers>>
      BY <2>3 DEF HandleUpdateSuggestion
    <2> QED
      BY <2>2, <2>3, <2>4
  <1>10. ASSUME NEW r \in Requests, HandlePermissionRequest(r)
         PROVE  /\ UNCHANGED <<dash, vanished>> /\ pending' = pending \cup {r}
                /\ \E s \in State : NewState(s, <<PermissionEvent("PermissionPending", r)>>)
    <2>1. [state EXCEPT !.needs_input = TRUE] \in State
      BY <1>1, StateChanges
    <2> QED
      BY <1>10, <2>1 DEF HandlePermissionRequest
  <1>11. ASSUME NEW r \in Requests, HandlePermissionResponse(r)
         PROVE  /\ UNCHANGED <<dash, vanished>> /\ pending' = pending \ {r}
                /\ \E s \in State : NewState(s, <<PermissionEvent("PermissionResolved", r)>>)
    <2>1. [state EXCEPT !.needs_input = pending \ {r} # {}] \in State
      BY <1>1, StateChanges
    <2> QED
      BY <1>11, <2>1 DEF HandlePermissionResponse, history
  <1>12. ASSUME NEW d \in Conns, NEW r \in Requests, PhoneAnswers(d, r)
         PROVE  UNCHANGED <<queue, subscribers, dash, pending, vanished>>
    BY <1>12 DEF PhoneAnswers, daemon, history
  <1> QED
    BY <1>2, <1>3, <1>4, <1>5, <1>6, <1>7, <1>8, <1>9, <1>10, <1>11, <1>12 DEF Next, Reconnects

LEMMA PermissionsStep == PermissionsInv /\ [Next]_vars => PermissionsInv'
  <1> SUFFICES ASSUME PermissionsInv, [Next]_vars, NEW d \in subscribers', ~Closed(d)'
               PROVE  RequestsCurrent(d)'
    <2>1. PermissionsInv /\ [Next]_vars => TypeOK'
      BY TypeStep DEF PermissionsInv
    <2> QED
      BY <2>1 DEF PermissionsInv, PermissionsCurrent, RequestsCurrent
  <1>0. /\ TypeOK /\ PermissionsCurrent /\ pending \in SUBSET Requests
        /\ subscribers \in SUBSET Conns
    BY DEF PermissionsInv, TypeOK
  <1> DEFINE n == Len(queue[d])
  <1>1. ASSUME d \in subscribers, ~Closed(d)
        PROVE  RequestsCurrent(d)
    BY <1>0, <1>1 DEF PermissionsCurrent, RequestsCurrent
  \* Who is still a subscriber after a broadcast was one before.
  <1>2. ASSUME UNCHANGED dash, NEW s \in State, NEW events \in Seq(Event), NewState(s, events)
        PROVE  RequestsCurrent(d) /\ d \in Conns
    <2>1. d \in subscribers /\ ~Closed(d) /\ d \in Conns
      BY <1>0, <1>2, NewStateReaches
    <2> QED
      BY <1>1, <2>1
  <1>3. ASSUME UNCHANGED dash, pending \cup vanished \subseteq pending' \cup vanished', pending' \subseteq pending,
               NEW s \in State, NewState(s, <<>>)
        PROVE  RequestsCurrent(d)'
    <2>1. <<>> \in Seq(Event) /\ Len(<<>>) = 0 /\ 1..0 = {}
      OBVIOUS
    <2>2. /\ \A r \in Requests : WillShow(d, n, r)' <=> WillShow(d, n, r)
          /\ WillCrowd(d) => WillCrowd(d)'
      BY <1>0, <1>3, <2>1, ToldOfRequests
    <2>3. RequestsCurrent(d)
      BY <1>2, <1>3, <2>1
    <2> QED
      BY <1>0, <1>3, <2>2, <2>3 DEF RequestsCurrent
  <1>4. ASSUME UNCHANGED <<dash, vanished>>, pending' = {},
               NEW s \in State, NewState(s, EventsFor("PermissionResolved", pending))
        PROVE  RequestsCurrent(d)'
    <2> DEFINE evs == EventsFor("PermissionResolved", pending)
    <2>1. /\ evs \in Seq(Event)
          /\ \A i \in 1..Len(evs) : evs[i] = PermissionEvent("PermissionResolved", evs[i].request)
          /\ \A r \in pending : \E i \in 1..Len(evs) : evs[i] = PermissionEvent("PermissionResolved", r)
      BY <1>0, EventsForRequests DEF PermissionTypes
    <2>2. NewState(s, evs)
      BY <1>4
    <2> HIDE DEF evs
    <2>3. \A r \in Requests : WillShow(d, n, r)'
             <=> \/ WillShow(d, n, r) /\ \A j \in 1..Len(evs) : ~Hides(dash[d].kind, evs[j], r)
                 \/ \E i \in 1..Len(evs) : /\ evs[i] = PermissionEvent("PermissionPending", r)
                                           /\ \A j \in 1..Len(evs) : i < j => ~Hides(dash[d].kind, evs[j], r)
      BY <1>0, <1>4, <2>1, <2>2, ToldOfRequests
    <2>4. ASSUME NEW r \in Requests, WillShow(d, n, r)' PROVE WillShow(d, n, r) /\ r \notin pending
      BY <2>1, <2>3, <2>4, HidesWhat
    <2>5. RequestsCurrent(d)
      BY <1>2, <1>4, <2>1, <2>2
    <2> QED
      BY <1>4, <2>4, <2>5 DEF RequestsCurrent
  <1>5. ASSUME UNCHANGED <<dash, vanished>>, NEW r1 \in Requests, pending' = pending \cup {r1},
               NEW s \in State, NewState(s, <<PermissionEvent("PermissionPending", r1)>>)
        PROVE  RequestsCurrent(d)'
    <2> DEFINE evs == <<PermissionEvent("PermissionPending", r1)>>
               k == dash[d].kind
    <2>1. evs \in Seq(Event) /\ Len(evs) = 1 /\ evs[1] = PermissionEvent("PermissionPending", r1)
      BY EventSorts DEF PermissionTypes
    <2>2. /\ \A r \in Requests : WillShow(d, n, r)'
               <=> \/ WillShow(d, n, r) /\ \A j \in 1..Len(evs) : ~Hides(k, evs[j], r)
                   \/ \E i \in 1..Len(evs) : /\ evs[i] = PermissionEvent("PermissionPending", r)
                                             /\ \A j \in 1..Len(evs) : i < j => ~Hides(k, evs[j], r)
          /\ WillCrowd(d) => WillCrowd(d)'
          /\ \A r \in Requests : k = "page" /\ r # r1 /\ WillShow(d, n, r) => WillCrowd(d)'
      BY <1>0, <1>5, <2>1, ToldOfRequests
    <2>3. RequestsCurrent(d)
      BY <1>2, <1>5, <2>1
    <2> HIDE DEF evs, k
    <2>4. ASSUME NEW r \in Requests
          PROVE  WillShow(d, n, r)' <=> (WillShow(d, n, r) /\ ~(r # r1 /\ k = "page")) \/ r = r1
      <3>1. \A j \in 1..1 : j = 1 /\ ~(1 < j)
        OBVIOUS
      <3>2. (\A j \in 1..1 : ~Hides(k, evs[j], r)) <=> ~(r # r1 /\ k = "page")
        BY <2>1, <3>1, HidesWhat
      <3>3. (\E i \in 1..1 : /\ evs[i] = PermissionEvent("PermissionPending", r)
                             /\ \A j \in 1..1 : i < j => ~Hides(k, evs[j], r)) <=> r = r1
        BY <2>1, <3>1, HidesWhat
      <3> QED
        BY <2>1, <2>2, <3>2, <3>3
    <2>5. \A r \in Requests : WillShow(d, n, r)' => r \in (pending \cup vanished \cup dash[d].stale)'
      BY <1>5, <2>3, <2>4 DEF RequestsCurrent
    <2>6. (\A r \in (pending \ dash[d].untold)' : WillShow(d, n, r)') \/ WillCrowd(d)'
      <3>1. CASE WillCrowd(d)
        BY <2>2, <3>1
      <3>2. CASE ~WillCrowd(d)
        <4>1. \A r \in pending \ dash[d].untold : WillShow(d, n, r)
          BY <2>3, <3>2 DEF RequestsCurrent
        <4>2. CASE k = "page" /\ \E r \in pending \ dash[d].untold : r # r1
          BY <1>0, <2>2, <4>1, <4>2
        <4>3. CASE ~(k = "page" /\ \E r \in pending \ dash[d].untold : r # r1)
          BY <1>0, <1>5, <2>4, <4>1, <4>3
        <4> QED
          BY <4>2, <4>3
      <3> QED
        BY <3>1, <3>2
    <2> QED
      BY <2>5, <2>6 DEF RequestsCurrent
  <1>6. ASSUME UNCHANGED <<dash, vanished>>, NEW r1 \in Requests, pending' = pending \ {r1},
               NEW s \in State, NewState(s, <<PermissionEvent("PermissionResolved", r1)>>)
        PROVE  RequestsCurrent(d)'
    <2> DEFINE evs == <<PermissionEvent("PermissionResolved", r1)>>
               k == dash[d].kind
    <2>1. evs \in Seq(Event) /\ Len(evs) = 1 /\ evs[1] = PermissionEvent("PermissionResolved", r1)
      BY EventSorts DEF PermissionTypes
    <2>2. /\ \A r \in Requests : WillShow(d, n, r)'
               <=> \/ WillShow(d, n, r) /\ \A j \in 1..Len(evs) : ~Hides(k, evs[j], r)
                   \/ \E i \in 1..Len(evs) : /\ evs[i] = PermissionEvent("PermissionPending", r)
                                             /\ \A j \in 1..Len(evs) : i < j => ~Hides(k, evs[j], r)
          /\ WillCrowd(d) => WillCrowd(d)'
      BY <1>0, <1>6, <2>1, ToldOfRequests
    <2>3. RequestsCurrent(d)
      BY <1>2, <1>6, <2>1
    <2> HIDE DEF evs, k
    <2>4. ASSUME NEW r \in Requests PROVE WillShow(d, n, r)' <=> WillShow(d, n, r) /\ r # r1
      <3>1. \A j \in 1..1 : j = 1
        OBVIOUS
      <3>2. (\A j \in 1..1 : ~Hides(k, evs[j], r)) <=> r # r1
        BY <2>1, <3>1, HidesWhat
      <3>3. ~\E i \in 1..1 : evs[i] = PermissionEvent("PermissionPending", r)
        BY <2>1, <3>1, HidesWhat
      <3> QED
        BY <2>1, <2>2, <3>2, <3>3
    <2> QED
      BY <1>0, <1>6, <2>2, <2>3, <2>4 DEF RequestsCurrent
  <1>7. ASSUME d \in subscribers, queue'[d] = queue[d], dash'[d] = dash[d],
               pending' \subseteq pending, vanished \cup pending \subseteq vanished' \cup pending'
        PROVE  RequestsCurrent(d)'
    <2>1. RequestsCurrent(d)
      BY <1>1, <1>7 DEF Closed
    <2>2. /\ \A r : WillShow(d, n, r)' <=> WillShow(d, n, r)
          /\ WillCrowd(d)' <=> WillCrowd(d)
      BY <1>7, Zenon DEF WillShow, WillCrowd
    <2> QED
      BY <1>0, <1>7, <2>1, <2>2 DEF RequestsCurrent
  <1>8. CASE DaemonStops
    BY <1>8 DEF DaemonStops
  <1>9. ASSUME NEW c \in Conns, DashboardShows(c) PROVE RequestsCurrent(d)'
    <2>1. UNCHANGED <<pending, vanished, subscribers>> /\ d \in Conns
      BY <1>0, <1>9 DEF DashboardShows, daemon, history
    <2>2. CASE c = d
      <3>1. ~Closed(d)
        BY <1>9, <2>2 DEF DashboardShows, Closed
      <3>2. RequestsCurrent(d)
        BY <1>1, <2>1, <3>1
      <3>3. /\ \A r \in Requests : WillShow(d, n, r) <=> WillShow(d, n, r)'
            /\ WillCrowd(d) => WillCrowd(d)'
        BY <1>0, <1>9, <2>2, ShowingKeepsRequests
      <3>4. dash'[d].stale = dash[d].stale /\ dash'[d].untold = dash[d].untold
        <4>1. dash[d] \in View /\ Head(queue[d]) \in Event /\ dash' = [dash EXCEPT ![d] = After(dash[d], Head(queue[d]))]
          BY <1>0, <1>9, <2>1, <2>2, HeadTailProperties DEF DashboardShows, TypeOK, View
        <4>2. dash'[d] = After(dash[d], Head(queue[d]))
          BY <1>0, <2>1, <4>1 DEF TypeOK
        <4> QED
          BY <4>1, <4>2, AfterAnEvent
      <3> QED
        BY <1>0, <2>1, <3>2, <3>3, <3>4 DEF RequestsCurrent
    <2>3. CASE c # d
      <3>1. queue'[d] = queue[d] /\ dash'[d] = dash[d]
        BY <1>0, <1>9, <2>1, <2>3 DEF DashboardShows, TypeOK
      <3> QED
        BY <1>7, <2>1, <3>1
    <2> QED
      BY <2>2, <2>3
  <1>10. ASSUME NEW c \in Conns, StreamEnds(c) \/ DashboardLeaves(c) \/ Reconnects(c)
         PROVE  RequestsCurrent(d)'
    <2>1. UNCHANGED <<pending, vanished, subscribers>> /\ d \in Conns
      BY <1>0, <1>10 DEF StreamEnds, DashboardLeaves, Reconnects, ClientReconnects, PageReconnects, daemon, history
    <2>2. c # d
      <3>1. CASE StreamEnds(c)
        BY <2>1, <3>1 DEF StreamEnds, SenderDropped
      <3>2. CASE DashboardLeaves(c) \/ Reconnects(c)
        <4>1. dash'[c].task # "subscribed"
          BY <1>0, <3>2 DEF DashboardLeaves, Reconnects, ClientReconnects, PageReconnects, TypeOK
        <4> QED
          BY <4>1 DEF Closed
      <3> QED
        BY <1>10, <3>1, <3>2
    <2>3. queue'[d] = queue[d] /\ dash'[d] = dash[d]
      BY <1>0, <1>10, <2>1, <2>2 DEF StreamEnds, DashboardLeaves, Reconnects, ClientReconnects, PageReconnects, TypeOK
    <2> QED
      BY <1>7, <2>1, <2>3
  <1>11. ASSUME NEW c \in Conns, HandleSubscribe(c) PROVE RequestsCurrent(d)'
    <2>1. CASE c = d
      BY <1>0, <1>11, <2>1, SubscribedToRequests
    <2>2. CASE c # d
      <3>1. d \in subscribers /\ d \in Conns /\ UNCHANGED <<pending, vanished>>
        BY <1>0, <1>11, <2>2, SubscriptionSends
      <3>2. queue'[d] = queue[d] /\ dash'[d] = dash[d]
        BY <1>0, <1>11, <2>2, <3>1, SubscriptionSends
      <3> QED
        BY <1>7, <3>1, <3>2
    <2> QED
      BY <2>1, <2>2
  <1>12. CASE /\ UNCHANGED <<queue, subscribers, dash>>
              /\ pending' \subseteq pending /\ vanished \cup pending \subseteq vanished' \cup pending'
    BY <1>7, <1>12
  <1> QED
    BY <1>0, <1>3, <1>4, <1>5, <1>6, <1>8, <1>9, <1>10, <1>11, <1>12, RequestSteps

\* Whoever subscribes shows the pending requests once it has read its channel,
\* and besides only requests that ended without a word: every request and every
\* answer is broadcast before the state (daemon.rs), and a subscription begins
\* with those that are pending. For any number of requests, dashboards and
\* reconnections, and any capacity; the exceptions are those PermissionsCurrent
\* names: what a page kept from an earlier connection (app.js), a page's first
\* request when it is asked again, and what a new subscriber's channel had no
\* room for.
THEOREM PermissionsCurrentHolds == Spec => []PermissionsCurrent
  <1>1. Init => PermissionsInv
    <2> SUFFICES ASSUME Init PROVE PermissionsInv
      OBVIOUS
    <2>1. TypeOK
      BY InitType
    <2>2. PermissionsCurrent
      BY DEF Init, PermissionsCurrent
    <2> QED
      BY <2>1, <2>2 DEF PermissionsInv
  <1>2. PermissionsInv => PermissionsCurrent
    BY DEF PermissionsInv
  <1> QED
    BY <1>1, <1>2, PermissionsStep, PTL DEF Spec

==============================================================================
