------------------------------ MODULE Dashboards -----------------------------
(***************************************************************************)
(* What dashboards show of one wrapped session: whether it exists, the     *)
(* suggestion on its screen, whether it waits for a permission, and the    *)
(* requests themselves.                                                    *)
(*                                                                         *)
(* The suggestion comes from the wrapper (reader thread, screen update     *)
(* sender), requests and hook events from the agent's hooks, answers from  *)
(* the dashboards. The daemon broadcasts every change with try_send to all *)
(* subscribers (daemon.rs). A dashboard is a connection of daemon.sock     *)
(* that subscribed (client_listener.rs), among them the relay bridge       *)
(* (relay_connector.rs) on behalf of a phone, or a web page (web.rs,       *)
(* app.js). The thinking text takes the way of the suggestion.             *)
(*                                                                         *)
(* The main loop handles requests one by one in the order they arrive: a   *)
(* request is made, here, when it is handled.                              *)
(***************************************************************************)
EXTENDS Naturals, Sequences, FiniteSets, SequencesExt

CONSTANTS
    Conns,        \* connections of dashboards
    Requests,     \* permission requests of the session, each asked once
    Suggestions,
    None,
    QueueCap,     \* capacity of a dashboard's channel (64, 256 for a page)
    ScreenCap,    \* capacity of the channel of screen updates (4)
    MaxOutputs,   \* bound: rounds of the reader thread
    MaxHooks,     \* bound: hook events of the session
    MaxStops      \* bound: daemon stops

\* A client of daemon.sock, such as the relay bridge, or a web page.
Kinds == {"client", "page"}
Shown == Suggestions \cup {None}

ASSUME DashboardTypes ==
    /\ None \notin Suggestions \cup Requests /\ IsFiniteSet(Requests)
    /\ {QueueCap, ScreenCap} \subseteq Nat \ {0} /\ {MaxOutputs, MaxHooks, MaxStops} \subseteq Nat

VARIABLES
    \* the wrapper
    running,
    screen,         \* the suggestion on the agent's screen
    last_update,    \* the suggestion the reader thread detected last
    screen_rx,      \* suggestions for the screen update sender
    screen_sender,  \* its connection, and what it sent last
    listener,       \* the connection on which the wrapper registered
    \* the daemon
    up,
    state,          \* what a state update shows of the session
    pending,        \* pending_permissions
    subscribers,    \* connections whose sender the daemon holds
    \* the dashboards
    queue,          \* connection -> events in its channel
    dash,           \* connection -> its kind, its task, what is shown, and what its
                    \* last subscription left wrong (see PermissionsCurrent)
    unread,         \* requests the phone answered: written to a bridge's connection
    \* history
    asked,          \* requests that were made
    vanished,       \* requests that ended without a PermissionResolved
    overlooked,     \* why the daemon may miss a suggestion: the last one found its
                    \* channel full, or its session unknown to the daemon
    used            \* how often each bounded step was taken

vars == <<running, screen, last_update, screen_rx, screen_sender, listener, up,
          state, pending, subscribers, queue, dash, unread, asked, vanished, overlooked, used>>
wrapper == <<running, screen, last_update, screen_rx, screen_sender, listener>>
daemon == <<up, state, pending, subscribers>>
dashboards == <<queue, dash, unread>>
history == <<asked, vanished, overlooked, used>>

Bounds == [outputs |-> MaxOutputs, hooks |-> MaxHooks, stops |-> MaxStops]
Uses(kind) == used[kind] < Bounds[kind] /\ used' = [used EXCEPT ![kind] = @ + 1]

Overlooks(why, yes) == overlooked' = IF yes THEN overlooked \cup {why} ELSE overlooked \ {why}

State == [session : BOOLEAN, suggestion : Shown, needs_input : BOOLEAN]
NoState == [session |-> FALSE, suggestion |-> None, needs_input |-> FALSE]

Event == [type : {"StateUpdate"}, state : State]
         \cup [type : {"PermissionPending", "PermissionResolved"}, request : Requests]

Connection == {"connecting", "connected", "closed", "ended"}

TypeOK ==
    /\ running \in BOOLEAN /\ up \in BOOLEAN /\ overlooked \in SUBSET {"full", "unknown"}
    /\ screen \in Shown /\ last_update \in Shown
    /\ screen_rx \in Seq(Shown) /\ Len(screen_rx) <= ScreenCap
    /\ screen_sender \in [conn : Connection, last : Shown] /\ listener \in Connection
    /\ state \in State /\ pending \in SUBSET Requests
    /\ subscribers \in SUBSET Conns
    /\ queue \in [Conns -> Seq(Event)] /\ \A d \in Conns : Len(queue[d]) <= QueueCap
    /\ dash \in [Conns -> [kind : Kinds, task : {"new", "subscribed", "ended"}, state : State,
                                permissions : SUBSET Requests, crowded : BOOLEAN,
                                stale : SUBSET Requests, untold : SUBSET Requests]]
    /\ unread \in SUBSET Requests
    /\ asked \in SUBSET Requests /\ vanished \in SUBSET Requests
    /\ used \in [DOMAIN Bounds -> Nat] /\ \A b \in DOMAIN Bounds : used[b] <= Bounds[b]

\* The wrapper is connected and has not registered yet.
Init ==
    /\ running = TRUE /\ screen = None /\ last_update = None /\ screen_rx = <<>>
    /\ screen_sender = [conn |-> "connecting", last |-> None] /\ listener = "connecting"
    /\ up = TRUE
    /\ state = NoState /\ pending = {} /\ subscribers = {}
    /\ queue = [d \in Conns |-> <<>>]
    /\ dash \in {[d \in Conns |-> [kind |-> kind[d], task |-> "new", state |-> NoState,
                                   permissions |-> {}, crowded |-> FALSE, stale |-> {},
                                   untold |-> {}]] : kind \in [Conns -> Kinds]}
    /\ unread = {}
    /\ asked = {} /\ vanished = {} /\ overlooked = {}
    /\ used = [b \in DOMAIN Bounds |-> 0]

------------------------------------------------------------------------------
(* The daemon                                                              *)

\* The receiver of the sender that the daemon holds is gone, though a new
\* connection may be on its way to subscribe.
Closed(d) == dash[d].task # "subscribed"

Room(d) == QueueCap - Len(queue[d])

\* Mutant: a failed try_send to a full channel is ignored, as in Subscribe.
Broadcast_KeepsFull(events) ==
    /\ queue' = [d \in Conns |->
           IF d \notin subscribers \/ Closed(d) THEN queue[d]
           ELSE queue[d] \o SubSeq(events, 1, IF Len(events) < Room(d) THEN Len(events) ELSE Room(d))]
    /\ subscribers' = {d \in subscribers : ~Closed(d)}

\* broadcast_to_subscribers, once per event: a subscriber that is closed or
\* has no room is dropped, and gets none of the events that follow.
Broadcast(events) ==
    /\ queue' = [d \in Conns |->
           IF d \notin subscribers \/ Closed(d) THEN queue[d]
           ELSE queue[d] \o SubSeq(events, 1, IF Len(events) < Room(d) THEN Len(events) ELSE Room(d))]
    /\ subscribers' = {d \in subscribers : ~Closed(d) /\ Len(events) <= Room(d)}

StateUpdate(s) == [type |-> "StateUpdate", state |-> s]
PermissionEvent(type, r) == [type |-> type, request |-> r]

\* One event for each of the requests.
EventsFor(type, requests) ==
    LET order == SetToSeq(requests)
    IN  [i \in DOMAIN order |-> PermissionEvent(type, order[i])]

\* broadcast_state, last in every handler that changes the state.
NewState(s, events) == state' = s /\ Broadcast(Append(events, StateUpdate(s)))

\* The current state and the pending requests, in no particular order and as
\* far as the channel has room: the results of try_send are ignored. Then the
\* subscription, whether all of it was sent or not.
HandleSubscribe(d) ==
    /\ up /\ dash[d].task = "new"
    /\ \E told \in SUBSET pending :
          /\ Cardinality(told) < QueueCap /\ (told # pending => Cardinality(told) = QueueCap - 1)
          /\ queue' = [queue EXCEPT ![d] = <<StateUpdate(state)>> \o EventsFor("PermissionPending", told)]
          /\ dash' = [dash EXCEPT ![d].task = "subscribed", ![d].crowded = FALSE,
                                  ![d].stale = dash[d].permissions \ pending, ![d].untold = pending \ told]
    /\ subscribers' = subscribers \cup {d}
    /\ UNCHANGED <<wrapper, up, state, pending, unread, history>>

\* Mutant: the requests end without a word.
HandleHookEvent_NoResolved ==
    /\ up /\ running /\ Uses("hooks")
    /\ pending' = {}
    /\ NewState([state EXCEPT !.needs_input = FALSE], <<>>)
    /\ UNCHANGED <<wrapper, up, dash, unread, asked, vanished, overlooked>>

\* A hook event of the session: the agent has moved past its requests.
HandleHookEvent ==
    /\ up /\ running /\ Uses("hooks")
    /\ pending' = {}
    /\ NewState([state EXCEPT !.needs_input = FALSE], EventsFor("PermissionResolved", pending))
    /\ UNCHANGED <<wrapper, up, dash, unread, asked, vanished, overlooked>>

\* A permission hook of the session asks.
HandlePermissionRequest(r) ==
    /\ up /\ running /\ r \notin asked
    /\ asked' = asked \cup {r}
    /\ pending' = pending \cup {r}
    /\ NewState([state EXCEPT !.needs_input = TRUE], <<PermissionEvent("PermissionPending", r)>>)
    /\ UNCHANGED <<wrapper, up, dash, unread, vanished, overlooked, used>>

\* Somebody answers a request, maybe one that is not pending any more: that
\* answer is ignored.
HandlePermissionResponse(r) ==
    /\ up /\ r \in pending
    /\ pending' = pending \ {r}
    /\ NewState([state EXCEPT !.needs_input = pending \ {r} # {}], <<PermissionEvent("PermissionResolved", r)>>)
    /\ UNCHANGED <<wrapper, up, dash, unread, history>>

\* The daemon listener registers with the first daemon, and again when it
\* finds that one gone.
HandleRegisterWrapper ==
    /\ up /\ running /\ listener \in {"connecting", "closed"}
    /\ listener' = "connected"
    /\ NewState([state EXCEPT !.session = TRUE], <<>>)
    /\ UNCHANGED <<running, screen, last_update, screen_rx, screen_sender, up, pending, dash,
                   unread, history>>

\* The wrapper exits. remove_wrapper drops the session and its requests; only
\* the state is broadcast. Without a daemon there is nobody to tell.
HandleUnregisterWrapper ==
    /\ running /\ running' = FALSE
    /\ pending' = {} /\ vanished' = vanished \cup pending
    /\ IF up THEN NewState(NoState, <<>>) ELSE UNCHANGED <<state, queue, subscribers>>
    /\ UNCHANGED <<screen, last_update, screen_rx, screen_sender, listener, up, dash, unread,
                   asked, overlooked, used>>

\* An update for a session that is not registered is ignored.
HandleUpdateSuggestion(s) ==
    /\ IF state.session /\ state.suggestion # s
         THEN NewState([state EXCEPT !.suggestion = s], <<>>)
         ELSE UNCHANGED <<state, queue, subscribers>>
    /\ Overlooks("unknown", ~state.session)

\* The daemon stops: connections and channels end with it.
DaemonStops ==
    /\ up /\ Uses("stops")
    /\ up' = FALSE
    /\ state' = NoState /\ pending' = {} /\ subscribers' = {}
    /\ vanished' = vanished \cup pending
    /\ queue' = [d \in Conns |-> <<>>]
    /\ dash' = [d \in Conns |->
           [dash[d] EXCEPT !.task = IF @ = "subscribed" THEN "ended" ELSE @]]
    /\ LET Close(conn) == IF conn = "connected" THEN "closed" ELSE conn
       IN  /\ screen_sender' = [screen_sender EXCEPT !.conn = Close(@)]
           /\ listener' = Close(listener)
    /\ UNCHANGED <<running, screen, last_update, screen_rx, unread, asked, overlooked>>

DaemonStarts ==
    /\ ~up /\ up' = TRUE
    /\ UNCHANGED <<wrapper, state, pending, subscribers, dashboards, history>>

------------------------------------------------------------------------------
(* The wrapper                                                             *)

\* Mutant: what is not looked at for 100 ms is remembered all the same.
ReadPty_RemembersEarly(s, due) ==
    LET changed == due /\ s # last_update
        room == Len(screen_rx) < ScreenCap
    IN  /\ running /\ Uses("outputs")
        /\ screen' = s
        /\ last_update' = s
        /\ screen_rx' = IF changed /\ room THEN Append(screen_rx, s) ELSE screen_rx
        /\ IF changed THEN Overlooks("full", ~room) ELSE UNCHANGED overlooked
        /\ UNCHANGED <<running, screen_sender, listener, daemon, dashboards, asked, vanished>>

\* One round of the reader thread leaves suggestion `s` on the screen. If
\* 100 ms have passed since the last look (`due`) and it differs from the one
\* detected last, it is sent on if there is room.
ReadPty(s, due) ==
    LET changed == due /\ s # last_update
        room == Len(screen_rx) < ScreenCap
    IN  /\ running /\ Uses("outputs")
        /\ screen' = s
        /\ last_update' = IF changed THEN s ELSE last_update
        /\ screen_rx' = IF changed /\ room THEN Append(screen_rx, s) ELSE screen_rx
        /\ IF changed THEN Overlooks("full", ~room) ELSE UNCHANGED overlooked
        /\ UNCHANGED <<running, screen_sender, listener, daemon, dashboards,
                       asked, vanished>>

\* The screen update sender tries once to connect, and never again.
ScreenConnects ==
    /\ screen_sender.conn = "connecting"
    /\ screen_sender' = [screen_sender EXCEPT !.conn = IF up THEN "connected" ELSE "ended"]
    /\ UNCHANGED <<running, screen, last_update, screen_rx, listener, daemon,
                   dashboards, history>>

ScreenSends ==
    LET s == Head(screen_rx)
    IN  /\ screen_sender.conn \in {"connected", "closed"} /\ running
        /\ screen_rx # <<>> /\ screen_rx' = Tail(screen_rx)
        /\ screen_sender' = IF s = screen_sender.last \/ screen_sender.conn = "connected"
                            THEN [screen_sender EXCEPT !.last = s]
                            ELSE [conn |-> "ended", last |-> s]
        /\ IF s # screen_sender.last /\ screen_sender.conn = "connected"
             THEN HandleUpdateSuggestion(s)
             ELSE UNCHANGED <<state, queue, subscribers, overlooked>>
        /\ UNCHANGED <<running, screen, last_update, listener, up, pending, dash, unread, asked,
                       vanished, used>>

------------------------------------------------------------------------------
(* Dashboards                                                              *)

\* What a dashboard shows after an event. A page keeps one request per
\* session: a second one takes the place of the first.
After(view, event) ==
    CASE event.type = "StateUpdate" -> [view EXCEPT !.state = event.state]
      [] event.type = "PermissionResolved" -> [view EXCEPT !.permissions = @ \ {event.request}]
      [] event.type = "PermissionPending" ->
           [view EXCEPT !.permissions = {event.request} \cup IF view.kind = "page" THEN {} ELSE @,
                        !.crowded = @ \/ (view.kind = "page" /\ view.permissions \ {event.request} # {})]

DashboardShows(d) ==
    /\ dash[d].task = "subscribed" /\ queue[d] # <<>>
    /\ queue' = [queue EXCEPT ![d] = Tail(@)]
    /\ dash' = [dash EXCEPT ![d] = After(@, Head(queue[d]))]
    /\ UNCHANGED <<wrapper, daemon, unread, history>>

SenderDropped(d) == d \notin subscribers

\* The stream of a client ends when the daemon drops its sender. That of a page
\* goes on: handle_ws has a sender of its own, the page merely hears nothing.
StreamEnds(d) ==
    /\ dash[d].task = "subscribed" /\ up
    /\ queue[d] = <<>> /\ SenderDropped(d) /\ dash[d].kind # "page"
    /\ dash' = [dash EXCEPT ![d].task = "ended"]
    /\ UNCHANGED <<wrapper, daemon, queue, unread, history>>

\* The connection ends, from either side, whatever the daemon does.
DashboardLeaves(d) ==
    /\ dash[d].task = "subscribed"
    /\ dash' = [dash EXCEPT ![d].task = "ended"]
    /\ queue' = [queue EXCEPT ![d] = <<>>]
    /\ UNCHANGED <<wrapper, daemon, unread, history>>

\* A client starts over after its connection has ended: it shows no request
\* and subscribes anew.
ClientReconnects(d) ==
    /\ dash[d].kind = "client" /\ dash[d].task = "ended" /\ up
    /\ dash' = [dash EXCEPT ![d].task = "new", ![d].permissions = {}]
    /\ UNCHANGED <<wrapper, daemon, queue, unread, history>>

\* A page connects again 2 s after its WebSocket was closed, and forgets
\* nothing of what it shows.
PageReconnects(d) ==
    /\ dash[d].kind = "page" /\ dash[d].task = "ended" /\ up
    /\ dash' = [dash EXCEPT ![d].task = "new"]
    /\ UNCHANGED <<wrapper, daemon, queue, unread, history>>

\* The phone's answer arrives through the relay, and the bridge writes it to
\* its connection to the daemon, whose task streams and does not read. (Other
\* clients answer on a connection of their own.)
PhoneAnswers(d, r) ==
    /\ dash[d].kind = "client" /\ dash[d].task = "subscribed" /\ up
    /\ r \in dash[d].permissions \ unread
    /\ unread' = unread \cup {r}
    /\ UNCHANGED <<wrapper, daemon, queue, dash, history>>

------------------------------------------------------------------------------

Next ==
    \/ HandleHookEvent \/ HandleRegisterWrapper \/ HandleUnregisterWrapper
    \/ DaemonStops \/ DaemonStarts
    \/ \E s \in Shown, due \in BOOLEAN : ReadPty(s, due)
    \/ ScreenConnects \/ ScreenSends
    \/ \E r \in Requests : HandlePermissionRequest(r) \/ HandlePermissionResponse(r)
                           \/ (\E d \in Conns : PhoneAnswers(d, r))
    \/ \E d \in Conns : DashboardShows(d) \/ StreamEnds(d) \/ DashboardLeaves(d)
                        \/ ClientReconnects(d) \/ PageReconnects(d) \/ HandleSubscribe(d)

Spec == Init /\ [][Next]_vars

\* The daemon's tasks and the wrapper's threads run. Nobody has to start a
\* daemon, to ask or to answer.
FairSpec ==
    /\ Spec
    /\ WF_vars(ScreenConnects) /\ WF_vars(ScreenSends) /\ WF_vars(HandleRegisterWrapper)
    /\ \A d \in Conns : WF_vars(DashboardShows(d)) /\ WF_vars(StreamEnds(d))

------------------------------------------------------------------------------
(* Properties                                                              *)

\* The dashboard shows state `s` once it has read its channel: the last update
\* in it says so, or what is shown now if there is none.
WillShowState(d, s) ==
    LET Updates(i) == queue[d][i].type = "StateUpdate"
    IN  \/ dash[d].state = s /\ \A i \in DOMAIN queue[d] : ~Updates(i)
        \/ \E i \in DOMAIN queue[d] :
              queue[d][i] = StateUpdate(s) /\ \A j \in DOMAIN queue[d] : j > i => ~Updates(j)

\* An event takes a request off a dashboard that shows it.
Hides(kind, event, r) ==
    \/ event = PermissionEvent("PermissionResolved", r)
    \/ event.type = "PermissionPending" /\ event.request # r /\ kind = "page"

\* The dashboard shows the request once it has read `n` events.
WillShow(d, n, r) ==
    LET Kept(m) == \A j \in DOMAIN queue[d] : m < j /\ j <= n => ~Hides(dash[d].kind, queue[d][j], r)
    IN  \/ r \in dash[d].permissions /\ Kept(0)
        \/ \E i \in DOMAIN queue[d] :
              i <= n /\ queue[d][i] = PermissionEvent("PermissionPending", r) /\ Kept(i)

\* A page has been asked a second time, or will find so in its channel.
WillCrowd(d) ==
    \/ dash[d].crowded
    \/ \E i \in DOMAIN queue[d], r \in Requests :
          /\ dash[d].kind = "page" /\ queue[d][i].type = "PermissionPending"
          /\ queue[d][i].request # r /\ WillShow(d, i - 1, r)

\* A subscriber that reads what is in its channel shows the daemon's state:
\* no handler changes it without telling every subscriber, and a subscriber
\* that misses an update is one no longer (broadcast_to_subscribers).
SubscriberCurrent == \A d \in subscribers : Closed(d) \/ WillShowState(d, state)

\* ... and it shows the requests that are pending, and besides only those
\* that ended with their session, for which no PermissionResolved is sent.
\* Three exceptions: a page that connected again still shows the requests that
\* ended while it was away (app.js never clears pendingPermissions); one that was
\* asked a second time since it subscribed has lost the first request; and a
\* new subscriber never hears of the requests its channel had no room for.
PermissionsCurrent ==
    \A d \in subscribers :
        \/ Closed(d)
        \/ /\ \A r \in Requests : WillShow(d, Len(queue[d]), r) => r \in pending \cup vanished \cup dash[d].stale
           /\ \/ \A r \in pending \ dash[d].untold : WillShow(d, Len(queue[d]), r)
              \/ WillCrowd(d)

\* "Appears when selected session has a pending permission request"
\* (docs/plans/2026-02-25-web-interface-design.md, of the page's banner): when
\* there is nothing more to read, a page shows no request of a session in its
\* list that is not pending.
BannerMeansPending ==
    \A d \in subscribers :
        dash[d].kind = "page" /\ ~Closed(d) /\ queue[d] = <<>> /\ dash[d].state.session
            => dash[d].permissions \subseteq pending

\* When no update is under way, the daemon has the suggestion that is on the
\* screen, unless the output that changed it came within 100 ms of the last
\* look and nothing followed, or the last update found its channel full, or
\* the last one sent found its session not registered yet (the sender does not
\* send the same suggestion again), or the sender thread has lost its daemon.
SuggestionCurrent ==
    (/\ state.session /\ screen_sender.conn = "connected" /\ screen_rx = <<>>
     /\ screen = last_update /\ overlooked = {})
        => state.suggestion = screen

\* "Phone commands arrive encrypted from the relay and are decrypted and
\* forwarded to the daemon" (docs/relay.md): a request the phone answered
\* does not stay pending.
PhoneAnswerCounts ==
    \A r \in Requests : (r \in unread) ~> (r \notin pending \/ ~up)
=============================================================================
