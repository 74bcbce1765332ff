----------------------------- MODULE SessionWatch ----------------------------
(***************************************************************************)
(* Streaming a conversation to its viewers: the file watcher (watcher.rs), *)
(* the arms of the daemon's main loop for GetMessages, WatchSession,       *)
(* UnwatchSession and FileChanged (daemon.rs), and the two kinds of        *)
(* viewer, one connection each: a client of daemon.sock, whose task        *)
(* streams until it ends (client_listener.rs), and a web page, whose task  *)
(* serves one request after the other (web.rs).                            *)
(*                                                                         *)
(* Notifications that wait for the same reader are one: a second read of   *)
(* the same bytes finds nothing new.                                       *)
(***************************************************************************)
EXTENDS Transcript, FiniteSets

CONSTANTS
    Sessions, Paths,
    PathOf,       \* the transcript of a session; a wrapper shares its child's
    Sockets,      \* connections to daemon.sock that watch a session
    Pages,        \* web pages
    FormatOf,     \* the format a viewer asks for
    QueueCap,     \* capacity of a viewer's channel (64, 256 for a page)
    Limit,        \* get_messages: messages asked for
    Torn,         \* may a write be seen when only half a line is on disk
    MaxRemovals,  \* bound: sessions removed
    Grows,        \* may the agent write between two file operations of a handler
    None

Viewers == Sockets \cup Pages

ASSUME ViewerTypes == /\ PathOf \in [Sessions -> Paths]
                      /\ Sockets \cap Pages = {}
                      /\ DOMAIN FormatOf = Viewers
                      /\ QueueCap \in Nat \ {0} /\ Limit \in Nat \ {0} /\ MaxRemovals \in Nat
                      /\ Torn \in BOOLEAN /\ Grows \in BOOLEAN
                      /\ None \notin Sessions /\ None \notin Nat

VARIABLES
    disk,                 \* path -> units the agent has written
    sessions,             \* session -> known to the daemon, path and offset kept for it
    message_subscribers,  \* session -> viewers whose sender the daemon holds
    session_to_path,      \* sessions the watcher has a path for
    path_to_session,      \* path -> session, None when the OS watch is not set
    raw,                  \* paths with a notification the bridge task has not read
    watch_rx,             \* sessions with a FileChanged event for the main loop
    client_rx,            \* requests for the main loop: FIFO
    viewer,               \* viewer -> its task and what it shows
    queue,                \* viewer -> events in its channel
    \* history
    removals,             \* how often a session was removed
    stream                \* viewer -> what the daemon put in its channel since it watches

vars == <<disk, sessions, message_subscribers, session_to_path, path_to_session,
          raw, watch_rx, client_rx, viewer, queue, removals, stream>>
watcher == <<session_to_path, path_to_session>>
daemon == <<sessions, message_subscribers, watcher, removals>>

SessionState == [known : BOOLEAN, jsonl_path : BOOLEAN, watch_offset : Lengths \cup {None}]

\* An event in a channel: one message, or the answer to get_messages.
Event == [type : {"message", "messages"}, session : Sessions]

Viewer == [task : {"new", "watching", "hungup", "ended", "idle", "unwatched", "fetching",
                   "fetched", "closed"},
           session : Sessions \cup {None},   \* the session asked for or selected
           watched : Sessions \cup {None},   \* the session a page's task has to unwatch
           ended : BOOLEAN,                  \* the page was told once that its session ended
           shows : SUBSET Sessions]          \* whose messages the viewer displays

ClientMessage == [type : {"GetMessages", "WatchSession", "UnwatchSession"},
                  viewer : Viewers, session : Sessions]

\* Positions inside a line.
Insides == {n \in Lengths : n % 2 = 1}

Stream == [sent : Seq(Lines), from : Lengths, cuts : SUBSET Insides,
           history : Lengths,    \* how far the answer to get_messages went
           gap : BOOLEAN,        \* a message is neither in it nor after the offset
           lost : BOOLEAN,       \* a message found the channel full
           again : BOOLEAN,      \* a file change sent messages, and its last read failed
           shared : BOOLEAN,     \* another viewer watched the session meanwhile
           forgotten : BOOLEAN]  \* a file change found no offset kept

TypeOK ==
    /\ disk \in [Paths -> Lengths]
    /\ sessions \in [Sessions -> SessionState]
    /\ message_subscribers \in [Sessions -> SUBSET Viewers]
    /\ session_to_path \in SUBSET Sessions
    /\ path_to_session \in [Paths -> Sessions \cup {None}]
    /\ raw \in SUBSET Paths
    /\ watch_rx \in SUBSET Sessions
    /\ client_rx \in Seq(ClientMessage)
    /\ viewer \in [Viewers -> Viewer]
    /\ queue \in [Viewers -> Seq(Event)]
    /\ \A v \in Viewers : Len(queue[v]) <= QueueCap
    /\ stream \in [Viewers -> Stream] /\ removals \in 0..MaxRemovals

Unknown == [known |-> FALSE, jsonl_path |-> FALSE, watch_offset |-> None]
NoStream == [sent |-> <<>>, from |-> 0, cuts |-> {}, history |-> 0, gap |-> FALSE,
             lost |-> FALSE, again |-> FALSE, shared |-> FALSE, forgotten |-> FALSE]

Init ==
    /\ disk = [p \in Paths |-> 0]
    /\ sessions = [s \in Sessions |-> Unknown]
    /\ message_subscribers = [s \in Sessions |-> {}]
    /\ session_to_path = {}
    /\ path_to_session = [p \in Paths |-> None]
    /\ raw = {} /\ watch_rx = {} /\ client_rx = <<>>
    /\ viewer = [v \in Viewers |-> [task |-> IF v \in Pages THEN "idle" ELSE "new",
                                    session |-> None, watched |-> None,
                                    ended |-> FALSE, shows |-> {}]]
    /\ queue = [v \in Viewers |-> <<>>]
    /\ stream = [v \in Viewers |-> NoStream] /\ removals = 0

------------------------------------------------------------------------------
(* The agent and the operating system                                      *)

\* Lengths a file may have after one more write.
Longer(n) == {m \in Lengths : n < m /\ (Torn \/ m % 2 = 0)}

\* Lengths it may have by the time of the handler's next file operation.
Meanwhile(n) == {n} \cup IF Grows THEN Longer(n) ELSE {}

\* What the writes up to `len` leave for the bridge: a notification if the
\* file is being watched.
Notified(p, len) ==
    IF len > disk[p] /\ path_to_session[p] # None THEN raw \cup {p} ELSE raw

\* The agent appends one line, or the next half of one.
AgentWrites(p) ==
    /\ \E len \in Longer(disk[p]) :
          /\ len <= disk[p] + 2
          /\ disk' = [disk EXCEPT ![p] = len]
          /\ raw' = Notified(p, len)
    /\ UNCHANGED <<daemon, watch_rx, client_rx,
                   viewer, queue, stream>>

\* The bridge task of SessionWatcher::new: the session is looked up when the
\* notification is read, not when it was raised.
Bridge(p) ==
    /\ p \in raw
    /\ raw' = raw \ {p}
    /\ watch_rx' = IF path_to_session[p] = None THEN watch_rx
                   ELSE watch_rx \cup {path_to_session[p]}
    /\ UNCHANGED <<disk, daemon, client_rx, viewer,
                   queue, stream>>

------------------------------------------------------------------------------
(* Sessions come and go                                                    *)

\* A hook event creates the session it names if needed. If its path is not
\* known yet and the file is found on disk, the path is set for it and for
\* its wrapper.
HookEvent(s) ==
    /\ \E found \in {FALSE, ~sessions[s].jsonl_path} :
       LET Learns(t) == found /\ (t = s \/ (sessions[t].known /\ PathOf[t] = PathOf[s]))
       IN  sessions' = [t \in Sessions |->
               [sessions[t] EXCEPT !.known = @ \/ t = s, !.jsonl_path = @ \/ Learns(t)]]
    /\ UNCHANGED <<disk, message_subscribers, watcher, removals, raw, watch_rx, client_rx,
                   viewer, queue, stream>>

\* SessionEnd and UnregisterWrapper remove the session, its path and its
\* offset; its viewers and its file watch stay.
RemoveSession(s) ==
    /\ sessions[s].known
    /\ removals < MaxRemovals
    /\ removals' = removals + 1
    /\ sessions' = [sessions EXCEPT ![s] = Unknown]
    /\ UNCHANGED <<disk, message_subscribers, watcher, raw, watch_rx, client_rx,
                   viewer, queue, stream>>

------------------------------------------------------------------------------
(* SessionWatcher                                                          *)

\* unwatch: the OS watch of the path goes, whoever else uses it.
Unwatched(s, by_path) ==
    IF s \in session_to_path THEN [by_path EXCEPT ![PathOf[s]] = None] ELSE by_path

unwatch(s) ==
    /\ session_to_path' = session_to_path \ {s}
    /\ path_to_session' = Unwatched(s, path_to_session)

watch(s) ==
    /\ session_to_path' = session_to_path \cup {s}
    /\ path_to_session' = [Unwatched(s, path_to_session) EXCEPT ![PathOf[s]] = s]

------------------------------------------------------------------------------
(* The daemon's main loop                                                  *)

Receive(type) == /\ client_rx # <<>>
                 /\ Head(client_rx).type = type
                 /\ client_rx' = Tail(client_rx)

HandleGetMessages ==
    /\ Receive("GetMessages")
    /\ LET v == Head(client_rx).viewer
           s == Head(client_rx).session
       IN  /\ viewer' = [viewer EXCEPT ![v].task = "fetched"]
           /\ stream' = [stream EXCEPT ![v].history =
                  IF read_messages(disk[PathOf[s]], Limit) = <<>> THEN 0 ELSE disk[PathOf[s]]]
    /\ UNCHANGED <<disk, daemon, raw, watch_rx, queue>>

\* The length is read before the file watch is set: what the agent writes in
\* between raises no notification.
HandleWatchSession ==
    /\ Receive("WatchSession")
    /\ LET v == Head(client_rx).viewer
           s == Head(client_rx).session
           p == PathOf[s]
           others == message_subscribers[s] \ {v}
       IN  /\ IF sessions[s].jsonl_path
                THEN /\ sessions' = [sessions EXCEPT ![s].watch_offset = disk[p]]
                     /\ watch(s)
                     /\ \E len \in Meanwhile(disk[p]) : disk' = [disk EXCEPT ![p] = len]
                ELSE UNCHANGED <<disk, sessions, watcher>>
           /\ message_subscribers' = [message_subscribers EXCEPT ![s] = @ \cup {v}]
           /\ stream' = [w \in Viewers |->
                  IF w = v THEN [NoStream EXCEPT !.from = disk[p], !.shared = others # {},
                                     !.gap = parse_lines(stream[v].history, disk[p]) # <<>>]
                  ELSE [stream[w] EXCEPT !.shared = @ \/ w \in others]]
    /\ UNCHANGED <<removals, raw, watch_rx, viewer, queue>>

\* Mutant: the subscribers are kept, only the file watch goes.
HandleUnwatchSession_KeepsSubscribers ==
    /\ Receive("UnwatchSession")
    /\ LET s == Head(client_rx).session
       IN  /\ unwatch(s)
           /\ sessions' = [sessions EXCEPT ![s].watch_offset = None]
    /\ UNCHANGED <<disk, message_subscribers, removals, raw, watch_rx, viewer, queue, stream>>

\* Whoever asks, all subscribers of the session are dropped.
HandleUnwatchSession ==
    /\ Receive("UnwatchSession")
    /\ LET s == Head(client_rx).session
       IN  /\ message_subscribers' = [message_subscribers EXCEPT ![s] = {}]
           /\ unwatch(s)
           /\ sessions' = [sessions EXCEPT ![s].watch_offset = None]
    /\ UNCHANGED <<disk, removals, raw, watch_rx, viewer, queue, stream>>

\* The viewer's receiver is gone.
Closed(v) == viewer[v].task \in {"ended", "closed"}

\* try_send of each message in turn: what does not fit is lost.
Pushed(v, s, messages) ==
    LET all == queue[v] \o [i \in DOMAIN messages |-> [type |-> "message", session |-> s]]
    IN  IF Closed(v) THEN queue[v] ELSE SubSeq(all, 1, IF Len(all) < QueueCap THEN Len(all) ELSE QueueCap)

\* The file operations of one handler, one read per format in some order:
\* the length a read got and where it stopped, the file growing meanwhile.
Reads(n, formats) ==
    {r \in [formats -> [len : Meanwhile(n), stop : Meanwhile(n)]] :
        /\ \A f \in formats : r[f].len <= r[f].stop
        /\ \A f, g \in formats : f = g \/ r[f].stop <= r[g].len \/ r[g].stop <= r[f].len}

\* A file change: all formats read from the same offset, and the offset of
\* the last read is kept, if the session still exists. Then every subscriber
\* that has gone is dropped.
FileChanged(s) ==
    LET p == PathOf[s]
        subs == message_subscribers[s]
        formats == {FormatOf[v] : v \in subs}
        offset == IF sessions[s].watch_offset = None THEN 0 ELSE sessions[s].watch_offset
    IN  /\ s \in watch_rx
        /\ watch_rx' = watch_rx \ {s}
        /\ IF subs = {} THEN UNCHANGED <<disk, raw, sessions, queue, stream>>
           ELSE \E r \in Reads(disk[p], formats), last \in formats :
             LET Read(f) == read_new_messages(offset, r[f].len, r[f].stop)
                 Gets(v) == IF v \in subs THEN Read(FormatOf[v]).messages ELSE <<>>
                 Fits(v) == Len(Pushed(v, s, Gets(v))) - Len(queue[v])
             IN  /\ \A f \in formats \ {last} : r[f].stop <= r[last].len
                 /\ disk' = [disk EXCEPT ![p] = r[last].stop]
                 /\ raw' = Notified(p, r[last].stop)
                 /\ sessions' = IF ~sessions[s].known THEN sessions
                                ELSE [sessions EXCEPT ![s].watch_offset = Read(last).offset]
                 /\ queue' = [v \in Viewers |-> Pushed(v, s, Gets(v))]
                 /\ stream' = [v \in Viewers |->
                        IF v \notin subs \/ Closed(v) \/ stream[v].forgotten THEN stream[v]
                        ELSE IF sessions[s].watch_offset = None
                          THEN [NoStream EXCEPT !.forgotten = TRUE]
                        ELSE [stream[v] EXCEPT
                                 !.sent = @ \o SubSeq(Gets(v), 1, Fits(v)),
                                 !.lost = @ \/ Fits(v) < Len(Gets(v)),
                                 !.again = @ \/ (Gets(v) # <<>> /\ ~Readable(offset, r[last].stop)),
                                 !.cuts = @ \cup ({Read(last).offset} \cap Insides)]]
        /\ message_subscribers' = [t \in Sessions |->
               {v \in message_subscribers[t] : ~Closed(v)}]
        /\ UNCHANGED <<watcher, removals, client_rx, viewer>>

------------------------------------------------------------------------------
(* Viewers                                                                 *)

Send(type, v, s) == client_rx' = Append(client_rx, [type |-> type, viewer |-> v, session |-> s])

\* What a page's task sends to drop the session it has to unwatch, if any.
Unwatches(v) ==
    IF viewer[v].watched = None THEN <<>>
    ELSE <<[type |-> "UnwatchSession", viewer |-> v, session |-> viewer[v].watched]>>

\* daemon.sock: the connection asks to watch; from then on its task only
\* streams.
SocketWatches(v, s) ==
    /\ viewer[v].task = "new"
    /\ viewer' = [viewer EXCEPT ![v].task = "watching", ![v].session = s]
    /\ Send("WatchSession", v, s)
    /\ UNCHANGED <<disk, daemon, raw, watch_rx, queue, stream>>

SocketHangsUp(v) ==
    /\ viewer[v].task = "watching"
    /\ viewer' = [viewer EXCEPT ![v].task = "hungup"]
    /\ UNCHANGED <<disk, daemon, raw, watch_rx, client_rx,
                   queue, stream>>

SenderDropped(v) ==
    /\ \A s \in Sessions : v \notin message_subscribers[s]
    /\ \A i \in DOMAIN client_rx :
          ~(client_rx[i].type = "WatchSession" /\ client_rx[i].viewer = v)

\* Mutant: the task notices its client's end only, not that of its sender.
SocketTask_IgnoresEof(v) ==
    /\ viewer[v].task \in {"watching", "hungup"}
    /\ \/ /\ viewer[v].task = "watching"
          /\ queue[v] # <<>>
          /\ queue' = [queue EXCEPT ![v] = Tail(@)]
          /\ viewer' = [viewer EXCEPT ![v].shows = @ \cup {Head(queue[v]).session}]
          /\ UNCHANGED client_rx
       \/ /\ queue[v] # <<>> /\ viewer[v].task = "hungup"
          /\ queue' = [queue EXCEPT ![v] = <<>>]
          /\ viewer' = [viewer EXCEPT ![v].task = "ended"]
          /\ Send("UnwatchSession", v, viewer[v].session)
    /\ UNCHANGED <<disk, daemon, raw, watch_rx, stream>>

\* The task writes the next event, and finds out that the client has gone
\* when the write fails. It also ends when the daemon drops its sender; either
\* way it asks to unwatch the session.
SocketTask(v) ==
    /\ viewer[v].task \in {"watching", "hungup"}
    /\ \/ /\ viewer[v].task = "watching"
          /\ queue[v] # <<>>
          /\ queue' = [queue EXCEPT ![v] = Tail(@)]
          /\ viewer' = [viewer EXCEPT ![v].shows = @ \cup {Head(queue[v]).session}]
          /\ UNCHANGED client_rx
       \/ /\ IF queue[v] = <<>> THEN SenderDropped(v) ELSE viewer[v].task = "hungup"
          /\ queue' = [queue EXCEPT ![v] = <<>>]
          /\ viewer' = [viewer EXCEPT ![v].task = "ended"]
          /\ Send("UnwatchSession", v, viewer[v].session)
    /\ UNCHANGED <<disk, daemon, raw, watch_rx, stream>>

\* selectSession on the page: unwatch the old session, fetch the new one's
\* history, watch it. The page's task serves the three requests in this
\* order and waits for the history before it goes on.
PageSelects(v, s) ==
    /\ viewer[v].task \in {"idle", "watching"}
    /\ viewer[v].session # s
    /\ viewer' = [viewer EXCEPT ![v].task = "unwatched", ![v].session = s,
                                ![v].watched = IF viewer[v].session = None THEN @ ELSE None]
    /\ IF viewer[v].session = None THEN UNCHANGED client_rx
       ELSE Send("UnwatchSession", v, viewer[v].session)
    /\ UNCHANGED <<disk, daemon, raw, watch_rx, queue, stream>>

\* A state update without the selected session: the page deselects it and
\* sends nothing.
PageDeselects(v) ==
    /\ viewer[v].task = "watching"
    /\ viewer[v].session # None
    /\ ~sessions[viewer[v].session].known
    /\ viewer' = [viewer EXCEPT ![v].session = None, ![v].ended = TRUE]
    /\ UNCHANGED <<disk, daemon, raw, watch_rx, client_rx,
                   queue, stream>>

PageFetches(v) ==
    /\ viewer[v].task = "unwatched"
    /\ viewer' = [viewer EXCEPT ![v].task = "fetching"]
    /\ Send("GetMessages", v, viewer[v].session)
    /\ UNCHANGED <<disk, daemon, raw, watch_rx, queue, stream>>

\* The answer goes through the channel the messages use; this send waits for
\* room. A session the task still watches is unwatched before the new watch.
PageWatches(v) ==
    /\ viewer[v].task = "fetched"
    /\ Len(queue[v]) < QueueCap
    /\ queue' = [queue EXCEPT ![v] = Append(@, [type |-> "messages", session |-> viewer[v].session])]
    /\ viewer' = [viewer EXCEPT ![v].task = "watching", ![v].watched = viewer[v].session]
    /\ client_rx' = client_rx \o Unwatches(v)
                              \o <<[type |-> "WatchSession", viewer |-> v, session |-> viewer[v].session]>>
    /\ UNCHANGED <<disk, daemon, raw, watch_rx, stream>>

\* The page shows the next event: a history replaces what it shows, a
\* message is appended, whatever session it belongs to.
PageShows(v) ==
    /\ viewer[v].task # "closed"
    /\ queue[v] # <<>>
    /\ queue' = [queue EXCEPT ![v] = Tail(@)]
    /\ viewer' = [viewer EXCEPT ![v].shows =
           {Head(queue[v]).session} \cup IF Head(queue[v]).type = "messages" THEN {} ELSE @]
    /\ UNCHANGED <<disk, daemon, raw, watch_rx, client_rx, stream>>

PageCloses(v) ==
    /\ viewer[v].task \in {"idle", "watching"}
    /\ viewer' = [viewer EXCEPT ![v].task = "closed"]
    /\ queue' = [queue EXCEPT ![v] = <<>>]
    /\ client_rx' = client_rx \o Unwatches(v)
    /\ UNCHANGED <<disk, daemon, raw, watch_rx, stream>>

------------------------------------------------------------------------------

MainLoop == \/ HandleGetMessages \/ HandleWatchSession \/ HandleUnwatchSession
            \/ \E s \in Sessions : FileChanged(s)

Next ==
    \/ MainLoop
    \/ \E p \in Paths : AgentWrites(p) \/ Bridge(p)
    \/ \E s \in Sessions : HookEvent(s) \/ RemoveSession(s)
    \/ \E v \in Sockets : SocketHangsUp(v) \/ SocketTask(v)
                          \/ \E s \in Sessions : SocketWatches(v, s)
    \/ \E v \in Pages : PageFetches(v) \/ PageWatches(v) \/ PageShows(v) \/ PageCloses(v)
                        \/ PageDeselects(v)
                        \/ \E s \in Sessions : PageSelects(v, s)

Spec == Init /\ [][Next]_vars

\* The daemon's tasks run; agents, hooks and users may stop. The main loop's
\* select! polls its queues in random order, so each is served.
FairSpec ==
    /\ Spec
    /\ WF_vars(HandleGetMessages) /\ WF_vars(HandleWatchSession)
    /\ WF_vars(HandleUnwatchSession)
    /\ \A p \in Paths : WF_vars(Bridge(p))
    /\ \A s \in Sessions : WF_vars(FileChanged(s))
    /\ \A v \in Sockets : WF_vars(SocketTask(v))
    /\ \A v \in Pages : WF_vars(PageShows(v)) /\ WF_vars(PageWatches(v)) /\ WF_vars(PageFetches(v))

------------------------------------------------------------------------------
(* Properties                                                              *)

Subscribed(v, s) == v \in message_subscribers[s] /\ ~Closed(v)

\* What is sent to a viewer for the first time comes later in the transcript
\* than all it was sent before. Lines written between the length check and
\* the read of one file change are sent again by the next one (the offset
\* kept is the older length), but nothing a third time. Excepted is a viewer
\* of a session the daemon removed: its offset is gone with it, and every
\* file change sends the transcript from the start. So is, from the third
\* copy, one of whose file changes left the offset where it was because the
\* read in another viewer's format, the last one, ended inside a character.
SentInOrder ==
    \A v \in Viewers : ~stream[v].forgotten =>
        LET sent == stream[v].sent
        IN  /\ \A i, j, k \in DOMAIN sent :
                  i < j /\ j < k /\ sent[i] = sent[j] /\ sent[j] = sent[k] => stream[v].again
            /\ \A i \in DOMAIN sent :
                  (\A j \in 1..(i - 1) : sent[j] # sent[i]) => \A j \in 1..(i - 1) : sent[j] < sent[i]

\* A viewer that is the only one of its session is sent every message the
\* daemon's offset has passed, unless a read ended inside its line (neither
\* half is a JSON line) or the viewer's channel was full.
OnlyTornLost ==
    \A v \in Viewers, s \in Sessions :
        (Subscribed(v, s) /\ sessions[s].watch_offset # None /\ ~stream[v].lost
            /\ ~stream[v].shared /\ ~stream[v].forgotten)
          => \A i \in Lines :
                \/ 2 * i - 1 \in stream[v].cuts \cup {stream[v].from}
                \/ 2 * i <= stream[v].from \/ sessions[s].watch_offset < 2 * i
                \/ i \in ToSet(stream[v].sent)

\* Once a page shows the history of the session that was selected last and
\* waits for nothing, no message of another session is on it, although the
\* page appends whatever arrives: the old session is unwatched before the new
\* history is read. (When the selected session has ended the page does not
\* unwatch it, and what its transcript still gets may follow the new history.)
OneConversation ==
    \A v \in Pages :
        (viewer[v].task = "watching" /\ ~viewer[v].ended /\ queue[v] = <<>>) => viewer[v].shows = {viewer[v].session}

\* A client of daemon.sock whose subscription was dropped, by another viewer
\* that left, is told so: its stream ends.
DroppedStreamEnds ==
    \A v \in Sockets :
        (viewer[v].task \in {"watching", "hungup"} /\ SenderDropped(v)) ~> viewer[v].task = "ended"

\* What the operating system reported is read, as long as the session stays
\* watched: until then the offset is behind. Two exceptions, both for good:
\* an offset inside a character, which no read can start from, and a file
\* that the agent leaves ending inside one.
ReportedIsRead ==
    \A s \in Sessions :
        (PathOf[s] \in raw /\ path_to_session[PathOf[s]] = s)
          ~> \/ path_to_session[PathOf[s]] # s \/ message_subscribers[s] = {}
             \/ ~sessions[s].known
             \/ sessions[s].watch_offset # None /\ InsideChar(sessions[s].watch_offset)
             \/ InsideChar(disk[PathOf[s]])
             \/ sessions[s].watch_offset = disk[PathOf[s]]

\* "When the last subscriber for a file unwatches, remove the watch."
\* (docs/plans/2026-02-15-message-api-design.md): a viewer that has not left
\* keeps its watch.
LastSubscriberUnwatches ==
    [][\A v \in Viewers, s \in Sessions :
          (Subscribed(v, s) /\ path_to_session[PathOf[s]] = s /\ viewer[v].task = "watching"
             /\ viewer[v].session = s)
            => path_to_session'[PathOf[s]] = s \/ viewer'[v].task # "watching"]_vars

\* "Client receives new messages as they're written to the JSONL."
\* (docs/plans/2026-02-15-message-api-design.md): what was in the history a
\* page fetched and what it is sent afterwards leave no message out.
ViewHasNoGap ==
    \A v \in Pages : (viewer[v].task = "watching"
                        /\ \E s \in Sessions : viewer[v].session = s /\ Subscribed(v, s))
        => ~stream[v].gap
==============================================================================
