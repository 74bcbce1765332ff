------------------------------ MODULE TermOutput -----------------------------
(***************************************************************************)
(* The way of the agent's terminal output to those who look at it: the PTY *)
(* reader thread of the wrapper, its terminal data sender, the daemon's    *)
(* copy of the screen and its terminal subscribers (wrapper.rs, daemon.rs, *)
(* client_listener.rs, web.rs). The daemon may stop and be started again;  *)
(* the wrapper's threads notice it one by one.                             *)
(*                                                                         *)
(* A chunk is one read of the PTY, numbered in the order of the reads. A   *)
(* screen is the sequence of chunks its parser processed. What the reader  *)
(* thread detects on the screen is followed in module Dashboards.          *)
(***************************************************************************)
EXTENDS Naturals, Sequences, SequencesExt

CONSTANTS
    Sockets,      \* connections to daemon.sock that watch the terminal
    Pages,        \* web pages
    DataCap,      \* capacity of the channel of raw output (64)
    BatchMax,     \* chunks in a message (more than 16384 bytes end it)
    QueueCap,     \* capacity of a viewer's channel (64, 256 for a page)
    MaxChunks,    \* bound: chunks the agent writes by itself
    MaxWatches,   \* bound: watch requests
    MaxStops      \* bound: daemon stops

Viewers == Sockets \cup Pages

ASSUME OutputTypes == /\ Sockets \cap Pages = {}
                      /\ {DataCap, BatchMax, QueueCap} \subseteq Nat \ {0}
                      /\ {MaxChunks, MaxWatches, MaxStops} \subseteq Nat

VARIABLES
    \* the wrapper
    running,
    out,                   \* chunks read so far
    term_data_rx,          \* chunks for the terminal data sender
    data_sender,           \* the terminal data sender's connection
    listener,              \* the daemon listener's, on which the wrapper registered
    redraw,                \* the agent was told to redraw and has not yet
    \* the daemon
    up,
    client_rx,             \* requests for the main loop
    session,               \* the wrapper's session is known
    wrapper_channels,      \* the wrapper can be reached
    terminal_parser,       \* chunks the daemon's copy of the screen processed
    terminal_subscribers,  \* viewers whose sender the daemon holds
    queue,                 \* viewer -> events in its channel
    viewer,                \* viewer -> its task, the chunks it shows, out when it watched
    \* history
    missed,                \* chunks dropped by the wrapper
    gone,                  \* chunks lost with a daemon or with the session
    blind,                 \* viewers whose snapshot found the channel full
    used                   \* watches and stops so far

vars == <<running, out, term_data_rx, data_sender, listener, redraw, up, client_rx, session,
          wrapper_channels, terminal_parser, terminal_subscribers, queue, viewer, missed, gone,
          blind, used>>

threads == <<running, data_sender, listener>>
reader == <<out, term_data_rx>>
daemon == <<up, session, wrapper_channels, terminal_parser, terminal_subscribers>>
viewers == <<queue, viewer>>
history == <<missed, gone, blind, used>>

Chunks == 1..out

\* A viewer's events: the screen as it is now, or more output.
Event == [type : {"snapshot", "data"}, chunks : Seq(Chunks)]

ClientMessage == [type : {"TerminalOutput"}, chunks : Seq(Chunks)]
                 \cup [type : {"WatchTerminal"}, viewer : Viewers]
                 \cup [type : {"UnwatchTerminal", "RegisterWrapper", "UnregisterWrapper"}]

\* A viewer: its task, the chunks it shows, out when it watched.
View == [task : {"idle", "watching", "hungup", "ended"}, shows : Seq(Chunks), since : 0..out]

\* A connection of the wrapper: closed once the daemon behind it has stopped.
Connection == {"connecting", "connected", "closed"}

TypeOK ==
    /\ running \in BOOLEAN /\ up \in BOOLEAN /\ redraw \in BOOLEAN /\ wrapper_channels \in BOOLEAN
    /\ out \in Nat
    /\ term_data_rx \in Seq(Chunks) /\ Len(term_data_rx) <= DataCap
    /\ data_sender \in Connection /\ listener \in Connection
    /\ client_rx \in Seq(ClientMessage)
    /\ session \in BOOLEAN
    /\ terminal_parser \in Seq(Chunks)
    /\ terminal_subscribers \in SUBSET Viewers
    /\ queue \in [Viewers -> Seq(Event)] /\ \A v \in Viewers : Len(queue[v]) <= QueueCap
    /\ viewer \in [Viewers -> View]
    /\ missed \in SUBSET Chunks /\ gone \in SUBSET Chunks
    /\ blind \in SUBSET Viewers
    /\ used \in [watches : 0..MaxWatches, stops : 0..MaxStops]

\* The wrapper has just connected and sent its registration.
Init ==
    /\ running = TRUE /\ out = 0 /\ term_data_rx = <<>>
    /\ data_sender = "connecting" /\ listener = "connected"
    /\ redraw = FALSE
    /\ up = TRUE /\ client_rx = <<[type |-> "RegisterWrapper"]>>
    /\ session = FALSE /\ wrapper_channels = FALSE
    /\ terminal_parser = <<>> /\ terminal_subscribers = {}
    /\ queue = [v \in Viewers |-> <<>>]
    /\ viewer = [v \in Viewers |-> [task |-> "idle", shows |-> <<>>, since |-> 0]]
    /\ missed = {} /\ gone = {} /\ blind = {}
    /\ used = [watches |-> 0, stops |-> 0]

------------------------------------------------------------------------------
(* The wrapper                                                             *)

\* One round of the reader thread: the chunk is forwarded if there is room.
ReadPty ==
    LET room == Len(term_data_rx) < DataCap
    IN  /\ running
        /\ out' = out + 1
        /\ term_data_rx' = IF room THEN Append(term_data_rx, out + 1) ELSE term_data_rx
        /\ missed' = IF room THEN missed ELSE missed \cup {out + 1}
        /\ UNCHANGED <<threads, client_rx, daemon, viewers, gone, blind, used>>

\* The agent writes by itself, or because its terminal changed size.
AgentWrites == out < MaxChunks /\ ReadPty /\ UNCHANGED redraw

AgentRedraws == redraw /\ redraw' = FALSE /\ ReadPty

Send(message) == client_rx' = Append(client_rx, message)

\* The terminal data sender waits for a daemon, again after a failed send.
DataConnects ==
    /\ data_sender = "connecting" /\ up /\ running
    /\ data_sender' = "connected"
    /\ UNCHANGED <<running, listener, reader, redraw, client_rx, daemon,
                   viewers, history>>

\* Mutant: the chunk that finds the message full is thrown away.
DataSends_DropsNext ==
    LET n == IF Len(term_data_rx) < BatchMax THEN Len(term_data_rx) ELSE BatchMax
    IN  /\ data_sender = "connected" /\ n > 0
        /\ term_data_rx' = SubSeq(term_data_rx, n + 2, Len(term_data_rx))
        /\ Send([type |-> "TerminalOutput", chunks |-> SubSeq(term_data_rx, 1, n)])
        /\ UNCHANGED <<running, data_sender, listener, out, redraw, daemon, viewers, history>>

\* What has piled up goes out as one message. A batch that cannot be sent is
\* lost.
DataSends ==
    LET n == IF Len(term_data_rx) < BatchMax THEN Len(term_data_rx) ELSE BatchMax
        batch == SubSeq(term_data_rx, 1, n)
    IN  /\ data_sender \in {"connected", "closed"} /\ n > 0
        /\ term_data_rx' = SubSeq(term_data_rx, n + 1, Len(term_data_rx))
        /\ \/ /\ data_sender = "connected"
              /\ Send([type |-> "TerminalOutput", chunks |-> batch])
              /\ UNCHANGED <<data_sender, missed>>
           \/ /\ data_sender = "closed" /\ data_sender' = "connecting"
              /\ missed' = missed \cup ToSet(batch)
              /\ UNCHANGED client_rx
        /\ UNCHANGED <<running, listener, out, redraw, daemon, viewers, gone, blind, used>>

\* What the task of a registered wrapper's connection passes on.
PassedOn(m) == m.type \in {"UpdateSuggestion", "UpdateThinkingText"}

\* The daemon listener registers again and sends its screen, if there is
\* any, on the same connection.
Reconnect ==
    /\ listener = "closed" /\ up /\ running
    /\ listener' = "connected"
    /\ LET screen == [type |-> "TerminalOutput", chunks |-> [i \in 1..out |-> i]]
           registered == Append(client_rx, [type |-> "RegisterWrapper"])
       IN  client_rx' = IF out > 0 /\ PassedOn(screen) THEN Append(registered, screen) ELSE registered
    /\ UNCHANGED <<running, data_sender, reader, redraw, daemon, viewers, history>>

\* The child has exited.
WrapperExits ==
    /\ running /\ running' = FALSE
    /\ IF up THEN Send([type |-> "UnregisterWrapper"]) ELSE UNCHANGED client_rx
    /\ UNCHANGED <<data_sender, listener, reader, redraw, daemon, viewers, history>>

------------------------------------------------------------------------------
(* The daemon                                                              *)

Receive(type) ==
    /\ client_rx # <<>> /\ Head(client_rx).type = type
    /\ client_rx' = Tail(client_rx)

\* The viewer's receiver is gone.
Closed(v) == viewer[v].task = "ended"

TrySend(v, event) ==
    IF Closed(v) \/ Len(queue[v]) = QueueCap THEN queue[v] ELSE Append(queue[v], event)

\* Mutant: nobody asks for a redraw.
ForceRedraw_Never(reachable) == redraw' = redraw

\* ForceRedraw to the wrapper, if it is registered.
ForceRedraw(reachable) == redraw' = (redraw \/ reachable)

\* The copy of the screen processes the output; then a subscriber whose
\* channel is full or closed is dropped.
HandleTerminalOutput ==
    LET chunks == Head(client_rx).chunks
        event == [type |-> "data", chunks |-> chunks]
    IN  /\ Receive("TerminalOutput")
        /\ terminal_parser' = terminal_parser \o chunks
        /\ queue' = [v \in Viewers |-> IF v \in terminal_subscribers THEN TrySend(v, event) ELSE queue[v]]
        /\ terminal_subscribers' = {v \in terminal_subscribers : TrySend(v, event) # queue[v]}
        /\ UNCHANGED <<threads, reader, redraw, up, session, wrapper_channels, viewer, history>>

\* Mutant: the subscription without the screen.
HandleWatchTerminal_NoSnapshot ==
    LET v == Head(client_rx).viewer
    IN  /\ Receive("WatchTerminal")
        /\ terminal_subscribers' = terminal_subscribers \cup {v}
        /\ viewer' = [viewer EXCEPT ![v].since = out]
        /\ blind' = blind \ {v}
        /\ ForceRedraw(wrapper_channels)
        /\ UNCHANGED <<threads, reader, up, session, wrapper_channels, terminal_parser, queue,
                       missed, gone, used>>

\* The screen as it is, the subscription, the redraw, in this order.
HandleWatchTerminal ==
    LET v == Head(client_rx).viewer
        snapshot == [type |-> "snapshot", chunks |-> terminal_parser]
    IN  /\ Receive("WatchTerminal")
        /\ queue' = IF terminal_parser = <<>> THEN queue ELSE [queue EXCEPT ![v] = TrySend(v, snapshot)]
        /\ blind' = IF terminal_parser # <<>> /\ TrySend(v, snapshot) = queue[v]
                    THEN blind \cup {v} ELSE blind \ {v}
        /\ terminal_subscribers' = terminal_subscribers \cup {v}
        /\ viewer' = [viewer EXCEPT ![v].since = out]
        /\ ForceRedraw(wrapper_channels)
        /\ UNCHANGED <<threads, reader, up, session, wrapper_channels, terminal_parser,
                       missed, gone, used>>

\* Whoever asks, the session has no subscriber left.
HandleUnwatchTerminal ==
    /\ Receive("UnwatchTerminal")
    /\ terminal_subscribers' = {}
    /\ UNCHANGED <<threads, reader, redraw, up, session, wrapper_channels, terminal_parser,
                   viewers, history>>

HandleRegisterWrapper ==
    /\ Receive("RegisterWrapper")
    /\ session' = TRUE
    /\ wrapper_channels' = TRUE
    /\ ForceRedraw(terminal_subscribers # {})
    /\ UNCHANGED <<threads, reader, up, terminal_parser, terminal_subscribers, viewers, history>>

HandleUnregisterWrapper ==
    /\ Receive("UnregisterWrapper")
    /\ session' = FALSE /\ wrapper_channels' = FALSE
    /\ terminal_parser' = <<>> /\ terminal_subscribers' = {}
    /\ gone' = gone \cup ToSet(terminal_parser)
    /\ UNCHANGED <<threads, reader, redraw, up, viewers, missed, blind, used>>

\* Output the daemon has received and not handled.
Unhandled == {m \in ToSet(client_rx) : m.type = "TerminalOutput"}

DaemonStops ==
    /\ up /\ used.stops < MaxStops
    /\ up' = FALSE
    /\ used' = [used EXCEPT !.stops = @ + 1]
    /\ client_rx' = <<>> /\ session' = FALSE /\ wrapper_channels' = FALSE
    /\ terminal_parser' = <<>> /\ terminal_subscribers' = {}
    /\ gone' = gone \cup ToSet(terminal_parser) \cup UNION {ToSet(m.chunks) : m \in Unhandled}
    /\ LET Close(conn) == IF conn = "connected" THEN "closed" ELSE conn
       IN  /\ data_sender' = Close(data_sender)
           /\ listener' = Close(listener)
    /\ redraw' \in {redraw, FALSE}
    /\ queue' = [v \in Viewers |-> <<>>]
    /\ viewer' = [v \in Viewers |-> IF viewer[v].task = "idle" THEN viewer[v]
                                    ELSE [viewer[v] EXCEPT !.task = "ended"]]
    /\ UNCHANGED <<running, reader, missed, blind>>

DaemonStarts ==
    /\ ~up /\ up' = TRUE
    /\ UNCHANGED <<threads, reader, redraw, client_rx, session, wrapper_channels,
                   terminal_parser, terminal_subscribers, viewers, history>>

------------------------------------------------------------------------------
(* Viewers                                                                 *)

wrapper == <<threads, reader, redraw>>

\* The request to watch; a page starts with an empty terminal, and its task
\* first drops the subscription it has.
Watches(v) ==
    /\ up /\ used.watches < MaxWatches
    /\ \/ viewer[v].task = "idle" /\ Send([type |-> "WatchTerminal", viewer |-> v])
       \/ /\ v \in Pages /\ viewer[v].task = "watching"
          /\ client_rx' = client_rx \o <<[type |-> "UnwatchTerminal"],
                                         [type |-> "WatchTerminal", viewer |-> v]>>
    /\ used' = [used EXCEPT !.watches = @ + 1]
    /\ viewer' = [viewer EXCEPT ![v].task = "watching", ![v].shows = <<>>]
    /\ UNCHANGED <<wrapper, daemon, queue, missed, gone, blind>>

\* A page shows messages instead of the terminal, or is closed.
PageUnwatches(v) ==
    /\ viewer[v].task = "watching"
    /\ \E task \in {"idle", "ended"} :
          /\ viewer' = [viewer EXCEPT ![v].task = task]
          /\ queue' = IF task = "ended" THEN [queue EXCEPT ![v] = <<>>] ELSE queue
    /\ Send([type |-> "UnwatchTerminal"])
    /\ UNCHANGED <<wrapper, daemon, history>>

SocketHangsUp(v) ==
    /\ viewer[v].task = "watching"
    /\ viewer' = [viewer EXCEPT ![v].task = "hungup"]
    /\ UNCHANGED <<wrapper, daemon, client_rx, queue, history>>

\* The next event reaches the viewer: a snapshot replaces what it shows.
After(shows, event) == IF event.type = "snapshot" THEN event.chunks ELSE shows \o event.chunks

ViewerShows(v) ==
    /\ viewer[v].task \in IF v \in Pages THEN {"idle", "watching"} ELSE {"watching"}
    /\ queue[v] # <<>>
    /\ queue' = [queue EXCEPT ![v] = Tail(@)]
    /\ viewer' = [viewer EXCEPT ![v].shows = After(@, Head(queue[v]))]
    /\ UNCHANGED <<wrapper, daemon, client_rx, history>>

SenderDropped(v) ==
    v \notin terminal_subscribers /\ [type |-> "WatchTerminal", viewer |-> v] \notin ToSet(client_rx)

\* The task of a socket ends when a write fails or when the daemon has
\* dropped its sender, and then unwatches the terminal: for everyone.
SocketEnds(v) ==
    /\ viewer[v].task \in {"watching", "hungup"} /\ up
    /\ IF queue[v] = <<>> THEN SenderDropped(v) ELSE viewer[v].task = "hungup"
    /\ viewer' = [viewer EXCEPT ![v].task = "ended"]
    /\ queue' = [queue EXCEPT ![v] = <<>>]
    /\ Send([type |-> "UnwatchTerminal"])
    /\ UNCHANGED <<wrapper, daemon, history>>

------------------------------------------------------------------------------

MainLoop == \/ HandleTerminalOutput \/ HandleWatchTerminal \/ HandleUnwatchTerminal
            \/ HandleRegisterWrapper \/ HandleUnregisterWrapper

Next ==
    \/ AgentWrites \/ AgentRedraws \/ DataConnects \/ DataSends
    \/ Reconnect \/ WrapperExits \/ MainLoop \/ DaemonStops \/ DaemonStarts
    \/ \E v \in Viewers : Watches(v) \/ ViewerShows(v)
    \/ \E v \in Pages : PageUnwatches(v)
    \/ \E v \in Sockets : SocketHangsUp(v) \/ SocketEnds(v)

Spec == Init /\ [][Next]_vars

\* The daemon's tasks and the wrapper's threads run, and the agent redraws
\* when its terminal changes size. Nobody has to start a daemon, and the
\* agent may be silent.
FairSpec ==
    /\ Spec
    /\ WF_vars(MainLoop)
    /\ WF_vars(DataConnects) /\ WF_vars(DataSends)
    /\ WF_vars(Reconnect) /\ WF_vars(AgentRedraws)
    /\ \A v \in Viewers : WF_vars(ViewerShows(v))
    /\ \A v \in Sockets : WF_vars(SocketEnds(v))

------------------------------------------------------------------------------
(* Properties                                                              *)

\* The sequences s[k] of chunks, read one after the other, ascend; and what
\* they hold.
Ascending(s) ==
    /\ \A k \in DOMAIN s : \A i, j \in DOMAIN s[k] : i < j => s[k][i] < s[k][j]
    /\ \A k, l \in DOMAIN s : k < l => \A c \in ToSet(s[k]), d \in ToSet(s[l]) : c < d

Held(s) == UNION {ToSet(s[k]) : k \in DOMAIN s}

\* The way of a chunk from the reader thread (the last station) to the
\* daemon's copy of the screen (the first).
Way == [k \in 0..(Len(client_rx) + 1) |->
          IF k = 0 THEN terminal_parser
          ELSE IF k > Len(client_rx) THEN term_data_rx
          ELSE IF client_rx[k].type = "TerminalOutput" THEN client_rx[k].chunks ELSE <<>>]

\* Output is never reordered or doubled on the way to the daemon's copy of
\* the screen, and a chunk that is not on the way was dropped by a full
\* channel or a failed send, or lost with a daemon or a session: batching,
\* reconnecting and restarting lose nothing else (DataSends, DataConnects,
\* HandleTerminalOutput).
OutputConserved ==
    /\ Ascending(Way)
    /\ Held(Way) \cup missed \cup gone = 1..out
    /\ Held(Way) \cap (missed \cup gone) = {}

\* A viewer that shows these chunks and reads these events ends with the
\* screen: what it shows from the last snapshot on, or at all if it gets none,
\* joins to the chunks of the screen, which ascend.
Joins(shows, events, screen) ==
    \E k \in 0..Len(events) :
        /\ k # 0 => events[k].type = "snapshot"
        /\ \A l \in DOMAIN events : l > k => events[l].type = "data"
        /\ LET stream == [l \in k..Len(events) |-> IF l = 0 THEN shows ELSE events[l].chunks]
           IN  Ascending(stream) /\ Held(stream) = ToSet(screen)

\* A subscriber that reads what is in its channel sees the daemon's screen:
\* snapshot and stream join without a gap or a repetition, whatever output
\* arrives around the watch request (HandleWatchTerminal sends the snapshot
\* and subscribes in one step). Excepted is a viewer whose channel was full
\* when its snapshot was due: it is subscribed all the same. (A page that
\* has asked again shows nothing until it is answered, and for a session that
\* has ended the daemon has no screen.)
SnapshotThenStream ==
    session => \A v \in terminal_subscribers \ blind :
        \/ Closed(v) \/ [type |-> "WatchTerminal", viewer |-> v] \in ToSet(client_rx)
        \/ Joins(viewer[v].shows, queue[v], terminal_parser)

\* A viewer that watches while the wrapper can be reached gets to see the
\* terminal although the agent is silent, by the snapshot or by the redraw,
\* unless it is dropped, the wrapper drops output (a full channel, the first
\* batch after the daemon was restarted), or something stops.
WatcherSeesScreen ==
    \A v \in Viewers :
        (v \in terminal_subscribers /\ wrapper_channels)
          ~> \/ viewer[v].shows # <<>> \/ v \notin terminal_subscribers \/ v \in blind
             \/ \E c \in missed : c > viewer[v].since
             \/ ~up \/ ~running

\* "the daemon listener thread grabs a snapshot on reconnect to restore web
\* viewers" (wrapper.rs): a registered wrapper that has a screen gives the
\* daemon a copy of it.
SnapshotRestores ==
    (wrapper_channels /\ out > 0)
        ~> (terminal_parser # <<>> \/ missed # {} \/ ~up \/ ~running)
=============================================================================
