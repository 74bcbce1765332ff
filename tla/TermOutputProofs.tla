--------------------------- MODULE TermOutputProofs --------------------------
(***************************************************************************)
(* What is proved of TermOutput for every number of viewers, chunks,       *)
(* watches and stops and for channels of every size: its types, that the   *)
(* terminal's output reaches the daemon's copy of the screen in order and  *)
(* that none is lost unnoticed, and that a viewer's snapshot and stream    *)
(* join to that screen.                                                    *)
(***************************************************************************)
EXTENDS TermOutput, SequenceTheorems, TLAPS

------------------------------------------------------------------------------
(* Types                                                                   *)

\* What the agent writes leaves every chunk, message, event and view what it
\* was.
LEMMA MoreChunks ==
    ASSUME out \in Nat, out' \in Nat, out <= out'
    PROVE  /\ Chunks \subseteq Chunks' /\ Seq(Chunks) \subseteq Seq(Chunks')
           /\ Event \subseteq Event' /\ ClientMessage \subseteq ClientMessage'
           /\ View \subseteq View'
<1>1. Chunks \subseteq Chunks'
  BY DEF Chunks
<1>2. Seq(Chunks) \subseteq Seq(Chunks')
  BY <1>1, SeqMonotonic
<1>3. 0..out \subseteq 0..out'
  OBVIOUS
<1>4. Event \subseteq Event' /\ ClientMessage \subseteq ClientMessage' /\ View \subseteq View'
  BY <1>2, <1>3 DEF Event, ClientMessage, View
<1> QED BY <1>1, <1>2, <1>4

LEMMA SameChunks ==
    ASSUME out' = out
    PROVE  Chunks' = Chunks /\ Event' = Event /\ ClientMessage' = ClientMessage /\ View' = View
BY DEF Chunks, Event, ClientMessage, View

\* The messages of client_rx, as they are made and as they are read.
LEMMA MadeMessages ==
    /\ \A c \in Seq(Chunks) : [type |-> "TerminalOutput", chunks |-> c] \in ClientMessage
    /\ \A v \in Viewers : [type |-> "WatchTerminal", viewer |-> v] \in ClientMessage
    /\ \A t \in {"UnwatchTerminal", "RegisterWrapper", "UnregisterWrapper"} :
          [type |-> t] \in ClientMessage
BY DEF ClientMessage

LEMMA ReadMessages ==
    \A m \in ClientMessage :
        /\ m.type = "TerminalOutput" => m.chunks \in Seq(Chunks)
        /\ m.type = "WatchTerminal" => m.viewer \in Viewers
BY DEF ClientMessage

LEMMA MadeEvents ==
    \A c \in Seq(Chunks), t \in {"snapshot", "data"} : [type |-> t, chunks |-> c] \in Event
BY DEF Event

LEMMA TrySendType ==
    ASSUME TypeOK, NEW v \in Viewers, NEW e \in Event
    PROVE  TrySend(v, e) \in Seq(Event) /\ Len(TrySend(v, e)) <= QueueCap
<1>1. queue[v] \in Seq(Event) /\ Len(queue[v]) <= QueueCap /\ QueueCap \in Nat
  BY OutputTypes DEF TypeOK
<1>2. Append(queue[v], e) \in Seq(Event) /\ Len(Append(queue[v], e)) = Len(queue[v]) + 1
  BY <1>1, AppendProperties
<1> QED BY <1>1, <1>2, LenProperties DEF TrySend

LEMMA TypeInit == Init => TypeOK
<1> SUFFICES ASSUME Init PROVE TypeOK
  OBVIOUS
<1>1. out \in Nat /\ 0 \in 0..out
  BY DEF Init
<1>2. client_rx \in Seq(ClientMessage)
  BY MadeMessages DEF Init
<1>3. viewer \in [Viewers -> View]
  BY <1>1 DEF Init, View
<1>4. queue \in [Viewers -> Seq(Event)] /\ \A v \in Viewers : Len(queue[v]) <= QueueCap
  BY OutputTypes DEF Init
<1>5. term_data_rx \in Seq(Chunks) /\ Len(term_data_rx) <= DataCap /\ terminal_parser \in Seq(Chunks)
  BY OutputTypes DEF Init
<1>6. used \in [watches : 0..MaxWatches, stops : 0..MaxStops]
  BY OutputTypes DEF Init
<1> QED BY <1>1, <1>2, <1>3, <1>4, <1>5, <1>6 DEF Init, TypeOK, Connection

\* The wrapper's steps.
WrapperSteps == AgentWrites \/ AgentRedraws \/ DataConnects \/ DataSends \/ Reconnect \/ WrapperExits

LEMMA TypeReadPty ==
    ASSUME TypeOK, ReadPty, redraw' \in BOOLEAN
    PROVE  TypeOK'
<1>1. out \in Nat /\ out' = out + 1
  BY DEF TypeOK, ReadPty
<1>2. /\ Chunks \subseteq Chunks' /\ Seq(Chunks) \subseteq Seq(Chunks')
      /\ Event \subseteq Event' /\ ClientMessage \subseteq ClientMessage' /\ View \subseteq View'
  BY <1>1, MoreChunks
<1>3. out + 1 \in Chunks'
  BY <1>1 DEF Chunks
<1>4. term_data_rx' \in Seq(Chunks') /\ Len(term_data_rx') <= DataCap
  <2>1. term_data_rx \in Seq(Chunks') /\ Len(term_data_rx) <= DataCap /\ DataCap \in Nat
    BY <1>2, OutputTypes DEF TypeOK
  <2>2. /\ Append(term_data_rx, out + 1) \in Seq(Chunks')
        /\ Len(Append(term_data_rx, out + 1)) = Len(term_data_rx) + 1
    BY <2>1, <1>3, AppendProperties
  <2> QED BY <2>1, <2>2, LenProperties DEF ReadPty
<1>5. client_rx' \in Seq(ClientMessage')
  BY <1>2, SeqMonotonic DEF TypeOK, ReadPty
<1>6. terminal_parser' \in Seq(Chunks') /\ missed' \in SUBSET Chunks' /\ gone' \in SUBSET Chunks'
  BY <1>2, <1>3 DEF TypeOK, ReadPty, daemon
<1>7. queue' \in [Viewers -> Seq(Event')] /\ \A v \in Viewers : Len(queue'[v]) <= QueueCap
  BY <1>2, SeqMonotonic DEF TypeOK, ReadPty, viewers
<1>8. viewer' \in [Viewers -> View']
  BY <1>2 DEF TypeOK, ReadPty, viewers
<1> QED BY <1>1, <1>4, <1>5, <1>6, <1>7, <1>8 DEF TypeOK, ReadPty, threads, daemon

\* A step that does not read the terminal has to keep the rest.
LEMMA TypeKept ==
    ASSUME TypeOK, out' = out,
           running' \in BOOLEAN, up' \in BOOLEAN, redraw' \in BOOLEAN,
           wrapper_channels' \in BOOLEAN, session' \in BOOLEAN,
           term_data_rx' \in Seq(Chunks), Len(term_data_rx') <= DataCap,
           data_sender' \in Connection, listener' \in Connection,
           client_rx' \in Seq(ClientMessage),
           terminal_parser' \in Seq(Chunks), terminal_subscribers' \in SUBSET Viewers,
           queue' \in [Viewers -> Seq(Event)], \A v \in Viewers : Len(queue'[v]) <= QueueCap,
           viewer' \in [Viewers -> View],
           missed' \in SUBSET Chunks, gone' \in SUBSET Chunks, blind' \in SUBSET Viewers,
           used' \in [watches : 0..MaxWatches, stops : 0..MaxStops]
    PROVE  TypeOK'
BY SameChunks DEF TypeOK

LEMMA SendType ==
    ASSUME TypeOK, NEW m \in ClientMessage
    PROVE  Append(client_rx, m) \in Seq(ClientMessage)
BY AppendProperties DEF TypeOK

LEMMA TypeDataSends ==
    ASSUME TypeOK, DataSends
    PROVE  TypeOK'
<1> DEFINE n == IF Len(term_data_rx) < BatchMax THEN Len(term_data_rx) ELSE BatchMax
           batch == SubSeq(term_data_rx, 1, n)
<1>1. term_data_rx \in Seq(Chunks) /\ Len(term_data_rx) \in Nat /\ BatchMax \in Nat
  BY OutputTypes, LenProperties DEF TypeOK
<1>2. n \in 0..Len(term_data_rx)
  BY <1>1
<1> HIDE DEF n
<1>3. batch \in Seq(Chunks)
  BY <1>1, <1>2, SubSeqProperties
<1>4. /\ SubSeq(term_data_rx, n + 1, Len(term_data_rx)) \in Seq(Chunks)
      /\ Len(SubSeq(term_data_rx, n + 1, Len(term_data_rx))) <= Len(term_data_rx)
  BY <1>1, <1>2, SubSeqProperties
<1>5. term_data_rx' \in Seq(Chunks) /\ Len(term_data_rx') <= DataCap
  <2>1. Len(term_data_rx) <= DataCap /\ DataCap \in Nat
    BY OutputTypes DEF TypeOK
  <2>2. term_data_rx' = SubSeq(term_data_rx, n + 1, Len(term_data_rx))
    BY DEF DataSends, n
  <2>3. Len(term_data_rx') \in Nat
    BY <2>2, <1>4, LenProperties
  <2> QED BY <1>1, <1>4, <2>1, <2>2, <2>3
<1>6. client_rx' \in Seq(ClientMessage)
  <2>1. \/ client_rx' = client_rx
        \/ client_rx' = Append(client_rx, [type |-> "TerminalOutput", chunks |-> batch])
    BY DEF DataSends, Send, n
  <2>2. [type |-> "TerminalOutput", chunks |-> batch] \in ClientMessage
    BY <1>3, MadeMessages
  <2> QED BY <2>1, <2>2, SendType DEF TypeOK
<1>7. missed' \in SUBSET Chunks
  <2>1. ToSet(batch) \subseteq Chunks
    BY <1>3 DEF ToSet
  <2>2. missed' = missed \/ missed' = missed \cup ToSet(batch)
    BY DEF DataSends, n, history
  <2> QED BY <2>1, <2>2 DEF TypeOK
<1>8. data_sender' \in Connection
  BY DEF DataSends, Connection, TypeOK
<1> QED BY <1>5, <1>6, <1>7, <1>8, TypeKept DEF TypeOK, DataSends, daemon, viewers

LEMMA TypeWrapper == TypeOK /\ WrapperSteps => TypeOK'
<1> SUFFICES ASSUME TypeOK, WrapperSteps PROVE TypeOK'
  OBVIOUS
<1>1. CASE AgentWrites
  BY <1>1, TypeReadPty DEF AgentWrites, TypeOK
<1>2. CASE AgentRedraws
  BY <1>2, TypeReadPty DEF AgentRedraws
<1>3. CASE DataConnects
  BY <1>3, TypeKept DEF DataConnects, TypeOK, Connection, reader, daemon, viewers, history
<1>4. CASE DataSends
  BY <1>4, TypeDataSends
<1>5. CASE Reconnect
  <2> DEFINE screen == [type |-> "TerminalOutput", chunks |-> [i \in 1..out |-> i]]
             registered == Append(client_rx, [type |-> "RegisterWrapper"])
  <2>1. registered \in Seq(ClientMessage)
    BY SendType, MadeMessages
  <2>2. client_rx' = registered
    BY <1>5 DEF Reconnect, PassedOn
  <2> QED BY <1>5, <2>1, <2>2, TypeKept DEF Reconnect, TypeOK, Connection, reader, daemon, viewers, history
<1>6. CASE WrapperExits
  <2>1. client_rx' \in Seq(ClientMessage)
    BY <1>6, SendType, MadeMessages DEF WrapperExits, Send, TypeOK
  <2> QED BY <1>6, <2>1, TypeKept DEF WrapperExits, TypeOK, reader, daemon, viewers, history
<1> QED BY <1>1, <1>2, <1>3, <1>4, <1>5, <1>6 DEF WrapperSteps

\* The message at the head is one that was made; what follows it stays.
LEMMA ReceiveType ==
    ASSUME TypeOK, NEW t, Receive(t)
    PROVE  /\ Head(client_rx) \in ClientMessage /\ Head(client_rx).type = t
           /\ client_rx' \in Seq(ClientMessage)
BY HeadTailProperties DEF TypeOK, Receive

LEMMA TypeMainLoop == TypeOK /\ MainLoop => TypeOK'
<1> SUFFICES ASSUME TypeOK, MainLoop PROVE TypeOK'
  OBVIOUS
<1>1. CASE HandleTerminalOutput
  <2> DEFINE chunks == Head(client_rx).chunks
             event == [type |-> "data", chunks |-> chunks]
  <2>1. chunks \in Seq(Chunks) /\ client_rx' \in Seq(ClientMessage)
    BY <1>1, ReceiveType, ReadMessages DEF HandleTerminalOutput
  <2>2. event \in Event
    BY <2>1, MadeEvents
  <2>3. \A v \in Viewers : TrySend(v, event) \in Seq(Event) /\ Len(TrySend(v, event)) <= QueueCap
    BY <2>2, TrySendType
  <2>4. queue' = [v \in Viewers |-> IF v \in terminal_subscribers THEN TrySend(v, event) ELSE queue[v]]
    BY <1>1 DEF HandleTerminalOutput
  <2> HIDE DEF event
  <2>5. queue' \in [Viewers -> Seq(Event)] /\ \A v \in Viewers : Len(queue'[v]) <= QueueCap
    BY <2>3, <2>4 DEF TypeOK
  <2>6. terminal_parser' \in Seq(Chunks)
    BY <1>1, <2>1, ConcatProperties DEF HandleTerminalOutput, TypeOK
  <2>7. terminal_subscribers' \in SUBSET Viewers
    BY <1>1 DEF HandleTerminalOutput, TypeOK
  <2> QED BY <1>1, <2>1, <2>5, <2>6, <2>7, TypeKept
          DEF HandleTerminalOutput, TypeOK, threads, reader, history
<1>2. CASE HandleWatchTerminal
  <2> DEFINE v == Head(client_rx).viewer
             snapshot == [type |-> "snapshot", chunks |-> terminal_parser]
  <2>1. v \in Viewers /\ client_rx' \in Seq(ClientMessage)
    BY <1>2, ReceiveType, ReadMessages DEF HandleWatchTerminal
  <2>2. snapshot \in Event
    BY MadeEvents DEF TypeOK
  <2>3. TrySend(v, snapshot) \in Seq(Event) /\ Len(TrySend(v, snapshot)) <= QueueCap
    BY <2>1, <2>2, TrySendType
  <2>4. queue' = IF terminal_parser = <<>> THEN queue ELSE [queue EXCEPT ![v] = TrySend(v, snapshot)]
    BY <1>2 DEF HandleWatchTerminal
  <2>5. viewer' = [viewer EXCEPT ![v].since = out] /\ blind' \in {blind \cup {v}, blind \ {v}}
    BY <1>2 DEF HandleWatchTerminal
  <2>6. terminal_subscribers' = terminal_subscribers \cup {v}
    BY <1>2 DEF HandleWatchTerminal
  <2> HIDE DEF v, snapshot
  <2>7. queue' \in [Viewers -> Seq(Event)] /\ \A w \in Viewers : Len(queue'[w]) <= QueueCap
    BY <2>1, <2>3, <2>4 DEF TypeOK
  <2>8. viewer' \in [Viewers -> View]
    <3>1. viewer \in [Viewers -> View] /\ out \in 0..out
      BY DEF TypeOK
    <3>2. [viewer[v] EXCEPT !.since = out] \in View
      BY <2>1, <3>1 DEF View
    <3> QED BY <2>1, <2>5, <3>1, <3>2
  <2> QED BY <1>2, <2>1, <2>5, <2>6, <2>7, <2>8, TypeKept
          DEF HandleWatchTerminal, ForceRedraw, TypeOK, threads, reader
<1>3. CASE HandleUnwatchTerminal
  BY <1>3, ReceiveType, TypeKept DEF HandleUnwatchTerminal, TypeOK, threads, reader, viewers, history
<1>4. CASE HandleRegisterWrapper
  BY <1>4, ReceiveType, TypeKept
  DEF HandleRegisterWrapper, ForceRedraw, TypeOK, threads, reader, viewers, history
<1>5. CASE HandleUnregisterWrapper
  <2>1. ToSet(terminal_parser) \subseteq Chunks /\ <<>> \in Seq(Chunks)
    BY DEF ToSet, TypeOK
  <2> QED BY <1>5, <2>1, ReceiveType, TypeKept DEF HandleUnregisterWrapper, TypeOK, threads, reader, viewers
<1> QED BY <1>1, <1>2, <1>3, <1>4, <1>5 DEF MainLoop

\* One watch, or one stop, more stays within its bound.
LEMMA UsedTypes ==
    ASSUME TypeOK
    PROVE  /\ used.watches < MaxWatches =>
                [used EXCEPT !.watches = @ + 1] \in [watches : 0..MaxWatches, stops : 0..MaxStops]
           /\ used.stops < MaxStops =>
                [used EXCEPT !.stops = @ + 1] \in [watches : 0..MaxWatches, stops : 0..MaxStops]
<1>1. PICK w \in 0..MaxWatches, s \in 0..MaxStops : used = [watches |-> w, stops |-> s]
  BY DEF TypeOK
<1>2. MaxWatches \in Nat /\ MaxStops \in Nat
  BY OutputTypes
<1>3. /\ [used EXCEPT !.watches = @ + 1] = [watches |-> w + 1, stops |-> s]
      /\ [used EXCEPT !.stops = @ + 1] = [watches |-> w, stops |-> s + 1]
  BY <1>1
<1> QED BY <1>1, <1>2, <1>3

LEMMA TypeDaemonStops == TypeOK /\ DaemonStops => TypeOK'
<1> SUFFICES ASSUME TypeOK, DaemonStops PROVE TypeOK'
  OBVIOUS
<1>1. client_rx' \in Seq(ClientMessage) /\ terminal_parser' \in Seq(Chunks)
  BY DEF DaemonStops
<1>2. gone' \in SUBSET Chunks
  <2>1. ToSet(terminal_parser) \subseteq Chunks
    BY DEF ToSet, TypeOK
  <2>2. \A m \in Unhandled : ToSet(m.chunks) \subseteq Chunks
    <3>1. \A m \in Unhandled : m \in ClientMessage /\ m.type = "TerminalOutput"
      BY DEF Unhandled, ToSet, TypeOK
    <3>2. \A m \in Unhandled : m.chunks \in Seq(Chunks)
      BY <3>1, ReadMessages
    <3> QED BY <3>2 DEF ToSet
  <2> QED BY <2>1, <2>2 DEF DaemonStops, TypeOK
<1>3. data_sender' \in Connection /\ listener' \in Connection
  BY DEF DaemonStops, TypeOK, Connection
<1>4. queue' \in [Viewers -> Seq(Event)] /\ \A v \in Viewers : Len(queue'[v]) <= QueueCap
  BY OutputTypes DEF DaemonStops
<1>5. viewer' \in [Viewers -> View]
  <2>1. \A v \in Viewers : [viewer[v] EXCEPT !.task = "ended"] \in View /\ viewer[v] \in View
    BY DEF TypeOK, View
  <2> QED BY <2>1 DEF DaemonStops
<1>6. used' \in [watches : 0..MaxWatches, stops : 0..MaxStops]
  BY UsedTypes DEF DaemonStops, TypeOK
<1> QED BY <1>1, <1>2, <1>3, <1>4, <1>5, <1>6, TypeKept DEF DaemonStops, TypeOK, reader

LEMMA TypeDaemonStarts == TypeOK /\ DaemonStarts => TypeOK'
BY TypeKept DEF DaemonStarts, TypeOK, threads, reader, viewers, history

\* The viewers' steps.
ViewerSteps ==
    \/ \E v \in Viewers : Watches(v) \/ ViewerShows(v)
    \/ \E v \in Pages : PageUnwatches(v)
    \/ \E v \in Sockets : SocketHangsUp(v) \/ SocketEnds(v)

\* A view with another task, or with other chunks to show, is a view.
LEMMA ViewTypes ==
    ASSUME TypeOK, NEW v \in Viewers
    PROVE  /\ \A t \in {"idle", "watching", "hungup", "ended"} :
                  [viewer EXCEPT ![v].task = t] \in [Viewers -> View]
           /\ \A c \in Seq(Chunks) : [viewer EXCEPT ![v].shows = c] \in [Viewers -> View]
           /\ [viewer EXCEPT ![v].task = "watching", ![v].shows = <<>>] \in [Viewers -> View]
<1>1. viewer \in [Viewers -> View]
  BY DEF TypeOK
<1>2. \A t \in {"idle", "watching", "hungup", "ended"}, r \in View : [r EXCEPT !.task = t] \in View
  BY DEF View
<1>3. \A c \in Seq(Chunks), r \in View : [r EXCEPT !.shows = c] \in View
  BY DEF View
<1>4. ASSUME NEW r \in View PROVE [r EXCEPT !.task = "watching", !.shows = <<>>] \in View
  <2>1. [r EXCEPT !.task = "watching", !.shows = <<>>] = [[r EXCEPT !.task = "watching"] EXCEPT !.shows = <<>>]
    OBVIOUS
  <2>2. [r EXCEPT !.task = "watching"] \in View /\ <<>> \in Seq(Chunks)
    BY <1>2
  <2> QED BY ONLY <1>3, <2>1, <2>2
<1> QED BY <1>1, <1>2, <1>3, <1>4

\* A viewer's channel, emptied or with its first event taken out of it.
LEMMA QueueTypes ==
    ASSUME TypeOK, NEW v \in Viewers
    PROVE  /\ [queue EXCEPT ![v] = <<>>] \in [Viewers -> Seq(Event)]
           /\ \A w \in Viewers : Len([queue EXCEPT ![v] = <<>>][w]) <= QueueCap
           /\ queue[v] # <<>> =>
                 /\ [queue EXCEPT ![v] = Tail(@)] \in [Viewers -> Seq(Event)]
                 /\ \A w \in Viewers : Len([queue EXCEPT ![v] = Tail(@)][w]) <= QueueCap
                 /\ Head(queue[v]) \in Event
<1>1. queue \in [Viewers -> Seq(Event)] /\ \A w \in Viewers : Len(queue[w]) <= QueueCap
  BY DEF TypeOK
<1>2. QueueCap \in Nat /\ Len(queue[v]) \in Nat
  BY <1>1, OutputTypes, LenProperties
<1>3. queue[v] # <<>> => /\ Head(queue[v]) \in Event /\ Tail(queue[v]) \in Seq(Event)
                         /\ Len(Tail(queue[v])) = Len(queue[v]) - 1
  BY <1>1, HeadTailProperties
<1>4. queue[v] # <<>> => Len(Tail(queue[v])) <= QueueCap
  BY <1>1, <1>2, <1>3
<1> QED BY <1>1, <1>2, <1>3, <1>4

LEMMA AfterType ==
    ASSUME NEW s \in Seq(Chunks), NEW e \in Event
    PROVE  After(s, e) \in Seq(Chunks)
<1>1. e.chunks \in Seq(Chunks)
  BY DEF Event
<1> QED BY <1>1, ConcatProperties DEF After

LEMMA TypeViewers == TypeOK /\ ViewerSteps => TypeOK'
<1> SUFFICES ASSUME TypeOK, ViewerSteps PROVE TypeOK'
  OBVIOUS
<1>1. ASSUME NEW v \in Viewers, Watches(v) PROVE TypeOK'
  <2>1. viewer' \in [Viewers -> View]
    BY <1>1, ViewTypes DEF Watches
  <2>2. client_rx' \in Seq(ClientMessage)
    <3>1. /\ [type |-> "UnwatchTerminal"] \in ClientMessage
          /\ [type |-> "WatchTerminal", viewer |-> v] \in ClientMessage
      BY MadeMessages
    <3>2. <<[type |-> "UnwatchTerminal"], [type |-> "WatchTerminal", viewer |-> v]>> \in Seq(ClientMessage)
      BY <3>1
    <3>3. \/ client_rx' = Append(client_rx, [type |-> "WatchTerminal", viewer |-> v])
          \/ client_rx' = client_rx \o <<[type |-> "UnwatchTerminal"],
                                         [type |-> "WatchTerminal", viewer |-> v]>>
      BY <1>1 DEF Watches, Send
    <3>4. client_rx \in Seq(ClientMessage)
      BY DEF TypeOK
    <3> QED BY <3>1, <3>2, <3>3, <3>4, SendType, ConcatProperties
  <2>3. used' \in [watches : 0..MaxWatches, stops : 0..MaxStops]
    BY <1>1, UsedTypes DEF Watches
  <2> QED BY <1>1, <2>1, <2>2, <2>3, TypeKept DEF Watches, TypeOK, wrapper, threads, reader, daemon
<1>2. ASSUME NEW v \in Viewers, ViewerShows(v) PROVE TypeOK'
  <2>1. queue' \in [Viewers -> Seq(Event)] /\ \A w \in Viewers : Len(queue'[w]) <= QueueCap
    BY <1>2, QueueTypes DEF ViewerShows
  <2>2. viewer[v].shows \in Seq(Chunks)
    BY DEF TypeOK, View
  <2>3. After(viewer[v].shows, Head(queue[v])) \in Seq(Chunks)
    BY <1>2, <2>2, QueueTypes, AfterType DEF ViewerShows
  <2>4. viewer' = [viewer EXCEPT ![v].shows = After(viewer[v].shows, Head(queue[v]))]
    BY <1>2 DEF ViewerShows
  <2>5. viewer' \in [Viewers -> View]
    BY <2>3, <2>4, ViewTypes
  <2> QED BY <1>2, <2>1, <2>5, TypeKept DEF ViewerShows, TypeOK, wrapper, threads, reader, daemon, history
<1>3. ASSUME NEW v \in Viewers, PageUnwatches(v) PROVE TypeOK'
  <2>1. viewer' \in [Viewers -> View]
    <3>1. PICK t \in {"idle", "ended"} : viewer' = [viewer EXCEPT ![v].task = t]
      BY <1>3 DEF PageUnwatches
    <3> QED BY <3>1, ViewTypes
  <2>2. queue' \in [Viewers -> Seq(Event)] /\ \A w \in Viewers : Len(queue'[w]) <= QueueCap
    BY <1>3, QueueTypes DEF PageUnwatches, TypeOK
  <2>3. client_rx' \in Seq(ClientMessage)
    BY <1>3, SendType, MadeMessages DEF PageUnwatches, Send
  <2> QED BY <1>3, <2>1, <2>2, <2>3, TypeKept
          DEF PageUnwatches, TypeOK, wrapper, threads, reader, daemon, history
<1>4. ASSUME NEW v \in Viewers, SocketHangsUp(v) PROVE TypeOK'
  <2>1. viewer' \in [Viewers -> View]
    BY <1>4, ViewTypes DEF SocketHangsUp
  <2> QED BY <1>4, <2>1, TypeKept DEF SocketHangsUp, TypeOK, wrapper, threads, reader, daemon, history
<1>5. ASSUME NEW v \in Viewers, SocketEnds(v) PROVE TypeOK'
  <2>1. viewer' \in [Viewers -> View]
    BY <1>5, ViewTypes DEF SocketEnds
  <2>2. queue' \in [Viewers -> Seq(Event)] /\ \A w \in Viewers : Len(queue'[w]) <= QueueCap
    BY <1>5, QueueTypes DEF SocketEnds
  <2>3. client_rx' \in Seq(ClientMessage)
    BY <1>5, SendType, MadeMessages DEF SocketEnds, Send
  <2> QED BY <1>5, <2>1, <2>2, <2>3, TypeKept
          DEF SocketEnds, TypeOK, wrapper, threads, reader, daemon, history
<1> QED BY <1>1, <1>2, <1>3, <1>4, <1>5 DEF ViewerSteps, Viewers

LEMMA TypeUnchanged == TypeOK /\ UNCHANGED vars => TypeOK'
BY SameChunks DEF TypeOK, vars

\* The types of the model, for every number of viewers, chunks and stops.
THEOREM TermTypeCorrect == Spec => []TypeOK
<1>1. TypeOK /\ [Next]_vars => TypeOK'
  <2>1. [Next]_vars => \/ WrapperSteps \/ MainLoop \/ DaemonStops \/ DaemonStarts \/ ViewerSteps
                       \/ UNCHANGED vars
    BY DEF Next, WrapperSteps, ViewerSteps
  <2> QED BY <2>1, TypeWrapper, TypeMainLoop, TypeDaemonStops, TypeDaemonStarts, TypeViewers,
             TypeUnchanged
<1> QED BY <1>1, TypeInit, PTL DEF Spec

------------------------------------------------------------------------------
(* Output is conserved                                                     *)

\* OutputConserved says of the stations of Way, by their numbers, what InOrder
\* says of the copy of the screen p, the requests m and the channel r.
Rising(s) == \A i, j \in DOMAIN s : i < j => s[i] < s[j]
Below(s, t) == \A c \in ToSet(s), d \in ToSet(t) : c < d
Carried(m) == IF m.type = "TerminalOutput" THEN m.chunks ELSE <<>>

InOrder(p, m, r) ==
    /\ Rising(p) /\ Rising(r) /\ Below(p, r)
    /\ \A i \in DOMAIN m : Rising(Carried(m[i])) /\ Below(p, Carried(m[i])) /\ Below(Carried(m[i]), r)
    /\ \A i, j \in DOMAIN m : i < j => Below(Carried(m[i]), Carried(m[j]))

Sent(m) == UNION {ToSet(Carried(m[i])) : i \in DOMAIN m}

Conserved(p, m, r, lost, n) ==
    /\ InOrder(p, m, r)
    /\ (ToSet(p) \cup Sent(m) \cup ToSet(r)) \cup lost = 1..n
    /\ (ToSet(p) \cup Sent(m) \cup ToSet(r)) \cap lost = {}

OutputInv == Conserved(terminal_parser, client_rx, term_data_rx, missed \cup gone, out)

LEMMA OutputIs == TypeOK /\ OutputInv => OutputConserved
<1> SUFFICES ASSUME TypeOK, OutputInv PROVE OutputConserved
  OBVIOUS
<1> DEFINE L == Len(client_rx)
<1>1. L \in Nat /\ DOMAIN client_rx = 1..L
  BY LenProperties DEF TypeOK
<1>2. /\ DOMAIN Way = 0..(L + 1)
      /\ Way[0] = terminal_parser /\ Way[L + 1] = term_data_rx
      /\ \A k \in 1..L : Way[k] = Carried(client_rx[k])
  BY <1>1 DEF Way, Carried
<1> HIDE DEF L
<1>3. \A k \in DOMAIN Way : k = 0 \/ k = L + 1 \/ k \in DOMAIN client_rx
  BY <1>1, <1>2
<1>4. InOrder(terminal_parser, client_rx, term_data_rx)
  BY DEF OutputInv, Conserved
<1>5. Ascending(Way)
  <2>1. \A k \in DOMAIN Way : Rising(Way[k])
    BY <1>1, <1>2, <1>3, <1>4 DEF InOrder
  <2>2. ASSUME NEW k \in DOMAIN Way, NEW l \in DOMAIN Way, k < l PROVE Below(Way[k], Way[l])
    <3>1. CASE k = 0 /\ l = L + 1
      BY <3>1, <1>2, <1>4 DEF InOrder
    <3>2. CASE k = 0 /\ l \in DOMAIN client_rx
      BY <3>2, <1>1, <1>2, <1>4 DEF InOrder
    <3>3. CASE k \in DOMAIN client_rx /\ l = L + 1
      BY <3>3, <1>1, <1>2, <1>4 DEF InOrder
    <3>4. CASE k \in DOMAIN client_rx /\ l \in DOMAIN client_rx
      BY <2>2, <3>4, <1>1, <1>2, <1>4 DEF InOrder
    <3> QED BY <2>2, <3>1, <3>2, <3>3, <3>4, <1>1, <1>2, <1>3
  <2> QED BY <2>1, <2>2 DEF Ascending, Rising, Below
<1>6. Held(Way) = ToSet(terminal_parser) \cup Sent(client_rx) \cup ToSet(term_data_rx)
  <2>1. 0 \in DOMAIN Way /\ L + 1 \in DOMAIN Way /\ \A k \in DOMAIN client_rx : k \in DOMAIN Way
    BY <1>1, <1>2
  <2>2. ASSUME NEW c \in Held(Way)
        PROVE  c \in ToSet(terminal_parser) \cup Sent(client_rx) \cup ToSet(term_data_rx)
    <3>1. PICK k \in DOMAIN Way : c \in ToSet(Way[k])
      BY <2>2 DEF Held
    <3> QED BY <3>1, <1>1, <1>2, <1>3 DEF Sent
  <2>3. ToSet(terminal_parser) \subseteq Held(Way) /\ ToSet(term_data_rx) \subseteq Held(Way)
    BY <1>2, <2>1 DEF Held
  <2>4. ASSUME NEW c \in Sent(client_rx) PROVE c \in Held(Way)
    <3>1. PICK k \in DOMAIN client_rx : c \in ToSet(Carried(client_rx[k]))
      BY <2>4 DEF Sent
    <3> QED BY <3>1, <1>1, <1>2, <2>1 DEF Held
  <2> QED BY <2>2, <2>3, <2>4
<1> QED BY <1>5, <1>6 DEF OutputInv, Conserved, OutputConserved

\* A message that carries no output changes nothing, at the end or at the head.
LEMMA OtherAppended ==
    ASSUME NEW S, NEW m \in Seq(S), NEW x \in S, Carried(x) = <<>>,
           NEW p, NEW r, InOrder(p, m, r)
    PROVE  InOrder(p, Append(m, x), r) /\ Sent(Append(m, x)) = Sent(m)
<1> DEFINE n == Append(m, x)
<1>1. /\ Len(m) \in Nat /\ DOMAIN m = 1..Len(m) /\ DOMAIN n = 1..(Len(m) + 1)
      /\ \A i \in DOMAIN m : n[i] = m[i]
      /\ n[Len(m) + 1] = x
  BY AppendProperties, LenProperties
<1>2. \A i \in DOMAIN n : i \in DOMAIN m \/ Carried(n[i]) = <<>>
  BY <1>1
<1>3. ToSet(<<>>) = {} /\ Rising(<<>>)
  BY DEF ToSet, Rising
<1> HIDE DEF n
<1>4. \A i \in DOMAIN n : Rising(Carried(n[i])) /\ Below(p, Carried(n[i])) /\ Below(Carried(n[i]), r)
  BY <1>1, <1>2, <1>3 DEF InOrder, Below
<1>5. \A i, j \in DOMAIN n : i < j => Below(Carried(n[i]), Carried(n[j]))
  BY <1>1, <1>2, <1>3 DEF InOrder, Below
<1>6. Sent(n) = Sent(m)
  BY <1>1, <1>2, <1>3 DEF Sent
<1> QED BY <1>4, <1>5, <1>6 DEF InOrder, n

LEMMA HeadTaken ==
    ASSUME NEW S, NEW m \in Seq(S), m # <<>>, NEW p, NEW r, InOrder(p, m, r)
    PROVE  /\ InOrder(p, Tail(m), r)
           /\ Sent(m) = ToSet(Carried(Head(m))) \cup Sent(Tail(m))
           /\ \A i \in DOMAIN Tail(m) : Below(Carried(Head(m)), Carried(Tail(m)[i]))
           /\ Rising(Carried(Head(m))) /\ Below(p, Carried(Head(m))) /\ Below(Carried(Head(m)), r)
<1> DEFINE n == Tail(m)
<1>1. /\ Len(m) \in Nat /\ Len(m) > 0 /\ DOMAIN m = 1..Len(m) /\ DOMAIN n = 1..(Len(m) - 1)
      /\ \A i \in DOMAIN n : n[i] = m[i + 1]
      /\ Head(m) = m[1]
  BY HeadTailProperties, LenProperties, EmptySeq
<1> HIDE DEF n
<1>2. \A i \in DOMAIN n : i + 1 \in DOMAIN m /\ 1 < i + 1
  BY <1>1
<1>3. 1 \in DOMAIN m
  BY <1>1
<1>4. \A i \in DOMAIN n : Rising(Carried(n[i])) /\ Below(p, Carried(n[i])) /\ Below(Carried(n[i]), r)
  BY <1>1, <1>2 DEF InOrder
<1>5. \A i, j \in DOMAIN n : i < j => Below(Carried(n[i]), Carried(n[j]))
  BY <1>1, <1>2 DEF InOrder
<1>6. Sent(m) = ToSet(Carried(m[1])) \cup Sent(n)
  <2>1. \A i \in DOMAIN m : i = 1 \/ (i - 1 \in DOMAIN n /\ n[i - 1] = m[i])
    BY <1>1
  <2> QED BY <1>1, <1>2, <1>3, <2>1 DEF Sent
<1>7. \A i \in DOMAIN n : Below(Carried(m[1]), Carried(n[i]))
  BY <1>1, <1>2, <1>3 DEF InOrder
<1>8. Rising(Carried(m[1])) /\ Below(p, Carried(m[1])) /\ Below(Carried(m[1]), r)
  BY <1>3 DEF InOrder
<1> QED BY <1>1, <1>4, <1>5, <1>6, <1>7, <1>8 DEF InOrder, n

\* Two pieces in order make one, and one makes two.
InTwo(u, s, t) ==
    /\ ToSet(u) = ToSet(s) \cup ToSet(t)
    /\ Rising(u) <=> Rising(s) /\ Rising(t) /\ Below(s, t)

LEMMA Together ==
    ASSUME NEW S, NEW s \in Seq(S), NEW t \in Seq(S)
    PROVE  InTwo(s \o t, s, t)
<1> DEFINE u == s \o t
<1>1. /\ Len(s) \in Nat /\ Len(t) \in Nat
      /\ DOMAIN s = 1..Len(s) /\ DOMAIN t = 1..Len(t) /\ DOMAIN u = 1..(Len(s) + Len(t))
      /\ \A i \in DOMAIN s : u[i] = s[i]
      /\ \A i \in DOMAIN t : u[Len(s) + i] = t[i]
  BY ConcatProperties, LenProperties
<1> HIDE DEF u
<1>2. \A i \in DOMAIN u : i \in DOMAIN s \/ (i - Len(s) \in DOMAIN t /\ u[i] = t[i - Len(s)] /\ i > Len(s))
  BY <1>1
<1>3. \A i \in DOMAIN s : i \in DOMAIN u
  BY <1>1
<1>4. \A i \in DOMAIN t : Len(s) + i \in DOMAIN u
  BY <1>1
<1>5. ToSet(u) = ToSet(s) \cup ToSet(t)
  BY <1>1, <1>2, <1>3, <1>4 DEF ToSet
<1>6. ASSUME Rising(u) PROVE Rising(s) /\ Rising(t) /\ Below(s, t)
  <2>1. Rising(s)
    BY <1>1, <1>3, <1>6 DEF Rising
  <2>2. \A i, j \in DOMAIN t : i < j => Len(s) + i < Len(s) + j
    BY <1>1
  <2>3. Rising(t)
    BY <1>1, <1>4, <1>6, <2>2 DEF Rising
  <2>4. \A i \in DOMAIN s, j \in DOMAIN t : i < Len(s) + j
    BY <1>1
  <2>5. Below(s, t)
    BY <1>1, <1>3, <1>4, <1>6, <2>4 DEF Rising, Below, ToSet
  <2> QED BY <2>1, <2>3, <2>5
<1>7. ASSUME Rising(s), Rising(t), Below(s, t) PROVE Rising(u)
  <2> SUFFICES ASSUME NEW i \in DOMAIN u, NEW j \in DOMAIN u, i < j PROVE u[i] < u[j]
    BY DEF Rising
  <2>1. CASE i \in DOMAIN s /\ j \in DOMAIN s
    BY <2>1, <1>1, <1>7 DEF Rising
  <2>2. CASE i \in DOMAIN s /\ j \notin DOMAIN s
    BY <2>2, <1>1, <1>2, <1>7 DEF Below, ToSet
  <2>3. CASE i \notin DOMAIN s /\ j \notin DOMAIN s
    <3>1. i - Len(s) < j - Len(s)
      BY <1>1
    <3> QED BY <2>3, <3>1, <1>2, <1>7 DEF Rising
  <2>4. CASE i \notin DOMAIN s /\ j \in DOMAIN s
    BY <2>4, <1>1, <1>2
  <2> QED BY <2>1, <2>2, <2>3, <2>4
<1> QED BY <1>5, <1>6, <1>7 DEF u, InTwo

LEMMA TwoPieces ==
    ASSUME NEW S, NEW r \in Seq(S), NEW n \in 0..Len(r)
    PROVE  /\ SubSeq(r, 1, n) \in Seq(S) /\ SubSeq(r, n + 1, Len(r)) \in Seq(S)
           /\ r = SubSeq(r, 1, n) \o SubSeq(r, n + 1, Len(r))
<1>1. Len(r) \in Nat
  BY LenProperties
<1>2. SubSeq(r, 1, n) \in Seq(S) /\ SubSeq(r, n + 1, Len(r)) \in Seq(S)
  BY <1>1, SubSeqProperties
<1>3. /\ Len(SubSeq(r, 1, n)) = n /\ Len(SubSeq(r, n + 1, Len(r))) = Len(r) - n
      /\ \A i \in 1..n : SubSeq(r, 1, n)[i] = r[i]
      /\ \A i \in 1..(Len(r) - n) : SubSeq(r, n + 1, Len(r))[i] = r[n + i]
  BY <1>1, SubSeqProperties
<1> DEFINE a == SubSeq(r, 1, n)
           b == SubSeq(r, n + 1, Len(r))
<1>4. /\ a \o b \in Seq(S) /\ Len(a \o b) = Len(r)
      /\ \A i \in 1..n : (a \o b)[i] = r[i]
      /\ \A i \in (n + 1)..Len(r) : (a \o b)[i] = r[i]
  <2> HIDE DEF a, b
  <2>1. a \o b \in Seq(S) /\ Len(a \o b) = Len(a) + Len(b)
    BY <1>2, ConcatProperties DEF a, b
  <2>2. \A i \in 1..(Len(a) + Len(b)) : (a \o b)[i] = IF i <= Len(a) THEN a[i] ELSE b[i - Len(a)]
    BY <1>2, ConcatProperties DEF a, b
  <2>3. Len(a) = n /\ Len(b) = Len(r) - n /\ (\A i \in 1..n : a[i] = r[i])
        /\ \A i \in 1..(Len(r) - n) : b[i] = r[n + i]
    BY <1>3 DEF a, b
  <2>4. \A i \in (n + 1)..Len(r) : i - n \in 1..(Len(r) - n) /\ n + (i - n) = i
    BY <1>1
  <2>5. Len(a \o b) = Len(r) /\ \A i \in 1..Len(r) : (a \o b)[i] = IF i <= n THEN a[i] ELSE b[i - n]
    BY ONLY <1>1, <2>1, <2>2, <2>3, n \in 0..Len(r)
  <2>6. \A i \in 1..n : i \in 1..Len(r) /\ i <= n
    BY <1>1
  <2>7. \A i \in (n + 1)..Len(r) : i \in 1..Len(r) /\ ~(i <= n)
    BY <1>1
  <2>8. \A i \in 1..n : (a \o b)[i] = r[i]
    BY ONLY <2>3, <2>5, <2>6
  <2>9. \A i \in (n + 1)..Len(r) : (a \o b)[i] = r[i]
    BY ONLY <2>3, <2>4, <2>5, <2>7
  <2> QED BY ONLY <2>1, <2>5, <2>8, <2>9
<1>5. \A i \in 1..Len(r) : i \in 1..n \/ i \in (n + 1)..Len(r)
  BY <1>1
<1>6. a \o b = r
  <2> HIDE DEF a, b
  <2> QED BY <1>1, <1>4, <1>5, SeqEqual
<1> QED BY <1>2, <1>6

\* What is below is not above.
LEMMA Apart ==
    ASSUME NEW s, NEW t, Below(s, t), ToSet(s) \subseteq Nat
    PROVE  ToSet(s) \cap ToSet(t) = {}
BY DEF Below

\* A batch is taken off the channel: thrown away, or sent as a message.
Taken(p, m, r, a, b) ==
    /\ InOrder(p, m, b) /\ ToSet(r) = ToSet(a) \cup ToSet(b)
    /\ Below(p, a) /\ \A i \in DOMAIN m : Below(Carried(m[i]), a)
    /\ Rising(a) /\ Below(a, b)

LEMMA BatchTaken ==
    ASSUME NEW p, NEW m, NEW r \in Seq(Nat), NEW a \in Seq(Nat), NEW b \in Seq(Nat), r = a \o b,
           InOrder(p, m, r)
    PROVE  Taken(p, m, r, a, b)
<1>1. ToSet(r) = ToSet(a) \cup ToSet(b) /\ Rising(a) /\ Rising(b) /\ Below(a, b)
  BY Together DEF InOrder, InTwo
<1>2. InOrder(p, m, b) /\ Below(p, a) /\ \A i \in DOMAIN m : Below(Carried(m[i]), a)
  BY <1>1 DEF InOrder, Below
<1> QED BY <1>1, <1>2 DEF Taken

LEMMA BatchSent ==
    ASSUME NEW S, NEW m \in Seq(S), NEW x \in S, NEW p, NEW b,
           InOrder(p, m, b), Rising(Carried(x)), Below(p, Carried(x)), Below(Carried(x), b),
           \A i \in DOMAIN m : Below(Carried(m[i]), Carried(x))
    PROVE  InOrder(p, Append(m, x), b) /\ Sent(Append(m, x)) = Sent(m) \cup ToSet(Carried(x))
<1> DEFINE n == Append(m, x)
<1>1. /\ Len(m) \in Nat /\ DOMAIN m = 1..Len(m) /\ DOMAIN n = 1..(Len(m) + 1)
      /\ \A i \in DOMAIN m : n[i] = m[i]
      /\ n[Len(m) + 1] = x
  BY AppendProperties, LenProperties
<1> HIDE DEF n
<1>2. \A i \in DOMAIN n : (i \in DOMAIN m /\ i <= Len(m)) \/ i = Len(m) + 1
  <2>1. \A l \in Nat : \A i \in 1..(l + 1) : (i \in 1..l /\ i <= l) \/ i = l + 1
    OBVIOUS
  <2> QED BY ONLY <1>1, <2>1
<1>3. \A i \in DOMAIN n : Rising(Carried(n[i])) /\ Below(p, Carried(n[i])) /\ Below(Carried(n[i]), b)
  BY <1>1, <1>2 DEF InOrder
<1>4. ASSUME NEW i \in DOMAIN n, NEW j \in DOMAIN n, i < j PROVE Below(Carried(n[i]), Carried(n[j]))
  <2>1. i \in DOMAIN m
    BY <1>1, <1>2, <1>4
  <2> QED BY <1>1, <1>2, <1>4, <2>1 DEF InOrder
<1>5. Sent(n) = Sent(m) \cup ToSet(Carried(x))
  <2>1. Len(m) + 1 \in DOMAIN n /\ \A i \in DOMAIN m : i \in DOMAIN n
    BY <1>1
  <2> QED BY <1>1, <1>2, <2>1 DEF Sent
<1> QED BY <1>3, <1>4, <1>5 DEF InOrder, n

LEMMA OutputInit == Init => OutputInv
<1> SUFFICES ASSUME Init PROVE OutputInv
  OBVIOUS
<1>1. ToSet(<<>>) = {} /\ Rising(<<>>) /\ Below(<<>>, <<>>)
  BY DEF ToSet, Rising, Below
<1>2. \A i \in DOMAIN client_rx : Carried(client_rx[i]) = <<>>
  BY DEF Init, Carried
<1>3. InOrder(<<>>, client_rx, <<>>) /\ Sent(client_rx) = {}
  BY <1>1, <1>2 DEF InOrder, Sent
<1>4. 1..0 = {}
  OBVIOUS
<1> QED BY <1>1, <1>3, <1>4 DEF Init, OutputInv, Conserved

\* Chunks are numbers, wherever they are.
LEMMA ChunksAreNumbers ==
    ASSUME TypeOK
    PROVE  /\ Chunks \subseteq Nat /\ out \in Nat
           /\ term_data_rx \in Seq(Nat) /\ terminal_parser \in Seq(Nat)
           /\ ToSet(term_data_rx) \subseteq Chunks /\ ToSet(terminal_parser) \subseteq Chunks
           /\ client_rx \in Seq(ClientMessage)
           /\ \A m \in ClientMessage : Carried(m) \in Seq(Nat) /\ ToSet(Carried(m)) \subseteq Nat
<1>1. Chunks \subseteq Nat /\ out \in Nat
  BY DEF TypeOK, Chunks
<1>2. Seq(Chunks) \subseteq Seq(Nat)
  BY <1>1, SeqMonotonic
<1>3. \A m \in ClientMessage : Carried(m) \in Seq(Nat)
  BY <1>2, ReadMessages DEF Carried
<1>4. \A s \in Seq(Nat) : ToSet(s) \subseteq Nat
  BY DEF ToSet
<1>5. \A s \in Seq(Chunks) : ToSet(s) \subseteq Chunks
  BY DEF ToSet
<1> QED BY <1>1, <1>2, <1>3, <1>4, <1>5 DEF TypeOK

LEMMA OutputReadPty == TypeOK /\ OutputInv /\ ReadPty => OutputInv'
<1> SUFFICES ASSUME TypeOK, OutputInv, ReadPty PROVE OutputInv'
  OBVIOUS
<1> DEFINE p == terminal_parser
           m == client_rx
           r == term_data_rx
           c == out + 1
           held == ToSet(p) \cup Sent(m) \cup ToSet(r)
           lost == missed \cup gone
<1>1. /\ InOrder(p, m, r) /\ held \cup lost = 1..out /\ held \cap lost = {}
      /\ r \in Seq(Nat) /\ out \in Nat
  BY ChunksAreNumbers DEF OutputInv, Conserved
<1>2. terminal_parser' = p /\ client_rx' = m /\ gone' = gone /\ out' = c
  BY DEF ReadPty, daemon
<1>3. c \notin 1..out /\ 1..c = 1..out \cup {c} /\ \A d \in 1..out : d < c
  BY <1>1
<1>4. CASE term_data_rx' = r /\ missed' = missed \cup {c}
  BY ONLY <1>1, <1>2, <1>3, <1>4 DEF OutputInv, Conserved
<1>5. CASE term_data_rx' = Append(r, c) /\ missed' = missed
  <2>1. Append(r, c) = r \o <<c>> /\ <<c>> \in Seq(Nat) /\ c \in Nat
    BY <1>1, AppendIsConcat
  <2>2. ToSet(<<c>>) = {c} /\ Rising(<<c>>)
    BY DEF ToSet, Rising
  <2>3. \A s : ToSet(s) \subseteq held => Below(s, <<c>>)
    BY ONLY <1>1, <1>3, <2>2 DEF Below
  <2>4. \A i \in DOMAIN m : ToSet(Carried(m[i])) \subseteq held
    BY DEF Sent
  <2>5. Below(p, <<c>>) /\ Below(r, <<c>>) /\ \A i \in DOMAIN m : Below(Carried(m[i]), <<c>>)
    BY ONLY <2>3, <2>4
  <2>6. Rising(r \o <<c>>) /\ ToSet(r \o <<c>>) = ToSet(r) \cup {c}
    <3>1. Rising(r)
      BY <1>1 DEF InOrder
    <3> HIDE DEF r, c
    <3>2. InTwo(r \o <<c>>, r, <<c>>)
      BY ONLY <1>1, <2>1, Together
    <3> QED BY ONLY <2>2, <2>5, <3>1, <3>2 DEF InTwo
  <2>7. \A s : Below(s, r) /\ Below(s, <<c>>) => Below(s, r \o <<c>>)
    BY ONLY <2>2, <2>6 DEF Below
  <2>8. InOrder(p, m, r \o <<c>>)
    BY ONLY <1>1, <2>5, <2>6, <2>7 DEF InOrder
  <2>9. (ToSet(p) \cup Sent(m) \cup ToSet(r \o <<c>>)) \cup lost = 1..c
        /\ (ToSet(p) \cup Sent(m) \cup ToSet(r \o <<c>>)) \cap lost = {}
    BY ONLY <1>1, <1>3, <2>6
  <2>10. term_data_rx' = r \o <<c>> /\ (missed \cup gone)' = lost
    BY <1>2, <1>5, <2>1
  <2> QED BY ONLY <1>2, <2>8, <2>9, <2>10 DEF OutputInv, Conserved
<1> QED BY <1>4, <1>5 DEF ReadPty

\* A step that neither adds nor takes output.
LEMMA OutputKept ==
    ASSUME OutputInv, terminal_parser' = terminal_parser, term_data_rx' = term_data_rx,
           out' = out, missed' = missed, gone' = gone,
           InOrder(terminal_parser, client_rx', term_data_rx), Sent(client_rx') = Sent(client_rx)
    PROVE  OutputInv'
BY DEF OutputInv, Conserved

LEMMA OutputDataSends == TypeOK /\ OutputInv /\ DataSends => OutputInv'
<1> SUFFICES ASSUME TypeOK, OutputInv, DataSends PROVE OutputInv'
  OBVIOUS
<1> DEFINE p == terminal_parser
           m == client_rx
           r == term_data_rx
           n == IF Len(r) < BatchMax THEN Len(r) ELSE BatchMax
           a == SubSeq(r, 1, n)
           b == SubSeq(r, n + 1, Len(r))
           x == [type |-> "TerminalOutput", chunks |-> a]
           lost == missed \cup gone
<1>1. r \in Seq(Nat) /\ r \in Seq(Chunks) /\ Len(r) \in Nat /\ BatchMax \in Nat /\ m \in Seq(ClientMessage)
  BY ChunksAreNumbers, OutputTypes, LenProperties DEF TypeOK
<1>2. n \in 0..Len(r)
  BY <1>1
<1>3. term_data_rx' = b /\ terminal_parser' = p /\ gone' = gone /\ out' = out
  BY DEF DataSends, daemon
<1>4. \/ client_rx' = Append(m, x) /\ missed' = missed
      \/ client_rx' = m /\ missed' = missed \cup ToSet(a)
  BY DEF DataSends, Send
<1> HIDE DEF n
<1>5. a \in Seq(Nat) /\ b \in Seq(Nat) /\ r = a \o b /\ a \in Seq(Chunks)
  BY ONLY <1>1, <1>2, TwoPieces
<1>6. x \in ClientMessage /\ Carried(x) = a
  BY ONLY <1>5, MadeMessages DEF Carried
<1>7. InOrder(p, m, r) /\ (ToSet(p) \cup Sent(m) \cup ToSet(r)) \cup lost = 1..out
      /\ (ToSet(p) \cup Sent(m) \cup ToSet(r)) \cap lost = {}
  BY DEF OutputInv, Conserved
<1> HIDE DEF a, b, x
<1>8. /\ InOrder(p, m, b) /\ ToSet(r) = ToSet(a) \cup ToSet(b)
      /\ Below(p, a) /\ \A i \in DOMAIN m : Below(Carried(m[i]), a)
      /\ Below(a, b)
      /\ InOrder(p, Append(m, x), b) /\ Sent(Append(m, x)) = Sent(m) \cup ToSet(a)
  <2>1. InOrder(p, m, r)
    BY <1>7
  <2>2. Taken(p, m, r, a, b)
    BY ONLY <1>1, <1>5, <2>1, BatchTaken
  <2>3. InOrder(p, Append(m, x), b) /\ Sent(Append(m, x)) = Sent(m) \cup ToSet(Carried(x))
    BY ONLY <1>1, <1>6, <2>2, BatchSent DEF Taken
  <2> QED BY ONLY <1>6, <2>2, <2>3 DEF Taken
<1>9. CASE client_rx' = Append(m, x) /\ missed' = missed
  BY ONLY <1>3, <1>7, <1>8, <1>9 DEF OutputInv, Conserved
<1>10. CASE client_rx' = m /\ missed' = missed \cup ToSet(a)
  <2>1. ToSet(p) \cap ToSet(a) = {} /\ ToSet(a) \cap ToSet(b) = {}
    <3>1. ToSet(p) \subseteq Nat /\ ToSet(a) \subseteq Nat
      BY <1>5, ChunksAreNumbers DEF ToSet
    <3> QED BY <1>8, <3>1, Apart
  <2>2. Sent(m) \cap ToSet(a) = {}
    <3>1. \A i \in DOMAIN m : ToSet(Carried(m[i])) \subseteq Nat
      BY <1>1, ChunksAreNumbers
    <3>2. \A i \in DOMAIN m : ToSet(Carried(m[i])) \cap ToSet(a) = {}
      BY <1>8, <3>1, Apart
    <3> QED BY <3>2 DEF Sent
  <2> QED BY ONLY <1>3, <1>7, <1>8, <1>10, <2>1, <2>2 DEF OutputInv, Conserved
<1> QED BY <1>4, <1>9, <1>10

\* No request but TerminalOutput carries output.
LEMMA CarriesNone ==
    /\ \A v \in Viewers : Carried([type |-> "WatchTerminal", viewer |-> v]) = <<>>
    /\ \A t \in {"UnwatchTerminal", "RegisterWrapper", "UnregisterWrapper"} : Carried([type |-> t]) = <<>>
BY DEF Carried

LEMMA OutputSend ==
    ASSUME TypeOK, OutputInv, NEW x \in ClientMessage, Carried(x) = <<>>
    PROVE  /\ InOrder(terminal_parser, Append(client_rx, x), term_data_rx)
           /\ Sent(Append(client_rx, x)) = Sent(client_rx)
BY OtherAppended DEF TypeOK, OutputInv, Conserved

\* The steps of the wrapper and of the viewers that only send requests.
LEMMA OutputRequests ==
    ASSUME TypeOK, OutputInv,
           \/ DataConnects \/ Reconnect \/ WrapperExits \/ DaemonStarts \/ ViewerSteps
           \/ UNCHANGED vars
    PROVE  OutputInv'
<1> DEFINE Requested == /\ InOrder(terminal_parser, client_rx', term_data_rx)
                        /\ Sent(client_rx') = Sent(client_rx)
<1>1. client_rx' = client_rx => Requested
  BY DEF OutputInv, Conserved
<1>2. \A x \in ClientMessage : client_rx' = Append(client_rx, x) /\ Carried(x) = <<>> => Requested
  BY OutputSend
<1>3. ASSUME NEW v \in Viewers,
             client_rx' = client_rx \o <<[type |-> "UnwatchTerminal"],
                                         [type |-> "WatchTerminal", viewer |-> v]>>
      PROVE  Requested
  <2> DEFINE x == [type |-> "UnwatchTerminal"]
             y == [type |-> "WatchTerminal", viewer |-> v]
  <2>1. x \in ClientMessage /\ y \in ClientMessage /\ Carried(x) = <<>> /\ Carried(y) = <<>>
    BY MadeMessages, CarriesNone
  <2> HIDE DEF x, y
  <2>2. client_rx \in Seq(ClientMessage)
    BY DEF TypeOK
  <2>3. client_rx \o <<x, y>> = Append(Append(client_rx, x), y)
    BY <2>1, <2>2
  <2>4. /\ Append(client_rx, x) \in Seq(ClientMessage)
        /\ InOrder(terminal_parser, Append(client_rx, x), term_data_rx)
        /\ Sent(Append(client_rx, x)) = Sent(client_rx)
    BY <2>1, OutputSend, SendType
  <2>5. /\ InOrder(terminal_parser, Append(Append(client_rx, x), y), term_data_rx)
        /\ Sent(Append(Append(client_rx, x), y)) = Sent(Append(client_rx, x))
    BY <2>1, <2>4, OtherAppended
  <2>6. client_rx' = Append(Append(client_rx, x), y)
    BY <1>3, <2>3 DEF x, y
  <2> QED BY ONLY <2>4, <2>5, <2>6
<1>4. Requested
  <2> HIDE DEF Requested
  <2>1. CASE DataConnects \/ DaemonStarts \/ UNCHANGED vars
    BY <1>1, <2>1 DEF DataConnects, DaemonStarts, vars
  <2>2. CASE Reconnect
    BY <1>2, <2>2, MadeMessages, CarriesNone DEF Reconnect, PassedOn
  <2>3. CASE WrapperExits
    BY <1>1, <1>2, <2>3, MadeMessages, CarriesNone DEF WrapperExits, Send
  <2>4. ASSUME NEW v \in Viewers, Watches(v) PROVE Requested
    BY <1>2, <1>3, <2>4, MadeMessages, CarriesNone DEF Watches, Send
  <2>5. ASSUME NEW v \in Viewers, ViewerShows(v) \/ SocketHangsUp(v) PROVE Requested
    BY <1>1, <2>5 DEF ViewerShows, SocketHangsUp
  <2>6. ASSUME NEW v \in Viewers, PageUnwatches(v) \/ SocketEnds(v) PROVE Requested
    BY <1>2, <2>6, MadeMessages, CarriesNone DEF PageUnwatches, SocketEnds, Send
  <2> QED BY <2>1, <2>2, <2>3, <2>4, <2>5, <2>6 DEF ViewerSteps, Viewers
<1>5. /\ terminal_parser' = terminal_parser /\ term_data_rx' = term_data_rx
      /\ out' = out /\ missed' = missed /\ gone' = gone
  BY DEF DataConnects, Reconnect, WrapperExits, DaemonStarts, ViewerSteps, vars, Watches, ViewerShows,
         PageUnwatches, SocketHangsUp, SocketEnds, reader, daemon, wrapper, history
<1> QED BY <1>4, <1>5, OutputKept

LEMMA OutputHandled ==
    ASSUME TypeOK, OutputInv, HandleTerminalOutput
    PROVE  OutputInv'
<1> DEFINE p == terminal_parser
           m == client_rx
           a == Head(m).chunks
<1>1. m \in Seq(ClientMessage) /\ m # <<>> /\ Head(m).type = "TerminalOutput" /\ client_rx' = Tail(m)
  BY DEF TypeOK, HandleTerminalOutput, Receive
<1>2. Carried(Head(m)) = a /\ a \in Seq(Nat) /\ p \in Seq(Nat)
  <2>1. Head(m) \in ClientMessage
    BY <1>1, HeadTailProperties
  <2> QED BY <1>1, <2>1, ChunksAreNumbers DEF Carried
<1>3. InOrder(p, m, term_data_rx)
  BY DEF OutputInv, Conserved
<1>4. /\ InOrder(p, Tail(m), term_data_rx)
      /\ Sent(m) = ToSet(a) \cup Sent(Tail(m))
      /\ \A i \in DOMAIN Tail(m) : Below(a, Carried(Tail(m)[i]))
      /\ Rising(a) /\ Below(p, a) /\ Below(a, term_data_rx)
  BY ONLY <1>1, <1>2, <1>3, HeadTaken
<1>5. ToSet(p \o a) = ToSet(p) \cup ToSet(a) /\ Rising(p \o a)
  <2>1. InTwo(p \o a, p, a)
    BY ONLY <1>2, Together
  <2> QED BY ONLY <1>3, <1>4, <2>1 DEF InOrder, InTwo
<1>6. \A s : Below(p, s) /\ Below(a, s) => Below(p \o a, s)
  BY ONLY <1>5 DEF Below
<1>7. InOrder(p \o a, Tail(m), term_data_rx)
  BY ONLY <1>4, <1>5, <1>6 DEF InOrder
<1>8. /\ terminal_parser' = p \o a /\ term_data_rx' = term_data_rx
      /\ missed' = missed /\ gone' = gone /\ out' = out
  BY DEF HandleTerminalOutput, reader, history
<1> HIDE DEF p, m, a
<1> QED BY ONLY <1>1, <1>4, <1>5, <1>7, <1>8, OutputInv DEF OutputInv, Conserved, p, m

LEMMA OutputOtherHandled ==
    ASSUME TypeOK, OutputInv,
           HandleWatchTerminal \/ HandleUnwatchTerminal \/ HandleRegisterWrapper \/ HandleUnregisterWrapper
    PROVE  OutputInv'
<1> DEFINE p == terminal_parser
           m == client_rx
<1>1. m \in Seq(ClientMessage) /\ m # <<>> /\ Head(m).type # "TerminalOutput" /\ client_rx' = Tail(m)
  BY DEF TypeOK, HandleWatchTerminal, HandleUnwatchTerminal, HandleRegisterWrapper,
         HandleUnregisterWrapper, Receive
<1>2. InOrder(p, m, term_data_rx)
  BY DEF OutputInv, Conserved
<1>3. Carried(Head(m)) = <<>> /\ ToSet(<<>>) = {}
  BY <1>1 DEF Carried, ToSet
<1>4. InOrder(p, Tail(m), term_data_rx) /\ Sent(m) = Sent(Tail(m))
  <2>1. /\ InOrder(p, Tail(m), term_data_rx)
        /\ Sent(m) = ToSet(Carried(Head(m))) \cup Sent(Tail(m))
    BY ONLY <1>1, <1>2, HeadTaken
  <2> QED BY <1>3, <2>1
<1>5. term_data_rx' = term_data_rx /\ missed' = missed /\ out' = out
  BY DEF HandleWatchTerminal, HandleUnwatchTerminal, HandleRegisterWrapper, HandleUnregisterWrapper,
         reader, history
<1>6. CASE terminal_parser' = p /\ gone' = gone
  BY <1>1, <1>4, <1>5, <1>6, OutputKept
<1>7. CASE terminal_parser' = <<>> /\ gone' = gone \cup ToSet(p)
  <2>1. Rising(<<>>) /\ \A s : Below(<<>>, s)
    BY <1>3 DEF Rising, Below
  <2>2. InOrder(<<>>, Tail(m), term_data_rx)
    BY <1>4, <2>1 DEF InOrder
  <2>3. ToSet(p) \cap (Sent(m) \cup ToSet(term_data_rx)) = {}
    <3>1. ToSet(p) \subseteq Nat
      BY ChunksAreNumbers
    <3>2. ToSet(p) \cap ToSet(term_data_rx) = {} /\ \A i \in DOMAIN m : ToSet(p) \cap ToSet(Carried(m[i])) = {}
      BY <1>2, <3>1, Apart DEF InOrder
    <3> QED BY <3>2 DEF Sent
  <2>4. Conserved(p, m, term_data_rx, missed \cup gone, out)
    BY DEF OutputInv
  <2> HIDE DEF p, m
  <2> QED BY ONLY <1>1, <1>3, <1>4, <1>5, <1>7, <2>2, <2>3, <2>4 DEF OutputInv, Conserved
<1> QED BY <1>6, <1>7 DEF HandleWatchTerminal, HandleUnwatchTerminal, HandleRegisterWrapper,
        HandleUnregisterWrapper, history

LEMMA OutputStops == TypeOK /\ OutputInv /\ DaemonStops => OutputInv'
<1> SUFFICES ASSUME TypeOK, OutputInv, DaemonStops PROVE OutputInv'
  OBVIOUS
<1> DEFINE p == terminal_parser
           m == client_rx
           r == term_data_rx
<1>1. /\ terminal_parser' = <<>> /\ client_rx' = <<>> /\ term_data_rx' = r /\ out' = out
      /\ missed' = missed
      /\ gone' = gone \cup ToSet(p) \cup UNION {ToSet(y.chunks) : y \in Unhandled}
  BY DEF DaemonStops, reader
<1>2. UNION {ToSet(y.chunks) : y \in Unhandled} = Sent(m)
  <2>1. ToSet(<<>>) = {}
    BY DEF ToSet
  <2>2. Unhandled = {y \in {m[i] : i \in DOMAIN m} : y.type = "TerminalOutput"}
    BY DEF Unhandled, ToSet
  <2>3. ASSUME NEW c \in Sent(m) PROVE \E y \in Unhandled : c \in ToSet(y.chunks)
    <3>1. PICK i \in DOMAIN m : c \in ToSet(Carried(m[i]))
      BY <2>3 DEF Sent
    <3>2. m[i].type = "TerminalOutput" /\ c \in ToSet(m[i].chunks)
      BY <2>1, <3>1 DEF Carried
    <3> QED BY <2>2, <3>1, <3>2
  <2>4. ASSUME NEW y \in Unhandled PROVE ToSet(y.chunks) \subseteq Sent(m)
    <3>1. PICK i \in DOMAIN m : y = m[i] /\ m[i].type = "TerminalOutput"
      BY <2>2, <2>4
    <3>2. ToSet(y.chunks) = ToSet(Carried(m[i]))
      BY <3>1 DEF Carried
    <3> QED BY <3>1, <3>2 DEF Sent
  <2> QED BY <2>3, <2>4
<1>3. Conserved(p, m, r, missed \cup gone, out)
  BY DEF OutputInv
<1>4. (ToSet(p) \cup Sent(m)) \cap ToSet(r) = {}
  <2>1. InOrder(p, m, r) /\ ToSet(p) \subseteq Nat /\ \A i \in DOMAIN m : ToSet(Carried(m[i])) \subseteq Nat
    BY <1>3, ChunksAreNumbers DEF Conserved, TypeOK
  <2>2. ToSet(p) \cap ToSet(r) = {} /\ \A i \in DOMAIN m : ToSet(Carried(m[i])) \cap ToSet(r) = {}
    BY <2>1, Apart DEF InOrder
  <2> QED BY <2>2 DEF Sent
<1>5. InOrder(<<>>, <<>>, r) /\ Sent(<<>>) = {} /\ ToSet(<<>>) = {}
  BY <1>3 DEF Conserved, InOrder, Sent, ToSet, Rising, Below
<1> HIDE DEF p, m, r
<1>6. (missed \cup gone)' = missed \cup gone \cup ToSet(p) \cup Sent(m)
  BY <1>1, <1>2
<1> QED BY ONLY <1>1, <1>3, <1>4, <1>5, <1>6 DEF OutputInv, Conserved

\* The invariant and the types are all it takes: no step reorders or doubles
\* a chunk, and each says which it loses.
LEMMA OutputStep == TypeOK /\ OutputInv /\ [Next]_vars => OutputInv'
<1> SUFFICES ASSUME TypeOK, OutputInv, [Next]_vars PROVE OutputInv'
  OBVIOUS
<1>1. \/ WrapperSteps \/ MainLoop \/ DaemonStops \/ DaemonStarts \/ ViewerSteps \/ UNCHANGED vars
  BY DEF Next, WrapperSteps, ViewerSteps
<1> QED BY <1>1, OutputReadPty, OutputDataSends, OutputRequests, OutputHandled, OutputOtherHandled,
           OutputStops DEF WrapperSteps, AgentWrites, AgentRedraws, MainLoop

\* Every chunk the reader thread has read is on the way to the daemon's copy of
\* the screen, once and in its place, or it was dropped or lost (DataSends,
\* HandleTerminalOutput), whatever the channels hold and the daemon does.
THEOREM OutputConservedHolds == Spec => []OutputConserved
BY OutputStep, OutputInit, OutputIs, TermTypeCorrect, PTL DEF Spec

------------------------------------------------------------------------------
(* Snapshot and stream                                                     *)

\* The daemon may still serve the wrapper's session. Once it has unregistered
\* it never does again: nobody registers any more.
Serving == running \/ session \/ \E x \in ToSet(client_rx) : x.type = "RegisterWrapper"

Pending(v) == [type |-> "WatchTerminal", viewer |-> v] \in ToSet(client_rx)

\* Registrations come before the end of the session.
TurnInv ==
    \A j \in DOMAIN client_rx : client_rx[j].type = "UnregisterWrapper" =>
        ~running /\ \A i \in DOMAIN client_rx : client_rx[i].type = "RegisterWrapper" => i < j

FullInv == \A x \in ToSet(client_rx) : x.type = "TerminalOutput" => x.chunks # <<>>

\* While the daemon has no screen nobody has anything to show of it.
FreshInv ==
    Serving /\ terminal_parser = <<>> =>
        \A v \in Viewers :
            /\ queue[v] = <<>>
            /\ v \in terminal_subscribers \/ Pending(v) => Closed(v) \/ viewer[v].shows = <<>>

JoinInv ==
    Serving => \A v \in terminal_subscribers \ blind :
        Closed(v) \/ Pending(v) \/ Joins(viewer[v].shows, queue[v], terminal_parser)

\* The requests after one more, and after the first.
LEMMA OneMore ==
    ASSUME NEW S, NEW m \in Seq(S), NEW x \in S
    PROVE  /\ ToSet(Append(m, x)) = ToSet(m) \cup {x}
           /\ Len(m) \in Nat /\ DOMAIN m = 1..Len(m) /\ DOMAIN Append(m, x) = 1..(Len(m) + 1)
           /\ \A i \in DOMAIN m : Append(m, x)[i] = m[i]
           /\ Append(m, x)[Len(m) + 1] = x
<1> DEFINE n == Append(m, x)
<1>1. /\ Len(m) \in Nat /\ DOMAIN m = 1..Len(m) /\ DOMAIN n = 1..(Len(m) + 1)
      /\ \A i \in DOMAIN m : n[i] = m[i]
      /\ n[Len(m) + 1] = x
  BY AppendProperties, LenProperties
<1> HIDE DEF n
<1>2. \A i \in 1..(Len(m) + 1) : i \in 1..Len(m) \/ i = Len(m) + 1
  BY <1>1
<1>3. \A i \in 1..Len(m) : i \in 1..(Len(m) + 1)
  BY <1>1
<1>4. Len(m) + 1 \in 1..(Len(m) + 1)
  BY <1>1
<1>5. ToSet(n) = ToSet(m) \cup {x}
  BY <1>1, <1>2, <1>3, <1>4 DEF ToSet
<1> QED BY <1>1, <1>5 DEF n

LEMMA OneLess ==
    ASSUME NEW S, NEW m \in Seq(S), m # <<>>
    PROVE  /\ ToSet(m) = {Head(m)} \cup ToSet(Tail(m))
           /\ Len(m) \in Nat /\ Len(m) > 0 /\ Len(Tail(m)) = Len(m) - 1
           /\ DOMAIN m = 1..Len(m) /\ DOMAIN Tail(m) = 1..(Len(m) - 1)
           /\ \A i \in DOMAIN Tail(m) : Tail(m)[i] = m[i + 1]
           /\ Head(m) = m[1]
<1> DEFINE n == Tail(m)
<1>1. /\ Len(m) \in Nat /\ Len(m) > 0 /\ Len(n) = Len(m) - 1
      /\ DOMAIN m = 1..Len(m) /\ DOMAIN n = 1..(Len(m) - 1)
      /\ \A i \in DOMAIN n : n[i] = m[i + 1]
      /\ Head(m) = m[1]
  BY HeadTailProperties, LenProperties, EmptySeq
<1> HIDE DEF n
<1>2. \A i \in DOMAIN n : i + 1 \in DOMAIN m
  BY <1>1
<1>3. \A i \in DOMAIN m : i = 1 \/ (i - 1 \in DOMAIN n /\ n[i - 1] = m[i])
  BY <1>1
<1>4. 1 \in DOMAIN m
  BY <1>1
<1>5. ToSet(m) = {m[1]} \cup ToSet(n)
  BY <1>1, <1>2, <1>3, <1>4 DEF ToSet
<1> QED BY <1>1, <1>5 DEF n

\* What the steps do to the requests.
Unsent == client_rx' = client_rx

SentOne(x) == client_rx' = Append(client_rx, x)

HeadHandled(t) ==
    client_rx # <<>> /\ Head(client_rx).type = t /\ client_rx' = Tail(client_rx)

Rewatch(v) ==
    client_rx' = client_rx \o <<[type |-> "UnwatchTerminal"], [type |-> "WatchTerminal", viewer |-> v]>>

Register == [type |-> "RegisterWrapper"]
Unregister == [type |-> "UnregisterWrapper"]
Unwatch == [type |-> "UnwatchTerminal"]
Watch(v) == [type |-> "WatchTerminal", viewer |-> v]

\* The requests a step sends or takes, with what it says of the session.
RequestStep ==
    \/ Unsent
    \/ SentOne(Register) /\ running
    \/ SentOne(Unregister) /\ ~running'
    \/ SentOne(Unwatch)
    \/ \E c \in Seq(Chunks) \ {<<>>} : SentOne([type |-> "TerminalOutput", chunks |-> c])
    \/ \E v \in Viewers : SentOne(Watch(v)) \/ Rewatch(v)
    \/ \E t : HeadHandled(t)
    \/ client_rx' = <<>>

LEMMA RequestSteps ==
    ASSUME TypeOK, [Next]_vars
    PROVE  RequestStep /\ (running' => running)
<1> USE DEF RequestStep, Unsent, SentOne, HeadHandled, Rewatch, Register, Unregister, Unwatch, Watch
<1>1. CASE DataSends
  <2> DEFINE r == term_data_rx
             n == IF Len(r) < BatchMax THEN Len(r) ELSE BatchMax
             a == SubSeq(r, 1, n)
  <2>1. n \in 0..Len(r) /\ n > 0 /\ Len(r) \in Nat
    BY <1>1, OutputTypes, LenProperties DEF TypeOK, DataSends
  <2>2. a \in Seq(Chunks) /\ Len(a) = n
    <3> HIDE DEF n
    <3> QED BY <2>1, SubSeqProperties DEF TypeOK
  <2>3. a # <<>>
    <3> HIDE DEF n, a
    <3> QED BY <2>1, <2>2, EmptySeq
  <2>4. Unsent \/ SentOne([type |-> "TerminalOutput", chunks |-> a])
    BY <1>1 DEF DataSends, Send
  <2>5. running' = running
    BY <1>1 DEF DataSends
  <2> QED BY <2>2, <2>3, <2>4, <2>5
<1>2. CASE AgentWrites \/ AgentRedraws \/ DataConnects \/ DaemonStarts \/ DaemonStops \/ UNCHANGED vars
  <2>1. running' = running
    BY <1>2 DEF AgentWrites, AgentRedraws, ReadPty, DataConnects, DaemonStarts, DaemonStops, vars, threads
  <2>2. client_rx' = client_rx \/ client_rx' = <<>>
    BY <1>2 DEF AgentWrites, AgentRedraws, ReadPty, DataConnects, DaemonStarts, DaemonStops, vars
  <2> QED BY <2>1, <2>2
<1>3. CASE Reconnect \/ WrapperExits
  BY <1>3 DEF Reconnect, PassedOn, WrapperExits, Send
<1>4. CASE MainLoop
  BY <1>4 DEF MainLoop, HandleTerminalOutput, HandleWatchTerminal, HandleUnwatchTerminal,
              HandleRegisterWrapper, HandleUnregisterWrapper, Receive, threads
<1>5. ASSUME NEW v \in Viewers, Watches(v)
      PROVE  SentOne(Watch(v)) \/ Rewatch(v)
  BY <1>5 DEF Watches, Send
<1>6. ASSUME NEW v \in Viewers, ViewerShows(v) \/ SocketHangsUp(v)
      PROVE  Unsent
  BY <1>6 DEF ViewerShows, SocketHangsUp
<1>7. ASSUME NEW v \in Viewers, PageUnwatches(v) \/ SocketEnds(v)
      PROVE  SentOne(Unwatch)
  BY <1>7 DEF PageUnwatches, SocketEnds, Send
<1>8. CASE ViewerSteps
  <2>1. running' = running
    BY <1>8 DEF ViewerSteps, Watches, ViewerShows, PageUnwatches, SocketHangsUp, SocketEnds, wrapper, threads
  <2>2. RequestStep
    BY <1>5, <1>6, <1>7, <1>8 DEF ViewerSteps, Viewers
  <2> QED BY <2>1, <2>2
<1>9. \/ DataSends \/ AgentWrites \/ AgentRedraws \/ DataConnects \/ DaemonStarts \/ DaemonStops
      \/ UNCHANGED vars \/ Reconnect \/ WrapperExits \/ MainLoop \/ ViewerSteps
  BY DEF Next, ViewerSteps
<1> QED BY <1>1, <1>2, <1>3, <1>4, <1>8, <1>9

LEMMA NamesDiffer ==
    /\ Register.type = "RegisterWrapper" /\ Unregister.type = "UnregisterWrapper"
    /\ Unwatch.type = "UnwatchTerminal" /\ \A v : Watch(v).type = "WatchTerminal" /\ Watch(v).viewer = v
BY DEF Register, Unregister, Unwatch, Watch

\* Two requests in a row are two single ones.
LEMMA RewatchIs ==
    ASSUME TypeOK, NEW v \in Viewers, Rewatch(v)
    PROVE  client_rx' = Append(Append(client_rx, Unwatch), Watch(v))
<1>1. client_rx \in Seq(ClientMessage) /\ Unwatch \in ClientMessage /\ Watch(v) \in ClientMessage
  BY MadeMessages DEF TypeOK, Unwatch, Watch
<1>2. client_rx' = client_rx \o <<Unwatch, Watch(v)>>
  BY DEF Rewatch, Unwatch, Watch
<1> QED BY ONLY <1>1, <1>2

LEMMA TurnAppended ==
    ASSUME NEW S, NEW m \in Seq(S), NEW x \in S, NEW on, NEW on2,
           on2 => on, x.type = "RegisterWrapper" => on, x.type = "UnregisterWrapper" => ~on2,
           \A j \in DOMAIN m : m[j].type = "UnregisterWrapper" =>
               ~on /\ \A i \in DOMAIN m : m[i].type = "RegisterWrapper" => i < j
    PROVE  \A j \in DOMAIN Append(m, x) : Append(m, x)[j].type = "UnregisterWrapper" =>
               ~on2 /\ \A i \in DOMAIN Append(m, x) : Append(m, x)[i].type = "RegisterWrapper" => i < j
<1> DEFINE n == Append(m, x)
<1>1. /\ Len(m) \in Nat /\ DOMAIN m = 1..Len(m) /\ DOMAIN n = 1..(Len(m) + 1)
      /\ \A i \in DOMAIN m : n[i] = m[i]
      /\ n[Len(m) + 1] = x
  BY OneMore
<1> HIDE DEF n
<1> SUFFICES ASSUME NEW j \in DOMAIN n, n[j].type = "UnregisterWrapper"
             PROVE  ~on2 /\ \A i \in DOMAIN n : n[i].type = "RegisterWrapper" => i < j
  BY DEF n
<1>2. \A i \in DOMAIN n : (i \in DOMAIN m /\ i <= Len(m)) \/ i = Len(m) + 1
  <2>1. \A k \in Nat : \A i \in 1..(k + 1) : (i \in 1..k /\ i <= k) \/ i = k + 1
    OBVIOUS
  <2> QED BY ONLY <1>1, <2>1
<1>3. CASE j = Len(m) + 1
  <2>1. x.type = "UnregisterWrapper"
    BY <1>1, <1>3
  <2>2. \A i \in DOMAIN n : n[i].type = "RegisterWrapper" => i # Len(m) + 1
    BY <1>1, <2>1
  <2>3. \A i \in DOMAIN n : i # Len(m) + 1 => i < Len(m) + 1
    BY <1>1
  <2> QED BY <1>3, <2>1, <2>2, <2>3
<1>4. CASE j \in DOMAIN m
  <2>1. ~on /\ \A i \in DOMAIN m : m[i].type = "RegisterWrapper" => i < j
    BY <1>1, <1>4
  <2>2. \A i \in DOMAIN n : n[i].type = "RegisterWrapper" => i \in DOMAIN m
    BY <1>1, <1>2, <2>1
  <2> QED BY <1>1, <2>1, <2>2
<1> QED BY <1>2, <1>3, <1>4

LEMMA TurnStep ==
    ASSUME TypeOK, TurnInv, RequestStep, running' => running
    PROVE  TurnInv'
<1>1. CASE Unsent
  BY <1>1 DEF Unsent, TurnInv
<1>2. ASSUME NEW x \in ClientMessage, SentOne(x),
             x.type = "RegisterWrapper" => running, x.type = "UnregisterWrapper" => ~running'
      PROVE  TurnInv'
  <2>1. client_rx \in Seq(ClientMessage)
    BY DEF TypeOK
  <2>2. \A j \in DOMAIN Append(client_rx, x) : Append(client_rx, x)[j].type = "UnregisterWrapper" =>
            ~running' /\ \A i \in DOMAIN Append(client_rx, x) :
                            Append(client_rx, x)[i].type = "RegisterWrapper" => i < j
    BY <1>2, <2>1, TurnAppended DEF TurnInv
  <2> QED BY <1>2, <2>2 DEF TurnInv, SentOne
<1>3. ASSUME NEW v \in Viewers, Rewatch(v)
      PROVE  TurnInv'
  <2> DEFINE m == Append(client_rx, Unwatch)
  <2>1. /\ client_rx \in Seq(ClientMessage) /\ Unwatch \in ClientMessage /\ Watch(v) \in ClientMessage
        /\ m \in Seq(ClientMessage)
    BY MadeMessages, SendType DEF TypeOK, Unwatch, Watch
  <2>2. Unwatch.type = "UnwatchTerminal" /\ Watch(v).type = "WatchTerminal"
    BY NamesDiffer
  <2>3. \A j \in DOMAIN m : m[j].type = "UnregisterWrapper" =>
            ~running' /\ \A i \in DOMAIN m : m[i].type = "RegisterWrapper" => i < j
    BY <2>1, <2>2, TurnAppended DEF TurnInv
  <2> HIDE DEF m
  <2>4. \A j \in DOMAIN Append(m, Watch(v)) : Append(m, Watch(v))[j].type = "UnregisterWrapper" =>
            ~running' /\ \A i \in DOMAIN Append(m, Watch(v)) :
                            Append(m, Watch(v))[i].type = "RegisterWrapper" => i < j
    BY <2>1, <2>2, <2>3, TurnAppended
  <2>5. client_rx' = Append(m, Watch(v))
    BY <1>3, RewatchIs DEF m
  <2> QED BY <2>4, <2>5 DEF TurnInv
<1>4. ASSUME NEW t, HeadHandled(t)
      PROVE  TurnInv'
  <2> DEFINE m == client_rx
             n == Tail(m)
  <2>1. /\ Len(m) \in Nat /\ DOMAIN m = 1..Len(m) /\ DOMAIN n = 1..(Len(m) - 1)
        /\ \A i \in DOMAIN n : n[i] = m[i + 1]
    BY <1>4, OneLess DEF TypeOK, HeadHandled
  <2>2. client_rx' = n
    BY <1>4 DEF HeadHandled
  <2> HIDE DEF n
  <2>3. \A i \in DOMAIN n : i + 1 \in DOMAIN m /\ i \in Nat
    BY <2>1
  <2>4. \A i, j \in DOMAIN n : i + 1 < j + 1 => i < j
    BY <2>3
  <2>5. \A j \in DOMAIN n : n[j].type = "UnregisterWrapper" =>
            ~running /\ \A i \in DOMAIN n : n[i].type = "RegisterWrapper" => i < j
    BY <2>1, <2>3, <2>4 DEF TurnInv
  <2> QED BY <2>2, <2>5 DEF TurnInv
<1>5. CASE client_rx' = <<>>
  BY <1>5 DEF TurnInv
<1> QED
  <2>1. /\ Register \in ClientMessage /\ Unregister \in ClientMessage /\ Unwatch \in ClientMessage
        /\ \A v \in Viewers : Watch(v) \in ClientMessage
        /\ \A c \in Seq(Chunks) : [type |-> "TerminalOutput", chunks |-> c] \in ClientMessage
    BY MadeMessages DEF Register, Unregister, Unwatch, Watch
  <2>2. CASE (SentOne(Register) /\ running) \/ (SentOne(Unregister) /\ ~running') \/ SentOne(Unwatch)
    BY <1>2, <2>1, <2>2, NamesDiffer
  <2>3. CASE \E c \in Seq(Chunks) \ {<<>>} : SentOne([type |-> "TerminalOutput", chunks |-> c])
    BY <1>2, <2>1, <2>3
  <2>4. CASE \E v \in Viewers : SentOne(Watch(v)) \/ Rewatch(v)
    BY <1>2, <1>3, <2>1, <2>4, NamesDiffer
  <2> QED BY <1>1, <1>4, <1>5, <2>2, <2>3, <2>4 DEF RequestStep

\* What a step may add to the requests.
LEMMA NewRequests ==
    ASSUME TypeOK, RequestStep
    PROVE  \A x \in ToSet(client_rx') :
               \/ x \in ToSet(client_rx)
               \/ x.type = "RegisterWrapper" /\ running
               \/ x.type \in {"UnregisterWrapper", "UnwatchTerminal", "WatchTerminal"}
               \/ x.type = "TerminalOutput" /\ x.chunks # <<>>
<1>0. client_rx \in Seq(ClientMessage)
  BY DEF TypeOK
<1>1. \A x \in ClientMessage : SentOne(x) => ToSet(client_rx') = ToSet(client_rx) \cup {x}
  BY <1>0, OneMore DEF SentOne
<1>2. \A v \in Viewers : Rewatch(v) => ToSet(client_rx') = ToSet(client_rx) \cup {Unwatch, Watch(v)}
  <2> SUFFICES ASSUME NEW v \in Viewers, Rewatch(v)
               PROVE  ToSet(client_rx') = ToSet(client_rx) \cup {Unwatch, Watch(v)}
    OBVIOUS
  <2> DEFINE m == Append(client_rx, Unwatch)
  <2>1. Unwatch \in ClientMessage /\ Watch(v) \in ClientMessage /\ m \in Seq(ClientMessage)
    BY MadeMessages, SendType DEF Unwatch, Watch
  <2>2. ToSet(m) = ToSet(client_rx) \cup {Unwatch}
    BY <1>0, <2>1, OneMore
  <2> HIDE DEF m
  <2>3. ToSet(Append(m, Watch(v))) = ToSet(m) \cup {Watch(v)}
    BY <2>1, OneMore
  <2>4. client_rx' = Append(m, Watch(v))
    BY RewatchIs DEF m
  <2> QED BY <2>2, <2>3, <2>4
<1>3. \A t : HeadHandled(t) => ToSet(client_rx') \subseteq ToSet(client_rx)
  BY <1>0, OneLess DEF HeadHandled
<1>4. client_rx' = <<>> => ToSet(client_rx') = {}
  BY DEF ToSet
<1>5. /\ Register \in ClientMessage /\ Unregister \in ClientMessage /\ Unwatch \in ClientMessage
      /\ \A v \in Viewers : Watch(v) \in ClientMessage
      /\ \A c \in Seq(Chunks) : [type |-> "TerminalOutput", chunks |-> c] \in ClientMessage
  BY MadeMessages DEF Register, Unregister, Unwatch, Watch
<1> SUFFICES ASSUME NEW x \in ToSet(client_rx'), x \notin ToSet(client_rx)
             PROVE  \/ x.type = "RegisterWrapper" /\ running
                    \/ x.type \in {"UnregisterWrapper", "UnwatchTerminal", "WatchTerminal"}
                    \/ x.type = "TerminalOutput" /\ x.chunks # <<>>
  OBVIOUS
<1>6. CASE (SentOne(Register) /\ running) \/ (SentOne(Unregister) /\ ~running') \/ SentOne(Unwatch)
  BY <1>1, <1>5, <1>6, NamesDiffer
<1>7. CASE \E c \in Seq(Chunks) \ {<<>>} : SentOne([type |-> "TerminalOutput", chunks |-> c])
  BY <1>1, <1>5, <1>7
<1>8. CASE \E v \in Viewers : SentOne(Watch(v)) \/ Rewatch(v)
  BY <1>1, <1>2, <1>5, <1>8, NamesDiffer
<1> QED BY <1>3, <1>4, <1>6, <1>7, <1>8 DEF RequestStep, Unsent

LEMMA FullStep ==
    ASSUME TypeOK, FullInv, RequestStep
    PROVE  FullInv'
BY NewRequests DEF FullInv

\* A session that is over stays over.
LEMMA ServingBefore ==
    ASSUME TypeOK, [Next]_vars, Serving'
    PROVE  Serving
<1>1. RequestStep /\ (running' => running)
  BY RequestSteps
<1>2. (\E x \in ToSet(client_rx') : x.type = "RegisterWrapper") => Serving
  BY <1>1, NewRequests DEF Serving
<1>3. session' => session \/ HandleRegisterWrapper
  BY DEF Next, AgentWrites, AgentRedraws, ReadPty, DataConnects, DataSends, Reconnect, WrapperExits, MainLoop,
         HandleTerminalOutput, HandleWatchTerminal, HandleUnwatchTerminal, HandleUnregisterWrapper,
         DaemonStops, DaemonStarts, Watches, ViewerShows, PageUnwatches, SocketHangsUp, SocketEnds,
         daemon, vars
<1>4. HandleRegisterWrapper => Serving
  <2>1. HandleRegisterWrapper => client_rx # <<>> /\ Head(client_rx).type = "RegisterWrapper"
    BY DEF HandleRegisterWrapper, Receive
  <2>2. client_rx # <<>> => Head(client_rx) \in ToSet(client_rx)
    BY OneLess DEF TypeOK
  <2> QED BY <2>1, <2>2 DEF Serving
<1> QED BY <1>1, <1>2, <1>3, <1>4 DEF Serving

LEMMA UnregisteredForGood ==
    ASSUME TypeOK, TurnInv, HandleUnregisterWrapper
    PROVE  ~Serving'
<1> DEFINE m == client_rx
           n == Tail(m)
<1>1. /\ Len(m) \in Nat /\ Len(m) > 0 /\ DOMAIN m = 1..Len(m) /\ DOMAIN n = 1..(Len(m) - 1)
      /\ \A i \in DOMAIN n : n[i] = m[i + 1]
      /\ m[1].type = "UnregisterWrapper" /\ client_rx' = n
  BY OneLess DEF TypeOK, HandleUnregisterWrapper, Receive
<1> HIDE DEF n
<1>2. 1 \in DOMAIN m /\ \A i \in DOMAIN n : i + 1 \in DOMAIN m /\ ~(i + 1 < 1)
  BY <1>1
<1>3. ~running /\ \A i \in DOMAIN m : m[i].type = "RegisterWrapper" => i < 1
  BY <1>1, <1>2 DEF TurnInv
<1>4. \A i \in DOMAIN n : n[i].type # "RegisterWrapper"
  BY <1>1, <1>2, <1>3
<1>5. running' = running /\ session' = FALSE
  BY DEF HandleUnregisterWrapper, threads
<1> QED BY <1>1, <1>3, <1>4, <1>5 DEF Serving, ToSet

\* The stream of chunks from the k-th event on, and when it gives the screen.
From(shows, events, k) == [i \in k..Len(events) |-> IF i = 0 THEN shows ELSE events[i].chunks]

StartsAt(events, k) ==
    /\ k # 0 => events[k].type = "snapshot"
    /\ \A i \in DOMAIN events : i > k => events[i].type = "data"

Gives(shows, events, screen, k) ==
    /\ StartsAt(events, k)
    /\ Ascending(From(shows, events, k)) /\ Held(From(shows, events, k)) = ToSet(screen)

LEMMA JoinsIs ==
    ASSUME NEW shows, NEW events, NEW screen
    PROVE  Joins(shows, events, screen) <=> \E k \in 0..Len(events) : Gives(shows, events, screen, k)
BY DEF Joins, Gives, StartsAt, From

\* Ascending, station by station.
LEMMA AscendingIs ==
    ASSUME NEW s
    PROVE  Ascending(s) <=> /\ \A k \in DOMAIN s : Rising(s[k])
                            /\ \A k, i \in DOMAIN s : k < i => Below(s[k], s[i])
BY DEF Ascending, Rising, Below

\* A viewer that has nothing of an empty screen has all of it.
LEMMA JoinsEmpty == Joins(<<>>, <<>>, <<>>)
<1> DEFINE f == From(<<>>, <<>>, 0)
<1>1. DOMAIN f = {0} /\ f[0] = <<>>
  BY DEF From
<1>2. ToSet(<<>>) = {} /\ Rising(<<>>)
  BY DEF ToSet, Rising
<1> HIDE DEF f
<1>3. Ascending(f) /\ Held(f) = {}
  BY <1>1, <1>2, AscendingIs DEF Held
<1>4. StartsAt(<<>>, 0)
  BY DEF StartsAt
<1>5. Gives(<<>>, <<>>, <<>>, 0)
  BY <1>2, <1>3, <1>4 DEF Gives, f
<1>6. 0 \in 0..Len(<<>>)
  OBVIOUS
<1> QED BY <1>5, <1>6, JoinsIs

\* A snapshot is all a viewer needs.
LEMMA JoinsSnapshot ==
    ASSUME NEW shows, NEW events \in Seq(Event), NEW screen, NEW e \in Event, Rising(screen),
           e.type = "snapshot", e.chunks = screen
    PROVE  Joins(shows, Append(events, e), screen)
<1> DEFINE q == Append(events, e)
           k == Len(events) + 1
           f == From(shows, q, k)
<1>1. Len(events) \in Nat /\ Len(q) = k /\ DOMAIN q = 1..k /\ q[k] = e
  BY AppendProperties, LenProperties
<1>2. k \in 0..Len(q) /\ k # 0 /\ k..k = {k}
  BY <1>1
<1>3. DOMAIN f = {k} /\ f[k] = screen
  BY <1>1, <1>2 DEF From
<1> HIDE DEF q, f
<1>4. Ascending(f) /\ Held(f) = ToSet(screen)
  BY <1>1, <1>3, AscendingIs DEF Held
<1>5. StartsAt(q, k)
  BY <1>1, <1>2 DEF StartsAt
<1>6. Gives(shows, q, screen, k)
  BY <1>4, <1>5 DEF Gives, f
<1> QED BY <1>2, <1>6, JoinsIs DEF q

\* Output goes to the end of the stream and to the end of the screen.
LEMMA JoinsOutput ==
    ASSUME NEW shows, NEW events \in Seq(Event), NEW screen \in Seq(Nat), NEW e \in Event,
           e.type = "data", e.chunks \in Seq(Nat), Rising(e.chunks), Below(screen, e.chunks),
           Joins(shows, events, screen)
    PROVE  Joins(shows, Append(events, e), screen \o e.chunks)
<1> DEFINE q == Append(events, e)
           n == Len(events)
<1>1. /\ n \in Nat /\ DOMAIN events = 1..n /\ DOMAIN q = 1..(n + 1) /\ Len(q) = n + 1
      /\ \A i \in DOMAIN events : q[i] = events[i]
      /\ q[n + 1] = e
  BY AppendProperties, LenProperties
<1> HIDE DEF q, n
<1>2. PICK k \in 0..n : Gives(shows, events, screen, k)
  BY JoinsIs DEF n
<1> DEFINE f == From(shows, events, k)
           g == From(shows, q, k)
<1>3. /\ DOMAIN f = k..n /\ DOMAIN g = k..(n + 1) /\ g[n + 1] = e.chunks
      /\ \A i \in DOMAIN f : g[i] = f[i]
  <2>1. DOMAIN f = k..n /\ DOMAIN g = k..(n + 1)
    BY <1>1 DEF From, n
  <2>2. g[n + 1] = e.chunks
    BY <1>1 DEF From
  <2>3. ASSUME NEW i \in k..n PROVE g[i] = f[i]
    <3>1. i = 0 \/ i \in DOMAIN events
      BY <1>1
    <3>2. g[i] = (IF i = 0 THEN shows ELSE q[i].chunks) /\ f[i] = IF i = 0 THEN shows ELSE events[i].chunks
      BY <1>1 DEF From, n
    <3> QED BY ONLY <1>1, <3>1, <3>2
  <2> QED BY <2>1, <2>2, <2>3
<1>4. Ascending(f) /\ Held(f) = ToSet(screen) /\ StartsAt(events, k)
  BY <1>2 DEF Gives
<1> HIDE DEF f, g
<1>5. \A i \in DOMAIN g : (i \in DOMAIN f /\ i < n + 1) \/ i = n + 1
  BY <1>1, <1>3
<1>6. \A i \in DOMAIN f : i \in DOMAIN g /\ Below(f[i], e.chunks)
  <2>1. \A i \in DOMAIN f : ToSet(f[i]) \subseteq ToSet(screen)
    BY <1>4 DEF Held
  <2> QED BY <1>1, <1>3, <2>1 DEF Below
<1>7. Ascending(g)
  <2>1. \A i \in DOMAIN g : Rising(g[i])
    BY <1>3, <1>4, <1>5, AscendingIs
  <2>2. ASSUME NEW i \in DOMAIN g, NEW j \in DOMAIN g, i < j PROVE Below(g[i], g[j])
    <3>1. i \in DOMAIN f
      BY <1>1, <1>3, <1>5, <2>2
    <3> QED BY <1>3, <1>4, <1>5, <1>6, <2>2, <3>1, AscendingIs
  <2> QED BY <2>1, <2>2, AscendingIs
<1>8. Held(g) = Held(f) \cup ToSet(e.chunks)
  <2>1. n + 1 \in DOMAIN g
    BY <1>1, <1>3
  <2> QED BY <1>3, <1>5, <1>6, <2>1 DEF Held
<1>9. ToSet(screen \o e.chunks) = ToSet(screen) \cup ToSet(e.chunks)
  <2>1. InTwo(screen \o e.chunks, screen, e.chunks)
    BY Together
  <2> QED BY <2>1 DEF InTwo
<1>10. StartsAt(q, k)
  <2>1. k # 0 => k \in DOMAIN events
    BY <1>1
  <2>2. \A i \in DOMAIN q : i \in DOMAIN events \/ i = n + 1
    BY <1>1
  <2> QED BY <1>1, <1>4, <2>1, <2>2 DEF StartsAt
<1>11. Gives(shows, q, screen \o e.chunks, k)
  BY <1>4, <1>7, <1>8, <1>9, <1>10 DEF Gives, g
<1>12. k \in 0..Len(q)
  BY <1>1
<1> QED BY <1>11, <1>12, JoinsIs DEF q

\* What is shown is taken off the stream, and the rest is as far ahead.
LEMMA JoinsShown ==
    ASSUME NEW shows \in Seq(Nat), NEW events \in Seq(Event), NEW screen, events # <<>>,
           Head(events).chunks \in Seq(Nat), Joins(shows, events, screen)
    PROVE  Joins(After(shows, Head(events)), Tail(events), screen)
<1> DEFINE q == Tail(events)
           n == Len(events)
           e == Head(events)
           now == After(shows, e)
<1>1. /\ n \in Nat /\ n > 0 /\ DOMAIN events = 1..n /\ DOMAIN q = 1..(n - 1) /\ Len(q) = n - 1
      /\ \A i \in DOMAIN q : q[i] = events[i + 1]
      /\ e = events[1]
  BY OneLess
<1> HIDE DEF q, n, e
<1>2. PICK k \in 0..n : Gives(shows, events, screen, k)
  BY JoinsIs DEF n
<1> DEFINE f == From(shows, events, k)
<1>3. DOMAIN f = k..n /\ \A i \in k..n : f[i] = IF i = 0 THEN shows ELSE events[i].chunks
  BY DEF From, n
<1>4. Ascending(f) /\ Held(f) = ToSet(screen) /\ StartsAt(events, k)
  BY <1>2 DEF Gives
<1> HIDE DEF f
<1>5. CASE k > 0
  <2> DEFINE g == From(now, q, k - 1)
  <2>1. DOMAIN g = (k - 1)..(n - 1) /\ \A i \in (k - 1)..(n - 1) : g[i] = IF i = 0 THEN now ELSE q[i].chunks
    BY <1>1 DEF From
  <2> HIDE DEF g
  <2>2. ASSUME NEW i \in (k - 1)..(n - 1) PROVE i + 1 \in DOMAIN f /\ g[i] = f[i + 1]
    <3>1. i + 1 \in k..n /\ i + 1 # 0
      BY <1>1, <1>5
    <3>2. CASE i = 0
      <4>1. k = 1
        BY <1>5, <3>2
      <4>2. now = e.chunks
        BY <1>1, <1>4, <4>1 DEF StartsAt, After
      <4> QED BY <1>1, <1>3, <2>1, <3>1, <3>2, <4>2
    <3>3. CASE i # 0
      <4>1. i \in DOMAIN q
        BY <1>1, <1>5, <3>3
      <4> QED BY <1>1, <1>3, <2>1, <3>1, <3>3, <4>1
    <3> QED BY <3>2, <3>3
  <2>3. \A i \in DOMAIN f : i - 1 \in DOMAIN g /\ f[i] = g[i - 1]
    <3>1. \A i \in k..n : i - 1 \in (k - 1)..(n - 1) /\ (i - 1) + 1 = i
      BY <1>1, <1>5
    <3> QED BY <1>3, <2>1, <2>2, <3>1
  <2>4. Ascending(g)
    <3>1. \A i \in DOMAIN g : Rising(g[i])
      BY <1>4, <2>1, <2>2, AscendingIs
    <3>2. ASSUME NEW i \in DOMAIN g, NEW j \in DOMAIN g, i < j PROVE Below(g[i], g[j])
      <4>1. i + 1 < j + 1
        BY <1>1, <2>1, <3>2
      <4> QED BY <1>4, <2>1, <2>2, <4>1, AscendingIs
    <3> QED BY <3>1, <3>2, AscendingIs
  <2>5. Held(g) = Held(f)
    BY <2>1, <2>2, <2>3 DEF Held
  <2>6. StartsAt(q, k - 1)
    <3>1. k - 1 # 0 => k - 1 \in DOMAIN q /\ (k - 1) + 1 = k
      BY <1>1, <1>5
    <3>2. \A i \in DOMAIN q : i + 1 \in DOMAIN events /\ (i > k - 1 => i + 1 > k)
      BY <1>1
    <3>3. events[k].type = "snapshot"
      BY <1>4, <1>5 DEF StartsAt
    <3>4. k - 1 # 0 => q[k - 1].type = "snapshot"
      BY <1>1, <3>1, <3>3
    <3>5. ASSUME NEW i \in DOMAIN q, i > k - 1 PROVE q[i].type = "data"
      BY <1>1, <1>4, <3>2, <3>5 DEF StartsAt
    <3> QED BY <3>4, <3>5 DEF StartsAt
  <2>7. k - 1 \in 0..Len(q)
    BY <1>1, <1>5
  <2>8. Gives(now, q, screen, k - 1)
    BY <1>4, <2>4, <2>5, <2>6 DEF Gives, g
  <2> QED BY <2>7, <2>8, JoinsIs DEF q, e
<1>6. CASE k = 0
  <2> DEFINE g == From(now, q, 0)
  <2>1. DOMAIN g = 0..(n - 1) /\ \A i \in 0..(n - 1) : g[i] = IF i = 0 THEN now ELSE q[i].chunks
    BY <1>1 DEF From
  <2> HIDE DEF g
  <2>2. e.type = "data" /\ now = shows \o e.chunks
    <3>1. 1 \in DOMAIN events /\ 1 > k
      BY <1>1, <1>6
    <3> QED BY <1>1, <1>4, <3>1 DEF StartsAt, After
  <2>3. 0 \in DOMAIN f /\ 1 \in DOMAIN f /\ f[0] = shows /\ f[1] = e.chunks /\ 0 \in DOMAIN g /\ g[0] = now
    BY <1>1, <1>3, <1>6, <2>1
  <2>4. ASSUME NEW i \in DOMAIN g, i # 0 PROVE i + 1 \in DOMAIN f /\ g[i] = f[i + 1] /\ i > 0
    <3>1. i \in DOMAIN q /\ i + 1 \in 0..n /\ i + 1 # 0 /\ i > 0
      BY <1>1, <2>1, <2>4
    <3> QED BY <1>1, <1>3, <1>6, <2>1, <2>4, <3>1
  <2>5. \A i \in DOMAIN f : i = 0 \/ i = 1 \/ (i - 1 \in DOMAIN g /\ i - 1 # 0 /\ (i - 1) + 1 = i)
    BY <1>1, <1>3, <1>6, <2>1
  <2>6. Rising(shows) /\ Rising(e.chunks) /\ Below(shows, e.chunks)
    BY <1>4, <2>3, AscendingIs
  <2>7. ToSet(now) = ToSet(shows) \cup ToSet(e.chunks) /\ Rising(now)
    <3>1. e.chunks \in Seq(Nat)
      BY DEF e
    <3>2. InTwo(shows \o e.chunks, shows, e.chunks)
      BY <3>1, Together
    <3> QED BY <2>2, <2>6, <3>2 DEF InTwo
  <2>8. Ascending(g)
    <3>1. \A i \in DOMAIN g : Rising(g[i])
      BY <1>4, <2>3, <2>4, <2>7, AscendingIs
    <3>2. ASSUME NEW i \in DOMAIN g, NEW j \in DOMAIN g, i < j PROVE Below(g[i], g[j])
      <4>1. j # 0 /\ j + 1 \in DOMAIN f /\ g[j] = f[j + 1] /\ j > 0 /\ j \in Nat /\ i \in Nat
        BY <1>1, <2>1, <2>4, <3>2
      <4>2. CASE i = 0
        <5>1. 0 < j + 1 /\ 1 < j + 1
          BY <4>1
        <5>2. Below(shows, f[j + 1]) /\ Below(e.chunks, f[j + 1])
          BY <1>4, <2>3, <4>1, <5>1, AscendingIs
        <5> QED BY <2>3, <2>7, <4>1, <4>2, <5>2 DEF Below
      <4>3. CASE i # 0
        <5>1. i + 1 \in DOMAIN f /\ g[i] = f[i + 1]
          BY <2>4, <4>3
        <5>2. i + 1 < j + 1
          BY <3>2, <4>1
        <5> QED BY <1>4, <4>1, <5>1, <5>2, AscendingIs
      <4> QED BY <4>2, <4>3
    <3> QED BY <3>1, <3>2, AscendingIs
  <2>9. Held(g) = Held(f)
    <3>1. Held(g) \subseteq Held(f)
      BY <2>3, <2>4, <2>7 DEF Held
    <3>2. \A i \in DOMAIN f : \E j \in DOMAIN g : ToSet(f[i]) \subseteq ToSet(g[j])
      <4> SUFFICES ASSUME NEW i \in DOMAIN f PROVE \E j \in DOMAIN g : ToSet(f[i]) \subseteq ToSet(g[j])
        OBVIOUS
      <4>1. CASE i = 0 \/ i = 1
        BY <2>3, <2>7, <4>1
      <4>2. CASE i - 1 \in DOMAIN g /\ i - 1 # 0 /\ (i - 1) + 1 = i
        BY <2>4, <4>2
      <4> QED BY <2>5, <4>1, <4>2
    <3>3. Held(f) \subseteq Held(g)
      BY <3>2 DEF Held
    <3> QED BY <3>1, <3>3
  <2>10. StartsAt(q, 0)
    <3>1. \A i \in DOMAIN q : i + 1 \in DOMAIN events /\ i + 1 > 0
      BY <1>1
    <3> QED BY <1>1, <1>4, <1>6, <3>1 DEF StartsAt
  <2>11. 0 \in 0..Len(q)
    BY <1>1
  <2>12. Gives(now, q, screen, 0)
    BY <1>4, <2>8, <2>9, <2>10 DEF Gives, g
  <2> QED BY <2>11, <2>12, JoinsIs DEF q, e
<1>7. k > 0 \/ k = 0
  OBVIOUS
<1> QED BY <1>5, <1>6, <1>7

\* A watch that is asked for and not answered: how the steps change that.
LEMMA PendingIs ==
    /\ \A v : Pending(v) <=> Watch(v) \in ToSet(client_rx)
    /\ \A v : Pending(v)' <=> Watch(v) \in ToSet(client_rx')
BY DEF Pending, Watch

LEMMA PendingSent ==
    ASSUME TypeOK, NEW x \in ClientMessage, SentOne(x), x.type # "WatchTerminal", NEW v
    PROVE  Pending(v)' <=> Pending(v)
<1>1. ToSet(client_rx') = ToSet(client_rx) \cup {x}
  BY OneMore DEF SentOne, TypeOK
<1>2. x # Watch(v)
  BY NamesDiffer
<1> QED BY <1>1, <1>2, PendingIs

LEMMA PendingHandled ==
    ASSUME TypeOK, NEW t, HeadHandled(t), NEW v
    PROVE  /\ Pending(v)' => Pending(v)
           /\ Pending(v) => Pending(v)' \/ Head(client_rx) = Watch(v)
           /\ t # "WatchTerminal" => Head(client_rx) # Watch(v)
<1>1. ToSet(client_rx) = {Head(client_rx)} \cup ToSet(client_rx') /\ Head(client_rx).type = t
  BY OneLess DEF HeadHandled, TypeOK
<1>2. t # "WatchTerminal" => Head(client_rx) # Watch(v)
  BY <1>1, NamesDiffer
<1> QED BY <1>1, <1>2, PendingIs

LEMMA PendingWatched ==
    ASSUME TypeOK, NEW v \in Viewers, SentOne(Watch(v)) \/ Rewatch(v), NEW w
    PROVE  Pending(w)' <=> Pending(w) \/ w = v
<1> DEFINE m == Append(client_rx, Unwatch)
<1>1. /\ client_rx \in Seq(ClientMessage) /\ Unwatch \in ClientMessage /\ Watch(v) \in ClientMessage
      /\ m \in Seq(ClientMessage)
  BY MadeMessages, SendType DEF Unwatch, Watch, TypeOK
<1>2. ToSet(m) = ToSet(client_rx) \cup {Unwatch}
  BY <1>1, OneMore
<1> HIDE DEF m
<1>3. ToSet(Append(m, Watch(v))) = ToSet(m) \cup {Watch(v)}
  BY <1>1, OneMore
<1>4. ToSet(Append(client_rx, Watch(v))) = ToSet(client_rx) \cup {Watch(v)}
  BY <1>1, OneMore
<1>5. client_rx' = Append(client_rx, Watch(v)) \/ client_rx' = Append(m, Watch(v))
  BY RewatchIs DEF SentOne, m
<1>6. Watch(w) \in ToSet(client_rx') <=> Watch(w) \in ToSet(client_rx) \/ Watch(w) = Watch(v) 
  <2>1. Watch(w) # Unwatch
    BY NamesDiffer
  <2> QED BY <1>2, <1>3, <1>4, <1>5, <2>1
<1>7. Watch(w) = Watch(v) <=> w = v
  BY NamesDiffer
<1> QED BY <1>6, <1>7, PendingIs

LEMMA SnapshotInit == Init => TurnInv /\ FullInv /\ FreshInv /\ JoinInv
<1> SUFFICES ASSUME Init PROVE TurnInv /\ FullInv /\ FreshInv /\ JoinInv
  OBVIOUS
<1>1. \A x \in ToSet(client_rx) : x.type = "RegisterWrapper"
  BY DEF Init, ToSet
<1>2. \A i \in DOMAIN client_rx : client_rx[i].type = "RegisterWrapper"
  BY DEF Init
<1>3. TurnInv /\ FullInv
  BY <1>1, <1>2 DEF TurnInv, FullInv
<1>4. FreshInv
  BY DEF Init, FreshInv
<1>5. JoinInv
  BY DEF Init, JoinInv
<1> QED BY <1>3, <1>4, <1>5

\* Steps that leave the viewers and the subscriptions alone.
Aside ==
    /\ queue' = queue /\ viewer' = viewer /\ blind' = blind
    /\ terminal_subscribers' = terminal_subscribers /\ terminal_parser' = terminal_parser
    /\ \A v \in Viewers : Pending(v)' <=> Pending(v)

LEMMA AsideSteps ==
    ASSUME TypeOK, WrapperSteps \/ DaemonStarts \/ HandleRegisterWrapper \/ UNCHANGED vars
    PROVE  Aside
<1>1. /\ queue' = queue /\ viewer' = viewer /\ blind' = blind
      /\ terminal_subscribers' = terminal_subscribers /\ terminal_parser' = terminal_parser
  BY DEF WrapperSteps, AgentWrites, AgentRedraws, ReadPty, DataConnects, DataSends, Reconnect, WrapperExits,
         DaemonStarts, HandleRegisterWrapper, vars, daemon, viewers, history
<1>2. \A v \in Viewers : Unsent => (Pending(v)' <=> Pending(v))
  BY DEF Unsent, Pending
<1>3. CASE AgentWrites \/ AgentRedraws \/ DataConnects \/ DaemonStarts \/ UNCHANGED vars
  BY <1>1, <1>2, <1>3
  DEF Unsent, AgentWrites, AgentRedraws, ReadPty, DataConnects, DaemonStarts, vars, Aside
<1>4. CASE Reconnect \/ WrapperExits
  <2>1. Register \in ClientMessage /\ Unregister \in ClientMessage
    BY MadeMessages DEF Register, Unregister
  <2>2. SentOne(Register) \/ SentOne(Unregister) \/ Unsent
    BY <1>4 DEF Reconnect, PassedOn, WrapperExits, Send, SentOne, Register, Unregister, Unsent
  <2> QED BY <1>1, <1>2, <2>1, <2>2, PendingSent, NamesDiffer DEF Aside
<1>5. CASE DataSends
  <2>1. PICK c \in Seq(Chunks) : SentOne([type |-> "TerminalOutput", chunks |-> c]) \/ Unsent
    <3> DEFINE r == term_data_rx
               n == IF Len(r) < BatchMax THEN Len(r) ELSE BatchMax
    <3>1. n \in 0..Len(r)
      BY OutputTypes, LenProperties DEF TypeOK
    <3>2. SubSeq(r, 1, n) \in Seq(Chunks)
      <4> HIDE DEF n
      <4> QED BY <3>1, SubSeqProperties, LenProperties DEF TypeOK
    <3>3. SentOne([type |-> "TerminalOutput", chunks |-> SubSeq(r, 1, n)]) \/ Unsent
      BY <1>5 DEF DataSends, Send, SentOne, Unsent
    <3> HIDE DEF n, r
    <3> QED BY <3>2, <3>3
  <2>2. [type |-> "TerminalOutput", chunks |-> c] \in ClientMessage
    BY MadeMessages
  <2>3. [type |-> "TerminalOutput", chunks |-> c].type # "WatchTerminal"
    OBVIOUS
  <2> QED BY <1>1, <1>2, <2>1, <2>2, <2>3, PendingSent DEF Aside
<1>6. CASE HandleRegisterWrapper
  <2>1. HeadHandled("RegisterWrapper")
    BY <1>6 DEF HandleRegisterWrapper, Receive, HeadHandled
  <2> QED BY <1>1, <2>1, PendingHandled DEF Aside
<1> QED BY <1>3, <1>4, <1>5, <1>6 DEF WrapperSteps

LEMMA AsideKeeps ==
    ASSUME TypeOK, FreshInv, JoinInv, Aside, Serving' => Serving
    PROVE  FreshInv' /\ JoinInv'
<1>1. FreshInv'
  BY DEF FreshInv, Aside, Closed
<1>2. JoinInv'
  BY DEF JoinInv, Aside, Closed, TypeOK
<1> QED BY <1>1, <1>2

\* Nobody watches any more, or nobody is served: nothing to keep.
LEMMA OverKeeps ==
    ASSUME TypeOK, TurnInv, FreshInv, JoinInv, Serving' => Serving,
           HandleUnwatchTerminal \/ HandleUnregisterWrapper \/ DaemonStops
    PROVE  FreshInv' /\ JoinInv'
<1>1. CASE HandleUnregisterWrapper
  BY <1>1, UnregisteredForGood DEF FreshInv, JoinInv
<1>2. CASE HandleUnwatchTerminal
  <2>1. HeadHandled("UnwatchTerminal")
    BY <1>2 DEF HandleUnwatchTerminal, Receive, HeadHandled
  <2>2. \A v \in Viewers : Pending(v)' => Pending(v)
    BY <2>1, PendingHandled
  <2>3. /\ terminal_subscribers' = {} /\ terminal_parser' = terminal_parser
        /\ queue' = queue /\ viewer' = viewer
    BY <1>2 DEF HandleUnwatchTerminal, viewers
  <2> QED BY <2>2, <2>3 DEF FreshInv, JoinInv, Closed
<1>3. CASE DaemonStops
  <2>1. terminal_subscribers' = {} /\ queue' = [v \in Viewers |-> <<>>] /\ client_rx' = <<>>
    BY <1>3 DEF DaemonStops
  <2>2. \A v \in Viewers : ~Pending(v)'
    BY <2>1 DEF Pending, ToSet
  <2> QED BY <2>1, <2>2 DEF FreshInv, JoinInv
<1> QED BY <1>1, <1>2, <1>3

\* Output: what is appended to the screen is appended to the subscribers'
\* channels, or the subscriber is dropped.
LEMMA OutputJoins ==
    ASSUME TypeOK, OutputInv, FullInv, JoinInv, HandleTerminalOutput, Serving' => Serving
    PROVE  FreshInv' /\ JoinInv'
<1> DEFINE p == terminal_parser
           x == Head(client_rx)
           a == x.chunks
           e == [type |-> "data", chunks |-> a]
<1>1. HeadHandled("TerminalOutput") /\ client_rx # <<>> /\ x.type = "TerminalOutput"
  BY DEF HandleTerminalOutput, Receive, HeadHandled
<1>2. x \in ClientMessage /\ x \in ToSet(client_rx)
  BY <1>1, OneLess, HeadTailProperties DEF TypeOK
<1>3. a \in Seq(Chunks) /\ a \in Seq(Nat) /\ p \in Seq(Nat) /\ p \in Seq(Chunks) /\ a # <<>>
  <2>1. a \in Seq(Chunks)
    BY <1>1, <1>2, ReadMessages
  <2>2. a \in Seq(Nat)
    BY <1>1, <1>2, ChunksAreNumbers DEF Carried
  <2>3. a # <<>>
    BY <1>1, <1>2 DEF FullInv
  <2> QED BY <2>1, <2>2, <2>3, ChunksAreNumbers DEF TypeOK
<1>4. Rising(a) /\ Below(p, a)
  <2>1. InOrder(p, client_rx, term_data_rx)
    BY DEF OutputInv, Conserved
  <2>2. Carried(x) = a
    BY <1>1 DEF Carried
  <2>3. 1 \in DOMAIN client_rx /\ x = client_rx[1]
    BY <1>1, OneLess DEF TypeOK
  <2> QED BY <2>1, <2>2, <2>3 DEF InOrder
<1>5. /\ terminal_parser' = p \o a /\ viewer' = viewer /\ blind' = blind
      /\ terminal_subscribers' = {v \in terminal_subscribers : TrySend(v, e) # queue[v]}
      /\ queue' = [v \in Viewers |-> IF v \in terminal_subscribers THEN TrySend(v, e) ELSE queue[v]]
  BY DEF HandleTerminalOutput, history
<1>6. e \in Event /\ e.type = "data" /\ e.chunks = a
  BY <1>3, MadeEvents
<1> HIDE DEF p, x, a, e
<1>7. p \o a # <<>>
  <2>1. Len(p) \in Nat /\ Len(a) \in Nat /\ Len(a) # 0
    BY <1>3, LenProperties, EmptySeq
  <2>2. Len(p \o a) = Len(p) + Len(a)
    BY <1>3, ConcatProperties
  <2> QED BY <2>1, <2>2
<1>8. FreshInv'
  BY <1>5, <1>7 DEF FreshInv
<1>9. ASSUME NEW v \in terminal_subscribers' \ blind', Serving'
      PROVE  Closed(v)' \/ Pending(v)' \/ Joins(viewer'[v].shows, queue'[v], terminal_parser')
  <2>1. v \in terminal_subscribers \ blind /\ v \in Viewers
    BY <1>5, <1>9 DEF TypeOK
  <2>2. queue'[v] = TrySend(v, e) /\ TrySend(v, e) # queue[v]
    BY <1>5, <1>9, <2>1
  <2>3. queue'[v] = Append(queue[v], e)
    BY <2>2 DEF TrySend
  <2>4. Closed(v) \/ Pending(v) \/ Joins(viewer[v].shows, queue[v], p)
    BY <1>9, <2>1 DEF JoinInv, p
  <2>5. Closed(v) => Closed(v)'
    BY <1>5 DEF Closed
  <2>6. Pending(v) => Pending(v)'
    BY <1>1, PendingHandled DEF HeadHandled
  <2>7. Joins(viewer[v].shows, queue[v], p) => Joins(viewer[v].shows, Append(queue[v], e), p \o a)
    <3>1. queue[v] \in Seq(Event)
      BY <2>1 DEF TypeOK
    <3> QED BY ONLY <1>3, <1>4, <1>6, <3>1, JoinsOutput
  <2> QED BY <1>5, <2>3, <2>4, <2>5, <2>6, <2>7
<1>10. JoinInv'
  BY <1>9 DEF JoinInv
<1> QED BY <1>8, <1>10

\* The snapshot: the viewer joins the screen as it is, or had no room for it.
LEMMA WatchJoins ==
    ASSUME TypeOK, OutputInv, FreshInv, JoinInv, HandleWatchTerminal, Serving' => Serving
    PROVE  FreshInv' /\ JoinInv'
<1> DEFINE p == terminal_parser
           v == Head(client_rx).viewer
           e == [type |-> "snapshot", chunks |-> p]
<1>1. HeadHandled("WatchTerminal") /\ client_rx # <<>> /\ Head(client_rx).type = "WatchTerminal"
  BY DEF HandleWatchTerminal, Receive, HeadHandled
<1>2. v \in Viewers /\ Head(client_rx) = Watch(v) /\ Head(client_rx) \in ToSet(client_rx)
  <2>1. Head(client_rx) \in ClientMessage /\ Head(client_rx) \in ToSet(client_rx)
    BY <1>1, OneLess, HeadTailProperties DEF TypeOK
  <2>2. \A m \in ClientMessage : m.type = "WatchTerminal" => m.viewer \in Viewers /\ m = Watch(m.viewer)
    BY DEF ClientMessage, Watch
  <2> QED BY <1>1, <2>1, <2>2
<1>3. Pending(v)
  BY <1>2, PendingIs
<1>4. \A w : (Pending(w)' => Pending(w)) /\ (Pending(w) /\ w # v => Pending(w)')
  <2>1. \A w : Watch(w) = Watch(v) => w = v
    BY NamesDiffer
  <2> QED BY <1>1, <1>2, <2>1, PendingHandled
<1>5. /\ terminal_parser' = p /\ terminal_subscribers' = terminal_subscribers \cup {v}
      /\ viewer' = [viewer EXCEPT ![v].since = out]
      /\ queue' = IF p = <<>> THEN queue ELSE [queue EXCEPT ![v] = TrySend(v, e)]
      /\ blind' = IF p # <<>> /\ TrySend(v, e) = queue[v] THEN blind \cup {v} ELSE blind \ {v}
  BY DEF HandleWatchTerminal
<1>6. e \in Event /\ e.type = "snapshot" /\ e.chunks = p
  BY MadeEvents DEF TypeOK
<1>7. Rising(p)
  BY DEF OutputInv, Conserved, InOrder
<1>8. viewer \in [Viewers -> View] /\ queue \in [Viewers -> Seq(Event)]
  BY DEF TypeOK
<1> HIDE DEF p, v, e
<1>9. \A w \in Viewers : viewer'[w].shows = viewer[w].shows /\ viewer'[w].task = viewer[w].task
  <2>1. \A r \in View : [r EXCEPT !.since = out].shows = r.shows /\ [r EXCEPT !.since = out].task = r.task
    BY DEF View
  <2> QED BY <1>2, <1>5, <1>8, <2>1
<1>10. FreshInv'
  <2> SUFFICES ASSUME Serving', p = <<>>, NEW w \in Viewers
               PROVE  /\ queue'[w] = <<>>
                      /\ w \in terminal_subscribers' \/ Pending(w)' => Closed(w)' \/ viewer'[w].shows = <<>>
    BY <1>5 DEF FreshInv
  <2>1. queue[w] = <<>> /\ (w \in terminal_subscribers \/ Pending(w) => Closed(w) \/ viewer[w].shows = <<>>)
    BY DEF FreshInv, p
  <2> QED BY <1>3, <1>4, <1>5, <1>9, <2>1 DEF Closed
<1>11. ASSUME NEW w \in terminal_subscribers' \ blind', Serving'
       PROVE  Closed(w)' \/ Pending(w)' \/ Joins(viewer'[w].shows, queue'[w], terminal_parser')
  <2>1. w \in Viewers /\ Serving
    BY <1>2, <1>5, <1>11 DEF TypeOK
  <2>2. CASE w # v
    <3>1. w \in terminal_subscribers \ blind
      BY <1>5, <1>11, <2>2
    <3>2. Closed(w) \/ Pending(w) \/ Joins(viewer[w].shows, queue[w], p)
      BY <2>1, <3>1 DEF JoinInv, p
    <3>3. queue'[w] = queue[w]
      BY <1>5, <1>8, <2>1, <2>2
    <3> QED BY <1>4, <1>5, <1>9, <2>1, <2>2, <3>2, <3>3 DEF Closed
  <2>3. CASE w = v /\ p = <<>>
    <3>1. queue[v] = <<>> /\ (Closed(v) \/ viewer[v].shows = <<>>)
      BY <1>2, <1>3, <2>1, <2>3 DEF FreshInv, p
    <3> QED BY <1>2, <1>5, <1>9, <2>3, <3>1, JoinsEmpty DEF Closed
  <2>4. CASE w = v /\ p # <<>>
    <3>1. TrySend(v, e) # queue[v]
      BY <1>5, <1>11, <2>4
    <3>2. queue'[v] = Append(queue[v], e)
      BY <1>2, <1>5, <1>8, <2>4, <3>1 DEF TrySend
    <3>3. queue[v] \in Seq(Event)
      BY <1>2, <1>8
    <3>4. Joins(viewer'[v].shows, Append(queue[v], e), p)
      BY ONLY <1>6, <1>7, <3>3, JoinsSnapshot
    <3> QED BY <1>5, <2>4, <3>2, <3>4
  <2> QED BY <2>2, <2>3, <2>4
<1>12. JoinInv'
  BY <1>11 DEF JoinInv
<1> QED BY <1>10, <1>12

\* For the viewer that has asked again everything is still to come.
LEMMA WatchesJoins ==
    ASSUME TypeOK, FreshInv, JoinInv, NEW v \in Viewers, Watches(v), Serving' => Serving
    PROVE  FreshInv' /\ JoinInv'
<1>1. /\ terminal_subscribers' = terminal_subscribers /\ terminal_parser' = terminal_parser
      /\ blind' = blind /\ queue' = queue
      /\ viewer' = [viewer EXCEPT ![v].task = "watching", ![v].shows = <<>>]
  BY DEF Watches, daemon
<1>2. \A w : Pending(w)' <=> Pending(w) \/ w = v
  <2>1. SentOne(Watch(v)) \/ Rewatch(v)
    BY DEF Watches, Send, SentOne, Watch, Rewatch
  <2> QED BY <2>1, PendingWatched
<1>3. viewer'[v].shows = <<>>
  <2>1. viewer' = [[viewer EXCEPT ![v].task = "watching"] EXCEPT ![v].shows = <<>>]
    BY <1>1
  <2>2. viewer \in [Viewers -> View]
    BY DEF TypeOK
  <2> QED BY <2>1, <2>2 DEF View
<1>4. \A w \in Viewers \ {v} : viewer'[w] = viewer[w]
  BY <1>1 DEF TypeOK
<1>5. terminal_subscribers \subseteq Viewers
  BY DEF TypeOK
<1>6. FreshInv'
  BY <1>1, <1>2, <1>3, <1>4 DEF FreshInv, Closed
<1>7. JoinInv'
  BY <1>1, <1>2, <1>4, <1>5 DEF JoinInv, Closed
<1> QED BY <1>6, <1>7

\* What is shown comes off the channel.
LEMMA ShowsJoins ==
    ASSUME TypeOK, OutputInv, FreshInv, JoinInv, NEW v \in Viewers, ViewerShows(v), Serving' => Serving
    PROVE  FreshInv' /\ JoinInv'
<1> DEFINE e == Head(queue[v])
           now == After(viewer[v].shows, e)
<1>1. /\ terminal_subscribers' = terminal_subscribers /\ terminal_parser' = terminal_parser
      /\ blind' = blind /\ client_rx' = client_rx
      /\ queue[v] # <<>> /\ queue' = [queue EXCEPT ![v] = Tail(@)]
      /\ viewer' = [viewer EXCEPT ![v].shows = now]
  BY DEF ViewerShows, daemon, history
<1>2. viewer \in [Viewers -> View] /\ queue \in [Viewers -> Seq(Event)]
  BY DEF TypeOK
<1>3. e \in Event /\ queue[v] \in Seq(Event)
  BY <1>1, <1>2, HeadTailProperties
<1>4. viewer[v].shows \in Seq(Nat) /\ e.chunks \in Seq(Nat)
  <2>1. viewer[v] \in View
    BY <1>2
  <2>2. viewer[v].shows \in Seq(Chunks) /\ e.chunks \in Seq(Chunks)
    <3> HIDE DEF e
    <3> QED BY <1>3, <2>1 DEF View, Event
  <2>3. Chunks \subseteq Nat
    BY DEF Chunks, TypeOK
  <2>4. Seq(Chunks) \subseteq Seq(Nat)
    BY <2>3, SeqMonotonic
  <2> QED BY <2>2, <2>4
<1>5. Serving => terminal_parser # <<>>
  BY <1>1 DEF FreshInv
<1>6. \A w : Pending(w)' <=> Pending(w)
  BY <1>1 DEF Pending
<1> HIDE DEF e, now
<1>7. /\ \A w \in Viewers \ {v} : viewer'[w] = viewer[w] /\ queue'[w] = queue[w]
      /\ viewer'[v] = [viewer[v] EXCEPT !.shows = now] /\ queue'[v] = Tail(queue[v])
  BY <1>1, <1>2
<1>8. viewer'[v].shows = now /\ viewer'[v].task = viewer[v].task
  <2>1. viewer[v] \in View
    BY <1>2
  <2> QED BY <1>7, <2>1 DEF View
<1>9. FreshInv'
  BY <1>1, <1>5 DEF FreshInv
<1>10. ASSUME NEW w \in terminal_subscribers' \ blind', Serving'
       PROVE  Closed(w)' \/ Pending(w)' \/ Joins(viewer'[w].shows, queue'[w], terminal_parser')
  <2>1. w \in Viewers /\ (Closed(w) \/ Pending(w) \/ Joins(viewer[w].shows, queue[w], terminal_parser))
    BY <1>1, <1>10 DEF JoinInv, TypeOK
  <2>2. CASE w # v
    BY <1>1, <1>6, <1>7, <2>1, <2>2 DEF Closed
  <2>3. CASE w = v
    <3>1. Joins(viewer[v].shows, queue[v], terminal_parser) => Joins(now, Tail(queue[v]), terminal_parser)
      BY <1>1, <1>3, <1>4, JoinsShown DEF e, now
    <3> QED BY <1>1, <1>6, <1>7, <1>8, <2>1, <2>3, <3>1 DEF Closed
  <2> QED BY <2>2, <2>3
<1>11. JoinInv'
  BY <1>10 DEF JoinInv
<1> QED BY <1>9, <1>11

\* A viewer that turns away shows what it shows, or is closed.
LEMMA LeavesJoins ==
    ASSUME TypeOK, FreshInv, JoinInv, NEW v \in Viewers,
           PageUnwatches(v) \/ SocketHangsUp(v) \/ SocketEnds(v), Serving' => Serving
    PROVE  FreshInv' /\ JoinInv'
<1>1. /\ terminal_subscribers' = terminal_subscribers /\ terminal_parser' = terminal_parser
      /\ blind' = blind
  BY DEF PageUnwatches, SocketHangsUp, SocketEnds, daemon, history
<1>2. viewer \in [Viewers -> View] /\ queue \in [Viewers -> Seq(Event)]
  BY DEF TypeOK
<1>3. PICK task : /\ viewer' = [viewer EXCEPT ![v].task = task]
                  /\ queue' = queue \/ (queue' = [queue EXCEPT ![v] = <<>>] /\ task = "ended")
                  /\ viewer[v].task # "ended"
  BY DEF PageUnwatches, SocketHangsUp, SocketEnds
<1>4. /\ \A w \in Viewers \ {v} : viewer'[w] = viewer[w] /\ queue'[w] = queue[w]
      /\ viewer'[v].shows = viewer[v].shows /\ viewer'[v].task = task
      /\ queue'[v] = queue[v] \/ (queue'[v] = <<>> /\ task = "ended")
  <2>1. viewer[v] \in View
    BY <1>2
  <2>2. viewer'[v] = [viewer[v] EXCEPT !.task = task]
    BY <1>2, <1>3
  <2> QED BY <1>2, <1>3, <2>1, <2>2 DEF View
<1>5. \A w : Pending(w)' <=> Pending(w)
  <2>1. SentOne(Unwatch) \/ Unsent
    BY DEF PageUnwatches, SocketHangsUp, SocketEnds, Send, SentOne, Unwatch, Unsent
  <2>2. Unwatch \in ClientMessage
    BY MadeMessages DEF Unwatch
  <2>3. SentOne(Unwatch) => \A w : Pending(w)' <=> Pending(w)
    BY <2>2, PendingSent, NamesDiffer
  <2> QED BY <2>1, <2>3 DEF Unsent, Pending
<1>6. terminal_subscribers \subseteq Viewers
  BY DEF TypeOK
<1>7. FreshInv'
  BY <1>1, <1>3, <1>4, <1>5 DEF FreshInv, Closed
<1>8. JoinInv'
  BY <1>1, <1>3, <1>4, <1>5, <1>6 DEF JoinInv, Closed
<1> QED BY <1>7, <1>8

\* Around a watch request output may arrive in any order: the invariants say
\* that a session that ended never starts again (TurnInv), that output is
\* output (FullInv), that nobody shows a screen the daemon has not (FreshInv)
\* and that whoever subscribed joins the screen (JoinInv).
THEOREM SnapshotThenStreamHolds == Spec => []SnapshotThenStream
<1> DEFINE Snapshots == TurnInv /\ FullInv /\ FreshInv /\ JoinInv
<1>1. TypeOK /\ OutputInv /\ Snapshots /\ [Next]_vars => Snapshots'
  <2> SUFFICES ASSUME TypeOK, OutputInv, TurnInv, FullInv, FreshInv, JoinInv, [Next]_vars
               PROVE  TurnInv' /\ FullInv' /\ FreshInv' /\ JoinInv'
    OBVIOUS
  <2>1. RequestStep /\ (running' => running) /\ (Serving' => Serving)
    BY RequestSteps, ServingBefore
  <2>2. TurnInv' /\ FullInv'
    BY <2>1, TurnStep, FullStep
  <2>3. CASE WrapperSteps \/ DaemonStarts \/ HandleRegisterWrapper \/ UNCHANGED vars
    BY <2>1, <2>2, <2>3, AsideSteps, AsideKeeps
  <2>4. CASE HandleUnwatchTerminal \/ HandleUnregisterWrapper \/ DaemonStops
    BY <2>1, <2>2, <2>4, OverKeeps
  <2>5. CASE HandleTerminalOutput
    BY <2>1, <2>2, <2>5, OutputJoins
  <2>6. CASE HandleWatchTerminal
    BY <2>1, <2>2, <2>6, WatchJoins
  <2>7. CASE ViewerSteps
    BY <2>1, <2>2, <2>7, WatchesJoins, ShowsJoins, LeavesJoins DEF ViewerSteps, Viewers
  <2>8. \/ WrapperSteps \/ MainLoop \/ DaemonStops \/ DaemonStarts \/ ViewerSteps \/ UNCHANGED vars
    BY DEF Next, WrapperSteps, ViewerSteps
  <2> QED BY <2>3, <2>4, <2>5, <2>6, <2>7, <2>8 DEF MainLoop
<1>2. Snapshots => SnapshotThenStream
  BY DEF JoinInv, Serving, SnapshotThenStream, Pending
<1>3. TypeOK /\ OutputInv /\ [Next]_vars => OutputInv'
  BY OutputStep
<1> QED BY <1>1, <1>2, <1>3, OutputInit, SnapshotInit, TermTypeCorrect, PTL DEF Spec
==============================================================================
