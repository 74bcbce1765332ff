---------------------------- MODULE RelayChannel -----------------------------
(***************************************************************************)
(* The relay server: the channel manager task that owns every channel      *)
(* (channel.rs) and the connection tasks that talk to it (server.rs). The  *)
(* devices behind the connections are external; payloads are opaque, so a  *)
(* message is named by the key of its sender.                              *)
(***************************************************************************)
EXTENDS Naturals, Sequences, FiniteSets

CONSTANTS
    Channels, Keys,
    Conns,        \* WebSocket connections, one use each
    ChannelOf,    \* the channel id a connection authenticates for
    KeyOf,        \* the public key it presents
    HasToken,     \* the connections that present a valid server token
    MaxBuffer,    \* --max-buffer
    PeerCap,      \* capacity of a connection's channel (64)
    CmdCap,       \* capacity of the manager's channel (256)
    MaxSeq,       \* bound: messages per life of a channel
    MaxEpochs,    \* bound: lives of a channel
    None

ASSUME ConnTypes == /\ ChannelOf \in [Conns -> Channels]
                    /\ KeyOf \in [Conns -> Keys]
                    /\ HasToken \subseteq Conns
ASSUME CapTypes == /\ MaxBuffer \in Nat \ {0} /\ PeerCap \in Nat \ {0}
                   /\ CmdCap \in Nat \ {0} /\ MaxSeq \in Nat /\ MaxEpochs \in Nat

BufferedMessage == [seq : Nat, from : Keys]

Channel == [peers : SUBSET Conns, buffer : Seq(BufferedMessage), next_seq : Nat,
            idle : {"recently", "expired"}]  \* last_activity against channel_ttl

ASSUME NoneIsNoChannel == None \notin Channel

VARIABLES
    channels,   \* channel id -> Channel or None
    cmd_rx,     \* the manager's channel: FIFO
    task,       \* connection -> where its task is
    open,       \* connections whose client end is still there
    queue,      \* connection -> number of messages waiting in peer_rx
    \* history
    log,        \* channel id -> senders of all messages of this life
    epoch,      \* channel id -> how many lives it has had
    cursor,     \* key -> highest sequence number it got from a sync, and its epoch
    owed,       \* key -> buffered numbers since its last sync
    missed      \* sync answers that left out an owed message

vars == <<channels, cmd_rx, task, open, queue, log, epoch, cursor, owed, missed>>
history == <<log, epoch, cursor, owed, missed>>

ChannelCmd ==
         [type : {"Auth", "Forward", "Disconnect"}, conn : Conns]
    \cup [type : {"Sync"}, conn : Conns, channel : Channels, since : Nat]

TypeOK ==
    /\ channels \in [Channels -> Channel \cup {None}]
    /\ cmd_rx \in Seq(ChannelCmd) /\ Len(cmd_rx) <= CmdCap
    /\ task \in [Conns -> {"new", "authing", "live", "syncing", "gone"}]
    /\ open \in SUBSET Conns
    /\ queue \in [Conns -> 0..PeerCap]
    /\ log \in [Channels -> Seq(Keys)]
    /\ epoch \in [Channels -> Nat]
    /\ cursor \in [Keys -> [Channels -> [epoch : Nat, seq : Nat]]]
    /\ owed \in [Keys -> [Channels -> SUBSET Nat]]
    /\ missed \in SUBSET [key : Keys, channel : {"same", "evicted"}]

Init ==
    /\ channels = [ch \in Channels |-> None]
    /\ cmd_rx = <<>>
    /\ task = [c \in Conns |-> "new"]
    /\ open = Conns
    /\ queue = [c \in Conns |-> 0]
    /\ log = [ch \in Channels |-> <<>>]
    /\ epoch = [ch \in Channels |-> 0]
    /\ cursor = [k \in Keys |-> [ch \in Channels |-> [epoch |-> 0, seq |-> 0]]]
    /\ owed = [k \in Keys |-> [ch \in Channels |-> {}]]
    /\ missed = {}

-----------------------------------------------------------------------------
(* The channel manager.                                                    *)

NewChannel == [peers |-> {}, buffer |-> <<>>, next_seq |-> 1, idle |-> "recently"]

\* channels.entry(id).or_insert_with(Channel::new), then touch().
Touched(ch) ==
    IF channels[ch] = None THEN NewChannel ELSE [channels[ch] EXCEPT !.idle = "recently"]

PeersWithKey(P, k) == {p \in P : KeyOf[p] = k}

\* Mutant: an unbounded channel to each peer.
Notify_Unbounded(P) ==
    queue' = [c \in Conns |-> IF c \in P THEN queue[c] + 1 ELSE queue[c]]

\* try_send to each of P: a full channel loses the message.
Notify(P) == queue' = [c \in Conns |-> IF c \in P /\ queue[c] < PeerCap
                                       THEN queue[c] + 1 ELSE queue[c]]

\* The history of a channel that is removed ends with it.
Removed(S) ==
    /\ log' = [ch \in Channels |-> IF ch \in S THEN <<>> ELSE log[ch]]
    /\ owed' = [k \in Keys |-> [ch \in Channels |-> IF ch \in S THEN {} ELSE owed[k][ch]]]
    /\ UNCHANGED <<epoch, cursor, missed>>

Receive(type) ==
    /\ cmd_rx # <<>>
    /\ Head(cmd_rx).type = type
    /\ cmd_rx' = Tail(cmd_rx)
    /\ UNCHANGED open

\* Mutant: a second connection with the same key is let in.
HandleAuth_NoDuplicateCheck ==
    /\ Receive("Auth")
    /\ LET c  == Head(cmd_rx).conn
           ch == ChannelOf[c]
       IN  /\ channels' = [channels EXCEPT ![ch] = [Touched(ch) EXCEPT !.peers = @ \cup {c}]]
           /\ task' = [task EXCEPT ![c] = "live"]
           /\ epoch' = [epoch EXCEPT ![ch] = IF channels[ch] = None THEN @ + 1 ELSE @]
    /\ UNCHANGED <<queue, log, cursor, owed, missed>>

\* A key that is in the channel already is refused; the refused task returns
\* without a Disconnect.
HandleAuth ==
    /\ Receive("Auth")
    /\ LET c  == Head(cmd_rx).conn
           ch == ChannelOf[c]
           channel == Touched(ch)
       IN  /\ IF PeersWithKey(channel.peers, KeyOf[c]) # {}
              THEN /\ channels' = [channels EXCEPT ![ch] = channel]
                   /\ task' = [task EXCEPT ![c] = "gone"]
                   /\ UNCHANGED queue
              ELSE /\ channels' = [channels EXCEPT ![ch] =
                                       [channel EXCEPT !.peers = @ \cup {c}]]
                   /\ task' = [task EXCEPT ![c] = "live"]
                   /\ Notify(channel.peers \cup {c})
           /\ epoch' = [epoch EXCEPT ![ch] = IF channels[ch] = None THEN @ + 1 ELSE @]
    /\ UNCHANGED <<log, cursor, owed, missed>>

\* Mutant: the newest message is the one that does not fit.
Pushed_PopBack(buffer, m) ==
    IF Len(buffer) = MaxBuffer THEN buffer ELSE Append(buffer, m)

\* The ring buffer: push_back, then pop_front when over capacity.
Pushed(buffer, m) ==
    LET longer == Append(buffer, m)
    IN  IF Len(longer) > MaxBuffer THEN Tail(longer) ELSE longer

Seqs(buffer) == {buffer[i].seq : i \in 1..Len(buffer)}

HandleForward ==
    /\ Receive("Forward")
    /\ LET c  == Head(cmd_rx).conn
           ch == ChannelOf[c]
           channel == Touched(ch)
           buffer  == Pushed(channel.buffer, [seq |-> channel.next_seq, from |-> KeyOf[c]])
       IN  IF channels[ch] = None
           THEN UNCHANGED <<channels, queue, log, owed>>
           ELSE /\ channels' = [channels EXCEPT ![ch] =
                       [channel EXCEPT !.buffer = buffer, !.next_seq = @ + 1]]
                /\ Notify(channel.peers \ PeersWithKey(channel.peers, KeyOf[c]))
                /\ log' = [log EXCEPT ![ch] = Append(@, KeyOf[c])]
                /\ owed' = [k \in Keys |-> [owed[k] EXCEPT ![ch] =
                               (@ \cup {channel.next_seq}) \cap Seqs(buffer)]]
    /\ UNCHANGED <<task, epoch, cursor, missed>>

\* Mutant: `since` is taken for the first number wanted but one.
SyncReply_OffByOne(ch, since) ==
    IF channels[ch] = None THEN {}
    ELSE {s \in Seqs(channels[ch].buffer) : s > since + 1}

\* The buffered messages after `since`, and the client that takes note of them.
SyncReply(ch, since) ==
    IF channels[ch] = None THEN {}
    ELSE {s \in Seqs(channels[ch].buffer) : s > since}

\* A reply is in the order of the buffer: its last message is the newest one.
Newest(buffer) == buffer[Len(buffer)].seq

\* Only what a device gets of the channel it is in enters its history.
HandleSync ==
    /\ Receive("Sync")
    /\ LET c  == Head(cmd_rx).conn
           ch == Head(cmd_rx).channel
           k  == KeyOf[c]
           seqs == SyncReply(ch, Head(cmd_rx).since)
       IN  /\ task' = [task EXCEPT ![c] = "live"]
           /\ IF c \in open /\ ch = ChannelOf[c]
              THEN /\ cursor' = IF seqs = {} THEN cursor
                                ELSE [cursor EXCEPT ![k][ch] =
                                         [ epoch |-> epoch[ch],
                                           seq |-> Newest(channels[ch].buffer) ]]
                   /\ owed' = [owed EXCEPT ![k][ch] = {}]
                   /\ missed' = IF owed[k][ch] \subseteq seqs THEN missed
                                ELSE missed \cup {[key |-> k, channel |->
                                         IF cursor[k][ch].epoch \in {0, epoch[ch]}
                                         THEN "same" ELSE "evicted"]}
              ELSE UNCHANGED <<cursor, owed, missed>>
    /\ UNCHANGED <<channels, queue, log, epoch>>

\* Mutant: the last peer takes the channel with it, buffered messages and all.
HandleDisconnect_DropsBuffer ==
    /\ Receive("Disconnect")
    /\ LET c  == Head(cmd_rx).conn
           ch == ChannelOf[c]
           channel == channels[ch]
           left == channel.peers \ PeersWithKey(channel.peers, KeyOf[c])
       IN  IF channel # None /\ left = {}
           THEN channels' = [channels EXCEPT ![ch] = None] /\ Removed({ch})
           ELSE UNCHANGED <<channels, history>>
    /\ UNCHANGED <<task, queue>>

\* A disconnect names the key, not the connection.
HandleDisconnect ==
    /\ Receive("Disconnect")
    /\ LET c  == Head(cmd_rx).conn
           ch == ChannelOf[c]
           channel == channels[ch]
           left == channel.peers \ PeersWithKey(channel.peers, KeyOf[c])
       IN  IF channel = None
           THEN UNCHANGED <<channels, queue, history>>
           ELSE /\ Notify(left)
                /\ IF left = {} /\ channel.buffer = <<>>
                   THEN channels' = [channels EXCEPT ![ch] = None] /\ Removed({ch})
                   ELSE /\ channels' = [channels EXCEPT ![ch].peers = left]
                        /\ UNCHANGED history
    /\ UNCHANGED task

\* Mutant: an idle channel is dropped with the peers that are in it.
EvictStale_WithPeers ==
    LET old == {ch \in Channels : channels[ch] # None /\ channels[ch].idle = "expired"}
    IN  /\ old # {}
        /\ channels' = [ch \in Channels |-> IF ch \in old THEN None ELSE channels[ch]]
        /\ Removed(old)
        /\ UNCHANGED <<cmd_rx, task, open, queue>>

\* The 60 s tick: channels that are idle and that nobody is in are dropped.
EvictStale ==
    LET old == {ch \in Channels : /\ channels[ch] # None
                                  /\ channels[ch].peers = {} /\ channels[ch].idle = "expired"}
    IN  /\ old # {}
        /\ channels' = [ch \in Channels |-> IF ch \in old THEN None ELSE channels[ch]]
        /\ Removed(old)
        /\ UNCHANGED <<cmd_rx, task, open, queue>>

\* The channel's last activity falls behind its time to live.
Age(ch) ==
    /\ channels[ch] # None /\ channels[ch].idle = "recently"
    /\ epoch[ch] < MaxEpochs
    /\ channels' = [channels EXCEPT ![ch].idle = "expired"]
    /\ UNCHANGED <<cmd_rx, task, open, queue, history>>

-----------------------------------------------------------------------------
(* Connection tasks. A send to the manager waits for room.                 *)

Enqueue(cmd) ==
    /\ Len(cmd_rx) < CmdCap
    /\ cmd_rx' = Append(cmd_rx, cmd)

\* The first message must be Auth, with the token if the relay asks for one.
TaskAuth(c) ==
    /\ task[c] = "new"
    /\ \/ /\ c \in HasToken
          /\ Enqueue([type |-> "Auth", conn |-> c])
          /\ task' = [task EXCEPT ![c] = "authing"]
       \/ /\ c \notin open \/ c \notin HasToken
          /\ task' = [task EXCEPT ![c] = "gone"]
          /\ UNCHANGED cmd_rx
    /\ UNCHANGED <<channels, open, queue, history>>

TaskForward(c) ==
    /\ task[c] = "live"
    /\ c \in open
    /\ Len(log[ChannelOf[c]]) + Len(cmd_rx) < MaxSeq      \* bound
    /\ Enqueue([type |-> "Forward", conn |-> c])
    /\ UNCHANGED <<channels, task, open, queue, history>>

\* A device asks for what it missed, after the last number it was given. The
\* request has a channel id of its own, which is not compared with that of Auth.
TaskSync(c, ch) ==
    /\ task[c] = "live"
    /\ c \in open
    /\ Enqueue([type |-> "Sync", conn |-> c, channel |-> ch, since |-> cursor[KeyOf[c]][ch].seq])
    /\ task' = [task EXCEPT ![c] = "syncing"]
    /\ UNCHANGED <<channels, open, queue, history>>

TaskDeliver(c) ==
    /\ task[c] = "live"
    /\ queue[c] > 0
    /\ queue' = [queue EXCEPT ![c] = @ - 1]
    /\ UNCHANGED <<channels, cmd_rx, task, open, history>>

\* Mutant: the task returns at once, as one that was refused does.
TaskDisconnect_Silent(c) ==
    /\ task[c] = "live"
    /\ c \notin open
    /\ task' = [task EXCEPT ![c] = "gone"]
    /\ UNCHANGED <<channels, cmd_rx, open, queue, history>>

\* The loop over both ends stops: the peer is taken out of its channel.
TaskDisconnect(c) ==
    /\ task[c] = "live"
    /\ c \notin open
    /\ Enqueue([type |-> "Disconnect", conn |-> c])
    /\ task' = [task EXCEPT ![c] = "gone"]
    /\ UNCHANGED <<channels, open, queue, history>>

ClientClose(c) ==
    /\ c \in open
    /\ open' = open \ {c}
    /\ UNCHANGED <<channels, cmd_rx, task, queue, history>>

-----------------------------------------------------------------------------

Manager == HandleAuth \/ HandleForward \/ HandleSync \/ HandleDisconnect

Tasks(c) == \/ TaskAuth(c) \/ TaskForward(c) \/ (\E ch \in Channels : TaskSync(c, ch))
            \/ TaskDeliver(c) \/ TaskDisconnect(c)

Next ==
    \/ Manager
    \/ EvictStale
    \/ \E ch \in Channels : Age(ch)
    \/ \E c \in Conns : Tasks(c) \/ ClientClose(c)

Spec == Init /\ [][Next]_vars

\* The manager takes what is queued, and a task that waits for room in the queue
\* is given it in its turn, whatever the others send.
FairSpec == Spec /\ WF_vars(Manager) /\ \A c \in Conns : SF_vars(TaskDisconnect(c))

-----------------------------------------------------------------------------
(* Properties.                                                             *)

PeersOf(ch) == IF channels[ch] = None THEN {} ELSE channels[ch].peers
BufferOf(ch) == IF channels[ch] = None THEN <<>> ELSE channels[ch].buffer
NextSeqOf(ch) == IF channels[ch] = None THEN 1 ELSE channels[ch].next_seq

\* b holds the last messages of log l, numbered up to next - 1.
IsWindow(b, next, l) ==
    /\ next = Len(l) + 1
    /\ Len(b) = IF Len(l) < MaxBuffer THEN Len(l) ELSE MaxBuffer
    /\ \A i \in 1..Len(b) : /\ b[i].seq = Len(l) - Len(b) + i
                            /\ b[i].from = l[Len(l) - Len(b) + i]

\* The ring buffer is exactly the end of the channel's log, and as much of it as
\* fits: no message is skipped, repeated or reordered, and sequence numbers have
\* no gap.
BufferIsWindow ==
    \A ch \in Channels : IsWindow(BufferOf(ch), NextSeqOf(ch), log[ch])

\* A connection that was told AuthOk is a peer of its channel until it leaves:
\* no eviction, and no disconnect or refusal of another connection with the
\* same key, takes it out.
LiveIsPeer ==
    \A c \in Conns : task[c] \in {"live", "syncing"} => c \in PeersOf(ChannelOf[c])

\* A key is in a channel at most once, so that a disconnect, which names only
\* the key, removes only the connection that left.
OneConnectionPerKey ==
    \A ch \in Channels : \A c, d \in PeersOf(ch) : KeyOf[c] = KeyOf[d] => c = d

\* A device that asks after the last number it was given gets every buffered
\* message it was not given, as long as the channel was not evicted in between.
SyncComplete == \A m \in missed : m.channel = "evicted"

\* relay.md: a sync returns the buffered messages missed while offline.
SyncReturnsMissed == missed = {}

\* A peer whose client is gone is taken out of its channel in the end.
PeersLeave ==
    \A c \in Conns : (c \notin open /\ task[c] = "live") ~> (c \notin PeersOf(ChannelOf[c]))

\* The relay implements one bounded log per channel, written by its members.
Abstract == INSTANCE RelayLog WITH
    members <- [ch \in Channels |-> {KeyOf[c] : c \in PeersOf(ch)}],
    log     <- log,
    base    <- [ch \in Channels |-> Len(log[ch]) - Len(BufferOf(ch))]

ImplementsLog == Abstract!Spec

=============================================================================
