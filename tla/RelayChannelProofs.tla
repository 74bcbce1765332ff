------------------------- MODULE RelayChannelProofs --------------------------
(***************************************************************************)
(* Theorems about the relay's channel manager, for any number of channels, *)
(* keys and connections and any capacities.                                *)
(***************************************************************************)
EXTENDS RelayChannel, SequenceTheorems, TLAPS

USE DEF Channel, BufferedMessage

-----------------------------------------------------------------------------
(* Lemmas about the operators.                                             *)

\* Every command names a connection.
LEMMA CmdTypes ==
    ASSUME NEW m \in ChannelCmd
    PROVE  /\ m.conn \in Conns
           /\ m.type \in {"Auth", "Forward", "Disconnect", "Sync"}
           /\ m.type = "Sync" => m.since \in Nat /\ m.channel \in Channels
  BY DEF ChannelCmd

\* What receiving the head of the queue leaves.
LEMMA ReceiveTypes ==
    ASSUME cmd_rx \in Seq(ChannelCmd), cmd_rx # <<>>
    PROVE  /\ Head(cmd_rx) \in ChannelCmd
           /\ Head(cmd_rx) = cmd_rx[1]
           /\ Tail(cmd_rx) \in Seq(ChannelCmd)
           /\ Len(Tail(cmd_rx)) = Len(cmd_rx) - 1
           /\ \A i \in 1..Len(Tail(cmd_rx)) : Tail(cmd_rx)[i] = cmd_rx[i + 1]
  BY HeadTailProperties

\* What a handler is given, whatever the command.
LEMMA ReceiveStep ==
    ASSUME TypeOK, NEW type, Receive(type)
    PROVE  /\ cmd_rx' \in Seq(ChannelCmd) /\ Len(cmd_rx') <= CmdCap
           /\ open' \in SUBSET Conns
           /\ Head(cmd_rx).conn \in Conns
           /\ ChannelOf[Head(cmd_rx).conn] \in Channels
           /\ KeyOf[Head(cmd_rx).conn] \in Keys
  <1>1. /\ Head(cmd_rx) \in ChannelCmd
        /\ Tail(cmd_rx) \in Seq(ChannelCmd)
        /\ Len(Tail(cmd_rx)) = Len(cmd_rx) - 1
    BY ReceiveTypes DEF TypeOK, Receive
  <1>2. Len(cmd_rx) \in Nat
    BY LenProperties DEF TypeOK
  <1>3. Head(cmd_rx).conn \in Conns
    BY <1>1, CmdTypes
  <1> QED
    BY <1>1, <1>2, <1>3, ConnTypes, CapTypes DEF TypeOK, Receive

\* The manager's queue after a task has put a command at its end.
LEMMA EnqueueTypes ==
    ASSUME cmd_rx \in Seq(ChannelCmd), Len(cmd_rx) <= CmdCap,
           NEW m \in ChannelCmd, Enqueue(m)
    PROVE  cmd_rx' \in Seq(ChannelCmd) /\ Len(cmd_rx') <= CmdCap
  BY CapTypes, AppendProperties DEF Enqueue

\* Updates of a channel give a channel.
LEMMA ChannelUpdates ==
    ASSUME NEW r \in Channel
    PROVE  /\ \A x \in {"recently", "expired"} : [r EXCEPT !.idle = x] \in Channel
           /\ \A P \in SUBSET Conns : [r EXCEPT !.peers = P] \in Channel
           /\ \A b \in Seq(BufferedMessage), n \in Nat :
                  [r EXCEPT !.buffer = b, !.next_seq = n] \in Channel
  OBVIOUS

\* The channel a command works on, made if need be, is a channel.
LEMMA TouchedType ==
    ASSUME channels \in [Channels -> Channel \cup {None}], NEW ch \in Channels
    PROVE  Touched(ch) \in Channel
  <1>1. NewChannel \in Channel
    BY DEF NewChannel
  <1>2. CASE channels[ch] = None
    BY <1>1, <1>2 DEF Touched
  <1>3. CASE channels[ch] # None
    <2>1. PICK r \in Channel : r = channels[ch]
      BY <1>3
    <2>2. Touched(ch) = [r EXCEPT !.idle = "recently"]
      BY <1>3, <2>1, Zenon DEF Touched
    <2> QED
      BY <2>2, ChannelUpdates
  <1> QED
    BY <1>2, <1>3

\* The ring buffer stays a sequence of messages.
LEMMA PushedType ==
    ASSUME NEW b \in Seq(BufferedMessage), NEW m \in BufferedMessage
    PROVE  Pushed(b, m) \in Seq(BufferedMessage)
  <1>1. /\ Append(b, m) \in Seq(BufferedMessage)
        /\ Append(b, m) # <<>>
    BY AppendProperties
  <1>2. Tail(Append(b, m)) \in Seq(BufferedMessage)
    BY <1>1, HeadTailProperties
  <1> QED
    BY <1>1, <1>2 DEF Pushed

\* A channel's queue takes no more than it holds.
LEMMA NotifyType ==
    ASSUME queue \in [Conns -> 0..PeerCap], NEW P, Notify(P)
    PROVE  queue' \in [Conns -> 0..PeerCap]
  BY CapTypes DEF Notify

\* Tagging the commands keeps them commands.
LEMMA CmdsAreTyped ==
    ASSUME NEW c \in Conns
    PROVE  /\ [type |-> "Auth", conn |-> c] \in ChannelCmd
           /\ [type |-> "Forward", conn |-> c] \in ChannelCmd
           /\ [type |-> "Disconnect", conn |-> c] \in ChannelCmd
           /\ \A ch \in Channels, n \in Nat :
                 [type |-> "Sync", conn |-> c, channel |-> ch, since |-> n] \in ChannelCmd
  BY DEF ChannelCmd

\* Forgetting channels keeps the types of their history.
LEMMA RemovedTypes ==
    ASSUME TypeOK, NEW S, Removed(S)
    PROVE  /\ log' \in [Channels -> Seq(Keys)]
           /\ epoch' \in [Channels -> Nat]
           /\ cursor' \in [Keys -> [Channels -> [epoch : Nat, seq : Nat]]]
           /\ owed' \in [Keys -> [Channels -> SUBSET Nat]]
           /\ missed' \in SUBSET [key : Keys, channel : {"same", "evicted"}]
  BY DEF TypeOK, Removed

-----------------------------------------------------------------------------
(* Type correctness.                                                       *)

\* The relay starts well typed.
LEMMA TypeInit == Init => TypeOK
  BY ConnTypes, CapTypes DEF Init, TypeOK

\* Handling Auth keeps every variable in its type.
LEMMA TypeHandleAuth == TypeOK /\ HandleAuth => TypeOK'
  <1> SUFFICES ASSUME TypeOK, HandleAuth PROVE TypeOK'
    OBVIOUS
  <1> DEFINE c == Head(cmd_rx).conn
             ch == ChannelOf[c]
             channel == Touched(ch)
  <1>1. /\ cmd_rx' \in Seq(ChannelCmd) /\ Len(cmd_rx') <= CmdCap
        /\ open' \in SUBSET Conns
        /\ c \in Conns /\ ch \in Channels
    <2>1. Receive("Auth")
      BY DEF HandleAuth
    <2> QED
      BY <2>1, ReceiveStep
  <1>2. channel \in Channel
    BY <1>1, TouchedType DEF TypeOK
  <1>3. [channel EXCEPT !.peers = @ \cup {c}] \in Channel
    BY <1>1, <1>2
  <1>4. channels' \in [Channels -> Channel \cup {None}]
    <2> HIDE DEF Channel
    <2>1. \/ channels' = [channels EXCEPT ![ch] = channel]
          \/ channels' = [channels EXCEPT ![ch] = [channel EXCEPT !.peers = @ \cup {c}]]
      BY DEF HandleAuth
    <2> QED
      BY <1>2, <1>3, <2>1 DEF TypeOK
  <1>5. task' \in [Conns -> {"new", "authing", "live", "syncing", "gone"}]
    BY <1>1 DEF TypeOK, HandleAuth
  <1>6. queue' \in [Conns -> 0..PeerCap]
    BY NotifyType DEF TypeOK, HandleAuth
  <1>7. epoch' \in [Channels -> Nat]
    BY <1>1 DEF TypeOK, HandleAuth
  <1>8. UNCHANGED <<log, cursor, owed, missed>>
    BY DEF HandleAuth
  <1> QED
    BY <1>1, <1>4, <1>5, <1>6, <1>7, <1>8 DEF TypeOK

\* So does forwarding a message, which may push the oldest out of the buffer,
LEMMA TypeHandleForward == TypeOK /\ HandleForward => TypeOK'
  <1> SUFFICES ASSUME TypeOK, HandleForward PROVE TypeOK'
    OBVIOUS
  <1> DEFINE c == Head(cmd_rx).conn
             ch == ChannelOf[c]
             channel == Touched(ch)
             m == [seq |-> channel.next_seq, from |-> KeyOf[c]]
             buffer == Pushed(channel.buffer, m)
  <1>1. /\ cmd_rx' \in Seq(ChannelCmd) /\ Len(cmd_rx') <= CmdCap
        /\ open' \in SUBSET Conns
        /\ c \in Conns /\ ch \in Channels /\ KeyOf[c] \in Keys
    <2>1. Receive("Forward")
      BY DEF HandleForward
    <2> QED
      BY <2>1, ReceiveStep
  <1>2. channel \in Channel
    BY <1>1, TouchedType DEF TypeOK
  <1>3. buffer \in Seq(BufferedMessage)
    <2>1. channel.buffer \in Seq(BufferedMessage) /\ m \in BufferedMessage
      BY <1>1, <1>2
    <2> QED
      BY <2>1, PushedType
  <1>4. [channel EXCEPT !.buffer = buffer, !.next_seq = @ + 1] \in Channel
    <2>1. channel.next_seq + 1 \in Nat
      BY <1>2
    <2> HIDE DEF buffer, channel
    <2> QED
      BY <1>2, <1>3, <2>1, ChannelUpdates
  <1>5. channels' \in [Channels -> Channel \cup {None}]
    <2> HIDE DEF Channel
    <2>1. \/ channels' = channels
          \/ channels' = [channels EXCEPT ![ch] =
                             [channel EXCEPT !.buffer = buffer, !.next_seq = @ + 1]]
      BY DEF HandleForward
    <2> QED
      BY <1>4, <2>1 DEF TypeOK
  <1>6. queue' \in [Conns -> 0..PeerCap]
    BY NotifyType DEF TypeOK, HandleForward
  <1>7. log' \in [Channels -> Seq(Keys)]
    <2>1. Append(log[ch], KeyOf[c]) \in Seq(Keys)
      BY <1>1, AppendProperties DEF TypeOK
    <2>2. \/ log' = log
          \/ log' = [log EXCEPT ![ch] = Append(@, KeyOf[c])]
      BY DEF HandleForward
    <2> HIDE DEF ch, c
    <2> QED
      BY <2>1, <2>2 DEF TypeOK
  <1>8. owed' \in [Keys -> [Channels -> SUBSET Nat]]
    <2>1. Seqs(buffer) \subseteq Nat
      <3>1. \A i \in 1..Len(buffer) : buffer[i] \in BufferedMessage
        BY <1>3, ElementOfSeq
      <3> HIDE DEF buffer
      <3> QED
        BY <3>1 DEF Seqs
    <2> DEFINE after(k) == [owed[k] EXCEPT ![ch] =
                               (@ \cup {channel.next_seq}) \cap Seqs(buffer)]
    <2>2. owed' = owed \/ owed' = [k \in Keys |-> after(k)]
      BY DEF HandleForward
    <2>3. \A k \in Keys : after(k) \in [Channels -> SUBSET Nat]
      <3> HIDE DEF buffer, channel, Channel, ch
      <3> TAKE k \in Keys
      <3>1. (owed[k][ch] \cup {channel.next_seq}) \cap Seqs(buffer) \in SUBSET Nat
        BY <2>1
      <3>2. owed[k] \in [Channels -> SUBSET Nat]
        BY DEF TypeOK
      <3> QED
        BY <3>1, <3>2
    <2> HIDE DEF after
    <2> QED
      BY <2>2, <2>3 DEF TypeOK
  <1>9. UNCHANGED <<task, epoch, cursor, missed>>
    BY DEF HandleForward
  <1> QED
    BY <1>1, <1>5, <1>6, <1>7, <1>8, <1>9 DEF TypeOK

\* ... answering a sync request,
LEMMA TypeHandleSync == TypeOK /\ HandleSync => TypeOK'
  <1> SUFFICES ASSUME TypeOK, HandleSync PROVE TypeOK'
    OBVIOUS
  <1> DEFINE c == Head(cmd_rx).conn
             ch == Head(cmd_rx).channel
             k == KeyOf[c]
             seqs == SyncReply(ch, Head(cmd_rx).since)
             note == [epoch |-> epoch[ch], seq |-> Newest(channels[ch].buffer)]
             loss == [key |-> k, channel |-> IF cursor[k][ch].epoch \in {0, epoch[ch]}
                                             THEN "same" ELSE "evicted"]
  <1>1. /\ cmd_rx' \in Seq(ChannelCmd) /\ Len(cmd_rx') <= CmdCap
        /\ open' \in SUBSET Conns
        /\ c \in Conns /\ ch \in Channels /\ k \in Keys
    <2>1. Receive("Sync")
      BY DEF HandleSync
    <2>2. Head(cmd_rx) \in ChannelCmd /\ Head(cmd_rx).type = "Sync"
      BY <2>1, ReceiveTypes DEF Receive, TypeOK
    <2> QED
      BY <2>1, <2>2, ReceiveStep, CmdTypes
  <1>2. task' \in [Conns -> {"new", "authing", "live", "syncing", "gone"}]
    BY <1>1 DEF TypeOK, HandleSync
  <1>3. seqs # {} => note \in [epoch : Nat, seq : Nat]
    <2> SUFFICES ASSUME seqs # {} PROVE note \in [epoch : Nat, seq : Nat]
      OBVIOUS
    <2>1. channels[ch] # None /\ Seqs(channels[ch].buffer) # {}
      BY DEF SyncReply
    <2>2. channels[ch].buffer \in Seq(BufferedMessage)
      BY <1>1, <2>1 DEF TypeOK
    <2> DEFINE b == channels[ch].buffer
    <2>3. Len(b) \in 1..Len(b)
      BY <2>1, <2>2, LenProperties DEF Seqs
    <2>4. b[Len(b)] \in BufferedMessage
      BY <2>2, <2>3, ElementOfSeq
    <2>5. Newest(b) \in Nat
      BY <2>4 DEF Newest
    <2>6. epoch[ch] \in Nat
      BY <1>1 DEF TypeOK
    <2> HIDE DEF b
    <2> QED
      BY <2>5, <2>6 DEF b
  <1>4. cursor' \in [Keys -> [Channels -> [epoch : Nat, seq : Nat]]]
    <2>1. \/ cursor' = cursor
          \/ seqs # {} /\ cursor' = [cursor EXCEPT ![k][ch] = note]
      BY DEF HandleSync
    <2> HIDE DEF note, k, ch, seqs
    <2>2. CASE cursor' = cursor
      BY <2>2 DEF TypeOK
    <2>3. CASE seqs # {} /\ cursor' = [cursor EXCEPT ![k][ch] = note]
      <3>1. [cursor[k] EXCEPT ![ch] = note] \in [Channels -> [epoch : Nat, seq : Nat]]
        BY <1>1, <1>3, <2>3 DEF TypeOK
      <3>2. cursor' = [cursor EXCEPT ![k] = [cursor[k] EXCEPT ![ch] = note]]
        BY <2>3, Zenon
      <3> QED
        BY <1>1, <3>1, <3>2 DEF TypeOK
    <2> QED
      BY <2>1, <2>2, <2>3
  <1>5. owed' \in [Keys -> [Channels -> SUBSET Nat]]
    <2>1. owed' = owed \/ owed' = [owed EXCEPT ![k][ch] = {}]
      BY DEF HandleSync
    <2> HIDE DEF k, ch
    <2>2. CASE owed' = owed
      BY <2>2 DEF TypeOK
    <2>3. CASE owed' = [owed EXCEPT ![k][ch] = {}]
      <3>1. [owed[k] EXCEPT ![ch] = {}] \in [Channels -> SUBSET Nat]
        BY <1>1 DEF TypeOK
      <3>2. owed' = [owed EXCEPT ![k] = [owed[k] EXCEPT ![ch] = {}]]
        BY <2>3, Zenon
      <3> QED
        BY <1>1, <3>1, <3>2 DEF TypeOK
    <2> QED
      BY <2>1, <2>2, <2>3
  <1>6. missed' \in SUBSET [key : Keys, channel : {"same", "evicted"}]
    <2>1. loss \in [key : Keys, channel : {"same", "evicted"}]
      BY <1>1
    <2>2. missed' = missed \/ missed' = missed \cup {loss}
      BY DEF HandleSync
    <2> HIDE DEF loss
    <2> QED
      BY <2>1, <2>2 DEF TypeOK
  <1>7. UNCHANGED <<channels, queue, log, epoch>>
    BY DEF HandleSync
  <1> QED
    BY <1>1, <1>2, <1>4, <1>5, <1>6, <1>7 DEF TypeOK

\* ... removing a peer,
LEMMA TypeHandleDisconnect == TypeOK /\ HandleDisconnect => TypeOK'
  <1> SUFFICES ASSUME TypeOK, HandleDisconnect PROVE TypeOK'
    OBVIOUS
  <1> DEFINE c == Head(cmd_rx).conn
             ch == ChannelOf[c]
             left == channels[ch].peers \ PeersWithKey(channels[ch].peers, KeyOf[c])
  <1>1. /\ cmd_rx' \in Seq(ChannelCmd) /\ Len(cmd_rx') <= CmdCap
        /\ open' \in SUBSET Conns
        /\ c \in Conns /\ ch \in Channels
    <2>1. Receive("Disconnect")
      BY DEF HandleDisconnect
    <2> QED
      BY <2>1, ReceiveStep
  <1>2. UNCHANGED task
    BY DEF HandleDisconnect
  <1>3. CASE channels[ch] = None
    <2>1. UNCHANGED <<channels, queue, history>>
      BY <1>3 DEF HandleDisconnect
    <2> QED
      BY <1>1, <1>2, <2>1 DEF TypeOK, history
  <1>4. CASE channels[ch] # None
    <2>1. queue' \in [Conns -> 0..PeerCap]
      BY <1>4, NotifyType DEF TypeOK, HandleDisconnect
    <2>2. left \in SUBSET Conns
      BY <1>1, <1>4 DEF TypeOK
    <2>3. \/ channels' = [channels EXCEPT ![ch] = None] /\ Removed({ch})
          \/ channels' = [channels EXCEPT ![ch].peers = left] /\ UNCHANGED history
      BY <1>4 DEF HandleDisconnect
    <2>4. channels' \in [Channels -> Channel \cup {None}]
      <3>1. PICK r \in Channel : r = channels[ch]
        BY <1>1, <1>4 DEF TypeOK
      <3>2. [r EXCEPT !.peers = left] \in Channel
        BY <2>2, ChannelUpdates
      <3>3. \/ channels' = [channels EXCEPT ![ch] = None]
            \/ channels' = [channels EXCEPT ![ch] = [r EXCEPT !.peers = left]]
        BY <2>3, <3>1, Zenon
      <3> HIDE DEF Channel, left
      <3> QED
        BY <3>2, <3>3 DEF TypeOK
    <2>5. /\ log' \in [Channels -> Seq(Keys)]
          /\ epoch' \in [Channels -> Nat]
          /\ cursor' \in [Keys -> [Channels -> [epoch : Nat, seq : Nat]]]
          /\ owed' \in [Keys -> [Channels -> SUBSET Nat]]
          /\ missed' \in SUBSET [key : Keys, channel : {"same", "evicted"}]
      <3>1. CASE Removed({ch})
        BY <3>1, RemovedTypes
      <3>2. CASE UNCHANGED history
        BY <3>2 DEF history, TypeOK
      <3> QED
        BY <2>3, <3>1, <3>2
    <2> QED
      BY <1>1, <1>2, <2>1, <2>4, <2>5 DEF TypeOK
  <1> QED
    BY <1>3, <1>4

\* ... evicting idle channels,
LEMMA TypeEvictStale == TypeOK /\ EvictStale => TypeOK'
  <1> SUFFICES ASSUME TypeOK, EvictStale PROVE TypeOK'
    OBVIOUS
  <1>1. PICK old : /\ channels' = [ch \in Channels |->
                                      IF ch \in old THEN None ELSE channels[ch]]
                   /\ Removed(old)
    BY DEF EvictStale
  <1>2. channels' \in [Channels -> Channel \cup {None}]
    BY <1>1 DEF TypeOK
  <1> QED
    BY <1>1, <1>2, RemovedTypes DEF EvictStale, TypeOK

\* ... and the passing of time.
LEMMA TypeAge == ASSUME NEW ch \in Channels, TypeOK, Age(ch) PROVE TypeOK'
  <1>1. PICK r \in Channel : r = channels[ch]
    BY DEF TypeOK, Age
  <1>2. [r EXCEPT !.idle = "expired"] \in Channel
    BY ChannelUpdates
  <1>3. channels' = [channels EXCEPT ![ch] = [r EXCEPT !.idle = "expired"]]
    BY <1>1, Zenon DEF Age
  <1>4. channels' \in [Channels -> Channel \cup {None}]
    <2> HIDE DEF Channel
    <2> QED
      BY <1>2, <1>3 DEF TypeOK
  <1> QED
    BY <1>4 DEF Age, TypeOK, history

\* The connection tasks and the clients keep the types.
LEMMA TypeTasks ==
    ASSUME NEW c \in Conns, TypeOK, Tasks(c) \/ ClientClose(c) PROVE TypeOK'
  <1>1. CASE TaskAuth(c)
    BY <1>1, EnqueueTypes, CmdsAreTyped DEF TaskAuth, TypeOK, history
  <1>2. CASE TaskForward(c)
    BY <1>2, EnqueueTypes, CmdsAreTyped DEF TaskForward, TypeOK, history
  <1>3. ASSUME NEW ch \in Channels, TaskSync(c, ch) PROVE TypeOK'
    <2>1. cursor[KeyOf[c]][ch].seq \in Nat
      BY ConnTypes DEF TypeOK
    <2> QED
      BY <1>3, <2>1, EnqueueTypes, CmdsAreTyped DEF TaskSync, TypeOK, history
  <1>4. CASE TaskDeliver(c)
    <2>1. queue[c] - 1 \in 0..PeerCap
      BY <1>4, CapTypes DEF TaskDeliver, TypeOK
    <2>2. queue' \in [Conns -> 0..PeerCap]
      BY <1>4, <2>1 DEF TaskDeliver, TypeOK
    <2> QED
      BY <1>4, <2>2 DEF TaskDeliver, TypeOK, history
  <1>5. CASE TaskDisconnect(c)
    BY <1>5, EnqueueTypes, CmdsAreTyped DEF TaskDisconnect, TypeOK, history
  <1>6. CASE ClientClose(c)
    BY <1>6 DEF ClientClose, TypeOK, history
  <1> QED
    BY <1>1, <1>2, <1>3, <1>4, <1>5, <1>6 DEF Tasks

\* Every variable of the relay keeps its type; in particular no peer channel
\* and no command queue holds more than its capacity.
THEOREM TypeCorrect == Spec => []TypeOK
  <1>1. TypeOK /\ [Next]_vars => TypeOK'
    <2> SUFFICES ASSUME TypeOK, [Next]_vars PROVE TypeOK'
      OBVIOUS
    <2>1. CASE Manager
      BY <2>1, TypeHandleAuth, TypeHandleForward, TypeHandleSync, TypeHandleDisconnect
         DEF Manager
    <2>2. CASE EvictStale
      BY <2>2, TypeEvictStale
    <2>3. CASE \E ch \in Channels : Age(ch)
      BY <2>3, TypeAge
    <2>4. CASE \E c \in Conns : Tasks(c) \/ ClientClose(c)
      BY <2>4, TypeTasks
    <2>5. CASE UNCHANGED vars
      BY <2>5 DEF vars, TypeOK
    <2> QED
      BY <2>1, <2>2, <2>3, <2>4, <2>5 DEF Next
  <1> QED
    BY <1>1, TypeInit, PTL DEF Spec

-----------------------------------------------------------------------------
(* What the manager's steps do to the channels, in terms of their members, *)
(* buffer and next number, whether the channel exists or not.              *)

\* What the manager finds in the channel it touches.
LEMMA TouchedParts ==
    ASSUME TypeOK, NEW ch \in Channels
    PROVE  /\ Touched(ch).peers = PeersOf(ch)
           /\ Touched(ch).buffer = BufferOf(ch)
           /\ Touched(ch).next_seq = NextSeqOf(ch)
           /\ PeersOf(ch) \subseteq Conns
  <1>1. CASE channels[ch] = None
    BY <1>1 DEF Touched, NewChannel, PeersOf, BufferOf, NextSeqOf
  <1>2. CASE channels[ch] # None
    <2>1. PICK r \in Channel : r = channels[ch]
      BY <1>2 DEF TypeOK
    <2>2. Touched(ch) = [r EXCEPT !.idle = "recently"]
      BY <1>2, <2>1, Zenon DEF Touched
    <2>3. /\ Touched(ch).peers = r.peers /\ Touched(ch).buffer = r.buffer
          /\ Touched(ch).next_seq = r.next_seq
      BY <2>2
    <2> QED
      BY <1>2, <2>1, <2>3 DEF PeersOf, BufferOf, NextSeqOf
  <1> QED
    BY <1>1, <1>2

\* A channel record that replaces another one shows its own parts.
LEMMA ReplacedParts ==
    ASSUME TypeOK, NEW home \in Channels, NEW r \in Channel,
           channels' = [channels EXCEPT ![home] = r]
    PROVE  /\ PeersOf(home)' = r.peers
           /\ BufferOf(home)' = r.buffer
           /\ NextSeqOf(home)' = r.next_seq
           /\ \A ch \in Channels : ch # home =>
                  /\ PeersOf(ch)' = PeersOf(ch)
                  /\ BufferOf(ch)' = BufferOf(ch)
                  /\ NextSeqOf(ch)' = NextSeqOf(ch)
  <1>1. r # None
    BY NoneIsNoChannel
  <1>2. channels'[home] = r /\ \A ch \in Channels : ch # home => channels'[ch] = channels[ch]
    BY DEF TypeOK
  <1> QED
    BY <1>1, <1>2 DEF PeersOf, BufferOf, NextSeqOf

\* Auth: a peer more, or nothing but the activity.
LEMMA EffectHandleAuth ==
    ASSUME TypeOK, HandleAuth,
           NEW c, c = Head(cmd_rx).conn, NEW home, home = ChannelOf[c]
    PROVE  LET refused == \E d \in PeersOf(home) : KeyOf[d] = KeyOf[c]
           IN  /\ c \in Conns /\ home \in Channels
               /\ PeersOf(home)' = IF refused THEN PeersOf(home) ELSE PeersOf(home) \cup {c}
               /\ task'[c] = IF refused THEN "gone" ELSE "live"
               /\ \A d \in Conns : d # c => task'[d] = task[d]
               /\ \A ch \in Channels : ch # home => PeersOf(ch)' = PeersOf(ch)
               /\ \A ch \in Channels : BufferOf(ch)' = BufferOf(ch)
               /\ \A ch \in Channels : NextSeqOf(ch)' = NextSeqOf(ch)
  <1> DEFINE t == Touched(home)
             refused == \E d \in PeersOf(home) : KeyOf[d] = KeyOf[c]
  <1>1. c \in Conns /\ home \in Channels
    BY ReceiveStep DEF HandleAuth
  <1>2. /\ t \in Channel /\ t.peers = PeersOf(home)
        /\ t.buffer = BufferOf(home) /\ t.next_seq = NextSeqOf(home)
    BY <1>1, TouchedType, TouchedParts DEF TypeOK
  <1>3. refused <=> PeersWithKey(t.peers, KeyOf[c]) # {}
    BY <1>2 DEF PeersWithKey
  <1>4. \A d \in Conns : d # c => task'[d] = task[d]
    BY DEF HandleAuth, TypeOK
  <1>5. CASE refused
    <2>1. channels' = [channels EXCEPT ![home] = t] /\ task'[c] = "gone"
      BY <1>1, <1>3, <1>5 DEF HandleAuth, TypeOK
    <2> HIDE DEF t
    <2> QED
      BY <1>1, <1>2, <1>4, <1>5, <2>1, ReplacedParts
  <1>6. CASE ~refused
    <2>1. PICK r \in Channel : r = [t EXCEPT !.peers = @ \cup {c}]
      BY <1>1, <1>2
    <2>2. channels' = [channels EXCEPT ![home] = r] /\ task'[c] = "live"
      <3>1. /\ channels' = [channels EXCEPT ![home] = [t EXCEPT !.peers = @ \cup {c}]]
            /\ task' = [task EXCEPT ![c] = "live"]
        BY <1>3, <1>6 DEF HandleAuth
      <3> QED
        BY <1>1, <2>1, <3>1 DEF TypeOK
    <2>3. r.peers = PeersOf(home) \cup {c} /\ r.buffer = t.buffer /\ r.next_seq = t.next_seq
      BY <1>2, <2>1
    <2> HIDE DEF t
    <2> QED
      BY <1>1, <1>2, <1>4, <1>6, <2>2, <2>3, ReplacedParts, ZenonT(60)
  <1> QED
    BY <1>5, <1>6

\* Forward: nothing where there is no channel, a message more where there is.
LEMMA EffectHandleForward ==
    ASSUME TypeOK, HandleForward,
           NEW c, c = Head(cmd_rx).conn, NEW home, home = ChannelOf[c]
    PROVE  LET m == [seq |-> NextSeqOf(home), from |-> KeyOf[c]]
           IN  /\ c \in Conns /\ home \in Channels /\ KeyOf[c] \in Keys
               /\ \A ch \in Channels : PeersOf(ch)' = PeersOf(ch)
               /\ \A ch \in Channels : ch # home => /\ BufferOf(ch)' = BufferOf(ch)
                                                   /\ NextSeqOf(ch)' = NextSeqOf(ch)
                                                   /\ log'[ch] = log[ch]
               /\ \/ /\ PeersOf(home) = {}
                     /\ UNCHANGED <<channels, log>>
                  \/ /\ BufferOf(home)' = Pushed(BufferOf(home), m)
                     /\ NextSeqOf(home)' = NextSeqOf(home) + 1
                     /\ log' = [log EXCEPT ![home] = Append(@, KeyOf[c])]
  <1> DEFINE t == Touched(home)
             m == [seq |-> NextSeqOf(home), from |-> KeyOf[c]]
             b == Pushed(BufferOf(home), m)
  <1>1. c \in Conns /\ home \in Channels /\ KeyOf[c] \in Keys
    BY ReceiveStep DEF HandleForward
  <1>2. /\ t \in Channel /\ t.peers = PeersOf(home)
        /\ t.buffer = BufferOf(home) /\ t.next_seq = NextSeqOf(home)
    BY <1>1, TouchedType, TouchedParts DEF TypeOK
  <1>3. CASE channels[home] = None
    <2>1. UNCHANGED <<channels, log>>
      BY <1>3 DEF HandleForward
    <2> QED
      BY <1>1, <1>3, <2>1 DEF PeersOf, BufferOf, NextSeqOf
  <1>4. CASE channels[home] # None
    <2>1. /\ channels' = [channels EXCEPT ![home] = [t EXCEPT
                 !.buffer = Pushed(t.buffer, [seq |-> t.next_seq, from |-> KeyOf[c]]),
                 !.next_seq = @ + 1]]
          /\ log' = [log EXCEPT ![home] = Append(@, KeyOf[c])]
      BY <1>4 DEF HandleForward
    <2>2. b \in Seq(BufferedMessage) /\ t.next_seq + 1 \in Nat
      <3>1. t.buffer \in Seq(BufferedMessage) /\ t.next_seq \in Nat
        BY <1>2
      <3>2. m \in BufferedMessage
        BY <1>1, <1>2, <3>1
      <3>3. BufferOf(home) \in Seq(BufferedMessage)
        BY <1>2, <3>1
      <3> HIDE DEF m, t
      <3>4. Pushed(BufferOf(home), m) \in Seq(BufferedMessage)
        BY <3>2, <3>3, PushedType
      <3>5. t.next_seq + 1 \in Nat
        BY <3>1
      <3> QED
        BY <3>4, <3>5
    <2>3. channels' = [channels EXCEPT ![home] =
                          [t EXCEPT !.buffer = b, !.next_seq = t.next_seq + 1]]
      BY <1>2, <2>1, Zenon
    <2> HIDE DEF t, b
    <2>4. PICK r \in Channel : r = [t EXCEPT !.buffer = b, !.next_seq = t.next_seq + 1]
      BY <1>2, <2>2, ChannelUpdates
    <2>5. r.peers = t.peers /\ r.buffer = b /\ r.next_seq = t.next_seq + 1
      BY <1>2, <2>4
    <2>6. channels' = [channels EXCEPT ![home] = r]
      BY <2>3, <2>4
    <2>7. \A ch \in Channels : ch # home => log'[ch] = log[ch]
      BY <2>1 DEF TypeOK
    <2>8. /\ PeersOf(home)' = r.peers
          /\ BufferOf(home)' = r.buffer
          /\ NextSeqOf(home)' = r.next_seq
          /\ \A ch \in Channels : ch # home =>
                 /\ PeersOf(ch)' = PeersOf(ch)
                 /\ BufferOf(ch)' = BufferOf(ch)
                 /\ NextSeqOf(ch)' = NextSeqOf(ch)
      BY <1>1, <2>6, ReplacedParts
    <2>9. \A ch \in Channels : PeersOf(ch)' = PeersOf(ch)
      BY <1>2, <2>5, <2>8
    <2>10. BufferOf(home)' = b /\ NextSeqOf(home)' = NextSeqOf(home) + 1
      BY <1>2, <2>5, <2>8
    <2> QED
      BY <1>1, <2>1, <2>7, <2>8, <2>9, <2>10, Zenon DEF b
  <1> QED
    BY <1>3, <1>4

\* Disconnect: the peers with the key less; a channel left without peers and
\* without messages shows the same afterwards.
LEMMA EffectHandleDisconnect ==
    ASSUME TypeOK, HandleDisconnect,
           NEW c, c = Head(cmd_rx).conn, NEW home, home = ChannelOf[c]
    PROVE      /\ c \in Conns /\ home \in Channels
               /\ PeersOf(home)' = {d \in PeersOf(home) : KeyOf[d] # KeyOf[c]}
               /\ BufferOf(home)' = BufferOf(home)
               /\ \/ /\ NextSeqOf(home)' = NextSeqOf(home)
                     /\ UNCHANGED log
                  \/ /\ BufferOf(home) = <<>>
                     /\ NextSeqOf(home)' = 1
                     /\ log' = [log EXCEPT ![home] = <<>>]
               /\ \A ch \in Channels : ch # home => /\ PeersOf(ch)' = PeersOf(ch)
                                                   /\ BufferOf(ch)' = BufferOf(ch)
                                                   /\ NextSeqOf(ch)' = NextSeqOf(ch)
                                                   /\ log'[ch] = log[ch]
  <1> DEFINE left == channels[home].peers \ PeersWithKey(channels[home].peers, KeyOf[c])
  <1>1. c \in Conns /\ home \in Channels
    BY ReceiveStep DEF HandleDisconnect
  <1>2. CASE channels[home] = None
    <2>1. UNCHANGED <<channels, log>>
      BY <1>2 DEF HandleDisconnect, history
    <2> QED
      BY <1>1, <1>2, <2>1 DEF PeersOf, BufferOf, NextSeqOf
  <1>3. CASE channels[home] # None
    <2>1. PICK r \in Channel : r = channels[home]
      BY <1>1, <1>3 DEF TypeOK
    <2>2. r # None /\ r.peers = PeersOf(home) /\ r.buffer = BufferOf(home)
          /\ r.next_seq = NextSeqOf(home)
      BY <1>3, <2>1 DEF PeersOf, BufferOf, NextSeqOf
    <2>3. left = {d \in PeersOf(home) : KeyOf[d] # KeyOf[c]} /\ left \in SUBSET Conns
      BY <2>1, <2>2 DEF PeersWithKey
    <2>4. \/ /\ left = {} /\ r.buffer = <<>>
             /\ channels' = [channels EXCEPT ![home] = None]
             /\ log' = [ch \in Channels |-> IF ch \in {home} THEN <<>> ELSE log[ch]]
          \/ channels' = [channels EXCEPT ![home].peers = left] /\ UNCHANGED log
      BY <1>3, <2>1 DEF HandleDisconnect, Removed, history
    <2>5. CASE /\ left = {} /\ r.buffer = <<>>
               /\ channels' = [channels EXCEPT ![home] = None]
               /\ log' = [ch \in Channels |-> IF ch \in {home} THEN <<>> ELSE log[ch]]
      <3>1. channels'[home] = None /\ \A ch \in Channels : ch # home => channels'[ch] = channels[ch]
        BY <1>1, <2>5 DEF TypeOK
      <3>2. log' = [log EXCEPT ![home] = <<>>] /\ \A ch \in Channels : ch # home => log'[ch] = log[ch]
        BY <1>1, <2>5 DEF TypeOK
      <3>3. PeersOf(home)' = {} /\ BufferOf(home)' = <<>> /\ NextSeqOf(home)' = 1
        BY <3>1 DEF PeersOf, BufferOf, NextSeqOf
      <3>4. \A ch \in Channels : ch # home => /\ PeersOf(ch)' = PeersOf(ch)
                                             /\ BufferOf(ch)' = BufferOf(ch)
                                             /\ NextSeqOf(ch)' = NextSeqOf(ch)
        BY <3>1 DEF PeersOf, BufferOf, NextSeqOf
      <3> HIDE DEF left
      <3> QED
        BY <1>1, <2>2, <2>3, <2>5, <3>2, <3>3, <3>4
    <2>6. CASE channels' = [channels EXCEPT ![home].peers = left] /\ UNCHANGED log
      <3> HIDE DEF left
      <3>1. PICK q \in Channel : q = [r EXCEPT !.peers = left]
        BY <2>3, ChannelUpdates
      <3>2. channels' = [channels EXCEPT ![home] = q]
        BY <2>1, <2>6, <3>1, Zenon
      <3>3. q.peers = left /\ q.buffer = r.buffer /\ q.next_seq = r.next_seq
        BY <2>1, <3>1
      <3>4. /\ PeersOf(home)' = q.peers
            /\ BufferOf(home)' = q.buffer
            /\ NextSeqOf(home)' = q.next_seq
            /\ \A ch \in Channels : ch # home =>
                   /\ PeersOf(ch)' = PeersOf(ch)
                   /\ BufferOf(ch)' = BufferOf(ch)
                   /\ NextSeqOf(ch)' = NextSeqOf(ch)
        BY <1>1, <3>2, ReplacedParts
      <3> QED
        BY <1>1, <2>2, <2>3, <2>6, <3>3, <3>4
    <2> QED
      BY <2>4, <2>5, <2>6
  <1> QED
    BY <1>2, <1>3

\* Time passing shows in nothing but the channel's age.
LEMMA EffectAge ==
    ASSUME TypeOK, NEW home \in Channels, Age(home)
    PROVE  \A ch \in Channels : /\ PeersOf(ch)' = PeersOf(ch)
                                /\ BufferOf(ch)' = BufferOf(ch)
                                /\ NextSeqOf(ch)' = NextSeqOf(ch)
  <1>1. PICK r \in Channel : r = channels[home]
    BY DEF TypeOK, Age
  <1>2. PICK q \in Channel : q = [r EXCEPT !.idle = "expired"]
    BY <1>1, ChannelUpdates
  <1>3. channels' = [channels EXCEPT ![home] = q]
    BY <1>1, <1>2, Zenon DEF Age
  <1>4. q.peers = r.peers /\ q.buffer = r.buffer /\ q.next_seq = r.next_seq
    BY <1>1, <1>2
  <1>5. r.peers = PeersOf(home) /\ r.buffer = BufferOf(home) /\ r.next_seq = NextSeqOf(home)
    BY <1>1, NoneIsNoChannel DEF PeersOf, BufferOf, NextSeqOf
  <1> QED
    BY <1>3, <1>4, <1>5, ReplacedParts

\* The tick: channels that nobody is in may become new ones, with their history.
LEMMA EffectEvictStale ==
    ASSUME TypeOK, EvictStale, NEW ch \in Channels
    PROVE  /\ PeersOf(ch)' = PeersOf(ch)
           /\ \/ BufferOf(ch)' = BufferOf(ch) /\ NextSeqOf(ch)' = NextSeqOf(ch)
                 /\ log'[ch] = log[ch]
              \/ /\ PeersOf(ch) = {}
                 /\ BufferOf(ch)' = <<>> /\ NextSeqOf(ch)' = 1 /\ log'[ch] = <<>>
  BY DEF EvictStale, Removed, PeersOf, BufferOf, NextSeqOf

-----------------------------------------------------------------------------
(* Membership. LiveIsPeer and OneConnectionPerKey are not inductive: they  *)
(* need to know which commands can be waiting for the manager. A task that *)
(* has sent Auth, Sync or Disconnect sends nothing more until it has its   *)
(* answer, and every other command comes from a peer that has not left.    *)

SenderOf(m) ==
    /\ m.type = "Auth" => task[m.conn] = "authing"
    /\ m.type = "Sync" => task[m.conn] = "syncing"
    /\ m.type = "Disconnect" => task[m.conn] = "gone"
    /\ m.type # "Auth" => m.conn \in PeersOf(ChannelOf[m.conn])

CommandsAgree ==
    /\ \A i \in 1..Len(cmd_rx) : SenderOf(cmd_rx[i])
    /\ \A i, j \in 1..Len(cmd_rx) :
          i < j /\ cmd_rx[i].type # "Forward" => cmd_rx[i].conn # cmd_rx[j].conn

Membership == LiveIsPeer /\ OneConnectionPerKey /\ CommandsAgree

\* The rest of the queue after its head was taken.
LEMMA Popped ==
    ASSUME TypeOK, CommandsAgree, NEW type, Receive(type)
    PROVE  /\ 1 \in 1..Len(cmd_rx) /\ cmd_rx[1] = Head(cmd_rx)
           /\ Len(cmd_rx') = Len(cmd_rx) - 1
           /\ \A i \in 1..Len(cmd_rx') :
                  /\ i + 1 \in 1..Len(cmd_rx)
                  /\ cmd_rx'[i] = cmd_rx[i + 1]
                  /\ cmd_rx'[i].conn \in Conns
                  /\ type # "Forward" => cmd_rx'[i].conn # Head(cmd_rx).conn
           /\ \A i, j \in 1..Len(cmd_rx') :
                  i < j /\ cmd_rx'[i].type # "Forward" => cmd_rx'[i].conn # cmd_rx'[j].conn
  <1>1. /\ Head(cmd_rx) = cmd_rx[1]
        /\ Len(cmd_rx') = Len(cmd_rx) - 1
        /\ \A i \in 1..Len(cmd_rx') : cmd_rx'[i] = cmd_rx[i + 1]
    BY ReceiveTypes DEF TypeOK, Receive
  <1>2. Len(cmd_rx) \in Nat /\ Len(cmd_rx) # 0
    BY LenProperties, EmptySeq DEF TypeOK, Receive
  <1>3. 1 \in 1..Len(cmd_rx) /\ \A i \in 1..Len(cmd_rx') : i + 1 \in 1..Len(cmd_rx)
    BY <1>1, <1>2
  <1>4. \A i \in 1..Len(cmd_rx) : cmd_rx[i].conn \in Conns
    BY ElementOfSeq, CmdTypes DEF TypeOK
  <1>5. Head(cmd_rx).type = type
    BY DEF Receive
  <1>6. \A i \in 1..Len(cmd_rx') :
            type # "Forward" => cmd_rx'[i].conn # Head(cmd_rx).conn
    BY <1>1, <1>2, <1>3, <1>5 DEF CommandsAgree
  <1>7. \A i, j \in 1..Len(cmd_rx') :
            i < j /\ cmd_rx'[i].type # "Forward" => cmd_rx'[i].conn # cmd_rx'[j].conn
    BY <1>1, <1>2, <1>3 DEF CommandsAgree
  <1> QED
    BY <1>1, <1>3, <1>4, <1>6, <1>7

\* The queue after a command was put at its end.
LEMMA Queued ==
    ASSUME TypeOK, NEW m \in ChannelCmd, Enqueue(m)
    PROVE  /\ Len(cmd_rx) \in Nat
           /\ Len(cmd_rx') = Len(cmd_rx) + 1
           /\ \A i \in 1..Len(cmd_rx) : cmd_rx'[i] = cmd_rx[i] /\ cmd_rx[i].conn \in Conns
           /\ cmd_rx'[Len(cmd_rx) + 1] = m
  <1>1. \A i \in 1..Len(cmd_rx) : cmd_rx[i].conn \in Conns
    BY ElementOfSeq, CmdTypes DEF TypeOK
  <1> QED
    BY <1>1, AppendProperties, LenProperties DEF TypeOK, Enqueue

\* A command that a connection sends keeps the queue in agreement, when no
\* earlier one of the same connection is waiting but Forwards.
LEMMA SendAgrees ==
    ASSUME TypeOK, CommandsAgree, NEW c \in Conns, NEW m \in ChannelCmd,
           m.conn = c, task[c] \in {"new", "live"}, Enqueue(m), UNCHANGED channels,
           \A d \in Conns : d # c => task'[d] = task[d],
           m.type = "Forward" => task'[c] = task[c],
           SenderOf(m)'
    PROVE  CommandsAgree'
  <1>1. ASSUME NEW i \in 1..Len(cmd_rx), cmd_rx[i].type # "Forward"
        PROVE  cmd_rx[i].conn # c
    <2>1. cmd_rx[i].type \in {"Auth", "Forward", "Disconnect", "Sync"}
      BY <1>1, CmdTypes, ElementOfSeq DEF TypeOK
    <2>2. SenderOf(cmd_rx[i])
      BY <1>1 DEF CommandsAgree
    <2> QED
      BY <1>1, <2>1, <2>2 DEF SenderOf
  <1>2. ASSUME NEW i \in 1..Len(cmd_rx') PROVE SenderOf(cmd_rx[i])'
    <2>1. CASE i \in 1..Len(cmd_rx)
      <3>1. cmd_rx'[i] = cmd_rx[i] /\ cmd_rx[i].conn \in Conns
        BY <2>1, Queued
      <3>2. SenderOf(cmd_rx[i])
        BY <2>1 DEF CommandsAgree
      <3>3. PICK n \in ChannelCmd : n = cmd_rx[i]
        BY <2>1, ElementOfSeq DEF TypeOK
      <3>4. SenderOf(n)'
        BY <1>1, <2>1, <3>1, <3>2, <3>3 DEF SenderOf, PeersOf
      <3> QED
        BY <3>1, <3>3, <3>4 DEF SenderOf, PeersOf
    <2>2. CASE i = Len(cmd_rx) + 1
      BY <2>2, Queued DEF SenderOf, PeersOf
    <2> QED
      BY <1>2, <2>1, <2>2, Queued
  <1>3. ASSUME NEW i \in 1..Len(cmd_rx'), NEW j \in 1..Len(cmd_rx'),
               i < j, cmd_rx'[i].type # "Forward"
        PROVE  cmd_rx'[i].conn # cmd_rx'[j].conn
    <2>1. i \in 1..Len(cmd_rx) /\ cmd_rx'[i] = cmd_rx[i]
      BY <1>3, Queued
    <2>2. CASE j \in 1..Len(cmd_rx)
      BY <1>3, <2>1, <2>2, Queued DEF CommandsAgree
    <2>3. CASE j = Len(cmd_rx) + 1
      BY <1>1, <1>3, <2>1, <2>3, Queued
    <2> QED
      BY <1>3, <2>2, <2>3, Queued
  <1> QED
    BY <1>2, <1>3 DEF CommandsAgree

\* The queue stays in agreement when the manager takes a command out of it, and
\* changes at most the membership and the task of the connection that sent it.
LEMMA TakenAgrees ==
    ASSUME TypeOK, Membership, NEW type, Receive(type), type # "Forward",
           \A d \in Conns : task'[d] = task[d] \/ d = Head(cmd_rx).conn,
           \A ch \in Channels, d \in Conns :
               d \in PeersOf(ch) => d \in PeersOf(ch)' \/ d = Head(cmd_rx).conn
    PROVE  CommandsAgree'
  <1>1. ASSUME NEW i \in 1..Len(cmd_rx') PROVE SenderOf(cmd_rx[i])'
    <2>1. /\ i + 1 \in 1..Len(cmd_rx) /\ cmd_rx'[i] = cmd_rx[i + 1]
          /\ cmd_rx'[i].conn \in Conns
          /\ cmd_rx'[i].conn # Head(cmd_rx).conn
      BY Popped DEF Membership
    <2>2. PICK n : n = cmd_rx[i + 1]
      OBVIOUS
    <2>3. SenderOf(n) /\ n.conn \in Conns /\ ChannelOf[n.conn] \in Channels
      BY <2>1, <2>2, ConnTypes DEF Membership, CommandsAgree
    <2>4. SenderOf(n)'
      BY <2>1, <2>2, <2>3 DEF SenderOf
    <2> QED
      BY <2>1, <2>2, <2>4 DEF SenderOf, PeersOf
  <1>2. \A i, j \in 1..Len(cmd_rx') :
            i < j /\ cmd_rx'[i].type # "Forward" => cmd_rx'[i].conn # cmd_rx'[j].conn
    BY Popped DEF Membership
  <1> QED
    BY <1>1, <1>2 DEF CommandsAgree

\* ... and when it takes a Forward, and changes no membership and no task.
LEMMA ForwardAgrees ==
    ASSUME TypeOK, Membership, Receive("Forward"), UNCHANGED task,
           \A ch \in Channels : PeersOf(ch)' = PeersOf(ch)
    PROVE  CommandsAgree'
  <1>1. ASSUME NEW i \in 1..Len(cmd_rx') PROVE SenderOf(cmd_rx[i])'
    <2>1. /\ i + 1 \in 1..Len(cmd_rx) /\ cmd_rx'[i] = cmd_rx[i + 1]
          /\ cmd_rx'[i].conn \in Conns
      BY Popped DEF Membership
    <2>2. PICK n : n = cmd_rx[i + 1]
      OBVIOUS
    <2>3. SenderOf(n) /\ n.conn \in Conns /\ ChannelOf[n.conn] \in Channels
      BY <2>1, <2>2, ConnTypes DEF Membership, CommandsAgree
    <2>4. SenderOf(n)'
      BY <2>1, <2>2, <2>3 DEF SenderOf
    <2> QED
      BY <2>1, <2>2, <2>4 DEF SenderOf, PeersOf
  <1>2. \A i, j \in 1..Len(cmd_rx') :
            i < j /\ cmd_rx'[i].type # "Forward" => cmd_rx'[i].conn # cmd_rx'[j].conn
    BY Popped DEF Membership
  <1> QED
    BY <1>1, <1>2 DEF CommandsAgree

\* Auth admits a connection only when no other has its key.
LEMMA MembershipHandleAuth == TypeOK /\ Membership /\ HandleAuth => Membership'
  <1> SUFFICES ASSUME TypeOK, Membership, HandleAuth PROVE Membership'
    OBVIOUS
  <1>1. PICK c : c = Head(cmd_rx).conn
    OBVIOUS
  <1>2. PICK home : home = ChannelOf[c]
    OBVIOUS
  <1> DEFINE refused == \E d \in PeersOf(home) : KeyOf[d] = KeyOf[c]
  <1>3. /\ c \in Conns /\ home \in Channels
        /\ PeersOf(home)' = IF refused THEN PeersOf(home) ELSE PeersOf(home) \cup {c}
        /\ task'[c] = IF refused THEN "gone" ELSE "live"
        /\ \A d \in Conns : d # c => task'[d] = task[d]
        /\ \A ch \in Channels : ch # home => PeersOf(ch)' = PeersOf(ch)
    BY <1>1, <1>2, EffectHandleAuth
  <1>4. LiveIsPeer'
    BY <1>2, <1>3, ConnTypes DEF LiveIsPeer, Membership
  <1>5. OneConnectionPerKey'
    BY <1>3 DEF OneConnectionPerKey, Membership
  <1>6. CommandsAgree'
    <2>1. Receive("Auth")
      BY DEF HandleAuth
    <2>2. \A ch \in Channels, d \in Conns : d \in PeersOf(ch) => d \in PeersOf(ch)'
      BY <1>3
    <2> QED
      BY <1>1, <1>3, <2>1, <2>2, TakenAgrees
  <1> QED
    BY <1>4, <1>5, <1>6 DEF Membership

\* A step that leaves tasks, queue and members alone keeps membership.
LEMMA MembershipSame ==
    ASSUME Membership, UNCHANGED <<cmd_rx, task>>,
           \A ch \in Channels : PeersOf(ch)' = PeersOf(ch),
           \A i \in 1..Len(cmd_rx) : ChannelOf[cmd_rx[i].conn] \in Channels
    PROVE  Membership'
  <1>1. LiveIsPeer' /\ OneConnectionPerKey'
    BY ConnTypes DEF Membership, LiveIsPeer, OneConnectionPerKey
  <1>2. ASSUME NEW i \in 1..Len(cmd_rx') PROVE SenderOf(cmd_rx[i])'
    <2>1. PICK n : n = cmd_rx[i]
      OBVIOUS
    <2>2. SenderOf(n) /\ ChannelOf[n.conn] \in Channels
      BY <2>1 DEF Membership, CommandsAgree
    <2>3. SenderOf(n)'
      BY <2>2 DEF SenderOf
    <2> QED
      BY <2>1, <2>3 DEF SenderOf, PeersOf
  <1> QED
    BY <1>1, <1>2 DEF Membership, CommandsAgree

\* The connections that wait in the queue have a channel.
LEMMA QueueHasChannels ==
    TypeOK => \A i \in 1..Len(cmd_rx) : ChannelOf[cmd_rx[i].conn] \in Channels
  BY ElementOfSeq, CmdTypes, ConnTypes DEF TypeOK

\* Forwarding moves no peer.
LEMMA MembershipHandleForward == TypeOK /\ Membership /\ HandleForward => Membership'
  <1> SUFFICES ASSUME TypeOK, Membership, HandleForward PROVE Membership'
    OBVIOUS
  <1>1. Receive("Forward") /\ UNCHANGED task
    BY DEF HandleForward
  <1>2. \A ch \in Channels : PeersOf(ch)' = PeersOf(ch)
    BY EffectHandleForward
  <1>3. LiveIsPeer' /\ OneConnectionPerKey'
    BY <1>1, <1>2, ConnTypes DEF Membership, LiveIsPeer, OneConnectionPerKey
  <1>4. CommandsAgree'
    BY <1>1, <1>2, ForwardAgrees
  <1> QED
    BY <1>3, <1>4 DEF Membership

\* Nor does a sync reply.
LEMMA MembershipHandleSync == TypeOK /\ Membership /\ HandleSync => Membership'
  <1> SUFFICES ASSUME TypeOK, Membership, HandleSync PROVE Membership'
    OBVIOUS
  <1> DEFINE c == Head(cmd_rx).conn
  <1>1. Receive("Sync") /\ c \in Conns /\ UNCHANGED channels
    BY ReceiveStep DEF HandleSync
  <1>2. \A d \in Conns : task'[d] = IF d = c THEN "live" ELSE task[d]
    BY <1>1 DEF HandleSync, TypeOK
  <1>3. \A ch \in Channels : PeersOf(ch)' = PeersOf(ch)
    BY <1>1 DEF PeersOf
  <1>4. task[c] = "syncing"
    <2>1. cmd_rx[1] = Head(cmd_rx) /\ 1 \in 1..Len(cmd_rx)
      BY <1>1, Popped DEF Membership
    <2>2. SenderOf(Head(cmd_rx)) /\ Head(cmd_rx).type = "Sync"
      BY <1>1, <2>1 DEF Membership, CommandsAgree, Receive
    <2> QED
      BY <2>2 DEF SenderOf
  <1>5. LiveIsPeer' /\ OneConnectionPerKey'
    BY <1>1, <1>2, <1>3, <1>4, ConnTypes DEF Membership, LiveIsPeer, OneConnectionPerKey
  <1>6. CommandsAgree'
    BY <1>1, <1>2, <1>3, TakenAgrees
  <1> QED
    BY <1>5, <1>6 DEF Membership

\* Disconnect takes out the peer whose connection sent it, and no other.
LEMMA MembershipHandleDisconnect ==
    TypeOK /\ Membership /\ HandleDisconnect => Membership'
  <1> SUFFICES ASSUME TypeOK, Membership, HandleDisconnect PROVE Membership'
    OBVIOUS
  <1>1. PICK c : c = Head(cmd_rx).conn
    OBVIOUS
  <1>2. PICK home : home = ChannelOf[c]
    OBVIOUS
  <1>3. /\ c \in Conns /\ home \in Channels
        /\ PeersOf(home)' = {d \in PeersOf(home) : KeyOf[d] # KeyOf[c]}
        /\ \A ch \in Channels : ch # home => PeersOf(ch)' = PeersOf(ch)
    BY <1>1, <1>2, EffectHandleDisconnect
  <1>4. Receive("Disconnect") /\ UNCHANGED task
    BY DEF HandleDisconnect
  <1>5. task[c] = "gone" /\ c \in PeersOf(home)
    <2>1. cmd_rx[1] = Head(cmd_rx) /\ 1 \in 1..Len(cmd_rx)
      BY <1>4, Popped DEF Membership
    <2>2. SenderOf(Head(cmd_rx)) /\ Head(cmd_rx).type = "Disconnect"
      BY <1>4, <2>1 DEF Membership, CommandsAgree, Receive
    <2> QED
      BY <1>1, <1>2, <2>2 DEF SenderOf
  <1>6. PeersOf(home)' = PeersOf(home) \ {c}
    BY <1>3, <1>5 DEF Membership, OneConnectionPerKey
  <1>7. LiveIsPeer' /\ OneConnectionPerKey'
    BY <1>3, <1>4, <1>5, <1>6, ConnTypes DEF Membership, LiveIsPeer, OneConnectionPerKey
  <1>8. CommandsAgree'
    <2>1. \A ch \in Channels, d \in Conns : d \in PeersOf(ch) => d \in PeersOf(ch)' \/ d = c
      BY <1>3, <1>6
    <2> QED
      BY <1>1, <1>4, <2>1, TakenAgrees
  <1> QED
    BY <1>7, <1>8 DEF Membership

\* Eviction takes only channels without peers.
LEMMA MembershipEvictStale == TypeOK /\ Membership /\ EvictStale => Membership'
  <1> SUFFICES ASSUME TypeOK, Membership, EvictStale PROVE Membership'
    OBVIOUS
  <1>1. UNCHANGED <<cmd_rx, task>>
    BY DEF EvictStale
  <1> QED
    BY <1>1, EffectEvictStale, MembershipSame, QueueHasChannels

\* The passing of time moves no peer.
LEMMA MembershipAge ==
    ASSUME NEW ch \in Channels, TypeOK, Membership, Age(ch) PROVE Membership'
  <1>1. UNCHANGED <<cmd_rx, task>>
    BY DEF Age
  <1> QED
    BY <1>1, EffectAge, MembershipSame, QueueHasChannels

\* What the tasks send agrees with the state of their connections.
LEMMA MembershipTasks ==
    ASSUME NEW c \in Conns, TypeOK, Membership, Tasks(c) \/ ClientClose(c)
    PROVE  Membership'
  <1> USE DEF PeersOf
  <1>1. UNCHANGED channels
    BY DEF Tasks, TaskAuth, TaskForward, TaskSync, TaskDeliver, TaskDisconnect, ClientClose
  <1>2. LiveIsPeer' /\ OneConnectionPerKey'
    <2>1. \A d \in Conns : task'[d] \in {"live", "syncing"} => task[d] \in {"live", "syncing"}
      BY DEF Tasks, TaskAuth, TaskForward, TaskSync, TaskDeliver, TaskDisconnect,
             ClientClose, TypeOK
    <2> QED
      BY <1>1, <2>1 DEF LiveIsPeer, OneConnectionPerKey, Membership
  <1>3. ASSUME task[c] = "live" PROVE c \in PeersOf(ChannelOf[c])
    BY <1>3 DEF Membership, LiveIsPeer
  <1>4. CommandsAgree'
    <2> HIDE DEF PeersOf
    <2>1. CASE UNCHANGED <<cmd_rx, task>>
      BY <1>1, <2>1, MembershipSame, QueueHasChannels DEF Membership, PeersOf
    <2>2. CASE TaskAuth(c)
      <3>1. CASE Enqueue([type |-> "Auth", conn |-> c]) /\ task' = [task EXCEPT ![c] = "authing"]
        <4> DEFINE m == [type |-> "Auth", conn |-> c]
        <4>1. m \in ChannelCmd /\ SenderOf(m)'
          BY <3>1, CmdsAreTyped DEF SenderOf, TypeOK
        <4> QED
          BY <1>1, <2>2, <3>1, <4>1, SendAgrees DEF TaskAuth, Membership, TypeOK
      <3>2. CASE task' = [task EXCEPT ![c] = "gone"] /\ UNCHANGED cmd_rx
        <4>1. \A i \in 1..Len(cmd_rx) :
                 SenderOf(cmd_rx[i]) /\ cmd_rx[i].conn \in Conns /\ cmd_rx[i] \in ChannelCmd
          BY ElementOfSeq, CmdTypes DEF Membership, CommandsAgree, TypeOK
        <4>2. \A i \in 1..Len(cmd_rx) : SenderOf(cmd_rx[i])'
          BY <1>1, <2>2, <3>2, <4>1 DEF SenderOf, TaskAuth, TypeOK, PeersOf
        <4> QED
          BY <3>2, <4>2 DEF CommandsAgree, Membership
      <3> QED
        BY <2>2, <3>1, <3>2 DEF TaskAuth
    <2>3. CASE TaskForward(c)
      <3> DEFINE m == [type |-> "Forward", conn |-> c]
      <3>1. m \in ChannelCmd /\ SenderOf(m)'
        BY <1>1, <1>3, <2>3, CmdsAreTyped DEF SenderOf, TaskForward, PeersOf
      <3> QED
        BY <1>1, <2>3, <3>1, SendAgrees DEF TaskForward, Membership, TypeOK
    <2>4. ASSUME NEW ch \in Channels, TaskSync(c, ch) PROVE CommandsAgree'
      <3>1. cursor[KeyOf[c]][ch].seq \in Nat
        BY ConnTypes DEF TypeOK
      <3>2. PICK m \in ChannelCmd : m = [type |-> "Sync", conn |-> c, channel |-> ch,
                                         since |-> cursor[KeyOf[c]][ch].seq]
        BY <3>1, CmdsAreTyped
      <3>3. m.conn = c /\ m.type = "Sync"
        BY <3>2
      <3>4. SenderOf(m)'
        BY <1>1, <1>3, <2>4, <3>3 DEF SenderOf, TaskSync, PeersOf, TypeOK
      <3>5. /\ Enqueue(m) /\ task[c] = "live"
            /\ \A d \in Conns : d # c => task'[d] = task[d]
        BY <2>4, <3>2 DEF TaskSync, TypeOK
      <3> QED
        BY <1>1, <3>3, <3>4, <3>5, SendAgrees DEF Membership
    <2>5. CASE TaskDisconnect(c)
      <3> DEFINE m == [type |-> "Disconnect", conn |-> c]
      <3>1. m \in ChannelCmd /\ SenderOf(m)'
        BY <1>1, <1>3, <2>5, CmdsAreTyped DEF SenderOf, TaskDisconnect, PeersOf, TypeOK
      <3> QED
        BY <1>1, <2>5, <3>1, SendAgrees DEF TaskDisconnect, Membership, TypeOK
    <2> QED
      BY <2>1, <2>2, <2>3, <2>4, <2>5 DEF Tasks, TaskDeliver, ClientClose
  <1> QED
    BY <1>2, <1>4 DEF Membership

\* The inductive invariant: members, tasks and waiting commands agree.
THEOREM MembershipInvariant == Spec => []Membership
  <1>1. Init => Membership
    BY DEF Init, Membership, LiveIsPeer, OneConnectionPerKey, CommandsAgree, PeersOf
  <1>2. TypeOK /\ Membership /\ [Next]_vars => Membership'
    <2> SUFFICES ASSUME TypeOK, Membership, [Next]_vars PROVE Membership'
      OBVIOUS
    <2>1. CASE Manager
      BY <2>1, MembershipHandleAuth, MembershipHandleForward, MembershipHandleSync,
         MembershipHandleDisconnect DEF Manager
    <2>2. CASE EvictStale
      BY <2>2, MembershipEvictStale
    <2>3. CASE \E ch \in Channels : Age(ch)
      BY <2>3, MembershipAge
    <2>4. CASE \E c \in Conns : Tasks(c) \/ ClientClose(c)
      BY <2>4, MembershipTasks
    <2>5. CASE UNCHANGED vars
      <3>1. \A ch \in Channels : PeersOf(ch)' = PeersOf(ch)
        BY <2>5 DEF vars, PeersOf
      <3> QED
        BY <2>5, <3>1, MembershipSame, QueueHasChannels DEF vars
    <2> QED
      BY <2>1, <2>2, <2>3, <2>4, <2>5 DEF Next
  <1> QED
    BY <1>1, <1>2, TypeCorrect, PTL DEF Spec

\* Who was told AuthOk is a peer until it leaves: neither an eviction nor the
\* disconnect of another connection with the same key takes it out.
THEOREM LiveIsPeerHolds == Spec => []LiveIsPeer
  BY MembershipInvariant, PTL DEF Membership

\* A key is in a channel at most once.
THEOREM OneConnectionPerKeyHolds == Spec => []OneConnectionPerKey
  BY MembershipInvariant, PTL DEF Membership

-----------------------------------------------------------------------------
(* The ring buffer.                                                        *)

\* A new channel's buffer is the end of an empty log.
LEMMA EmptyWindow == IsWindow(<<>>, 1, <<>>)
  BY CapTypes, EmptySeq DEF IsWindow

\* push_back and pop_front move the window along by one message.
LEMMA PushedWindow ==
    ASSUME NEW b \in Seq(BufferedMessage), NEW l \in Seq(Keys), NEW n \in Nat,
           NEW k \in Keys, IsWindow(b, n, l)
    PROVE  IsWindow(Pushed(b, [seq |-> n, from |-> k]), n + 1, Append(l, k))
  <1> DEFINE m == [seq |-> n, from |-> k]
             longer == Append(b, m)
             grown == Append(l, k)
  <1>1. m \in BufferedMessage /\ m.seq = n /\ m.from = k
    OBVIOUS
  <1>2. /\ Len(b) \in Nat /\ Len(l) \in Nat
        /\ longer \in Seq(BufferedMessage) /\ longer # <<>>
        /\ Len(longer) = Len(b) + 1 /\ Len(grown) = Len(l) + 1
        /\ longer[Len(b) + 1] = m /\ grown[Len(l) + 1] = k
        /\ \A i \in 1..Len(b) : longer[i] = b[i]
        /\ \A i \in 1..Len(l) : grown[i] = l[i]
    <2>1. Len(b) \in Nat /\ Len(l) \in Nat
      BY LenProperties
    <2>2. /\ longer \in Seq(BufferedMessage) /\ longer # <<>>
          /\ Len(longer) = Len(b) + 1 /\ longer[Len(b) + 1] = m
          /\ \A i \in 1..Len(b) : longer[i] = b[i]
      <3> HIDE DEF m
      <3> QED
        BY <1>1, AppendProperties, SMTT(40)
    <2>3. /\ Len(grown) = Len(l) + 1 /\ grown[Len(l) + 1] = k
          /\ \A i \in 1..Len(l) : grown[i] = l[i]
      BY AppendProperties
    <2> QED
      BY <2>1, <2>2, <2>3
  <1>3. /\ n = Len(l) + 1
        /\ Len(b) = IF Len(l) < MaxBuffer THEN Len(l) ELSE MaxBuffer
        /\ \A i \in 1..Len(b) : /\ b[i].seq = Len(l) - Len(b) + i
                                /\ b[i].from = l[Len(l) - Len(b) + i]
    BY DEF IsWindow
  <1> HIDE DEF m, longer, grown
  <1>4. \A i \in 1..Len(longer) :
            /\ longer[i].seq = Len(grown) - Len(longer) + i
            /\ longer[i].from = grown[Len(grown) - Len(longer) + i]
    <2> TAKE i \in 1..Len(longer)
    <2>1. CASE i = Len(b) + 1
      <3>1. Len(grown) - Len(longer) + i = Len(l) + 1
        BY <1>2, <2>1
      <3> QED
        BY <1>1, <1>2, <1>3, <2>1, <3>1
    <2>2. CASE i \in 1..Len(b)
      <3>1. Len(b) <= Len(l)
        BY <1>2, <1>3, CapTypes
      <3>2. /\ Len(l) - Len(b) + i \in 1..Len(l)
            /\ Len(grown) - Len(longer) + i = Len(l) - Len(b) + i
        BY <1>2, <2>2, <3>1
      <3>3. /\ longer[i].seq = Len(l) - Len(b) + i
            /\ longer[i].from = l[Len(l) - Len(b) + i]
        BY <1>2, <1>3, <2>2
      <3>4. grown[Len(l) - Len(b) + i] = l[Len(l) - Len(b) + i]
        BY <1>2, <3>2
      <3> QED
        BY <3>2, <3>3, <3>4
    <2> QED
      BY <1>2, <2>1, <2>2
  <1>5. CASE Len(longer) > MaxBuffer
    <2>1. Pushed(b, m) = Tail(longer)
      BY <1>5 DEF Pushed, longer
    <2>2. /\ Len(Tail(longer)) = Len(b)
          /\ \A i \in 1..Len(b) : Tail(longer)[i] = longer[i + 1]
      BY <1>2, HeadTailProperties
    <2>3. Len(b) = MaxBuffer /\ ~(Len(grown) < MaxBuffer)
      BY <1>2, <1>3, <1>5, CapTypes
    <2>4. \A i \in 1..Len(b) :
              /\ Tail(longer)[i].seq = Len(grown) - Len(b) + i
              /\ Tail(longer)[i].from = grown[Len(grown) - Len(b) + i]
      <3> TAKE i \in 1..Len(b)
      <3>1. i + 1 \in 1..Len(longer) /\ Tail(longer)[i] = longer[i + 1]
        BY <1>2, <2>2
      <3>2. Len(grown) - Len(longer) + (i + 1) = Len(grown) - Len(b) + i
        BY <1>2
      <3> QED
        BY <1>4, <3>1, <3>2
    <2> QED
      BY <1>2, <1>3, <2>1, <2>2, <2>3, <2>4, ZenonT(60) DEF IsWindow, m, grown
  <1>6. CASE ~(Len(longer) > MaxBuffer)
    <2>1. Pushed(b, m) = longer
      BY <1>6 DEF Pushed, longer
    <2>2. Len(longer) = IF Len(grown) < MaxBuffer THEN Len(grown) ELSE MaxBuffer
      BY <1>2, <1>3, <1>6, CapTypes
    <2> QED
      BY <1>2, <1>3, <1>4, <2>1, <2>2 DEF IsWindow, m, grown
  <1> QED
    BY <1>5, <1>6

\* The parts of a channel, where there is one and where there is none.
LEMMA PartTypes ==
    ASSUME TypeOK, NEW ch \in Channels
    PROVE  /\ BufferOf(ch) \in Seq(BufferedMessage)
           /\ NextSeqOf(ch) \in Nat
           /\ log[ch] \in Seq(Keys)
  <1>1. <<>> \in Seq(BufferedMessage)
    BY EmptySeq
  <1> QED
    BY <1>1 DEF TypeOK, BufferOf, NextSeqOf

\* A step that leaves buffers, numbers and logs alone keeps the windows.
LEMMA WindowSame ==
    ASSUME BufferIsWindow, UNCHANGED log,
           \A ch \in Channels : BufferOf(ch)' = BufferOf(ch) /\ NextSeqOf(ch)' = NextSeqOf(ch)
    PROVE  BufferIsWindow'
  BY DEF BufferIsWindow

\* A forwarded message takes the next number; the oldest one leaves a full buffer.
LEMMA WindowHandleForward == TypeOK /\ BufferIsWindow /\ HandleForward => BufferIsWindow'
  <1> SUFFICES ASSUME TypeOK, BufferIsWindow, HandleForward, NEW ch \in Channels
               PROVE  IsWindow(BufferOf(ch)', NextSeqOf(ch)', log'[ch])
    BY DEF BufferIsWindow
  <1>1. PICK c : c = Head(cmd_rx).conn
    OBVIOUS
  <1>2. PICK home : home = ChannelOf[c]
    OBVIOUS
  <1> DEFINE m == [seq |-> NextSeqOf(home), from |-> KeyOf[c]]
  <1>3. /\ home \in Channels /\ KeyOf[c] \in Keys
        /\ ch # home => BufferOf(ch)' = BufferOf(ch) /\ NextSeqOf(ch)' = NextSeqOf(ch)
                        /\ log'[ch] = log[ch]
        /\ \/ UNCHANGED <<channels, log>>
           \/ /\ BufferOf(home)' = Pushed(BufferOf(home), m)
              /\ NextSeqOf(home)' = NextSeqOf(home) + 1
              /\ log' = [log EXCEPT ![home] = Append(@, KeyOf[c])]
    BY <1>1, <1>2, EffectHandleForward
  <1>4. IsWindow(BufferOf(ch), NextSeqOf(ch), log[ch])
    BY DEF BufferIsWindow
  <1>5. CASE ch # home
    BY <1>3, <1>4, <1>5
  <1>6. CASE ch = home /\ UNCHANGED <<channels, log>>
    BY <1>4, <1>6 DEF BufferOf, NextSeqOf
  <1>7. CASE /\ ch = home
             /\ BufferOf(home)' = Pushed(BufferOf(home), m)
             /\ NextSeqOf(home)' = NextSeqOf(home) + 1
             /\ log' = [log EXCEPT ![home] = Append(@, KeyOf[c])]
    <2>1. log'[home] = Append(log[home], KeyOf[c])
      BY <1>3, <1>7 DEF TypeOK
    <2>2. IsWindow(Pushed(BufferOf(home), m), NextSeqOf(home) + 1,
                   Append(log[home], KeyOf[c]))
      BY <1>3, <1>4, <1>7, PartTypes, PushedWindow
    <2> HIDE DEF m
    <2> QED
      BY <1>7, <2>1, <2>2
  <1> QED
    BY <1>3, <1>5, <1>6, <1>7

\* A disconnect keeps the buffer and the counter.
LEMMA WindowHandleDisconnect ==
    TypeOK /\ BufferIsWindow /\ HandleDisconnect => BufferIsWindow'
  <1> SUFFICES ASSUME TypeOK, BufferIsWindow, HandleDisconnect, NEW ch \in Channels
               PROVE  IsWindow(BufferOf(ch)', NextSeqOf(ch)', log'[ch])
    BY DEF BufferIsWindow
  <1>1. PICK c : c = Head(cmd_rx).conn
    OBVIOUS
  <1>2. PICK home : home = ChannelOf[c]
    OBVIOUS
  <1>3. IsWindow(BufferOf(ch), NextSeqOf(ch), log[ch])
    BY DEF BufferIsWindow
  <1>4. \/ BufferOf(ch)' = BufferOf(ch) /\ NextSeqOf(ch)' = NextSeqOf(ch) /\ log'[ch] = log[ch]
        \/ BufferOf(ch)' = <<>> /\ NextSeqOf(ch)' = 1 /\ log'[ch] = <<>>
    BY <1>1, <1>2, EffectHandleDisconnect DEF TypeOK
  <1> QED
    BY <1>3, <1>4, EmptyWindow

\* An evicted channel has neither.
LEMMA WindowEvictStale == TypeOK /\ BufferIsWindow /\ EvictStale => BufferIsWindow'
  <1> SUFFICES ASSUME TypeOK, BufferIsWindow, EvictStale, NEW ch \in Channels
               PROVE  IsWindow(BufferOf(ch)', NextSeqOf(ch)', log'[ch])
    BY DEF BufferIsWindow
  <1>1. IsWindow(BufferOf(ch), NextSeqOf(ch), log[ch])
    BY DEF BufferIsWindow
  <1> QED
    BY <1>1, EffectEvictStale, EmptyWindow

\* The ring buffer of every channel is the end of its log, with the sequence
\* numbers a sync relies on, whatever its capacity.
THEOREM WindowHolds == Spec => []BufferIsWindow
  <1>1. Init => BufferIsWindow
    <2> SUFFICES ASSUME Init, NEW ch \in Channels
                 PROVE  IsWindow(BufferOf(ch), NextSeqOf(ch), log[ch])
      BY DEF BufferIsWindow
    <2>1. BufferOf(ch) = <<>> /\ NextSeqOf(ch) = 1 /\ log[ch] = <<>>
      BY DEF Init, BufferOf, NextSeqOf
    <2> QED
      BY <2>1, EmptyWindow
  <1>2. TypeOK /\ BufferIsWindow /\ [Next]_vars => BufferIsWindow'
    <2> SUFFICES ASSUME TypeOK, BufferIsWindow, [Next]_vars PROVE BufferIsWindow'
      OBVIOUS
    <2>1. CASE HandleAuth
      <3>1. UNCHANGED log
        BY <2>1 DEF HandleAuth
      <3> QED
        BY <2>1, <3>1, EffectHandleAuth, WindowSame
    <2>2. CASE HandleForward
      BY <2>2, WindowHandleForward
    <2>3. CASE HandleDisconnect
      BY <2>3, WindowHandleDisconnect
    <2>4. CASE EvictStale
      BY <2>4, WindowEvictStale
    <2>5. CASE \E ch \in Channels : Age(ch)
      <3>1. UNCHANGED log
        BY <2>5 DEF Age, history
      <3> QED
        BY <2>5, <3>1, EffectAge, WindowSame
    <2>6. CASE UNCHANGED <<channels, log>>
      BY <2>6, WindowSame DEF BufferOf, NextSeqOf
    <2> QED
      BY <2>1, <2>2, <2>3, <2>4, <2>5, <2>6
         DEF Next, Manager, HandleSync, Tasks, TaskAuth, TaskForward, TaskSync,
             TaskDeliver, TaskDisconnect, ClientClose, vars, history
  <1> QED
    BY <1>1, <1>2, TypeCorrect, PTL DEF Spec

-----------------------------------------------------------------------------
(* Refinement. Under the invariants, every step of the relay is a step of  *)
(* RelayLog or leaves its variables alone.                                 *)

MembersOf(ch) == {KeyOf[d] : d \in PeersOf(ch)}

LogInv == TypeOK /\ Membership /\ BufferIsWindow

\* A step that shows in no channel is a stutter of the log.
LEMMA LogStutters ==
    ASSUME UNCHANGED log,
           \A ch \in Channels : PeersOf(ch)' = PeersOf(ch) /\ BufferOf(ch)' = BufferOf(ch)
    PROVE  UNCHANGED Abstract!vars
  BY DEF Abstract!vars

\* An accepted Auth is a Join of the abstract log, a refused one a stutter.
LEMMA LogHandleAuth ==
    ASSUME LogInv, HandleAuth PROVE [Abstract!Next]_(Abstract!vars)
  <1>1. PICK c : c = Head(cmd_rx).conn
    OBVIOUS
  <1>2. PICK home : home = ChannelOf[c]
    OBVIOUS
  <1> DEFINE refused == \E d \in PeersOf(home) : KeyOf[d] = KeyOf[c]
  <1>3. /\ c \in Conns /\ home \in Channels
        /\ PeersOf(home)' = IF refused THEN PeersOf(home) ELSE PeersOf(home) \cup {c}
        /\ \A ch \in Channels : ch # home => PeersOf(ch)' = PeersOf(ch)
        /\ \A ch \in Channels : BufferOf(ch)' = BufferOf(ch)
    BY <1>1, <1>2, EffectHandleAuth DEF LogInv
  <1>4. UNCHANGED log
    BY DEF HandleAuth
  <1>5. CASE refused
    BY <1>3, <1>4, <1>5, LogStutters
  <1>6. CASE ~refused
    <2>1. KeyOf[c] \in Keys /\ KeyOf[c] \notin {KeyOf[d] : d \in PeersOf(home)}
      BY <1>3, <1>6, ConnTypes
    <2>2. [ch \in Channels |-> {KeyOf[d] : d \in PeersOf(ch)}]' =
              [[ch \in Channels |-> {KeyOf[d] : d \in PeersOf(ch)}]
                   EXCEPT ![home] = @ \cup {KeyOf[c]}]
      <3>1. MembersOf(home)' = MembersOf(home) \cup {KeyOf[c]}
        BY <1>3, <1>6 DEF MembersOf
      <3>2. \A ch \in Channels : ch # home => MembersOf(ch)' = MembersOf(ch)
        BY <1>3 DEF MembersOf
      <3> QED
        BY <1>3, <3>1, <3>2 DEF MembersOf
    <2>3. [ch \in Channels |-> Len(log[ch]) - Len(BufferOf(ch))]' =
              [ch \in Channels |-> Len(log[ch]) - Len(BufferOf(ch))]
      BY <1>3, <1>4
    <2>4. Abstract!Join(home, KeyOf[c])
      BY <1>3, <1>4, <2>1, <2>2, <2>3 DEF Abstract!Join
    <2> QED
      BY <1>3, <2>1, <2>4 DEF Abstract!Next
  <1> QED
    BY <1>5, <1>6

\* Who sent the command at the head of the queue.
LEMMA HeadSender ==
    ASSUME LogInv, NEW type, Receive(type) PROVE SenderOf(Head(cmd_rx))
  <1>1. cmd_rx[1] = Head(cmd_rx) /\ 1 \in 1..Len(cmd_rx)
    BY Popped DEF LogInv, Membership
  <1> QED
    BY <1>1 DEF LogInv, Membership, CommandsAgree

\* The length of a buffer after a message.
LEMMA PushedLen ==
    ASSUME NEW b \in Seq(BufferedMessage), NEW m \in BufferedMessage
    PROVE  /\ Len(b) \in Nat
           /\ Len(Pushed(b, m)) = IF Len(b) + 1 > MaxBuffer THEN Len(b) ELSE Len(b) + 1
  <1>1. /\ Len(b) \in Nat
        /\ Append(b, m) \in Seq(BufferedMessage) /\ Append(b, m) # <<>>
        /\ Len(Append(b, m)) = Len(b) + 1
    BY AppendProperties, LenProperties
  <1>2. Len(Tail(Append(b, m))) = Len(b)
    BY <1>1, HeadTailProperties
  <1> QED
    BY <1>1, <1>2 DEF Pushed

\* Forward is a Publish: its sender is a member, or its channel is gone and nothing happens.
LEMMA LogHandleForward ==
    ASSUME LogInv, HandleForward PROVE [Abstract!Next]_(Abstract!vars)
  <1>1. PICK c : c = Head(cmd_rx).conn
    OBVIOUS
  <1>2. PICK home : home = ChannelOf[c]
    OBVIOUS
  <1> DEFINE m == [seq |-> NextSeqOf(home), from |-> KeyOf[c]]
             base(ch) == Len(log[ch]) - Len(BufferOf(ch))
  <1>3. /\ c \in Conns /\ home \in Channels /\ KeyOf[c] \in Keys
        /\ \A ch \in Channels : PeersOf(ch)' = PeersOf(ch)
        /\ \A ch \in Channels : ch # home => /\ BufferOf(ch)' = BufferOf(ch)
                                            /\ log'[ch] = log[ch]
        /\ \/ PeersOf(home) = {}
           \/ /\ BufferOf(home)' = Pushed(BufferOf(home), m)
              /\ log' = [log EXCEPT ![home] = Append(@, KeyOf[c])]
    BY <1>1, <1>2, EffectHandleForward DEF LogInv
  <1>4. c \in PeersOf(home)
    <2>1. Receive("Forward") /\ Head(cmd_rx).type = "Forward"
      BY DEF HandleForward, Receive
    <2>2. SenderOf(Head(cmd_rx))
      BY <2>1, HeadSender
    <2> QED
      BY <1>1, <1>2, <2>1, <2>2 DEF SenderOf
  <1>5. /\ BufferOf(home)' = Pushed(BufferOf(home), m)
        /\ log' = [log EXCEPT ![home] = Append(@, KeyOf[c])]
    BY <1>3, <1>4
  <1>6. /\ BufferOf(home) \in Seq(BufferedMessage) /\ m \in BufferedMessage
        /\ log[home] \in Seq(Keys)
    BY <1>3, PartTypes DEF LogInv
  <1>7. /\ Len(log[home]) \in Nat /\ Len(BufferOf(home)) \in Nat
        /\ Len(BufferOf(home)) <= MaxBuffer
    <2>1. IsWindow(BufferOf(home), NextSeqOf(home), log[home])
      BY <1>3 DEF LogInv, BufferIsWindow
    <2>2. Len(log[home]) \in Nat /\ Len(BufferOf(home)) \in Nat
      BY <1>6, LenProperties
    <2> QED
      BY <2>1, <2>2, CapTypes DEF IsWindow
  <1>8. base(home)' = IF Len(log[home]) - base(home) = MaxBuffer THEN base(home) + 1
                      ELSE base(home)
    <2>1. log'[home] = Append(log[home], KeyOf[c])
      BY <1>3, <1>5 DEF LogInv, TypeOK
    <2>2. Len(Append(log[home], KeyOf[c])) = Len(log[home]) + 1
      BY <1>3, <1>6, AppendProperties
    <2>3. Len(BufferOf(home)') = IF Len(BufferOf(home)) + 1 > MaxBuffer
                                 THEN Len(BufferOf(home)) ELSE Len(BufferOf(home)) + 1
      <3> HIDE DEF m
      <3> QED
        BY <1>5, <1>6, PushedLen
    <2>4. Len(log[home]') = Len(log[home]) + 1
      BY <2>1, <2>2
    <2>5. Len(log[home]) - base(home) = Len(BufferOf(home))
      BY <1>7
    <2>6. PICK L \in Nat, B \in Nat : L = Len(log[home]) /\ B = Len(BufferOf(home))
      BY <1>7
    <2>7. base(home) = L - B /\ B <= MaxBuffer
      BY <1>7, <2>6
    <2>8. base(home)' = L + 1 - (IF B + 1 > MaxBuffer THEN B ELSE B + 1)
      BY <2>3, <2>4, <2>6
    <2>9. L + 1 - (IF B + 1 > MaxBuffer THEN B ELSE B + 1)
              = IF B = MaxBuffer THEN L - B + 1 ELSE L - B
      BY <2>7, CapTypes
    <2> HIDE DEF base
    <2> QED
      BY <2>5, <2>6, <2>7, <2>8, <2>9
  <1>9. \A ch \in Channels : ch # home => base(ch)' = base(ch)
    BY <1>3
  <1>10. [ch \in Channels |-> base(ch)]' =
            [[ch \in Channels |-> base(ch)] EXCEPT ![home] =
                 IF Len(log[home]) - @ = MaxBuffer THEN @ + 1 ELSE @]
    <2> HIDE DEF base
    <2> QED
      BY <1>3, <1>8, <1>9
  <1>11. KeyOf[c] \in [ch \in Channels |-> {KeyOf[d] : d \in PeersOf(ch)}][home]
    BY <1>3, <1>4
  <1>12. UNCHANGED [ch \in Channels |-> {KeyOf[d] : d \in PeersOf(ch)}]
    BY <1>3
  <1>13. Abstract!Publish(home, KeyOf[c])
    BY <1>5, <1>10, <1>11, <1>12 DEF Abstract!Publish
  <1> QED
    BY <1>3, <1>13 DEF Abstract!Next

\* Disconnect is a Leave.
LEMMA LogHandleDisconnect ==
    ASSUME LogInv, HandleDisconnect PROVE [Abstract!Next]_(Abstract!vars)
  <1>1. PICK c : c = Head(cmd_rx).conn
    OBVIOUS
  <1>2. PICK home : home = ChannelOf[c]
    OBVIOUS
  <1>3. /\ c \in Conns /\ home \in Channels
        /\ PeersOf(home)' = {d \in PeersOf(home) : KeyOf[d] # KeyOf[c]}
        /\ BufferOf(home)' = BufferOf(home)
        /\ \/ UNCHANGED log
           \/ BufferOf(home) = <<>> /\ log' = [log EXCEPT ![home] = <<>>]
        /\ \A ch \in Channels : ch # home => /\ PeersOf(ch)' = PeersOf(ch)
                                            /\ BufferOf(ch)' = BufferOf(ch)
    BY <1>1, <1>2, EffectHandleDisconnect DEF LogInv
  <1>4. c \in PeersOf(home)
    <2>1. Receive("Disconnect") /\ Head(cmd_rx).type = "Disconnect"
      BY DEF HandleDisconnect, Receive
    <2>2. SenderOf(Head(cmd_rx))
      BY <2>1, HeadSender
    <2> QED
      BY <1>1, <1>2, <2>1, <2>2 DEF SenderOf
  <1>5. UNCHANGED log
    <2>1. CASE BufferOf(home) = <<>> /\ log' = [log EXCEPT ![home] = <<>>]
      <3>1. IsWindow(<<>>, NextSeqOf(home), log[home])
        BY <1>3, <2>1 DEF LogInv, BufferIsWindow
      <3>2. log[home] \in Seq(Keys)
        BY <1>3, PartTypes DEF LogInv
      <3>3. Len(log[home]) = 0
        BY <3>1, <3>2, LenProperties, CapTypes DEF IsWindow
      <3>4. log[home] = <<>>
        BY <3>2, <3>3, EmptySeq
      <3> QED
        BY <1>3, <2>1, <3>4 DEF LogInv, TypeOK
    <2> QED
      BY <1>3, <2>1
  <1>6. KeyOf[c] \in Keys /\ KeyOf[c] \in [ch \in Channels |-> {KeyOf[d] : d \in PeersOf(ch)}][home]
    BY <1>3, <1>4, ConnTypes
  <1>7. [ch \in Channels |-> {KeyOf[d] : d \in PeersOf(ch)}]' =
            [[ch \in Channels |-> {KeyOf[d] : d \in PeersOf(ch)}]
                 EXCEPT ![home] = @ \ {KeyOf[c]}]
    <2>1. MembersOf(home)' = MembersOf(home) \ {KeyOf[c]}
      BY <1>3 DEF MembersOf
    <2>2. \A ch \in Channels : ch # home => MembersOf(ch)' = MembersOf(ch)
      BY <1>3 DEF MembersOf
    <2> QED
      BY <1>3, <2>1, <2>2 DEF MembersOf
  <1>8. UNCHANGED [ch \in Channels |-> Len(log[ch]) - Len(BufferOf(ch))]
    BY <1>3, <1>5
  <1>9. Abstract!Leave(home, KeyOf[c])
    BY <1>5, <1>6, <1>7, <1>8 DEF Abstract!Leave
  <1> QED
    BY <1>3, <1>6, <1>9 DEF Abstract!Next

\* Eviction is a Forget.
LEMMA LogEvictStale ==
    ASSUME LogInv, EvictStale PROVE [Abstract!Next]_(Abstract!vars)
  <1>1. PICK old : /\ old \subseteq Channels
                   /\ \A ch \in old : PeersOf(ch) = {}
                   /\ channels' = [ch \in Channels |->
                                      IF ch \in old THEN None ELSE channels[ch]]
                   /\ log' = [ch \in Channels |-> IF ch \in old THEN <<>> ELSE log[ch]]
    BY DEF EvictStale, Removed, PeersOf
  <1>2. \A ch \in Channels : PeersOf(ch)' = PeersOf(ch)
    BY EffectEvictStale DEF LogInv
  <1>3. \A ch \in Channels : BufferOf(ch)' = IF ch \in old THEN <<>> ELSE BufferOf(ch)
    BY <1>1 DEF BufferOf
  <1>4. \A ch \in old : [x \in Channels |-> {KeyOf[d] : d \in PeersOf(x)}][ch] = {}
    BY <1>1
  <1>5. UNCHANGED [ch \in Channels |-> {KeyOf[d] : d \in PeersOf(ch)}]
    BY <1>2
  <1>6. [ch \in Channels |-> Len(log[ch]) - Len(BufferOf(ch))]' =
            [ch \in Channels |-> IF ch \in old THEN 0
                 ELSE [x \in Channels |-> Len(log[x]) - Len(BufferOf(x))][ch]]
    <2>1. \A ch \in Channels : Len(log'[ch]) - Len(BufferOf(ch)') =
              IF ch \in old THEN 0 ELSE Len(log[ch]) - Len(BufferOf(ch))
      <3>1. Len(<<>>) = 0
        BY EmptySeq
      <3> QED
        BY <1>1, <1>3, <3>1
    <2> QED
      BY <2>1
  <1>7. Abstract!Forget(old)
    BY <1>1, <1>4, <1>5, <1>6 DEF Abstract!Forget
  <1> QED
    BY <1>1, <1>7 DEF Abstract!Next

\* The relay implements one bounded log per channel: only members write, the
\* newest MaxBuffer messages can be read back, nothing is forgotten while
\* somebody is in the channel.
THEOREM RelayImplementsLog == Spec => ImplementsLog
  <1>1. Init => Abstract!Init
    <2> SUFFICES ASSUME Init PROVE Abstract!Init
      OBVIOUS
    <2>1. \A ch \in Channels : PeersOf(ch) = {} /\ BufferOf(ch) = <<>> /\ log[ch] = <<>>
      BY DEF Init, PeersOf, BufferOf
    <2>2. Len(<<>>) = 0
      BY EmptySeq
    <2> QED
      BY <2>1, <2>2 DEF Abstract!Init, Init
  <1>2. LogInv /\ [Next]_vars => [Abstract!Next]_(Abstract!vars)
    <2> SUFFICES ASSUME LogInv, [Next]_vars PROVE [Abstract!Next]_(Abstract!vars)
      OBVIOUS
    <2>1. CASE HandleAuth
      BY <2>1, LogHandleAuth
    <2>2. CASE HandleForward
      BY <2>2, LogHandleForward
    <2>3. CASE HandleDisconnect
      BY <2>3, LogHandleDisconnect
    <2>4. CASE EvictStale
      BY <2>4, LogEvictStale
    <2>5. CASE \E ch \in Channels : Age(ch)
      <3>1. UNCHANGED log
        BY <2>5 DEF Age, history
      <3> QED
        BY <2>5, <3>1, EffectAge, LogStutters DEF LogInv
    <2>6. CASE UNCHANGED <<channels, log>>
      BY <2>6, LogStutters DEF PeersOf, BufferOf
    <2> QED
      BY <2>1, <2>2, <2>3, <2>4, <2>5, <2>6
         DEF Next, Manager, HandleSync, Tasks, TaskAuth, TaskForward, TaskSync,
             TaskDeliver, TaskDisconnect, ClientClose, vars, history
  <1>3. Spec => []LogInv
    BY TypeCorrect, MembershipInvariant, WindowHolds, PTL DEF LogInv
  <1> QED
    BY <1>1, <1>2, <1>3, PTL DEF Spec, ImplementsLog, Abstract!Spec


-----------------------------------------------------------------------------
(* Completeness of a sync answer. It leaves out nothing that the channel   *)
(* still holds and the device was not given, as long as numbers of one     *)
(* life of the channel are compared. What has to be known of the history   *)
(* between two answers: where a device's last number stands in the channel *)
(* it came from, and that the number in a waiting Sync is still the        *)
(* device's last one.                                                      *)

\* Device k's last number is below the next one, and below all it is owed; a
\* device that never got a number asks from 0.
CursorAgrees(k, ch) ==
    /\ owed[k][ch] \subseteq Seqs(BufferOf(ch))
    /\ cursor[k][ch].epoch <= epoch[ch]
    /\ cursor[k][ch].epoch = 0 => cursor[k][ch].seq = 0
    /\ channels[ch] # None /\ cursor[k][ch].epoch \in {0, epoch[ch]} =>
          /\ cursor[k][ch].seq < NextSeqOf(ch)
          /\ \A s \in owed[k][ch] : cursor[k][ch].seq < s

CursorsAgree ==
    \A ch \in Channels : /\ channels[ch] # None => epoch[ch] > 0
                         /\ \A k \in Keys : CursorAgrees(k, ch)

\* Only HandleSync moves a device's number, and a device has one Sync of its
\* own channel waiting.
AsksFromCursor(m) ==
    m.type = "Sync" /\ m.channel = ChannelOf[m.conn] =>
        m.since = cursor[KeyOf[m.conn]][m.channel].seq

SincesAgree == \A i \in 1..Len(cmd_rx) : AsksFromCursor(cmd_rx[i])

SyncInv == SyncComplete /\ CursorsAgree /\ SincesAgree

-----------------------------------------------------------------------------
(* Buffers.                                                                *)

\* The numbers in a buffer are positive and below the next one; the newest
\* message has the last of them.
LEMMA WindowSeqs ==
    ASSUME TypeOK, BufferIsWindow, NEW ch \in Channels
    PROVE  /\ NextSeqOf(ch) \in Nat \ {0}
           /\ Seqs(BufferOf(ch)) \subseteq 1..(NextSeqOf(ch) - 1)
           /\ Seqs(BufferOf(ch)) # {} => Newest(BufferOf(ch)) = NextSeqOf(ch) - 1
  <1> DEFINE b == BufferOf(ch)
             n == NextSeqOf(ch)
             l == log[ch]
  <1>1. IsWindow(b, n, l)
    BY DEF BufferIsWindow
  <1>2. Len(b) \in Nat /\ Len(l) \in Nat
    BY PartTypes, LenProperties
  <1> HIDE DEF b, n, l
  <1>3. n = Len(l) + 1 /\ Len(b) <= Len(l)
    BY <1>1, <1>2, CapTypes DEF IsWindow
  <1>4. \A i \in 1..Len(b) : b[i].seq = Len(l) - Len(b) + i
    BY <1>1 DEF IsWindow
  <1>5. Seqs(b) \subseteq 1..(n - 1)
    BY <1>2, <1>3, <1>4 DEF Seqs
  <1>6. Seqs(b) # {} => Newest(b) = n - 1
    BY <1>2, <1>3, <1>4 DEF Seqs, Newest
  <1> QED
    BY <1>2, <1>3, <1>5, <1>6 DEF b, n

\* A channel that is not there has nothing for anybody.
LEMMA NothingOwed ==
    ASSUME NEW ch \in Channels, NEW k \in Keys, channels[ch] = None, CursorAgrees(k, ch)
    PROVE  owed[k][ch] = {}
  <1>1. BufferOf(ch) = <<>>
    BY DEF BufferOf
  <1>2. Seqs(<<>>) = {}
    BY EmptySeq DEF Seqs
  <1> QED
    BY <1>1, <1>2 DEF CursorAgrees

\* What does not touch its buffer, number and cursor keeps them in agreement.
LEMMA CursorSame ==
    ASSUME NEW ch \in Channels, NEW k \in Keys, CursorAgrees(k, ch),
           channels'[ch] # None => channels[ch] # None,
           BufferOf(ch)' = BufferOf(ch), NextSeqOf(ch)' = NextSeqOf(ch),
           epoch'[ch] = epoch[ch], cursor'[k][ch] = cursor[k][ch],
           owed'[k][ch] = owed[k][ch]
    PROVE  CursorAgrees(k, ch)'
  BY DEF CursorAgrees

\* A channel that is removed takes what is owed with it.
LEMMA CursorGone ==
    ASSUME NEW ch \in Channels, NEW k \in Keys, CursorAgrees(k, ch),
           channels'[ch] = None, epoch'[ch] = epoch[ch],
           cursor'[k][ch] = cursor[k][ch], owed'[k][ch] = {}
    PROVE  CursorAgrees(k, ch)'
  BY DEF CursorAgrees

\* The first Auth of a new life: only a device without a number can compare with it.
LEMMA CursorCreated ==
    ASSUME TypeOK, NEW ch \in Channels, NEW k \in Keys, CursorAgrees(k, ch),
           channels[ch] = None, NextSeqOf(ch)' = 1, epoch'[ch] = epoch[ch] + 1,
           cursor'[k][ch] = cursor[k][ch], owed'[k][ch] = owed[k][ch]
    PROVE  CursorAgrees(k, ch)'
  <1>1. owed'[k][ch] = {}
    BY NothingOwed
  <1>2. epoch[ch] \in Nat /\ cursor[k][ch].epoch \in Nat
    BY DEF TypeOK
  <1>3. /\ cursor[k][ch].epoch <= epoch[ch]
        /\ cursor[k][ch].epoch = 0 => cursor[k][ch].seq = 0
    BY DEF CursorAgrees
  <1> QED
    BY <1>1, <1>2, <1>3 DEF CursorAgrees

-----------------------------------------------------------------------------
(* Waiting Syncs.                                                          *)

\* Taking a command leaves the numbers in the others as they are.
LEMMA SincesTaken ==
    ASSUME TypeOK, CommandsAgree, SincesAgree, NEW type, Receive(type), UNCHANGED cursor
    PROVE  SincesAgree'
  <1> SUFFICES ASSUME NEW i \in 1..Len(cmd_rx') PROVE AsksFromCursor(cmd_rx[i])'
    BY DEF SincesAgree
  <1>1. i + 1 \in 1..Len(cmd_rx) /\ cmd_rx'[i] = cmd_rx[i + 1]
    BY Popped
  <1>2. AsksFromCursor(cmd_rx[i + 1])
    BY <1>1 DEF SincesAgree
  <1> QED
    BY <1>1, <1>2 DEF AsksFromCursor

\* So does putting one at the end, if it asks from the device's number.
LEMMA SincesQueued ==
    ASSUME TypeOK, SincesAgree, NEW m \in ChannelCmd, Enqueue(m), UNCHANGED cursor,
           AsksFromCursor(m)
    PROVE  SincesAgree'
  <1> SUFFICES ASSUME NEW i \in 1..Len(cmd_rx') PROVE AsksFromCursor(cmd_rx[i])'
    BY DEF SincesAgree
  <1>1. CASE i = Len(cmd_rx) + 1
    BY <1>1, Queued DEF AsksFromCursor
  <1>2. CASE i # Len(cmd_rx) + 1
    <2>1. i \in 1..Len(cmd_rx) /\ cmd_rx'[i] = cmd_rx[i]
      BY <1>2, Queued
    <2> QED
      BY <2>1 DEF SincesAgree, AsksFromCursor
  <1> QED
    BY <1>1, <1>2

-----------------------------------------------------------------------------
(* The steps.                                                              *)

\* A step that touches neither buffers nor numbers nor the history.
LEMMA SyncSame ==
    ASSUME SyncInv, SincesAgree', UNCHANGED <<epoch, cursor, owed, missed>>,
           \A ch \in Channels : /\ channels'[ch] # None => channels[ch] # None
                                /\ BufferOf(ch)' = BufferOf(ch)
                                /\ NextSeqOf(ch)' = NextSeqOf(ch)
    PROVE  SyncInv'
  <1>1. ASSUME NEW ch \in Channels, NEW k \in Keys PROVE CursorAgrees(k, ch)'
    <2>1. CursorAgrees(k, ch)
      BY DEF SyncInv, CursorsAgree
    <2> QED
      BY <2>1, CursorSame
  <1>2. CursorsAgree'
    BY <1>1 DEF SyncInv, CursorsAgree
  <1> QED
    BY <1>2 DEF SyncInv, SyncComplete

\* Auth starts a life where there is none, and is no other channel's business.
LEMMA SyncHandleAuth == ASSUME LogInv, SyncInv, HandleAuth PROVE SyncInv'
  <1>1. PICK c : c = Head(cmd_rx).conn
    OBVIOUS
  <1>2. PICK home : home = ChannelOf[c]
    OBVIOUS
  <1>3. /\ home \in Channels
        /\ \A ch \in Channels : BufferOf(ch)' = BufferOf(ch) /\ NextSeqOf(ch)' = NextSeqOf(ch)
    BY <1>1, <1>2, EffectHandleAuth DEF LogInv
  <1>4. /\ epoch' = [epoch EXCEPT ![home] = IF channels[home] = None THEN @ + 1 ELSE @]
        /\ UNCHANGED <<cursor, owed, missed>>
        /\ Receive("Auth")
    BY <1>1, <1>2 DEF HandleAuth
  <1>5. \A ch \in Channels : ch # home => channels'[ch] = channels[ch] /\ epoch'[ch] = epoch[ch]
    <2>1. \E x : channels' = [channels EXCEPT ![home] = x]
      BY <1>1, <1>2 DEF HandleAuth
    <2> QED
      BY <1>4, <2>1 DEF LogInv, TypeOK
  <1>6. /\ epoch[home] \in Nat
        /\ epoch'[home] = IF channels[home] = None THEN epoch[home] + 1 ELSE epoch[home]
    BY <1>3, <1>4 DEF LogInv, TypeOK
  <1>7. ASSUME NEW ch \in Channels, NEW k \in Keys PROVE CursorAgrees(k, ch)'
    <2>1. CursorAgrees(k, ch)
      BY DEF SyncInv, CursorsAgree
    <2>2. CASE ch = home /\ channels[home] = None
      <3>1. NextSeqOf(ch) = 1
        BY <2>2 DEF NextSeqOf
      <3>2. /\ NextSeqOf(ch)' = 1 /\ epoch'[ch] = epoch[ch] + 1
            /\ cursor'[k][ch] = cursor[k][ch] /\ owed'[k][ch] = owed[k][ch]
        BY <1>3, <1>4, <1>6, <2>2, <3>1
      <3> QED
        BY <2>1, <2>2, <3>2, CursorCreated DEF LogInv
    <2>3. CASE ch # home \/ channels[home] # None
      <3>1. /\ channels'[ch] # None => channels[ch] # None
            /\ epoch'[ch] = epoch[ch]
        BY <1>5, <1>6, <2>3
      <3> QED
        BY <1>3, <1>4, <2>1, <3>1, CursorSame
    <2> QED
      BY <2>2, <2>3
  <1>8. ASSUME NEW ch \in Channels, channels'[ch] # None PROVE epoch'[ch] > 0
    <2>1. channels[ch] # None => epoch[ch] > 0
      BY DEF SyncInv, CursorsAgree
    <2> QED
      BY <1>5, <1>6, <1>8, <2>1
  <1>9. SincesAgree'
    BY <1>4, SincesTaken DEF LogInv, Membership, SyncInv
  <1> QED
    BY <1>4, <1>7, <1>8, <1>9 DEF SyncInv, CursorsAgree, SyncComplete

\* A forwarded message has a higher number than any a device was given.
LEMMA SyncHandleForward == ASSUME LogInv, SyncInv, HandleForward PROVE SyncInv'
  <1>1. PICK c : c = Head(cmd_rx).conn
    OBVIOUS
  <1>2. PICK home : home = ChannelOf[c]
    OBVIOUS
  <1> DEFINE t == Touched(home)
             b == Pushed(t.buffer, [seq |-> t.next_seq, from |-> KeyOf[c]])
  <1>3. Receive("Forward") /\ UNCHANGED <<epoch, cursor, missed>>
    BY DEF HandleForward
  <1>4. c \in Conns /\ home \in Channels
    BY <1>1, <1>2, <1>3, ReceiveStep DEF LogInv
  <1>5. SincesAgree'
    BY <1>3, SincesTaken DEF LogInv, Membership, SyncInv
  <1>6. CASE channels[home] = None
    <2>1. UNCHANGED <<channels, owed>>
      BY <1>1, <1>2, <1>6 DEF HandleForward
    <2> QED
      BY <1>3, <1>5, <2>1, SyncSame DEF BufferOf, NextSeqOf
  <1>7. CASE channels[home] # None
    <2>1. /\ t.buffer = BufferOf(home) /\ t.next_seq = NextSeqOf(home)
          /\ NextSeqOf(home) \in Nat
      BY <1>4, TouchedParts, PartTypes DEF LogInv
    <2>2. /\ BufferOf(home)' = b /\ NextSeqOf(home)' = NextSeqOf(home) + 1
          /\ \A ch \in Channels : ch # home =>
                 BufferOf(ch)' = BufferOf(ch) /\ NextSeqOf(ch)' = NextSeqOf(ch)
      <3>1. c \in PeersOf(home)
        <4>1. SenderOf(Head(cmd_rx)) /\ Head(cmd_rx).type = "Forward"
          BY <1>3, HeadSender DEF Receive
        <4> QED
          BY <1>1, <1>2, <4>1 DEF SenderOf
      <3> HIDE DEF b
      <3>2. /\ \A ch \in Channels : ch # home =>
                  BufferOf(ch)' = BufferOf(ch) /\ NextSeqOf(ch)' = NextSeqOf(ch)
            /\ \/ PeersOf(home) = {}
               \/ /\ BufferOf(home)' =
                        Pushed(BufferOf(home), [seq |-> NextSeqOf(home), from |-> KeyOf[c]])
                  /\ NextSeqOf(home)' = NextSeqOf(home) + 1
        BY <1>1, <1>2, EffectHandleForward, Zenon DEF LogInv
      <3> QED
        BY <2>1, <3>1, <3>2 DEF b
    <2>3. \E r : channels' = [channels EXCEPT ![home] = r]
      BY <1>1, <1>2, <1>7 DEF HandleForward
    <2>4. \A ch \in Channels : ch # home => channels'[ch] = channels[ch]
      BY <2>3 DEF LogInv, TypeOK
    <2>5. owed' = [x \in Keys |-> [owed[x] EXCEPT ![home] =
                                      (@ \cup {t.next_seq}) \cap Seqs(b)]]
      BY <1>1, <1>2, <1>7 DEF HandleForward
    <2> HIDE DEF t, b
    <2>6. ASSUME NEW k \in Keys
          PROVE  /\ owed'[k][home] = (owed[k][home] \cup {NextSeqOf(home)}) \cap Seqs(b)
                 /\ \A ch \in Channels : ch # home => owed'[k][ch] = owed[k][ch]
      <3>1. owed[k] \in [Channels -> SUBSET Nat]
        BY DEF LogInv, TypeOK
      <3>2. owed'[k] = [owed[k] EXCEPT ![home] = (@ \cup {t.next_seq}) \cap Seqs(b)]
        BY <2>5
      <3> QED
        BY <1>4, <2>1, <3>1, <3>2
    <2>7. ASSUME NEW ch \in Channels, NEW k \in Keys PROVE CursorAgrees(k, ch)'
      <3>1. CursorAgrees(k, ch)
        BY DEF SyncInv, CursorsAgree
      <3>2. CASE ch # home
        <4>1. owed'[k][ch] = owed[k][ch]
          BY <2>6, <3>2
        <4> QED
          BY <1>3, <2>2, <2>4, <3>1, <3>2, <4>1, CursorSame
      <3>3. CASE ch = home
        <4>1. owed'[k][ch] = (owed[k][ch] \cup {NextSeqOf(ch)}) \cap Seqs(b)
          BY <2>6, <3>3
        <4>2. BufferOf(ch)' = b /\ NextSeqOf(ch)' = NextSeqOf(ch) + 1
          BY <2>2, <3>3
        <4>3. Seqs(BufferOf(ch))' = Seqs(b)
          BY <4>2 DEF Seqs
        <4>4. owed'[k][ch] \subseteq Seqs(BufferOf(ch))'
          BY <4>1, <4>3
        <4>5. cursor[k][ch].seq \in Nat
          BY DEF LogInv, TypeOK
        <4>6. cursor'[k][ch].epoch \in {0, epoch'[ch]} =>
                  /\ cursor'[k][ch].seq < NextSeqOf(ch)'
                  /\ \A s \in owed'[k][ch] : cursor'[k][ch].seq < s
          BY <1>3, <1>7, <2>1, <3>1, <3>3, <4>1, <4>2, <4>5 DEF CursorAgrees
        <4> QED
          BY <1>3, <3>1, <4>4, <4>6 DEF CursorAgrees
      <3> QED
        BY <3>2, <3>3
    <2>8. \A ch \in Channels : channels'[ch] # None => epoch'[ch] > 0
      BY <1>3, <1>7, <2>4 DEF SyncInv, CursorsAgree
    <2> QED
      BY <1>3, <1>5, <2>7, <2>8 DEF SyncInv, CursorsAgree, SyncComplete
  <1> QED
    BY <1>6, <1>7

\* Two waiting commands of different connections, the first of them a peer's
\* Sync, do not both ask for the same device.
LEMMA OthersAsk ==
    ASSUME LogInv, Receive("Sync"), NEW i \in 1..Len(cmd_rx'), cmd_rx'[i].type = "Sync"
    PROVE  \/ KeyOf[cmd_rx'[i].conn] # KeyOf[Head(cmd_rx).conn]
           \/ ChannelOf[cmd_rx'[i].conn] # ChannelOf[Head(cmd_rx).conn]
  <1>1. PICK c : c = Head(cmd_rx).conn
    OBVIOUS
  <1>2. PICK m : m = cmd_rx'[i]
    OBVIOUS
  <1>3. /\ i + 1 \in 1..Len(cmd_rx) /\ m = cmd_rx[i + 1]
        /\ m.conn \in Conns /\ m.conn # c
    BY <1>1, <1>2, Popped DEF LogInv, Membership
  <1>4. m.conn \in PeersOf(ChannelOf[m.conn])
    <2>1. SenderOf(cmd_rx[i + 1])
      BY <1>3 DEF LogInv, Membership, CommandsAgree
    <2> QED
      BY <1>2, <1>3, <2>1 DEF SenderOf
  <1>5. c \in PeersOf(ChannelOf[c]) /\ ChannelOf[c] \in Channels
    <2>1. SenderOf(Head(cmd_rx)) /\ Head(cmd_rx).type = "Sync"
      BY HeadSender DEF Receive
    <2> QED
      BY <1>1, <2>1, ReceiveStep DEF SenderOf, LogInv
  <1>6. ~(KeyOf[m.conn] = KeyOf[c] /\ ChannelOf[m.conn] = ChannelOf[c])
    BY <1>3, <1>4, <1>5 DEF LogInv, Membership, OneConnectionPerKey
  <1> QED
    BY <1>1, <1>2, <1>6

\* A sync answer holds everything after the number the device asked from, and so
\* all that it is owed in this life of the channel.
LEMMA SyncHandleSync == ASSUME LogInv, SyncInv, HandleSync PROVE SyncInv'
  <1>1. PICK c : c = Head(cmd_rx).conn
    OBVIOUS
  <1>2. PICK home : home = ChannelOf[c]
    OBVIOUS
  <1>3. PICK k : k = KeyOf[c]
    OBVIOUS
  <1>4. PICK seqs : seqs = SyncReply(home, Head(cmd_rx).since)
    OBVIOUS
  <1>5. Receive("Sync") /\ UNCHANGED <<channels, epoch>>
    BY DEF HandleSync
  <1>6. c \in Conns /\ home \in Channels /\ k \in Keys
    BY <1>1, <1>2, <1>3, <1>5, ReceiveStep DEF LogInv
  <1>7. channels[home] # None
    <2>1. SenderOf(Head(cmd_rx)) /\ Head(cmd_rx).type = "Sync"
      BY <1>5, HeadSender DEF Receive
    <2>2. c \in PeersOf(home)
      BY <1>1, <1>2, <2>1 DEF SenderOf
    <2> QED
      BY <2>2 DEF PeersOf
  <1>8. Head(cmd_rx).channel = home => Head(cmd_rx).since = cursor[k][home].seq
    <2>1. 1 \in 1..Len(cmd_rx) /\ cmd_rx[1] = Head(cmd_rx) /\ Head(cmd_rx).type = "Sync"
      BY <1>5, Popped DEF LogInv, Membership, Receive
    <2>2. AsksFromCursor(Head(cmd_rx))
      BY <2>1 DEF SyncInv, SincesAgree
    <2> QED
      BY <1>1, <1>2, <1>3, <2>1, <2>2 DEF AsksFromCursor
  <1>9. Head(cmd_rx).channel = home => seqs = {s \in Seqs(BufferOf(home)) : s > cursor[k][home].seq}
    BY <1>4, <1>7, <1>8 DEF SyncReply, BufferOf
  <1>10. CASE ~(c \in open /\ Head(cmd_rx).channel = home)
    <2>1. UNCHANGED <<cursor, owed, missed>>
      BY <1>1, <1>2, <1>10 DEF HandleSync
    <2>2. SincesAgree'
      BY <1>5, <2>1, SincesTaken DEF LogInv, Membership, SyncInv
    <2> QED
      BY <1>5, <2>1, <2>2, SyncSame DEF BufferOf, NextSeqOf
  <1>11. CASE c \in open /\ Head(cmd_rx).channel = home
    <2> DEFINE note == [epoch |-> epoch[home], seq |-> Newest(BufferOf(home))]
               loss == [key |-> k, channel |-> IF cursor[k][home].epoch \in {0, epoch[home]}
                                               THEN "same" ELSE "evicted"]
    <2>1. /\ cursor' = IF seqs = {} THEN cursor ELSE [cursor EXCEPT ![k][home] = note]
          /\ owed' = [owed EXCEPT ![k][home] = {}]
          /\ missed' = IF owed[k][home] \subseteq seqs THEN missed ELSE missed \cup {loss}
      <3>1. BufferOf(home) = channels[home].buffer
        BY <1>7 DEF BufferOf
      <3> QED
        BY <1>1, <1>2, <1>3, <1>4, <1>11, <3>1 DEF HandleSync
    <2>2. CursorAgrees(k, home)
      BY <1>6 DEF SyncInv, CursorsAgree
    <2>3. cursor[k][home].epoch \in {0, epoch[home]} => owed[k][home] \subseteq seqs
      <3>1. /\ owed[k][home] \subseteq Seqs(BufferOf(home))
            /\ cursor[k][home].epoch \in {0, epoch[home]} =>
                  \A s \in owed[k][home] : cursor[k][home].seq < s
        BY <1>7, <2>2 DEF CursorAgrees
      <3>2. owed[k][home] \subseteq Nat /\ cursor[k][home].seq \in Nat
        BY <1>6 DEF LogInv, TypeOK
      <3> QED
        BY <1>9, <1>11, <3>1, <3>2
    <2>4. SyncComplete'
      BY <2>1, <2>3 DEF SyncInv, SyncComplete
    <2>5. /\ owed'[k][home] = {}
          /\ \/ cursor'[k][home] = cursor[k][home]
             \/ seqs # {} /\ cursor'[k][home] = note
      <3> HIDE DEF note, loss
      <3> QED
        BY <1>6, <2>1 DEF LogInv, TypeOK
    <2>6. ASSUME NEW x \in Keys, NEW ch \in Channels, x # k \/ ch # home
          PROVE  cursor'[x][ch] = cursor[x][ch] /\ owed'[x][ch] = owed[x][ch]
      <3> HIDE DEF note, loss
      <3> QED
        BY <1>6, <2>1, <2>6 DEF LogInv, TypeOK
    <2>7. \A ch \in Channels : BufferOf(ch)' = BufferOf(ch) /\ NextSeqOf(ch)' = NextSeqOf(ch)
      BY <1>5 DEF BufferOf, NextSeqOf
    <2>8. ASSUME NEW ch \in Channels, NEW x \in Keys PROVE CursorAgrees(x, ch)'
      <3>1. CursorAgrees(x, ch)
        BY DEF SyncInv, CursorsAgree
      <3>2. CASE x # k \/ ch # home
        BY <1>5, <2>6, <2>7, <3>1, <3>2, CursorSame
      <3>3. CASE x = k /\ ch = home
        <4>1. CASE cursor'[k][home] = cursor[k][home]
          BY <1>5, <2>5, <2>7, <3>1, <3>3, <4>1 DEF CursorAgrees
        <4>2. CASE seqs # {} /\ cursor'[k][home] = note
          <5>1. epoch[home] \in Nat /\ epoch[home] > 0
            BY <1>6, <1>7 DEF SyncInv, CursorsAgree, LogInv, TypeOK
          <5>2. Newest(BufferOf(home)) < NextSeqOf(home)
            <6>1. Seqs(BufferOf(home)) # {}
              BY <1>9, <1>11, <4>2
            <6> QED
              BY <1>6, <6>1, WindowSeqs DEF LogInv
          <5>3. cursor'[k][home].epoch = epoch[home] /\ cursor'[k][home].seq < NextSeqOf(home)
            BY <4>2, <5>2
          <5> HIDE DEF note
          <5> QED
            BY <1>5, <2>5, <2>7, <3>3, <5>1, <5>3 DEF CursorAgrees
        <4> QED
          BY <2>5, <4>1, <4>2
      <3> QED
        BY <3>2, <3>3
    <2>9. SincesAgree'
      <3> SUFFICES ASSUME NEW i \in 1..Len(cmd_rx') PROVE AsksFromCursor(cmd_rx[i])'
        BY DEF SincesAgree
      <3>1. PICK m : m = cmd_rx'[i]
        OBVIOUS
      <3>2. i + 1 \in 1..Len(cmd_rx) /\ m = cmd_rx[i + 1] /\ m.conn \in Conns
        BY <1>5, <3>1, Popped DEF LogInv, Membership
      <3>3. AsksFromCursor(m)
        BY <3>2 DEF SyncInv, SincesAgree
      <3>4. CASE m.type = "Sync" /\ m.channel = ChannelOf[m.conn]
        <4>1. KeyOf[m.conn] # k \/ ChannelOf[m.conn] # home
          BY <1>1, <1>2, <1>3, <1>5, <3>1, <3>4, OthersAsk
        <4>2. KeyOf[m.conn] \in Keys /\ ChannelOf[m.conn] \in Channels
          BY <3>2, ConnTypes
        <4>3. cursor'[KeyOf[m.conn]][ChannelOf[m.conn]] = cursor[KeyOf[m.conn]][ChannelOf[m.conn]]
          BY <2>6, <4>1, <4>2
        <4> QED
          BY <3>1, <3>3, <4>3 DEF AsksFromCursor
      <3> QED
        BY <3>1, <3>4 DEF AsksFromCursor
    <2>10. CursorsAgree'
      BY <1>5, <2>8 DEF SyncInv, CursorsAgree
    <2> QED
      BY <2>4, <2>9, <2>10 DEF SyncInv
  <1> QED
    BY <1>10, <1>11

\* What holds of any step that forgets channels, or nothing.
LEMMA SyncForgets ==
    ASSUME LogInv, SyncInv, SincesAgree', UNCHANGED <<epoch, cursor, missed>>, NEW gone,
           \A ch \in Channels : channels'[ch] = IF ch \in gone THEN None ELSE channels[ch],
           \A x \in Keys, ch \in Channels :
               owed'[x][ch] = IF ch \in gone THEN {} ELSE owed[x][ch]
    PROVE  SyncInv'
  <1>1. ASSUME NEW ch \in Channels, NEW x \in Keys PROVE CursorAgrees(x, ch)'
    <2>1. CursorAgrees(x, ch)
      BY DEF SyncInv, CursorsAgree
    <2>2. CASE ch \in gone
      BY <2>1, <2>2, CursorGone
    <2>3. CASE ch \notin gone
      <3>1. channels'[ch] = channels[ch] /\ owed'[x][ch] = owed[x][ch]
        BY <2>3
      <3>2. BufferOf(ch)' = BufferOf(ch) /\ NextSeqOf(ch)' = NextSeqOf(ch)
        BY <3>1 DEF BufferOf, NextSeqOf
      <3> QED
        BY <2>1, <3>1, <3>2, CursorSame
    <2> QED
      BY <2>2, <2>3
  <1>2. \A ch \in Channels : channels'[ch] # None => epoch'[ch] > 0
    BY DEF SyncInv, CursorsAgree
  <1> QED
    BY <1>1, <1>2 DEF SyncInv, CursorsAgree, SyncComplete

\* A disconnect takes out a peer, and the channel when nothing is left of it.
LEMMA SyncHandleDisconnect == ASSUME LogInv, SyncInv, HandleDisconnect PROVE SyncInv'
  <1>1. PICK c : c = Head(cmd_rx).conn
    OBVIOUS
  <1>2. PICK home : home = ChannelOf[c]
    OBVIOUS
  <1>3. /\ Receive("Disconnect") /\ home \in Channels
        /\ UNCHANGED <<epoch, cursor, missed>>
    <2>1. Receive("Disconnect") /\ UNCHANGED <<epoch, cursor, missed>>
      BY DEF HandleDisconnect, history, Removed
    <2> QED
      BY <1>1, <1>2, <2>1, ReceiveStep DEF LogInv
  <1>4. SincesAgree'
    BY <1>3, SincesTaken DEF LogInv, Membership, SyncInv
  <1>5. CASE channels[home] = None
    <2>1. UNCHANGED <<channels, owed>>
      BY <1>1, <1>2, <1>5 DEF HandleDisconnect, history
    <2> QED
      BY <1>3, <1>4, <2>1, SyncSame DEF BufferOf, NextSeqOf
  <1>6. CASE channels' = [channels EXCEPT ![home] = None] /\ Removed({home})
    <2>1. \A ch \in Channels :
              channels'[ch] = IF ch \in {home} THEN None ELSE channels[ch]
      BY <1>3, <1>6 DEF LogInv, TypeOK
    <2>2. \A x \in Keys, ch \in Channels :
              owed'[x][ch] = IF ch \in {home} THEN {} ELSE owed[x][ch]
      BY <1>6 DEF Removed
    <2> QED
      BY <1>3, <1>4, <2>1, <2>2, SyncForgets
  <1>7. CASE channels[home] # None /\ UNCHANGED history
             /\ \E P \in SUBSET Conns : channels' = [channels EXCEPT ![home].peers = P]
    <2>1. PICK P \in SUBSET Conns : channels' = [channels EXCEPT ![home].peers = P]
      BY <1>7
    <2>2. PICK r \in Channel : r = channels[home]
      BY <1>3, <1>7 DEF LogInv, TypeOK
    <2>3. PICK q \in Channel : q = [r EXCEPT !.peers = P]
      BY <2>2, ChannelUpdates
    <2>4. channels' = [channels EXCEPT ![home] = q]
      BY <2>1, <2>2, <2>3, Zenon
    <2>5. /\ q.buffer = r.buffer /\ q.next_seq = r.next_seq
          /\ r.buffer = BufferOf(home) /\ r.next_seq = NextSeqOf(home)
      BY <1>7, <2>2, <2>3 DEF BufferOf, NextSeqOf
    <2>6. \A ch \in Channels : BufferOf(ch)' = BufferOf(ch) /\ NextSeqOf(ch)' = NextSeqOf(ch)
      <3>1. /\ BufferOf(home)' = q.buffer /\ NextSeqOf(home)' = q.next_seq
            /\ \A ch \in Channels : ch # home =>
                   BufferOf(ch)' = BufferOf(ch) /\ NextSeqOf(ch)' = NextSeqOf(ch)
        BY <1>3, <2>3, <2>4, ReplacedParts DEF LogInv
      <3> QED
        BY <2>5, <3>1
    <2>7. \A ch \in Channels : ch # home => channels'[ch] = channels[ch]
      BY <1>3, <2>4 DEF LogInv, TypeOK
    <2>8. UNCHANGED <<epoch, cursor, owed, missed>>
      BY <1>7 DEF history
    <2> QED
      BY <1>4, <1>7, <2>6, <2>7, <2>8, SyncSame
  <1>8. \/ channels[home] = None
        \/ channels' = [channels EXCEPT ![home] = None] /\ Removed({home})
        \/ /\ channels[home] # None /\ UNCHANGED history
           /\ \E P \in SUBSET Conns : channels' = [channels EXCEPT ![home].peers = P]
    <2> SUFFICES ASSUME channels[home] # None
                 PROVE  \/ channels' = [channels EXCEPT ![home] = None] /\ Removed({home})
                        \/ /\ UNCHANGED history
                           /\ \E P \in SUBSET Conns :
                                  channels' = [channels EXCEPT ![home].peers = P]
      OBVIOUS
    <2>1. PICK left : left = channels[home].peers \ PeersWithKey(channels[home].peers, KeyOf[c])
      OBVIOUS
    <2>2. left \in SUBSET Conns
      <3>1. PICK r \in Channel : r = channels[home]
        BY <1>3 DEF LogInv, TypeOK
      <3>2. r.peers \subseteq Conns
        BY DEF Channel
      <3> QED
        BY <2>1, <3>1, <3>2
    <2>3. \/ channels' = [channels EXCEPT ![home] = None] /\ Removed({home})
          \/ channels' = [channels EXCEPT ![home].peers = left] /\ UNCHANGED history
      BY <1>1, <1>2, <2>1 DEF HandleDisconnect
    <2> QED
      BY <2>2, <2>3
  <1> QED
    BY <1>5, <1>6, <1>7, <1>8

\* Eviction forgets channels and nothing else.
LEMMA SyncEvictStale == ASSUME LogInv, SyncInv, EvictStale PROVE SyncInv'
  <1>1. PICK old : /\ channels' = [ch \in Channels |->
                                      IF ch \in old THEN None ELSE channels[ch]]
                   /\ Removed(old)
    BY DEF EvictStale
  <1>2. UNCHANGED <<epoch, cursor, missed, cmd_rx>>
    BY <1>1 DEF Removed, EvictStale
  <1>3. /\ \A ch \in Channels : channels'[ch] = IF ch \in old THEN None ELSE channels[ch]
        /\ \A x \in Keys, ch \in Channels :
               owed'[x][ch] = IF ch \in old THEN {} ELSE owed[x][ch]
    BY <1>1 DEF Removed
  <1>4. SincesAgree'
    BY <1>2 DEF SyncInv, SincesAgree, AsksFromCursor
  <1> QED
    BY <1>2, <1>3, <1>4, SyncForgets

\* The passing of time changes no more than a channel's age.
LEMMA SyncAge == ASSUME LogInv, SyncInv, NEW home \in Channels, Age(home) PROVE SyncInv'
  <1>1. UNCHANGED <<epoch, cursor, owed, missed, cmd_rx>>
    BY DEF Age, history
  <1>2. \A ch \in Channels : BufferOf(ch)' = BufferOf(ch) /\ NextSeqOf(ch)' = NextSeqOf(ch)
    BY EffectAge DEF LogInv
  <1>3. \A ch \in Channels : channels'[ch] # None => channels[ch] # None
    BY DEF Age, LogInv, TypeOK
  <1>4. SincesAgree'
    BY <1>1 DEF SyncInv, SincesAgree, AsksFromCursor
  <1> QED
    BY <1>1, <1>2, <1>3, <1>4, SyncSame

\* The tasks ask from the device's number, and change nothing it is compared with.
LEMMA SyncTasks ==
    ASSUME LogInv, SyncInv, NEW c \in Conns, Tasks(c) \/ ClientClose(c) PROVE SyncInv'
  <1>1. UNCHANGED <<channels, epoch, cursor, owed, missed>>
    BY DEF Tasks, TaskAuth, TaskForward, TaskSync, TaskDeliver, TaskDisconnect,
           ClientClose, history
  <1>2. SincesAgree'
    <2>1. CASE UNCHANGED cmd_rx
      BY <1>1, <2>1 DEF SyncInv, SincesAgree, AsksFromCursor
    <2>2. ASSUME NEW m \in ChannelCmd, Enqueue(m), m.type # "Sync" PROVE SincesAgree'
      BY <1>1, <2>2, SincesQueued DEF AsksFromCursor, LogInv, SyncInv
    <2>3. ASSUME NEW ch \in Channels, TaskSync(c, ch) PROVE SincesAgree'
      <3>1. cursor[KeyOf[c]][ch].seq \in Nat
        BY ConnTypes DEF LogInv, TypeOK
      <3>2. PICK m \in ChannelCmd : m = [type |-> "Sync", conn |-> c, channel |-> ch,
                                         since |-> cursor[KeyOf[c]][ch].seq]
        BY <3>1, CmdsAreTyped
      <3>3. AsksFromCursor(m)
        BY <3>2 DEF AsksFromCursor
      <3>4. Enqueue(m)
        BY <2>3, <3>2 DEF TaskSync
      <3> QED
        BY <1>1, <3>3, <3>4, SincesQueued DEF LogInv, SyncInv
    <2>4. \/ UNCHANGED cmd_rx
          \/ \E ch \in Channels : TaskSync(c, ch)
          \/ \E m \in ChannelCmd : Enqueue(m) /\ m.type # "Sync"
      <3>1. /\ [type |-> "Auth", conn |-> c] \in ChannelCmd
            /\ [type |-> "Forward", conn |-> c] \in ChannelCmd
            /\ [type |-> "Disconnect", conn |-> c] \in ChannelCmd
        BY CmdsAreTyped
      <3> QED
        BY <3>1 DEF Tasks, TaskAuth, TaskForward, TaskDeliver, TaskDisconnect, ClientClose
    <2> QED
      BY <2>1, <2>2, <2>3, <2>4
  <1> QED
    BY <1>1, <1>2, SyncSame DEF BufferOf, NextSeqOf

\* A device that asks after the last number it was given gets every buffered
\* message it was not given, unless its channel was evicted in between.
THEOREM SyncCompleteHolds == Spec => []SyncComplete
  <1>1. Init => SyncInv
    <2> SUFFICES ASSUME Init PROVE SyncInv
      OBVIOUS
    <2>1. ASSUME NEW ch \in Channels, NEW k \in Keys PROVE CursorAgrees(k, ch)
      BY DEF Init, CursorAgrees
    <2>2. \A ch \in Channels : channels[ch] = None
      BY DEF Init
    <2>3. CursorsAgree
      BY <2>1, <2>2 DEF CursorsAgree
    <2>4. SincesAgree
      BY EmptySeq DEF Init, SincesAgree
    <2> QED
      BY <2>3, <2>4 DEF Init, SyncInv, SyncComplete
  <1>2. LogInv /\ SyncInv /\ [Next]_vars => SyncInv'
    <2> SUFFICES ASSUME LogInv, SyncInv, [Next]_vars PROVE SyncInv'
      OBVIOUS
    <2>1. CASE Manager
      BY <2>1, SyncHandleAuth, SyncHandleForward, SyncHandleSync, SyncHandleDisconnect
         DEF Manager
    <2>2. CASE EvictStale
      BY <2>2, SyncEvictStale
    <2>3. CASE \E ch \in Channels : Age(ch)
      BY <2>3, SyncAge
    <2>4. CASE \E c \in Conns : Tasks(c) \/ ClientClose(c)
      BY <2>4, SyncTasks
    <2>5. CASE UNCHANGED vars
      <3>1. SincesAgree'
        BY <2>5 DEF vars, SyncInv, SincesAgree, AsksFromCursor
      <3> QED
        BY <2>5, <3>1, SyncSame DEF vars, BufferOf, NextSeqOf
    <2> QED
      BY <2>1, <2>2, <2>3, <2>4, <2>5 DEF Next
  <1>3. Spec => []LogInv
    BY TypeCorrect, MembershipInvariant, WindowHolds, PTL DEF LogInv
  <1>4. SyncInv => SyncComplete
    BY DEF SyncInv
  <1> QED
    BY <1>1, <1>2, <1>3, <1>4, PTL DEF Spec

=============================================================================
