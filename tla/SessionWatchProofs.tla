------------------------- MODULE SessionWatchProofs -------------------------
(***************************************************************************)
(* What viewers of a conversation are sent, for every set of sessions,     *)
(* files and viewers, every capacity of their channels, every length of    *)
(* the transcripts and every way in which they grow under the reads.       *)
(***************************************************************************)
EXTENDS SessionWatch, SequenceTheorems, TLAPS

------------------------------------------------------------------------------
(* Reads                                                                   *)

\* The lines a read returns follow each other.
LEMMA ParsedLines ==
    ASSUME NEW from \in Lengths, NEW to \in Lengths
    PROVE  /\ parse_lines(from, to) \in Seq(Lines)
           /\ \A k \in 1..Len(parse_lines(from, to)) :
                 /\ from <= 2 * parse_lines(from, to)[k] - 2
                 /\ 2 * parse_lines(from, to)[k] <= to
           /\ \A i \in Lines : from <= 2 * i - 2 /\ 2 * i <= to =>
                 \E k \in 1..Len(parse_lines(from, to)) : parse_lines(from, to)[k] = i
           /\ \A j, k \in 1..Len(parse_lines(from, to)) :
                 parse_lines(from, to)[k] - parse_lines(from, to)[j] = k - j
  <1> DEFINE skipped == (from + 1) \div 2
             n == to \div 2 - skipped
             p == parse_lines(from, to)
  <1>1. MaxLines \in Nat
    BY TranscriptTypes
  <1>2. /\ skipped \in Nat /\ to \div 2 \in Nat /\ to \div 2 <= MaxLines
        /\ from <= 2 * skipped /\ 2 * skipped <= from + 1
        /\ 2 * (to \div 2) <= to /\ to <= 2 * (to \div 2) + 1
    BY <1>1 DEF Lengths
  <1> DEFINE m == IF n < 0 THEN 0 ELSE n
  <1>3. m \in Nat /\ 1..n = 1..m /\ (m > 0 => m = n) /\ (n > 0 => m = n)
    BY <1>2
  <1>4. p = [k \in 1..m |-> skipped + k]
    BY <1>3 DEF parse_lines
  <1> HIDE DEF skipped, n, m, p
  <1>5. \A k \in 1..m : skipped + k \in Lines /\ 2 * (skipped + k) <= to /\ from <= 2 * (skipped + k) - 2
    BY <1>1, <1>2, <1>3 DEF Lines, Lengths, n
  <1>6. p \in Seq(Lines) /\ Len(p) = m /\ \A k \in 1..m : p[k] = skipped + k
    BY <1>3, <1>4, <1>5
  <1>7. \A i \in Lines : from <= 2 * i - 2 /\ 2 * i <= to => \E k \in 1..m : p[k] = i
    <2> TAKE i \in Lines
    <2> HAVE from <= 2 * i - 2 /\ 2 * i <= to
    <2>1. i \in Nat /\ from \in Nat /\ to \in Nat
      BY <1>1 DEF Lines, Lengths
    <2>2. skipped < i /\ i <= to \div 2
      BY <1>2, <2>1
    <2>3. i - skipped \in 1..m
      BY <1>2, <1>3, <2>1, <2>2 DEF n
    <2>4. p[i - skipped] = i
      BY <1>2, <1>6, <2>1, <2>3
    <2> QED
      BY <2>3, <2>4
  <1>8. \A j, k \in 1..m : p[k] - p[j] = k - j
    BY <1>2, <1>3, <1>6
  <1> QED
    BY <1>2, <1>5, <1>6, <1>7, <1>8 DEF p

\* The bounds of a transcript, as the provers need them.
LEMMA LengthFacts ==
    /\ MaxLines \in Nat /\ Lengths \subseteq Nat /\ 0 \in Lengths /\ None \notin Lengths
    /\ \A n \in Lengths : n <= 2 * MaxLines
    /\ \A i \in Lines : i \in Nat /\ 1 <= i /\ i <= MaxLines
    /\ Insides \subseteq Lengths
  BY TranscriptTypes, ViewerTypes DEF Lengths, Lines, Insides

\* One incremental read (messages.rs): what it returns starts at the offset and
\* misses nothing up to its last line; if the offset moves, nothing up to the
\* length it moves to.
LEMMA ReadFacts ==
    ASSUME NEW from \in Lengths, NEW len \in Lengths, NEW to \in Lengths, len <= to,
           NEW r, r = read_new_messages(from, len, to)
    PROVE  /\ r.messages \in Seq(Lines) /\ r.offset \in Lengths
           /\ from <= r.offset /\ r.offset \in {from, len}
           /\ \A k \in 1..Len(r.messages) : from <= 2 * r.messages[k] - 2 /\ 2 * r.messages[k] <= to
           /\ \A j, k \in 1..Len(r.messages) : r.messages[k] - r.messages[j] = k - j
           /\ \A i \in Lines, k \in 1..Len(r.messages) :
                 from <= 2 * i - 2 /\ i <= r.messages[k] => \E j \in 1..k : r.messages[j] = i
           /\ r.offset # from =>
                 \A i \in Lines : from <= 2 * i - 2 /\ 2 * i <= len => \E k \in 1..Len(r.messages) : r.messages[k] = i
           /\ r.messages # <<>> => r.offset = len /\ from < len
  <1>1. CASE len <= from \/ ~Readable(from, to)
    BY <1>1, LengthFacts DEF read_new_messages
  <1>2. CASE ~(len <= from \/ ~Readable(from, to))
    <2> DEFINE m == parse_lines(from, to)
    <2>1. r.messages = m /\ r.offset = len /\ from < len
      BY <1>2, LengthFacts DEF read_new_messages
    <2>2. /\ m \in Seq(Lines)
          /\ \A k \in 1..Len(m) : from <= 2 * m[k] - 2 /\ 2 * m[k] <= to
          /\ \A i \in Lines : from <= 2 * i - 2 /\ 2 * i <= to => \E k \in 1..Len(m) : m[k] = i
          /\ \A j, k \in 1..Len(m) : m[k] - m[j] = k - j
      BY ParsedLines
    <2> HIDE DEF m
    <2>3. ASSUME NEW i \in Lines, NEW k \in 1..Len(m), from <= 2 * i - 2, i <= m[k]
          PROVE  \E j \in 1..k : m[j] = i
      <3>1. m[k] \in Lines /\ Len(m) \in Nat
        BY <2>2, LenProperties, ElementOfSeq
      <3>2. 2 * i <= to
        BY <2>2, <2>3, <3>1, LengthFacts
      <3>3. PICK j \in 1..Len(m) : m[j] = i
        BY <2>2, <2>3, <3>2
      <3>4. m[k] - m[j] = k - j
        BY <2>2, <3>3
      <3>5. j <= k
        BY <2>3, <3>1, <3>3, <3>4, LengthFacts
      <3> QED
        BY <3>1, <3>3, <3>5
    <2>4. \A i \in Lines : from <= 2 * i - 2 /\ 2 * i <= len => \E k \in 1..Len(m) : m[k] = i
      <3> TAKE i \in Lines
      <3> HAVE from <= 2 * i - 2 /\ 2 * i <= len
      <3>1. 2 * i <= to
        BY LengthFacts
      <3> QED
        BY <2>2, <3>1
    <2>5. \A i \in Lines, k \in 1..Len(m) : from <= 2 * i - 2 /\ i <= m[k] => \E j \in 1..k : m[j] = i
      BY <2>3
    <2>6. r.offset \in Lengths /\ from <= r.offset /\ r.offset \in {from, len}
      BY <2>1, LengthFacts
    <2> QED
      BY ONLY <2>1, <2>2, <2>4, <2>5, <2>6, Zenon
  <1> QED
    BY <1>1, <1>2

------------------------------------------------------------------------------
(* Types                                                                   *)

LEMMA NewStream == NoStream \in Stream
  <1>1. <<>> \in Seq(Lines)
    OBVIOUS
  <1> QED
    BY <1>1, LengthFacts DEF NoStream, Stream

LEMMA TypeFiles ==
    ASSUME TypeOK, NEW p \in Paths, AgentWrites(p) \/ Bridge(p)
    PROVE  TypeOK'
  <1>1. CASE AgentWrites(p)
    BY <1>1 DEF AgentWrites, TypeOK, Notified, Longer, daemon, watcher
  <1>2. CASE Bridge(p)
    BY <1>2 DEF Bridge, TypeOK, daemon, watcher
  <1> QED
    BY <1>1, <1>2

LEMMA TypeSessions ==
    ASSUME TypeOK, NEW s \in Sessions, HookEvent(s) \/ RemoveSession(s)
    PROVE  TypeOK'
  <1>1. CASE HookEvent(s)
    <2>1. \A t \in Sessions, k, j \in BOOLEAN : [sessions[t] EXCEPT !.known = k, !.jsonl_path = j] \in SessionState
      BY DEF TypeOK, SessionState
    <2>2. PICK found \in {FALSE, ~sessions[s].jsonl_path} :
             LET Learns(t) == found /\ (t = s \/ (sessions[t].known /\ PathOf[t] = PathOf[s]))
             IN  sessions' = [t \in Sessions |->
                     [sessions[t] EXCEPT !.known = @ \/ t = s, !.jsonl_path = @ \/ Learns(t)]]
      BY <1>1 DEF HookEvent
    <2>3. sessions' \in [Sessions -> SessionState]
      BY <2>1, <2>2
    <2> QED
      BY <1>1, <2>3 DEF HookEvent, TypeOK, daemon, watcher
  <1>2. CASE RemoveSession(s)
    <2>1. sessions' \in [Sessions -> SessionState]
      BY <1>2 DEF RemoveSession, TypeOK, SessionState, Unknown
    <2>2. removals' \in 0..MaxRemovals
      BY <1>2, ViewerTypes DEF RemoveSession, TypeOK
    <2> QED
      BY <1>2, <2>1, <2>2 DEF RemoveSession, TypeOK, daemon, watcher
  <1> QED
    BY <1>1, <1>2

LEMMA TypeWatcher ==
    ASSUME TypeOK, NEW s \in Sessions, watch(s) \/ unwatch(s)
    PROVE  session_to_path' \in SUBSET Sessions /\ path_to_session' \in [Paths -> Sessions \cup {None}]
  BY ViewerTypes DEF watch, unwatch, Unwatched, TypeOK

LEMMA TypeRequest ==
    ASSUME TypeOK, NEW type, Receive(type)
    PROVE  /\ client_rx' \in Seq(ClientMessage) /\ Head(client_rx).viewer \in Viewers
           /\ Head(client_rx).session \in Sessions
  <1>1. Head(client_rx) \in ClientMessage
    BY DEF Receive, TypeOK
  <1>2. client_rx' \in Seq(ClientMessage)
    BY DEF Receive, TypeOK
  <1> QED
    BY <1>1, <1>2 DEF ClientMessage

LEMMA TypeRequests ==
    ASSUME TypeOK, HandleGetMessages \/ HandleWatchSession \/ HandleUnwatchSession
    PROVE  TypeOK'
  <1> DEFINE v == Head(client_rx).viewer
             s == Head(client_rx).session
  <1>1. CASE HandleGetMessages
    <2>1. client_rx' \in Seq(ClientMessage) /\ v \in Viewers /\ s \in Sessions
      BY <1>1, TypeRequest DEF HandleGetMessages
    <2>2. viewer' \in [Viewers -> Viewer]
      <3>1. viewer' = [viewer EXCEPT ![v].task = "fetched"]
        BY <1>1 DEF HandleGetMessages
      <3>2. PICK w \in Viewer : w = viewer[v]
        BY <2>1 DEF TypeOK
      <3>3. [w EXCEPT !.task = "fetched"] \in Viewer
        BY ONLY w \in Viewer DEF Viewer
      <3>4. [viewer[v] EXCEPT !.task = "fetched"] \in Viewer
        BY ONLY <3>2, <3>3
      <3> QED
        BY <2>1, <3>1, <3>4 DEF TypeOK
    <2>3. stream' \in [Viewers -> Stream]
      <3> DEFINE h == IF read_messages(disk[PathOf[s]], Limit) = <<>> THEN 0 ELSE disk[PathOf[s]]
      <3>1. h \in Lengths
        BY <2>1, LengthFacts, ViewerTypes DEF TypeOK
      <3>2. stream' = [stream EXCEPT ![v].history = h]
        BY <1>1 DEF HandleGetMessages
      <3> HIDE DEF h
      <3>3. PICK q \in Stream : q = stream[v]
        BY <2>1 DEF TypeOK
      <3>4. [q EXCEPT !.history = h] \in Stream
        BY ONLY <3>1, q \in Stream DEF Stream
      <3>5. [stream[v] EXCEPT !.history = h] \in Stream
        BY ONLY <3>3, <3>4
      <3> QED
        BY <2>1, <3>2, <3>5 DEF TypeOK
    <2> QED
      BY <1>1, <2>1, <2>2, <2>3 DEF HandleGetMessages, TypeOK, daemon, watcher
  <1>2. CASE HandleWatchSession
    <2>1. client_rx' \in Seq(ClientMessage) /\ v \in Viewers /\ s \in Sessions
      BY <1>2, TypeRequest DEF HandleWatchSession
    <2>2. PathOf[s] \in Paths /\ disk[PathOf[s]] \in Lengths
      BY <2>1, ViewerTypes DEF TypeOK
    <2>3. /\ disk' \in [Paths -> Lengths] /\ sessions' \in [Sessions -> SessionState]
          /\ session_to_path' \in SUBSET Sessions /\ path_to_session' \in [Paths -> Sessions \cup {None}]
      <3>1. CASE sessions[s].jsonl_path
        <4>1. watch(s)
          BY <1>2, <3>1 DEF HandleWatchSession
        <4>2. sessions' = [sessions EXCEPT ![s].watch_offset = disk[PathOf[s]]]
          BY <1>2, <3>1 DEF HandleWatchSession
        <4>3. disk' \in [Paths -> Lengths]
          BY <1>2, <2>2, <3>1 DEF HandleWatchSession, Meanwhile, Longer, TypeOK
        <4>4. sessions' \in [Sessions -> SessionState]
          BY <2>1, <2>2, <4>2 DEF TypeOK, SessionState
        <4> QED
          BY <2>1, <4>1, <4>3, <4>4, TypeWatcher
      <3>2. CASE ~sessions[s].jsonl_path
        BY <1>2, <3>2 DEF HandleWatchSession, TypeOK, watcher
      <3> QED
        BY <3>1, <3>2
    <2>4. message_subscribers' \in [Sessions -> SUBSET Viewers]
      BY <1>2, <2>1 DEF HandleWatchSession, TypeOK
    <2>5. stream' \in [Viewers -> Stream]
      <3> DEFINE others == message_subscribers[s] \ {v}
                 fresh == [NoStream EXCEPT !.from = disk[PathOf[s]], !.shared = others # {},
                                     !.gap = parse_lines(stream[v].history, disk[PathOf[s]]) # <<>>]
      <3>1. stream' = [w \in Viewers |-> IF w = v THEN fresh
                                         ELSE [stream[w] EXCEPT !.shared = @ \/ w \in others]]
        BY <1>2 DEF HandleWatchSession
      <3>2. fresh \in Stream
        <4>1. \A d \in Lengths, x, y \in BOOLEAN :
                 [NoStream EXCEPT !.from = d, !.shared = x, !.gap = y] \in Stream
          BY NewStream DEF Stream
        <4> QED
          BY <2>2, <4>1
      <3>3. \A w \in Viewers : [stream[w] EXCEPT !.shared = @ \/ w \in others] \in Stream
        <4>1. \A w \in Viewers, x \in BOOLEAN : [stream[w] EXCEPT !.shared = x] \in Stream
          BY DEF Stream, TypeOK
        <4> QED
          BY <4>1
      <3> QED
        BY <3>1, <3>2, <3>3
    <2> QED
      BY <1>2, <2>1, <2>3, <2>4, <2>5 DEF HandleWatchSession, TypeOK
  <1>3. CASE HandleUnwatchSession
    <2>1. client_rx' \in Seq(ClientMessage) /\ v \in Viewers /\ s \in Sessions
      BY <1>3, TypeRequest DEF HandleUnwatchSession
    <2>2. unwatch(s)
      BY <1>3 DEF HandleUnwatchSession
    <2>3. sessions' \in [Sessions -> SessionState]
      BY <1>3, <2>1 DEF HandleUnwatchSession, TypeOK, SessionState
    <2>4. message_subscribers' \in [Sessions -> SUBSET Viewers]
      BY <1>3, <2>1 DEF HandleUnwatchSession, TypeOK
    <2> QED
      BY <1>3, <2>1, <2>2, <2>3, <2>4, TypeWatcher DEF HandleUnwatchSession, TypeOK
  <1> QED
    BY <1>1, <1>2, <1>3

\* What try_send leaves in a viewer's channel: what was there, and the first
\* messages as far as they fit.
LEMMA PushedEvents ==
    ASSUME TypeOK, NEW v \in Viewers, NEW s \in Sessions, NEW messages \in Seq(Lines),
           NEW pushed, pushed = Pushed(v, s, messages)
    PROVE  /\ pushed \in Seq(Event) /\ Len(pushed) <= QueueCap
           /\ Len(pushed) - Len(queue[v]) \in 0..Len(messages)
           /\ Len(queue[v]) <= Len(pushed)
           /\ \A i \in 1..Len(queue[v]) : pushed[i] = queue[v][i]
           /\ \A i \in (Len(queue[v]) + 1)..Len(pushed) : pushed[i] = [type |-> "message", session |-> s]
           /\ Closed(v) => pushed = queue[v]
  <1> DEFINE q == queue[v]
             e == [type |-> "message", session |-> s]
             es == [i \in DOMAIN messages |-> e]
             n == Len(q)
             m == Len(messages)
             all == q \o es
             l == IF Len(all) < QueueCap THEN Len(all) ELSE QueueCap
  <1>1. q \in Seq(Event) /\ n \in Nat /\ n <= QueueCap /\ QueueCap \in Nat /\ m \in Nat
    BY ViewerTypes DEF TypeOK
  <1>2. e \in Event
    BY DEF Event
  <1>3. DOMAIN messages = 1..m
    BY <1>1
  <1>4. es \in Seq(Event) /\ Len(es) = m /\ \A i \in 1..m : es[i] = e
    BY <1>1, <1>2, <1>3
  <1>5. pushed = IF Closed(v) THEN q ELSE SubSeq(all, 1, l)
    BY DEF Pushed
  <1> HIDE DEF q, es, n, m, e
  <1>6. all \in Seq(Event) /\ Len(all) = n + m
    BY <1>1, <1>4 DEF n
  <1>7. \A i \in 1..(n + m) : all[i] = IF i <= n THEN q[i] ELSE e
    <2> TAKE i \in 1..(n + m)
    <2>1. CASE i <= n
      BY <1>1, <1>4, <2>1 DEF n
    <2>2. CASE ~(i <= n)
      <3>1. all[i] = es[i - n] /\ i - n \in 1..m
        BY <1>1, <1>4, <2>2 DEF n
      <3> QED
        BY <1>4, <2>2, <3>1
    <2> QED
      BY <2>1, <2>2
  <1>8. CASE Closed(v)
    BY <1>1, <1>5, <1>8 DEF q, n, m
  <1>9. CASE ~Closed(v)
    <2> HIDE DEF all
    <2>1. l \in Nat /\ n <= l /\ l <= n + m /\ l <= QueueCap
      BY <1>1, <1>6
    <2> HIDE DEF l
    <2>2. pushed = SubSeq(all, 1, l)
      BY <1>5, <1>9
    <2>3. pushed \in Seq(Event) /\ Len(pushed) = l /\ \A i \in 1..l : pushed[i] = all[i]
      BY <1>1, <1>6, <2>1, <2>2
    <2>4. \A i \in 1..n : pushed[i] = q[i]
      BY <1>1, <1>7, <2>1, <2>3
    <2>5. \A i \in (n + 1)..l : pushed[i] = e
      BY <1>1, <1>7, <2>1, <2>3
    <2>6. l - n \in 0..m
      BY <1>1, <2>1
    <2> QED
      BY <1>9, <2>1, <2>3, <2>4, <2>5, <2>6 DEF q, n, m, e
  <1> QED
    BY <1>8, <1>9

\* The reads of a file change, by the names of its handler.
Offset(s) == IF sessions[s].watch_offset = None THEN 0 ELSE sessions[s].watch_offset
Formats(s) == {FormatOf[v] : v \in message_subscribers[s]}
ReadIn(s, r, f) == read_new_messages(Offset(s), r[f].len, r[f].stop)
Gets(s, r, v) == IF v \in message_subscribers[s] THEN ReadIn(s, r, FormatOf[v]).messages ELSE <<>>
Fits(s, r, v) == Len(Pushed(v, s, Gets(s, r, v))) - Len(queue[v])

\* The lengths of one handler: no read is behind the file, and none but the
\* last is ahead of the last.
ReadsOf(s, r, last) ==
    /\ last \in Formats(s)
    /\ \A f \in Formats(s) : /\ r[f].len \in Lengths /\ r[f].stop \in Lengths
                             /\ disk[PathOf[s]] <= r[f].len /\ r[f].len <= r[f].stop
                             /\ f # last => r[f].stop <= r[last].len
                             /\ r[f].stop <= r[last].stop

\* A file only grows while a handler reads it.
LEMMA MeanwhileFacts ==
    \A n \in Lengths : \A m \in Meanwhile(n) : m \in Lengths /\ n <= m
  <1> TAKE n \in Lengths
  <1>1. n <= n
    BY LengthFacts
  <1>2. \A m \in Longer(n) : m \in Lengths /\ n <= m
    BY LengthFacts DEF Longer
  <1> QED
    BY <1>1, <1>2 DEF Meanwhile

\* What a file change does when the session has subscribers (daemon.rs).
FileRead(s, r, last) ==
    /\ ReadsOf(s, r, last)
    /\ disk' = [disk EXCEPT ![PathOf[s]] = r[last].stop]
    /\ raw' = Notified(PathOf[s], r[last].stop)
    /\ sessions' = IF ~sessions[s].known THEN sessions
                   ELSE [sessions EXCEPT ![s].watch_offset = ReadIn(s, r, last).offset]
    /\ queue' = [v \in Viewers |-> Pushed(v, s, Gets(s, r, v))]
    /\ stream' = [v \in Viewers |->
           IF v \notin message_subscribers[s] \/ Closed(v) \/ stream[v].forgotten THEN stream[v]
           ELSE IF sessions[s].watch_offset = None THEN [NoStream EXCEPT !.forgotten = TRUE]
           ELSE [stream[v] EXCEPT
                    !.sent = @ \o SubSeq(Gets(s, r, v), 1, Fits(s, r, v)),
                    !.lost = @ \/ Fits(s, r, v) < Len(Gets(s, r, v)),
                    !.again = @ \/ (Gets(s, r, v) # <<>> /\ ~Readable(Offset(s), r[last].stop)),
                    !.cuts = @ \cup ({ReadIn(s, r, last).offset} \cap Insides)]]

\* A file change that has subscribers reads the file, as FileRead says.
LEMMA FileChangedReads ==
    ASSUME TypeOK, NEW s \in Sessions, FileChanged(s), message_subscribers[s] # {}
    PROVE  \E r, last : FileRead(s, r, last)
  <1> DEFINE p == PathOf[s]
  <1>1. PICK r \in Reads(disk[p], Formats(s)), last \in Formats(s) :
        /\ \A f \in Formats(s) \ {last} : r[f].stop <= r[last].len
        /\ disk' = [disk EXCEPT ![p] = r[last].stop]
        /\ raw' = Notified(p, r[last].stop)
        /\ sessions' = IF ~sessions[s].known THEN sessions
                       ELSE [sessions EXCEPT ![s].watch_offset = ReadIn(s, r, last).offset]
        /\ queue' = [v \in Viewers |-> Pushed(v, s, Gets(s, r, v))]
        /\ stream' = [v \in Viewers |->
               IF v \notin message_subscribers[s] \/ Closed(v) \/ stream[v].forgotten THEN stream[v]
               ELSE IF sessions[s].watch_offset = None THEN [NoStream EXCEPT !.forgotten = TRUE]
               ELSE [stream[v] EXCEPT
                        !.sent = @ \o SubSeq(Gets(s, r, v), 1, Fits(s, r, v)),
                        !.lost = @ \/ Fits(s, r, v) < Len(Gets(s, r, v)),
                        !.again = @ \/ (Gets(s, r, v) # <<>> /\ ~Readable(Offset(s), r[last].stop)),
                        !.cuts = @ \cup ({ReadIn(s, r, last).offset} \cap Insides)]]
    BY DEF FileChanged, Formats, Offset, ReadIn, Gets, Fits
  <1>2. disk[p] \in Lengths
    BY ViewerTypes DEF TypeOK
  <1>3. \A m \in Meanwhile(disk[p]) : m \in Lengths /\ disk[p] <= m
    BY <1>2, MeanwhileFacts
  <1>4. \A f \in Formats(s) : r[f].len \in Meanwhile(disk[p]) /\ r[f].stop \in Meanwhile(disk[p])
                              /\ r[f].len <= r[f].stop
    BY <1>1 DEF Reads
  <1>5. ReadsOf(s, r, last)
    <2>1. \A f \in Formats(s) : /\ r[f].len \in Lengths /\ r[f].stop \in Lengths
                                /\ disk[p] <= r[f].len /\ r[f].len <= r[f].stop
      BY <1>3, <1>4
    <2>2. \A f \in Formats(s) : f # last => r[f].stop <= r[last].len
      BY <1>1
    <2>3. ASSUME NEW f \in Formats(s) PROVE r[f].stop <= r[last].stop
      <3>1. CASE f = last
        <4>1. r[f].stop \in Nat
          BY <2>1, LengthFacts
        <4> QED
          BY <3>1, <4>1
      <3>2. CASE f # last
        <4>1. r[f].stop \in Nat /\ r[last].len \in Nat /\ r[last].stop \in Nat
          BY <1>1, <2>1, LengthFacts
        <4>2. r[f].stop <= r[last].len /\ r[last].len <= r[last].stop
          BY <1>1, <2>1, <2>2, <3>2
        <4> QED
          BY <4>1, <4>2
      <3> QED
        BY <3>1, <3>2
    <2> QED
      BY <1>1, <2>1, <2>2, <2>3 DEF ReadsOf
  <1> QED
    BY <1>1, <1>5 DEF FileRead

\* What each subscriber gets of a file change (messages.rs, daemon.rs).
LEMMA GetsFacts ==
    ASSUME TypeOK, NEW s \in Sessions, NEW r, NEW last, ReadsOf(s, r, last), NEW v \in Viewers
    PROVE  /\ Offset(s) \in Lengths
           /\ Gets(s, r, v) \in Seq(Lines)
           /\ Fits(s, r, v) \in 0..Len(Gets(s, r, v))
           /\ ReadIn(s, r, last).offset \in Lengths
           /\ Offset(s) <= ReadIn(s, r, last).offset
           /\ r[last].stop \in Lengths /\ disk[PathOf[s]] <= r[last].stop
  <1>1. Offset(s) \in Lengths
    BY LengthFacts DEF Offset, TypeOK, SessionState
  <1>2. \A f \in Formats(s) : ReadIn(s, r, f).messages \in Seq(Lines) /\ ReadIn(s, r, f).offset \in Lengths
                              /\ Offset(s) <= ReadIn(s, r, f).offset
    BY <1>1, ReadFacts DEF ReadsOf, ReadIn
  <1>3. Gets(s, r, v) \in Seq(Lines)
    <2>1. CASE v \in message_subscribers[s]
      BY <1>2, <2>1 DEF Gets, Formats
    <2>2. CASE v \notin message_subscribers[s]
      BY <2>2 DEF Gets
    <2> QED
      BY <2>1, <2>2
  <1>4. Fits(s, r, v) \in 0..Len(Gets(s, r, v))
    BY <1>3, PushedEvents DEF Fits
  <1>5. r[last].stop \in Lengths /\ disk[PathOf[s]] <= r[last].stop
    <2>1. r[last].len \in Nat /\ r[last].stop \in Nat /\ disk[PathOf[s]] \in Nat
      BY LengthFacts, ViewerTypes DEF ReadsOf, TypeOK
    <2> QED
      BY <2>1 DEF ReadsOf
  <1> QED
    BY <1>1, <1>2, <1>3, <1>4, <1>5 DEF ReadsOf

LEMMA TypeFileChanged ==
    ASSUME TypeOK, NEW s \in Sessions, FileChanged(s)
    PROVE  TypeOK'
  <1>1. /\ watch_rx' \in SUBSET Sessions /\ message_subscribers' \in [Sessions -> SUBSET Viewers]
        /\ UNCHANGED <<watcher, removals, client_rx, viewer>>
    BY DEF FileChanged, TypeOK
  <1>2. CASE message_subscribers[s] = {}
    <2>1. UNCHANGED <<disk, raw, sessions, queue, stream>>
      BY <1>2 DEF FileChanged
    <2> QED
      BY <1>1, <2>1 DEF TypeOK, watcher
  <1>3. CASE message_subscribers[s] # {}
    <2>1. PICK r, last : FileRead(s, r, last)
      BY <1>3, FileChangedReads
    <2>2. /\ ReadsOf(s, r, last)
          /\ disk' = [disk EXCEPT ![PathOf[s]] = r[last].stop]
          /\ raw' = Notified(PathOf[s], r[last].stop)
          /\ sessions' = IF ~sessions[s].known THEN sessions
                         ELSE [sessions EXCEPT ![s].watch_offset = ReadIn(s, r, last).offset]
          /\ queue' = [v \in Viewers |-> Pushed(v, s, Gets(s, r, v))]
          /\ stream' = [v \in Viewers |->
                 IF v \notin message_subscribers[s] \/ Closed(v) \/ stream[v].forgotten THEN stream[v]
                 ELSE IF sessions[s].watch_offset = None THEN [NoStream EXCEPT !.forgotten = TRUE]
                 ELSE [stream[v] EXCEPT
                          !.sent = @ \o SubSeq(Gets(s, r, v), 1, Fits(s, r, v)),
                          !.lost = @ \/ Fits(s, r, v) < Len(Gets(s, r, v)),
                          !.again = @ \/ (Gets(s, r, v) # <<>> /\ ~Readable(Offset(s), r[last].stop)),
                          !.cuts = @ \cup ({ReadIn(s, r, last).offset} \cap Insides)]]
      BY <2>1 DEF FileRead
    <2>3. disk' \in [Paths -> Lengths] /\ raw' \in SUBSET Paths
      <3>1. r[last].stop \in Lengths /\ PathOf[s] \in Paths
        BY <2>2, ViewerTypes DEF ReadsOf
      <3>2. disk' \in [Paths -> Lengths]
        BY <2>2, <3>1 DEF TypeOK
      <3>3. raw' \in SUBSET Paths
        BY <2>2, <3>1 DEF TypeOK, Notified
      <3> QED
        BY <3>2, <3>3
    <2>4. sessions' \in [Sessions -> SessionState]
      <3>1. \A o \in Lengths : [sessions[s] EXCEPT !.watch_offset = o] \in SessionState
        BY DEF TypeOK, SessionState
      <3>2. ReadIn(s, r, last).offset \in Lengths
        BY <2>2, ViewerTypes, GetsFacts DEF ReadsOf, Formats, TypeOK
      <3> QED
        BY <2>2, <3>1, <3>2 DEF TypeOK
    <2>5. queue' \in [Viewers -> Seq(Event)] /\ \A v \in Viewers : Len(queue'[v]) <= QueueCap
      BY <2>2, GetsFacts, PushedEvents
    <2>6. stream' \in [Viewers -> Stream]
      <3>1. [NoStream EXCEPT !.forgotten = TRUE] \in Stream
        BY NewStream DEF Stream
      <3>2. \A S \in Stream, sent \in Seq(Lines), l, a \in BOOLEAN, cuts \in SUBSET Insides :
               [S EXCEPT !.sent = sent, !.lost = l, !.again = a, !.cuts = cuts] \in Stream
        BY DEF Stream
      <3>3. ASSUME NEW v \in Viewers
            PROVE  [stream[v] EXCEPT
                        !.sent = @ \o SubSeq(Gets(s, r, v), 1, Fits(s, r, v)),
                        !.lost = @ \/ Fits(s, r, v) < Len(Gets(s, r, v)),
                        !.again = @ \/ (Gets(s, r, v) # <<>> /\ ~Readable(Offset(s), r[last].stop)),
                        !.cuts = @ \cup ({ReadIn(s, r, last).offset} \cap Insides)] \in Stream
        <4>1. /\ stream[v] \in Stream /\ stream[v].sent \in Seq(Lines) /\ stream[v].lost \in BOOLEAN
              /\ stream[v].again \in BOOLEAN /\ stream[v].cuts \in SUBSET Insides
          BY DEF TypeOK, Stream
        <4>2. SubSeq(Gets(s, r, v), 1, Fits(s, r, v)) \in Seq(Lines)
          <5>1. Gets(s, r, v) \in Seq(Lines) /\ Fits(s, r, v) \in 0..Len(Gets(s, r, v))
            BY <2>2, GetsFacts
          <5> QED
            BY <5>1
        <4>3. stream[v].sent \o SubSeq(Gets(s, r, v), 1, Fits(s, r, v)) \in Seq(Lines)
          BY <4>1, <4>2
        <4>4. stream[v].cuts \cup ({ReadIn(s, r, last).offset} \cap Insides) \in SUBSET Insides
          BY <4>1
        <4>5. /\ (stream[v].lost \/ Fits(s, r, v) < Len(Gets(s, r, v))) \in BOOLEAN
              /\ (stream[v].again \/ (Gets(s, r, v) # <<>> /\ ~Readable(Offset(s), r[last].stop))) \in BOOLEAN
          BY <4>1
        <4> QED
          BY <3>2, <4>1, <4>3, <4>4, <4>5
      <3>4. \A v \in Viewers : stream[v] \in Stream
        BY DEF TypeOK
      <3> QED
        BY <2>2, <3>1, <3>3, <3>4
    <2> QED
      BY <1>1, <2>3, <2>4, <2>5, <2>6 DEF TypeOK, watcher
  <1> QED
    BY <1>2, <1>3

LEMMA TypeSend ==
    ASSUME TypeOK, NEW type \in {"GetMessages", "WatchSession", "UnwatchSession"}, NEW v \in Viewers,
           NEW s \in Sessions
    PROVE  /\ [type |-> type, viewer |-> v, session |-> s] \in ClientMessage
           /\ Send(type, v, s) => client_rx' \in Seq(ClientMessage)
  <1>1. [type |-> type, viewer |-> v, session |-> s] \in ClientMessage
    BY DEF ClientMessage
  <1> DEFINE m == [type |-> type, viewer |-> v, session |-> s]
  <1>2. Send(type, v, s) => client_rx' = Append(client_rx, m)
    BY DEF Send
  <1> HIDE DEF m
  <1>3. client_rx \in Seq(ClientMessage)
    BY DEF TypeOK
  <1>4. Append(client_rx, m) \in Seq(ClientMessage)
    BY <1>1, <1>3, AppendProperties DEF m
  <1> QED
    BY <1>1, <1>2, <1>4

LEMMA TypeShown ==
    ASSUME TypeOK, NEW v \in Viewers, queue[v] # <<>>
    PROVE  Tail(queue[v]) \in Seq(Event) /\ Len(Tail(queue[v])) <= QueueCap /\ Head(queue[v]) \in Event
  <1>1. queue[v] \in Seq(Event) /\ Len(queue[v]) <= QueueCap /\ QueueCap \in Nat
    BY ViewerTypes DEF TypeOK
  <1> QED
    BY <1>1

LEMMA TypeSocket ==
    ASSUME TypeOK, NEW v \in Sockets,
           SocketHangsUp(v) \/ SocketTask(v) \/ \E s \in Sessions : SocketWatches(v, s),
           viewer[v].task \in {"watching", "hungup"} => viewer[v].session \in Sessions
    PROVE  TypeOK'
  <1>1. v \in Viewers /\ viewer[v] \in Viewer
    BY DEF Viewers, TypeOK
  <1>2. CASE SocketHangsUp(v)
    <2>1. [viewer[v] EXCEPT !.task = "hungup"] \in Viewer
      BY <1>1 DEF Viewer
    <2>2. viewer' \in [Viewers -> Viewer]
      BY <1>1, <1>2, <2>1 DEF SocketHangsUp, TypeOK
    <2> QED
      BY <1>2, <2>2 DEF SocketHangsUp, TypeOK, daemon, watcher
  <1>3. ASSUME NEW s \in Sessions, SocketWatches(v, s) PROVE TypeOK'
    <2>1. [viewer[v] EXCEPT !.task = "watching", !.session = s] \in Viewer
      BY <1>1 DEF Viewer
    <2>2. viewer' \in [Viewers -> Viewer]
      BY <1>1, <1>3, <2>1 DEF SocketWatches, TypeOK
    <2>3. client_rx' \in Seq(ClientMessage)
      BY <1>1, <1>3, TypeSend DEF SocketWatches
    <2> QED
      BY <1>3, <2>2, <2>3 DEF SocketWatches, TypeOK, daemon, watcher
  <1>4. CASE SocketTask(v)
    <2>1. CASE /\ queue[v] # <<>>
               /\ queue' = [queue EXCEPT ![v] = Tail(@)]
               /\ viewer' = [viewer EXCEPT ![v].shows = @ \cup {Head(queue[v]).session}]
               /\ UNCHANGED client_rx
      <3>1. Tail(queue[v]) \in Seq(Event) /\ Len(Tail(queue[v])) <= QueueCap
            /\ Head(queue[v]).session \in Sessions
        BY <1>1, <2>1, TypeShown DEF Event
      <3>2. [viewer[v] EXCEPT !.shows = @ \cup {Head(queue[v]).session}] \in Viewer
        BY <1>1, <3>1 DEF Viewer
      <3>3. viewer' \in [Viewers -> Viewer]
        BY <1>1, <2>1, <3>2 DEF TypeOK
      <3>4. queue' \in [Viewers -> Seq(Event)] /\ \A w \in Viewers : Len(queue'[w]) <= QueueCap
        BY <1>1, <2>1, <3>1 DEF TypeOK
      <3> QED
        BY <1>4, <2>1, <3>3, <3>4 DEF SocketTask, TypeOK, daemon, watcher
    <2>2. CASE /\ viewer[v].task \in {"watching", "hungup"}
               /\ queue' = [queue EXCEPT ![v] = <<>>]
               /\ viewer' = [viewer EXCEPT ![v].task = "ended"]
               /\ Send("UnwatchSession", v, viewer[v].session)
      <3>1. client_rx' \in Seq(ClientMessage)
        BY <1>1, <2>2, TypeSend
      <3>2. [viewer[v] EXCEPT !.task = "ended"] \in Viewer
        BY <1>1 DEF Viewer
      <3>3. viewer' \in [Viewers -> Viewer]
        BY <1>1, <2>2, <3>2 DEF TypeOK
      <3>4. queue' \in [Viewers -> Seq(Event)] /\ \A w \in Viewers : Len(queue'[w]) <= QueueCap
        BY <1>1, <2>2, ViewerTypes DEF TypeOK
      <3> QED
        BY <1>4, <3>1, <3>3, <3>4 DEF SocketTask, TypeOK, daemon, watcher
    <2> QED
      BY <1>4, <2>1, <2>2 DEF SocketTask
  <1> QED
    BY <1>2, <1>3, <1>4

\* The request with which a page's task drops the session it watches.
LEMMA TypeUnwatches ==
    ASSUME TypeOK, NEW v \in Viewers
    PROVE  /\ Unwatches(v) \in Seq(ClientMessage)
           /\ viewer[v].watched = None => Unwatches(v) = <<>>
           /\ viewer[v].watched # None =>
                 /\ viewer[v].watched \in Sessions
                 /\ [type |-> "UnwatchSession", viewer |-> v, session |-> viewer[v].watched] \in ClientMessage
                 /\ Unwatches(v) = <<[type |-> "UnwatchSession", viewer |-> v, session |-> viewer[v].watched]>>
  <1>1. viewer[v].watched \in Sessions \cup {None}
    BY DEF TypeOK, Viewer
  <1>2. CASE viewer[v].watched = None
    BY <1>2 DEF Unwatches
  <1>3. CASE viewer[v].watched # None
    <2>1. viewer[v].watched \in Sessions
      BY <1>1, <1>3
    <2>2. [type |-> "UnwatchSession", viewer |-> v, session |-> viewer[v].watched] \in ClientMessage
      BY <2>1 DEF ClientMessage
    <2> QED
      BY <1>3, <2>1, <2>2 DEF Unwatches
  <1> QED
    BY <1>2, <1>3

LEMMA TypePage ==
    ASSUME TypeOK, NEW v \in Pages,
           \/ PageFetches(v) \/ PageWatches(v) \/ PageShows(v) \/ PageCloses(v) \/ PageDeselects(v)
           \/ \E s \in Sessions : PageSelects(v, s),
           viewer[v].task \in {"unwatched", "fetched"} => viewer[v].session \in Sessions
    PROVE  TypeOK'
  <1>1. v \in Viewers /\ viewer[v] \in Viewer /\ queue[v] \in Seq(Event)
    BY DEF Viewers, TypeOK
  <1>2. ASSUME NEW w \in Viewer, viewer' = [viewer EXCEPT ![v] = w] PROVE viewer' \in [Viewers -> Viewer]
    BY <1>1, <1>2 DEF TypeOK
  <1>3. ASSUME NEW q \in Seq(Event), Len(q) <= QueueCap, queue' = [queue EXCEPT ![v] = q]
        PROVE  queue' \in [Viewers -> Seq(Event)] /\ \A w \in Viewers : Len(queue'[w]) <= QueueCap
    BY <1>1, <1>3 DEF TypeOK
  <1>4. CASE PageFetches(v)
    <2>1. [viewer[v] EXCEPT !.task = "fetching"] \in Viewer
      BY <1>1 DEF Viewer
    <2>2. viewer' \in [Viewers -> Viewer]
      BY <1>2, <1>4, <2>1 DEF PageFetches
    <2>3. client_rx' \in Seq(ClientMessage)
      BY <1>1, <1>4, TypeSend DEF PageFetches
    <2> QED
      BY <1>4, <2>2, <2>3 DEF PageFetches, TypeOK, daemon, watcher
  <1>5. CASE PageWatches(v)
    <2> DEFINE s == viewer[v].session
               q == Append(queue[v], [type |-> "messages", session |-> s])
    <2>1. s \in Sessions
      BY <1>5 DEF PageWatches
    <2>2. [viewer[v] EXCEPT !.task = "watching", !.watched = s] \in Viewer
      BY <1>1, <2>1 DEF Viewer
    <2>3. viewer' \in [Viewers -> Viewer]
      BY <1>2, <1>5, <2>2 DEF PageWatches
    <2>4. [type |-> "messages", session |-> s] \in Event
      BY <2>1 DEF Event
    <2>5. q \in Seq(Event) /\ Len(q) <= QueueCap
      BY <1>1, <1>5, <2>4, ViewerTypes DEF PageWatches
    <2>6. queue' \in [Viewers -> Seq(Event)] /\ \A w \in Viewers : Len(queue'[w]) <= QueueCap
      BY <1>3, <1>5, <2>5 DEF PageWatches
    <2>7. client_rx' \in Seq(ClientMessage)
      <3>1. <<[type |-> "WatchSession", viewer |-> v, session |-> s]>> \in Seq(ClientMessage)
        BY <1>1, <2>1, TypeSend
      <3>2. Unwatches(v) \in Seq(ClientMessage) /\ client_rx \in Seq(ClientMessage)
        BY <1>1, TypeUnwatches DEF TypeOK
      <3> QED
        BY <1>5, <3>1, <3>2 DEF PageWatches
    <2> QED
      BY <1>5, <2>3, <2>6, <2>7 DEF PageWatches, TypeOK, daemon, watcher
  <1>6. CASE PageShows(v)
    <2> DEFINE shown == {Head(queue[v]).session} \cup
                           IF Head(queue[v]).type = "messages" THEN {} ELSE viewer[v].shows
    <2>1. Tail(queue[v]) \in Seq(Event) /\ Len(Tail(queue[v])) <= QueueCap
          /\ Head(queue[v]).session \in Sessions
      BY <1>1, <1>6, TypeShown DEF PageShows, Event
    <2>2. shown \in SUBSET Sessions
      BY <1>1, <2>1 DEF Viewer
    <2>3. [viewer[v] EXCEPT !.shows = shown] \in Viewer
      BY <1>1, <2>2 DEF Viewer
    <2>4. viewer' \in [Viewers -> Viewer]
      BY <1>2, <1>6, <2>3 DEF PageShows
    <2>5. queue' \in [Viewers -> Seq(Event)] /\ \A w \in Viewers : Len(queue'[w]) <= QueueCap
      BY <1>3, <1>6, <2>1 DEF PageShows
    <2> QED
      BY <1>6, <2>4, <2>5 DEF PageShows, TypeOK, daemon, watcher
  <1>7. CASE PageCloses(v)
    <2>1. [viewer[v] EXCEPT !.task = "closed"] \in Viewer
      BY <1>1 DEF Viewer
    <2>2. viewer' \in [Viewers -> Viewer]
      BY <1>2, <1>7, <2>1 DEF PageCloses
    <2>3. queue' \in [Viewers -> Seq(Event)] /\ \A w \in Viewers : Len(queue'[w]) <= QueueCap
      BY <1>1, <1>7, ViewerTypes DEF PageCloses, TypeOK
    <2>4. client_rx' \in Seq(ClientMessage)
      <3>1. client_rx \in Seq(ClientMessage) /\ Unwatches(v) \in Seq(ClientMessage)
        BY <1>1, TypeUnwatches DEF TypeOK
      <3> QED
        BY <1>7, <3>1 DEF PageCloses
    <2> QED
      BY <1>7, <2>2, <2>3, <2>4 DEF PageCloses, TypeOK, daemon, watcher
  <1>8. CASE PageDeselects(v)
    <2>1. [viewer[v] EXCEPT !.session = None, !.ended = TRUE] \in Viewer
      BY <1>1 DEF Viewer
    <2>2. viewer' \in [Viewers -> Viewer]
      BY <1>2, <1>8, <2>1 DEF PageDeselects
    <2> QED
      BY <1>8, <2>2 DEF PageDeselects, TypeOK, daemon, watcher
  <1>9. ASSUME NEW s \in Sessions, PageSelects(v, s) PROVE TypeOK'
    <2> DEFINE watched == IF viewer[v].session = None THEN viewer[v].watched ELSE None
    <2>1. watched \in Sessions \cup {None}
      BY <1>1 DEF Viewer
    <2>2. [viewer[v] EXCEPT !.task = "unwatched", !.session = s, !.watched = watched] \in Viewer
      BY <1>1, <2>1 DEF Viewer
    <2>3. viewer' \in [Viewers -> Viewer]
      <3>1. viewer' = [viewer EXCEPT ![v] = [viewer[v] EXCEPT !.task = "unwatched", !.session = s,
                                                              !.watched = watched]]
        BY <1>9, Zenon DEF PageSelects
      <3> HIDE DEF watched
      <3> QED
        BY <1>2, <2>2, <3>1
    <2>4. client_rx' \in Seq(ClientMessage)
      <3>1. CASE viewer[v].session = None
        BY <1>9, <3>1 DEF PageSelects, TypeOK
      <3>2. CASE viewer[v].session # None
        <4>1. viewer[v].session \in Sessions
          BY <1>1, <3>2 DEF Viewer
        <4>2. Send("UnwatchSession", v, viewer[v].session)
          BY <1>9, <3>2 DEF PageSelects
        <4> QED
          BY <1>1, <4>1, <4>2, TypeSend
      <3> QED
        BY <3>1, <3>2
    <2> QED
      BY <1>9, <2>3, <2>4 DEF PageSelects, TypeOK, daemon, watcher
  <1> QED
    BY <1>4, <1>5, <1>6, <1>7, <1>8, <1>9

------------------------------------------------------------------------------
(* Requests on their way to the main loop                                  *)

UnwatchAt(rx, j, t) == rx[j].type = "UnwatchSession" /\ rx[j].session = t
WatchAt(rx, i, v, t) == rx[i].type = "WatchSession" /\ rx[i].viewer = v /\ rx[i].session = t
FetchAt(rx, i, v) == rx[i].type = "GetMessages" /\ rx[i].viewer = v

\* When the requests before place `k` have been handled, `v` will watch `t`.
Open(rx, subs, v, t, k) ==
    \/ v \in subs[t] /\ \A j \in 1..(k - 1) : ~UnwatchAt(rx, j, t)
    \/ \E i \in 1..(k - 1) : WatchAt(rx, i, v, t) /\ \A j \in (i + 1)..(k - 1) : ~UnwatchAt(rx, j, t)

\* Before the first request of the queue only the subscribers are open.
LEMMA OpenFirst ==
    ASSUME NEW rx, NEW subs, NEW v, NEW t
    PROVE  Open(rx, subs, v, t, 1) <=> v \in subs[t]
  <1>1. 1..(1 - 1) = {}
    OBVIOUS
  <1> QED
    BY <1>1 DEF Open

\* The places before `k` decide.
LEMMA OpenPrefix ==
    ASSUME NEW rx, NEW ry, NEW subs, NEW v, NEW t, NEW k \in Nat,
           \A i \in 1..(k - 1) : rx[i] = ry[i]
    PROVE  Open(rx, subs, v, t, k) <=> Open(ry, subs, v, t, k)
  <1>1. \A i \in 1..(k - 1) : \A j \in (i + 1)..(k - 1) : j \in 1..(k - 1)
    OBVIOUS
  <1>2. \A i \in 1..(k - 1) : (UnwatchAt(rx, i, t) <=> UnwatchAt(ry, i, t))
                              /\ (WatchAt(rx, i, v, t) <=> WatchAt(ry, i, v, t))
    BY DEF UnwatchAt, WatchAt
  <1> QED
    BY <1>1, <1>2, Zenon DEF Open

LEMMA OpenNext ==
    ASSUME NEW rx, NEW subs, NEW v, NEW t, NEW k \in Nat \ {0}
    PROVE  Open(rx, subs, v, t, k + 1)
             <=> WatchAt(rx, k, v, t) \/ (Open(rx, subs, v, t, k) /\ ~UnwatchAt(rx, k, t))
  <1>1. (k + 1) - 1 = k /\ k \in 1..k /\ (k + 1)..k = {} /\ 1..k = 1..(k - 1) \cup {k}
        /\ \A i \in 1..(k - 1) : (i + 1)..k = (i + 1)..(k - 1) \cup {k}
    OBVIOUS
  <1> DEFINE W(i) == WatchAt(rx, i, v, t)
             U(j) == UnwatchAt(rx, j, t)
  <1>2. Open(rx, subs, v, t, k + 1) <=>
           \/ v \in subs[t] /\ \A j \in 1..k : ~U(j)
           \/ \E i \in 1..k : W(i) /\ \A j \in (i + 1)..k : ~U(j)
    BY <1>1 DEF Open
  <1>3. Open(rx, subs, v, t, k) <=>
           \/ v \in subs[t] /\ \A j \in 1..(k - 1) : ~U(j)
           \/ \E i \in 1..(k - 1) : W(i) /\ \A j \in (i + 1)..(k - 1) : ~U(j)
    BY DEF Open
  <1> HIDE DEF W, U
  <1>4. (\A j \in 1..k : ~U(j)) <=> (\A j \in 1..(k - 1) : ~U(j)) /\ ~U(k)
    BY <1>1
  <1>5. \A i \in 1..(k - 1) : (\A j \in (i + 1)..k : ~U(j)) <=> (\A j \in (i + 1)..(k - 1) : ~U(j)) /\ ~U(k)
    BY <1>1
  <1>6. (\E i \in 1..k : W(i) /\ \A j \in (i + 1)..k : ~U(j))
          <=> W(k) \/ \E i \in 1..(k - 1) : W(i) /\ (\A j \in (i + 1)..(k - 1) : ~U(j)) /\ ~U(k)
    BY <1>1, <1>5, Zenon
  <1> QED
    BY <1>2, <1>3, <1>4, <1>6, Zenon DEF W, U

LEMMA OpenFewer ==
    ASSUME NEW rx, NEW subs, NEW fewer, NEW v, NEW t, NEW k \in Nat, v \in fewer[t] => v \in subs[t]
    PROVE  Open(rx, fewer, v, t, k) => Open(rx, subs, v, t, k)
  BY Zenon DEF Open

LEMMA TailFacts ==
    ASSUME NEW S, NEW rx \in Seq(S), rx # <<>>
    PROVE  /\ Len(rx) \in Nat \ {0} /\ Tail(rx) \in Seq(S) /\ Len(Tail(rx)) = Len(rx) - 1
           /\ Head(rx) = rx[1] /\ \A i \in 1..(Len(rx) - 1) : Tail(rx)[i] = rx[i + 1]
  <1>1. Len(rx) \in Nat \ {0}
    BY EmptySeq, LenProperties
  <1> QED
    BY <1>1, HeadTailProperties

\* Handling the first request leaves open what was open after it.
LEMMA OpenTail ==
    ASSUME NEW S, NEW rx \in Seq(S), rx # <<>>, NEW subs, NEW next, NEW v, NEW t,
           v \in next[t] => (v \in subs[t] /\ ~UnwatchAt(rx, 1, t)) \/ WatchAt(rx, 1, v, t),
           NEW k \in 1..Len(rx)
    PROVE  Open(Tail(rx), next, v, t, k) => Open(rx, subs, v, t, k + 1)
  <1> DEFINE ry == Tail(rx)
             W(i) == WatchAt(rx, i, v, t)
             U(j) == UnwatchAt(rx, j, t)
  <1>1. Len(rx) \in Nat \ {0} /\ \A i \in 1..(Len(rx) - 1) : ry[i] = rx[i + 1]
    BY TailFacts
  <1>2. \A i \in 1..(k - 1) : ry[i] = rx[i + 1]
    BY <1>1
  <1>3. \A i \in 1..(k - 1) : (WatchAt(ry, i, v, t) <=> W(i + 1)) /\ (UnwatchAt(ry, i, t) <=> U(i + 1))
    BY <1>2 DEF WatchAt, UnwatchAt
  <1>4. Open(rx, subs, v, t, k + 1) <=>
           \/ v \in subs[t] /\ \A j \in 1..k : ~U(j)
           \/ \E i \in 1..k : W(i) /\ \A j \in (i + 1)..k : ~U(j)
    <2>1. (k + 1) - 1 = k
      BY <1>1
    <2> QED
      BY <2>1 DEF Open
  <1> HIDE DEF W, U, ry
  <1>5. ASSUME v \in next[t], \A j \in 1..(k - 1) : ~UnwatchAt(ry, j, t)
        PROVE  Open(rx, subs, v, t, k + 1)
    <2>1. \A j \in 2..k : ~U(j)
      <3> TAKE j \in 2..k
      <3>1. j - 1 \in 1..(k - 1) /\ (j - 1) + 1 = j
        BY <1>1
      <3> QED
        BY <1>3, <1>5, <3>1
    <2>2. CASE v \in subs[t] /\ ~U(1)
      <3>1. \A j \in 1..k : ~U(j)
        <4> TAKE j \in 1..k
        <4>1. j = 1 \/ j \in 2..k
          BY <1>1
        <4> QED
          BY <2>1, <2>2, <4>1
      <3> QED
        BY <1>4, <2>2, <3>1
    <2>3. CASE W(1)
      <3>1. 1 \in 1..k /\ 1 + 1 = 2
        BY <1>1
      <3> QED
        BY <1>4, <2>1, <2>3, <3>1
    <2> QED
      BY <1>5, <2>2, <2>3 DEF W, U
  <1>6. ASSUME NEW i \in 1..(k - 1), WatchAt(ry, i, v, t), \A j \in (i + 1)..(k - 1) : ~UnwatchAt(ry, j, t)
        PROVE  Open(rx, subs, v, t, k + 1)
    <2>1. i + 1 \in 1..k /\ W(i + 1)
      BY <1>1, <1>3, <1>6
    <2>2. \A j \in ((i + 1) + 1)..k : ~U(j)
      <3> TAKE j \in ((i + 1) + 1)..k
      <3>1. j - 1 \in (i + 1)..(k - 1) /\ j - 1 \in 1..(k - 1) /\ (j - 1) + 1 = j
        BY <1>1
      <3> QED
        BY <1>3, <1>6, <3>1
    <2> QED
      BY <1>4, <2>1, <2>2
  <1> QED
    BY <1>5, <1>6 DEF Open, ry

\* One more request at the end.
OpensAfter(rx, ry, e, subs, v, t) ==
    Open(ry, subs, v, t, Len(ry) + 1) <=>
        \/ e.type = "WatchSession" /\ e.viewer = v /\ e.session = t
        \/ (Open(rx, subs, v, t, Len(rx) + 1) /\ ~(e.type = "UnwatchSession" /\ e.session = t))

LEMMA OpenAppended ==
    ASSUME NEW rx \in Seq(ClientMessage), NEW e \in ClientMessage, NEW ry, ry = Append(rx, e), NEW subs, NEW v, NEW t
    PROVE  /\ \A k \in 1..(Len(rx) + 1) : Open(ry, subs, v, t, k) <=> Open(rx, subs, v, t, k)
           /\ OpensAfter(rx, ry, e, subs, v, t)
           /\ ry \in Seq(ClientMessage) /\ Len(rx) \in Nat /\ Len(ry) = Len(rx) + 1
           /\ ry[Len(rx) + 1] = e /\ \A i \in 1..Len(rx) : ry[i] = rx[i]
  <1>1. /\ ry \in Seq(ClientMessage) /\ Len(rx) \in Nat /\ Len(ry) = Len(rx) + 1
        /\ ry[Len(rx) + 1] = e /\ \A i \in 1..Len(rx) : ry[i] = rx[i]
    BY AppendProperties, LenProperties
  <1>2. ASSUME NEW k \in 1..(Len(rx) + 1)
        PROVE  Open(ry, subs, v, t, k) <=> Open(rx, subs, v, t, k)
    <2>1. k \in Nat /\ \A i \in 1..(k - 1) : i \in 1..Len(rx)
      BY <1>1
    <2>2. \A i \in 1..(k - 1) : rx[i] = ry[i]
      BY <1>1, <2>1
    <2> QED
      BY <2>1, <2>2, OpenPrefix
  <1>3. Len(rx) + 1 \in Nat \ {0} /\ Len(rx) + 1 \in 1..(Len(rx) + 1)
    BY <1>1
  <1>4. Open(ry, subs, v, t, (Len(rx) + 1) + 1) <=>
           WatchAt(ry, Len(rx) + 1, v, t) \/ (Open(ry, subs, v, t, Len(rx) + 1) /\ ~UnwatchAt(ry, Len(rx) + 1, t))
    BY <1>3, OpenNext
  <1>5. Open(ry, subs, v, t, Len(ry) + 1) <=>
                 \/ e.type = "WatchSession" /\ e.viewer = v /\ e.session = t
                 \/ (Open(rx, subs, v, t, Len(rx) + 1) /\ ~(e.type = "UnwatchSession" /\ e.session = t))
    BY <1>1, <1>2, <1>3, <1>4 DEF WatchAt, UnwatchAt
  <1>6. OpensAfter(rx, ry, e, subs, v, t)
    BY <1>5 DEF OpensAfter
  <1> QED
    BY <1>1, <1>2, <1>6

\* No watch of `v` is open where its next request to watch is handled.
AloneIn(rx, subs, v) ==
    \A k \in 1..Len(rx) : \A s, t \in Sessions : WatchAt(rx, k, v, s) => ~Open(rx, subs, v, t, k)

\* `v` is sent messages of session `t`, or will be when its request is handled.
FollowsIn(rx, subs, v, t) == v \in subs[t] \/ \E i \in 1..Len(rx) : WatchAt(rx, i, v, t)

FetchesIn(rx, v) == \E k \in 1..Len(rx) : FetchAt(rx, k, v)

\* A request for the history of `v` is its last one, and if `alone` no watch
\* of `v` is open where it is handled.
FetchIn(rx, subs, v, alone) ==
    \A k \in 1..Len(rx) : FetchAt(rx, k, v) =>
        /\ \A i \in (k + 1)..Len(rx) : ~FetchAt(rx, i, v)
        /\ \A i \in (k + 1)..Len(rx) : \A t \in Sessions : ~WatchAt(rx, i, v, t)
        /\ alone => \A t \in Sessions : ~Open(rx, subs, v, t, k)

IsWatch(e, v, t) == e.type = "WatchSession" /\ e.viewer = v /\ e.session = t
IsFetch(e, v) == e.type = "GetMessages" /\ e.viewer = v

\* A request at the end of the queue.
LEMMA AppendedRequest ==
    ASSUME NEW rx \in Seq(ClientMessage), NEW e \in ClientMessage, NEW ry, ry = Append(rx, e),
           NEW subs, NEW v
    PROVE  /\ AloneIn(rx, subs, v)
                /\ (\A s, t \in Sessions : IsWatch(e, v, s) => ~Open(rx, subs, v, t, Len(rx) + 1))
              => AloneIn(ry, subs, v)
           /\ \A t \in Sessions : FollowsIn(ry, subs, v, t) <=> FollowsIn(rx, subs, v, t) \/ IsWatch(e, v, t)
           /\ FetchesIn(ry, v) <=> FetchesIn(rx, v) \/ IsFetch(e, v)
           /\ \A alone \in BOOLEAN :
                 /\ FetchIn(rx, subs, v, alone) /\ ~IsFetch(e, v) /\ (\A t \in Sessions : ~IsWatch(e, v, t))
                      => FetchIn(ry, subs, v, alone)
                 /\ ~FetchesIn(rx, v) /\ (alone => \A t \in Sessions : ~Open(rx, subs, v, t, Len(rx) + 1))
                      => FetchIn(ry, subs, v, alone)
           /\ \A t \in Sessions : Open(ry, subs, v, t, Len(ry) + 1) <=>
                 \/ IsWatch(e, v, t)
                 \/ (Open(rx, subs, v, t, Len(rx) + 1) /\ ~(e.type = "UnwatchSession" /\ e.session = t))
           /\ ry \in Seq(ClientMessage)
  <1> DEFINE n == Len(rx)
  <1>1. /\ ry \in Seq(ClientMessage) /\ n \in Nat /\ Len(ry) = n + 1
        /\ ry[n + 1] = e /\ \A i \in 1..n : ry[i] = rx[i]
    BY OpenAppended
  <1>2. \A t : \A k \in 1..(n + 1) : Open(ry, subs, v, t, k) <=> Open(rx, subs, v, t, k)
    BY OpenAppended
  <1>3. \A t : Open(ry, subs, v, t, Len(ry) + 1) <=>
                 \/ IsWatch(e, v, t)
                 \/ (Open(rx, subs, v, t, n + 1) /\ ~(e.type = "UnwatchSession" /\ e.session = t))
    <2>1. \A t : OpensAfter(rx, ry, e, subs, v, t)
      BY OpenAppended
    <2> QED
      BY <2>1 DEF OpensAfter, IsWatch
  <1> HIDE DEF n
  <1>4. 1..(n + 1) = 1..n \cup {n + 1} /\ n + 1 \notin 1..n /\ (n + 2)..(n + 1) = {}
        /\ \A k \in 1..n : (k + 1)..(n + 1) = (k + 1)..n \cup {n + 1} /\ (k + 1)..n \subseteq 1..n
    BY <1>1
  <1>5. /\ \A k \in 1..n : /\ FetchAt(ry, k, v) <=> FetchAt(rx, k, v)
                           /\ \A t \in Sessions : WatchAt(ry, k, v, t) <=> WatchAt(rx, k, v, t)
        /\ FetchAt(ry, n + 1, v) <=> IsFetch(e, v)
        /\ \A t \in Sessions : WatchAt(ry, n + 1, v, t) <=> IsWatch(e, v, t)
    BY <1>1 DEF FetchAt, WatchAt, IsFetch, IsWatch
  <1>6. ASSUME AloneIn(rx, subs, v), \A s, t \in Sessions : IsWatch(e, v, s) => ~Open(rx, subs, v, t, n + 1)
        PROVE  AloneIn(ry, subs, v)
    <2> SUFFICES ASSUME NEW k \in 1..(n + 1), NEW s \in Sessions, NEW t \in Sessions, WatchAt(ry, k, v, s)
                 PROVE  ~Open(ry, subs, v, t, k)
      BY <1>1 DEF AloneIn
    <2>1. CASE k \in 1..n
      BY <1>2, <1>5, <1>6, <2>1 DEF AloneIn, n
    <2>2. CASE k = n + 1
      BY <1>2, <1>5, <1>6, <2>2
    <2> QED
      BY <1>4, <2>1, <2>2
  <1>7. \A t \in Sessions : FollowsIn(ry, subs, v, t) <=> FollowsIn(rx, subs, v, t) \/ IsWatch(e, v, t)
    BY <1>1, <1>4, <1>5, Zenon DEF FollowsIn, n
  <1>8. FetchesIn(ry, v) <=> FetchesIn(rx, v) \/ IsFetch(e, v)
    BY <1>1, <1>4, <1>5, Zenon DEF FetchesIn, n
  <1>9. ASSUME NEW alone \in BOOLEAN, FetchIn(rx, subs, v, alone), ~IsFetch(e, v),
               \A t \in Sessions : ~IsWatch(e, v, t)
        PROVE  FetchIn(ry, subs, v, alone)
    <2> SUFFICES ASSUME NEW k \in 1..(n + 1), FetchAt(ry, k, v)
                 PROVE  /\ \A i \in (k + 1)..(n + 1) : ~FetchAt(ry, i, v)
                        /\ \A i \in (k + 1)..(n + 1) : \A t \in Sessions : ~WatchAt(ry, i, v, t)
                        /\ alone => \A t \in Sessions : ~Open(ry, subs, v, t, k)
      BY <1>1, Zenon DEF FetchIn
    <2>1. k \in 1..n /\ FetchAt(rx, k, v)
      BY <1>4, <1>5, <1>9
    <2>2. /\ \A i \in (k + 1)..n : ~FetchAt(rx, i, v)
          /\ \A i \in (k + 1)..n : \A t \in Sessions : ~WatchAt(rx, i, v, t)
          /\ alone => \A t \in Sessions : ~Open(rx, subs, v, t, k)
      BY <1>9, <2>1, Zenon DEF FetchIn, n
    <2>3. \A i \in (k + 1)..(n + 1) : (i \in (k + 1)..n /\ i \in 1..n) \/ i = n + 1
      BY <1>4, <2>1
    <2>4. alone => \A t \in Sessions : ~Open(ry, subs, v, t, k)
      BY <1>2, <2>2, Zenon
    <2>5. \A i \in (k + 1)..(n + 1) : ~FetchAt(ry, i, v)
      BY <1>5, <1>9, <2>2, <2>3, Zenon
    <2>6. \A i \in (k + 1)..(n + 1) : \A t \in Sessions : ~WatchAt(ry, i, v, t)
      BY <1>5, <1>9, <2>2, <2>3, Zenon
    <2> QED
      BY <2>4, <2>5, <2>6
  <1>10. ASSUME NEW alone \in BOOLEAN, ~FetchesIn(rx, v),
                alone => \A t \in Sessions : ~Open(rx, subs, v, t, n + 1)
         PROVE  FetchIn(ry, subs, v, alone)
    <2> SUFFICES ASSUME NEW k \in 1..(n + 1), FetchAt(ry, k, v)
                 PROVE  /\ \A i \in (k + 1)..(n + 1) : ~FetchAt(ry, i, v)
                        /\ \A i \in (k + 1)..(n + 1) : \A t \in Sessions : ~WatchAt(ry, i, v, t)
                        /\ alone => \A t \in Sessions : ~Open(ry, subs, v, t, k)
      BY <1>1, Zenon DEF FetchIn
    <2>1. k = n + 1
      BY <1>4, <1>5, <1>10, Zenon DEF FetchesIn, n
    <2>2. (k + 1)..(n + 1) = {}
      BY <1>1, <2>1
    <2>3. alone => \A t \in Sessions : ~Open(ry, subs, v, t, k)
      BY <1>2, <1>10, <2>1, Zenon
    <2> QED
      BY <2>2, <2>3
  <1> QED
    BY <1>1, <1>3, <1>6, <1>7, <1>8, <1>9, <1>10, Zenon DEF n

\* Handling the first request of `rx` makes `v` a subscriber only of what it asks.
Serves(rx, subs, next, v) ==
    \A t \in Sessions : v \in next[t] => (v \in subs[t] /\ ~UnwatchAt(rx, 1, t)) \/ WatchAt(rx, 1, v, t)

\* The main loop has handled the first request.
LEMMA HandledRequest ==
    ASSUME NEW rx \in Seq(ClientMessage), rx # <<>>, NEW ry, ry = Tail(rx), NEW subs, NEW next, NEW v,
           Serves(rx, subs, next, v)
    PROVE  /\ AloneIn(rx, subs, v) => AloneIn(ry, next, v)
           /\ \A t \in Sessions : FollowsIn(ry, next, v, t) => FollowsIn(rx, subs, v, t)
           /\ FetchesIn(ry, v) => FetchesIn(rx, v)
           /\ \A alone \in BOOLEAN : FetchIn(rx, subs, v, alone) =>
                 /\ FetchIn(ry, next, v, alone)
                 /\ FetchAt(rx, 1, v) =>
                      ~FetchesIn(ry, v) /\ (alone => \A t \in Sessions : ~FollowsIn(ry, subs, v, t))
           /\ \A t \in Sessions : Open(ry, next, v, t, Len(ry) + 1) => Open(rx, subs, v, t, Len(rx) + 1)
           /\ 1 \in 1..Len(rx) /\ Head(rx) = rx[1]
  <1> DEFINE n == Len(ry)
  <1>1. /\ n \in Nat /\ Len(rx) = n + 1 /\ Head(rx) = rx[1]
        /\ \A i \in 1..n : ry[i] = rx[i + 1]
        /\ \A i \in 1..n : i + 1 \in 1..(n + 1) /\ i \in 1..(n + 1)
        /\ 1 \in 1..(n + 1) /\ n + 1 \in 1..(n + 1)
    <2>1. Len(rx) \in Nat \ {0} /\ Len(ry) = Len(rx) - 1
      BY TailFacts
    <2>2. \A i \in 1..(Len(rx) - 1) : ry[i] = rx[i + 1]
      BY TailFacts
    <2>3. Head(rx) = rx[1]
      BY TailFacts
    <2> QED
      BY <2>1, <2>2, <2>3
  <1>2. \A t \in Sessions : \A k \in 1..(n + 1) : Open(ry, next, v, t, k) => Open(rx, subs, v, t, k + 1)
    BY <1>1, OpenTail DEF Serves
  <1> HIDE DEF n
  <1>3. /\ \A i \in 1..n : FetchAt(ry, i, v) <=> FetchAt(rx, i + 1, v)
        /\ \A i \in 1..n : \A t \in Sessions : WatchAt(ry, i, v, t) <=> WatchAt(rx, i + 1, v, t)
    BY <1>1 DEF FetchAt, WatchAt
  <1>4. AloneIn(rx, subs, v) => AloneIn(ry, next, v)
    BY <1>1, <1>2, <1>3, Zenon DEF AloneIn, n
  <1>5. \A t \in Sessions : FollowsIn(ry, next, v, t) => FollowsIn(rx, subs, v, t)
    <2> TAKE t \in Sessions
    <2>1. CASE v \in next[t]
      <3>1. v \in subs[t] \/ WatchAt(rx, 1, v, t)
        BY <2>1 DEF Serves
      <3> QED
        BY <1>1, <3>1, Zenon DEF FollowsIn
    <2>2. ASSUME NEW i \in 1..n, WatchAt(ry, i, v, t) PROVE FollowsIn(rx, subs, v, t)
      BY <1>1, <1>3, <2>2, Zenon DEF FollowsIn
    <2> QED
      BY <2>1, <2>2, Zenon DEF FollowsIn, n
  <1>6. FetchesIn(ry, v) => FetchesIn(rx, v)
    BY <1>1, <1>3, Zenon DEF FetchesIn, n
  <1>7. ASSUME NEW alone \in BOOLEAN, FetchIn(rx, subs, v, alone)
        PROVE  FetchIn(ry, next, v, alone)
    <2> SUFFICES ASSUME NEW k \in 1..n, FetchAt(ry, k, v)
                 PROVE  /\ \A i \in (k + 1)..n : ~FetchAt(ry, i, v)
                        /\ \A i \in (k + 1)..n : \A t \in Sessions : ~WatchAt(ry, i, v, t)
                        /\ alone => \A t \in Sessions : ~Open(ry, next, v, t, k)
      BY Zenon DEF FetchIn, n
    <2>1. k + 1 \in 1..(n + 1) /\ k \in 1..(n + 1) /\ FetchAt(rx, k + 1, v)
      BY <1>1, <1>3
    <2>2. /\ \A i \in ((k + 1) + 1)..(n + 1) : ~FetchAt(rx, i, v)
          /\ \A i \in ((k + 1) + 1)..(n + 1) : \A t \in Sessions : ~WatchAt(rx, i, v, t)
          /\ alone => \A t \in Sessions : ~Open(rx, subs, v, t, k + 1)
      BY <1>1, <1>7, <2>1, Zenon DEF FetchIn
    <2>3. \A i \in (k + 1)..n : i \in 1..n /\ i + 1 \in ((k + 1) + 1)..(n + 1)
      BY <1>1
    <2>4. \A i \in (k + 1)..n : ~FetchAt(ry, i, v)
      BY <1>3, <2>2, <2>3, Zenon
    <2>5. \A i \in (k + 1)..n : \A t \in Sessions : ~WatchAt(ry, i, v, t)
      BY <1>3, <2>2, <2>3, Zenon
    <2>6. alone => \A t \in Sessions : ~Open(ry, next, v, t, k)
      BY <1>2, <2>1, <2>2, Zenon
    <2> QED
      BY <2>4, <2>5, <2>6
  <1>8. ASSUME NEW alone \in BOOLEAN, FetchIn(rx, subs, v, alone), FetchAt(rx, 1, v)
        PROVE  ~FetchesIn(ry, v) /\ (alone => \A t \in Sessions : ~FollowsIn(ry, subs, v, t))
    <2>1. /\ \A i \in (1 + 1)..(n + 1) : ~FetchAt(rx, i, v)
          /\ \A i \in (1 + 1)..(n + 1) : \A t \in Sessions : ~WatchAt(rx, i, v, t)
          /\ alone => \A t \in Sessions : ~Open(rx, subs, v, t, 1)
      BY <1>1, <1>8, Zenon DEF FetchIn
    <2>2. \A i \in 1..n : i + 1 \in (1 + 1)..(n + 1)
      BY <1>1
    <2>3. ~FetchesIn(ry, v)
      BY <1>3, <2>1, <2>2, Zenon DEF FetchesIn, n
    <2>4. alone => \A t \in Sessions : ~FollowsIn(ry, subs, v, t)
      BY <1>3, <2>1, <2>2, OpenFirst, Zenon DEF FollowsIn, n
    <2> QED
      BY <2>3, <2>4
  <1>9. \A t \in Sessions : Open(ry, next, v, t, Len(ry) + 1) => Open(rx, subs, v, t, Len(rx) + 1)
    BY <1>1, <1>2 DEF n
  <1> QED
    BY <1>1, <1>4, <1>5, <1>6, <1>7, <1>8, <1>9, Zenon

\* A viewer that is dropped follows less.
LEMMA FewerRequests ==
    ASSUME NEW rx \in Seq(ClientMessage), NEW subs, NEW fewer, NEW v,
           \A t \in Sessions : v \in fewer[t] => v \in subs[t]
    PROVE  /\ AloneIn(rx, subs, v) => AloneIn(rx, fewer, v)
           /\ \A t \in Sessions : FollowsIn(rx, fewer, v, t) => FollowsIn(rx, subs, v, t)
           /\ \A alone \in BOOLEAN : FetchIn(rx, subs, v, alone) => FetchIn(rx, fewer, v, alone)
           /\ \A t \in Sessions : Open(rx, fewer, v, t, Len(rx) + 1) => Open(rx, subs, v, t, Len(rx) + 1)
  <1>1. Len(rx) + 1 \in Nat /\ \A k \in 1..Len(rx) : k \in Nat
    BY LenProperties
  <1>2. \A t \in Sessions : \A k \in Nat : Open(rx, fewer, v, t, k) => Open(rx, subs, v, t, k)
    BY OpenFewer
  <1>3. \A t \in Sessions : FollowsIn(rx, fewer, v, t) => FollowsIn(rx, subs, v, t)
    BY DEF FollowsIn
  <1>4. AloneIn(rx, subs, v) => AloneIn(rx, fewer, v)
    BY <1>1, <1>2, Zenon DEF AloneIn
  <1>5. \A alone \in BOOLEAN : FetchIn(rx, subs, v, alone) => FetchIn(rx, fewer, v, alone)
    BY <1>1, <1>2, Zenon DEF FetchIn
  <1> QED
    BY <1>1, <1>2, <1>3, <1>4, <1>5

------------------------------------------------------------------------------
(* Who follows what: the inductive invariant                               *)

\* The state `w` of the task of viewer `v`.
TaskInv(v, w) ==
    /\ v \in Sockets =>
          /\ w.task \in {"new", "watching", "hungup", "ended"}
          /\ w.task = "new" <=> w.session = None
    /\ v \in Pages =>
          /\ w.task \in {"idle", "unwatched", "fetching", "fetched", "watching", "closed"}
          /\ w.task \in {"unwatched", "fetching", "fetched"} =>
                w.session # None /\ (w.watched # None => w.ended)
          /\ w.task = "idle" => w.session = None /\ w.watched = None
          /\ w.task = "watching" =>
                w.watched # None /\ (w.session # w.watched => w.session = None /\ w.ended)

\* The session whose watch outlives the requests under way.
KeptWatch(v, w) == IF v \in Pages THEN w.watched ELSE w.session

RequestsInv(rx, subs, v, w) ==
    /\ AloneIn(rx, subs, v)
    /\ \A t \in Sessions : Open(rx, subs, v, t, Len(rx) + 1) => t = KeptWatch(v, w)
    /\ FetchesIn(rx, v) => v \in Pages /\ w.task = "fetching"
    /\ FetchIn(rx, subs, v, ~w.ended)
    /\ v \in Pages /\ ~w.ended /\ w.task = "fetched" => \A t \in Sessions : ~FollowsIn(rx, subs, v, t)
    /\ v \in Pages /\ ~w.ended /\ w.task = "watching" =>
          \A t \in Sessions : FollowsIn(rx, subs, v, t) => t = w.session

OneInv(subs, v) == \A s, t \in Sessions : v \in subs[s] /\ v \in subs[t] => s = t

ViewerInv(v) ==
    /\ TaskInv(v, viewer[v])
    /\ RequestsInv(client_rx, message_subscribers, v, viewer[v])
    /\ OneInv(message_subscribers, v)

WatchInv == \A v \in Viewers : ViewerInv(v)

LEMMA WatchInitially == Init => WatchInv
  <1> SUFFICES ASSUME Init, NEW v \in Viewers
               PROVE  /\ TaskInv(v, viewer[v])
                      /\ RequestsInv(client_rx, message_subscribers, v, viewer[v])
                      /\ OneInv(message_subscribers, v)
    BY DEF WatchInv, ViewerInv
  <1>1. viewer[v] = [task |-> IF v \in Pages THEN "idle" ELSE "new", session |-> None, watched |-> None,
                     ended |-> FALSE, shows |-> {}]
    BY DEF Init
  <1>2. client_rx = <<>> /\ Len(client_rx) = 0 /\ 1..Len(client_rx) = {} /\ Len(client_rx) + 1 = 1
    BY DEF Init
  <1>3. \A s \in Sessions : v \notin message_subscribers[s]
    BY DEF Init
  <1>4. TaskInv(v, viewer[v])
    BY <1>1, ViewerTypes DEF TaskInv, Viewers
  <1>5. \A t \in Sessions : ~Open(client_rx, message_subscribers, v, t, Len(client_rx) + 1)
    BY <1>2, <1>3, OpenFirst
  <1>6. ~FetchesIn(client_rx, v) /\ \A t \in Sessions : ~FollowsIn(client_rx, message_subscribers, v, t)
    BY <1>2, <1>3 DEF FetchesIn, FollowsIn
  <1>7. AloneIn(client_rx, message_subscribers, v) /\ FetchIn(client_rx, message_subscribers, v, ~viewer[v].ended)
    BY <1>2 DEF AloneIn, FetchIn
  <1> QED
    BY <1>3, <1>4, <1>5, <1>6, <1>7 DEF RequestsInv, OneInv

\* A request of another viewer only ends watches.
LEMMA OthersRequest ==
    ASSUME NEW rx \in Seq(ClientMessage), NEW e \in ClientMessage, NEW subs, NEW v, NEW w,
           e.viewer # v, RequestsInv(rx, subs, v, w), w.ended \in BOOLEAN
    PROVE  Append(rx, e) \in Seq(ClientMessage) /\ RequestsInv(Append(rx, e), subs, v, w)
  <1> DEFINE ry == Append(rx, e)
  <1>1. ~IsFetch(e, v) /\ \A t \in Sessions : ~IsWatch(e, v, t)
    BY DEF IsFetch, IsWatch
  <1>2. ry = Append(rx, e) /\ (~w.ended) \in BOOLEAN
    OBVIOUS
  <1> HIDE DEF ry
  <1>3. /\ AloneIn(rx, subs, v)
                /\ (\A s, t \in Sessions : IsWatch(e, v, s) => ~Open(rx, subs, v, t, Len(rx) + 1))
              => AloneIn(ry, subs, v)
        /\ \A t \in Sessions : FollowsIn(ry, subs, v, t) <=> FollowsIn(rx, subs, v, t) \/ IsWatch(e, v, t)
        /\ FetchesIn(ry, v) <=> FetchesIn(rx, v) \/ IsFetch(e, v)
        /\ FetchIn(rx, subs, v, ~w.ended) /\ ~IsFetch(e, v) /\ (\A t \in Sessions : ~IsWatch(e, v, t))
              => FetchIn(ry, subs, v, ~w.ended)
        /\ \A t \in Sessions : Open(ry, subs, v, t, Len(ry) + 1) <=>
              \/ IsWatch(e, v, t)
              \/ (Open(rx, subs, v, t, Len(rx) + 1) /\ ~(e.type = "UnwatchSession" /\ e.session = t))
        /\ ry \in Seq(ClientMessage)
    BY <1>2, AppendedRequest
  <1>4. RequestsInv(ry, subs, v, w)
    BY <1>1, <1>3, Zenon DEF RequestsInv
  <1> QED
    BY <1>3, <1>4 DEF ry

\* The main loop handles a request: what each viewer follows is as the
\* requests said.
LEMMA Handled ==
    ASSUME NEW rx \in Seq(ClientMessage), rx # <<>>, NEW subs, NEW next, NEW v, NEW w, w.ended \in BOOLEAN,
           Serves(rx, subs, next, v),
           RequestsInv(rx, subs, v, w), OneInv(subs, v)
    PROVE  /\ ~FetchAt(rx, 1, v) => RequestsInv(Tail(rx), next, v, w)
           /\ FetchAt(rx, 1, v) /\ next = subs =>
                 \A x : (x.task = "fetched" /\ x.ended = w.ended /\ KeptWatch(v, x) = KeptWatch(v, w)) =>
                           v \in Pages /\ w.task = "fetching" /\ RequestsInv(Tail(rx), next, v, x)
           /\ OneInv(next, v)
           /\ 1 \in 1..Len(rx) /\ Head(rx) = rx[1]
  <1> DEFINE ry == Tail(rx)
  <1>1. ry = Tail(rx) /\ (~w.ended) \in BOOLEAN
    OBVIOUS
  <1> HIDE DEF ry
  <1>2. /\ AloneIn(rx, subs, v) => AloneIn(ry, next, v)
        /\ \A t \in Sessions : FollowsIn(ry, next, v, t) => FollowsIn(rx, subs, v, t)
        /\ FetchesIn(ry, v) => FetchesIn(rx, v)
        /\ FetchIn(rx, subs, v, ~w.ended) => FetchIn(ry, next, v, ~w.ended)
        /\ FetchIn(rx, subs, v, ~w.ended) /\ FetchAt(rx, 1, v) =>
              ~FetchesIn(ry, v) /\ (~w.ended => \A t \in Sessions : ~FollowsIn(ry, subs, v, t))
        /\ \A t \in Sessions : Open(ry, next, v, t, Len(ry) + 1) => Open(rx, subs, v, t, Len(rx) + 1)
        /\ 1 \in 1..Len(rx) /\ Head(rx) = rx[1]
    <2>1. AloneIn(rx, subs, v) => AloneIn(ry, next, v)
      BY <1>1, HandledRequest, Zenon
    <2>2. \A t \in Sessions : FollowsIn(ry, next, v, t) => FollowsIn(rx, subs, v, t)
      BY <1>1, HandledRequest, Zenon
    <2>3. FetchesIn(ry, v) => FetchesIn(rx, v)
      BY <1>1, HandledRequest, Zenon
    <2>4. FetchIn(rx, subs, v, ~w.ended) => FetchIn(ry, next, v, ~w.ended)
      BY <1>1, HandledRequest, Zenon
    <2>5. FetchIn(rx, subs, v, ~w.ended) /\ FetchAt(rx, 1, v) =>
              ~FetchesIn(ry, v) /\ (~w.ended => \A t \in Sessions : ~FollowsIn(ry, subs, v, t))
      BY <1>1, HandledRequest, Zenon
    <2>6. \A t \in Sessions : Open(ry, next, v, t, Len(ry) + 1) => Open(rx, subs, v, t, Len(rx) + 1)
      BY <1>1, HandledRequest, Zenon
    <2>7. 1 \in 1..Len(rx) /\ Head(rx) = rx[1]
      BY <1>1, HandledRequest, Zenon
    <2> QED
      BY <2>1, <2>2, <2>3, <2>4, <2>5, <2>6, <2>7
  <1>3. ~FetchAt(rx, 1, v) => RequestsInv(ry, next, v, w)
    BY <1>2, Zenon DEF RequestsInv
  <1>4. ASSUME FetchAt(rx, 1, v), next = subs, NEW x, x.task = "fetched", x.ended = w.ended,
               KeptWatch(v, x) = KeptWatch(v, w)
        PROVE  v \in Pages /\ w.task = "fetching" /\ RequestsInv(ry, next, v, x)
    <2>1. v \in Pages /\ w.task = "fetching"
      BY <1>2, <1>4 DEF FetchesIn, RequestsInv
    <2>2. /\ AloneIn(ry, next, v) /\ FetchIn(ry, next, v, ~x.ended) /\ ~FetchesIn(ry, v)
          /\ ~x.ended => \A t \in Sessions : ~FollowsIn(ry, next, v, t)
      BY <1>2, <1>4 DEF RequestsInv
    <2>3. \A t \in Sessions : Open(ry, next, v, t, Len(ry) + 1) => t = KeptWatch(v, x)
      BY <1>2, <1>4 DEF RequestsInv
    <2> QED
      BY <1>4, <2>1, <2>2, <2>3 DEF RequestsInv
  <1>5. OneInv(next, v)
    <2>1. CASE \E t \in Sessions : WatchAt(rx, 1, v, t)
      <3>1. PICK s \in Sessions : WatchAt(rx, 1, v, s)
        BY <2>1
      <3>2. \A t \in Sessions : ~Open(rx, subs, v, t, 1)
        BY <1>2, <3>1 DEF RequestsInv, AloneIn
      <3>3. \A t \in Sessions : v \notin subs[t]
        BY <3>2, OpenFirst
      <3>4. \A t \in Sessions : v \in next[t] => WatchAt(rx, 1, v, t)
        BY <3>3 DEF Serves
      <3> QED
        BY <3>4 DEF OneInv, WatchAt
    <2>2. CASE ~\E t \in Sessions : WatchAt(rx, 1, v, t)
      BY <2>2 DEF OneInv, Serves
    <2> QED
      BY <2>1, <2>2
  <1> QED
    BY <1>2, <1>3, <1>4, <1>5 DEF ry

\* A viewer's own request, by type.
LEMMA OwnRequest ==
    ASSUME NEW rx \in Seq(ClientMessage), NEW e \in ClientMessage, NEW subs, NEW v, e.viewer = v,
           NEW w, RequestsInv(rx, subs, v, w), ~FetchesIn(rx, v)
    PROVE  /\ Append(rx, e) \in Seq(ClientMessage)
           /\ \A t \in Sessions : FollowsIn(Append(rx, e), subs, v, t)
                <=> FollowsIn(rx, subs, v, t) \/ (e.type = "WatchSession" /\ t = e.session)
           /\ FetchesIn(Append(rx, e), v) <=> e.type = "GetMessages"
           /\ \A t \in Sessions : Open(Append(rx, e), subs, v, t, Len(Append(rx, e)) + 1) <=>
                 \/ e.type = "WatchSession" /\ t = e.session
                 \/ (Open(rx, subs, v, t, Len(rx) + 1) /\ ~(e.type = "UnwatchSession" /\ e.session = t))
           /\ (e.type = "WatchSession" => \A t \in Sessions : ~Open(rx, subs, v, t, Len(rx) + 1))
                => AloneIn(Append(rx, e), subs, v)
           /\ FetchIn(Append(rx, e), subs, v, FALSE)
           /\ (e.type = "GetMessages" => \A t \in Sessions : ~Open(rx, subs, v, t, Len(rx) + 1))
                => FetchIn(Append(rx, e), subs, v, TRUE)
  <1> DEFINE ry == Append(rx, e)
  <1>1. ry = Append(rx, e)
    OBVIOUS
  <1>2. /\ IsFetch(e, v) <=> e.type = "GetMessages"
        /\ \A t \in Sessions : IsWatch(e, v, t) <=> e.type = "WatchSession" /\ t = e.session
    BY DEF IsFetch, IsWatch
  <1> HIDE DEF ry
  <1>3. /\ AloneIn(rx, subs, v)
                /\ (\A s, t \in Sessions : IsWatch(e, v, s) => ~Open(rx, subs, v, t, Len(rx) + 1))
              => AloneIn(ry, subs, v)
        /\ \A t \in Sessions : FollowsIn(ry, subs, v, t) <=> FollowsIn(rx, subs, v, t) \/ IsWatch(e, v, t)
        /\ FetchesIn(ry, v) <=> FetchesIn(rx, v) \/ IsFetch(e, v)
        /\ \A t \in Sessions : Open(ry, subs, v, t, Len(ry) + 1) <=>
              \/ IsWatch(e, v, t)
              \/ (Open(rx, subs, v, t, Len(rx) + 1) /\ ~(e.type = "UnwatchSession" /\ e.session = t))
        /\ ry \in Seq(ClientMessage)
    BY <1>1, AppendedRequest
  <1>4. (\A t \in Sessions : ~Open(rx, subs, v, t, Len(rx) + 1)) => FetchIn(ry, subs, v, TRUE)
    BY <1>1, AppendedRequest
  <1>5. FetchIn(ry, subs, v, FALSE)
    BY <1>1, AppendedRequest
  <1>6. e.type # "GetMessages" => FetchIn(ry, subs, v, TRUE)
    <2> SUFFICES ASSUME e.type # "GetMessages", NEW k \in 1..Len(ry), FetchAt(ry, k, v) PROVE FALSE
      BY Zenon DEF FetchIn
    <2> QED
      BY <1>2, <1>3, Zenon DEF FetchesIn
  <1>7. AloneIn(rx, subs, v)
    BY DEF RequestsInv
  <1>8. (e.type = "WatchSession" => \A t \in Sessions : ~Open(rx, subs, v, t, Len(rx) + 1))
                => AloneIn(ry, subs, v)
    BY <1>2, <1>3, <1>7, Zenon
  <1>9. FetchesIn(ry, v) <=> e.type = "GetMessages"
    BY <1>2, <1>3, Zenon
  <1>10. \A t \in Sessions : FollowsIn(ry, subs, v, t)
                <=> FollowsIn(rx, subs, v, t) \/ (e.type = "WatchSession" /\ t = e.session)
    BY <1>2, <1>3, Zenon
  <1>11. \A t \in Sessions : Open(ry, subs, v, t, Len(ry) + 1) <=>
                 \/ e.type = "WatchSession" /\ t = e.session
                 \/ (Open(rx, subs, v, t, Len(rx) + 1) /\ ~(e.type = "UnwatchSession" /\ e.session = t))
    BY <1>2, <1>3, Zenon
  <1> QED
    BY <1>3, <1>4, <1>5, <1>6, <1>8, <1>9, <1>10, <1>11 DEF ry

\* It asks to drop `s`.
LEMMA SentUnwatch ==
    ASSUME NEW rx \in Seq(ClientMessage), NEW v \in Viewers, NEW s \in Sessions, NEW e,
           e = [type |-> "UnwatchSession", viewer |-> v, session |-> s],
           NEW subs, NEW w, RequestsInv(rx, subs, v, w), ~FetchesIn(rx, v),
           NEW x, x.ended \in BOOLEAN, v \in Pages /\ ~x.ended => x.task \notin {"fetched", "watching"},
           KeptWatch(v, w) = s \/ KeptWatch(v, x) = KeptWatch(v, w)
    PROVE  /\ Append(rx, e) \in Seq(ClientMessage) /\ RequestsInv(Append(rx, e), subs, v, x)
           /\ ~FetchesIn(Append(rx, e), v)
           /\ KeptWatch(v, w) = s =>
                 \A t \in Sessions : ~Open(Append(rx, e), subs, v, t, Len(Append(rx, e)) + 1)
  <1> DEFINE ry == Append(rx, e)
  <1>1. e \in ClientMessage /\ e.viewer = v /\ e.type = "UnwatchSession" /\ e.session = s
    BY DEF ClientMessage
  <1>2. /\ ry \in Seq(ClientMessage) /\ ~FetchesIn(ry, v) /\ AloneIn(ry, subs, v)
        /\ FetchIn(ry, subs, v, TRUE) /\ FetchIn(ry, subs, v, FALSE)
        /\ \A t \in Sessions : Open(ry, subs, v, t, Len(ry) + 1) <=> Open(rx, subs, v, t, Len(rx) + 1) /\ t # s
    <2>1. ry \in Seq(ClientMessage) /\ ~FetchesIn(ry, v) /\ AloneIn(ry, subs, v)
      BY <1>1, OwnRequest
    <2>2. FetchIn(ry, subs, v, TRUE)
      BY <1>1, OwnRequest
    <2>3. FetchIn(ry, subs, v, FALSE)
      BY <1>1, OwnRequest
    <2>4. rx \in Seq(ClientMessage) /\ RequestsInv(rx, subs, v, w) /\ ~FetchesIn(rx, v)
      OBVIOUS
    <2>5. \A t \in Sessions : Open(ry, subs, v, t, Len(ry) + 1) <=>
                 \/ e.type = "WatchSession" /\ t = e.session
                 \/ (Open(rx, subs, v, t, Len(rx) + 1) /\ ~(e.type = "UnwatchSession" /\ e.session = t))
      BY ONLY <1>1, <2>4, OwnRequest, Zenon
    <2> HIDE DEF ry
    <2>6. \A t \in Sessions : Open(ry, subs, v, t, Len(ry) + 1) <=> Open(rx, subs, v, t, Len(rx) + 1) /\ t # s
      BY <1>1, <2>5
    <2> QED
      BY <2>1, <2>2, <2>3, <2>6
  <1> HIDE DEF ry
  <1>3. \A t \in Sessions : Open(rx, subs, v, t, Len(rx) + 1) => t = KeptWatch(v, w)
    BY DEF RequestsInv
  <1>4. KeptWatch(v, w) = s => \A t \in Sessions : ~Open(ry, subs, v, t, Len(ry) + 1)
    BY <1>2, <1>3, Zenon
  <1>5. \A t \in Sessions : Open(ry, subs, v, t, Len(ry) + 1) => t = KeptWatch(v, x)
    BY <1>2, <1>3, <1>4, Zenon
  <1>6. FetchIn(ry, subs, v, ~x.ended)
    <2>1. (~x.ended) = TRUE \/ (~x.ended) = FALSE
      OBVIOUS
    <2> QED
      BY <1>2, <2>1
  <1>7. RequestsInv(ry, subs, v, x)
    BY <1>2, <1>5, <1>6 DEF RequestsInv
  <1> QED
    BY <1>2, <1>4, <1>7 DEF ry

\* A page that was told of the end asks to drop what it watches.
LEMMA SentOldUnwatch ==
    ASSUME NEW rx \in Seq(ClientMessage), NEW v \in Pages, NEW w, w.ended = TRUE, w.watched \in Sessions,
           NEW d, d = [type |-> "UnwatchSession", viewer |-> v, session |-> w.watched],
           NEW subs, RequestsInv(rx, subs, v, w), ~FetchesIn(rx, v), NEW ry, ry = Append(rx, d)
    PROVE  /\ ry \in Seq(ClientMessage) /\ RequestsInv(ry, subs, v, w) /\ ~FetchesIn(ry, v)
           /\ \A t \in Sessions : ~Open(ry, subs, v, t, Len(ry) + 1)
  <1>1. d \in ClientMessage /\ d.viewer = v /\ d.type = "UnwatchSession" /\ d.session = w.watched
    BY DEF ClientMessage, Viewers
  <1>2. rx \in Seq(ClientMessage) /\ RequestsInv(rx, subs, v, w) /\ ~FetchesIn(rx, v)
    OBVIOUS
  <1>3. KeptWatch(v, w) = w.watched
    BY DEF KeptWatch
  <1>4. ry \in Seq(ClientMessage) /\ ~FetchesIn(ry, v) /\ AloneIn(ry, subs, v)
    <2>1. Append(rx, d) \in Seq(ClientMessage)
      BY ONLY <1>1, <1>2, OwnRequest, Zenon
    <2>2. ~FetchesIn(Append(rx, d), v)
      BY ONLY <1>1, <1>2, OwnRequest, Zenon
    <2>3. AloneIn(Append(rx, d), subs, v)
      BY ONLY <1>1, <1>2, OwnRequest, Zenon
    <2> QED
      BY <2>1, <2>2, <2>3
  <1>5. FetchIn(ry, subs, v, ~w.ended)
    BY <1>4, Zenon DEF FetchIn, FetchesIn
  <1>6. \A t \in Sessions : Open(ry, subs, v, t, Len(ry) + 1) => Open(rx, subs, v, t, Len(rx) + 1) /\ t # w.watched
    <2>1. \A t \in Sessions : Open(Append(rx, d), subs, v, t, Len(Append(rx, d)) + 1) <=>
                 \/ d.type = "WatchSession" /\ t = d.session
                 \/ (Open(rx, subs, v, t, Len(rx) + 1) /\ ~(d.type = "UnwatchSession" /\ d.session = t))
      BY ONLY <1>1, <1>2, OwnRequest, Zenon
    <2> QED
      BY <1>1, <2>1
  <1>7. \A t \in Sessions : ~Open(ry, subs, v, t, Len(ry) + 1)
    BY <1>3, <1>6, Zenon DEF RequestsInv
  <1>8. RequestsInv(ry, subs, v, w)
    BY <1>4, <1>5, <1>7, Zenon DEF RequestsInv
  <1> QED
    BY <1>4, <1>7, <1>8

\* It asks to watch `s`.
LEMMA SentWatch ==
    ASSUME NEW rx \in Seq(ClientMessage), NEW v \in Viewers, NEW s \in Sessions, NEW e,
           e = [type |-> "WatchSession", viewer |-> v, session |-> s],
           NEW subs, NEW w, RequestsInv(rx, subs, v, w), ~FetchesIn(rx, v),
           \A t \in Sessions : ~Open(rx, subs, v, t, Len(rx) + 1),
           NEW x, x.ended \in BOOLEAN, x.task = "watching", x.session = s, KeptWatch(v, x) = s,
           v \in Pages /\ ~x.ended => \A t \in Sessions : ~FollowsIn(rx, subs, v, t)
    PROVE  Append(rx, e) \in Seq(ClientMessage) /\ RequestsInv(Append(rx, e), subs, v, x)
  <1> DEFINE ry == Append(rx, e)
  <1>1. e \in ClientMessage /\ e.viewer = v /\ e.type = "WatchSession" /\ e.session = s
    BY DEF ClientMessage
  <1>2. /\ ry \in Seq(ClientMessage) /\ ~FetchesIn(ry, v) /\ AloneIn(ry, subs, v)
        /\ FetchIn(ry, subs, v, TRUE) /\ FetchIn(ry, subs, v, FALSE)
        /\ \A t \in Sessions : Open(ry, subs, v, t, Len(ry) + 1) <=> t = s \/ Open(rx, subs, v, t, Len(rx) + 1)
        /\ \A t \in Sessions : FollowsIn(ry, subs, v, t) <=> FollowsIn(rx, subs, v, t) \/ t = s
    <2>1. rx \in Seq(ClientMessage) /\ RequestsInv(rx, subs, v, w) /\ ~FetchesIn(rx, v)
      OBVIOUS
    <2>2. /\ ry \in Seq(ClientMessage) /\ (FetchesIn(ry, v) <=> e.type = "GetMessages")
          /\ FetchIn(ry, subs, v, FALSE)
      BY ONLY <1>1, <2>1, OwnRequest, Zenon
    <2>3. AloneIn(ry, subs, v)
      BY <1>1, <2>1, OwnRequest, Zenon
    <2>4. FetchIn(ry, subs, v, TRUE)
      BY <1>1, <2>1, OwnRequest
    <2>5. \A t \in Sessions : Open(ry, subs, v, t, Len(ry) + 1) <=>
                 \/ e.type = "WatchSession" /\ t = e.session
                 \/ (Open(rx, subs, v, t, Len(rx) + 1) /\ ~(e.type = "UnwatchSession" /\ e.session = t))
      BY ONLY <1>1, <2>1, OwnRequest, Zenon
    <2>6. \A t \in Sessions : FollowsIn(ry, subs, v, t)
                <=> FollowsIn(rx, subs, v, t) \/ (e.type = "WatchSession" /\ t = e.session)
      BY ONLY <1>1, <2>1, OwnRequest, Zenon
    <2> HIDE DEF ry
    <2> QED
      BY ONLY <1>1, <2>2, <2>3, <2>4, <2>5, <2>6
  <1> HIDE DEF ry
  <1>3. \A t \in Sessions : Open(ry, subs, v, t, Len(ry) + 1) => t = KeptWatch(v, x)
    BY <1>2, Zenon
  <1>4. v \in Pages /\ ~x.ended => \A t \in Sessions : FollowsIn(ry, subs, v, t) => t = x.session
    BY <1>2, Zenon
  <1>5. FetchIn(ry, subs, v, ~x.ended)
    <2>1. (~x.ended) = TRUE \/ (~x.ended) = FALSE
      OBVIOUS
    <2> QED
      BY <1>2, <2>1
  <1>6. RequestsInv(ry, subs, v, x)
    BY <1>2, <1>3, <1>4, <1>5 DEF RequestsInv
  <1> QED
    BY <1>2, <1>6 DEF ry

\* A page asks for the history of `s`.
LEMMA SentFetch ==
    ASSUME NEW rx \in Seq(ClientMessage), NEW v \in Pages, NEW s \in Sessions, NEW e,
           e = [type |-> "GetMessages", viewer |-> v, session |-> s],
           NEW subs, NEW w, RequestsInv(rx, subs, v, w), ~FetchesIn(rx, v),
           NEW x, x.ended \in BOOLEAN, x.task = "fetching", KeptWatch(v, x) = KeptWatch(v, w),
           ~x.ended => \A t \in Sessions : ~Open(rx, subs, v, t, Len(rx) + 1)
    PROVE  Append(rx, e) \in Seq(ClientMessage) /\ RequestsInv(Append(rx, e), subs, v, x)
  <1> DEFINE ry == Append(rx, e)
  <1>1. e \in ClientMessage /\ e.viewer = v /\ e.type = "GetMessages" /\ e.session = s
    BY DEF ClientMessage, Viewers
  <1>2. /\ ry \in Seq(ClientMessage) /\ AloneIn(ry, subs, v) /\ FetchIn(ry, subs, v, FALSE)
        /\ (\A t \in Sessions : ~Open(rx, subs, v, t, Len(rx) + 1)) => FetchIn(ry, subs, v, TRUE)
        /\ \A t \in Sessions : Open(ry, subs, v, t, Len(ry) + 1) => Open(rx, subs, v, t, Len(rx) + 1)
    BY <1>1, OwnRequest
  <1> HIDE DEF ry
  <1>3. \A t \in Sessions : Open(ry, subs, v, t, Len(ry) + 1) => t = KeptWatch(v, x)
    BY <1>2, Zenon DEF RequestsInv
  <1>4. FetchIn(ry, subs, v, ~x.ended)
    <2>1. CASE x.ended = TRUE
      BY <1>2, <2>1
    <2>2. CASE x.ended = FALSE
      BY <1>2, <2>2
    <2> QED
      BY <2>1, <2>2
  <1>5. RequestsInv(ry, subs, v, x)
    BY <1>2, <1>3, <1>4 DEF RequestsInv
  <1> QED
    BY <1>2, <1>5 DEF ry

\* The steps in which a viewer's task changes and at most one request of it
\* is added.
LEMMA OwnStep ==
    ASSUME TypeOK, WatchInv, NEW v \in Viewers, NEW x, viewer' = [viewer EXCEPT ![v] = x],
           message_subscribers' = message_subscribers, TaskInv(v, x),
           RequestsInv(client_rx', message_subscribers, v, x),
           \/ client_rx' = client_rx
           \/ \E e \in ClientMessage : e.viewer = v /\ client_rx' = Append(client_rx, e)
    PROVE  WatchInv'
  <1>1. viewer \in [Viewers -> Viewer] /\ client_rx \in Seq(ClientMessage)
    BY DEF TypeOK
  <1>2. viewer'[v] = x /\ \A u \in Viewers \ {v} : viewer'[u] = viewer[u]
    BY <1>1
  <1>3. ViewerInv(v)'
    <2>1. OneInv(message_subscribers, v)
      BY DEF WatchInv, ViewerInv
    <2> QED
      BY <1>2, <2>1, Zenon DEF ViewerInv
  <1>4. ASSUME NEW u \in Viewers \ {v} PROVE ViewerInv(u)'
    <2>1. /\ TaskInv(u, viewer[u]) /\ OneInv(message_subscribers, u)
          /\ RequestsInv(client_rx, message_subscribers, u, viewer[u])
      BY DEF WatchInv, ViewerInv
    <2>2. viewer[u].ended \in BOOLEAN
      BY <1>1 DEF Viewer
    <2>3. RequestsInv(client_rx', message_subscribers, u, viewer[u])
      <3>1. ASSUME NEW e \in ClientMessage, e.viewer = v, client_rx' = Append(client_rx, e)
            PROVE  RequestsInv(client_rx', message_subscribers, u, viewer[u])
        BY <1>1, <2>1, <2>2, <3>1, OthersRequest
      <3> QED
        BY <2>1, <3>1, Zenon
    <2> QED
      BY <1>2, <2>1, <2>3, Zenon DEF ViewerInv
  <1> QED
    BY <1>3, <1>4, Zenon DEF WatchInv

\* What holds of a viewer before it takes a step.
LEMMA ViewerFacts ==
    ASSUME TypeOK, WatchInv, NEW v \in Viewers
    PROVE  /\ client_rx \in Seq(ClientMessage) /\ viewer[v] \in Viewer /\ viewer[v].ended \in BOOLEAN
           /\ TaskInv(v, viewer[v]) /\ RequestsInv(client_rx, message_subscribers, v, viewer[v])
           /\ viewer[v].task # "fetching" => ~FetchesIn(client_rx, v)
           /\ \A t \in Sessions : Open(client_rx, message_subscribers, v, t, Len(client_rx) + 1)
                 => t = KeptWatch(v, viewer[v])
           /\ v \in Sockets \cup Pages /\ ~(v \in Sockets /\ v \in Pages)
  <1>1. viewer[v] \in Viewer /\ client_rx \in Seq(ClientMessage)
    BY DEF TypeOK
  <1>2. viewer[v].ended \in BOOLEAN
    BY <1>1 DEF Viewer
  <1>3. TaskInv(v, viewer[v]) /\ RequestsInv(client_rx, message_subscribers, v, viewer[v])
    BY DEF WatchInv, ViewerInv
  <1>4. v \in Sockets \cup Pages /\ ~(v \in Sockets /\ v \in Pages)
    BY ViewerTypes DEF Viewers
  <1>5. viewer[v].task # "fetching" => ~FetchesIn(client_rx, v)
    BY <1>3 DEF RequestsInv
  <1>6. \A t \in Sessions : Open(client_rx, message_subscribers, v, t, Len(client_rx) + 1)
                 => t = KeptWatch(v, viewer[v])
    BY <1>3 DEF RequestsInv
  <1> QED
    BY <1>1, <1>2, <1>3, <1>4, <1>5, <1>6

\* A step of a task that sends nothing.
LEMMA SilentRequests ==
    ASSUME NEW rx, NEW subs, NEW v, NEW w, RequestsInv(rx, subs, v, w), w.ended \in BOOLEAN, NEW x, x.ended \in BOOLEAN,
           KeptWatch(v, x) = KeptWatch(v, w),
           \/ x.ended = w.ended /\ x.task = w.task /\ x.session = w.session
           \/ ~FetchesIn(rx, v) /\ (v \in Pages /\ ~x.ended => x.task \notin {"fetched", "watching"})
    PROVE  RequestsInv(rx, subs, v, x)
  <1>1. CASE x.ended = w.ended /\ x.task = w.task /\ x.session = w.session
    BY <1>1 DEF RequestsInv
  <1>2. CASE ~FetchesIn(rx, v) /\ (v \in Pages /\ ~x.ended => x.task \notin {"fetched", "watching"})
    <2>1. FetchIn(rx, subs, v, ~x.ended)
      BY <1>2, Zenon DEF FetchIn, FetchesIn
    <2> QED
      BY <1>2, <2>1 DEF RequestsInv
  <1> QED
    BY <1>1, <1>2

LEMMA WatchSocket ==
    ASSUME TypeOK, WatchInv, NEW v \in Sockets,
           SocketHangsUp(v) \/ SocketTask(v) \/ \E s \in Sessions : SocketWatches(v, s)
    PROVE  WatchInv'
  <1> DEFINE w == viewer[v]
             rx == client_rx
             subs == message_subscribers
  <1>1. v \in Viewers /\ v \notin Pages
    BY ViewerTypes DEF Viewers
  <1>2. /\ rx \in Seq(ClientMessage) /\ w \in Viewer /\ w.ended \in BOOLEAN
        /\ TaskInv(v, w) /\ RequestsInv(rx, subs, v, w) /\ (w.task # "fetching" => ~FetchesIn(rx, v))
        /\ \A t \in Sessions : Open(rx, subs, v, t, Len(rx) + 1) => t = w.session
    BY <1>1, ViewerFacts DEF KeptWatch
  <1>3. subs' = subs
    BY DEF SocketHangsUp, SocketTask, SocketWatches, daemon
  <1>4. CASE SocketHangsUp(v)
    <2> DEFINE x == [w EXCEPT !.task = "hungup"]
    <2>1. x.task = "hungup" /\ x.session = w.session /\ x.ended = w.ended /\ x.watched = w.watched
      BY <1>2 DEF Viewer
    <2>2. w.task = "watching" /\ viewer' = [viewer EXCEPT ![v] = x] /\ rx' = rx
      BY <1>4 DEF SocketHangsUp
    <2> HIDE DEF x
    <2>3. TaskInv(v, x)
      BY <1>1, <1>2, <2>1, <2>2 DEF TaskInv
    <2>4. RequestsInv(rx, subs, v, x)
      BY <1>1, <1>2, <2>1, <2>2, SilentRequests DEF KeptWatch
    <2> QED
      BY <1>1, <1>3, <2>2, <2>3, <2>4, OwnStep
  <1>5. CASE SocketTask(v)
    <2>1. CASE rx' = rx /\ viewer' = [viewer EXCEPT ![v] = [w EXCEPT !.shows = @ \cup {Head(queue[v]).session}]]
      <3> DEFINE x == [w EXCEPT !.shows = @ \cup {Head(queue[v]).session}]
      <3>1. x.task = w.task /\ x.session = w.session /\ x.ended = w.ended /\ x.watched = w.watched
        BY <1>2 DEF Viewer
      <3> HIDE DEF x
      <3>2. TaskInv(v, x)
        BY <1>2, <3>1 DEF TaskInv
      <3>3. RequestsInv(rx, subs, v, x)
        BY <1>1, <1>2, <3>1, SilentRequests DEF KeptWatch
      <3> QED
        BY <1>1, <1>3, <2>1, <3>2, <3>3, OwnStep DEF x
    <2>2. CASE viewer' = [viewer EXCEPT ![v] = [w EXCEPT !.task = "ended"]]
               /\ Send("UnwatchSession", v, w.session)
      <3> DEFINE x == [w EXCEPT !.task = "ended"]
                 e == [type |-> "UnwatchSession", viewer |-> v, session |-> w.session]
      <3>1. x.task = "ended" /\ x.session = w.session /\ x.ended = w.ended /\ x.watched = w.watched
        BY <1>2 DEF Viewer
      <3>2. w.task \in {"watching", "hungup"}
        BY <1>5 DEF SocketTask
      <3>3. w.session \in Sessions
        BY <1>2, <3>2 DEF TaskInv, Viewer
      <3>4. rx' = Append(rx, e) /\ e \in ClientMessage /\ e.viewer = v
        BY <1>1, <2>2, <3>3 DEF Send, ClientMessage
      <3>5. e = [type |-> "UnwatchSession", viewer |-> v, session |-> w.session]
        OBVIOUS
      <3> HIDE DEF x, e
      <3>6. TaskInv(v, x)
        BY <1>1, <1>2, <3>1, <3>2 DEF TaskInv
      <3>7. RequestsInv(rx', subs, v, x)
        BY <1>1, <1>2, <3>1, <3>2, <3>3, <3>4, <3>5, SentUnwatch DEF KeptWatch
      <3> QED
        BY <1>1, <1>3, <2>2, <3>4, <3>6, <3>7, OwnStep DEF x
    <2> QED
      BY <1>5, <2>1, <2>2, Zenon DEF SocketTask
  <1>6. ASSUME NEW s \in Sessions, SocketWatches(v, s) PROVE WatchInv'
    <2> DEFINE x == [w EXCEPT !.task = "watching", !.session = s]
               e == [type |-> "WatchSession", viewer |-> v, session |-> s]
    <2>1. x.task = "watching" /\ x.session = s /\ x.ended = w.ended /\ x.watched = w.watched
      BY <1>2 DEF Viewer
    <2>2. w.task = "new" /\ viewer' = [viewer EXCEPT ![v] = x]
      BY <1>6 DEF SocketWatches
    <2>3. rx' = Append(rx, e) /\ e \in ClientMessage /\ e.viewer = v
      BY <1>1, <1>6 DEF SocketWatches, Send, ClientMessage
    <2>4. e = [type |-> "WatchSession", viewer |-> v, session |-> s]
      OBVIOUS
    <2> HIDE DEF x, e
    <2>5. TaskInv(v, x)
      BY <1>1, <2>1, ViewerTypes DEF TaskInv
    <2>6. w.session = None
      BY <1>2, <2>2 DEF TaskInv
    <2>7. \A t \in Sessions : ~Open(rx, subs, v, t, Len(rx) + 1)
      BY <1>2, <2>6, ViewerTypes
    <2>8. RequestsInv(rx', subs, v, x)
      BY <1>1, <1>2, <2>1, <2>2, <2>3, <2>4, <2>7, SentWatch DEF KeptWatch
    <2> QED
      BY <1>1, <1>3, <2>2, <2>3, <2>5, <2>8, OwnStep
  <1> QED
    BY <1>4, <1>5, <1>6

\* What is known of a page.
LEMMA PageFacts ==
    ASSUME TypeOK, WatchInv, NEW v \in Pages
    PROVE  /\ v \in Viewers /\ v \notin Sockets
           /\ client_rx \in Seq(ClientMessage) /\ viewer[v] \in Viewer /\ viewer[v].ended \in BOOLEAN
           /\ RequestsInv(client_rx, message_subscribers, v, viewer[v])
           /\ viewer[v].task # "fetching" => ~FetchesIn(client_rx, v)
           /\ \A t \in Sessions : Open(client_rx, message_subscribers, v, t, Len(client_rx) + 1)
                 => t = viewer[v].watched
           /\ viewer[v].task \in {"idle", "unwatched", "fetching", "fetched", "watching", "closed"}
           /\ viewer[v].task \in {"unwatched", "fetching", "fetched"} =>
                 viewer[v].session \in Sessions /\ (viewer[v].watched # None => viewer[v].ended)
           /\ viewer[v].task = "idle" => viewer[v].session = None /\ viewer[v].watched = None
           /\ viewer[v].task = "watching" =>
                 /\ viewer[v].watched \in Sessions
                 /\ viewer[v].session # viewer[v].watched => viewer[v].session = None /\ viewer[v].ended
  <1>1. v \in Viewers /\ v \notin Sockets
    BY ViewerTypes DEF Viewers
  <1>2. /\ client_rx \in Seq(ClientMessage) /\ viewer[v] \in Viewer /\ viewer[v].ended \in BOOLEAN
        /\ TaskInv(v, viewer[v]) /\ RequestsInv(client_rx, message_subscribers, v, viewer[v])
        /\ viewer[v].task # "fetching" => ~FetchesIn(client_rx, v)
        /\ \A t \in Sessions : Open(client_rx, message_subscribers, v, t, Len(client_rx) + 1)
                 => t = viewer[v].watched
    BY <1>1, ViewerFacts DEF KeptWatch
  <1>3. viewer[v].session \in Sessions \cup {None} /\ viewer[v].watched \in Sessions \cup {None}
    BY <1>2 DEF Viewer
  <1> QED
    BY <1>1, <1>2, <1>3 DEF TaskInv

LEMMA WatchPageSelects ==
    ASSUME TypeOK, WatchInv, NEW v \in Pages, NEW s \in Sessions, PageSelects(v, s)
    PROVE  WatchInv'
  <1> DEFINE w == viewer[v]
             rx == client_rx
             subs == message_subscribers
             kept == IF w.session = None THEN w.watched ELSE None
             x == [w EXCEPT !.task = "unwatched", !.session = s, !.watched = kept]
  <1>1. /\ v \in Viewers /\ v \notin Sockets /\ rx \in Seq(ClientMessage) /\ w \in Viewer /\ w.ended \in BOOLEAN
        /\ RequestsInv(rx, subs, v, w) /\ (w.task # "fetching" => ~FetchesIn(rx, v))
        /\ w.task = "idle" => w.session = None /\ w.watched = None
        /\ w.task = "watching" =>
              w.watched \in Sessions /\ (w.session # w.watched => w.session = None /\ w.ended)
    BY PageFacts
  <1>2. w.task \in {"idle", "watching"} /\ subs' = subs
    BY DEF PageSelects, daemon
  <1>3. x.task = "unwatched" /\ x.session = s /\ x.ended = w.ended /\ x.watched = kept
    BY <1>1 DEF Viewer
  <1>4. viewer' = [viewer EXCEPT ![v] = x]
    BY Zenon DEF PageSelects
  <1>5. kept # None => w.ended
    BY <1>1, <1>2
  <1> HIDE DEF x
  <1>6. TaskInv(v, x)
    BY <1>1, <1>3, <1>5, ViewerTypes DEF TaskInv
  <1>7. CASE w.session = None
    <2>1. rx' = rx
      BY <1>7 DEF PageSelects
    <2>2. KeptWatch(v, x) = KeptWatch(v, w)
      BY <1>3, <1>7 DEF KeptWatch
    <2>3. RequestsInv(rx, subs, v, x)
      BY <1>1, <1>2, <1>3, <2>2, SilentRequests
    <2> QED
      BY <1>1, <1>2, <1>4, <1>6, <2>1, <2>3, OwnStep
  <1>8. CASE w.session # None
    <2> DEFINE e == [type |-> "UnwatchSession", viewer |-> v, session |-> w.session]
    <2>1. w.session \in Sessions /\ KeptWatch(v, w) = w.session
      BY <1>1, <1>2, <1>8 DEF KeptWatch
    <2>2. rx' = Append(rx, e) /\ e \in ClientMessage /\ e.viewer = v
      BY <1>1, <1>8, <2>1 DEF PageSelects, Send, ClientMessage
    <2>3. e = [type |-> "UnwatchSession", viewer |-> v, session |-> w.session]
      OBVIOUS
    <2> HIDE DEF e
    <2>4. RequestsInv(rx', subs, v, x)
      BY <1>1, <1>2, <1>3, <2>1, <2>2, <2>3, SentUnwatch
    <2> QED
      BY <1>1, <1>2, <1>4, <1>6, <2>2, <2>4, OwnStep
  <1> QED
    BY <1>7, <1>8

LEMMA WatchPageWatches ==
    ASSUME TypeOK, WatchInv, NEW v \in Pages, PageWatches(v)
    PROVE  WatchInv'
  <1> DEFINE w == viewer[v]
             s == w.session
             rx == client_rx
             subs == message_subscribers
             x == [w EXCEPT !.task = "watching", !.watched = s]
             e == [type |-> "WatchSession", viewer |-> v, session |-> s]
             mid == rx \o Unwatches(v)
  <1>1. /\ v \in Viewers /\ v \notin Sockets /\ rx \in Seq(ClientMessage) /\ w \in Viewer /\ w.ended \in BOOLEAN
        /\ RequestsInv(rx, subs, v, w) /\ (w.task # "fetching" => ~FetchesIn(rx, v))
        /\ \A t \in Sessions : Open(rx, subs, v, t, Len(rx) + 1) => t = w.watched
        /\ w.task = "fetched" => w.session \in Sessions /\ (w.watched # None => w.ended)
    BY PageFacts
  <1>2. w.task = "fetched" /\ subs' = subs /\ viewer' = [viewer EXCEPT ![v] = x]
    BY DEF PageWatches, daemon
  <1>3. s \in Sessions /\ (w.watched # None => w.ended)
    BY <1>1, <1>2
  <1>4. x.task = "watching" /\ x.session = s /\ x.ended = w.ended /\ x.watched = s
    BY <1>1 DEF Viewer
  <1>5. rx' = mid \o <<e>>
    BY DEF PageWatches
  <1>6. e = [type |-> "WatchSession", viewer |-> v, session |-> s] /\ e \in ClientMessage /\ e.viewer = v
    BY <1>1, <1>3 DEF ClientMessage
  <1>7. w.watched \in Sessions \cup {None}
    BY <1>1 DEF Viewer
  <1> HIDE DEF x, e
  <1>8. TaskInv(v, x)
    BY <1>1, <1>3, <1>4, ViewerTypes DEF TaskInv
  <1>9. /\ mid \in Seq(ClientMessage) /\ ~FetchesIn(mid, v) /\ RequestsInv(mid, subs, v, w)
        /\ \A t \in Sessions : ~Open(mid, subs, v, t, Len(mid) + 1)
        /\ ~w.ended => mid = rx
        /\ mid = rx \/ \E d \in ClientMessage : d.viewer = v /\ mid = Append(rx, d)
    <2>1. CASE w.watched = None
      <3>1. mid = rx
        BY <1>1, <2>1 DEF Unwatches
      <3> HIDE DEF mid
      <3> QED
        BY <1>1, <1>2, <2>1, <3>1, ViewerTypes
    <2>2. CASE w.watched # None
      <3> DEFINE d == [type |-> "UnwatchSession", viewer |-> v, session |-> w.watched]
      <3>1. w.ended /\ w.watched \in Sessions /\ KeptWatch(v, w) = w.watched
        BY <1>3, <1>7, <2>2 DEF KeptWatch
      <3>2. d \in ClientMessage /\ d.viewer = v
        BY <1>1, <3>1 DEF ClientMessage
      <3>3. mid = Append(rx, d)
        BY <1>1, <2>2, <3>2 DEF Unwatches
      <3>4. d = [type |-> "UnwatchSession", viewer |-> v, session |-> w.watched]
        OBVIOUS
      <3> HIDE DEF mid, d
      <3>5. /\ mid \in Seq(ClientMessage) /\ RequestsInv(mid, subs, v, w) /\ ~FetchesIn(mid, v)
            /\ \A t \in Sessions : ~Open(mid, subs, v, t, Len(mid) + 1)
        BY <1>1, <1>2, <3>1, <3>3, <3>4, SentOldUnwatch
      <3> QED
        BY <3>1, <3>2, <3>3, <3>5
    <2> QED
      BY <2>1, <2>2
  <1> HIDE DEF mid
  <1>10. rx' = Append(mid, e)
    BY <1>5, <1>6, <1>9
  <1>11. v \in Pages /\ ~x.ended => \A t \in Sessions : ~FollowsIn(mid, subs, v, t)
    BY <1>1, <1>2, <1>4, <1>9 DEF RequestsInv
  <1>12. RequestsInv(rx', subs, v, x)
    <2>1. KeptWatch(v, x) = s /\ x.ended \in BOOLEAN
      BY <1>1, <1>4 DEF KeptWatch
    <2> QED
      BY <1>1, <1>3, <1>4, <1>6, <1>9, <1>10, <1>11, <2>1, SentWatch
  <1>13. OneInv(subs, v)
    BY <1>1 DEF WatchInv, ViewerInv
  <1>14. viewer'[v] = x /\ \A u \in Viewers \ {v} : viewer'[u] = viewer[u]
    BY <1>1, <1>2 DEF TypeOK
  <1>15. ViewerInv(v)'
    BY <1>2, <1>8, <1>12, <1>13, <1>14, Zenon DEF ViewerInv
  <1>16. ASSUME NEW u \in Viewers \ {v} PROVE ViewerInv(u)'
    <2>1. /\ TaskInv(u, viewer[u]) /\ OneInv(subs, u) /\ RequestsInv(rx, subs, u, viewer[u])
      BY DEF WatchInv, ViewerInv
    <2>2. viewer[u].ended \in BOOLEAN
      BY ViewerFacts
    <2>3. RequestsInv(mid, subs, u, viewer[u])
      <3>1. ASSUME NEW d \in ClientMessage, d.viewer = v, mid = Append(rx, d)
            PROVE  RequestsInv(mid, subs, u, viewer[u])
        BY <1>1, <2>1, <2>2, <3>1, OthersRequest
      <3> QED
        BY <1>9, <2>1, <3>1, Zenon
    <2>4. RequestsInv(rx', subs, u, viewer[u])
      BY <1>6, <1>9, <1>10, <2>2, <2>3, OthersRequest
    <2> QED
      BY <1>2, <1>14, <2>1, <2>4, Zenon DEF ViewerInv
  <1> QED
    BY <1>15, <1>16, Zenon DEF WatchInv

LEMMA WatchPage ==
    ASSUME TypeOK, WatchInv, NEW v \in Pages,
           PageFetches(v) \/ PageShows(v) \/ PageCloses(v) \/ PageDeselects(v)
    PROVE  WatchInv'
  <1> DEFINE w == viewer[v]
             rx == client_rx
             subs == message_subscribers
  <1>1. /\ v \in Viewers /\ v \notin Sockets /\ rx \in Seq(ClientMessage) /\ w \in Viewer /\ w.ended \in BOOLEAN
        /\ RequestsInv(rx, subs, v, w) /\ (w.task # "fetching" => ~FetchesIn(rx, v))
        /\ \A t \in Sessions : Open(rx, subs, v, t, Len(rx) + 1) => t = w.watched
        /\ w.task \in {"idle", "unwatched", "fetching", "fetched", "watching", "closed"}
        /\ w.task \in {"unwatched", "fetching", "fetched"} =>
              w.session \in Sessions /\ (w.watched # None => w.ended)
        /\ w.task = "idle" => w.session = None /\ w.watched = None
        /\ w.task = "watching" =>
              w.watched \in Sessions /\ (w.session # w.watched => w.session = None /\ w.ended)
    BY PageFacts
  <1>2. subs' = subs /\ w.watched \in Sessions \cup {None}
    BY <1>1 DEF PageFetches, PageShows, PageCloses, PageDeselects, daemon, Viewer
  <1>3. CASE PageFetches(v)
    <2> DEFINE x == [w EXCEPT !.task = "fetching"]
               e == [type |-> "GetMessages", viewer |-> v, session |-> w.session]
    <2>1. x.task = "fetching" /\ x.session = w.session /\ x.ended = w.ended /\ x.watched = w.watched
      BY <1>1 DEF Viewer
    <2>2. w.task = "unwatched" /\ viewer' = [viewer EXCEPT ![v] = x] /\ rx' = Append(rx, e)
      BY <1>3 DEF PageFetches, Send
    <2>3. w.session \in Sessions /\ (w.watched # None => w.ended)
      BY <1>1, <2>2
    <2>4. e = [type |-> "GetMessages", viewer |-> v, session |-> w.session] /\ e \in ClientMessage /\ e.viewer = v
      BY <1>1, <2>3 DEF ClientMessage
    <2> HIDE DEF x, e
    <2>5. TaskInv(v, x)
      BY <1>1, <2>1, <2>3, ViewerTypes DEF TaskInv
    <2>6. ~x.ended => \A t \in Sessions : ~Open(rx, subs, v, t, Len(rx) + 1)
      BY <1>1, <2>1, <2>3, ViewerTypes
    <2>7. KeptWatch(v, x) = KeptWatch(v, w)
      BY <2>1 DEF KeptWatch
    <2>8. RequestsInv(rx', subs, v, x)
      BY <1>1, <2>1, <2>2, <2>3, <2>4, <2>6, <2>7, SentFetch
    <2> QED
      BY <1>1, <1>2, <2>2, <2>4, <2>5, <2>8, OwnStep
  <1>4. CASE PageShows(v)
    <2> DEFINE shown == {Head(queue[v]).session} \cup
                           IF Head(queue[v]).type = "messages" THEN {} ELSE w.shows
               x == [w EXCEPT !.shows = shown]
    <2>1. x.task = w.task /\ x.session = w.session /\ x.ended = w.ended /\ x.watched = w.watched
      BY <1>1 DEF Viewer
    <2>2. viewer' = [viewer EXCEPT ![v] = x] /\ rx' = rx
      BY <1>4 DEF PageShows
    <2> HIDE DEF shown, x
    <2>3. TaskInv(v, x)
      BY <1>1, <2>1, ViewerTypes DEF TaskInv
    <2>4. RequestsInv(rx, subs, v, x)
      BY <1>1, <2>1, SilentRequests DEF KeptWatch
    <2> QED
      BY <1>1, <1>2, <2>2, <2>3, <2>4, OwnStep
  <1>5. CASE PageCloses(v)
    <2> DEFINE x == [w EXCEPT !.task = "closed"]
    <2>1. x.task = "closed" /\ x.session = w.session /\ x.ended = w.ended /\ x.watched = w.watched
      BY <1>1 DEF Viewer
    <2>2. w.task \in {"idle", "watching"} /\ viewer' = [viewer EXCEPT ![v] = x] /\ rx' = rx \o Unwatches(v)
      BY <1>5 DEF PageCloses
    <2> HIDE DEF x
    <2>3. TaskInv(v, x)
      BY <1>1, <2>1 DEF TaskInv
    <2>4. CASE w.watched = None
      <3>1. rx' = rx
        BY <1>1, <2>2, <2>4 DEF Unwatches
      <3>2. RequestsInv(rx, subs, v, x)
        BY <1>1, <2>1, <2>2, SilentRequests DEF KeptWatch
      <3> QED
        BY <1>1, <1>2, <2>2, <2>3, <3>1, <3>2, OwnStep
    <2>5. CASE w.watched # None
      <3> DEFINE e == [type |-> "UnwatchSession", viewer |-> v, session |-> w.watched]
      <3>1. w.watched \in Sessions /\ KeptWatch(v, w) = w.watched
        BY <1>2, <2>5 DEF KeptWatch
      <3>2. rx' = Append(rx, e) /\ e \in ClientMessage /\ e.viewer = v
        BY <1>1, <2>2, <2>5, <3>1 DEF Unwatches, ClientMessage
      <3>3. e = [type |-> "UnwatchSession", viewer |-> v, session |-> w.watched]
        OBVIOUS
      <3> HIDE DEF e
      <3>4. RequestsInv(rx', subs, v, x)
        BY <1>1, <2>1, <2>2, <3>1, <3>2, <3>3, SentUnwatch
      <3> QED
        BY <1>1, <1>2, <2>2, <2>3, <3>2, <3>4, OwnStep
    <2> QED
      BY <2>4, <2>5
  <1>6. CASE PageDeselects(v)
    <2> DEFINE x == [w EXCEPT !.session = None, !.ended = TRUE]
    <2>1. x.task = w.task /\ x.session = None /\ x.ended = TRUE /\ x.watched = w.watched
      BY <1>1 DEF Viewer
    <2>2. w.task = "watching" /\ viewer' = [viewer EXCEPT ![v] = x] /\ rx' = rx
      BY <1>6 DEF PageDeselects
    <2> HIDE DEF x
    <2>3. TaskInv(v, x)
      BY <1>1, <2>1, <2>2, ViewerTypes DEF TaskInv
    <2>4. KeptWatch(v, x) = KeptWatch(v, w) /\ x.ended \in BOOLEAN
      BY <2>1 DEF KeptWatch
    <2>5. ~FetchesIn(rx, v) /\ (v \in Pages /\ ~x.ended => x.task \notin {"fetched", "watching"})
      BY <1>1, <2>1, <2>2
    <2>6. RequestsInv(rx, subs, v, x)
      BY <1>1, <2>4, <2>5, SilentRequests
    <2> QED
      BY <1>1, <1>2, <2>2, <2>3, <2>6, OwnStep
  <1> QED
    BY <1>3, <1>4, <1>5, <1>6

\* The main loop handles a request; tasks other than that of its viewer are
\* left alone.
LEMMA WatchHandled ==
    ASSUME TypeOK, WatchInv, client_rx # <<>>, client_rx' = Tail(client_rx),
           \A u \in Viewers : Serves(client_rx, message_subscribers, message_subscribers', u),
           \A u \in Viewers : FetchAt(client_rx, 1, u) =>
               /\ message_subscribers' = message_subscribers
               /\ viewer'[u] = [viewer[u] EXCEPT !.task = "fetched"],
           \A u \in Viewers : ~FetchAt(client_rx, 1, u) => viewer'[u] = viewer[u]
    PROVE  WatchInv'
  <1> SUFFICES ASSUME NEW u \in Viewers PROVE ViewerInv(u)'
    BY Zenon DEF WatchInv
  <1> DEFINE w == viewer[u]
             rx == client_rx
             subs == message_subscribers
             next == message_subscribers'
  <1>1. /\ rx \in Seq(ClientMessage) /\ w \in Viewer /\ w.ended \in BOOLEAN /\ TaskInv(u, w)
        /\ RequestsInv(rx, subs, u, w)
    BY ViewerFacts
  <1>2. OneInv(subs, u)
    BY DEF WatchInv, ViewerInv
  <1>3. Serves(rx, subs, next, u)
    OBVIOUS
  <1>4. /\ ~FetchAt(rx, 1, u) => RequestsInv(Tail(rx), next, u, w)
        /\ FetchAt(rx, 1, u) /\ next = subs =>
              \A x : (x.task = "fetched" /\ x.ended = w.ended /\ KeptWatch(u, x) = KeptWatch(u, w)) =>
                        u \in Pages /\ w.task = "fetching" /\ RequestsInv(Tail(rx), next, u, x)
        /\ OneInv(next, u)
    <2> HIDE DEF next
    <2>1. ~FetchAt(rx, 1, u) => RequestsInv(Tail(rx), next, u, w)
      BY ONLY <1>1, <1>2, <1>3, client_rx # <<>>, Handled
    <2>2. FetchAt(rx, 1, u) /\ next = subs =>
              \A x : (x.task = "fetched" /\ x.ended = w.ended /\ KeptWatch(u, x) = KeptWatch(u, w)) =>
                        u \in Pages /\ w.task = "fetching" /\ RequestsInv(Tail(rx), next, u, x)
      BY ONLY <1>1, <1>2, <1>3, client_rx # <<>>, Handled
    <2>3. OneInv(next, u)
      BY ONLY <1>1, <1>2, <1>3, client_rx # <<>>, Handled
    <2> QED
      BY <2>1, <2>2, <2>3
  <1>5. CASE ~FetchAt(rx, 1, u)
    <2>1. viewer'[u] = w
      BY <1>5
    <2> QED
      BY <1>1, <1>4, <1>5, <2>1, Zenon DEF ViewerInv
  <1>6. CASE FetchAt(rx, 1, u)
    <2> DEFINE x == [w EXCEPT !.task = "fetched"]
    <2>1. x.task = "fetched" /\ x.ended = w.ended /\ x.session = w.session /\ x.watched = w.watched
      BY <1>1 DEF Viewer
    <2>2. viewer'[u] = x /\ next = subs
      BY <1>6
    <2> HIDE DEF x
    <2>3. KeptWatch(u, x) = KeptWatch(u, w)
      BY <2>1 DEF KeptWatch
    <2>4. u \in Pages /\ w.task = "fetching" /\ RequestsInv(Tail(rx), next, u, x)
      BY <1>4, <1>6, <2>1, <2>2, <2>3, Zenon
    <2>5. TaskInv(u, x)
      BY <1>1, <2>1, <2>4, ViewerTypes DEF TaskInv
    <2> QED
      BY <1>4, <2>2, <2>4, <2>5, Zenon DEF ViewerInv
  <1> QED
    BY <1>5, <1>6

LEMMA WatchGetMessages ==
    ASSUME TypeOK, WatchInv, HandleGetMessages PROVE WatchInv'
  <1> DEFINE v == client_rx[1].viewer
  <1>1. client_rx # <<>> /\ Head(client_rx).type = "GetMessages" /\ client_rx' = Tail(client_rx)
    BY DEF HandleGetMessages, Receive
  <1>2. client_rx \in Seq(ClientMessage)
    BY DEF TypeOK
  <1>3. Head(client_rx) = client_rx[1] /\ client_rx[1] \in ClientMessage
    BY <1>1, <1>2, TailFacts
  <1>4. client_rx[1].type = "GetMessages" /\ v \in Viewers
    BY <1>1, <1>3 DEF ClientMessage
  <1>5. message_subscribers' = message_subscribers /\ viewer' = [viewer EXCEPT ![v].task = "fetched"]
    BY <1>3 DEF HandleGetMessages, daemon
  <1>6. \A u \in Viewers : Serves(client_rx, message_subscribers, message_subscribers', u)
    BY <1>4, <1>5 DEF Serves, UnwatchAt
  <1>7. \A u \in Viewers : FetchAt(client_rx, 1, u) <=> u = v
    BY <1>4 DEF FetchAt
  <1>8. \A u \in Viewers : viewer'[u] = IF u = v THEN [viewer[u] EXCEPT !.task = "fetched"] ELSE viewer[u]
    BY <1>5 DEF TypeOK
  <1> QED
    BY <1>1, <1>5, <1>6, <1>7, <1>8, WatchHandled

LEMMA WatchWatchSession ==
    ASSUME TypeOK, WatchInv, HandleWatchSession PROVE WatchInv'
  <1> DEFINE v == client_rx[1].viewer
             s == client_rx[1].session
  <1>1. client_rx # <<>> /\ Head(client_rx).type = "WatchSession" /\ client_rx' = Tail(client_rx)
    BY DEF HandleWatchSession, Receive
  <1>2. client_rx \in Seq(ClientMessage)
    BY DEF TypeOK
  <1>3. Head(client_rx) = client_rx[1] /\ client_rx[1] \in ClientMessage
    BY <1>1, <1>2, TailFacts
  <1>4. client_rx[1].type = "WatchSession" /\ v \in Viewers /\ s \in Sessions
    BY <1>1, <1>3 DEF ClientMessage
  <1>5. message_subscribers' = [message_subscribers EXCEPT ![s] = @ \cup {v}] /\ viewer' = viewer
    BY <1>3 DEF HandleWatchSession
  <1>6. ASSUME NEW u \in Viewers PROVE Serves(client_rx, message_subscribers, message_subscribers', u)
    <2> SUFFICES ASSUME NEW t \in Sessions, u \in message_subscribers'[t]
                 PROVE  \/ u \in message_subscribers[t] /\ ~UnwatchAt(client_rx, 1, t)
                        \/ WatchAt(client_rx, 1, u, t)
      BY DEF Serves
    <2>1. ~UnwatchAt(client_rx, 1, t)
      BY <1>4 DEF UnwatchAt
    <2>2. message_subscribers'[t] = IF t = s THEN message_subscribers[t] \cup {v} ELSE message_subscribers[t]
      BY <1>5 DEF TypeOK
    <2>3. u \in message_subscribers[t] \/ (t = s /\ u = v)
      BY <2>2
    <2> QED
      BY <1>4, <2>1, <2>3 DEF WatchAt
  <1>7. \A u \in Viewers : ~FetchAt(client_rx, 1, u)
    BY <1>4 DEF FetchAt
  <1> QED
    BY <1>1, <1>5, <1>6, <1>7, WatchHandled

LEMMA WatchUnwatchSession ==
    ASSUME TypeOK, WatchInv, HandleUnwatchSession PROVE WatchInv'
  <1> DEFINE s == client_rx[1].session
  <1>1. client_rx # <<>> /\ Head(client_rx).type = "UnwatchSession" /\ client_rx' = Tail(client_rx)
    BY DEF HandleUnwatchSession, Receive
  <1>2. client_rx \in Seq(ClientMessage)
    BY DEF TypeOK
  <1>3. Head(client_rx) = client_rx[1] /\ client_rx[1] \in ClientMessage
    BY <1>1, <1>2, TailFacts
  <1>4. client_rx[1].type = "UnwatchSession" /\ s \in Sessions
    BY <1>1, <1>3 DEF ClientMessage
  <1>5. message_subscribers' = [message_subscribers EXCEPT ![s] = {}] /\ viewer' = viewer
    BY <1>3 DEF HandleUnwatchSession
  <1>6. \A t \in Sessions : message_subscribers'[t] = IF t = s THEN {} ELSE message_subscribers[t]
    BY <1>5 DEF TypeOK
  <1>7. \A t \in Sessions : UnwatchAt(client_rx, 1, t) => t = s
    BY DEF UnwatchAt
  <1>8. \A u \in Viewers : Serves(client_rx, message_subscribers, message_subscribers', u)
    BY <1>6, <1>7 DEF Serves
  <1>9. \A u \in Viewers : ~FetchAt(client_rx, 1, u)
    BY <1>4 DEF FetchAt
  <1> QED
    BY <1>1, <1>5, <1>8, <1>9, WatchHandled

LEMMA WatchFileChanged ==
    ASSUME TypeOK, WatchInv, NEW s \in Sessions, FileChanged(s) PROVE WatchInv'
  <1>1. client_rx' = client_rx /\ viewer' = viewer
        /\ \A t \in Sessions : message_subscribers'[t] = {u \in message_subscribers[t] : ~Closed(u)}
    BY DEF FileChanged
  <1> SUFFICES ASSUME NEW u \in Viewers PROVE ViewerInv(u)'
    BY Zenon DEF WatchInv
  <1> DEFINE w == viewer[u]
             rx == client_rx
             subs == message_subscribers
             fewer == message_subscribers'
  <1>2. rx \in Seq(ClientMessage) /\ w.ended \in BOOLEAN /\ TaskInv(u, w) /\ RequestsInv(rx, subs, u, w)
    BY ViewerFacts
  <1>3. OneInv(subs, u)
    BY DEF WatchInv, ViewerInv
  <1>4. \A t \in Sessions : u \in fewer[t] => u \in subs[t]
    BY <1>1
  <1>5. OneInv(fewer, u)
    BY <1>3, <1>4, Zenon DEF OneInv
  <1> HIDE DEF fewer
  <1>6. /\ AloneIn(rx, subs, u) => AloneIn(rx, fewer, u)
        /\ \A t \in Sessions : FollowsIn(rx, fewer, u, t) => FollowsIn(rx, subs, u, t)
        /\ \A alone \in BOOLEAN : FetchIn(rx, subs, u, alone) => FetchIn(rx, fewer, u, alone)
        /\ \A t \in Sessions : Open(rx, fewer, u, t, Len(rx) + 1) => Open(rx, subs, u, t, Len(rx) + 1)
    BY ONLY <1>2, <1>4, FewerRequests, Zenon
  <1>7. (~w.ended) \in BOOLEAN
    OBVIOUS
  <1>8. RequestsInv(rx, fewer, u, w)
    BY <1>2, <1>6, <1>7, Zenon DEF RequestsInv
  <1> QED
    BY <1>1, <1>2, <1>5, <1>8, Zenon DEF ViewerInv, fewer

\* Every step preserves what the requests and subscriptions of a viewer say.
LEMMA WatchNext ==
    ASSUME TypeOK, WatchInv, [Next]_vars PROVE WatchInv'
  <1>1. ASSUME UNCHANGED <<client_rx, message_subscribers, viewer>> PROVE WatchInv'
    BY <1>1 DEF WatchInv, ViewerInv, TaskInv, RequestsInv, OneInv, KeptWatch, AloneIn, FollowsIn, FetchesIn,
                FetchIn, Open, WatchAt, UnwatchAt, FetchAt
  <1>2. CASE MainLoop
    BY <1>2, WatchGetMessages, WatchWatchSession, WatchUnwatchSession, WatchFileChanged DEF MainLoop
  <1>3. ASSUME NEW p \in Paths, AgentWrites(p) \/ Bridge(p) PROVE WatchInv'
    BY <1>1, <1>3 DEF AgentWrites, Bridge, daemon
  <1>4. ASSUME NEW s \in Sessions, HookEvent(s) \/ RemoveSession(s) PROVE WatchInv'
    BY <1>1, <1>4 DEF HookEvent, RemoveSession
  <1>5. ASSUME NEW v \in Sockets,
               SocketHangsUp(v) \/ SocketTask(v) \/ \E s \in Sessions : SocketWatches(v, s)
        PROVE  WatchInv'
    BY <1>5, WatchSocket
  <1>6. ASSUME NEW v \in Pages,
               PageFetches(v) \/ PageShows(v) \/ PageCloses(v) \/ PageDeselects(v) PROVE WatchInv'
    BY <1>6, WatchPage
  <1>7. ASSUME NEW v \in Pages, PageWatches(v) PROVE WatchInv'
    BY <1>7, WatchPageWatches
  <1>8. ASSUME NEW v \in Pages, NEW s \in Sessions, PageSelects(v, s) PROVE WatchInv'
    BY <1>8, WatchPageSelects
  <1>9. CASE UNCHANGED vars
    BY <1>1, <1>9 DEF vars
  <1> QED
    BY <1>2, <1>3, <1>4, <1>5, <1>6, <1>7, <1>8, <1>9 DEF Next

LEMMA TypeInitially == Init => TypeOK
  <1> SUFFICES ASSUME Init PROVE TypeOK
    OBVIOUS
  <1>1. /\ disk \in [Paths -> Lengths] /\ session_to_path \in SUBSET Sessions
        /\ message_subscribers \in [Sessions -> SUBSET Viewers]
        /\ path_to_session \in [Paths -> Sessions \cup {None}]
        /\ raw \in SUBSET Paths /\ watch_rx \in SUBSET Sessions
    BY LengthFacts DEF Init
  <1>2. sessions \in [Sessions -> SessionState]
    BY DEF Init, Unknown, SessionState
  <1>3. viewer \in [Viewers -> Viewer]
    BY DEF Init, Viewer
  <1>4. client_rx \in Seq(ClientMessage) /\ queue \in [Viewers -> Seq(Event)]
    BY DEF Init
  <1>5. \A v \in Viewers : Len(queue[v]) <= QueueCap
    BY ViewerTypes DEF Init
  <1>6. stream \in [Viewers -> Stream] /\ removals \in 0..MaxRemovals
    BY NewStream, ViewerTypes DEF Init
  <1> QED
    BY <1>1, <1>2, <1>3, <1>4, <1>5, <1>6 DEF TypeOK

\* Every step preserves the types.
LEMMA TypeNext ==
    ASSUME TypeOK, WatchInv, [Next]_vars PROVE TypeOK'
  <1>1. CASE MainLoop
    BY <1>1, TypeRequests, TypeFileChanged DEF MainLoop
  <1>2. ASSUME NEW p \in Paths, AgentWrites(p) \/ Bridge(p) PROVE TypeOK'
    BY <1>2, TypeFiles
  <1>3. ASSUME NEW s \in Sessions, HookEvent(s) \/ RemoveSession(s) PROVE TypeOK'
    BY <1>3, TypeSessions
  <1>4. ASSUME NEW v \in Sockets,
               SocketHangsUp(v) \/ SocketTask(v) \/ \E s \in Sessions : SocketWatches(v, s)
        PROVE  TypeOK'
    <2>1. v \in Viewers /\ TaskInv(v, viewer[v]) /\ viewer[v] \in Viewer
      BY ViewerFacts DEF Viewers
    <2>2. viewer[v].task \in {"watching", "hungup"} => viewer[v].session \in Sessions
      BY <2>1 DEF TaskInv, Viewer
    <2> QED
      BY <1>4, <2>2, TypeSocket
  <1>5. ASSUME NEW v \in Pages,
               \/ PageFetches(v) \/ PageWatches(v) \/ PageShows(v) \/ PageCloses(v) \/ PageDeselects(v)
               \/ \E s \in Sessions : PageSelects(v, s)
        PROVE  TypeOK'
    <2>1. viewer[v].task \in {"unwatched", "fetched"} => viewer[v].session \in Sessions
      BY PageFacts
    <2> QED
      BY <1>5, <2>1, TypePage
  <1>6. CASE UNCHANGED vars
    BY <1>6 DEF vars, TypeOK
  <1> QED
    BY <1>1, <1>2, <1>3, <1>4, <1>5, <1>6 DEF Next

LEMMA WatchCorrect == Spec => [](TypeOK /\ WatchInv)
  <1>1. Init => TypeOK /\ WatchInv
    BY TypeInitially, WatchInitially
  <1>2. TypeOK /\ WatchInv /\ [Next]_vars => TypeOK' /\ WatchInv'
    BY TypeNext, WatchNext
  <1> QED
    BY <1>1, <1>2, PTL DEF Spec

\* Every variable has its type: a viewer's channel never holds more than its
\* capacity, and every request of a task names the session it has chosen
\* (client_listener.rs, web.rs, daemon.rs).
THEOREM WatchTypeCorrect == Spec => []TypeOK
  BY WatchCorrect, PTL

------------------------------------------------------------------------------
(* What a page shows                                                       *)

\* A page that has been sent `q` and shows `shows` will show session `t` only.
WillShow(q, shows, t) ==
    \/ \E i \in 1..Len(q) : q[i].type = "messages" /\ \A j \in i..Len(q) : q[j].session = t
    \/ shows = {t} /\ \A j \in 1..Len(q) : q[j].session = t

Waits(v) == ~viewer[v].ended /\ viewer[v].task = "watching"

ShowsInv == \A v \in Pages : Waits(v) => WillShow(queue[v], viewer[v].shows, viewer[v].session)

\* Messages of the session are added.
LEMMA WillShowMore ==
    ASSUME NEW q \in Seq(Event), NEW more \in Seq(Event), NEW shows, NEW t, WillShow(q, shows, t),
           Len(q) <= Len(more), \A i \in 1..Len(q) : more[i] = q[i],
           \A i \in (Len(q) + 1)..Len(more) : more[i].session = t
    PROVE  WillShow(more, shows, t)
  <1>1. Len(q) \in Nat /\ Len(more) \in Nat
    BY LenProperties
  <1>2. \A j \in 1..Len(more) : j \in 1..Len(q) \/ j \in (Len(q) + 1)..Len(more)
    BY <1>1
  <1>3. ASSUME NEW i \in 1..Len(q), q[i].type = "messages", \A j \in i..Len(q) : q[j].session = t
        PROVE  WillShow(more, shows, t)
    <2>1. i \in 1..Len(more) /\ more[i].type = "messages"
      BY <1>1, <1>3
    <2>2. \A j \in i..Len(more) : (j \in i..Len(q) /\ j \in 1..Len(q)) \/ j \in (Len(q) + 1)..Len(more)
      BY <1>1
    <2>3. \A j \in i..Len(more) : more[j].session = t
      BY <1>3, <2>2
    <2> QED
      BY <2>1, <2>3 DEF WillShow
  <1>4. CASE shows = {t} /\ \A j \in 1..Len(q) : q[j].session = t
    BY <1>2, <1>4 DEF WillShow
  <1> QED
    BY <1>3, <1>4 DEF WillShow

\* The next event is shown.
LEMMA WillShowNext ==
    ASSUME NEW q \in Seq(Event), q # <<>>, NEW shows, NEW t, WillShow(q, shows, t)
    PROVE  WillShow(Tail(q), {Head(q).session} \cup IF Head(q).type = "messages" THEN {} ELSE shows, t)
  <1> DEFINE n == Len(Tail(q))
             shown == {Head(q).session} \cup IF Head(q).type = "messages" THEN {} ELSE shows
  <1>1. n \in Nat /\ Len(q) = n + 1 /\ Head(q) = q[1] /\ \A i \in 1..n : Tail(q)[i] = q[i + 1]
    BY HeadTailProperties, EmptySeq, LenProperties
  <1> HIDE DEF n
  <1>2. ASSUME NEW i \in 1..Len(q), q[i].type = "messages", \A j \in i..Len(q) : q[j].session = t
        PROVE  WillShow(Tail(q), shown, t)
    <2>1. CASE i = 1
      <3>1. shown = {t}
        BY <1>1, <1>2, <2>1
      <3>2. \A j \in 1..n : Tail(q)[j].session = t
        BY <1>1, <1>2, <2>1
      <3> QED
        BY <3>1, <3>2 DEF WillShow, n
    <2>2. CASE i # 1
      <3>1. i - 1 \in 1..n /\ Tail(q)[i - 1] = q[i]
        <4>1. i - 1 \in 1..n /\ (i - 1) + 1 = i
          BY <1>1, <2>2
        <4> QED
          BY <1>1, <4>1
      <3>2. \A j \in (i - 1)..n : j \in 1..n /\ j + 1 \in i..Len(q)
        BY <1>1, <2>2
      <3>3. \A j \in (i - 1)..n : Tail(q)[j].session = t
        BY <1>1, <1>2, <3>2
      <3> QED
        BY <1>2, <3>1, <3>3 DEF WillShow, n
    <2> QED
      BY <2>1, <2>2
  <1>3. CASE shows = {t} /\ \A j \in 1..Len(q) : q[j].session = t
    <2>1. shown = {t}
      BY <1>1, <1>3
    <2>2. \A j \in 1..n : Tail(q)[j].session = t
      BY <1>1, <1>3
    <2> QED
      BY <2>1, <2>2 DEF WillShow, n
  <1> QED
    BY <1>2, <1>3 DEF WillShow

\* Every step preserves what a page will show.
LEMMA ShowsNext ==
    ASSUME TypeOK, WatchInv, ShowsInv, [Next]_vars PROVE ShowsInv'
  <1> SUFFICES ASSUME NEW u \in Pages, Waits(u)'
               PROVE  WillShow(queue'[u], viewer'[u].shows, viewer'[u].session)
    BY DEF ShowsInv
  <1>1. u \in Viewers /\ u \notin Sockets /\ queue[u] \in Seq(Event) /\ viewer[u] \in Viewer
    BY ViewerTypes DEF Viewers, TypeOK
  <1>2. Waits(u) => WillShow(queue[u], viewer[u].shows, viewer[u].session)
    BY DEF ShowsInv
  <1>3. ASSUME viewer'[u] = viewer[u], queue'[u] = queue[u]
        PROVE  WillShow(queue'[u], viewer'[u].shows, viewer'[u].session)
    BY <1>2, <1>3 DEF Waits
  <1>4. CASE HandleGetMessages
    <2> DEFINE v == Head(client_rx).viewer
    <2>1. viewer' = [viewer EXCEPT ![v].task = "fetched"] /\ queue' = queue
      BY <1>4 DEF HandleGetMessages
    <2>2. CASE u = v
      <3>1. viewer'[u].task = "fetched"
        BY <1>1, <2>1, <2>2 DEF TypeOK, Viewer
      <3> QED
        BY <3>1 DEF Waits
    <2>3. CASE u # v
      BY <1>1, <1>3, <2>1, <2>3 DEF TypeOK
    <2> QED
      BY <2>2, <2>3
  <1>5. CASE HandleWatchSession \/ HandleUnwatchSession
    BY <1>3, <1>5 DEF HandleWatchSession, HandleUnwatchSession
  <1>6. ASSUME NEW s \in Sessions, FileChanged(s)
        PROVE  WillShow(queue'[u], viewer'[u].shows, viewer'[u].session)
    <2>1. viewer' = viewer
      BY <1>6 DEF FileChanged
    <2>2. CASE message_subscribers[s] = {}
      BY <1>3, <1>6, <2>1, <2>2 DEF FileChanged
    <2>3. CASE message_subscribers[s] # {}
      <3>1. PICK r, last : FileRead(s, r, last)
        BY <1>6, <2>3, FileChangedReads
      <3>2. ReadsOf(s, r, last) /\ queue' = [v \in Viewers |-> Pushed(v, s, Gets(s, r, v))]
        BY <3>1 DEF FileRead
      <3> DEFINE more == Pushed(u, s, Gets(s, r, u))
      <3>3. queue'[u] = more
        BY <1>1, <3>2
      <3>4. Gets(s, r, u) \in Seq(Lines) /\ (u \notin message_subscribers[s] => Len(Gets(s, r, u)) = 0)
        BY <1>1, <3>2, GetsFacts DEF Gets
      <3>5. more = Pushed(u, s, Gets(s, r, u))
        OBVIOUS
      <3> HIDE DEF more
      <3>6. /\ more \in Seq(Event) /\ Len(more) - Len(queue[u]) \in 0..Len(Gets(s, r, u))
            /\ Len(queue[u]) <= Len(more)
            /\ \A i \in 1..Len(queue[u]) : more[i] = queue[u][i]
            /\ \A i \in (Len(queue[u]) + 1)..Len(more) : more[i] = [type |-> "message", session |-> s]
        BY <1>1, <3>4, <3>5, PushedEvents
      <3>7. Waits(u)
        BY <2>1 DEF Waits
      <3>8. u \in message_subscribers[s] => s = viewer[u].session
        <4>1. RequestsInv(client_rx, message_subscribers, u, viewer[u])
          BY DEF WatchInv, ViewerInv, Viewers
        <4> QED
          BY <3>7, <4>1 DEF RequestsInv, FollowsIn, Waits
      <3>9. \A i \in (Len(queue[u]) + 1)..Len(more) : more[i].session = viewer[u].session
        <4>1. CASE u \in message_subscribers[s]
          BY <3>6, <3>8, <4>1
        <4>2. CASE u \notin message_subscribers[s]
          <5>1. Len(queue[u]) \in Nat /\ Len(more) = Len(queue[u])
            BY <1>1, <3>4, <3>6, <4>2
          <5> QED
            BY <5>1
        <4> QED
          BY <4>1, <4>2
      <3>10. WillShow(more, viewer[u].shows, viewer[u].session)
        BY <1>1, <1>2, <3>6, <3>7, <3>9, WillShowMore
      <3> QED
        BY <2>1, <3>3, <3>10
    <2> QED
      BY <2>2, <2>3
  <1>7. ASSUME NEW p \in Paths, AgentWrites(p) \/ Bridge(p)
        PROVE  WillShow(queue'[u], viewer'[u].shows, viewer'[u].session)
    BY <1>3, <1>7 DEF AgentWrites, Bridge
  <1>8. ASSUME NEW s \in Sessions, HookEvent(s) \/ RemoveSession(s)
        PROVE  WillShow(queue'[u], viewer'[u].shows, viewer'[u].session)
    BY <1>3, <1>8 DEF HookEvent, RemoveSession
  <1>9. ASSUME NEW v \in Sockets,
               SocketHangsUp(v) \/ SocketTask(v) \/ \E s \in Sessions : SocketWatches(v, s)
        PROVE  WillShow(queue'[u], viewer'[u].shows, viewer'[u].session)
    <2>1. u # v /\ v \in Viewers
      BY <1>1 DEF Viewers
    <2>2. viewer'[u] = viewer[u] /\ queue'[u] = queue[u]
      BY <1>1, <1>9, <2>1 DEF SocketHangsUp, SocketTask, SocketWatches, TypeOK
    <2> QED
      BY <1>3, <2>2
  <1>10. ASSUME NEW v \in Pages \ {u},
                \/ PageFetches(v) \/ PageWatches(v) \/ PageShows(v) \/ PageCloses(v) \/ PageDeselects(v)
                \/ \E s \in Sessions : PageSelects(v, s)
         PROVE  WillShow(queue'[u], viewer'[u].shows, viewer'[u].session)
    <2>1. viewer'[u] = viewer[u] /\ queue'[u] = queue[u]
      BY <1>1, <1>10 DEF PageFetches, PageWatches, PageShows, PageCloses, PageDeselects, PageSelects, TypeOK
    <2> QED
      BY <1>3, <2>1
  <1>11. CASE PageFetches(u) \/ PageCloses(u) \/ \E s \in Sessions : PageSelects(u, s)
    <2>1. viewer'[u].task \in {"fetching", "closed", "unwatched"}
      <3>1. CASE PageFetches(u) \/ PageCloses(u)
        BY <1>1, <3>1 DEF PageFetches, PageCloses, TypeOK, Viewer
      <3>2. ASSUME NEW s \in Sessions, PageSelects(u, s) PROVE viewer'[u].task = "unwatched"
        <4> DEFINE kept == IF viewer[u].session = None THEN viewer[u].watched ELSE None
                   x == [viewer[u] EXCEPT !.task = "unwatched", !.session = s, !.watched = kept]
        <4>1. viewer' = [viewer EXCEPT ![u] = x]
          BY <3>2, Zenon DEF PageSelects
        <4>2. x.task = "unwatched"
          BY <1>1 DEF Viewer
        <4> HIDE DEF x
        <4> QED
          BY <1>1, <4>1, <4>2 DEF TypeOK
      <3> QED
        BY <1>11, <3>1, <3>2
    <2> QED
      BY <2>1 DEF Waits
  <1>12. CASE PageDeselects(u)
    <2>1. viewer'[u].ended = TRUE
      BY <1>1, <1>12 DEF PageDeselects, TypeOK, Viewer
    <2> QED
      BY <2>1 DEF Waits
  <1>13. CASE PageWatches(u)
    <2> DEFINE e == [type |-> "messages", session |-> viewer[u].session]
    <2>1. queue'[u] = Append(queue[u], e) /\ viewer'[u].session = viewer[u].session
      BY <1>1, <1>13 DEF PageWatches, TypeOK, Viewer
    <2>2. e.type = "messages" /\ e.session = viewer[u].session
      OBVIOUS
    <2> HIDE DEF e
    <2>3. Len(queue'[u]) = Len(queue[u]) + 1 /\ Len(queue[u]) \in Nat /\ queue'[u][Len(queue[u]) + 1] = e
      BY <1>1, <2>1
    <2>4. /\ Len(queue[u]) + 1 \in 1..Len(queue'[u])
          /\ \A j \in (Len(queue[u]) + 1)..Len(queue'[u]) : j = Len(queue[u]) + 1
      BY <2>3
    <2> QED
      BY <2>1, <2>2, <2>3, <2>4 DEF WillShow
  <1>14. CASE PageShows(u)
    <2> DEFINE shown == {Head(queue[u]).session} \cup
                           IF Head(queue[u]).type = "messages" THEN {} ELSE viewer[u].shows
    <2>1. queue[u] # <<>> /\ queue'[u] = Tail(queue[u])
      BY <1>1, <1>14 DEF PageShows, TypeOK
    <2>2. viewer' = [viewer EXCEPT ![u] = [viewer[u] EXCEPT !.shows = shown]]
      BY <1>14 DEF PageShows
    <2> HIDE DEF shown
    <2>3. /\ viewer'[u].shows = shown /\ viewer'[u].session = viewer[u].session
          /\ viewer'[u].ended = viewer[u].ended /\ viewer'[u].task = viewer[u].task
      BY <1>1, <2>2 DEF TypeOK, Viewer
    <2>4. WillShow(queue[u], viewer[u].shows, viewer[u].session)
      BY <1>2, <2>3 DEF Waits
    <2> QED
      BY <1>1, <2>1, <2>3, <2>4, WillShowNext DEF shown
  <1>15. CASE UNCHANGED vars
    BY <1>3, <1>15 DEF vars
  <1> QED
    BY <1>4, <1>5, <1>6, <1>7, <1>8, <1>9, <1>10, <1>11, <1>12, <1>13, <1>14, <1>15 DEF Next, MainLoop

\* Once a page shows the history of the session that was selected last and has
\* shown all it was sent, no message of another session is on it
\* (web.rs, index.html).
THEOREM OneConversationHolds == Spec => []OneConversation
  <1>1. Init => ShowsInv
    <2> SUFFICES ASSUME Init, NEW v \in Pages PROVE ~Waits(v)
      BY DEF ShowsInv
    <2>1. viewer[v].task = "idle"
      BY DEF Init, Viewers
    <2> QED
      BY <2>1 DEF Waits
  <1>2. TypeOK /\ WatchInv /\ ShowsInv /\ [Next]_vars => ShowsInv'
    BY ShowsNext
  <1>3. ShowsInv => OneConversation
    <2> SUFFICES ASSUME ShowsInv, NEW v \in Pages, Waits(v), queue[v] = <<>>
                 PROVE  viewer[v].shows = {viewer[v].session}
      BY DEF OneConversation, Waits
    <2>1. 1..Len(queue[v]) = {}
      OBVIOUS
    <2> QED
      BY <2>1 DEF ShowsInv, WillShow
  <1> QED
    BY <1>1, <1>2, <1>3, WatchCorrect, PTL DEF Spec

------------------------------------------------------------------------------
(* What a viewer is sent: the inductive invariant                          *)

\* The offset is kept for sessions the daemon knows and is not ahead of the file.
KnownInv == \A s \in Sessions :
    /\ ~sessions[s].known => ~sessions[s].jsonl_path /\ sessions[s].watch_offset = None
    /\ sessions[s].watch_offset # None => sessions[s].watch_offset <= disk[PathOf[s]]

\* A viewer alone with its session is known to be.
SharedInv == \A v \in Viewers, s \in Sessions :
    v \in message_subscribers[s] /\ ~stream[v].shared /\ ~stream[v].forgotten => message_subscribers[s] = {v}

Receives(v, s) == v \in message_subscribers[s] /\ ~Closed(v) /\ ~stream[v].forgotten

\* The body of SentInOrder.
InOrder(sent, again) ==
    /\ \A i, j, k \in DOMAIN sent :
          i < j /\ j < k /\ sent[i] = sent[j] /\ sent[j] = sent[k] => again
    /\ \A i \in DOMAIN sent :
          (\A j \in 1..(i - 1) : sent[j] # sent[i]) => \A j \in 1..(i - 1) : sent[j] < sent[i]

\* What was sent ends within `d` units.
SentBefore(sent, d) == \A i \in 1..Len(sent) : 2 * sent[i] <= d

\* What was sent twice begins before `o`.
TwiceBefore(sent, o) == \A i, j \in 1..Len(sent) : i < j /\ sent[i] = sent[j] => 2 * sent[i] - 2 < o

\* From `o` on, what was sent leaves nothing out up to its last line.
Filled(sent, o) ==
    \A l \in Lines, i \in 1..Len(sent) : o <= 2 * l - 2 /\ l <= sent[i] => \E j \in 1..Len(sent) : sent[j] = l

\* The body of OnlyTornLost.
TornLost(S, o) ==
    \A i \in Lines :
       \/ 2 * i - 1 \in S.cuts \cup {S.from}
       \/ 2 * i <= S.from \/ o < 2 * i
       \/ i \in ToSet(S.sent)

\* The stream `S` of a session whose offset is `o`, if one is kept, and whose
\* file has `d` units.
StreamOf(S, o, d) ==
    /\ SentBefore(S.sent, d)
    /\ o # None =>
         /\ ~S.again => TwiceBefore(S.sent, o)
         /\ Filled(S.sent, o)
         /\ o \in Insides /\ S.from <= o => o \in S.cuts \cup {S.from} \/ S.shared
         /\ ~S.lost /\ ~S.shared => TornLost(S, o)

StreamInv ==
    /\ KnownInv /\ SharedInv
    /\ \A v \in Viewers : ~stream[v].forgotten => InOrder(stream[v].sent, stream[v].again)
    /\ \A v \in Viewers, s \in Sessions :
          Receives(v, s) => StreamOf(stream[v], sessions[s].watch_offset, disk[PathOf[s]])

\* The file grows, the offset stays or is forgotten.
LEMMA StreamKept ==
    ASSUME NEW S \in Stream, NEW o \in Lengths \cup {None}, NEW d \in Lengths, StreamOf(S, o, d),
           NEW o2 \in {o, None}, NEW d2 \in Lengths, d <= d2
    PROVE  StreamOf(S, o2, d2)
  <1>1. S.sent \in Seq(Lines)
    BY DEF Stream
  <1>2. \A i \in 1..Len(S.sent) : S.sent[i] \in Nat
    BY <1>1, LengthFacts
  <1>3. SentBefore(S.sent, d2)
    BY <1>2, LengthFacts DEF StreamOf, SentBefore
  <1> QED
    BY <1>3, Zenon DEF StreamOf

\* One file change: the first `n` messages `m` of a read that began at `o` are
\* sent; the offset moves to `o2`, the file has grown to `d2`.
SendsMore(sent, again, o, d, m, n, o2, d2, more, again2) ==
    /\ sent \in Seq(Lines) /\ again \in BOOLEAN /\ o \in Lengths /\ d \in Lengths
    /\ m \in Seq(Lines) /\ n \in 0..Len(m) /\ o2 \in Lengths /\ d2 \in Lengths
    /\ SentBefore(sent, d) /\ (~again => TwiceBefore(sent, o)) /\ Filled(sent, o) /\ InOrder(sent, again)
    /\ o <= o2 /\ d <= d2 /\ (o2 # o => d <= o2)
    /\ \A k \in 1..Len(m) : o <= 2 * m[k] - 2 /\ 2 * m[k] <= d2
    /\ \A j, k \in 1..Len(m) : m[k] - m[j] = k - j
    /\ \A l \in Lines, k \in 1..Len(m) : o <= 2 * l - 2 /\ l <= m[k] => \E j \in 1..k : m[j] = l
    /\ more = sent \o SubSeq(m, 1, n)
    /\ again2 \in BOOLEAN /\ (again \/ (m # <<>> /\ o2 = o) => again2)

LEMMA MoreSent ==
    ASSUME NEW sent, NEW again, NEW o, NEW d, NEW m, NEW n, NEW o2, NEW d2, NEW more, NEW again2,
           SendsMore(sent, again, o, d, m, n, o2, d2, more, again2)
    PROVE  /\ more \in Seq(Lines) /\ SentBefore(more, d2) /\ (~again2 => TwiceBefore(more, o2))
           /\ Filled(more, o2) /\ InOrder(more, again2)
           /\ \A i \in 1..Len(sent) : i \in 1..Len(more) /\ more[i] = sent[i]
           /\ \A k \in 1..n : Len(sent) + k \in 1..Len(more) /\ more[Len(sent) + k] = m[k]
  <1> USE DEF SendsMore
  <1> DEFINE c == Len(sent)
  <1>1. c \in Nat /\ Len(m) \in Nat /\ n \in Nat /\ n <= Len(m) /\ \A k \in 1..n : k \in 1..Len(m)
    BY LenProperties
  <1>2. SubSeq(m, 1, n) \in Seq(Lines) /\ Len(SubSeq(m, 1, n)) = n /\ \A k \in 1..n : SubSeq(m, 1, n)[k] = m[k]
    BY <1>1
  <1>3. more \in Seq(Lines) /\ Len(more) = c + n
    BY <1>1, <1>2
  <1>4. \A i \in 1..c : i \in 1..Len(more) /\ more[i] = sent[i]
    BY <1>1, <1>2, <1>3
  <1>5. \A k \in 1..n : c + k \in 1..Len(more) /\ more[c + k] = m[k]
    <2> TAKE k \in 1..n
    <2>1. c + k \in 1..(c + n) /\ c + k > c /\ (c + k) - c = k
      BY <1>1
    <2>2. more[c + k] = SubSeq(m, 1, n)[k]
      BY <1>1, <1>2, <2>1
    <2> QED
      BY <1>2, <1>3, <2>1, <2>2
  <1> HIDE DEF c
  <1>6. \A i \in 1..Len(more) : i \in 1..c \/ (i - c \in 1..n /\ c + (i - c) = i /\ i > c)
    BY <1>1, <1>3
  <1>7. \A i \in 1..Len(more) : more[i] \in Nat /\ more[i] \in Lines
    BY <1>3, LengthFacts
  <1>8. o \in Nat /\ o2 \in Nat /\ d \in Nat /\ d2 \in Nat
    BY LengthFacts
  <1>9. DOMAIN sent = 1..c /\ DOMAIN more = 1..Len(more)
    BY <1>3 DEF c
  \* the new ones
  <1>10. ASSUME NEW i \in 1..Len(more), i \notin 1..c
         PROVE  /\ o <= 2 * more[i] - 2 /\ 2 * more[i] <= d2 /\ m # <<>>
                /\ \A j \in 1..Len(more) : j \notin 1..c => more[i] - more[j] = i - j
                /\ \A l \in Lines : o <= 2 * l - 2 /\ l <= more[i] => \E j \in 1..Len(more) : more[j] = l
    <2>1. i - c \in 1..n /\ i - c \in 1..Len(m) /\ c + (i - c) = i
      BY <1>1, <1>6, <1>10
    <2>2. more[i] = m[i - c]
      BY <1>5, <2>1
    <2>3. m # <<>>
      BY <2>1
    <2>4. o <= 2 * more[i] - 2 /\ 2 * more[i] <= d2
      BY <2>1, <2>2
    <2>5. ASSUME NEW j \in 1..Len(more), j \notin 1..c PROVE more[i] - more[j] = i - j
      <3>1. j - c \in 1..n /\ j - c \in 1..Len(m) /\ c + (j - c) = j
        BY <1>1, <1>6, <2>5
      <3>2. more[j] = m[j - c]
        BY <1>5, <3>1
      <3>3. m[i - c] - m[j - c] = (i - c) - (j - c)
        BY <2>1, <3>1
      <3>4. (i - c) - (j - c) = i - j
        BY <1>1
      <3> QED
        BY <2>2, <3>2, <3>3, <3>4
    <2>6. ASSUME NEW l \in Lines, o <= 2 * l - 2, l <= more[i] PROVE \E j \in 1..Len(more) : more[j] = l
      <3>1. PICK j \in 1..(i - c) : m[j] = l
        BY <2>1, <2>2, <2>6
      <3>2. j \in 1..n
        BY <1>1, <2>1, <3>1
      <3> QED
        BY <1>5, <3>1, <3>2
    <2> QED
      BY <2>3, <2>4, <2>5, <2>6
  <1>11. SentBefore(more, d2)
    <2> SUFFICES ASSUME NEW i \in 1..Len(more) PROVE 2 * more[i] <= d2
      BY DEF SentBefore
    <2>1. CASE i \in 1..c
      <3>1. more[i] = sent[i] /\ 2 * sent[i] <= d
        BY <1>4, <2>1 DEF SentBefore, c
      <3> QED
        BY <1>7, <1>8, <3>1
    <2>2. CASE i \notin 1..c
      BY <1>10, <2>2
    <2> QED
      BY <2>1, <2>2
  <1>12. ASSUME ~again2, NEW i \in 1..Len(more), NEW j \in 1..Len(more), i < j, more[i] = more[j]
         PROVE  2 * more[i] - 2 < o2
    <2>1. i \in 1..c
      <3> SUFFICES ASSUME i \notin 1..c PROVE FALSE
        OBVIOUS
      <3>1. j \notin 1..c
        BY <1>1, <1>6, <1>12
      <3>2. more[i] - more[j] = i - j
        BY <1>10, <3>1
      <3> QED
        BY <1>7, <1>12, <3>2
    <2>2. more[i] = sent[i] /\ 2 * sent[i] <= d
      BY <1>4, <2>1 DEF SentBefore, c
    <2>3. CASE j \in 1..c
      <3>1. more[j] = sent[j]
        BY <1>4, <2>3
      <3>2. 2 * sent[i] - 2 < o
        BY <1>12, <2>1, <2>2, <2>3, <3>1 DEF TwiceBefore, c
      <3>3. more[i] \in Nat /\ more[i] = sent[i] /\ o <= o2
        BY <1>7, <2>2
      <3> QED
        BY ONLY <1>8, <3>2, <3>3
    <2>4. CASE j \notin 1..c
      <3>1. m # <<>>
        BY <1>10, <2>4
      <3>2. d <= o2
        BY <1>12, <3>1
      <3>3. more[i] \in Nat /\ 2 * more[i] <= d
        BY <1>7, <2>2
      <3> QED
        BY ONLY <1>8, <3>2, <3>3
    <2> QED
      BY <2>3, <2>4
  <1>13. ~again2 => TwiceBefore(more, o2)
    BY <1>12, Zenon DEF TwiceBefore
  <1>14. Filled(more, o2)
    <2> SUFFICES ASSUME NEW l \in Lines, NEW i \in 1..Len(more), o2 <= 2 * l - 2, l <= more[i]
                 PROVE  \E j \in 1..Len(more) : more[j] = l
      BY DEF Filled
    <2>1. o <= 2 * l - 2
      BY <1>8, LengthFacts
    <2>2. CASE i \in 1..c
      <3>1. more[i] = sent[i]
        BY <1>4, <2>2
      <3>2. \E j \in 1..c : sent[j] = l
        BY <2>1, <2>2, <3>1 DEF Filled, c
      <3> QED
        BY <1>4, <3>2
    <2>3. CASE i \notin 1..c
      BY <1>10, <2>1, <2>3
    <2> QED
      BY <2>2, <2>3
  <1>15. ASSUME NEW i \in 1..Len(more), NEW j \in 1..Len(more), NEW k \in 1..Len(more),
                i < j, j < k, more[i] = more[j], more[j] = more[k], ~again2
         PROVE  FALSE
    <2>1. ~again
      BY <1>15
    <2>2. j \in 1..c
      <3> SUFFICES ASSUME j \notin 1..c PROVE FALSE
        OBVIOUS
      <3>1. k \notin 1..c
        BY <1>1, <1>6, <1>15
      <3>2. more[j] - more[k] = j - k
        BY <1>10, <3>1
      <3> QED
        BY <1>7, <1>15, <3>2
    <2>3. i \in 1..c
      BY <1>1, <1>15, <2>2
    <2>4. more[i] = sent[i] /\ more[j] = sent[j]
      BY <1>4, <2>2, <2>3
    <2>5. CASE k \in 1..c
      <3>1. more[k] = sent[k]
        BY <1>4, <2>5
      <3> QED
        BY <1>9, <1>15, <2>1, <2>2, <2>3, <2>4, <2>5, <3>1 DEF InOrder
    <2>6. CASE k \notin 1..c
      <3>1. o <= 2 * more[k] - 2
        BY <1>10, <2>6
      <3>2. 2 * sent[i] - 2 < o
        BY <1>15, <2>1, <2>2, <2>3, <2>4 DEF TwiceBefore, c
      <3> QED
        <4>1. more[k] = sent[i]
          BY <1>15, <2>4
        <4>2. sent[i] \in Nat
          BY <1>7, <2>4
        <4>3. o <= 2 * sent[i] - 2
          BY <3>1, <4>1
        <4> QED
          BY ONLY <1>8, <3>2, <4>2, <4>3
    <2> QED
      BY <2>5, <2>6
  <1>16. ASSUME NEW i \in 1..Len(more), \A j \in 1..(i - 1) : more[j] # more[i], NEW j \in 1..(i - 1)
         PROVE  more[j] < more[i]
    <2>1. j \in 1..Len(more) /\ j < i
      BY <1>3
    <2>2. CASE i \in 1..c
      <3>1. \A k \in 1..(i - 1) : k \in 1..c
        BY <1>1, <2>2
      <3>2. \A k \in 1..(i - 1) : more[k] = sent[k]
        BY <1>4, <3>1
      <3>3. more[i] = sent[i]
        BY <1>4, <2>2
      <3>4. \A k \in 1..(i - 1) : sent[k] # sent[i]
        BY <1>16, <3>2, <3>3
      <3>5. sent[j] < sent[i]
        BY <1>9, <2>2, <3>4 DEF InOrder
      <3> QED
        BY <3>2, <3>3, <3>5
    <2>3. CASE i \notin 1..c /\ j \notin 1..c
      <3>1. more[i] - more[j] = i - j
        BY <1>10, <2>1, <2>3
      <3> QED
        BY <1>7, <2>1, <3>1
    <2>4. CASE i \notin 1..c /\ j \in 1..c
      <3>1. more[j] = sent[j]
        BY <1>4, <2>4
      <3>2. o <= 2 * more[i] - 2
        BY <1>10, <2>4
      <3> SUFFICES ASSUME ~(more[j] < more[i]) PROVE FALSE
        OBVIOUS
      <3>3. more[i] <= sent[j] /\ more[i] \in Lines
        BY <1>7, <2>1, <3>1
      <3>4. PICK k \in 1..c : sent[k] = more[i]
        BY <2>4, <3>2, <3>3 DEF Filled, c
      <3>5. i > c /\ i \in Nat
        BY <1>3, <1>6, <2>4
      <3>6. k \in 1..(i - 1) /\ more[k] = sent[k]
        <4>1. k \in 1..(i - 1)
          BY ONLY <1>1, <3>4, <3>5
        <4>2. more[k] = sent[k]
          BY <1>4, <3>4
        <4> QED
          BY <4>1, <4>2
      <3> QED
        BY <1>16, <3>4, <3>6
    <2> QED
      BY <2>2, <2>3, <2>4
  <1>17. InOrder(more, again2)
    <2>1. \A i, j, k \in DOMAIN more :
             i < j /\ j < k /\ more[i] = more[j] /\ more[j] = more[k] => again2
      BY <1>9, <1>15, Zenon
    <2>2. \A i \in DOMAIN more :
             (\A j \in 1..(i - 1) : more[j] # more[i]) => \A j \in 1..(i - 1) : more[j] < more[i]
      BY <1>9, <1>16, Zenon
    <2> QED
      BY <2>1, <2>2 DEF InOrder
  <1> QED
    BY <1>3, <1>4, <1>5, <1>11, <1>13, <1>14, <1>17 DEF c

\* A file change that is read, as the invariant sees it.
LEMMA FileChangedOffset ==
    ASSUME TypeOK, KnownInv, NEW s \in Sessions, NEW r, NEW last, ReadsOf(s, r, last)
    PROVE  /\ PathOf[s] \in Paths /\ disk[PathOf[s]] \in Lengths /\ r[last].len \in Lengths
           /\ r[last].stop \in Lengths /\ Offset(s) \in Lengths /\ Offset(s) <= disk[PathOf[s]]
           /\ disk[PathOf[s]] <= r[last].len /\ r[last].len <= r[last].stop
           /\ ReadIn(s, r, last).offset \in {Offset(s), r[last].len}
           /\ ReadIn(s, r, last).offset \in Lengths /\ ReadIn(s, r, last).offset <= r[last].stop
           /\ Offset(s) <= ReadIn(s, r, last).offset
  <1>1. PathOf[s] \in Paths /\ disk[PathOf[s]] \in Lengths
    BY ViewerTypes DEF TypeOK
  <1>2. Offset(s) \in Lengths /\ Offset(s) <= disk[PathOf[s]]
    <2>1. sessions[s].watch_offset \in Lengths \cup {None}
      BY DEF TypeOK, SessionState
    <2>2. sessions[s].watch_offset # None => sessions[s].watch_offset <= disk[PathOf[s]]
      BY DEF KnownInv
    <2>3. 0 \in Lengths /\ 0 <= disk[PathOf[s]]
      <3>1. disk[PathOf[s]] \in Nat /\ 0 \in Lengths
        BY <1>1, LengthFacts
      <3> QED
        BY <3>1
    <2> QED
      BY <2>1, <2>2, <2>3 DEF Offset
  <1>3. /\ r[last].len \in Lengths /\ r[last].stop \in Lengths
        /\ disk[PathOf[s]] <= r[last].len /\ r[last].len <= r[last].stop
    BY DEF ReadsOf
  <1>4. /\ ReadIn(s, r, last).offset \in {Offset(s), r[last].len}
        /\ Offset(s) <= ReadIn(s, r, last).offset
    BY <1>2, <1>3, ReadFacts DEF ReadIn
  <1>5. ReadIn(s, r, last).offset <= r[last].stop /\ ReadIn(s, r, last).offset \in Lengths
    <2>1. /\ Offset(s) \in Nat /\ disk[PathOf[s]] \in Nat /\ r[last].len \in Nat /\ r[last].stop \in Nat
      BY <1>1, <1>2, <1>3, LengthFacts
    <2>2. Offset(s) <= r[last].stop
      BY <1>2, <1>3, <2>1
    <2> QED
      BY <1>2, <1>3, <1>4, <2>2
  <1> QED
    BY <1>1, <1>2, <1>3, <1>4, <1>5

\* Files only grow.
LEMMA GrowNext ==
    ASSUME TypeOK, [Next]_vars, NEW p \in Paths PROVE disk[p] <= disk'[p]
  <1>1. disk \in [Paths -> Lengths] /\ disk[p] \in Nat /\ disk[p] <= disk[p]
    <2>1. disk \in [Paths -> Lengths] /\ disk[p] \in Lengths
      BY DEF TypeOK
    <2>2. disk[p] \in Nat
      BY <2>1, LengthFacts
    <2> QED
      BY <2>1, <2>2
  <1>2. ASSUME disk' = disk PROVE disk[p] <= disk'[p]
    BY <1>1, <1>2
  <1>3. ASSUME NEW q \in Paths, AgentWrites(q) PROVE disk[p] <= disk'[p]
    <2>1. PICK len \in Longer(disk[q]) : disk' = [disk EXCEPT ![q] = len]
      BY <1>3 DEF AgentWrites
    <2>2. disk[q] < len /\ len \in Nat
      BY <2>1, LengthFacts DEF Longer
    <2> QED
      BY <1>1, <2>1, <2>2
  <1>4. CASE HandleWatchSession
    <2> DEFINE s == Head(client_rx).session
    <2>1. s \in Sessions /\ PathOf[s] \in Paths /\ disk[PathOf[s]] \in Lengths
      <3>1. s \in Sessions
        BY <1>4, TypeRequest DEF HandleWatchSession
      <3> QED
        BY <1>1, <3>1, ViewerTypes
    <2>2. CASE sessions[s].jsonl_path
      <3>1. PICK len \in Meanwhile(disk[PathOf[s]]) : disk' = [disk EXCEPT ![PathOf[s]] = len]
        BY <1>4, <2>2 DEF HandleWatchSession
      <3>2. disk[PathOf[s]] <= len
        BY <2>1, <3>1, MeanwhileFacts
      <3> QED
        BY <1>1, <3>1, <3>2
    <2>3. CASE ~sessions[s].jsonl_path
      BY <1>2, <1>4, <2>3 DEF HandleWatchSession
    <2> QED
      BY <2>2, <2>3
  <1>5. ASSUME NEW s \in Sessions, FileChanged(s) PROVE disk[p] <= disk'[p]
    <2>1. CASE message_subscribers[s] = {}
      BY <1>2, <1>5, <2>1 DEF FileChanged
    <2>2. CASE message_subscribers[s] # {}
      <3>1. PICK r, last : FileRead(s, r, last)
        BY <1>5, <2>2, FileChangedReads
      <3>2. ReadsOf(s, r, last) /\ disk' = [disk EXCEPT ![PathOf[s]] = r[last].stop]
        BY <3>1 DEF FileRead
      <3>3. r[last].len \in Nat /\ r[last].stop \in Nat /\ PathOf[s] \in Paths /\ disk[PathOf[s]] \in Nat
            /\ disk[PathOf[s]] <= r[last].len /\ r[last].len <= r[last].stop
        BY <1>1, <3>2, LengthFacts, ViewerTypes DEF ReadsOf
      <3>4. disk[PathOf[s]] <= r[last].stop
        BY <3>3
      <3> QED
        BY <1>1, <3>2, <3>3, <3>4
    <2> QED
      BY <2>1, <2>2
  <1>6. ASSUME NEW q \in Paths, Bridge(q) PROVE disk[p] <= disk'[p]
    BY <1>2, <1>6 DEF Bridge
  <1>7. ASSUME NEW s \in Sessions, HookEvent(s) \/ RemoveSession(s) PROVE disk[p] <= disk'[p]
    BY <1>2, <1>7 DEF HookEvent, RemoveSession
  <1>8. ASSUME NEW v \in Sockets,
               SocketHangsUp(v) \/ SocketTask(v) \/ \E s \in Sessions : SocketWatches(v, s)
        PROVE  disk[p] <= disk'[p]
    BY <1>2, <1>8 DEF SocketHangsUp, SocketTask, SocketWatches
  <1>9. ASSUME NEW v \in Pages,
               \/ PageFetches(v) \/ PageWatches(v) \/ PageShows(v) \/ PageCloses(v) \/ PageDeselects(v)
               \/ \E s \in Sessions : PageSelects(v, s)
        PROVE  disk[p] <= disk'[p]
    BY <1>2, <1>9 DEF PageFetches, PageWatches, PageShows, PageCloses, PageDeselects, PageSelects
  <1>10. CASE HandleGetMessages \/ HandleUnwatchSession \/ UNCHANGED vars
    BY <1>2, <1>10 DEF HandleGetMessages, HandleUnwatchSession, vars
  <1> QED
    BY <1>3, <1>4, <1>5, <1>6, <1>7, <1>8, <1>9, <1>10 DEF Next, MainLoop

\* A viewer that has gone stays away.
LEMMA ClosedNext ==
    ASSUME TypeOK, WatchInv, [Next]_vars, NEW u \in Viewers, Closed(u) PROVE Closed(u)'
  <1>1. viewer[u] \in Viewer /\ viewer \in [Viewers -> Viewer]
    BY DEF TypeOK
  <1>2. ASSUME viewer'[u].task = viewer[u].task PROVE Closed(u)'
    BY <1>2 DEF Closed
  <1>3. CASE HandleGetMessages
    <2> DEFINE v == Head(client_rx).viewer
    <2>1. viewer' = [viewer EXCEPT ![v].task = "fetched"] /\ client_rx # <<>> /\ Head(client_rx).type = "GetMessages"
      BY <1>3 DEF HandleGetMessages, Receive
    <2>2. client_rx \in Seq(ClientMessage)
      BY DEF TypeOK
    <2>3. 1 \in 1..Len(client_rx) /\ Head(client_rx) = client_rx[1]
      BY <2>1, <2>2, TailFacts
    <2>4. RequestsInv(client_rx, message_subscribers, u, viewer[u])
      BY DEF WatchInv, ViewerInv
    <2>5. u # v
      BY <2>1, <2>3, <2>4 DEF RequestsInv, FetchesIn, FetchAt, Closed
    <2> QED
      BY <1>1, <1>2, <2>1, <2>5
  <1>4. CASE HandleWatchSession \/ HandleUnwatchSession \/ \E s \in Sessions : FileChanged(s)
    BY <1>2, <1>4 DEF HandleWatchSession, HandleUnwatchSession, FileChanged
  <1>5. ASSUME NEW p \in Paths, AgentWrites(p) \/ Bridge(p) PROVE Closed(u)'
    BY <1>2, <1>5 DEF AgentWrites, Bridge
  <1>6. ASSUME NEW s \in Sessions, HookEvent(s) \/ RemoveSession(s) PROVE Closed(u)'
    BY <1>2, <1>6 DEF HookEvent, RemoveSession
  <1>7. ASSUME NEW v \in Sockets,
               SocketHangsUp(v) \/ SocketTask(v) \/ \E s \in Sessions : SocketWatches(v, s)
        PROVE  Closed(u)'
    <2>1. CASE u = v
      <3>1. SocketTask(v) \/ viewer[v].task \in {"watching", "new"}
        BY <1>7 DEF SocketHangsUp, SocketWatches
      <3> QED
        BY <2>1, <3>1 DEF Closed, SocketTask
    <2>2. CASE u # v
      BY <1>1, <1>2, <1>7, <2>2 DEF SocketHangsUp, SocketTask, SocketWatches
    <2> QED
      BY <2>1, <2>2
  <1>8. ASSUME NEW v \in Pages,
               \/ PageFetches(v) \/ PageWatches(v) \/ PageShows(v) \/ PageCloses(v) \/ PageDeselects(v)
               \/ \E s \in Sessions : PageSelects(v, s)
        PROVE  Closed(u)'
    <2>1. CASE u = v
      <3>1. v \notin Sockets /\ viewer[v].task # "ended"
        BY PageFacts
      <3>2. viewer[v].task = "closed"
        BY <2>1, <3>1 DEF Closed
      <3> QED
        BY <1>8, <3>2 DEF PageFetches, PageWatches, PageShows, PageCloses, PageDeselects, PageSelects
    <2>2. CASE u # v
      BY <1>1, <1>2, <1>8, <2>2 DEF PageFetches, PageWatches, PageShows, PageCloses, PageDeselects, PageSelects
    <2> QED
      BY <2>1, <2>2
  <1>9. CASE UNCHANGED vars
    BY <1>2, <1>9 DEF vars
  <1> QED
    BY <1>3, <1>4, <1>5, <1>6, <1>7, <1>8, <1>9 DEF Next, MainLoop

\* The steps that leave the daemon's sessions, subscribers and channels alone.
LEMMA OtherSteps ==
    ASSUME [Next]_vars
    PROVE  \/ UNCHANGED <<sessions, message_subscribers, stream>>
           \/ \E s \in Sessions : HookEvent(s) \/ RemoveSession(s) \/ FileChanged(s)
           \/ HandleGetMessages \/ HandleWatchSession \/ HandleUnwatchSession
  <1>1. CASE Next
    <2>1. ASSUME NEW p \in Paths, AgentWrites(p) \/ Bridge(p)
          PROVE  UNCHANGED <<sessions, message_subscribers, stream>>
      BY <2>1 DEF AgentWrites, Bridge, daemon
    <2>2. ASSUME NEW v \in Sockets,
                 SocketHangsUp(v) \/ SocketTask(v) \/ \E s \in Sessions : SocketWatches(v, s)
          PROVE  UNCHANGED <<sessions, message_subscribers, stream>>
      BY <2>2 DEF SocketHangsUp, SocketTask, SocketWatches, daemon
    <2>3. ASSUME NEW v \in Pages,
                 \/ PageFetches(v) \/ PageWatches(v) \/ PageShows(v) \/ PageCloses(v) \/ PageDeselects(v)
                 \/ \E s \in Sessions : PageSelects(v, s)
          PROVE  UNCHANGED <<sessions, message_subscribers, stream>>
      BY <2>3 DEF PageFetches, PageWatches, PageShows, PageCloses, PageDeselects, PageSelects, daemon
    <2> QED
      BY <1>1, <2>1, <2>2, <2>3 DEF Next, MainLoop
  <1>2. CASE UNCHANGED vars
    BY <1>2 DEF vars
  <1> QED
    BY <1>1, <1>2

\* Every step keeps the offsets behind the files.
LEMMA KnownNext ==
    ASSUME TypeOK, WatchInv, KnownInv, [Next]_vars PROVE KnownInv'
  <1>1. /\ \A s \in Sessions : PathOf[s] \in Paths
        /\ \A s \in Sessions : disk[PathOf[s]] \in Lengths /\ disk'[PathOf[s]] \in Lengths
        /\ sessions \in [Sessions -> SessionState] /\ disk \in [Paths -> Lengths]
    BY TypeNext, ViewerTypes DEF TypeOK
  <1>2. \A s \in Sessions : disk[PathOf[s]] <= disk'[PathOf[s]]
    BY <1>1, GrowNext
  <1>3. ASSUME NEW s \in Sessions, sessions'[s].watch_offset \in {sessions[s].watch_offset, None},
               sessions'[s].watch_offset # None
        PROVE  sessions'[s].watch_offset <= disk'[PathOf[s]]
    <2>1. sessions[s].watch_offset # None /\ sessions'[s].watch_offset = sessions[s].watch_offset
      BY <1>3
    <2>2. sessions[s].watch_offset \in Lengths /\ sessions[s].watch_offset <= disk[PathOf[s]]
      BY <1>1, <2>1 DEF KnownInv, SessionState
    <2>3. sessions[s].watch_offset \in Nat /\ disk[PathOf[s]] \in Nat /\ disk'[PathOf[s]] \in Nat
      BY <1>1, <2>2, LengthFacts
    <2> QED
      BY <1>2, <2>1, <2>2, <2>3
  <1>4. CASE UNCHANGED sessions
    BY <1>3, <1>4 DEF KnownInv
  <1>5. ASSUME NEW s \in Sessions, HookEvent(s) PROVE KnownInv'
    <2>1. PICK found \in {FALSE, ~sessions[s].jsonl_path} :
             sessions' = [t \in Sessions |->
                     [sessions[t] EXCEPT !.known = @ \/ t = s,
                          !.jsonl_path = @ \/ (found /\ (t = s \/ (sessions[t].known /\ PathOf[t] = PathOf[s])))]]
      BY <1>5 DEF HookEvent
    <2>2. ASSUME NEW t \in Sessions
          PROVE  /\ ~sessions'[t].known => ~sessions'[t].jsonl_path /\ sessions'[t].watch_offset = None
                 /\ sessions'[t].watch_offset = sessions[t].watch_offset
      <3> DEFINE known == sessions[t].known \/ t = s
                 path == sessions[t].jsonl_path
                            \/ (found /\ (t = s \/ (sessions[t].known /\ PathOf[t] = PathOf[s])))
      <3>1. sessions'[t] = [sessions[t] EXCEPT !.known = known, !.jsonl_path = path]
        BY <2>1
      <3>2. sessions[t] \in SessionState
        BY <1>1
      <3>3. ~known => ~path
        BY DEF KnownInv
      <3> HIDE DEF known, path
      <3>4. /\ sessions'[t].known = known /\ sessions'[t].jsonl_path = path
            /\ sessions'[t].watch_offset = sessions[t].watch_offset
        BY <3>1, <3>2 DEF SessionState
      <3>5. ~known => sessions[t].watch_offset = None
        BY DEF KnownInv, known
      <3> QED
        BY <3>3, <3>4, <3>5
    <2> QED
      BY <1>3, <2>2 DEF KnownInv
  <1>6. ASSUME NEW s \in Sessions, RemoveSession(s) PROVE KnownInv'
    <2>1. \A t \in Sessions : sessions'[t] = IF t = s THEN Unknown ELSE sessions[t]
      BY <1>1, <1>6 DEF RemoveSession
    <2>2. ASSUME NEW t \in Sessions
          PROVE  /\ ~sessions'[t].known => ~sessions'[t].jsonl_path /\ sessions'[t].watch_offset = None
                 /\ sessions'[t].watch_offset \in {sessions[t].watch_offset, None}
      <3>1. CASE t = s
        BY <2>1, <3>1 DEF Unknown
      <3>2. CASE t # s
        BY <2>1, <3>2 DEF KnownInv
      <3> QED
        BY <3>1, <3>2
    <2> QED
      BY <1>3, <2>2 DEF KnownInv
  <1>7. CASE HandleGetMessages
    BY <1>4, <1>7 DEF HandleGetMessages, daemon
  <1>8. ASSUME NEW s \in Sessions, NEW o \in Lengths \cup {None}, sessions' = [sessions EXCEPT ![s].watch_offset = o],
               o # None => sessions[s].known /\ o <= disk'[PathOf[s]]
        PROVE  KnownInv'
    <2>1. ASSUME NEW t \in Sessions, t # s PROVE sessions'[t] = sessions[t]
      BY <1>1, <1>8, <2>1
    <2>2. sessions'[s].known = sessions[s].known /\ sessions'[s].jsonl_path = sessions[s].jsonl_path
          /\ sessions'[s].watch_offset = o
      BY <1>1, <1>8 DEF SessionState
    <2>3. ASSUME NEW t \in Sessions
          PROVE  /\ ~sessions'[t].known => ~sessions'[t].jsonl_path /\ sessions'[t].watch_offset = None
                 /\ sessions'[t].watch_offset # None => sessions'[t].watch_offset <= disk'[PathOf[t]]
      <3>1. CASE t = s
        BY <1>8, <2>2, <3>1 DEF KnownInv
      <3>2. CASE t # s
        BY <1>3, <2>1, <3>2 DEF KnownInv
      <3> QED
        BY <3>1, <3>2
    <2> QED
      BY <2>3 DEF KnownInv
  <1>9. CASE HandleWatchSession
    <2> DEFINE s == Head(client_rx).session
    <2>1. s \in Sessions
      BY <1>9, TypeRequest DEF HandleWatchSession
    <2>2. CASE sessions[s].jsonl_path
      <3>1. sessions' = [sessions EXCEPT ![s].watch_offset = disk[PathOf[s]]]
        BY <1>9, <2>2 DEF HandleWatchSession
      <3>2. sessions[s].known /\ disk[PathOf[s]] \in Lengths \cup {None} /\ disk[PathOf[s]] <= disk'[PathOf[s]]
        BY <1>1, <1>2, <2>1, <2>2 DEF KnownInv
      <3> QED
        BY <1>8, <2>1, <3>1, <3>2
    <2>3. CASE ~sessions[s].jsonl_path
      BY <1>4, <1>9, <2>3 DEF HandleWatchSession
    <2> QED
      BY <2>2, <2>3
  <1>10. CASE HandleUnwatchSession
    <2> DEFINE s == Head(client_rx).session
    <2>1. s \in Sessions
      BY <1>10, TypeRequest DEF HandleUnwatchSession
    <2>2. sessions' = [sessions EXCEPT ![s].watch_offset = None]
      BY <1>10 DEF HandleUnwatchSession
    <2> QED
      BY <1>8, <2>1, <2>2
  <1>11. ASSUME NEW s \in Sessions, FileChanged(s) PROVE KnownInv'
    <2>1. CASE message_subscribers[s] = {} \/ ~sessions[s].known
      <3>1. sessions' = sessions
        <4>1. CASE message_subscribers[s] = {}
          BY <1>11, <4>1 DEF FileChanged
        <4>2. CASE message_subscribers[s] # {} /\ ~sessions[s].known
          BY <1>11, <4>2, FileChangedReads DEF FileRead
        <4> QED
          BY <2>1, <4>1, <4>2
      <3> QED
        BY <1>4, <3>1
    <2>2. CASE message_subscribers[s] # {} /\ sessions[s].known
      <3>1. PICK r, last : FileRead(s, r, last)
        BY <1>11, <2>2, FileChangedReads
      <3>2. /\ ReadsOf(s, r, last) /\ disk' = [disk EXCEPT ![PathOf[s]] = r[last].stop]
            /\ sessions' = [sessions EXCEPT ![s].watch_offset = ReadIn(s, r, last).offset]
        BY <2>2, <3>1 DEF FileRead
      <3>3. ReadIn(s, r, last).offset \in Lengths /\ ReadIn(s, r, last).offset <= r[last].stop
        BY <3>2, FileChangedOffset
      <3>4. disk'[PathOf[s]] = r[last].stop
        BY <1>1, <3>2
      <3> QED
        BY <1>8, <2>2, <3>2, <3>3, <3>4
    <2> QED
      BY <2>1, <2>2
  <1> QED
    BY <1>4, <1>5, <1>6, <1>7, <1>9, <1>10, <1>11, OtherSteps

\* What HandleGetMessages, HandleWatchSession and HandleUnwatchSession find.
LEMMA RequestFacts ==
    ASSUME TypeOK, HandleGetMessages \/ HandleWatchSession \/ HandleUnwatchSession
    PROVE  /\ client_rx \in Seq(ClientMessage) /\ client_rx # <<>>
           /\ Head(client_rx) = client_rx[1] /\ 1 \in 1..Len(client_rx)
           /\ Head(client_rx).viewer \in Viewers /\ Head(client_rx).session \in Sessions
           /\ PathOf[Head(client_rx).session] \in Paths
           /\ disk[PathOf[Head(client_rx).session]] \in Lengths
           /\ HandleWatchSession => Head(client_rx).type = "WatchSession"
  <1>1. client_rx # <<>> /\ client_rx \in Seq(ClientMessage)
    BY DEF HandleGetMessages, HandleWatchSession, HandleUnwatchSession, Receive, TypeOK
  <1>2. Head(client_rx) = client_rx[1] /\ 1 \in 1..Len(client_rx)
    BY <1>1, TailFacts
  <1>3. Head(client_rx).viewer \in Viewers /\ Head(client_rx).session \in Sessions
    BY TypeRequest DEF HandleGetMessages, HandleWatchSession, HandleUnwatchSession
  <1>4. PathOf[Head(client_rx).session] \in Paths /\ disk[PathOf[Head(client_rx).session]] \in Lengths
    BY <1>3, ViewerTypes DEF TypeOK
  <1>5. HandleWatchSession => Head(client_rx).type = "WatchSession"
    BY DEF HandleWatchSession, Receive
  <1> QED
    BY <1>1, <1>2, <1>3, <1>4, <1>5

\* A viewer whose request to watch is handled is sent nothing by then.
LEMMA WatchesAlone ==
    ASSUME TypeOK, WatchInv, HandleWatchSession
    PROVE  \A t \in Sessions : Head(client_rx).viewer \notin message_subscribers[t]
  <1> DEFINE v == Head(client_rx).viewer
             s == Head(client_rx).session
  <1>1. /\ Head(client_rx) = client_rx[1] /\ 1 \in 1..Len(client_rx) /\ v \in Viewers /\ s \in Sessions
        /\ Head(client_rx).type = "WatchSession"
    BY RequestFacts
  <1>2. WatchAt(client_rx, 1, v, s)
    BY <1>1 DEF WatchAt
  <1>3. AloneIn(client_rx, message_subscribers, v)
    BY <1>1 DEF WatchInv, ViewerInv, RequestsInv
  <1>4. \A t \in Sessions : ~Open(client_rx, message_subscribers, v, t, 1)
    BY <1>1, <1>2, <1>3 DEF AloneIn
  <1> QED
    BY <1>4, OpenFirst

\* The stream a viewer's request begins.
Fresh(v, s) ==
    [NoStream EXCEPT !.from = disk[PathOf[s]], !.shared = message_subscribers[s] \ {v} # {},
                     !.gap = parse_lines(stream[v].history, disk[PathOf[s]]) # <<>>]

\* What HandleWatchSession does to the streams.
LEMMA WatchedStreams ==
    ASSUME TypeOK, WatchInv, HandleWatchSession,
           NEW v, v = Head(client_rx).viewer, NEW s, s = Head(client_rx).session
    PROVE  /\ v \in Viewers /\ s \in Sessions /\ viewer' = viewer
           /\ \A t \in Sessions : message_subscribers'[t] =
                 IF t = s THEN message_subscribers[t] \cup {v} ELSE message_subscribers[t]
           /\ stream'[v] = Fresh(v, s)
           /\ \A w \in Viewers \ {v} :
                 stream'[w] = [stream[w] EXCEPT !.shared = stream[w].shared \/ w \in message_subscribers[s]]
           /\ \A t \in Sessions : v \notin message_subscribers[t]
  <1>1. v \in Viewers /\ s \in Sessions
    BY RequestFacts
  <1>2. message_subscribers' = [message_subscribers EXCEPT ![s] = @ \cup {v}] /\ viewer' = viewer
    BY DEF HandleWatchSession
  <1>3. stream' = [w \in Viewers |-> IF w = v THEN Fresh(v, s)
                                    ELSE [stream[w] EXCEPT !.shared = @ \/ w \in message_subscribers[s] \ {v}]]
    BY DEF HandleWatchSession, Fresh
  <1>4. \A t \in Sessions : v \notin message_subscribers[t]
    BY WatchesAlone
  <1>5. stream'[v] = Fresh(v, s)
    BY <1>1, <1>3
  <1>6. \A w \in Viewers \ {v} :
           stream'[w] = [stream[w] EXCEPT !.shared = stream[w].shared \/ w \in message_subscribers[s]]
    <2> TAKE w \in Viewers \ {v}
    <2>1. stream'[w] = [stream[w] EXCEPT !.shared = @ \/ w \in message_subscribers[s] \ {v}]
      BY <1>3
    <2>2. (w \in message_subscribers[s] \ {v}) <=> w \in message_subscribers[s]
      OBVIOUS
    <2> QED
      BY <2>1, <2>2
  <1>7. \A t \in Sessions : message_subscribers'[t] =
                 IF t = s THEN message_subscribers[t] \cup {v} ELSE message_subscribers[t]
    BY <1>1, <1>2 DEF TypeOK
  <1> QED
    BY <1>1, <1>2, <1>4, <1>5, <1>6, <1>7

\* What the daemon remembers of a stream while it goes on.
Same(S, T) ==
    /\ T.sent = S.sent /\ T.from = S.from /\ T.cuts = S.cuts /\ T.lost = S.lost
    /\ T.again = S.again /\ T.shared = S.shared /\ T.forgotten = S.forgotten

\* The answer to get_messages leaves what was sent alone.
LEMMA FetchedStreams ==
    ASSUME TypeOK, HandleGetMessages, NEW v \in Viewers
    PROVE  Same(stream[v], stream'[v])
  <1> DEFINE u == Head(client_rx).viewer
             h == IF read_messages(disk[PathOf[Head(client_rx).session]], Limit) = <<>> THEN 0
                  ELSE disk[PathOf[Head(client_rx).session]]
  <1>1. stream' = [stream EXCEPT ![u].history = h]
    BY DEF HandleGetMessages
  <1> HIDE DEF h
  <1> QED
    BY <1>1 DEF TypeOK, Stream, Same

\* What a file change adds to a viewer's stream.
LEMMA ChangedStreams ==
    ASSUME TypeOK, NEW s \in Sessions, FileChanged(s), NEW v \in Viewers, ~stream'[v].forgotten
    PROVE  ~stream[v].forgotten /\ stream'[v].shared = stream[v].shared
  <1>1. stream[v] \in Stream
    BY DEF TypeOK
  <1>2. CASE message_subscribers[s] = {}
    BY <1>2 DEF FileChanged
  <1>3. CASE message_subscribers[s] # {}
    <2>1. PICK r, last : FileRead(s, r, last)
      BY <1>3, FileChangedReads
    <2> DEFINE sent == stream[v].sent \o SubSeq(Gets(s, r, v), 1, Fits(s, r, v))
               lost == stream[v].lost \/ Fits(s, r, v) < Len(Gets(s, r, v))
               again == stream[v].again \/ (Gets(s, r, v) # <<>> /\ ~Readable(Offset(s), r[last].stop))
               cuts == stream[v].cuts \cup ({ReadIn(s, r, last).offset} \cap Insides)
    <2>2. stream'[v] =
             IF v \notin message_subscribers[s] \/ Closed(v) \/ stream[v].forgotten THEN stream[v]
             ELSE IF sessions[s].watch_offset = None THEN [NoStream EXCEPT !.forgotten = TRUE]
             ELSE [stream[v] EXCEPT !.sent = sent, !.lost = lost, !.again = again, !.cuts = cuts]
      BY <2>1 DEF FileRead
    <2> HIDE DEF sent, lost, again, cuts
    <2>3. [NoStream EXCEPT !.forgotten = TRUE].forgotten = TRUE
      BY DEF NoStream
    <2>4. [stream[v] EXCEPT !.sent = sent, !.lost = lost, !.again = again, !.cuts = cuts].shared = stream[v].shared
      BY <1>1 DEF Stream
    <2> QED
      BY <2>2, <2>3, <2>4
  <1> QED
    BY <1>2, <1>3

\* A second viewer of a session is noticed by the first.
LEMMA SharedNext ==
    ASSUME TypeOK, WatchInv, SharedInv, [Next]_vars PROVE SharedInv'
  <1> SUFFICES ASSUME NEW u \in Viewers, NEW t \in Sessions,
                      u \in message_subscribers'[t], ~stream'[u].shared, ~stream'[u].forgotten
               PROVE  message_subscribers'[t] = {u}
    BY DEF SharedInv
  <1>1. ASSUME u \in message_subscribers[t], ~stream[u].shared, ~stream[u].forgotten,
               message_subscribers'[t] \subseteq message_subscribers[t]
        PROVE  message_subscribers'[t] = {u}
    <2>1. message_subscribers[t] = {u}
      BY <1>1 DEF SharedInv
    <2> QED
      BY <1>1, <2>1
  <1>2. CASE UNCHANGED <<message_subscribers, stream>>
    BY <1>1, <1>2
  <1>3. CASE HandleGetMessages
    <2>1. message_subscribers' = message_subscribers /\ Same(stream[u], stream'[u])
      BY <1>3, FetchedStreams DEF HandleGetMessages, daemon
    <2> QED
      BY <1>1, <2>1 DEF Same
  <1>4. CASE HandleUnwatchSession
    <2>1. message_subscribers'[t] \subseteq message_subscribers[t] /\ stream' = stream
      BY <1>4 DEF HandleUnwatchSession, TypeOK
    <2> QED
      BY <1>1, <2>1
  <1>5. CASE HandleWatchSession
    <2> DEFINE v == Head(client_rx).viewer
               s == Head(client_rx).session
    <2>1. /\ v \in Viewers /\ s \in Sessions
          /\ \A x \in Sessions : message_subscribers'[x] =
                IF x = s THEN message_subscribers[x] \cup {v} ELSE message_subscribers[x]
          /\ stream'[v] = Fresh(v, s)
          /\ \A w \in Viewers \ {v} :
                stream'[w] = [stream[w] EXCEPT !.shared = stream[w].shared \/ w \in message_subscribers[s]]
          /\ \A x \in Sessions : v \notin message_subscribers[x]
      BY <1>5, WatchedStreams
    <2> HIDE DEF v, s
    <2>2. CASE u = v
      <3>1. t = s
        BY <2>1, <2>2
      <3>2. message_subscribers[s] \ {v} = {}
        BY <2>1, <2>2 DEF Fresh, NoStream
      <3> QED
        BY <2>1, <2>2, <3>1, <3>2
    <2>3. CASE u # v
      <3> DEFINE b == stream[u].shared \/ u \in message_subscribers[s]
      <3>1. stream'[u] = [stream[u] EXCEPT !.shared = b] /\ stream[u] \in Stream
        BY <2>1, <2>3 DEF TypeOK
      <3> HIDE DEF b
      <3>2. stream'[u].shared = b /\ stream'[u].forgotten = stream[u].forgotten
        BY <3>1 DEF Stream
      <3>3. ~stream[u].shared /\ u \notin message_subscribers[s]
        BY <3>2 DEF b
      <3>4. t # s
        BY <2>1, <2>3, <3>3
      <3> QED
        BY <1>1, <2>1, <3>2, <3>3, <3>4
    <2> QED
      BY <2>2, <2>3
  <1>6. ASSUME NEW s \in Sessions, FileChanged(s) PROVE message_subscribers'[t] = {u}
    <2>1. ~stream[u].forgotten /\ stream'[u].shared = stream[u].shared
      BY <1>6, ChangedStreams
    <2>2. message_subscribers'[t] \subseteq message_subscribers[t]
      BY <1>6 DEF FileChanged
    <2> QED
      BY <1>1, <2>1, <2>2
  <1>7. ASSUME NEW s \in Sessions, HookEvent(s) \/ RemoveSession(s) PROVE message_subscribers'[t] = {u}
    BY <1>2, <1>7 DEF HookEvent, RemoveSession
  <1> QED
    BY <1>2, <1>3, <1>4, <1>5, <1>6, <1>7, OtherSteps

\* A file change that a viewer is sent.
LEMMA ReadStream ==
    ASSUME TypeOK, StreamInv, NEW s \in Sessions, NEW r, NEW last, FileRead(s, r, last),
           NEW u \in Viewers, Receives(u, s), sessions[s].watch_offset # None
    PROVE  /\ InOrder(stream'[u].sent, stream'[u].again)
           /\ StreamOf(stream'[u], sessions'[s].watch_offset, disk'[PathOf[s]])
  <1> DEFINE S == stream[u]
             o == Offset(s)
             d == disk[PathOf[s]]
             f == FormatOf[u]
             m == Gets(s, r, u)
             n == Fits(s, r, u)
             o2 == ReadIn(s, r, last).offset
             d2 == r[last].stop
             more == S.sent \o SubSeq(m, 1, n)
             lost == S.lost \/ n < Len(m)
             again == S.again \/ (m # <<>> /\ ~Readable(o, d2))
             cuts == S.cuts \cup ({o2} \cap Insides)
  <1>1. u \in message_subscribers[s] /\ ~Closed(u) /\ ~S.forgotten /\ S \in Stream /\ ReadsOf(s, r, last)
    BY DEF Receives, TypeOK, FileRead
  <1>2. /\ S.sent \in Seq(Lines) /\ S.lost \in BOOLEAN /\ S.again \in BOOLEAN /\ S.cuts \in SUBSET Insides
        /\ S.from \in Lengths /\ S.shared \in BOOLEAN
    BY <1>1 DEF Stream
  <1>3. o = sessions[s].watch_offset /\ sessions[s].known
    BY DEF Offset, StreamInv, KnownInv
  <1>4. /\ PathOf[s] \in Paths /\ d \in Lengths /\ r[last].len \in Lengths
        /\ d2 \in Lengths /\ o \in Lengths /\ o <= d
        /\ d <= r[last].len /\ r[last].len <= d2
        /\ o2 \in {o, r[last].len} /\ o2 \in Lengths /\ o <= o2
    BY <1>1, FileChangedOffset DEF StreamInv
  <1>5. d <= d2 /\ (o2 # o => d <= o2)
    <2>1. d \in Nat /\ r[last].len \in Nat /\ d2 \in Nat
      BY <1>4, LengthFacts
    <2> QED
      BY <1>4, <2>1
  <1>6. sessions'[s].watch_offset = o2 /\ disk'[PathOf[s]] = d2
    <2>1. sessions' = [sessions EXCEPT ![s].watch_offset = o2] /\ disk' = [disk EXCEPT ![PathOf[s]] = d2]
      BY <1>3 DEF FileRead
    <2> QED
      BY <1>4, <2>1 DEF TypeOK, SessionState
  <1>7. /\ f \in Formats(s) /\ m = ReadIn(s, r, f).messages
        /\ r[f].len \in Lengths /\ r[f].stop \in Lengths /\ r[f].len <= r[f].stop /\ r[f].stop <= d2
    <2>1. f \in Formats(s)
      BY <1>1 DEF Formats
    <2> QED
      BY <1>1, <2>1 DEF ReadsOf, Gets
  <1>8. m \in Seq(Lines) /\ n \in 0..Len(m)
    BY <1>1, GetsFacts
  <1> HIDE DEF n, m, o, d, o2, d2
  <1>9. /\ \A k \in 1..Len(m) : o <= 2 * m[k] - 2 /\ 2 * m[k] <= r[f].stop
        /\ \A j, k \in 1..Len(m) : m[k] - m[j] = k - j
        /\ \A i \in Lines, k \in 1..Len(m) : o <= 2 * i - 2 /\ i <= m[k] => \E j \in 1..k : m[j] = i
        /\ ReadIn(s, r, f).offset # o =>
              \A i \in Lines : o <= 2 * i - 2 /\ 2 * i <= r[f].len => \E k \in 1..Len(m) : m[k] = i
        /\ ReadIn(s, r, f).offset \in {o, r[f].len}
        /\ m # <<>> => ReadIn(s, r, f).offset = r[f].len /\ o < r[f].len
    BY <1>4, <1>7, ReadFacts DEF ReadIn, o
  <1>10. \A k \in 1..Len(m) : o <= 2 * m[k] - 2 /\ 2 * m[k] <= d2
    <2> TAKE k \in 1..Len(m)
    <2>1. m[k] \in Nat
      <3>1. m[k] \in Lines
        BY <1>8
      <3> QED
        BY <3>1, LengthFacts
    <2>2. r[f].stop \in Nat /\ d2 \in Nat
      BY <1>4, <1>7, LengthFacts
    <2>3. o <= 2 * m[k] - 2 /\ 2 * m[k] <= r[f].stop
      BY <1>9
    <2> QED
      BY <1>7, <2>1, <2>3, <2>2
  <1>11. StreamOf(S, o, d) /\ InOrder(S.sent, S.again)
    BY <1>1, <1>3 DEF StreamInv, d
  <1>12. /\ SentBefore(S.sent, d) /\ (~S.again => TwiceBefore(S.sent, o)) /\ Filled(S.sent, o)
         /\ (~S.lost /\ ~S.shared => TornLost(S, o))
         /\ o \in Insides /\ S.from <= o => o \in S.cuts \cup {S.from} \/ S.shared
    BY <1>3, <1>11 DEF StreamOf
  <1>13. again \in BOOLEAN /\ (S.again \/ (m # <<>> /\ o2 = o) => again) /\ more = S.sent \o SubSeq(m, 1, n)
    <2>1. ASSUME m # <<>>, Readable(o, d2) PROVE o2 # o
      <3>1. o < r[last].len
        <4>1. CASE last = f
          BY <1>9, <2>1, <4>1
        <4>2. CASE last # f
          <5>1. r[f].stop <= r[last].len
            BY <1>1, <1>7, <4>2 DEF ReadsOf
          <5>2. o \in Nat /\ r[f].len \in Nat /\ r[f].stop \in Nat /\ r[last].len \in Nat
            BY <1>4, <1>7, LengthFacts
          <5> QED
            BY <1>7, <1>9, <2>1, <5>1, <5>2
        <4> QED
          BY <4>1, <4>2
      <3>2. o \in Nat /\ r[last].len \in Nat
        BY <1>4, LengthFacts
      <3>3. o2 = r[last].len
        BY <2>1, <3>1, <3>2 DEF ReadIn, read_new_messages, o, o2, d2
      <3> QED
        BY <3>1, <3>2, <3>3
    <2> QED
      BY <1>2, <2>1
  <1>14. stream'[u] = [S EXCEPT !.sent = more, !.lost = lost, !.again = again, !.cuts = cuts]
    BY <1>1, <1>3 DEF FileRead, o, o2, d2, m, n
  <1> HIDE DEF S, more, again, lost, cuts
  <1>15. /\ stream'[u].sent = more /\ stream'[u].lost = lost /\ stream'[u].again = again /\ stream'[u].cuts = cuts
         /\ stream'[u].from = S.from /\ stream'[u].shared = S.shared
    BY <1>1, <1>14 DEF Stream
  <1>16. /\ more \in Seq(Lines) /\ SentBefore(more, d2) /\ (~again => TwiceBefore(more, o2))
         /\ Filled(more, o2) /\ InOrder(more, again)
         /\ \A i \in 1..Len(S.sent) : i \in 1..Len(more) /\ more[i] = S.sent[i]
         /\ \A k \in 1..n : Len(S.sent) + k \in 1..Len(more) /\ more[Len(S.sent) + k] = m[k]
    <2>1. SendsMore(S.sent, S.again, o, d, m, n, o2, d2, more, again)
      BY <1>2, <1>4, <1>5, <1>8, <1>9, <1>10, <1>11, <1>12, <1>13, Zenon DEF SendsMore
    <2> QED
      BY <2>1, MoreSent
  <1>17. ASSUME ~lost, ~S.shared, NEW i \in Lines, ~(2 * i - 1 \in cuts \cup {S.from}), ~(2 * i <= S.from), ~(o2 < 2 * i)
         PROVE  i \in ToSet(more)
    <2>1. ~S.lost /\ n = Len(m)
      BY <1>8, <1>17 DEF lost
    <2>2. message_subscribers[s] = {u}
      BY <1>1, <1>17 DEF StreamInv, SharedInv, S
    <2>3. last = f
      BY <1>1, <2>2 DEF Formats, ReadsOf
    <2>4. /\ i \in Nat /\ o \in Nat /\ o2 \in Nat /\ S.from \in Nat /\ r[last].len \in Nat
      BY <1>2, <1>4, LengthFacts
    <2>5. DOMAIN more = 1..Len(more) /\ DOMAIN S.sent = 1..Len(S.sent)
      BY <1>2, <1>16
    <2>6. 2 * i - 1 \notin S.cuts \cup {S.from}
      BY <1>17 DEF cuts
    <2>7. CASE i \in ToSet(S.sent)
      <3>1. PICK j \in 1..Len(S.sent) : S.sent[j] = i
        BY <2>5, <2>7 DEF ToSet
      <3> QED
        BY <1>16, <2>5, <3>1 DEF ToSet
    <2>8. CASE i \notin ToSet(S.sent)
      <3>1. o < 2 * i
        BY <1>12, <1>17, <2>1, <2>6, <2>8 DEF TornLost
      <3>2. o2 # o /\ o2 = r[last].len /\ 2 * i <= r[f].len
        BY <1>4, <1>17, <2>3, <2>4, <3>1
      <3>3. CASE o <= 2 * i - 2
        <4>1. PICK k \in 1..Len(m) : m[k] = i
          BY <1>9, <2>3, <3>2, <3>3 DEF o2
        <4> QED
          BY <1>16, <2>1, <2>5, <4>1 DEF ToSet
      <3>4. CASE ~(o <= 2 * i - 2)
        <4>1. o = 2 * i - 1
          BY <2>4, <3>1, <3>4
        <4>2. o \in Insides
          BY <1>4, <2>4, <4>1 DEF Insides
        <4>3. S.from <= o
          BY <1>17, <2>4, <4>1
        <4> QED
          BY <1>12, <1>17, <2>6, <4>1, <4>2, <4>3
      <3> QED
        BY <3>3, <3>4
    <2> QED
      BY <2>7, <2>8
  <1>18. ~lost /\ ~S.shared => TornLost(stream'[u], o2)
    BY <1>15, <1>17, Zenon DEF TornLost
  <1>19. o2 \in Insides => o2 \in cuts
    BY DEF cuts
  <1>20. StreamOf(stream'[u], o2, d2)
    BY <1>15, <1>16, <1>18, <1>19 DEF StreamOf
  <1> QED
    BY <1>6, <1>15, <1>16, <1>20

\* A stream that a step leaves as it was.
LEMMA StillStream ==
    ASSUME TypeOK, TypeOK', StreamInv, NEW u \in Viewers, NEW t \in Sessions,
           Receives(u, t), Same(stream[u], stream'[u]),
           sessions'[t].watch_offset \in {sessions[t].watch_offset, None},
           disk[PathOf[t]] <= disk'[PathOf[t]]
    PROVE  StreamOf(stream'[u], sessions'[t].watch_offset, disk'[PathOf[t]])
  <1>1. /\ stream[u] \in Stream /\ sessions[t].watch_offset \in Lengths \cup {None}
        /\ disk[PathOf[t]] \in Lengths /\ disk'[PathOf[t]] \in Lengths
    BY ViewerTypes DEF TypeOK, SessionState
  <1>2. StreamOf(stream[u], sessions[t].watch_offset, disk[PathOf[t]])
    BY DEF StreamInv
  <1>3. StreamOf(stream[u], sessions'[t].watch_offset, disk'[PathOf[t]])
    BY <1>1, <1>2, StreamKept
  <1> QED
    BY <1>3, Zenon DEF StreamOf, Same, TornLost

\* What is true of every stream after a step.
OrderInv(u) ==
    /\ ~stream[u].forgotten => InOrder(stream[u].sent, stream[u].again)
    /\ \A t \in Sessions : Receives(u, t) => StreamOf(stream[u], sessions[t].watch_offset, disk[PathOf[t]])

\* A step that leaves a viewer's stream and the offset of its session alone.
LEMMA StillNext ==
    ASSUME TypeOK, WatchInv, StreamInv, [Next]_vars, NEW u \in Viewers, Same(stream[u], stream'[u]),
           \A t \in Sessions : u \in message_subscribers'[t] =>
               /\ u \in message_subscribers[t]
               /\ sessions'[t].watch_offset \in {sessions[t].watch_offset, None}
    PROVE  OrderInv(u)'
  <1>1. TypeOK'
    BY TypeNext
  <1>2. ASSUME NEW t \in Sessions, Receives(u, t)'
        PROVE  StreamOf(stream'[u], sessions'[t].watch_offset, disk'[PathOf[t]])
    <2>1. Receives(u, t)
      BY <1>2, ClosedNext DEF Receives, Same
    <2>2. disk[PathOf[t]] <= disk'[PathOf[t]]
      BY GrowNext, ViewerTypes
    <2>3. sessions'[t].watch_offset \in {sessions[t].watch_offset, None}
      BY <1>2 DEF Receives
    <2> QED
      BY <1>1, <2>1, <2>2, <2>3, StillStream
  <1>3. ~stream'[u].forgotten => InOrder(stream'[u].sent, stream'[u].again)
    BY DEF StreamInv, Same
  <1> QED
    BY <1>2, <1>3 DEF OrderInv

\* A hook event leaves the offsets alone.
LEMMA HookOffset ==
    ASSUME TypeOK, NEW s \in Sessions, HookEvent(s), NEW t \in Sessions
    PROVE  sessions'[t].watch_offset = sessions[t].watch_offset
  <1>1. PICK found \in {FALSE, ~sessions[s].jsonl_path} :
           sessions' = [x \in Sessions |->
                   [sessions[x] EXCEPT !.known = @ \/ x = s,
                        !.jsonl_path = @ \/ (found /\ (x = s \/ (sessions[x].known /\ PathOf[x] = PathOf[s])))]]
    BY DEF HookEvent
  <1> DEFINE known == sessions[t].known \/ t = s
             path == sessions[t].jsonl_path
                        \/ (found /\ (t = s \/ (sessions[t].known /\ PathOf[t] = PathOf[s])))
  <1>2. sessions'[t] = [sessions[t] EXCEPT !.known = known, !.jsonl_path = path]
    BY <1>1
  <1> HIDE DEF known, path
  <1> QED
    BY <1>2 DEF TypeOK, SessionState

\* A viewer watches a session: its own stream begins, those of the other
\* viewers of the session are shared from now on, and the offset may skip
\* what they were not sent.
LEMMA StreamWatch ==
    ASSUME TypeOK, WatchInv, StreamInv, [Next]_vars, HandleWatchSession, NEW u \in Viewers
    PROVE  OrderInv(u)'
  <1> DEFINE v == Head(client_rx).viewer
             s == Head(client_rx).session
             p == PathOf[s]
  <1>1. /\ v \in Viewers /\ s \in Sessions /\ viewer' = viewer
        /\ \A t \in Sessions : message_subscribers'[t] =
              IF t = s THEN message_subscribers[t] \cup {v} ELSE message_subscribers[t]
        /\ stream'[v] = Fresh(v, s)
        /\ \A w \in Viewers \ {v} :
              stream'[w] = [stream[w] EXCEPT !.shared = stream[w].shared \/ w \in message_subscribers[s]]
        /\ \A t \in Sessions : v \notin message_subscribers[t]
    BY WatchedStreams
  <1>2. /\ p \in Paths /\ disk[p] \in Lengths /\ disk'[p] \in Lengths /\ disk[p] <= disk'[p]
        /\ sessions[s].watch_offset \in Lengths \cup {None}
    BY <1>1, TypeNext, GrowNext, ViewerTypes DEF TypeOK, SessionState
  <1>3. /\ sessions'[s].watch_offset \in {sessions[s].watch_offset, disk[p]}
        /\ \A t \in Sessions \ {s} : sessions'[t] = sessions[t]
    <2>1. sessions' \in {sessions, [sessions EXCEPT ![s].watch_offset = disk[p]]}
      BY DEF HandleWatchSession
    <2> QED
      BY <1>1, <2>1 DEF TypeOK, SessionState
  <1>4. ~(None \in Nat) /\ disk[p] \in Nat
    BY <1>2, LengthFacts, ViewerTypes
  <1> HIDE DEF v, s, p
  <1>5. CASE u = v
    <2>1. /\ stream'[u].sent = <<>> /\ stream'[u].from = disk[p] /\ stream'[u].cuts = {}
          /\ stream'[u].again = FALSE
      BY <1>1, <1>5 DEF Fresh, NoStream, p
    <2>2. InOrder(stream'[u].sent, stream'[u].again)
      BY <2>1 DEF InOrder
    <2>3. ASSUME NEW t \in Sessions, Receives(u, t)'
          PROVE  StreamOf(stream'[u], sessions'[t].watch_offset, disk'[PathOf[t]])
      <3>1. t = s
        BY <1>1, <1>5, <2>3 DEF Receives
      <3> DEFINE o == sessions'[s].watch_offset
      <3>2. o # None => o \in Nat /\ o <= disk[p]
        <4>1. CASE o = disk[p]
          BY <1>4, <4>1
        <4>2. CASE o = sessions[s].watch_offset
          <5>1. o # None => o \in Lengths /\ o <= disk[p]
            BY <1>1, <1>2, <4>2 DEF StreamInv, KnownInv, p
          <5> QED
            BY <5>1, LengthFacts
        <4> QED
          BY <1>3, <4>1, <4>2
      <3> HIDE DEF o
      <3>3. /\ SentBefore(stream'[u].sent, disk'[p]) /\ TwiceBefore(stream'[u].sent, o)
            /\ Filled(stream'[u].sent, o)
        BY <2>1 DEF SentBefore, TwiceBefore, Filled
      <3>4. o # None /\ stream'[u].from <= o => o = stream'[u].from
        BY <1>4, <2>1, <3>2
      <3>5. ASSUME o # None, NEW i \in Lines PROVE 2 * i <= stream'[u].from \/ o < 2 * i
        <4>1. i \in Nat
          BY LengthFacts
        <4> QED
          BY <1>4, <2>1, <3>2, <3>5, <4>1
      <3>6. o # None => TornLost(stream'[u], o)
        BY <3>5 DEF TornLost
      <3>7. StreamOf(stream'[u], o, disk'[p])
        BY <3>3, <3>4, <3>6 DEF StreamOf
      <3> QED
        BY <3>1, <3>7 DEF o, p
    <2> QED
      BY <2>2, <2>3 DEF OrderInv
  <1>6. CASE u # v /\ u \notin message_subscribers[s]
    <2>1. stream[u] \in Stream /\ stream[u].shared \in BOOLEAN
      BY DEF TypeOK, Stream
    <2>2. stream'[u] = [stream[u] EXCEPT !.shared = stream[u].shared \/ u \in message_subscribers[s]]
      BY <1>1, <1>6
    <2>3. (stream[u].shared \/ u \in message_subscribers[s]) = stream[u].shared
      BY <1>6, <2>1
    <2>4. Same(stream[u], stream'[u])
      BY <2>1, <2>2, <2>3 DEF Stream, Same
    <2>5. ASSUME NEW t \in Sessions, u \in message_subscribers'[t]
          PROVE  u \in message_subscribers[t] /\ sessions'[t].watch_offset = sessions[t].watch_offset
      BY <1>1, <1>3, <1>6, <2>5
    <2> QED
      BY <2>4, <2>5, StillNext
  <1>7. CASE u # v /\ u \in message_subscribers[s]
    <2>1. stream[u] \in Stream
      BY DEF TypeOK
    <2>2. stream'[u] = [stream[u] EXCEPT !.shared = TRUE]
      BY <1>1, <1>7
    <2>3. /\ stream'[u].sent = stream[u].sent /\ stream'[u].from = stream[u].from
          /\ stream'[u].cuts = stream[u].cuts /\ stream'[u].again = stream[u].again
          /\ stream'[u].forgotten = stream[u].forgotten /\ stream'[u].shared = TRUE
      BY <2>1, <2>2 DEF Stream
    <2>4. ~stream'[u].forgotten => InOrder(stream'[u].sent, stream'[u].again)
      BY <2>3 DEF StreamInv
    <2>5. ASSUME NEW t \in Sessions, Receives(u, t)'
          PROVE  StreamOf(stream'[u], sessions'[t].watch_offset, disk'[PathOf[t]])
      <3>1. u \in message_subscribers[t]
        BY <1>1, <1>7, <2>5 DEF Receives
      <3>2. t = s
        BY <1>1, <1>7, <3>1 DEF WatchInv, ViewerInv, OneInv
      <3>3. Receives(u, s)
        BY <1>1, <1>7, <2>3, <2>5, <3>2 DEF Receives, Closed
      <3>4. StreamOf(stream[u], sessions[s].watch_offset, disk[p])
        BY <1>1, <3>3 DEF StreamInv, p
      <3>5. StreamOf(stream[u], sessions[s].watch_offset, disk'[p])
        BY <1>2, <2>1, <3>4, StreamKept
      <3>6. SentBefore(stream[u].sent, disk[p]) /\ SentBefore(stream[u].sent, disk'[p])
        BY <3>4, <3>5 DEF StreamOf
      <3>7. \A i \in 1..Len(stream[u].sent) : stream[u].sent[i] \in Nat
        <4>1. stream[u].sent \in Seq(Lines)
          BY <2>1 DEF Stream
        <4> QED
          BY <4>1, LengthFacts
      <3>8. CASE sessions'[s].watch_offset = sessions[s].watch_offset
        <4>1. StreamOf(stream[u], sessions'[s].watch_offset, disk'[p])
          BY <3>5, <3>8
        <4> QED
          BY <2>3, <3>2, <4>1 DEF StreamOf, p
      <3>9. CASE sessions'[s].watch_offset = disk[p]
        <4>1. TwiceBefore(stream[u].sent, disk[p])
          BY <1>4, <3>6, <3>7 DEF SentBefore, TwiceBefore
        <4>2. Filled(stream[u].sent, disk[p])
          <5> SUFFICES ASSUME NEW l \in Lines, NEW i \in 1..Len(stream[u].sent),
                              disk[p] <= 2 * l - 2, l <= stream[u].sent[i]
                       PROVE  FALSE
            BY DEF Filled
          <5>1. l \in Nat
            BY LengthFacts
          <5>2. 2 * stream[u].sent[i] <= disk[p]
            BY <3>6 DEF SentBefore
          <5> QED
            BY <1>4, <3>7, <5>1, <5>2
        <4> QED
          BY <2>3, <3>2, <3>6, <3>9, <4>1, <4>2 DEF StreamOf, p
      <3> QED
        BY <1>3, <3>8, <3>9
    <2> QED
      BY <2>4, <2>5 DEF OrderInv
  <1> QED
    BY <1>5, <1>6, <1>7

\* A file change: its own viewers are sent what was read, the others nothing.
LEMMA StreamFile ==
    ASSUME TypeOK, WatchInv, StreamInv, [Next]_vars, NEW s \in Sessions, FileChanged(s), NEW u \in Viewers
    PROVE  OrderInv(u)'
  <1>1. \A t \in Sessions : message_subscribers'[t] = {v \in message_subscribers[t] : ~Closed(v)}
    BY DEF FileChanged
  <1>2. CASE message_subscribers[s] = {}
    <2>1. Same(stream[u], stream'[u]) /\ sessions' = sessions
      BY <1>2 DEF FileChanged, Same
    <2> QED
      BY <1>1, <2>1, StillNext
  <1>3. CASE message_subscribers[s] # {}
    <2>1. PICK r, last : FileRead(s, r, last)
      BY <1>3, FileChangedReads
    <2>2. \A t \in Sessions \ {s} : sessions'[t] = sessions[t]
      <3>1. sessions' = IF ~sessions[s].known THEN sessions
                        ELSE [sessions EXCEPT ![s].watch_offset = ReadIn(s, r, last).offset]
        BY <2>1 DEF FileRead
      <3> QED
        BY <3>1 DEF TypeOK
    <2>3. u \notin message_subscribers[s] \/ Closed(u) \/ stream[u].forgotten => stream'[u] = stream[u]
      BY <2>1 DEF FileRead
    <2>4. CASE stream[u].forgotten
      BY <2>3, <2>4 DEF OrderInv, Receives
    <2>5. CASE Closed(u)
      <3>1. Same(stream[u], stream'[u])
        BY <2>3, <2>5 DEF Same
      <3>2. \A t \in Sessions : u \notin message_subscribers'[t]
        BY <1>1, <2>5
      <3> QED
        BY <3>1, <3>2, StillNext
    <2>6. CASE u \notin message_subscribers[s]
      <3>1. Same(stream[u], stream'[u])
        BY <2>3, <2>6 DEF Same
      <3>2. ASSUME NEW t \in Sessions, u \in message_subscribers'[t]
            PROVE  u \in message_subscribers[t] /\ sessions'[t].watch_offset = sessions[t].watch_offset
        BY <1>1, <2>2, <2>6, <3>2
      <3> QED
        BY <3>1, <3>2, StillNext
    <2>7. CASE Receives(u, s) /\ sessions[s].watch_offset = None
      <3>1. stream'[u] = [NoStream EXCEPT !.forgotten = TRUE]
        BY <2>1, <2>7 DEF FileRead, Receives
      <3>2. stream'[u].forgotten = TRUE
        BY <3>1 DEF NoStream
      <3> QED
        BY <3>2 DEF OrderInv, Receives
    <2>8. CASE Receives(u, s) /\ sessions[s].watch_offset # None
      <3>1. /\ InOrder(stream'[u].sent, stream'[u].again)
            /\ StreamOf(stream'[u], sessions'[s].watch_offset, disk'[PathOf[s]])
        BY <2>1, <2>8, ReadStream
      <3>2. ASSUME NEW t \in Sessions, Receives(u, t)' PROVE t = s
        BY <1>1, <2>8, <3>2 DEF Receives, WatchInv, ViewerInv, OneInv
      <3> QED
        BY <3>1, <3>2 DEF OrderInv
    <2> QED
      BY <2>4, <2>5, <2>6, <2>7, <2>8 DEF Receives
  <1> QED
    BY <1>2, <1>3

\* Every step preserves what is true of the streams.
LEMMA StreamNext ==
    ASSUME TypeOK, WatchInv, StreamInv, [Next]_vars PROVE StreamInv'
  <1>1. KnownInv' /\ SharedInv'
    BY KnownNext, SharedNext DEF StreamInv
  <1>2. ASSUME NEW u \in Viewers PROVE OrderInv(u)'
    <2>1. CASE UNCHANGED <<sessions, message_subscribers, stream>>
      <3>1. Same(stream[u], stream'[u])
        BY <2>1 DEF Same
      <3> QED
        BY <2>1, <3>1, StillNext
    <2>2. ASSUME NEW s \in Sessions, HookEvent(s) PROVE OrderInv(u)'
      <3>1. Same(stream[u], stream'[u]) /\ message_subscribers' = message_subscribers
        BY <2>2 DEF HookEvent, Same
      <3>2. \A t \in Sessions : sessions'[t].watch_offset = sessions[t].watch_offset
        BY <2>2, HookOffset
      <3> QED
        BY <3>1, <3>2, StillNext
    <2>3. ASSUME NEW s \in Sessions, RemoveSession(s) PROVE OrderInv(u)'
      <3>1. Same(stream[u], stream'[u]) /\ message_subscribers' = message_subscribers
        BY <2>3 DEF RemoveSession, Same
      <3>2. sessions' = [sessions EXCEPT ![s] = Unknown]
        BY <2>3 DEF RemoveSession
      <3>3. \A t \in Sessions : sessions'[t].watch_offset \in {sessions[t].watch_offset, None}
        BY <3>2 DEF Unknown, TypeOK
      <3> QED
        BY <3>1, <3>3, StillNext
    <2>4. CASE HandleGetMessages
      <3>1. Same(stream[u], stream'[u])
        BY <2>4, FetchedStreams
      <3>2. sessions' = sessions /\ message_subscribers' = message_subscribers
        BY <2>4 DEF HandleGetMessages, daemon
      <3> QED
        BY <3>1, <3>2, StillNext
    <2>5. CASE HandleUnwatchSession
      <3> DEFINE s == Head(client_rx).session
      <3>1. Same(stream[u], stream'[u])
        BY <2>5 DEF HandleUnwatchSession, Same
      <3>2. /\ message_subscribers' = [message_subscribers EXCEPT ![s] = {}]
            /\ sessions' = [sessions EXCEPT ![s].watch_offset = None]
        BY <2>5 DEF HandleUnwatchSession
      <3>3. \A t \in Sessions : /\ message_subscribers'[t] \subseteq message_subscribers[t]
                                /\ sessions'[t].watch_offset \in {sessions[t].watch_offset, None}
        BY <3>2 DEF TypeOK, SessionState
      <3> QED
        BY <3>1, <3>3, StillNext
    <2>6. CASE HandleWatchSession
      BY <2>6, StreamWatch
    <2>7. ASSUME NEW s \in Sessions, FileChanged(s) PROVE OrderInv(u)'
      BY <2>7, StreamFile
    <2> QED
      BY <2>1, <2>2, <2>3, <2>4, <2>5, <2>6, <2>7, OtherSteps
  <1> QED
    BY <1>1, <1>2 DEF StreamInv, OrderInv

LEMMA StreamCorrect == Spec => []StreamInv
  <1>1. Init => StreamInv
    <2> SUFFICES ASSUME Init PROVE StreamInv
      OBVIOUS
    <2>1. \A v \in Viewers : stream[v] = NoStream
      BY DEF Init
    <2>2. \A s \in Sessions : message_subscribers[s] = {} /\ sessions[s] = Unknown
      BY DEF Init
    <2>3. InOrder(<<>>, FALSE)
      BY DEF InOrder
    <2> QED
      <3>1. KnownInv
        BY <2>2 DEF KnownInv, Unknown
      <3>2. SharedInv
        BY <2>2 DEF SharedInv
      <3>3. \A v \in Viewers, s \in Sessions : ~Receives(v, s)
        BY <2>2 DEF Receives
      <3>4. \A v \in Viewers : InOrder(stream[v].sent, stream[v].again)
        <4>1. NoStream.sent = <<>> /\ NoStream.again = FALSE
          BY DEF NoStream
        <4> QED
          BY <2>1, <2>3, <4>1
      <3> QED
        BY <3>1, <3>2, <3>3, <3>4 DEF StreamInv
  <1>2. TypeOK /\ WatchInv /\ StreamInv /\ [Next]_vars => StreamInv'
    BY StreamNext
  <1> QED
    BY <1>1, <1>2, WatchCorrect, PTL DEF Spec

\* What a viewer is sent for the first time comes later in the transcript than
\* all it was sent before, and nothing is sent a third time, unless the session
\* was removed or a file change sent messages and left the offset where it was
\* (daemon.rs, messages.rs).
THEOREM SentInOrderHolds == Spec => []SentInOrder
  <1>1. StreamInv => SentInOrder
    BY DEF StreamInv, SentInOrder, InOrder
  <1> QED
    BY <1>1, StreamCorrect, PTL

\* A viewer that is the only one of its session is sent every message the
\* daemon's offset has passed, unless a read ended inside its line or the
\* viewer's channel was full (daemon.rs, messages.rs).
THEOREM OnlyTornLostHolds == Spec => []OnlyTornLost
  <1>1. StreamInv => OnlyTornLost
    <2> SUFFICES ASSUME StreamInv, NEW v \in Viewers, NEW s \in Sessions, Subscribed(v, s),
                        sessions[s].watch_offset # None, ~stream[v].lost, ~stream[v].shared,
                        ~stream[v].forgotten
                 PROVE  TornLost(stream[v], sessions[s].watch_offset)
      BY Zenon DEF OnlyTornLost, TornLost
    <2>1. Receives(v, s)
      BY DEF Receives, Subscribed
    <2> QED
      BY <2>1 DEF StreamInv, StreamOf
  <1> QED
    BY <1>1, StreamCorrect, PTL

==============================================================================
