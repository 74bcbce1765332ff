------------------------------- MODULE PtyProofs -----------------------------
(***************************************************************************)
(* What reaches the agent's terminal, for every set of prompts and sizes   *)
(* and any number of requests, keys and daemon stops: prompts arrive       *)
(* intact, and the size settles.                                           *)
(***************************************************************************)
EXTENDS PtyControl, SequenceTheorems, TLAPS

------------------------------------------------------------------------------
(* Types, the capacity of the wrapper's channel among them.                *)

\* A bounded step is counted, and within its bound.
LEMMA UsesType ==
    ASSUME TypeOK, NEW kind \in DOMAIN Bounds, Uses(kind)
    PROVE  used' \in [DOMAIN Bounds -> Nat] /\ \A b \in DOMAIN Bounds : used'[b] <= Bounds[b]
  <1>1. used \in [DOMAIN Bounds -> Nat] /\ \A b \in DOMAIN Bounds : used[b] <= Bounds[b]
    BY DEF TypeOK
  <1>2. \A b \in DOMAIN Bounds : Bounds[b] \in Nat
    BY PtyTypes DEF Bounds
  <1>3. used[kind] < Bounds[kind] /\ used' = [used EXCEPT ![kind] = @ + 1]
    BY DEF Uses
  <1> HIDE DEF Uses
  <1>4. used' \in [DOMAIN Bounds -> Nat]
    BY <1>1, <1>3
  <1>5. ASSUME NEW b \in DOMAIN Bounds PROVE used'[b] <= Bounds[b]
    BY <1>1, <1>2, <1>3
  <1> QED
    BY <1>4, <1>5

\* An event more in a channel that has room for it.
LEMMA TrySendType ==
    ASSUME TypeOK, NEW e \in ServerEvent, TrySend(e)
    PROVE  wrapper_rx' \in Seq(ServerEvent) /\ Len(wrapper_rx') <= EventCap
  <1>1. wrapper_rx \in Seq(ServerEvent) /\ Len(wrapper_rx) <= EventCap /\ EventCap \in Nat
    BY PtyTypes DEF TypeOK
  <1>2. Append(wrapper_rx, e) \in Seq(ServerEvent) /\ Len(Append(wrapper_rx, e)) = Len(wrapper_rx) + 1
    BY <1>1, AppendProperties
  <1> QED
    BY <1>1, <1>2 DEF TrySend, HasRoom

LEMMA WritesType ==
    ASSUME TypeOK, NEW x \in Input, Writes(x)
    PROVE  write_rx' \in Seq(Input) /\ sent' \in Seq(Input)
  BY AppendProperties DEF TypeOK, Writes

LEMMA LineType ==
    ASSUME TypeOK, NEW e, Line(e)
    PROVE  e \in ServerEvent /\ lines' \in Seq(ServerEvent)
  BY HeadTailProperties DEF TypeOK, Line

\* The events of the daemon's handlers are such, and so is what is typed.
LEMMA EventTypes ==
    /\ \A p \in Prompts : [type |-> "InjectPrompt", text |-> p] \in ServerEvent
    /\ \A s \in Sizes : [type |-> "TerminalResize", size |-> s] \in ServerEvent
    /\ [type |-> "TerminalWrite"] \in ServerEvent /\ [type |-> "ForceRedraw"] \in ServerEvent
    /\ \A p \in Prompts, b \in {"text", "enter"} : [bytes |-> b, text |-> p] \in Input
    /\ [bytes |-> "web"] \in Input /\ [bytes |-> "keys"] \in Input
  BY DEF ServerEvent, Input

LEMMA ListenerTypes ==
    /\ \A h \in {"reading", "reconnecting", "ended"} : [phase |-> h] \in Listener
    /\ \A p \in Prompts : [phase |-> "entering", text |-> p] \in Listener
    /\ \A s \in Sizes, h \in {"storing", "restoring"} : [phase |-> h, size |-> s] \in Listener
    /\ Idle \in Listener
  BY DEF Listener, Idle

LEMMA TypeInit == Init => TypeOK
  <1> SUFFICES ASSUME Init PROVE TypeOK
    OBVIOUS
  <1>1. used \in [DOMAIN Bounds -> Nat] /\ \A b \in DOMAIN Bounds : used[b] <= Bounds[b]
    BY PtyTypes DEF Init, Bounds
  <1>2. Len(wrapper_rx) <= EventCap
    BY PtyTypes DEF Init
  <1>3. <<>> \in Seq(ServerEvent) /\ <<>> \in Seq(Input) /\ <<>> \in Seq(Prompts)
    BY EmptySeq
  <1>4. resizer \in [phase : {"sleeping", "storing", "ended"}, last_size : Sizes]
    BY PtyTypes DEF Init
  <1>5. pty \in [size : Sizes, taller : BOOLEAN]
    BY PtyTypes DEF Init
  <1> QED
    BY <1>1, <1>2, <1>3, <1>4, <1>5, PtyTypes, ListenerTypes DEF Init, TypeOK

\* What the handlers of the daemon change.
LEMMA TypeDaemon ==
    ASSUME TypeOK,
           \/ \E p \in Prompts : HandleSendPrompt(p)
           \/ \E s \in Sizes : HandleTerminalResize(s)
           \/ HandleTerminalInput \/ HandleWatchTerminal \/ TaskDeliver \/ DaemonStops
    PROVE  TypeOK'
  <1>1. ASSUME NEW p \in Prompts, HandleSendPrompt(p) PROVE TypeOK'
    <2>1. wrapper_rx' \in Seq(ServerEvent) /\ Len(wrapper_rx') <= EventCap
      BY <1>1, EventTypes, TrySendType DEF HandleSendPrompt
    <2>2. accepted' \in Seq(Prompts)
      BY <1>1, AppendProperties DEF HandleSendPrompt, TypeOK
    <2> QED
      BY <1>1, <2>1, <2>2 DEF HandleSendPrompt, TypeOK, wrapper
  <1>2. ASSUME NEW e \in ServerEvent, TrySend(e), Uses("requests"),
               UNCHANGED <<wrapper_tx, wrapper, accepted, lost, settled>>
        PROVE  TypeOK'
    <2>1. wrapper_rx' \in Seq(ServerEvent) /\ Len(wrapper_rx') <= EventCap
      BY <1>2, TrySendType
    <2>2. used' \in [DOMAIN Bounds -> Nat] /\ \A b \in DOMAIN Bounds : used'[b] <= Bounds[b]
      BY <1>2, UsesType DEF Bounds
    <2> QED
      BY <1>2, <2>1, <2>2 DEF TypeOK, wrapper
  <1>3. CASE TaskDeliver
    <2>1. Head(wrapper_rx) \in ServerEvent /\ Tail(wrapper_rx) \in Seq(ServerEvent)
          /\ Len(Tail(wrapper_rx)) = Len(wrapper_rx) - 1 /\ Len(wrapper_rx) \in Nat
      BY <1>3, HeadTailProperties, LenProperties DEF TaskDeliver, TypeOK
    <2>2. lines' \in Seq(ServerEvent)
      BY <1>3, <2>1, AppendProperties DEF TaskDeliver, TypeOK
    <2>3. wrapper_rx' \in Seq(ServerEvent) /\ Len(wrapper_rx') <= EventCap
      BY <1>3, <2>1, PtyTypes DEF TaskDeliver, TypeOK
    <2> QED
      BY <1>3, <2>2, <2>3 DEF TaskDeliver, TypeOK, history
  <1>4. CASE DaemonStops
    <2>1. used' \in [DOMAIN Bounds -> Nat] /\ \A b \in DOMAIN Bounds : used'[b] <= Bounds[b]
      BY <1>4, UsesType DEF DaemonStops, Bounds
    <2>2. wrapper_rx' \in Seq(ServerEvent) /\ Len(wrapper_rx') <= EventCap
      BY <1>4, EmptySeq, PtyTypes DEF DaemonStops
    <2>3. lost' \in SUBSET Prompts
      BY <1>4 DEF DaemonStops, PromptsIn, TypeOK
    <2> QED
      BY <1>4, <2>1, <2>2, <2>3 DEF DaemonStops, TypeOK, wrapper
  <1> QED
    BY <1>1, <1>2, <1>3, <1>4, EventTypes DEF HandleTerminalInput, HandleTerminalResize,
       HandleWatchTerminal

LEMMA TypeListener ==
    ASSUME TypeOK, ListenerSteps
    PROVE  TypeOK'
  <1>1. ASSUME NEW p \in Prompts, InjectText(p) PROVE TypeOK'
    <2>1. lines' \in Seq(ServerEvent)
      BY <1>1, LineType DEF InjectText
    <2>2. write_rx' \in Seq(Input) /\ sent' \in Seq(Input)
      BY <1>1, EventTypes, WritesType DEF InjectText, TypeOK
    <2>3. listener' \in Listener /\ lost' \in SUBSET Prompts
      BY <1>1, ListenerTypes DEF InjectText, TypeOK
    <2> QED
      BY <1>1, <2>1, <2>2, <2>3 DEF InjectText, TypeOK, rest
  <1>2. ASSUME NEW p \in Prompts, InjectEnter(p) PROVE TypeOK'
    <2>1. write_rx' \in Seq(Input) /\ sent' \in Seq(Input)
      BY <1>2, EventTypes, WritesType DEF InjectEnter, TypeOK
    <2>2. listener' \in Listener
      BY <1>2, ListenerTypes DEF InjectEnter
    <2> QED
      BY <1>2, <2>1, <2>2 DEF InjectEnter, TypeOK, rest, history
  <1>3. CASE WriteBytes
    <2>1. lines' \in Seq(ServerEvent)
      BY <1>3, LineType DEF WriteBytes
    <2>2. write_rx' \in Seq(Input) /\ sent' \in Seq(Input)
      BY <1>3, EventTypes, WritesType DEF WriteBytes, TypeOK
    <2>3. listener' \in Listener
      BY <1>3, ListenerTypes DEF WriteBytes, TypeOK
    <2> QED
      BY <1>3, <2>1, <2>2, <2>3 DEF WriteBytes, TypeOK, rest, history
  <1>4. ASSUME NEW s \in Sizes, ResizePty(s) PROVE TypeOK'
    <2>1. lines' \in Seq(ServerEvent)
      BY <1>4, LineType DEF ResizePty
    <2>2. pty' \in [size : Sizes, taller : BOOLEAN] /\ listener' \in Listener
      BY <1>4, ListenerTypes DEF ResizePty, Resize
    <2>3. settled' \in BOOLEAN
      BY <1>4 DEF ResizePty, Resize
    <2> QED
      BY <1>4, <2>1, <2>2, <2>3 DEF ResizePty, TypeOK, rest
  <1>5. ASSUME NEW s \in Sizes, StoreSize(s) PROVE TypeOK'
    BY <1>5, ListenerTypes DEF StoreSize, TypeOK, rest, history
  <1>6. CASE RedrawTaller
    <2>1. lines' \in Seq(ServerEvent)
      BY <1>6, LineType DEF RedrawTaller
    <2>2. term_size \in Sizes
      BY DEF TypeOK
    <2>3. pty' \in [size : Sizes, taller : BOOLEAN] /\ listener' \in Listener
      BY <1>6, <2>2, ListenerTypes DEF RedrawTaller, Resize
    <2>4. settled' \in BOOLEAN
      BY <1>6 DEF RedrawTaller, Resize
    <2> QED
      BY <1>6, <2>1, <2>3, <2>4 DEF RedrawTaller, TypeOK, rest
  <1>7. ASSUME NEW s \in Sizes, RestoreSize(s) PROVE TypeOK'
    <2>1. pty' \in [size : Sizes, taller : BOOLEAN] /\ listener' \in Listener
      BY <1>7, ListenerTypes DEF RestoreSize, Resize
    <2>2. settled' \in BOOLEAN
      BY <1>7 DEF RestoreSize, Resize
    <2> QED
      BY <1>7, <2>1, <2>2 DEF RestoreSize, TypeOK, rest
  <1>8. CASE ListenerEnds
    <2>1. lines' \in Seq(ServerEvent) /\ listener' \in Listener
      BY <1>8, EmptySeq, ListenerTypes DEF ListenerEnds
    <2>2. lost' \in SUBSET Prompts
      BY <1>8 DEF ListenerEnds, PromptsIn, TypeOK
    <2> QED
      BY <1>8, <2>1, <2>2 DEF ListenerEnds, TypeOK, rest
  <1>9. CASE ListenerEof
    BY <1>9, ListenerTypes DEF ListenerEof, TypeOK, rest, history
  <1>10. CASE Reconnect
    BY <1>10, ListenerTypes DEF Reconnect, TypeOK, rest, history
  <1> QED
    BY <1>1, <1>2, <1>3, <1>4, <1>5, <1>6, <1>7, <1>8, <1>9, <1>10 DEF ListenerSteps

LEMMA TypeThreads ==
    ASSUME TypeOK,
           ResizerSteps \/ WriterSteps \/ StdinKeys \/ WrapperStops \/ \E s \in Sizes : HostResizes(s)
    PROVE  TypeOK'
  <1>1. CASE ResizerResizes
    <2>1. host \in Sizes
      BY DEF TypeOK
    <2>2. pty' \in [size : Sizes, taller : BOOLEAN]
          /\ resizer' \in [phase : {"sleeping", "storing", "ended"}, last_size : Sizes]
      BY <1>1, <2>1 DEF ResizerResizes, Resize
    <2>3. settled' \in BOOLEAN
      BY <1>1 DEF ResizerResizes, Resize
    <2> QED
      BY <1>1, <2>2, <2>3 DEF ResizerResizes, TypeOK, channel
  <1>2. CASE ResizerStores \/ ResizerEnds
    <2>1. resizer \in [phase : {"sleeping", "storing", "ended"}, last_size : Sizes]
      BY DEF TypeOK
    <2>2. resizer' \in [phase : {"sleeping", "storing", "ended"}, last_size : Sizes]
      BY <1>2, <2>1 DEF ResizerStores, ResizerEnds
    <2>3. term_size' \in Sizes
      BY <1>2, <2>1 DEF ResizerStores, ResizerEnds, TypeOK
    <2> QED
      BY <1>2, <2>2, <2>3 DEF ResizerStores, ResizerEnds, TypeOK, channel, history
  <1>3. CASE WriterWrites
    <2>1. write_rx' \in Seq(Input)
      BY <1>3, HeadTailProperties DEF WriterWrites, TypeOK
    <2> QED
      BY <1>3, <2>1 DEF WriterWrites, TypeOK, channel, history
  <1>4. CASE WriterEnds
    BY <1>4, EmptySeq DEF WriterEnds, TypeOK, channel, history
  <1>5. CASE StdinKeys
    <2>1. used' \in [DOMAIN Bounds -> Nat] /\ \A b \in DOMAIN Bounds : used'[b] <= Bounds[b]
      BY <1>5, UsesType DEF StdinKeys, Bounds
    <2>2. write_rx' \in Seq(Input) /\ sent' \in Seq(Input)
      BY <1>5, EventTypes, WritesType DEF StdinKeys
    <2> QED
      BY <1>5, <2>1, <2>2 DEF StdinKeys, TypeOK, channel
  <1>6. ASSUME NEW s \in Sizes, HostResizes(s) PROVE TypeOK'
    <2>1. used' \in [DOMAIN Bounds -> Nat] /\ \A b \in DOMAIN Bounds : used'[b] <= Bounds[b]
      BY <1>6, UsesType DEF HostResizes, Bounds
    <2> QED
      BY <1>6, <2>1 DEF HostResizes, TypeOK, channel
  <1>7. CASE WrapperStops
    BY <1>7 DEF WrapperStops, TypeOK, channel, history
  <1> QED
    BY <1>1, <1>2, <1>3, <1>4, <1>5, <1>6, <1>7 DEF ResizerSteps, WriterSteps

LEMMA TypeStep == TypeOK /\ [Next]_vars => TypeOK'
  <1> SUFFICES ASSUME TypeOK, UNCHANGED vars PROVE TypeOK'
    BY TypeDaemon, TypeListener, TypeThreads DEF Next
  <1> QED
    BY DEF vars, TypeOK

\* Every variable keeps its type, and the wrapper's channel never holds more
\* events than its capacity, whoever sends.
THEOREM PtyTypeCorrect == Spec => []TypeOK
  BY TypeInit, TypeStep, PTL DEF Spec

------------------------------------------------------------------------------
(* Sizes. SizesSettle speaks of states in which both threads rest; what    *)
(* carries it there says what each thread is about to do.                  *)

Busy == listener.phase \in {"storing", "restoring"}

\* Only a redraw under way makes the PTY taller; a size change that nobody
\* else's overlaps ends with the PTY and term_size equal.
SizesInv ==
    /\ pty.taller => listener.phase = "restoring"
    /\ settled =>
        /\ ~(Busy /\ resizer.phase = "storing")
        /\ ~Busy /\ resizer.phase # "storing" => pty.size = term_size
        /\ listener.phase = "storing" => pty.size = listener.size
        /\ listener.phase = "restoring" => pty.size = term_size /\ listener.size = term_size
        /\ resizer.phase = "storing" => pty.size = resizer.last_size

LEMMA SizesInit == Init => SizesInv
  BY DEF Init, SizesInv, Busy, Idle

LEMMA SizesListener == SizesInv /\ ListenerSteps => SizesInv'
  <1> SUFFICES ASSUME SizesInv, ListenerSteps PROVE SizesInv'
    OBVIOUS
  <1>1. CASE \E s \in Sizes : ResizePty(s)
    <2>1. PICK s \in Sizes : ResizePty(s)
      BY <1>1
    <2>2. settled' => resizer.phase # "storing"
      BY <2>1, Zenon DEF ResizePty, Resize
    <2> QED
      BY <2>1, <2>2 DEF ResizePty, Resize, rest, SizesInv, Busy
  <1>2. CASE \E s \in Sizes : StoreSize(s)
    BY <1>2 DEF StoreSize, Idle, rest, history, SizesInv, Busy
  <1>3. CASE RedrawTaller
    <2>1. settled' => settled /\ resizer.phase # "storing"
      BY <1>3, Zenon DEF RedrawTaller, Resize
    <2>2. listener = [phase |-> "reading"]
      BY <1>3 DEF RedrawTaller, Line, Listens, Idle
    <2> QED
      BY <1>3, <2>1, <2>2 DEF RedrawTaller, Resize, rest, SizesInv, Busy
  <1>4. CASE \E s \in Sizes : RestoreSize(s)
    <2>1. PICK s \in Sizes : RestoreSize(s)
      BY <1>4
    <2>2. settled' => settled /\ resizer.phase # "storing"
      BY <2>1, Zenon DEF RestoreSize, Resize
    <2> QED
      BY <2>1, <2>2 DEF RestoreSize, Resize, Idle, rest, SizesInv, Busy
  <1>5. CASE \E p \in Prompts : InjectText(p) \/ InjectEnter(p)
    BY <1>5 DEF InjectText, InjectEnter, Line, Listens, Idle, rest, history, SizesInv, Busy
  <1>6. CASE WriteBytes \/ ListenerEnds \/ ListenerEof \/ Reconnect
    BY <1>6 DEF WriteBytes, ListenerEnds, ListenerEof, Reconnect, Line, Listens, Idle, rest,
       history, SizesInv, Busy
  <1> QED
    BY <1>1, <1>2, <1>3, <1>4, <1>5, <1>6 DEF ListenerSteps

LEMMA SizesResizer == SizesInv /\ ResizerSteps => SizesInv'
  <1> SUFFICES ASSUME SizesInv, ResizerSteps PROVE SizesInv'
    OBVIOUS
  <1>1. CASE ResizerResizes
    BY <1>1 DEF ResizerResizes, Resize, SizesInv, Busy
  <1>2. CASE ResizerStores
    <2>1. resizer'.phase = "sleeping" /\ pty' = pty /\ settled' = settled /\ listener' = listener
      BY <1>2 DEF ResizerStores, history
    <2> QED
      BY <1>2, <2>1 DEF ResizerStores, SizesInv, Busy
  <1>3. CASE ResizerEnds
    <2>1. resizer'.phase # "storing"
      BY <1>3 DEF ResizerEnds
    <2> QED
      BY <1>3, <2>1 DEF ResizerEnds, history, SizesInv, Busy
  <1> QED
    BY <1>1, <1>2, <1>3 DEF ResizerSteps

\* The steps of the daemon, of the other threads and of the users change no
\* size, neither wanted nor set.
sizes == <<listener, resizer, pty, term_size, settled>>

LEMMA OthersKeepSizes ==
    ASSUME [Next]_vars, ~ListenerSteps, ~ResizerSteps
    PROVE  UNCHANGED sizes
  BY DEF Next, vars, sizes, HandleSendPrompt, HandleTerminalInput, HandleTerminalResize,
     HandleWatchTerminal, TaskDeliver, DaemonStops, WriterSteps, WriterWrites, WriterEnds,
     StdinKeys, HostResizes, WrapperStops, wrapper, channel, history

\* However resizes of web terminals, of the host terminal and redraws follow
\* each other, the PTY is left neither a row too tall nor, if no two changes
\* overlapped, with another size than the screen parser's.
THEOREM SizesSettleHolds == Spec => []SizesSettle
  <1>1. SizesInv /\ [Next]_vars => SizesInv'
    <2> SUFFICES ASSUME SizesInv, [Next]_vars, ~ListenerSteps, ~ResizerSteps PROVE SizesInv'
      BY SizesListener, SizesResizer
    <2> QED
      BY OthersKeepSizes DEF sizes, SizesInv, Busy
  <1>2. SizesInv => SizesSettle
    BY DEF SizesInv, SizesSettle, Busy
  <1> QED
    BY <1>1, <1>2, SizesInit, PTL DEF Spec

------------------------------------------------------------------------------
(* Prompts. Between the text of a prompt and its carriage return the       *)
(* listener thread is in the middle of a handler, so only the stdin thread *)
(* can put something in the write channel.                                 *)

\* The i-th input is the text of a prompt followed by keys only so far.
Open(i) == sent[i].bytes = "text" /\ \A k \in (i + 1)..Len(sent) : sent[k].bytes = "keys"

\* An open prompt is the one the listener is about to submit, or the listener
\* has ended and nothing will follow but keys.
PromptInv ==
    /\ sent \in Seq(Input)
    /\ PromptIntact
    /\ \A i \in 1..Len(sent) : Open(i) =>
          \/ listener = [phase |-> "entering", text |-> sent[i].text]
          \/ listener.phase = "ended"

\* What one input more does to prompts that are open.
LEMMA OneMore ==
    ASSUME NEW x \in Input, PromptInv, Writes(x)
    PROVE  /\ sent' \in Seq(Input)
           /\ Len(sent') = Len(sent) + 1
           /\ sent'[Len(sent) + 1] = x
           /\ \A i \in 1..Len(sent) : sent'[i] = sent[i]
  BY AppendProperties DEF Writes, PromptInv

\* An input keeps every prompt intact when it is keys, when no prompt is open,
\* or when it submits the one that is.
LEMMA IntactMore ==
    ASSUME NEW x \in Input, PromptInv, Writes(x),
           \A i \in 1..Len(sent) : Open(i) =>
               x.bytes = "keys" \/ x = [bytes |-> "enter", text |-> sent[i].text]
    PROVE  PromptIntact'
  <1>1. /\ Len(sent') = Len(sent) + 1 /\ sent'[Len(sent) + 1] = x
        /\ \A i \in 1..Len(sent) : sent'[i] = sent[i]
        /\ sent' \in Seq(Input)
    BY OneMore
  <1> DEFINE Between(i, j) == \A k \in (i + 1)..(j - 1) : sent[k].bytes = "keys"
             Fits(i, j) == sent[j].bytes = "keys"
                           \/ sent[j] = [bytes |-> "enter", text |-> sent[i].text]
  <1>2. Len(sent) \in Nat /\ DOMAIN sent = 1..Len(sent) /\ DOMAIN sent' = 1..(Len(sent) + 1)
    BY <1>1 DEF PromptInv
  <1> SUFFICES ASSUME NEW i \in 1..(Len(sent) + 1), NEW j \in 1..(Len(sent) + 1), i < j,
                      sent'[i].bytes = "text", Between(i, j)'
               PROVE  Fits(i, j)'
    BY <1>2 DEF PromptIntact
  <1>3. i \in 1..Len(sent) /\ sent'[i] = sent[i]
    BY <1>1, <1>2
  <1>4. CASE j = Len(sent) + 1
    <2>1. \A k \in (i + 1)..Len(sent) : sent[k].bytes = "keys"
      BY <1>1, <1>2, <1>3, <1>4
    <2>2. Open(i)
      BY <1>3, <2>1 DEF Open
    <2> QED
      BY <1>1, <1>3, <1>4, <2>2
  <1>5. CASE j # Len(sent) + 1
    <2>1. j \in 1..Len(sent) /\ sent'[j] = sent[j]
      BY <1>1, <1>2, <1>5
    <2>2. Between(i, j)
      BY <1>1, <1>2, <1>3, <2>1
    <2>3. Fits(i, j)
      BY <1>2, <1>3, <2>1, <2>2 DEF PromptInv, PromptIntact
    <2> QED
      BY <1>3, <2>1, <2>3
  <1> QED
    BY <1>4, <1>5

\* A prompt that is open after an input was open before it, or is that input.
LEMMA OpenMore ==
    ASSUME NEW x \in Input, PromptInv, Writes(x), NEW i \in 1..Len(sent'), Open(i)'
    PROVE  \/ i = Len(sent) + 1 /\ sent'[i] = x /\ x.bytes = "text"
           \/ i \in 1..Len(sent) /\ sent'[i] = sent[i] /\ Open(i) /\ x.bytes = "keys"
  <1>1. /\ Len(sent') = Len(sent) + 1 /\ sent'[Len(sent) + 1] = x
        /\ \A k \in 1..Len(sent) : sent'[k] = sent[k]
    BY OneMore
  <1>2. Len(sent) \in Nat
    BY DEF PromptInv
  <1>3. CASE i = Len(sent) + 1
    BY <1>1, <1>3 DEF Open
  <1>4. CASE i # Len(sent) + 1
    <2>1. i \in 1..Len(sent) /\ sent'[i] = sent[i]
      BY <1>1, <1>2, <1>4
    <2>2. x.bytes = "keys"
      BY <1>1, <1>2, <2>1 DEF Open
    <2>3. \A k \in (i + 1)..Len(sent) : sent[k].bytes = "keys"
      BY <1>1, <1>2, <2>1 DEF Open
    <2> QED
      BY <2>1, <2>2, <2>3 DEF Open
  <1> QED
    BY <1>3, <1>4

\* A step that puts nothing in the channel keeps the invariant if it leaves
\* the listener alone, or has found it at rest or ended.
LEMMA PromptSame ==
    ASSUME PromptInv, sent' = sent,
           \/ listener' = listener
           \/ listener.phase \notin {"entering", "ended"}
           \/ listener'.phase = "ended"
    PROVE  PromptInv'
  BY DEF PromptInv, PromptIntact, Open

LEMMA PromptListener == PromptInv /\ ListenerSteps => PromptInv'
  <1> SUFFICES ASSUME PromptInv, ListenerSteps PROVE PromptInv'
    OBVIOUS
  <1>1. ASSUME NEW p \in Prompts, InjectText(p) PROVE PromptInv'
    <2> DEFINE x == [bytes |-> "text", text |-> p]
    <2>1. listener.phase = "reading" /\ x \in Input
      BY <1>1 DEF InjectText, Line, Listens, Idle, Input
    <2>2. CASE ~writing
      BY <1>1, <2>2, PromptSame DEF InjectText
    <2>3. CASE writing
      <3>1. Writes(x) /\ listener' = [phase |-> "entering", text |-> p]
        BY <1>1, <2>3 DEF InjectText
      <3>2. \A i \in 1..Len(sent) : ~Open(i)
        BY <2>1 DEF PromptInv
      <3>3. PromptIntact' /\ sent' \in Seq(Input)
        BY <2>1, <3>1, <3>2, IntactMore, OneMore
      <3>4. ASSUME NEW i \in 1..Len(sent'), Open(i)'
            PROVE  listener' = [phase |-> "entering", text |-> sent'[i].text]
        <4>1. sent'[i] = x
          BY <2>1, <3>1, <3>2, <3>4, OpenMore
        <4> QED
          BY <3>1, <4>1
      <3> QED
        BY <3>3, <3>4 DEF PromptInv
    <2> QED
      BY <2>2, <2>3
  <1>2. ASSUME NEW p \in Prompts, InjectEnter(p) PROVE PromptInv'
    <2> DEFINE x == [bytes |-> "enter", text |-> p]
    <2>1. listener = [phase |-> "entering", text |-> p] /\ x \in Input
      BY <1>2 DEF InjectEnter, Input
    <2>2. CASE ~writing
      BY <1>2, <2>2, PromptSame DEF InjectEnter
    <2>3. CASE writing
      <3>1. Writes(x)
        BY <1>2, <2>3 DEF InjectEnter
      <3>2. \A i \in 1..Len(sent) : Open(i) => p = sent[i].text
        BY <2>1 DEF PromptInv
      <3>3. PromptIntact' /\ sent' \in Seq(Input)
        BY <2>1, <3>1, <3>2, IntactMore, OneMore
      <3>4. \A i \in 1..Len(sent') : ~Open(i)'
        BY <2>1, <3>1, OpenMore
      <3> QED
        BY <3>3, <3>4 DEF PromptInv
    <2> QED
      BY <2>2, <2>3
  <1>3. CASE WriteBytes
    <2> DEFINE x == [bytes |-> "web"]
    <2>1. listener.phase = "reading" /\ x \in Input
      BY <1>3 DEF WriteBytes, Line, Listens, Idle, Input
    <2>2. CASE ~writing
      BY <1>3, <2>2, PromptSame DEF WriteBytes
    <2>3. CASE writing
      <3>1. Writes(x)
        BY <1>3, <2>3 DEF WriteBytes
      <3>2. \A i \in 1..Len(sent) : ~Open(i)
        BY <2>1 DEF PromptInv
      <3>3. PromptIntact' /\ sent' \in Seq(Input)
        BY <2>1, <3>1, <3>2, IntactMore, OneMore
      <3>4. \A i \in 1..Len(sent') : ~Open(i)'
        BY <2>1, <3>1, OpenMore
      <3> QED
        BY <3>3, <3>4 DEF PromptInv
    <2> QED
      BY <2>2, <2>3
  <1>4. CASE \E s \in Sizes : ResizePty(s) \/ StoreSize(s) \/ RestoreSize(s)
    <2>1. sent' = sent /\ listener.phase \notin {"entering", "ended"}
      BY <1>4 DEF ResizePty, StoreSize, RestoreSize, Resize, Line, Listens, Idle
    <2> QED
      BY <2>1, PromptSame
  <1>5. CASE RedrawTaller \/ ListenerEnds \/ ListenerEof \/ Reconnect
    <2>1. sent' = sent /\ listener.phase \notin {"entering", "ended"}
      BY <1>5 DEF RedrawTaller, Resize, ListenerEnds, ListenerEof, Reconnect, Line, Listens, Idle
    <2> QED
      BY <2>1, PromptSame
  <1> QED
    BY <1>1, <1>2, <1>3, <1>4, <1>5 DEF ListenerSteps

LEMMA PromptKeys == PromptInv /\ StdinKeys => PromptInv'
  <1> SUFFICES ASSUME PromptInv, StdinKeys PROVE PromptInv'
    OBVIOUS
  <1> DEFINE x == [bytes |-> "keys"]
  <1>1. x \in Input /\ Writes(x) /\ listener' = listener
    BY DEF StdinKeys, Input
  <1>2. PromptIntact' /\ sent' \in Seq(Input)
    BY <1>1, IntactMore, OneMore
  <1>3. ASSUME NEW i \in 1..Len(sent'), Open(i)'
        PROVE  i \in 1..Len(sent) /\ sent'[i] = sent[i] /\ Open(i)
    BY <1>1, <1>3, OpenMore
  <1> QED
    BY <1>1, <1>2, <1>3 DEF PromptInv

LEMMA OthersSendNothing ==
    ASSUME [Next]_vars, ~ListenerSteps, ~StdinKeys
    PROVE  sent' = sent /\ listener' = listener
  BY DEF Next, vars, HandleSendPrompt, HandleTerminalInput, HandleTerminalResize,
     HandleWatchTerminal, TaskDeliver, DaemonStops, WriterSteps, WriterWrites, WriterEnds,
     ResizerSteps, ResizerResizes, ResizerStores, ResizerEnds, HostResizes, WrapperStops, wrapper

\* Whatever clients, web terminals and the user at the host terminal do at
\* the same time, nothing but keys of the host terminal gets between the text
\* of a prompt and the carriage return that submits it.
THEOREM PromptIntactHolds == Spec => []PromptIntact
  <1>1. Init => PromptInv
    BY DEF Init, PromptInv, PromptIntact
  <1>2. PromptInv /\ [Next]_vars => PromptInv'
    BY PromptListener, PromptKeys, OthersSendNothing, PromptSame
  <1>3. PromptInv => PromptIntact
    BY DEF PromptInv
  <1> QED
    BY <1>1, <1>2, <1>3, PTL DEF Spec

------------------------------------------------------------------------------
(* The order of the prompts. AcceptedInOrder speaks of places on the way   *)
(* from the daemon to the terminal; each step moves the places, and what   *)
(* it does to the order is said once, for any such move.                   *)

Carries(x, p) == x \in {[bytes |-> "text", text |-> p], [type |-> "InjectPrompt", text |-> p]}

\* The way `w` carries the prompts of `acc` without those of `gone`, in order.
InOrder(w, acc, gone) ==
    /\ \A p \in Prompts : \A a \in DOMAIN w : Carries(w[a], p) => p \in ToSet(acc) \ gone
    /\ \A p \in ToSet(acc) \ gone : \E a \in DOMAIN w : Carries(w[a], p)
    /\ \A i, j \in DOMAIN acc, a, b \in DOMAIN w :
          Carries(w[a], acc[i]) /\ Carries(w[b], acc[j]) => (a < b <=> i < j)

\* Besides the order: no prompt is accepted twice, or lost without having
\* been accepted.
OrderInv ==
    /\ TypeOK
    /\ AcceptedInOrder
    /\ \A i, j \in DOMAIN accepted : accepted[i] = accepted[j] => i = j
    /\ lost \subseteq ToSet(accepted)

LEMMA OrderIs == AcceptedInOrder <=> InOrder(Way, accepted, lost)
  BY Zenon DEF AcceptedInOrder, InOrder, At, Carries

LEMMA CarriesWhat ==
    /\ \A p, q : Carries([bytes |-> "text", text |-> p], q) <=> p = q
    /\ \A p, q : Carries([type |-> "InjectPrompt", text |-> p], q) <=> p = q
    /\ \A p, q : ~Carries([bytes |-> "enter", text |-> p], q)
    /\ \A q : ~Carries([bytes |-> "web"], q) /\ ~Carries([bytes |-> "keys"], q)
    /\ \A q : ~Carries([type |-> "TerminalWrite"], q) /\ ~Carries([type |-> "ForceRedraw"], q)
    /\ \A s, q : ~Carries([type |-> "TerminalResize", size |-> s], q)
  BY DEF Carries

\* Among events it is the request to inject it that carries a prompt.
LEMMA CarriesEvent ==
    ASSUME NEW e \in ServerEvent, NEW p
    PROVE  Carries(e, p) <=> e = [type |-> "InjectPrompt", text |-> p]
  BY DEF Carries, ServerEvent

\* A prompt has one place.
LEMMA OnePlace ==
    ASSUME NEW w, NEW acc, NEW gone, InOrder(w, acc, gone), DOMAIN w \subseteq Nat,
           NEW p \in Prompts, NEW a \in DOMAIN w, NEW b \in DOMAIN w,
           DOMAIN acc \subseteq Nat,
           Carries(w[a], p), Carries(w[b], p)
    PROVE  a = b
  <1>1. PICK i \in DOMAIN acc : acc[i] = p
    BY DEF InOrder, ToSet
  <1>2. ~(a < b) /\ ~(b < a)
    BY <1>1 DEF InOrder
  <1> QED
    BY <1>2

\* A way `v` whose prompts stand, in the same order, in places of the way `w`,
\* and are all of them but those in `more`.
LEMMA Moved ==
    ASSUME NEW w, NEW v, NEW acc, NEW gone, NEW more, NEW f,
           InOrder(w, acc, gone),
           DOMAIN acc \subseteq Nat, DOMAIN v \subseteq Nat, ToSet(acc) \subseteq Prompts,
           \A p \in Prompts : \A a \in DOMAIN v : Carries(v[a], p) =>
               f[a] \in DOMAIN w /\ f[a] \in Nat /\ Carries(w[f[a]], p) /\ p \notin more,
           \A p \in Prompts : \A b \in DOMAIN w : Carries(w[b], p) =>
               p \in more \/ \E a \in DOMAIN v : Carries(v[a], p),
           \A p, q \in Prompts : \A a, b \in DOMAIN v :
               Carries(v[a], p) /\ Carries(v[b], q) /\ a < b => f[a] < f[b]
    PROVE  InOrder(v, acc, gone \cup more)
  <1>1. ASSUME NEW p \in Prompts, NEW a \in DOMAIN v, Carries(v[a], p)
        PROVE  p \in ToSet(acc) \ (gone \cup more)
    BY <1>1 DEF InOrder
  <1>2. ASSUME NEW p \in ToSet(acc) \ (gone \cup more)
        PROVE  \E a \in DOMAIN v : Carries(v[a], p)
    BY <1>2 DEF InOrder
  <1>3. ASSUME NEW i \in DOMAIN acc, NEW j \in DOMAIN acc, NEW a \in DOMAIN v, NEW b \in DOMAIN v,
               Carries(v[a], acc[i]), Carries(v[b], acc[j])
        PROVE  a < b <=> i < j
    <2>1. acc[i] \in Prompts /\ acc[j] \in Prompts
      BY DEF ToSet
    <2>2. /\ f[a] \in DOMAIN w /\ f[b] \in DOMAIN w /\ f[a] \in Nat /\ f[b] \in Nat
          /\ Carries(w[f[a]], acc[i]) /\ Carries(w[f[b]], acc[j])
      BY <1>3, <2>1
    <2>3. f[a] < f[b] <=> i < j
      BY <2>2 DEF InOrder
    <2>4. (a < b => f[a] < f[b]) /\ (b < a => f[b] < f[a])
      BY <1>3, <2>1
    <2>5. a \in Nat /\ b \in Nat
      OBVIOUS
    <2>6. a = b => f[a] = f[b]
      OBVIOUS
    <2> QED
      BY <2>2, <2>3, <2>4, <2>5, <2>6
  <1> QED
    BY <1>1, <1>2, <1>3 DEF InOrder

\* The places of a way that consists of three sequences.
LEMMA Places ==
    ASSUME NEW s \in Seq(Input), NEW l \in Seq(ServerEvent), NEW r \in Seq(ServerEvent)
    PROVE  /\ Len(s) \in Nat /\ Len(l) \in Nat /\ Len(r) \in Nat
           /\ DOMAIN (s \o l \o r) = 1..(Len(s) + Len(l) + Len(r))
           /\ \A a \in 1..(Len(s) + Len(l) + Len(r)) :
                 (s \o l \o r)[a] = IF a <= Len(s) THEN s[a]
                                    ELSE IF a <= Len(s) + Len(l) THEN l[a - Len(s)]
                                    ELSE r[a - Len(s) - Len(l)]
  <1> DEFINE X == Input \cup ServerEvent
  <1>1. s \in Seq(X) /\ l \in Seq(X) /\ r \in Seq(X)
    BY SeqMonotonic
  <1>2. Len(s) \in Nat /\ Len(l) \in Nat /\ Len(r) \in Nat
    BY LenProperties
  <1> HIDE DEF X
  <1>3. /\ s \o l \in Seq(X) /\ Len(s \o l) = Len(s) + Len(l)
        /\ \A a \in 1..(Len(s) + Len(l)) : (s \o l)[a] = IF a <= Len(s) THEN s[a] ELSE l[a - Len(s)]
    BY <1>1, ConcatProperties
  <1>4. /\ s \o l \o r \in Seq(X) /\ Len(s \o l \o r) = Len(s \o l) + Len(r)
        /\ \A a \in 1..(Len(s \o l) + Len(r)) :
              (s \o l \o r)[a] = IF a <= Len(s \o l) THEN (s \o l)[a] ELSE r[a - Len(s \o l)]
    BY <1>1, <1>3, ConcatProperties
  <1>5. DOMAIN (s \o l \o r) = 1..Len(s \o l \o r)
    BY <1>4, LenProperties
  <1> QED
    BY <1>2, <1>3, <1>4, <1>5

LEMMA WayPlaces ==
    ASSUME TypeOK
    PROVE  /\ Len(sent) \in Nat /\ Len(lines) \in Nat /\ Len(wrapper_rx) \in Nat
           /\ DOMAIN Way = 1..(Len(sent) + Len(lines) + Len(wrapper_rx))
           /\ DOMAIN Way \subseteq Nat /\ DOMAIN accepted \subseteq Nat
           /\ ToSet(accepted) \subseteq Prompts
           /\ \A a \in DOMAIN Way :
                 Way[a] = IF a <= Len(sent) THEN sent[a]
                          ELSE IF a <= Len(sent) + Len(lines) THEN lines[a - Len(sent)]
                          ELSE wrapper_rx[a - Len(sent) - Len(lines)]
  <1>1. sent \in Seq(Input) /\ lines \in Seq(ServerEvent) /\ wrapper_rx \in Seq(ServerEvent)
        /\ accepted \in Seq(Prompts)
    BY DEF TypeOK
  <1>2. DOMAIN accepted = 1..Len(accepted) /\ Len(accepted) \in Nat
        /\ \A i \in DOMAIN accepted : accepted[i] \in Prompts
    BY <1>1, LenProperties, ElementOfSeq
  <1>3. ToSet(accepted) \subseteq Prompts
    BY <1>2 DEF ToSet
  <1> QED
    BY <1>1, <1>2, <1>3, Places DEF Way

LEMMA WayPlacesNext ==
    ASSUME TypeOK'
    PROVE  /\ Len(sent') \in Nat /\ Len(lines') \in Nat /\ Len(wrapper_rx') \in Nat
           /\ DOMAIN Way' = 1..(Len(sent') + Len(lines') + Len(wrapper_rx'))
           /\ DOMAIN Way' \subseteq Nat
           /\ \A a \in DOMAIN Way' :
                 Way'[a] = IF a <= Len(sent') THEN sent'[a]
                           ELSE IF a <= Len(sent') + Len(lines') THEN lines'[a - Len(sent')]
                           ELSE wrapper_rx'[a - Len(sent') - Len(lines')]
  <1>1. sent' \in Seq(Input) /\ lines' \in Seq(ServerEvent) /\ wrapper_rx' \in Seq(ServerEvent)
    BY DEF TypeOK
  <1> QED
    BY <1>1, Places DEF Way

\* A step takes the prompts `more` off the way and keeps the others in order:
\* what is at place a came from place f[a].
MovedBy(f, more) ==
    /\ \A p \in more : p \in Prompts /\ \E b \in DOMAIN Way : Carries(Way[b], p)
    /\ \A p \in Prompts : \A a \in DOMAIN Way' : Carries(Way'[a], p) =>
          f[a] \in DOMAIN Way /\ Carries(Way[f[a]], p) /\ p \notin more
    /\ \A p \in Prompts : \A b \in DOMAIN Way : Carries(Way[b], p) =>
          p \in more \/ \E a \in DOMAIN Way' : Carries(Way'[a], p)
    /\ \A p, q \in Prompts : \A a, b \in DOMAIN Way' :
          Carries(Way'[a], p) /\ Carries(Way'[b], q) /\ a < b => f[a] < f[b]

\* A step that answers no prompt and moves those on their way, or loses some.
LEMMA MovedStep ==
    ASSUME OrderInv, TypeOK', accepted' = accepted,
           NEW more, NEW f, lost' = lost \cup more, MovedBy(f, more)
    PROVE  OrderInv'
  <1> DEFINE v == Way'
  <1>1. InOrder(Way, accepted, lost)
    BY OrderIs DEF OrderInv
  <1>2. DOMAIN Way \subseteq Nat /\ DOMAIN accepted \subseteq Nat /\ ToSet(accepted) \subseteq Prompts
    BY WayPlaces DEF OrderInv
  <1>3. DOMAIN v \subseteq Nat
    BY WayPlacesNext
  <1> HIDE DEF v
  <1>4. InOrder(v, accepted, lost \cup more)
    BY <1>1, <1>2, <1>3, Moved DEF v, MovedBy
  <1>5. more \subseteq ToSet(accepted)
    BY <1>1 DEF InOrder, MovedBy
  <1>6. AcceptedInOrder' <=> InOrder(v, accepted', lost')
    BY Zenon DEF AcceptedInOrder, InOrder, At, Carries, v
  <1>7. AcceptedInOrder'
    BY <1>4, <1>6
  <1>8. lost' \subseteq ToSet(accepted)'
    BY <1>5 DEF OrderInv
  <1> QED
    BY <1>7, <1>8 DEF OrderInv

\* The sequences are the same, or the prompts are where they were.
LEMMA OrderStays ==
    ASSUME OrderInv, TypeOK', accepted' = accepted, lost' = lost,
           \A p \in Prompts : \A a \in Nat :
               (a \in DOMAIN Way' /\ Carries(Way'[a], p)) <=> (a \in DOMAIN Way /\ Carries(Way[a], p))
    PROVE  OrderInv'
  <1> DEFINE f == [a \in Nat |-> a]
  <1>1. DOMAIN Way \subseteq Nat /\ DOMAIN Way' \subseteq Nat
    BY WayPlaces, WayPlacesNext DEF OrderInv
  <1>2. \A a \in Nat : f[a] = a
    OBVIOUS
  <1> HIDE DEF f
  <1>3. lost' = lost \cup {}
    OBVIOUS
  <1>4. \A p \in Prompts : \A a \in DOMAIN Way' : Carries(Way'[a], p) =>
            f[a] \in DOMAIN Way /\ Carries(Way[f[a]], p) /\ p \notin {}
    BY <1>1, <1>2
  <1>5. \A p \in Prompts : \A b \in DOMAIN Way : Carries(Way[b], p) =>
            p \in {} \/ \E a \in DOMAIN Way' : Carries(Way'[a], p)
    BY <1>1
  <1>6. \A p, q \in Prompts : \A a, b \in DOMAIN Way' :
            Carries(Way'[a], p) /\ Carries(Way'[b], q) /\ a < b => f[a] < f[b]
    BY <1>1, <1>2
  <1>7. \A p \in {} : p \in Prompts /\ \E b \in DOMAIN Way : Carries(Way[b], p)
    OBVIOUS
  <1>8. MovedBy(f, {})
    BY <1>4, <1>5, <1>6, <1>7 DEF MovedBy
  <1> QED
    BY <1>3, <1>8, MovedStep

\* An event that carries no prompt joins the channel, or finds it full.
LEMMA OrderOtherEvent ==
    ASSUME OrderInv, TypeOK', NEW e \in ServerEvent, \A p : ~Carries(e, p), TrySend(e),
           UNCHANGED <<sent, lines, accepted, lost>>
    PROVE  OrderInv'
  <1>1. TypeOK
    BY DEF OrderInv
  <1>2. CASE ~HasRoom
    BY <1>2, OrderStays DEF TrySend, Way
  <1>3. CASE HasRoom
    <2>1. /\ Len(wrapper_rx') = Len(wrapper_rx) + 1 /\ wrapper_rx'[Len(wrapper_rx) + 1] = e
          /\ \A a \in 1..Len(wrapper_rx) : wrapper_rx'[a] = wrapper_rx[a]
      BY <1>1, <1>3, AppendProperties DEF TrySend, TypeOK
    <2>2. ASSUME NEW p \in Prompts, NEW a \in Nat
          PROVE  (a \in DOMAIN Way' /\ Carries(Way'[a], p)) <=> (a \in DOMAIN Way /\ Carries(Way[a], p))
      <3>1. DOMAIN Way' = 1..(Len(sent) + Len(lines) + Len(wrapper_rx) + 1)
        BY <2>1, WayPlacesNext, WayPlaces, <1>1
      <3>2. CASE a \in DOMAIN Way
        <4>1. Len(sent) \in Nat /\ Len(lines) \in Nat /\ Len(wrapper_rx) \in Nat /\ a \in DOMAIN Way'
              /\ a \in 1..(Len(sent) + Len(lines) + Len(wrapper_rx))
          BY <1>1, <3>1, <3>2, WayPlaces
        <4>2. Way'[a] = IF a <= Len(sent) THEN sent[a]
                        ELSE IF a <= Len(sent) + Len(lines) THEN lines[a - Len(sent)]
                        ELSE wrapper_rx'[a - Len(sent) - Len(lines)]
          BY <4>1, WayPlacesNext
        <4>3. Way[a] = IF a <= Len(sent) THEN sent[a]
                       ELSE IF a <= Len(sent) + Len(lines) THEN lines[a - Len(sent)]
                       ELSE wrapper_rx[a - Len(sent) - Len(lines)]
          BY <1>1, <3>2, WayPlaces
        <4>4. Way'[a] = Way[a]
          BY <2>1, <4>1, <4>2, <4>3
        <4> QED
          BY <3>2, <4>1, <4>4
      <3>3. CASE a \notin DOMAIN Way /\ a \in DOMAIN Way'
        <4>1. a = Len(sent) + Len(lines) + Len(wrapper_rx) + 1
          BY <1>1, <3>1, <3>3, WayPlaces
        <4>2. Way'[a] = e
          BY <1>1, <2>1, <3>3, <4>1, WayPlaces, WayPlacesNext
        <4> QED
          BY <3>3, <4>2
      <3> QED
        BY <3>2, <3>3
    <2> QED
      BY <2>2, OrderStays
  <1> QED
    BY <1>2, <1>3

\* The task's write moves an event from the channel to the lines.
LEMMA OrderDeliver ==
    ASSUME OrderInv, TypeOK', TaskDeliver
    PROVE  OrderInv'
  <1>1. TypeOK
    BY DEF OrderInv
  <1>2. /\ Head(wrapper_rx) \in ServerEvent /\ Head(wrapper_rx) = wrapper_rx[1]
        /\ Len(wrapper_rx') = Len(wrapper_rx) - 1
        /\ \A a \in 1..Len(wrapper_rx') : wrapper_rx'[a] = wrapper_rx[a + 1]
    BY <1>1, HeadTailProperties DEF TaskDeliver, TypeOK
  <1>3. /\ Len(lines') = Len(lines) + 1 /\ lines'[Len(lines) + 1] = wrapper_rx[1]
        /\ \A a \in 1..Len(lines) : lines'[a] = lines[a]
    BY <1>1, <1>2, AppendProperties DEF TaskDeliver, TypeOK
  <1>4. sent' = sent /\ accepted' = accepted /\ lost' = lost
    BY DEF TaskDeliver, history
  <1>5. DOMAIN Way' = DOMAIN Way
    BY <1>1, <1>2, <1>3, <1>4, WayPlaces, WayPlacesNext
  <1>6. ASSUME NEW a \in DOMAIN Way PROVE Way'[a] = Way[a]
    <2>1. Len(sent) \in Nat /\ Len(lines) \in Nat /\ Len(wrapper_rx) \in Nat
          /\ a \in 1..(Len(sent) + Len(lines) + Len(wrapper_rx))
      BY <1>1, WayPlaces
    <2>2. Way'[a] = IF a <= Len(sent) THEN sent[a]
                    ELSE IF a <= Len(sent) + Len(lines) + 1 THEN lines'[a - Len(sent)]
                    ELSE wrapper_rx'[a - Len(sent) - (Len(lines) + 1)]
      BY <1>3, <1>4, <1>5, WayPlacesNext
    <2>3. Way[a] = IF a <= Len(sent) THEN sent[a]
                   ELSE IF a <= Len(sent) + Len(lines) THEN lines[a - Len(sent)]
                   ELSE wrapper_rx[a - Len(sent) - Len(lines)]
      BY <1>1, WayPlaces
    <2> QED
      BY <1>2, <1>3, <2>1, <2>2, <2>3
  <1> QED
    BY <1>4, <1>5, <1>6, OrderStays

\* Bytes that carry no prompt are typed beside the listener's lines.
LEMMA OrderOtherBytes ==
    ASSUME OrderInv, TypeOK', NEW x \in Input, \A p : ~Carries(x, p), Writes(x),
           UNCHANGED <<lines, wrapper_rx, accepted, lost>>
    PROVE  OrderInv'
  <1>1. TypeOK
    BY DEF OrderInv
  <1> DEFINE f == [a \in Nat |-> IF a <= Len(sent) THEN a ELSE a - 1]
             n == Len(sent) + Len(lines) + Len(wrapper_rx)
  <1>2. /\ Len(sent') = Len(sent) + 1 /\ sent'[Len(sent) + 1] = x
        /\ \A a \in 1..Len(sent) : sent'[a] = sent[a]
    BY <1>1, AppendProperties DEF Writes, TypeOK
  <1>3. \A a \in Nat : f[a] = IF a <= Len(sent) THEN a ELSE a - 1
    OBVIOUS
  <1>4. n \in Nat /\ Len(sent) \in Nat /\ DOMAIN Way = 1..n /\ DOMAIN Way' = 1..(n + 1)
    BY <1>1, <1>2, WayPlaces, WayPlacesNext
  <1>5. \A a \in 1..(n + 1) : a # Len(sent) + 1 => f[a] \in 1..n /\ Way'[a] = Way[f[a]]
    <2> SUFFICES ASSUME NEW a \in 1..(n + 1), a # Len(sent) + 1
                 PROVE  f[a] \in 1..n /\ Way'[a] = Way[f[a]]
      OBVIOUS
    <2>1. Len(sent) \in Nat /\ Len(lines) \in Nat /\ Len(wrapper_rx) \in Nat
      BY <1>1, WayPlaces
    <2>2. f[a] \in 1..n /\ f[a] = IF a <= Len(sent) THEN a ELSE a - 1
      BY <1>3, <2>1
    <2>3. Way'[a] = IF a <= Len(sent) + 1 THEN sent'[a]
                    ELSE IF a <= Len(sent) + 1 + Len(lines) THEN lines[a - (Len(sent) + 1)]
                    ELSE wrapper_rx[a - (Len(sent) + 1) - Len(lines)]
      BY <1>2, <1>4, WayPlacesNext
    <2>4. Way[f[a]] = IF f[a] <= Len(sent) THEN sent[f[a]]
                      ELSE IF f[a] <= Len(sent) + Len(lines) THEN lines[f[a] - Len(sent)]
                      ELSE wrapper_rx[f[a] - Len(sent) - Len(lines)]
      BY <1>1, <1>4, <2>2, WayPlaces
    <2>5. CASE a <= Len(sent)
      BY <1>2, <2>1, <2>2, <2>3, <2>4, <2>5
    <2>6. CASE a > Len(sent)
      <3>1. a > Len(sent) + 1 /\ f[a] = a - 1
        BY <2>1, <2>2, <2>6
      <3>2. a - 1 - Len(sent) = a - (Len(sent) + 1)
        BY <2>1
      <3> QED
        BY <2>1, <2>2, <2>3, <2>4, <3>1, <3>2
    <2> QED
      BY <2>1, <2>5, <2>6
  <1>6. Way'[Len(sent) + 1] = x
    BY <1>1, <1>2, <1>4, WayPlaces, WayPlacesNext
  <1>7. \A b \in 1..n : \E a \in 1..(n + 1) : Way'[a] = Way[b]
    <2> TAKE b \in 1..n
    <2> DEFINE a == IF b <= Len(sent) THEN b ELSE b + 1
    <2>1. a \in 1..(n + 1) /\ a # Len(sent) + 1 /\ f[a] = b
      BY <1>3, <1>4
    <2> QED
      BY <1>5, <2>1
  <1> HIDE DEF f, n
  <1>8. \A p \in Prompts : \A a \in DOMAIN Way' : Carries(Way'[a], p) =>
            f[a] \in DOMAIN Way /\ Carries(Way[f[a]], p) /\ p \notin {}
    BY <1>4, <1>5, <1>6
  <1>9. \A p \in Prompts : \A b \in DOMAIN Way : Carries(Way[b], p) =>
            p \in {} \/ \E a \in DOMAIN Way' : Carries(Way'[a], p)
    BY <1>4, <1>7
  <1>10. \A p, q \in Prompts : \A a, b \in DOMAIN Way' :
            Carries(Way'[a], p) /\ Carries(Way'[b], q) /\ a < b => f[a] < f[b]
    BY <1>3, <1>4, <1>6
  <1>11. MovedBy(f, {})
    BY <1>8, <1>9, <1>10 DEF MovedBy
  <1>12. lost' = lost \cup {}
    OBVIOUS
  <1> QED
    BY <1>11, <1>12, MovedStep

\* The listener types what a line carries.
LEMMA OrderTyped ==
    ASSUME OrderInv, TypeOK', NEW e, NEW x \in Input, \A p : Carries(e, p) <=> Carries(x, p),
           Line(e), Writes(x), UNCHANGED <<wrapper_rx, accepted, lost>>
    PROVE  OrderInv'
  <1>1. TypeOK
    BY DEF OrderInv
  <1>2. /\ Len(sent') = Len(sent) + 1 /\ sent'[Len(sent) + 1] = x
        /\ \A a \in 1..Len(sent) : sent'[a] = sent[a]
    BY <1>1, AppendProperties DEF Writes, TypeOK
  <1>3. /\ lines[1] = e /\ Len(lines') = Len(lines) - 1
        /\ \A a \in 1..Len(lines') : lines'[a] = lines[a + 1]
    BY <1>1, HeadTailProperties DEF Line, TypeOK
  <1>4. Len(lines) \in Nat /\ Len(lines') \in Nat /\ Len(sent) \in Nat
    BY <1>1, WayPlaces, WayPlacesNext
  <1>5. DOMAIN Way' = DOMAIN Way
    BY <1>1, <1>2, <1>3, <1>4, WayPlaces, WayPlacesNext
  <1>6. \A a \in DOMAIN Way : a # Len(sent) + 1 => Way'[a] = Way[a]
    <2> SUFFICES ASSUME NEW a \in DOMAIN Way, a # Len(sent) + 1 PROVE Way'[a] = Way[a]
      OBVIOUS
    <2>1. Len(wrapper_rx) \in Nat /\ a \in 1..(Len(sent) + Len(lines) + Len(wrapper_rx))
      BY <1>1, WayPlaces
    <2>2. Way'[a] = IF a <= Len(sent) + 1 THEN sent'[a]
                    ELSE IF a <= Len(sent) + 1 + (Len(lines) - 1) THEN lines'[a - (Len(sent) + 1)]
                    ELSE wrapper_rx[a - (Len(sent) + 1) - (Len(lines) - 1)]
      BY <1>2, <1>3, <1>5, WayPlacesNext
    <2>3. Way[a] = IF a <= Len(sent) THEN sent[a]
                   ELSE IF a <= Len(sent) + Len(lines) THEN lines[a - Len(sent)]
                   ELSE wrapper_rx[a - Len(sent) - Len(lines)]
      BY <1>1, WayPlaces
    <2>4. CASE a <= Len(sent)
      BY <1>2, <1>4, <2>1, <2>2, <2>3, <2>4
    <2>5. CASE a > Len(sent) /\ a <= Len(sent) + Len(lines)
      BY <1>3, <1>4, <2>1, <2>2, <2>3, <2>5
    <2>6. CASE a > Len(sent) + Len(lines)
      BY <1>3, <1>4, <2>1, <2>2, <2>3, <2>6
    <2> QED
      BY <1>4, <2>1, <2>4, <2>5, <2>6
  <1>7. Len(sent) + 1 \in DOMAIN Way /\ Way[Len(sent) + 1] = e /\ Way'[Len(sent) + 1] = x
    BY <1>1, <1>2, <1>3, <1>4, <1>5, WayPlaces, WayPlacesNext
  <1> QED
    BY <1>5, <1>6, <1>7, OrderStays

\* A line is read and nothing is typed: what it carries is lost.
LEMMA OrderSkipped ==
    ASSUME OrderInv, TypeOK', NEW e, Line(e), UNCHANGED <<sent, wrapper_rx, accepted>>,
           lost' = lost \cup {p \in Prompts : Carries(e, p)}
    PROVE  OrderInv'
  <1>1. TypeOK
    BY DEF OrderInv
  <1> DEFINE S == Len(sent)
             L == Len(lines')
             R == Len(wrapper_rx)
             n == S + L + R
             f == [a \in Nat |-> IF a <= S THEN a ELSE a + 1]
             more == {p \in Prompts : Carries(e, p)}
  <1>2. lines[1] = e /\ Len(lines) = L + 1 /\ \A a \in 1..L : lines'[a] = lines[a + 1]
    BY <1>1, HeadTailProperties, LenProperties DEF Line, TypeOK
  <1>3. S \in Nat /\ L \in Nat /\ R \in Nat
    BY <1>1, WayPlaces, WayPlacesNext
  <1>4. DOMAIN Way = 1..(n + 1) /\ DOMAIN Way' = 1..n
    <2>1. DOMAIN Way = 1..(S + (L + 1) + R)
      BY <1>1, <1>2, WayPlaces
    <2>2. DOMAIN Way' = 1..n
      BY WayPlacesNext
    <2>3. S + (L + 1) + R = n + 1
      BY <1>3
    <2> QED
      BY <2>1, <2>2, <2>3
  <1>5. ASSUME NEW a \in 1..n
        PROVE  Way'[a] = IF a <= S THEN sent[a]
                         ELSE IF a <= S + L THEN lines'[a - S] ELSE wrapper_rx[a - S - L]
    BY <1>4, WayPlacesNext
  <1>6. ASSUME NEW a \in 1..(n + 1)
        PROVE  Way[a] = IF a <= S THEN sent[a]
                        ELSE IF a <= S + (L + 1) THEN lines[a - S] ELSE wrapper_rx[a - S - (L + 1)]
    BY <1>1, <1>2, <1>4, WayPlaces
  <1>7. \A a \in Nat : f[a] = IF a <= S THEN a ELSE a + 1
    OBVIOUS
  <1> HIDE DEF S, L, R, f
  <1>8. \A a \in 1..n : f[a] \in 1..(n + 1) /\ f[a] # S + 1
    BY <1>3, <1>7
  <1>9. \A a \in 1..n : Way'[a] = Way[f[a]]
    <2> SUFFICES ASSUME NEW a \in 1..n PROVE Way'[a] = Way[f[a]]
      OBVIOUS
    <2>1. CASE a <= S
      BY <1>3, <1>5, <1>6, <1>7, <1>8, <2>1
    <2>2. CASE a > S /\ a <= S + L
      <3>1. f[a] = a + 1 /\ Way[a + 1] = lines[a + 1 - S] /\ Way'[a] = lines'[a - S]
        BY <1>3, <1>5, <1>6, <1>7, <1>8, <2>2
      <3>2. a - S \in 1..L /\ a + 1 - S = (a - S) + 1
        BY <1>3, <2>2
      <3> QED
        BY <1>2, <3>1, <3>2
    <2>3. CASE a > S + L
      <3>1. f[a] = a + 1 /\ Way[a + 1] = wrapper_rx[a + 1 - S - (L + 1)]
            /\ Way'[a] = wrapper_rx[a - S - L]
        BY <1>3, <1>5, <1>6, <1>7, <1>8, <2>3
      <3>2. a + 1 - S - (L + 1) = a - S - L
        BY <1>3
      <3> QED
        BY <3>1, <3>2
    <2> QED
      BY <1>3, <2>1, <2>2, <2>3
  <1>10. S + 1 \in 1..(n + 1) /\ Way[S + 1] = e
    <2>1. S + 1 \in 1..(n + 1) /\ S + 1 - S = 1
      BY <1>3
    <2> QED
      BY <1>2, <1>3, <1>6, <2>1
  <1>11. \A b \in 1..(n + 1) : b # S + 1 => \E a \in 1..n : Way'[a] = Way[b]
    <2> SUFFICES ASSUME NEW b \in 1..(n + 1), b # S + 1 PROVE \E a \in 1..n : Way'[a] = Way[b]
      OBVIOUS
    <2> DEFINE a == IF b <= S THEN b ELSE b - 1
    <2>1. a \in 1..n
      BY <1>3
    <2>2. f[a] = b
      BY <1>3, <1>7, <2>1
    <2> QED
      BY <1>9, <2>1, <2>2
  <1>12. n \in Nat
    BY <1>3
  <1> HIDE DEF n, more
  <1>13. \A p \in Prompts : \A a \in DOMAIN Way' : Carries(Way'[a], p) =>
            f[a] \in DOMAIN Way /\ Carries(Way[f[a]], p) /\ p \notin more
    <2> SUFFICES ASSUME NEW p \in Prompts, NEW a \in DOMAIN Way', Carries(Way'[a], p), p \in more
                 PROVE  FALSE
      BY <1>4, <1>8, <1>9
    <2>1. InOrder(Way, accepted, lost)
      BY OrderIs DEF OrderInv
    <2>2. f[a] \in DOMAIN Way /\ Carries(Way[f[a]], p) /\ f[a] # S + 1
      BY <1>4, <1>8, <1>9
    <2>3. S + 1 \in DOMAIN Way /\ Carries(Way[S + 1], p)
      BY <1>4, <1>10 DEF more
    <2> QED
      BY <1>1, <2>1, <2>2, <2>3, WayPlaces, OnePlace
  <1>14. \A p \in Prompts : \A b \in DOMAIN Way : Carries(Way[b], p) =>
            p \in more \/ \E a \in DOMAIN Way' : Carries(Way'[a], p)
    BY <1>4, <1>10, <1>11 DEF more
  <1>15. \A p, q \in Prompts : \A a, b \in DOMAIN Way' :
            Carries(Way'[a], p) /\ Carries(Way'[b], q) /\ a < b => f[a] < f[b]
    <2>1. \A a, b \in Nat : a < b => f[a] < f[b]
      BY <1>3, <1>7
    <2>2. \A a \in DOMAIN Way' : a \in Nat
      BY <1>4, <1>12
    <2> QED
      BY <2>1, <2>2
  <1>16. \A p \in more : p \in Prompts /\ \E b \in DOMAIN Way : Carries(Way[b], p)
    BY <1>4, <1>10 DEF more
  <1>17. MovedBy(f, more)
    BY <1>13, <1>14, <1>15, <1>16 DEF MovedBy
  <1>18. lost' = lost \cup more
    BY DEF more
  <1> QED
    BY <1>17, <1>18, MovedStep

\* The events of a sequence that carry a prompt.
LEMMA PromptsCarried ==
    ASSUME NEW s \in Seq(ServerEvent)
    PROVE  /\ PromptsIn(s) \subseteq Prompts
           /\ \A p \in Prompts : p \in PromptsIn(s) <=> \E a \in 1..Len(s) : Carries(s[a], p)
  <1>1. DOMAIN s = 1..Len(s) /\ \A a \in 1..Len(s) : s[a] \in ServerEvent
    BY LenProperties, ElementOfSeq
  <1>2. \A a \in 1..Len(s), p \in Prompts : Carries(s[a], p) <=> s[a] = [type |-> "InjectPrompt", text |-> p]
    BY <1>1, CarriesEvent
  <1> QED
    BY <1>1, <1>2 DEF PromptsIn, ToSet

\* The channel ends with the daemon.
LEMMA OrderChannelGone ==
    ASSUME OrderInv, TypeOK', UNCHANGED <<sent, lines, accepted>>,
           wrapper_rx' = <<>>, lost' = lost \cup PromptsIn(wrapper_rx)
    PROVE  OrderInv'
  <1>1. TypeOK
    BY DEF OrderInv
  <1> DEFINE S == Len(sent)
             L == Len(lines)
             R == Len(wrapper_rx)
             f == [a \in Nat |-> a]
             more == PromptsIn(wrapper_rx)
  <1>2. S \in Nat /\ L \in Nat /\ R \in Nat /\ DOMAIN Way = 1..(S + L + R)
    BY <1>1, WayPlaces
  <1>3. DOMAIN Way' = 1..(S + L)
    <2>1. Len(wrapper_rx') = 0
      BY EmptySeq
    <2> QED
      BY <1>2, <2>1, WayPlacesNext
  <1>4. ASSUME NEW a \in 1..(S + L) PROVE Way'[a] = Way[a] /\ a \in DOMAIN Way
    <2>1. Way'[a] = IF a <= S THEN sent[a] ELSE lines[a - S]
      BY <1>2, <1>3, WayPlacesNext
    <2>2. a \in DOMAIN Way
      BY <1>2
    <2>3. Way[a] = IF a <= S THEN sent[a] ELSE lines[a - S]
      BY <1>1, <1>2, <2>2, WayPlaces
    <2> QED
      BY <2>1, <2>2, <2>3
  <1>5. \A a \in (S + L + 1)..(S + L + R) :
           a \in DOMAIN Way /\ a - S - L \in 1..R /\ Way[a] = wrapper_rx[a - S - L]
    <2> SUFFICES ASSUME NEW a \in (S + L + 1)..(S + L + R)
                 PROVE  a \in DOMAIN Way /\ a - S - L \in 1..R /\ Way[a] = wrapper_rx[a - S - L]
      OBVIOUS
    <2>1. a \in DOMAIN Way /\ a - S - L \in 1..R /\ ~(a <= S) /\ ~(a <= S + L)
      BY <1>2
    <2> QED
      BY <1>1, <2>1, WayPlaces
  <1>6. more \subseteq Prompts
        /\ \A p \in Prompts : p \in more <=> \E a \in 1..R : Carries(wrapper_rx[a], p)
    BY <1>1, PromptsCarried DEF TypeOK
  <1>7. \A a \in Nat : f[a] = a
    OBVIOUS
  <1> HIDE DEF S, L, R, f, more
  <1>8. \A p \in Prompts : p \in more <=> \E a \in (S + L + 1)..(S + L + R) : Carries(Way[a], p)
    <2>1. \A a \in 1..R : S + L + a \in (S + L + 1)..(S + L + R) /\ S + L + a - S - L = a
      BY <1>2
    <2>2. ASSUME NEW a \in 1..R PROVE Way[S + L + a] = wrapper_rx[a]
      <3> DEFINE b == S + L + a
      <3>1. b \in (S + L + 1)..(S + L + R) /\ b - S - L = a
        BY <1>2
      <3> HIDE DEF b
      <3>2. Way[b] = wrapper_rx[b - S - L]
        BY <1>5, <3>1
      <3> QED
        BY <3>1, <3>2 DEF b
    <2> QED
      BY <1>5, <1>6, <2>1, <2>2
  <1>9. \A p \in Prompts : \A a \in DOMAIN Way' : Carries(Way'[a], p) =>
            f[a] \in DOMAIN Way /\ Carries(Way[f[a]], p) /\ p \notin more
    <2> SUFFICES ASSUME NEW p \in Prompts, NEW a \in DOMAIN Way', Carries(Way'[a], p)
                 PROVE  f[a] \in DOMAIN Way /\ Carries(Way[f[a]], p) /\ p \notin more
      OBVIOUS
    <2>1. a \in 1..(S + L) /\ f[a] = a /\ a \in DOMAIN Way /\ Carries(Way[a], p)
      BY <1>2, <1>3, <1>4, <1>7
    <2>2. ASSUME p \in more PROVE FALSE
      <3>1. PICK b \in (S + L + 1)..(S + L + R) : Carries(Way[b], p)
        BY <1>8, <2>2
      <3>2. b \in DOMAIN Way /\ a # b
        BY <1>2, <2>1, <1>5
      <3>3. InOrder(Way, accepted, lost)
        BY OrderIs DEF OrderInv
      <3> QED
        BY <1>1, <2>1, <3>1, <3>2, <3>3, WayPlaces, OnePlace
    <2> QED
      BY <2>1, <2>2
  <1>10. \A p \in Prompts : \A b \in DOMAIN Way : Carries(Way[b], p) =>
            p \in more \/ \E a \in DOMAIN Way' : Carries(Way'[a], p)
    <2>1. \A b \in DOMAIN Way : b \in 1..(S + L) \/ b \in (S + L + 1)..(S + L + R)
      BY <1>2
    <2> QED
      BY <1>3, <1>4, <1>8, <2>1
  <1>11. \A p, q \in Prompts : \A a, b \in DOMAIN Way' :
            Carries(Way'[a], p) /\ Carries(Way'[b], q) /\ a < b => f[a] < f[b]
    BY <1>2, <1>3, <1>7
  <1>12. \A p \in more : p \in Prompts /\ \E b \in DOMAIN Way : Carries(Way[b], p)
    BY <1>5, <1>6, <1>8
  <1>13. MovedBy(f, more)
    BY <1>9, <1>10, <1>11, <1>12 DEF MovedBy
  <1>14. lost' = lost \cup more
    BY DEF more
  <1> QED
    BY <1>13, <1>14, MovedStep

\* The listener leaves its lines unread.
LEMMA OrderLinesGone ==
    ASSUME OrderInv, TypeOK', UNCHANGED <<sent, wrapper_rx, accepted>>,
           lines' = <<>>, lost' = lost \cup PromptsIn(lines)
    PROVE  OrderInv'
  <1>1. TypeOK
    BY DEF OrderInv
  <1> DEFINE S == Len(sent)
             L == Len(lines)
             R == Len(wrapper_rx)
             f == [a \in Nat |-> IF a <= S THEN a ELSE a + L]
             more == PromptsIn(lines)
  <1>2. S \in Nat /\ L \in Nat /\ R \in Nat /\ DOMAIN Way = 1..(S + L + R)
    BY <1>1, WayPlaces
  <1>3. Len(lines') = 0 /\ DOMAIN Way' = 1..(S + R)
    <2>1. Len(lines') = 0
      BY EmptySeq
    <2>2. DOMAIN Way' = 1..(S + 0 + R)
      BY <2>1, WayPlacesNext
    <2> QED
      BY <1>2, <2>1, <2>2
  <1>4. ASSUME NEW a \in 1..(S + R)
        PROVE  Way'[a] = IF a <= S THEN sent[a] ELSE wrapper_rx[a - S]
    <2>1. Way'[a] = IF a <= S THEN sent[a] ELSE IF a <= S + 0 THEN lines'[a - S] ELSE wrapper_rx[a - S - 0]
      BY <1>3, WayPlacesNext
    <2>2. S + 0 = S /\ a - S - 0 = a - S
      BY <1>2
    <2> QED
      BY <2>1, <2>2
  <1>5. ASSUME NEW a \in 1..(S + L + R)
        PROVE  Way[a] = IF a <= S THEN sent[a] ELSE IF a <= S + L THEN lines[a - S] ELSE wrapper_rx[a - S - L]
    BY <1>1, <1>2, WayPlaces
  <1>6. more \subseteq Prompts
        /\ \A p \in Prompts : p \in more <=> \E a \in 1..L : Carries(lines[a], p)
    BY <1>1, PromptsCarried DEF TypeOK
  <1>7. \A a \in Nat : f[a] = IF a <= S THEN a ELSE a + L
    OBVIOUS
  <1> HIDE DEF S, L, R, f, more
  <1>8. \A a \in 1..(S + R) : f[a] \in 1..(S + L + R) /\ (f[a] <= S \/ f[a] > S + L)
    BY <1>2, <1>7
  <1>9. \A a \in 1..(S + R) : Way'[a] = Way[f[a]]
    <2> SUFFICES ASSUME NEW a \in 1..(S + R) PROVE Way'[a] = Way[f[a]]
      OBVIOUS
    <2>1. CASE a <= S
      BY <1>2, <1>4, <1>5, <1>7, <1>8, <2>1
    <2>2. CASE a > S
      <3>1. f[a] = a + L /\ Way[a + L] = wrapper_rx[a + L - S - L] /\ Way'[a] = wrapper_rx[a - S]
        BY <1>2, <1>4, <1>5, <1>7, <1>8, <2>2
      <3>2. a + L - S - L = a - S
        BY <1>2
      <3> QED
        BY <3>1, <3>2
    <2> QED
      BY <1>2, <2>1, <2>2
  <1>10. \A p \in Prompts : p \in more <=> \E a \in (S + 1)..(S + L) : Carries(Way[a], p)
    <2>1. \A a \in 1..L : S + a \in (S + 1)..(S + L) /\ S + a - S = a
      BY <1>2
    <2>2. \A a \in (S + 1)..(S + L) : a \in 1..(S + L + R) /\ a - S \in 1..L /\ ~(a <= S) /\ a <= S + L
      BY <1>2
    <2>3. \A a \in (S + 1)..(S + L) : Way[a] = lines[a - S]
      BY <1>5, <2>2
    <2>4. ASSUME NEW a \in 1..L PROVE Way[S + a] = lines[a]
      <3> DEFINE b == S + a
      <3>1. b \in (S + 1)..(S + L) /\ b - S = a
        BY <1>2
      <3> HIDE DEF b
      <3>2. Way[b] = lines[b - S]
        BY <2>3, <3>1
      <3> QED
        BY <3>1, <3>2 DEF b
    <2> QED
      BY <1>6, <2>1, <2>2, <2>3, <2>4
  <1>11. \A p \in Prompts : \A a \in DOMAIN Way' : Carries(Way'[a], p) =>
            f[a] \in DOMAIN Way /\ Carries(Way[f[a]], p) /\ p \notin more
    <2> SUFFICES ASSUME NEW p \in Prompts, NEW a \in DOMAIN Way', Carries(Way'[a], p)
                 PROVE  f[a] \in DOMAIN Way /\ Carries(Way[f[a]], p) /\ p \notin more
      OBVIOUS
    <2>1. f[a] \in DOMAIN Way /\ Carries(Way[f[a]], p) /\ (f[a] <= S \/ f[a] > S + L)
      BY <1>2, <1>3, <1>8, <1>9
    <2>2. ASSUME p \in more PROVE FALSE
      <3>1. PICK b \in (S + 1)..(S + L) : Carries(Way[b], p)
        BY <1>10, <2>2
      <3>2. b \in DOMAIN Way /\ f[a] # b
        BY <1>2, <2>1
      <3>3. InOrder(Way, accepted, lost)
        BY OrderIs DEF OrderInv
      <3> QED
        BY <1>1, <2>1, <3>1, <3>2, <3>3, WayPlaces, OnePlace
    <2> QED
      BY <2>1, <2>2
  <1>12. \A p \in Prompts : \A b \in DOMAIN Way : Carries(Way[b], p) =>
            p \in more \/ \E a \in DOMAIN Way' : Carries(Way'[a], p)
    <2> SUFFICES ASSUME NEW p \in Prompts, NEW b \in DOMAIN Way, Carries(Way[b], p), p \notin more
                 PROVE  \E a \in DOMAIN Way' : Carries(Way'[a], p)
      OBVIOUS
    <2>1. b \notin (S + 1)..(S + L)
      BY <1>10
    <2> DEFINE a == IF b <= S THEN b ELSE b - L
    <2>2. a \in 1..(S + R)
      BY <1>2, <2>1
    <2>3. f[a] = b
      BY <1>2, <1>7, <2>1, <2>2
    <2> QED
      BY <1>3, <1>9, <2>2, <2>3
  <1>13. \A p, q \in Prompts : \A a, b \in DOMAIN Way' :
            Carries(Way'[a], p) /\ Carries(Way'[b], q) /\ a < b => f[a] < f[b]
    <2>1. \A a, b \in Nat : a < b => f[a] < f[b]
      BY <1>2, <1>7
    <2>2. \A a \in DOMAIN Way' : a \in Nat
      BY <1>2, <1>3
    <2> QED
      BY <2>1, <2>2
  <1>14. \A p \in more : p \in Prompts /\ \E b \in DOMAIN Way : Carries(Way[b], p)
    <2>1. (S + 1)..(S + L) \subseteq DOMAIN Way
      BY <1>2
    <2> QED
      BY <1>6, <1>10, <2>1
  <1>15. MovedBy(f, more)
    BY <1>11, <1>12, <1>13, <1>14 DEF MovedBy
  <1>16. lost' = lost \cup more
    BY DEF more
  <1> QED
    BY <1>15, <1>16, MovedStep

\* A prompt is accepted: it takes the last place.
LEMMA OrderAccepted ==
    ASSUME OrderInv, TypeOK', NEW p \in Prompts, HandleSendPrompt(p)
    PROVE  OrderInv'
  <1> DEFINE e == [type |-> "InjectPrompt", text |-> p]
  <1>1. TypeOK /\ InOrder(Way, accepted, lost) /\ lost' = lost
    BY OrderIs DEF OrderInv, HandleSendPrompt
  <1>2. CASE ~HasRoom
    BY <1>2, OrderStays DEF HandleSendPrompt, TrySend, Way, wrapper
  <1>3. CASE HasRoom
    <2> DEFINE n == Len(sent) + Len(lines) + Len(wrapper_rx)
               m == Len(accepted)
    <2>1. sent' = sent /\ lines' = lines /\ wrapper_rx' = Append(wrapper_rx, e)
          /\ accepted' = Append(accepted, p) /\ p \notin ToSet(accepted)
      BY <1>3 DEF HandleSendPrompt, TrySend, wrapper
    <2>2. /\ m \in Nat /\ DOMAIN accepted = 1..m /\ DOMAIN accepted' = 1..(m + 1)
          /\ accepted'[m + 1] = p /\ \A i \in 1..m : accepted'[i] = accepted[i] /\ accepted[i] \in Prompts
      <3>1. accepted \in Seq(Prompts) /\ accepted' \in Seq(Prompts)
        BY <1>1 DEF TypeOK
      <3>2. /\ Len(accepted') = m + 1 /\ accepted'[m + 1] = p
            /\ \A i \in 1..m : accepted'[i] = accepted[i]
        BY <2>1, <3>1, AppendProperties
      <3> QED
        BY <3>1, <3>2, LenProperties, ElementOfSeq
    <2>3. n \in Nat /\ DOMAIN Way = 1..n
      BY <1>1, WayPlaces
    <2>4. /\ Len(wrapper_rx') = Len(wrapper_rx) + 1 /\ wrapper_rx'[Len(wrapper_rx) + 1] = e
          /\ \A a \in 1..Len(wrapper_rx) : wrapper_rx'[a] = wrapper_rx[a]
      BY <1>1, <2>1, EventTypes, AppendProperties DEF TypeOK
    <2>5. DOMAIN Way' = 1..(n + 1)
      BY <1>1, <2>1, <2>4, WayPlaces, WayPlacesNext
    <2>6. ASSUME NEW a \in 1..n PROVE Way'[a] = Way[a]
      <3>1. Len(sent) \in Nat /\ Len(lines) \in Nat /\ Len(wrapper_rx) \in Nat /\ a \in DOMAIN Way'
        BY <1>1, <2>3, <2>5, WayPlaces
      <3>2. Way'[a] = IF a <= Len(sent) THEN sent[a]
                      ELSE IF a <= Len(sent) + Len(lines) THEN lines[a - Len(sent)]
                      ELSE wrapper_rx'[a - Len(sent) - Len(lines)]
        BY <2>1, <3>1, WayPlacesNext
      <3>3. Way[a] = IF a <= Len(sent) THEN sent[a]
                     ELSE IF a <= Len(sent) + Len(lines) THEN lines[a - Len(sent)]
                     ELSE wrapper_rx[a - Len(sent) - Len(lines)]
        BY <1>1, <2>3, WayPlaces
      <3>4. CASE a <= Len(sent) + Len(lines)
        BY <3>1, <3>2, <3>3, <3>4
      <3>5. CASE a > Len(sent) + Len(lines)
        <4>1. ~(a <= Len(sent)) /\ a - Len(sent) - Len(lines) \in 1..Len(wrapper_rx)
          BY <3>1, <3>5
        <4> QED
          BY <2>4, <3>1, <3>2, <3>3, <3>5, <4>1
      <3> QED
        BY <3>1, <3>4, <3>5
    <2>7. Way'[n + 1] = e
      <3> DEFINE k == n + 1
      <3>1. Len(sent) \in Nat /\ Len(lines) \in Nat /\ Len(wrapper_rx) \in Nat /\ k \in DOMAIN Way'
        BY <1>1, <2>3, <2>5, WayPlaces
      <3>2. /\ ~(k <= Len(sent)) /\ ~(k <= Len(sent) + Len(lines))
            /\ k - Len(sent) - Len(lines) = Len(wrapper_rx) + 1
        BY <3>1
      <3> HIDE DEF k
      <3>3. \A a \in DOMAIN Way' :
               Way'[a] = IF a <= Len(sent) THEN sent[a]
                         ELSE IF a <= Len(sent) + Len(lines) THEN lines[a - Len(sent)]
                         ELSE wrapper_rx'[a - Len(sent) - Len(lines)]
        BY <2>1, WayPlacesNext
      <3>4. Way'[k] = wrapper_rx'[k - Len(sent) - Len(lines)]
        BY <3>1, <3>2, <3>3
      <3> QED
        BY <2>4, <3>2, <3>4 DEF k
    <2> HIDE DEF n, m
    <2>8. \A q : Carries(Way'[n + 1], q) <=> q = p
      BY <2>7, CarriesWhat
    <2> HIDE DEF e
    <2>9. ToSet(accepted') = ToSet(accepted) \cup {p}
      BY <2>2 DEF ToSet
    <2>10. p \notin lost
      BY <2>1 DEF OrderInv
    <2>11. \A i \in 1..m : accepted[i] # p
      BY <2>1, <2>2 DEF ToSet
    <2>12. ASSUME NEW q \in Prompts, NEW a \in DOMAIN Way', Carries(Way'[a], q)
           PROVE  q \in ToSet(accepted') \ lost
      <3>1. CASE a = n + 1
        BY <2>8, <2>9, <2>10, <2>12, <3>1
      <3>2. CASE a # n + 1
        <4>1. a \in 1..n
          BY <2>3, <2>5, <3>2
        <4> QED
          BY <1>1, <2>3, <2>6, <2>9, <2>12, <4>1 DEF InOrder
      <3> QED
        BY <3>1, <3>2
    <2>13. ASSUME NEW q \in ToSet(accepted') \ lost PROVE \E a \in DOMAIN Way' : Carries(Way'[a], q)
      <3>1. CASE q = p
        BY <2>3, <2>5, <2>8, <3>1
      <3>2. CASE q # p
        <4>1. PICK a \in DOMAIN Way : Carries(Way[a], q)
          BY <1>1, <2>9, <3>2 DEF InOrder
        <4>2. a \in 1..n /\ a \in DOMAIN Way'
          BY <2>3, <2>5
        <4> QED
          BY <2>6, <4>1, <4>2
      <3> QED
        BY <3>1, <3>2
    <2>14. ASSUME NEW i \in DOMAIN accepted', NEW j \in DOMAIN accepted',
                  NEW a \in DOMAIN Way', NEW b \in DOMAIN Way',
                  Carries(Way'[a], accepted'[i]), Carries(Way'[b], accepted'[j])
           PROVE  a < b <=> i < j
      <3>1. /\ i \in 1..(m + 1) /\ j \in 1..(m + 1) /\ a \in 1..(n + 1) /\ b \in 1..(n + 1)
            /\ m \in Nat /\ n \in Nat
        BY <2>2, <2>3, <2>5
      <3>2. a = n + 1 <=> i = m + 1
        <4>1. a = n + 1 => i = m + 1
          BY <2>2, <2>8, <2>11, <2>14, <3>1
        <4>2. ASSUME i = m + 1, a # n + 1 PROVE FALSE
          <5>1. a \in 1..n /\ Carries(Way[a], p)
            BY <2>2, <2>6, <2>14, <3>1, <4>2
          <5> QED
            BY <1>1, <2>1, <2>3, <5>1 DEF InOrder
        <4> QED
          BY <4>1, <4>2
      <3>3. b = n + 1 <=> j = m + 1
        <4>1. b = n + 1 => j = m + 1
          BY <2>2, <2>8, <2>11, <2>14, <3>1
        <4>2. ASSUME j = m + 1, b # n + 1 PROVE FALSE
          <5>1. b \in 1..n /\ Carries(Way[b], p)
            BY <2>2, <2>6, <2>14, <3>1, <4>2
          <5> QED
            BY <1>1, <2>1, <2>3, <5>1 DEF InOrder
        <4> QED
          BY <4>1, <4>2
      <3>4. CASE a = n + 1 \/ b = n + 1
        BY <3>1, <3>2, <3>3, <3>4
      <3>5. CASE a # n + 1 /\ b # n + 1
        <4>1. a \in 1..n /\ b \in 1..n /\ i \in 1..m /\ j \in 1..m
          BY <3>1, <3>2, <3>3, <3>5
        <4>2. Carries(Way[a], accepted[i]) /\ Carries(Way[b], accepted[j])
          BY <2>2, <2>6, <2>14, <4>1
        <4> QED
          BY <1>1, <2>2, <2>3, <4>1, <4>2 DEF InOrder
      <3> QED
        BY <3>4, <3>5
    <2>15. InOrder(Way', accepted', lost')
      BY <1>1, <2>12, <2>13, <2>14 DEF InOrder
    <2>16. AcceptedInOrder'
      BY <2>15, Zenon DEF AcceptedInOrder, InOrder, At, Carries
    <2>17. \A i, j \in DOMAIN accepted' : accepted'[i] = accepted'[j] => i = j
      <3>1. \A i, j \in 1..m : accepted[i] = accepted[j] => i = j
        BY <2>2 DEF OrderInv
      <3> QED
        BY <2>2, <2>11, <3>1
    <2>18. lost' \subseteq ToSet(accepted)'
      BY <1>1, <2>9 DEF OrderInv
    <2> QED
      BY <2>16, <2>17, <2>18 DEF OrderInv
  <1> QED
    BY <1>2, <1>3

LEMMA OrderListener ==
    ASSUME OrderInv, TypeOK', ListenerSteps
    PROVE  OrderInv'
  <1>1. ASSUME NEW p \in Prompts, InjectText(p) PROVE OrderInv'
    <2> DEFINE e == [type |-> "InjectPrompt", text |-> p]
               x == [bytes |-> "text", text |-> p]
    <2>1. Line(e) /\ x \in Input /\ UNCHANGED <<wrapper_rx, accepted>>
      BY <1>1, EventTypes DEF InjectText, rest
    <2>2. CASE writing
      <3>1. Writes(x) /\ lost' = lost
        BY <1>1, <2>2 DEF InjectText
      <3>2. \A q : Carries(e, q) <=> Carries(x, q)
        BY CarriesWhat
      <3> HIDE DEF e, x
      <3> QED
        BY <2>1, <3>1, <3>2, OrderTyped
    <2>3. CASE ~writing
      <3>1. sent' = sent /\ lost' = lost \cup {p}
        BY <1>1, <2>3 DEF InjectText
      <3>2. {p} = {q \in Prompts : Carries(e, q)}
        BY CarriesWhat
      <3> HIDE DEF e
      <3> QED
        BY <2>1, <3>1, <3>2, OrderSkipped
    <2> QED
      BY <2>2, <2>3
  <1>2. ASSUME NEW p \in Prompts, InjectEnter(p) PROVE OrderInv'
    <2> DEFINE x == [bytes |-> "enter", text |-> p]
    <2>1. UNCHANGED <<lines, wrapper_rx, accepted, lost>> /\ x \in Input /\ \A q : ~Carries(x, q)
      BY <1>2, EventTypes, CarriesWhat DEF InjectEnter, rest, history
    <2>2. CASE writing
      <3>1. Writes(x)
        BY <1>2, <2>2 DEF InjectEnter
      <3> HIDE DEF x
      <3> QED
        BY <2>1, <3>1, OrderOtherBytes
    <2>3. CASE ~writing
      BY <1>2, <2>1, <2>3, OrderStays DEF InjectEnter, Way
    <2> QED
      BY <2>2, <2>3
  <1>3. CASE WriteBytes
    <2> DEFINE e == [type |-> "TerminalWrite"]
               x == [bytes |-> "web"]
    <2>1. Line(e) /\ x \in Input /\ UNCHANGED <<wrapper_rx, accepted, lost>>
      BY <1>3, EventTypes DEF WriteBytes, rest, history
    <2>2. \A q : ~Carries(e, q) /\ ~Carries(x, q)
      BY CarriesWhat
    <2>3. CASE writing
      <3>1. Writes(x)
        BY <1>3, <2>3 DEF WriteBytes
      <3> HIDE DEF e, x
      <3> QED
        BY <2>1, <2>2, <3>1, OrderTyped
    <2>4. CASE ~writing
      <3>1. sent' = sent
        BY <1>3, <2>4 DEF WriteBytes
      <3>2. lost' = lost \cup {q \in Prompts : Carries(e, q)}
        BY <2>1, <2>2
      <3> HIDE DEF e
      <3> QED
        BY <2>1, <3>1, <3>2, OrderSkipped
    <2> QED
      BY <2>3, <2>4
  <1>4. ASSUME NEW e, \A q : ~Carries(e, q), Line(e), UNCHANGED <<sent, wrapper_rx, accepted, lost>>
        PROVE  OrderInv'
    <2>1. lost' = lost \cup {q \in Prompts : Carries(e, q)}
      BY <1>4
    <2> QED
      BY <1>4, <2>1, OrderSkipped
  <1>5. ASSUME NEW s \in Sizes, ResizePty(s) PROVE OrderInv'
    BY <1>4, <1>5, CarriesWhat DEF ResizePty, rest
  <1>6. CASE RedrawTaller
    BY <1>4, <1>6, CarriesWhat DEF RedrawTaller, rest
  <1>7. CASE ListenerEnds
    BY <1>7, OrderLinesGone DEF ListenerEnds, rest
  <1>8. CASE ListenerEof \/ Reconnect \/ \E s \in Sizes : StoreSize(s) \/ RestoreSize(s)
    <2>1. UNCHANGED <<sent, lines, wrapper_rx, accepted, lost>>
      BY <1>8 DEF ListenerEof, Reconnect, StoreSize, RestoreSize, rest, history
    <2> QED
      BY <2>1, OrderStays DEF Way
  <1> QED
    BY <1>1, <1>2, <1>3, <1>5, <1>6, <1>7, <1>8 DEF ListenerSteps

LEMMA OrderStep == OrderInv /\ [Next]_vars => OrderInv'
  <1> SUFFICES ASSUME OrderInv, [Next]_vars PROVE OrderInv'
    OBVIOUS
  <1>1. TypeOK'
    BY TypeStep DEF OrderInv
  <1>2. CASE \E p \in Prompts : HandleSendPrompt(p)
    BY <1>1, <1>2, OrderAccepted
  <1>3. ASSUME NEW e \in ServerEvent, \A p : ~Carries(e, p), TrySend(e),
               UNCHANGED <<wrapper_tx, wrapper, accepted, lost, settled>>
        PROVE  OrderInv'
    BY <1>1, <1>3, OrderOtherEvent DEF wrapper
  <1>4. CASE HandleTerminalInput \/ HandleWatchTerminal \/ \E s \in Sizes : HandleTerminalResize(s)
    BY <1>3, <1>4, EventTypes, CarriesWhat DEF HandleTerminalInput, HandleWatchTerminal,
       HandleTerminalResize
  <1>5. CASE TaskDeliver
    BY <1>1, <1>5, OrderDeliver
  <1>6. CASE DaemonStops
    BY <1>1, <1>6, OrderChannelGone DEF DaemonStops, wrapper
  <1>7. CASE ListenerSteps
    BY <1>1, <1>7, OrderListener
  <1>8. CASE StdinKeys
    <2>1. Writes([bytes |-> "keys"]) /\ UNCHANGED <<lines, wrapper_rx, accepted, lost>>
      BY <1>8 DEF StdinKeys, channel
    <2> QED
      BY <1>1, <2>1, EventTypes, CarriesWhat, OrderOtherBytes
  <1>9. CASE \/ ResizerSteps \/ WriterSteps \/ WrapperStops \/ (\E s \in Sizes : HostResizes(s))
             \/ UNCHANGED vars
    <2>1. UNCHANGED <<sent, lines, wrapper_rx, accepted, lost>>
      BY <1>9 DEF ResizerSteps, ResizerResizes, ResizerStores, ResizerEnds, WriterSteps,
         WriterWrites, WriterEnds, WrapperStops, HostResizes, channel, history, vars
    <2> QED
      BY <1>1, <2>1, OrderStays DEF Way
  <1> QED
    BY <1>2, <1>4, <1>5, <1>6, <1>7, <1>8, <1>9 DEF Next

\* Prompts that were answered with PromptSent are typed in the order of the
\* answers, none twice, and one that is missing was lost with its connection
\* or its wrapper: for any number of clients, requests and daemon stops.
THEOREM AcceptedInOrderHolds == Spec => []AcceptedInOrder
  <1>1. Init => OrderInv
    <2> SUFFICES ASSUME Init PROVE OrderInv
      OBVIOUS
    <2>1. TypeOK
      BY TypeInit
    <2>2. DOMAIN Way = {} /\ DOMAIN accepted = {} /\ ToSet(accepted) = {} /\ lost = {}
      <3>1. Len(<<>>) = 0
        BY EmptySeq
      <3>2. DOMAIN Way = 1..0
        BY <2>1, <3>1, WayPlaces DEF Init
      <3> QED
        BY <3>2 DEF Init, ToSet
    <2> QED
      BY <2>1, <2>2 DEF OrderInv, AcceptedInOrder
  <1>2. OrderInv => AcceptedInOrder
    BY DEF OrderInv
  <1> QED
    BY <1>1, <1>2, OrderStep, PTL DEF Spec

=============================================================================
