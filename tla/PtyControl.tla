------------------------------ MODULE PtyControl -----------------------------
(***************************************************************************)
(* What reaches the agent's pseudo terminal: keys, prompts and sizes.      *)
(*                                                                         *)
(* Clients ask the daemon to inject a prompt, to write bytes, to resize or *)
(* to show the terminal (daemon.rs); each becomes an event in the          *)
(* wrapper's channel, a line on its connection, and then the work of one   *)
(* thread of the wrapper, the daemon listener (wrapper.rs). Beside it run  *)
(* the stdin thread, the writer thread and the thread that follows the     *)
(* size of the host terminal. The threads share the write channel, the PTY *)
(* size (under a lock) and term_size (an atomic word), and the listener    *)
(* sleeps in the middle of two of its handlers.                            *)
(***************************************************************************)
EXTENDS Naturals, Sequences, FiniteSets, SequencesExt

CONSTANTS
    Prompts,      \* texts clients send, each at most once
    Sizes,        \* terminal sizes
    FirstSize,    \* the size the PTY was opened with
    Headless,     \* no stdin thread and no resize thread
    EventCap,     \* capacity of the wrapper's channel (16)
    MaxRequests,  \* bound: requests that are not prompts
    MaxKeys,      \* bound: reads of stdin
    MaxHost,      \* bound: changes of the host terminal's size
    MaxStops      \* bound: daemon stops

ASSUME PtyTypes == /\ FirstSize \in Sizes
                   /\ Headless \in BOOLEAN
                   /\ EventCap \in Nat \ {0}
                   /\ {MaxRequests, MaxKeys, MaxHost, MaxStops} \subseteq Nat

VARIABLES
    wrapper_tx,  \* the daemon holds the sender of a serving connection
    wrapper_rx,  \* events the connection's task has not written yet
    lines,       \* lines the listener has not read yet
    running,     \* the flag every thread polls
    listener,    \* the daemon listener: what it is doing, with which value
    resizer,     \* the resize thread: its phase and last_size
    host,        \* size of the host terminal
    pty,         \* size of the PTY; taller: one row more than that
    term_size,   \* the size the reader thread gives the screen parser
    write_rx,    \* the writer thread's channel
    writing,     \* the writer thread still reads that channel
    \* history
    sent,        \* everything ever put in the write channel
    accepted,    \* prompts answered with PromptSent, in order
    lost,        \* prompts lost with a connection or with the wrapper
    settled,     \* no size change began while another was under way
    used         \* how often each bounded step was taken

vars == <<wrapper_tx, wrapper_rx, lines, running, listener, resizer, host, pty,
          term_size, write_rx, writing, sent, accepted, lost, settled, used>>
history == <<accepted, lost, settled, used>>

Bounds == [requests |-> MaxRequests, keys |-> MaxKeys, host |-> MaxHost, stops |-> MaxStops]

ServerEvent == [type : {"InjectPrompt"}, text : Prompts]
               \cup [type : {"TerminalResize"}, size : Sizes]
               \cup [type : {"TerminalWrite", "ForceRedraw"}]

\* Bytes in the write channel: a prompt's text, the carriage return that
\* submits it, bytes of a web terminal, keys of the host terminal.
Input == [bytes : {"text", "enter"}, text : Prompts] \cup [bytes : {"web", "keys"}]

Idle == [phase |-> "reading"]

Listener == [phase : {"reading", "reconnecting", "ended"}]
            \cup [phase : {"entering"}, text : Prompts]
            \cup [phase : {"storing", "restoring"}, size : Sizes]

TypeOK ==
    /\ wrapper_tx \in BOOLEAN /\ running \in BOOLEAN /\ writing \in BOOLEAN
    /\ settled \in BOOLEAN
    /\ wrapper_rx \in Seq(ServerEvent) /\ Len(wrapper_rx) <= EventCap
    /\ lines \in Seq(ServerEvent)
    /\ listener \in Listener
    /\ resizer \in [phase : {"sleeping", "storing", "ended"}, last_size : Sizes]
    /\ host \in Sizes /\ term_size \in Sizes
    /\ pty \in [size : Sizes, taller : BOOLEAN]
    /\ write_rx \in Seq(Input) /\ sent \in Seq(Input)
    /\ accepted \in Seq(Prompts) /\ lost \in SUBSET Prompts
    /\ used \in [DOMAIN Bounds -> Nat] /\ \A b \in DOMAIN Bounds : used[b] <= Bounds[b]

Init ==
    /\ wrapper_tx = TRUE /\ wrapper_rx = <<>> /\ lines = <<>>
    /\ running = TRUE /\ writing = TRUE
    /\ listener = Idle
    /\ resizer = [phase |-> IF Headless THEN "ended" ELSE "sleeping", last_size |-> FirstSize]
    /\ host = FirstSize /\ term_size = FirstSize
    /\ pty = [size |-> FirstSize, taller |-> FALSE]
    /\ write_rx = <<>> /\ sent = <<>>
    /\ accepted = <<>> /\ lost = {} /\ settled = TRUE
    /\ used = [b \in DOMAIN Bounds |-> 0]

\* A step of a bounded kind.
Uses(kind) == used[kind] < Bounds[kind] /\ used' = [used EXCEPT ![kind] = @ + 1]

\* The prompts among events or lines.
PromptsIn(events) == {p \in Prompts : [type |-> "InjectPrompt", text |-> p] \in ToSet(events)}

------------------------------------------------------------------------------
(* The daemon                                                              *)

wrapper == <<lines, running, listener, resizer, host, pty, term_size, write_rx,
             writing, sent>>

HasRoom == Len(wrapper_rx) < EventCap

\* Mutant: a channel without a capacity.
TrySend_Unbounded(event) == wrapper_rx' = Append(wrapper_rx, event)

\* wrapper_tx.try_send: an event that finds the channel full is dropped.
TrySend(event) ==
    wrapper_rx' = IF HasRoom THEN Append(wrapper_rx, event) ELSE wrapper_rx

\* Mutant: PromptSent whether or not the event found room.
HandleSendPrompt_AcceptsAll(p) ==
    /\ wrapper_tx
    /\ p \notin ToSet(accepted)
    /\ TrySend([type |-> "InjectPrompt", text |-> p])
    /\ accepted' = Append(accepted, p)
    /\ UNCHANGED <<wrapper_tx, wrapper, lost, settled, used>>

\* SendPrompt answers PromptSent when the event is in the channel, and an
\* error otherwise.
HandleSendPrompt(p) ==
    /\ wrapper_tx
    /\ p \notin ToSet(accepted)
    /\ TrySend([type |-> "InjectPrompt", text |-> p])
    /\ accepted' = IF HasRoom THEN Append(accepted, p) ELSE accepted
    /\ UNCHANGED <<wrapper_tx, wrapper, lost, settled, used>>

\* TerminalInput, TerminalResize, and the redraw that WatchTerminal asks for:
\* nobody learns whether the event found room.
HandleTerminalInput ==
    /\ wrapper_tx /\ Uses("requests")
    /\ TrySend([type |-> "TerminalWrite"])
    /\ UNCHANGED <<wrapper_tx, wrapper, accepted, lost, settled>>

HandleTerminalResize(s) ==
    /\ wrapper_tx /\ Uses("requests")
    /\ TrySend([type |-> "TerminalResize", size |-> s])
    /\ UNCHANGED <<wrapper_tx, wrapper, accepted, lost, settled>>

HandleWatchTerminal ==
    /\ wrapper_tx /\ Uses("requests")
    /\ TrySend([type |-> "ForceRedraw"])
    /\ UNCHANGED <<wrapper_tx, wrapper, accepted, lost, settled>>

\* The connection's task writes the next event to the socket.
TaskDeliver ==
    /\ wrapper_tx
    /\ wrapper_rx # <<>>
    /\ wrapper_rx' = Tail(wrapper_rx)
    /\ lines' = Append(lines, Head(wrapper_rx))
    /\ UNCHANGED <<wrapper_tx, running, listener, resizer, host, pty, term_size,
                   write_rx, writing, sent, history>>

\* The daemon stops: the channel is gone, what is in the socket is not.
DaemonStops ==
    /\ wrapper_tx /\ Uses("stops")
    /\ wrapper_tx' = FALSE /\ wrapper_rx' = <<>>
    /\ lost' = lost \cup PromptsIn(wrapper_rx)
    /\ UNCHANGED <<wrapper, accepted, settled>>

------------------------------------------------------------------------------
(* The daemon listener thread                                              *)

rest == <<wrapper_tx, wrapper_rx, running, resizer, host, writing>>

Listens == listener = Idle

\* Mutant: lines are handled while a carriage return is due.
Line_WhileEntering(event) ==
    /\ listener.phase \in {"reading", "entering"} /\ running
    /\ lines # <<>> /\ Head(lines) = event
    /\ lines' = Tail(lines)

\* The next line, read while the wrapper runs.
Line(event) ==
    /\ Listens /\ running
    /\ lines # <<>> /\ Head(lines) = event
    /\ lines' = Tail(lines)

\* write_tx.send
Writes(input) == write_rx' = Append(write_rx, input) /\ sent' = Append(sent, input)

\* InjectPrompt: the text now, the carriage return after 50 ms. Both sends
\* fail, and the thread returns, when the writer thread has gone.
InjectText(p) ==
    /\ Line([type |-> "InjectPrompt", text |-> p])
    /\ IF writing THEN /\ Writes([bytes |-> "text", text |-> p])
                       /\ listener' = [phase |-> "entering", text |-> p]
                       /\ UNCHANGED lost
                  ELSE /\ listener' = [phase |-> "ended"]
                       /\ lost' = lost \cup {p}
                       /\ UNCHANGED <<write_rx, sent>>
    /\ UNCHANGED <<rest, pty, term_size, accepted, settled, used>>

\* Mutant: the text without its carriage return.
InjectEnter_NoReturn(p) ==
    /\ listener = [phase |-> "entering", text |-> p]
    /\ listener' = Idle
    /\ UNCHANGED <<rest, lines, pty, term_size, write_rx, sent, history>>

InjectEnter(p) ==
    /\ listener = [phase |-> "entering", text |-> p]
    /\ IF writing THEN Writes([bytes |-> "enter", text |-> p]) /\ listener' = Idle
                  ELSE listener' = [phase |-> "ended"] /\ UNCHANGED <<write_rx, sent>>
    /\ UNCHANGED <<rest, lines, pty, term_size, history>>

WriteBytes ==
    /\ Line([type |-> "TerminalWrite"])
    /\ IF writing THEN Writes([bytes |-> "web"]) /\ UNCHANGED listener
                  ELSE listener' = [phase |-> "ended"] /\ UNCHANGED <<write_rx, sent>>
    /\ UNCHANGED <<rest, pty, term_size, history>>

\* One change of the PTY size; settled notes whether the other thread is in
\* the middle of one.
Resize(size, taller, alone) ==
    /\ pty' = [size |-> size, taller |-> taller]
    /\ settled' = alone

\* TerminalResize: the PTY under its lock, then term_size.
ResizePty(s) ==
    /\ Line([type |-> "TerminalResize", size |-> s])
    /\ Resize(s, FALSE, resizer.phase # "storing")
    /\ listener' = [phase |-> "storing", size |-> s]
    /\ UNCHANGED <<rest, term_size, write_rx, sent, accepted, lost, used>>

\* Mutant: the screen parser is not told of the new size.
StoreSize_Forgets(s) ==
    /\ listener = [phase |-> "storing", size |-> s]
    /\ listener' = Idle
    /\ UNCHANGED <<rest, lines, pty, term_size, write_rx, sent, history>>

StoreSize(s) ==
    /\ listener = [phase |-> "storing", size |-> s]
    /\ term_size' = s
    /\ listener' = Idle
    /\ UNCHANGED <<rest, lines, pty, write_rx, sent, history>>

\* Mutant: a redraw works with the size the wrapper began with.
RedrawTaller_FirstSize ==
    /\ Line([type |-> "ForceRedraw"])
    /\ Resize(FirstSize, TRUE, settled /\ resizer.phase # "storing")
    /\ listener' = [phase |-> "restoring", size |-> FirstSize]
    /\ UNCHANGED <<rest, term_size, write_rx, sent, accepted, lost, used>>

\* ForceRedraw: one row more now, after 300 ms the size read before. A
\* redraw is not a new size: it leaves an unsettled one as it is.
RedrawTaller ==
    /\ Line([type |-> "ForceRedraw"])
    /\ Resize(term_size, TRUE, settled /\ resizer.phase # "storing")
    /\ listener' = [phase |-> "restoring", size |-> term_size]
    /\ UNCHANGED <<rest, term_size, write_rx, sent, accepted, lost, used>>

RestoreSize(s) ==
    /\ listener = [phase |-> "restoring", size |-> s]
    /\ Resize(s, FALSE, settled /\ resizer.phase # "storing")
    /\ listener' = Idle
    /\ UNCHANGED <<rest, lines, term_size, write_rx, sent, accepted, lost, used>>

\* After the child has exited the thread returns at its next line, or at the
\* end of the connection.
ListenerEnds ==
    /\ \/ Listens /\ (lines # <<>> \/ ~wrapper_tx)
       \/ listener = [phase |-> "reconnecting"]
    /\ ~running
    /\ listener' = [phase |-> "ended"]
    /\ lines' = <<>>
    /\ lost' = lost \cup PromptsIn(lines)
    /\ UNCHANGED <<rest, pty, term_size, write_rx, sent, accepted, settled, used>>

\* The connection has ended and its last line is read.
ListenerEof ==
    /\ Listens /\ running
    /\ lines = <<>> /\ ~wrapper_tx
    /\ listener' = [phase |-> "reconnecting"]
    /\ UNCHANGED <<rest, lines, pty, term_size, write_rx, sent, history>>

\* A daemon runs again and the wrapper has registered with it.
Reconnect ==
    /\ listener = [phase |-> "reconnecting"] /\ running
    /\ listener' = Idle
    /\ wrapper_tx' = TRUE
    /\ UNCHANGED <<wrapper_rx, running, resizer, host, writing, lines, pty, term_size,
                   write_rx, sent, history>>

------------------------------------------------------------------------------
(* The other threads                                                       *)

channel == <<wrapper_tx, wrapper_rx, lines>>

\* The stdin thread, absent in a headless wrapper.
StdinKeys ==
    /\ ~Headless /\ running /\ writing /\ Uses("keys")
    /\ Writes([bytes |-> "keys"])
    /\ UNCHANGED <<channel, running, listener, resizer, host, pty, term_size, writing,
                   accepted, lost, settled>>

WriterWrites ==
    /\ running /\ writing
    /\ write_rx # <<>>
    /\ write_rx' = Tail(write_rx)
    /\ UNCHANGED <<channel, running, listener, resizer, host, pty, term_size, writing,
                   sent, history>>

\* The thread leaves its loop when the flag is down.
WriterEnds ==
    /\ ~running /\ writing
    /\ writing' = FALSE /\ write_rx' = <<>>
    /\ UNCHANGED <<channel, running, listener, resizer, host, pty, term_size, sent, history>>

HostResizes(s) ==
    /\ ~Headless /\ Uses("host")
    /\ s # host
    /\ host' = s
    /\ UNCHANGED <<channel, running, listener, resizer, pty, term_size, write_rx,
                   writing, sent, accepted, lost, settled>>

\* Every 250 ms the resize thread compares the host terminal with last_size.
ResizerResizes ==
    /\ resizer.phase = "sleeping" /\ running
    /\ host # resizer.last_size
    /\ Resize(host, FALSE, listener.phase \notin {"storing", "restoring"})
    /\ resizer' = [phase |-> "storing", last_size |-> host]
    /\ UNCHANGED <<channel, running, listener, host, term_size, write_rx, writing, sent,
                   accepted, lost, used>>

ResizerStores ==
    /\ resizer.phase = "storing"
    /\ term_size' = resizer.last_size
    /\ resizer' = [resizer EXCEPT !.phase = "sleeping"]
    /\ UNCHANGED <<channel, running, listener, host, pty, write_rx, writing, sent, history>>

ResizerEnds ==
    /\ resizer.phase = "sleeping" /\ ~running
    /\ resizer' = [resizer EXCEPT !.phase = "ended"]
    /\ UNCHANGED <<channel, running, listener, host, pty, term_size, write_rx, writing,
                   sent, history>>

\* The child exits, or the reader thread stops: both lower the flag.
WrapperStops ==
    /\ running
    /\ running' = FALSE
    /\ UNCHANGED <<channel, listener, resizer, host, pty, term_size, write_rx, writing,
                   sent, history>>

------------------------------------------------------------------------------

ListenerSteps ==
    \/ \E p \in Prompts : InjectText(p) \/ InjectEnter(p)
    \/ \E s \in Sizes : ResizePty(s) \/ StoreSize(s) \/ RestoreSize(s)
    \/ WriteBytes \/ RedrawTaller \/ ListenerEnds \/ ListenerEof \/ Reconnect

ResizerSteps == ResizerResizes \/ ResizerStores \/ ResizerEnds
WriterSteps == WriterWrites \/ WriterEnds

Next ==
    \/ \E p \in Prompts : HandleSendPrompt(p)
    \/ \E s \in Sizes : HandleTerminalResize(s) \/ HostResizes(s)
    \/ HandleTerminalInput \/ HandleWatchTerminal
    \/ TaskDeliver \/ DaemonStops
    \/ ListenerSteps \/ ResizerSteps \/ WriterSteps
    \/ StdinKeys \/ WrapperStops

Spec == Init /\ [][Next]_vars

\* The connection's task and the wrapper's threads keep running: their sleeps
\* end, and the locks and channels they wait for are released.
FairSpec ==
    Spec /\ WF_vars(TaskDeliver) /\ WF_vars(ListenerSteps)
         /\ WF_vars(ResizerSteps) /\ WF_vars(WriterSteps)

------------------------------------------------------------------------------
(* Properties                                                              *)

\* Whatever the threads do, a prompt reaches the agent as its own text, then
\* keys typed meanwhile on the host terminal, then the carriage return that
\* submits it: no other prompt and no bytes of a web terminal come between
\* (the listener thread handles one line at a time).
PromptIntact ==
    \A i, j \in DOMAIN sent :
        /\ i < j /\ sent[i].bytes = "text"
        /\ \A k \in (i + 1)..(j - 1) : sent[k].bytes = "keys"
        => \/ sent[j].bytes = "keys"
           \/ sent[j] = [bytes |-> "enter", text |-> sent[i].text]

\* What went to the terminal, then what the listener has not read, then what
\* the connection's task has not written: oldest first.
Way == sent \o lines \o wrapper_rx

\* The place `a` of the way holds prompt `p`: typed already, or on its way.
At(a, p) == Way[a] \in {[bytes |-> "text", text |-> p], [type |-> "InjectPrompt", text |-> p]}

\* A prompt answered with PromptSent is typed, in the order of the answers,
\* is still on its way, or was lost with the connection or the wrapper:
\* never forgotten, doubled or overtaken (HandleSendPrompt, TaskDeliver,
\* InjectText). Nothing is typed that was not answered so.
AcceptedInOrder ==
    /\ \A p \in Prompts : \A a \in DOMAIN Way : At(a, p) => p \in ToSet(accepted) \ lost
    /\ \A p \in ToSet(accepted) \ lost : \E a \in DOMAIN Way : At(a, p)
    /\ \A i, j \in DOMAIN accepted, a, b \in DOMAIN Way :
          At(a, accepted[i]) /\ At(b, accepted[j]) => (a < b <=> i < j)

\* When both threads that change sizes rest, the PTY is not left one row
\* taller, and if no two changes overlapped since the last new size, the
\* agent and the screen parser have the same one.
SizesSettle ==
    listener.phase \notin {"storing", "restoring"} /\ resizer.phase # "storing"
        => ~pty.taller /\ (settled => pty.size = term_size)

\* A prompt answered with PromptSent is submitted: its carriage return gets
\* to the PTY, unless the daemon or the wrapper stops meanwhile.
PromptSubmitted ==
    \A p \in Prompts :
        p \in ToSet(accepted)
            ~> \/ /\ [bytes |-> "enter", text |-> p] \in ToSet(sent)
                  /\ [bytes |-> "enter", text |-> p] \notin ToSet(write_rx)
               \/ used.stops > 0 \/ ~running

\* A web terminal's size is on its way to the PTY.
WebResizes ==
    \/ \E s \in Sizes : [type |-> "TerminalResize", size |-> s] \in ToSet(lines \o wrapper_rx)
    \/ listener.phase = "storing"

\* The PTY follows the host terminal: a size of it that the resize thread has
\* not seen yet, and that it keeps, gets to the PTY and to the screen parser
\* and stays there, whatever web terminals had set before and whatever redraws
\* come later. Excepted are a web terminal that sets a size at the same time
\* or after it, a redraw under way while the size is set (wrapper.rs writes
\* the old size back after 300 ms: ~settled), and the end of the wrapper.
HostFollowed ==
    \A s \in Sizes :
        [](resizer.last_size # s /\ [](host = s /\ ~WebResizes)
              => <>[]((pty.size = s /\ term_size = s) \/ ~settled \/ ~running))

\* ForceRedraw ends by "restoring the correct size": the one the wrapper works
\* with at that moment. A resize in the 300 ms before breaks it.
RedrawRestores ==
    [][listener.phase = "restoring" /\ listener' = Idle => pty'.size = term_size]_vars
=============================================================================
