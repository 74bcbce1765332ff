------------------------------- MODULE Daemon --------------------------------
(***************************************************************************)
(* The daemon's event loop (daemon.rs) with the tasks that feed it         *)
(* (client_listener.rs, hook_listener.rs) and the processes at the other   *)
(* end of its sockets: permission hooks (hook_cmd.rs), wrappers            *)
(* (wrapper.rs), dashboards, and Claude itself, which is external and      *)
(* modelled by the hooks it runs.                                          *)
(*                                                                         *)
(* The loop handles one message at a time, so a handler is one action. The *)
(* interleavings are those of the processes, of the connection tasks and   *)
(* of the two channels into the loop.                                      *)
(***************************************************************************)
EXTENDS DaemonState, Naturals, Sequences, FiniteSets

CONSTANTS
    Conns,        \* connections that wrappers open to daemon.sock, one use each
    AgentOf,      \* AgentOf[t]: the session that makes tool call t
    StartsWith,   \* pairs <<s, k>> of session ids with k.starts_with(s), s # k
    PromptTargets,\* the ids that clients send prompts to
    Transcripts,  \* the agents whose transcript is, or comes to be, on disk
    QueueCap,     \* capacity of the client channel (256)
    OutboxCap,    \* capacity of a wrapper's event channel (16)
    MaxHooks,     \* bound: hook events on their way at a time
    MaxStarts,    \* bound: how often a Claude session is started or resumed
    MaxCrashes    \* bound: how often the daemon dies

ASSUME AgentOfType == AgentOf \in [Tools -> Agents]
ASSUME StartsWithType == StartsWith \subseteq SessionIds \X SessionIds
ASSUME PromptTargetsType == PromptTargets \subseteq SessionIds
ASSUME CapsArePositive == QueueCap \in Nat \ {0} /\ OutboxCap \in Nat \ {0}
ASSUME TranscriptsType == Transcripts \subseteq Agents
ASSUME BoundsAreNumbers == MaxHooks \in Nat /\ MaxStarts \in Nat /\ MaxCrashes \in Nat
ASSUME NoneIsNoConn == None \notin Conns

VARIABLES
    \* the daemon process
    up, crashes,
    sessions, pending,      \* DaemonState
    permission_waiters,     \* requests whose oneshot sender the loop holds
    wrapper_channels,       \* session id -> connection whose sender it holds
    state_dirty,
    hook_rx,                \* hook envelopes on their way: one task each, no order
    client_rx,              \* the client channel: FIFO
    \* its connection tasks
    request_task,           \* tool -> task that serves its permission hook
    conn,                   \* connection -> the task and the client's end
    outbox,                 \* connection -> number of events in its channel
    bye,                    \* wrappers whose explicit unregister is on its way
    \* the processes around it
    hook, reply,            \* permission hook of a tool; what its task was sent
    wrapper, listener, link,\* wrapper process, its listener thread, its connection
    agent, env, phase,      \* Claude sessions, their AGENT_DASH_WRAPPER_ID, tool calls
    starts,                 \* how often each Claude session was started
    \* history
    shown,                  \* requests announced to dashboards
    answered,               \* <<request, decision>> that dashboards sent
    automatic,              \* requests resolved by a hook event
    file_fresh              \* state.json holds the current main sessions

loopVars   == <<sessions, pending, permission_waiters, wrapper_channels, state_dirty>>
claudeVars == <<agent, env, phase, starts>>
wrapVars   == <<wrapper, listener, link>>
ghosts     == <<shown, answered, automatic>>
vars == <<up, crashes, loopVars, hook_rx, client_rx, request_task, conn, outbox,
          bye, hook, reply, wrapVars, claudeVars, ghosts, file_fresh>>

Decisions == {"allow", "deny"}

ASSUME NoneIsNoDecision == None \notin Decisions

HookEnvelope ==
    [ type    : {"ToolStart", "ToolEnd", "Stop", "SessionStart", "SessionEnd"},
      session : Agents, tool : Tools \cup {None}, wrapper : Wrappers \cup {None} ]

ClientMessage ==
         [type : {"PermissionRequest"}, tool : Tools]
    \cup [type : {"PermissionResponse"}, tool : Tools, decision : Decisions]
    \cup [type : {"RegisterWrapper"}, conn : Conns]
    \cup [type : {"UnregisterWrapper"}, wrapper : Wrappers]
    \cup [type : {"SendPrompt"}, session : PromptTargets]

Connection ==
    [ wrapper : Wrappers \cup {None},
      task    : {"unused", "reading", "serving", "closed"},
      open    : BOOLEAN ]     \* the wrapper still holds its end

TypeOK ==
    /\ up \in BOOLEAN
    /\ crashes \in 0..MaxCrashes
    /\ sessions \in SessionTable
    /\ pending \in PendingTable
    /\ permission_waiters \in SUBSET Tools
    /\ wrapper_channels \in [SessionIds -> Conns \cup {None}]
    /\ state_dirty \in BOOLEAN
    /\ hook_rx \in SUBSET HookEnvelope
    /\ client_rx \in Seq(ClientMessage) /\ Len(client_rx) <= QueueCap
    /\ request_task \in [Tools -> {"none", "reading", "awaiting"}]
    /\ conn \in [Conns -> Connection]
    /\ outbox \in [Conns -> 0..OutboxCap]
    /\ bye \in SUBSET Wrappers
    /\ hook \in [Tools -> {"none", "waiting", "allow", "deny", "silent"}]
    /\ reply \in [Tools -> Decisions \cup {None}]
    /\ wrapper \in [Wrappers -> {"off", "on", "exiting", "dead"}]
    /\ listener \in [Wrappers -> {"none", "reading", "reconnecting"}]
    /\ link \in [Wrappers -> Conns \cup {None}]
    /\ agent \in [Agents -> {"off", "on"}]
    /\ env \in [Agents -> Wrappers \cup {None}]
    /\ starts \in [Agents -> 0..MaxStarts]
    /\ phase \in [Tools -> {"new", "started", "asking", "prompt", "running", "done"}]
    /\ shown \in SUBSET Tools
    /\ answered \in SUBSET (Tools \X Decisions)
    /\ automatic \in SUBSET Tools
    /\ file_fresh \in BOOLEAN

-----------------------------------------------------------------------------
(* What a daemon process starts with (daemon.rs, main loop state).         *)

NoSessions == [s \in SessionIds |-> None]
NoRequests == [t \in Tools |-> None]
NoChannels == [s \in SessionIds |-> None]

Init ==
    /\ up = TRUE
    /\ crashes = 0
    /\ sessions = NoSessions
    /\ pending = NoRequests
    /\ permission_waiters = {}
    /\ wrapper_channels = NoChannels
    /\ state_dirty = FALSE
    /\ hook_rx = {}
    /\ client_rx = <<>>
    /\ request_task = [t \in Tools |-> "none"]
    /\ conn = [c \in Conns |-> [wrapper |-> None, task |-> "unused", open |-> FALSE]]
    /\ outbox = [c \in Conns |-> 0]
    /\ bye = {}
    /\ hook = [t \in Tools |-> "none"]
    /\ reply = [t \in Tools |-> None]
    /\ wrapper = [w \in Wrappers |-> "off"]
    /\ listener = [w \in Wrappers |-> "none"]
    /\ link = [w \in Wrappers |-> None]
    /\ agent = [a \in Agents |-> "off"]
    /\ env = [a \in Agents |-> None]
    /\ phase = [t \in Tools |-> "new"]
    /\ starts = [a \in Agents |-> 0]
    /\ shown = {}
    /\ answered = {}
    /\ automatic = {}
    /\ file_fresh = TRUE

-----------------------------------------------------------------------------
(* The event loop.                                                         *)

\* state.json stays current when a handler leaves the main sessions alone.
TrackFile ==
    file_fresh' = (file_fresh /\ DashSessions(sessions', pending')
                                   = DashSessions(sessions, pending))

\* The hook event's session gets the wrapper's channel under its own id, once.
AliasChannel(e) ==
    wrapper_channels' =
        IF /\ e.wrapper # None
           /\ wrapper_channels[e.session] = None
           /\ wrapper_channels[e.wrapper] # None
        THEN [wrapper_channels EXCEPT ![e.session] = wrapper_channels[e.wrapper]]
        ELSE wrapper_channels

\* ... and is linked to the wrapper as its child.
LinkToWrapper(ss, e) ==
    LET known == EnsureSession(ss, e.session)
    IN  IF e.wrapper = None THEN ss
        ELSE IF known[e.session].is_main THEN known
        ELSE [known EXCEPT ![e.session].parent_wrapper_id = e.wrapper]

\* A transcript found on disk is recorded for the session and its wrapper.
SetJsonlPath(ss, e) ==
    LET s == e.session
        w == e.wrapper
    IN  [i \in SessionIds |->
            IF /\ ss[s] # None /\ ss[s].jsonl_path = None
               /\ i \in {s, w} /\ ss[i] # None /\ ss[i].jsonl_path = None
            THEN [ss[i] EXCEPT !.jsonl_path = s]
            ELSE ss[i]]

HandleHookEvent(e) ==
    /\ up
    /\ e \in hook_rx
    /\ hook_rx' = hook_rx \ {e}
    /\ AliasChannel(e)
    /\ LET moved    == RequestsOf(pending, {e.session})
           left     == RemoveRequests(pending, moved)
           linked   == LinkToWrapper(sessions, e)
           resolved == IF moved = {} THEN linked
                       ELSE StatusAfterResolve(linked, left, e.session)
           applied  == ApplyHookEvent(resolved, e)
       IN  /\ pending' = left
           /\ permission_waiters' = permission_waiters \ moved
           /\ reply' = [t \in Tools |-> IF t \in moved \cap permission_waiters
                                        THEN "allow" ELSE reply[t]]
           /\ automatic' = automatic \cup moved
           /\ \/ sessions' = applied                      \* no transcript found
              \/ e.session \in Transcripts /\ sessions' = SetJsonlPath(applied, e)
    /\ state_dirty' = TRUE
    /\ UNCHANGED <<up, crashes, client_rx, request_task, conn, outbox, bye, hook,
                   wrapVars, claudeVars, shown, answered>>
    /\ TrackFile

\* The loop takes the next client message.
Receive(type) ==
    /\ up
    /\ client_rx # <<>>
    /\ Head(client_rx).type = type
    /\ client_rx' = Tail(client_rx)
    /\ UNCHANGED <<up, crashes, hook_rx, request_task, conn, bye, hook, wrapVars,
                   claudeVars>>

\* Mutant: the oneshot sender is dropped instead of kept.
HandlePermissionRequest_NoWaiter ==
    /\ Receive("PermissionRequest")
    /\ LET t == Head(client_rx).tool
       IN  /\ pending' = [pending EXCEPT ![t] = AgentOf[t]]
           /\ sessions' = MarkNeedsInput(sessions, AgentOf[t])
           /\ shown' = shown \cup {t}
    /\ state_dirty' = TRUE
    /\ UNCHANGED <<permission_waiters, wrapper_channels, outbox, reply, answered, automatic>>
    /\ TrackFile

HandlePermissionRequest ==
    /\ Receive("PermissionRequest")
    /\ LET t == Head(client_rx).tool
           s == AgentOf[t]
       IN  /\ pending' = [pending EXCEPT ![t] = s]
           /\ sessions' = MarkNeedsInput(sessions, s)
           /\ permission_waiters' = permission_waiters \cup {t}
           /\ shown' = shown \cup {t}
    /\ state_dirty' = TRUE
    /\ UNCHANGED <<wrapper_channels, outbox, reply, answered, automatic>>
    /\ TrackFile

\* Mutant: any answer allows.
HandlePermissionResponse_AlwaysAllow ==
    /\ Receive("PermissionResponse")
    /\ pending' = RemoveRequests(pending, {Head(client_rx).tool})
    /\ reply' = [reply EXCEPT ![Head(client_rx).tool] = "allow"]
    /\ UNCHANGED <<sessions, permission_waiters, wrapper_channels, state_dirty, outbox,
                   ghosts, file_fresh>>

HandlePermissionResponse ==
    /\ Receive("PermissionResponse")
    /\ LET t    == Head(client_rx).tool
           left == RemoveRequests(pending, {t})
       IN  IF pending[t] # None
           THEN /\ pending' = left
                /\ sessions' = StatusAfterResolve(sessions, left, pending[t])
                /\ permission_waiters' = permission_waiters \ {t}
                /\ reply' = IF t \in permission_waiters
                            THEN [reply EXCEPT ![t] = Head(client_rx).decision]
                            ELSE reply
                /\ state_dirty' = TRUE
           ELSE UNCHANGED <<pending, sessions, permission_waiters, reply, state_dirty>>
    /\ UNCHANGED <<wrapper_channels, outbox, ghosts>>
    /\ TrackFile

\* The wrappers never send a real_session_id, so there is no relinking.
HandleRegisterWrapper ==
    /\ Receive("RegisterWrapper")
    /\ LET c == Head(client_rx).conn
           w == conn[c].wrapper
       IN  /\ sessions' = [EnsureSession(sessions, w) EXCEPT ![w].is_main = TRUE]
           /\ wrapper_channels' = [wrapper_channels EXCEPT ![w] = c]
    /\ state_dirty' = TRUE
    /\ UNCHANGED <<pending, permission_waiters, outbox, reply, ghosts>>
    /\ TrackFile

\* Mutants: the wrapper's own channel is kept; ids are matched by prefix.
HandleUnregisterWrapper_KeepsChannel ==
    /\ Receive("UnregisterWrapper")
    /\ LET gone == Family(sessions, Head(client_rx).wrapper)
       IN  /\ sessions' = RemoveSessions(sessions, gone)
           /\ pending' = RemoveRequests(pending, RequestsOf(pending, gone))
    /\ state_dirty' = TRUE
    /\ UNCHANGED <<wrapper_channels, permission_waiters, outbox, reply, ghosts>>
    /\ TrackFile

HandleUnregisterWrapper_ByPrefix ==
    /\ Receive("UnregisterWrapper")
    /\ LET w    == Head(client_rx).wrapper
           gone == {s \in SessionIds : s = w \/ <<w, s>> \in StartsWith}
       IN  /\ wrapper_channels' = [s \in SessionIds |->
                                       IF s \in gone THEN None ELSE wrapper_channels[s]]
           /\ sessions' = RemoveSessions(sessions, gone)
    /\ state_dirty' = TRUE
    /\ UNCHANGED <<pending, permission_waiters, outbox, reply, ghosts>>
    /\ TrackFile

HandleUnregisterWrapper ==
    /\ Receive("UnregisterWrapper")
    /\ LET w    == Head(client_rx).wrapper
           gone == {w} \cup Family(sessions, w)
       IN  /\ wrapper_channels' = [s \in SessionIds |->
                                       IF s \in gone THEN None ELSE wrapper_channels[s]]
           /\ sessions' = RemoveSessions(sessions, gone)
           /\ pending' = RemoveRequests(pending,
                             RequestsOf(pending, Family(sessions, w)))
    /\ state_dirty' = TRUE
    /\ UNCHANGED <<permission_waiters, outbox, reply, ghosts>>
    /\ TrackFile

\* The one id that s is, or is a truncation of, among the ids in K.
UniqueMatch(s, K) ==
    LET longer == {k \in K : <<s, k>> \in StartsWith}
    IN  IF s \in K THEN s
        ELSE IF Cardinality(longer) = 1 THEN CHOOSE k \in longer : TRUE
        ELSE None

ResolveSessionKey(s) == UniqueMatch(s, {k \in SessionIds : sessions[k] # None})

ResolveChannel(s) ==
    LET k == UniqueMatch(s, {i \in SessionIds : wrapper_channels[i] # None})
    IN  IF k = None THEN None ELSE wrapper_channels[k]

IsSubagent(s) ==
    LET k == ResolveSessionKey(s)
    IN  k # None /\ ~sessions[k].is_main /\ sessions[k].parent_wrapper_id # None

\* Mutant: an unbounded channel.
HasRoom_NoLimit(c) == conn[c].task = "serving"

\* try_send: the receiving task is there and its channel has room.
HasRoom(c) == conn[c].task = "serving" /\ outbox[c] < OutboxCap

\* Answers PromptSent when the event fits the channel and Error otherwise; a
\* failure to save attached images is an Error too, before anything is done.
HandleSendPrompt ==
    /\ Receive("SendPrompt")
    /\ LET s == Head(client_rx).session
           c == ResolveChannel(s)
       IN  \/ /\ ~IsSubagent(s) /\ c # None /\ HasRoom(c)
              /\ outbox' = [outbox EXCEPT ![c] = @ + 1]
              /\ sessions' = SetStatus(sessions, s, "Working")
           \/ UNCHANGED <<outbox, sessions>>
    /\ UNCHANGED <<pending, permission_waiters, wrapper_channels, state_dirty,
                   reply, ghosts>>
    /\ TrackFile

\* The 500 ms tick.
WriteStateFile ==
    /\ up
    /\ state_dirty
    /\ state_dirty' = FALSE
    /\ file_fresh' = TRUE
    /\ UNCHANGED <<up, crashes, sessions, pending, permission_waiters,
                   wrapper_channels, hook_rx, client_rx, request_task, conn, outbox,
                   bye, hook, reply, wrapVars, claudeVars, ghosts>>

-----------------------------------------------------------------------------
(* Connection tasks. A send into the client channel waits for room.        *)

Enqueue(m) ==
    /\ Len(client_rx) < QueueCap
    /\ client_rx' = Append(client_rx, m)

\* The task of a permission hook reads the request and waits for the decision.
TaskRequest(t) ==
    /\ request_task[t] = "reading"
    /\ Enqueue([type |-> "PermissionRequest", tool |-> t])
    /\ request_task' = [request_task EXCEPT ![t] = "awaiting"]
    /\ UNCHANGED <<up, crashes, loopVars, hook_rx, conn, outbox, bye, hook, reply,
                   wrapVars, claudeVars, ghosts, file_fresh>>

\* The task of a wrapper's connection reads RegisterWrapper and starts serving.
TaskRegister(c) ==
    /\ conn[c].task = "reading"
    /\ Enqueue([type |-> "RegisterWrapper", conn |-> c])
    /\ conn' = [conn EXCEPT ![c].task = "serving"]
    /\ UNCHANGED <<up, crashes, loopVars, hook_rx, request_task, outbox, bye, hook,
                   reply, wrapVars, claudeVars, ghosts, file_fresh>>

\* It writes an event of its channel to the wrapper, which types it.
TaskDeliver(c) ==
    /\ conn[c].task = "serving"
    /\ outbox[c] > 0
    /\ outbox' = [outbox EXCEPT ![c] = @ - 1]
    /\ UNCHANGED <<up, crashes, loopVars, hook_rx, client_rx, request_task, conn, bye,
                   hook, reply, wrapVars, claudeVars, ghosts, file_fresh>>

\* The loop has let go of every sender of the connection's channel.
SendersDropped(c) ==
    /\ [type |-> "RegisterWrapper", conn |-> c]
           \notin {client_rx[i] : i \in 1..Len(client_rx)}
    /\ \A s \in SessionIds : wrapper_channels[s] # c
    /\ outbox[c] = 0

\* Mutant: a lost connection is closed without unregistering the wrapper.
TaskUnregister_Silent(c) ==
    /\ conn[c].task = "serving"
    /\ ~conn[c].open
    /\ conn' = [conn EXCEPT ![c].task = "closed"]
    /\ outbox' = [outbox EXCEPT ![c] = 0]
    /\ UNCHANGED <<up, crashes, loopVars, hook_rx, client_rx, request_task, bye, hook,
                   reply, wrapVars, claudeVars, ghosts, file_fresh>>

\* It stops serving on EOF, or when its channel is closed, and unregisters the
\* wrapper before it drops the socket.
TaskUnregister(c) ==
    /\ conn[c].task = "serving"
    /\ ~conn[c].open \/ SendersDropped(c)
    /\ Enqueue([type |-> "UnregisterWrapper", wrapper |-> conn[c].wrapper])
    /\ conn' = [conn EXCEPT ![c].task = "closed"]
    /\ outbox' = [outbox EXCEPT ![c] = 0]
    /\ UNCHANGED <<up, crashes, loopVars, hook_rx, request_task, bye, hook, reply,
                   wrapVars, claudeVars, ghosts, file_fresh>>

\* The task of the connection a wrapper opened only to unregister.
TaskBye(w) ==
    /\ w \in bye
    /\ Enqueue([type |-> "UnregisterWrapper", wrapper |-> w])
    /\ bye' = bye \ {w}
    /\ UNCHANGED <<up, crashes, loopVars, hook_rx, request_task, conn, outbox, hook,
                   reply, wrapVars, claudeVars, ghosts, file_fresh>>

\* A dashboard answers a request it was shown, perhaps late, perhaps again.
TaskRespond(t, d) ==
    /\ up
    /\ t \in shown
    /\ <<t, d>> \notin answered        \* bound: each answer is given once
    /\ Enqueue([type |-> "PermissionResponse", tool |-> t, decision |-> d])
    /\ answered' = answered \cup {<<t, d>>}
    /\ UNCHANGED <<up, crashes, loopVars, hook_rx, request_task, conn, outbox, bye,
                   hook, reply, wrapVars, claudeVars, shown, automatic, file_fresh>>

\* A client sends a prompt to a session.
TaskPrompt(s) ==
    /\ up
    /\ [type |-> "SendPrompt", session |-> s]      \* bound: one at a time per id
           \notin {client_rx[i] : i \in 1..Len(client_rx)}
    /\ Enqueue([type |-> "SendPrompt", session |-> s])
    /\ UNCHANGED <<up, crashes, loopVars, hook_rx, request_task, conn, outbox, bye,
                   hook, reply, wrapVars, claudeVars, ghosts, file_fresh>>

-----------------------------------------------------------------------------
(* Permission hooks. The hook connects when Claude asks (ToolAsk).         *)

HookRead(t) ==
    /\ hook[t] = "waiting"
    /\ reply[t] # None
    /\ hook' = [hook EXCEPT ![t] = reply[t]]
    /\ UNCHANGED <<up, crashes, loopVars, hook_rx, client_rx, request_task, conn,
                   outbox, bye, reply, wrapVars, claudeVars, ghosts, file_fresh>>

\* 120 s pass without a decision, or the daemon's end of the socket closes.
HookGiveUp(t) ==
    /\ hook[t] = "waiting"
    /\ hook' = [hook EXCEPT ![t] = "silent"]
    /\ UNCHANGED <<up, crashes, loopVars, hook_rx, client_rx, request_task, conn,
                   outbox, bye, reply, wrapVars, claudeVars, ghosts, file_fresh>>

-----------------------------------------------------------------------------
(* Wrappers.                                                               *)

Connect(w, c) ==
    /\ up
    /\ conn[c].task = "unused"
    /\ conn' = [conn EXCEPT ![c] = [wrapper |-> w, task |-> "reading", open |-> TRUE]]
    /\ link' = [link EXCEPT ![w] = c]
    /\ listener' = [listener EXCEPT ![w] = "reading"]

WrapperStart(w) ==
    /\ wrapper[w] = "off"
    /\ wrapper' = [wrapper EXCEPT ![w] = "on"]
    /\ \/ \E c \in Conns : Connect(w, c)
       \/ ~up /\ UNCHANGED <<conn, link, listener>>   \* never registers
    /\ UNCHANGED <<up, crashes, loopVars, hook_rx, client_rx, request_task, outbox,
                   bye, hook, reply, claudeVars, ghosts, file_fresh>>

\* Mutant: the listener thread ends with its first connection.
ListenerEof_NoRetry(w) ==
    /\ listener[w] = "reading"
    /\ conn[link[w]].task = "closed"
    /\ conn' = [conn EXCEPT ![link[w]].open = FALSE]
    /\ link' = [link EXCEPT ![w] = None]
    /\ listener' = [listener EXCEPT ![w] = "none"]
    /\ UNCHANGED <<up, crashes, loopVars, hook_rx, client_rx, request_task, outbox,
                   bye, hook, reply, wrapper, claudeVars, ghosts, file_fresh>>

\* The listener thread reads EOF. Once the child is gone it stops.
ListenerEof(w) ==
    /\ listener[w] = "reading"
    /\ conn[link[w]].task = "closed"
    /\ conn' = [conn EXCEPT ![link[w]].open = FALSE]
    /\ link' = [link EXCEPT ![w] = None]
    /\ listener' = [listener EXCEPT
           ![w] = IF wrapper[w] = "on" THEN "reconnecting" ELSE "none"]
    /\ UNCHANGED <<up, crashes, loopVars, hook_rx, client_rx, request_task, outbox,
                   bye, hook, reply, wrapper, claudeVars, ghosts, file_fresh>>

\* It wakes from its back-off and registers again. The child may have exited
\* during the sleep: that is looked at before sleeping, not before connecting.
Reconnect(w) ==
    /\ listener[w] = "reconnecting"
    /\ \/ \E c \in Conns : Connect(w, c)
       \/ /\ wrapper[w] # "on"                         \* seen before the next sleep
          /\ listener' = [listener EXCEPT ![w] = "none"]
          /\ UNCHANGED <<conn, link>>
    /\ UNCHANGED <<up, crashes, loopVars, hook_rx, client_rx, request_task, outbox,
                   bye, hook, reply, wrapper, claudeVars, ghosts, file_fresh>>

\* The child has exited: the main thread unregisters on a new connection.
WrapperExit(w) ==
    /\ wrapper[w] = "on"
    /\ \A a \in Agents : env[a] = w => agent[a] = "off"
    /\ wrapper' = [wrapper EXCEPT ![w] = "exiting"]
    /\ bye' = IF up THEN bye \cup {w} ELSE bye
    /\ UNCHANGED <<up, crashes, loopVars, hook_rx, client_rx, request_task, conn,
                   outbox, hook, reply, listener, link, claudeVars, ghosts, file_fresh>>

\* The process ends, after WrapperExit or killed: its sockets close.
WrapperDie(w) ==
    /\ wrapper[w] \in {"on", "exiting"}
    /\ wrapper' = [wrapper EXCEPT ![w] = "dead"]
    /\ conn' = IF link[w] = None THEN conn
               ELSE [conn EXCEPT ![link[w]].open = FALSE]
    /\ link' = [link EXCEPT ![w] = None]
    /\ listener' = [listener EXCEPT ![w] = "none"]
    /\ UNCHANGED <<up, crashes, loopVars, hook_rx, client_rx, request_task, outbox,
                   bye, hook, reply, claudeVars, ghosts, file_fresh>>

-----------------------------------------------------------------------------
(* Claude (external): the hooks it runs, in the order it runs them.        *)

\* A fire-and-forget hook; it is lost when no daemon is there to accept it.
Emit(type, a, t, w) ==
    /\ Cardinality(hook_rx) < MaxHooks
    /\ hook_rx' = IF up
                  THEN hook_rx \cup {[type |-> type, session |-> a, tool |-> t, wrapper |-> w]}
                  ELSE hook_rx

claudeKeeps == <<up, crashes, loopVars, client_rx, conn, outbox, bye, reply, wrapVars,
                 ghosts, file_fresh>>

\* A session starts or is resumed, in a wrapper or in a plain terminal.
AgentStart(a) ==
    /\ agent[a] = "off"
    /\ starts[a] < MaxStarts
    /\ agent' = [agent EXCEPT ![a] = "on"]
    /\ starts' = [starts EXCEPT ![a] = @ + 1]
    /\ \E w \in {x \in Wrappers : wrapper[x] = "on"} \cup {None} :
           /\ env' = [env EXCEPT ![a] = w]
           /\ Emit("SessionStart", a, None, w)
    /\ UNCHANGED <<claudeKeeps, request_task, hook, phase>>

InProgress(t) == phase[t] \in {"started", "asking", "prompt", "running"}

AgentStop(a) ==
    /\ agent[a] = "on"
    /\ \A t \in Tools : AgentOf[t] = a => ~InProgress(t)
    /\ Emit("Stop", a, None, env[a])
    /\ UNCHANGED <<claudeKeeps, request_task, hook, claudeVars>>

\* The session ends, with its SessionEnd hook or killed before it.
AgentEnd(a) ==
    /\ agent[a] = "on"
    /\ agent' = [agent EXCEPT ![a] = "off"]
    /\ phase' = [t \in Tools |-> IF AgentOf[t] = a /\ InProgress(t)
                                 THEN "done" ELSE phase[t]]
    /\ \/ Emit("SessionEnd", a, None, env[a])
       \/ UNCHANGED hook_rx
    /\ UNCHANGED <<claudeKeeps, request_task, hook, env, starts>>

ToolStep(t, from, to) ==
    /\ agent[AgentOf[t]] = "on"
    /\ phase[t] \in from
    /\ phase' = [phase EXCEPT ![t] = to]
    /\ UNCHANGED <<claudeKeeps, agent, env, starts>>

\* PreToolUse.
ToolStart(t) ==
    /\ ToolStep(t, {"new"}, "started")
    /\ Emit("ToolStart", AgentOf[t], t, env[AgentOf[t]])
    /\ UNCHANGED <<request_task, hook>>

\* The tool needs permission: Claude shows its prompt and runs the permission
\* hook, which connects to daemon.sock or gives up at once.
ToolAsk(t) ==
    /\ ToolStep(t, {"started"}, "asking")
    /\ hook' = [hook EXCEPT ![t] = IF up THEN "waiting" ELSE "silent"]
    /\ request_task' = [request_task EXCEPT ![t] = IF up THEN "reading" ELSE @]
    /\ UNCHANGED hook_rx

\* The tool needs no permission.
ToolRun(t) ==
    /\ ToolStep(t, {"started"}, "running")
    /\ UNCHANGED <<hook_rx, request_task, hook>>

\* The hook's output decides, or it printed nothing and the prompt stays.
ToolDecide(t) ==
    /\ \/ hook[t] = "allow"  /\ ToolStep(t, {"asking"}, "running")
       \/ hook[t] = "deny"   /\ ToolStep(t, {"asking"}, "done")
       \/ hook[t] = "silent" /\ ToolStep(t, {"asking"}, "prompt")
    /\ UNCHANGED <<hook_rx, request_task, hook>>

\* The user answers at the terminal.
ToolTerminal(t) ==
    /\ \/ ToolStep(t, {"asking", "prompt"}, "running")
       \/ ToolStep(t, {"asking", "prompt"}, "done")
    /\ UNCHANGED <<hook_rx, request_task, hook>>

\* PostToolUse.
ToolEnd(t) ==
    /\ ToolStep(t, {"running"}, "done")
    /\ Emit("ToolEnd", AgentOf[t], t, env[AgentOf[t]])
    /\ UNCHANGED <<request_task, hook>>

-----------------------------------------------------------------------------
(* The daemon dies, with its tasks and channels, and is started again. A   *)
(* decision that was on its way to a hook may have got out or not: the     *)
(* hook reads it or gives up.                                              *)

DaemonCrash ==
    /\ up
    /\ crashes < MaxCrashes
    /\ up' = FALSE
    /\ crashes' = crashes + 1
    /\ sessions' = NoSessions
    /\ pending' = NoRequests
    /\ permission_waiters' = {}
    /\ wrapper_channels' = NoChannels
    /\ state_dirty' = FALSE
    /\ hook_rx' = {}
    /\ client_rx' = <<>>
    /\ request_task' = [t \in Tools |-> "none"]
    /\ conn' = [c \in Conns |-> IF conn[c].task = "unused" THEN conn[c]
                                ELSE [conn[c] EXCEPT !.task = "closed"]]
    /\ outbox' = [c \in Conns |-> 0]
    /\ bye' = {}
    /\ UNCHANGED <<hook, reply, wrapVars, claudeVars, ghosts>>
    /\ TrackFile

DaemonRestart ==
    /\ ~up
    /\ up' = TRUE
    /\ UNCHANGED <<crashes, loopVars, hook_rx, client_rx, request_task, conn, outbox,
                   bye, hook, reply, wrapVars, claudeVars, ghosts, file_fresh>>

-----------------------------------------------------------------------------

HandleHook == \E e \in hook_rx : HandleHookEvent(e)

HandleClient ==
    \/ HandlePermissionRequest
    \/ HandlePermissionResponse
    \/ HandleRegisterWrapper
    \/ HandleUnregisterWrapper
    \/ HandleSendPrompt

Tasks ==
    \/ \E t \in Tools : TaskRequest(t)
    \/ \E c \in Conns : TaskRegister(c) \/ TaskDeliver(c) \/ TaskUnregister(c)
    \/ \E w \in Wrappers : TaskBye(w)

Clients ==
    \/ \E t \in Tools, d \in Decisions : TaskRespond(t, d)
    \/ \E s \in PromptTargets : TaskPrompt(s)

Hooks == \E t \in Tools : HookRead(t) \/ HookGiveUp(t)

WrapperProcs ==
    \E w \in Wrappers : \/ WrapperStart(w) \/ ListenerEof(w) \/ Reconnect(w)
                        \/ WrapperExit(w) \/ WrapperDie(w)

Claude ==
    \/ \E a \in Agents : AgentStart(a) \/ AgentStop(a) \/ AgentEnd(a)
    \/ \E t \in Tools : \/ ToolStart(t) \/ ToolAsk(t) \/ ToolRun(t)
                        \/ ToolDecide(t) \/ ToolTerminal(t) \/ ToolEnd(t)

Next == \/ HandleHook \/ HandleClient \/ WriteStateFile \/ Tasks \/ Clients \/ Hooks
        \/ WrapperProcs \/ Claude \/ DaemonCrash \/ DaemonRestart

Spec == Init /\ [][Next]_vars

\* The loop and its tasks run while the daemon is up (select! picks among ready
\* branches at random, so no channel is starved); a listener thread sees
\* EOF and retries; a hook stops waiting after its timeout. Users, Claude,
\* crashes and restarts are not forced.
Fairness ==
    /\ WF_vars(HandleHook)
    /\ WF_vars(HandleClient)
    /\ WF_vars(WriteStateFile)
    /\ \A t \in Tools : WF_vars(TaskRequest(t))
    /\ \A c \in Conns : /\ WF_vars(TaskRegister(c))
                        /\ WF_vars(TaskDeliver(c))
                        /\ WF_vars(TaskUnregister(c))
    /\ \A w \in Wrappers : /\ WF_vars(TaskBye(w))
                           /\ WF_vars(ListenerEof(w))
                           /\ WF_vars(Reconnect(w))
    /\ \A t \in Tools : WF_vars(HookRead(t) \/ HookGiveUp(t))

FairSpec == Spec /\ Fairness

-----------------------------------------------------------------------------
(* Properties.                                                             *)

Queued == {client_rx[i] : i \in 1..Len(client_rx)}

\* A request that dashboards show as pending can still be answered: the loop
\* holds its waiter, its connection task awaits the decision and has been sent
\* none. Every path that takes the waiter must take the pending entry with it.
PendingHasWaiter ==
    \A t \in Tools : pending[t] # None =>
        /\ t \in permission_waiters
        /\ request_task[t] = "awaiting"
        /\ reply[t] = None

\* No decision is made up: a hook is told to deny only what a dashboard denied,
\* and to allow only what a dashboard allowed or a hook event resolved, in spite
\* of late, repeated and contradicting answers, restarts and removed wrappers.
DecisionIntegrity ==
    \A t \in Tools :
        /\ "deny" \in {reply[t], hook[t]} => <<t, "deny">> \in answered
        /\ "allow" \in {reply[t], hook[t]} => <<t, "allow">> \in answered \/ t \in automatic

\* Of several answers to a request the first one handled stands: the decision
\* sent to a hook's task never changes, whatever is answered, happens or dies
\* later.
FirstDecisionStands ==
    [][\A t \in Tools : reply[t] # None => reply'[t] = reply[t]]_vars

\* A running wrapper whose connection is being served, and whose registration
\* has been handled, is registered with that very connection: no unregister
\* message, of another wrapper or of one that is exiting, undoes it, and no
\* reconnection overtakes the end of the connection before.
LiveRegistration ==
    \A w \in Wrappers :
        LET c == link[w]
        IN  /\ wrapper[w] = "on"
            /\ listener[w] = "reading"
            /\ conn[c].task = "serving"
            /\ [type |-> "RegisterWrapper", conn |-> c] \notin Queued
            => /\ wrapper_channels[w] = c
               /\ sessions[w] # None
               /\ sessions[w].is_main

\* The two maps keyed by wrapper agree: a wrapper is in the session table, as a
\* main session, exactly when the loop holds a channel of its own for it.
RegistryAgrees ==
    \A w \in Wrappers :
        /\ sessions[w] # None <=> wrapper_channels[w] # None
        /\ sessions[w] # None => sessions[w].is_main
        /\ wrapper_channels[w] # None => conn[wrapper_channels[w]].wrapper = w

\* NeedsInput is never left behind: a session shown as needing input has a
\* pending request, its own or that of a session linked to it.
NeedsInputJustified ==
    \A s \in SessionIds :
        sessions[s] # None /\ sessions[s].status = "NeedsInput"
        => InputReasonOf(sessions, pending, s) # {}

\* state.rs marks the parent wrapper as NeedsInput so that the dashboards,
\* which show wrappers only, reflect the status: it goes back to Idle only when
\* no child of the wrapper has a request pending.
ParentKeepsNeedsInput ==
    [][\A w \in Wrappers :
          /\ sessions[w] # None /\ sessions[w].status = "NeedsInput"
          /\ sessions'[w] # None /\ sessions'[w].status = "Idle"
          => InputReasonOf(sessions', pending', w) = {}]_vars

\* daemon.rs resolves every pending request of a session on any of its hook
\* events, because Claude has then moved past the prompt.
MovedPast == \A t \in automatic : phase[t] # "asking"

\* daemon.rs aliases a wrapped session's own id to the wrapper's channel so
\* that prompts can be injected under that id.
InjectWorks ==
    \A a \in Agents : wrapper_channels[a] # None => ~IsSubagent(a)

\* The state file is written after every change: if it is behind the sessions
\* the daemon holds, a write is due.
StaleFileIsDirty == up /\ ~file_fresh => state_dirty

\* A running wrapper that lost the daemon is registered again once the daemon
\* is back, unless it exits or the daemon dies again first.
Reregisters ==
    \A w \in Wrappers :
        (up /\ wrapper[w] = "on" /\ listener[w] # "none")
        ~> (~up \/ wrapper[w] # "on" \/ wrapper_channels[w] # None)

\* However a wrapper process ends, and whatever its goodbye races with, its
\* session disappears for good.
DeadWrapperForgotten ==
    \A w \in Wrappers : wrapper[w] = "dead" ~> [](sessions[w] = None)

\* The wrapper design: a subagent session is cleaned up on SessionEnd or when
\* its parent wrapper exits.
SubagentsCleanedUp ==
    \A w \in Wrappers :
        (wrapper[w] = "dead" /\ \A a \in Agents : env[a] = w => agent[a] = "off")
        ~> (\A a \in Agents : ParentOf(sessions, a) # w)

-----------------------------------------------------------------------------
(* The abstract specification of permission requests (Permission).         *)

\* How far a request has come: announced or not, open while it is pending.
RequestState(t) ==
    IF t \in shown
    THEN IF pending[t] # None THEN "open"
         ELSE IF reply[t] # None THEN "decided" ELSE "withdrawn"
    ELSE IF hook[t] = "none" THEN "new" ELSE "asked"

RequestStates == [t \in Tools |-> RequestState(t)]

Abstract == INSTANCE Permission WITH
    request  <- RequestStates,
    answers  <- answered,
    decision <- reply,
    outcome  <- hook

\* The loop, its queue and its tasks implement the life of a permission request:
\* announced once, decided once and only while open, the open requests of a
\* session all at once when a hook event resolves them, none after the request
\* was withdrawn with its session or died with the daemon.
ImplementsPermission == Abstract!Spec

=============================================================================
