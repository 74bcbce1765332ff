# A TLA+ verification of agent-dash

agent-dash shows the AI coding sessions that run on a machine, lets their
permission prompts be answered from a dashboard, and injects prompts into them.
This directory models its concurrent core in TLA+, model-checks small instances
with TLC and proves the central invariants with TLAPS for every instance.

## 1. The system

| Part | Source (under `crates/`) | State it keeps | Operations | Module |
|---|---|---|---|---|
| daemon state manager | `agent-dash/src/state.rs` | session table, pending permissions | hook events, add/resolve a request, remove a wrapper, the view for dashboards | `DaemonState` |
| daemon event loop | `agent-dash/src/daemon.rs` | state manager, permission waiters, wrapper channels, three maps of subscribers, screens, offsets, dirty flag | one handler per hook event, client message, file change; a 500 ms tick that writes `state.json` | `Daemon`, `Permission`, `SessionWatch`, `TermOutput`, `PtyControl`, `Dashboards` |
| hook listener | `agent-dash/src/hook_listener.rs` | a task per connection | forward each envelope to the loop | `Daemon` |
| client listener | `agent-dash/src/client_listener.rs` | a task per connection | requests, replies, long-lived connections of hooks, wrappers, subscribers | as the event loop |
| hook command | `agent-dash/src/hook_cmd.rs` | a process per hook | fire-and-forget events; a permission request that blocks up to 120 s | `Daemon` |
| wrapper | `agent-dash/src/wrapper.rs` | PTY, screen parser, three daemon connections, seven threads | register, reconnect, unregister; prompts, keys, sizes; output, suggestions | `Daemon`, `PtyControl`, `TermOutput`, `Dashboards` |
| transcript watcher | `agent-dash/src/watcher.rs` | two maps between sessions and paths | watch, unwatch, pass on changes | `SessionWatch` |
| transcript reader | `agent-dash/src/{messages,jsonl}.rs` | none | incremental and tail reads, filter, three formats, the id a session is listed under | `Transcript`, `TranscriptView` |
| web server, web page | `agent-dash/src/web.rs`, `agent-dash/web/app.js` | a task per page; the page's view | bridge to the loop; conversation, terminal, prompts | `SessionWatch`, `TermOutput`, `Dashboards` |
| relay server | `agent-dash-relay/src/{channel,server}.rs` | channels: peers, ring buffer, sequence counter | authenticate, forward, sync, disconnect, evict | `RelayChannel`, `RelayLog` |
| relay connector | `agent-dash/src/relay_connector.rs` | two connections | bridge daemon and relay, reconnect | `Dashboards` |
| setup | `agent-dash/src/setup.rs` | Claude's `settings.json` | read, merge, write | `HookSetup` |
| GNOME extension | `../extension/extension.js` | the requests it shows | subscribe, start over after its connection | `Dashboards` |
| command line, agent profiles, Android app, legacy daemon | | | | not modelled, see section 6 |

How they interact. Claude runs a hook process for each of its events. Hooks write
to `hook.sock`, except permission hooks, which write to `daemon.sock` and block.
A task per connection forwards what it reads into one of two bounded channels;
the daemon's `select!` loop takes from either, and from the file watcher, and
runs each handler to the end. A wrapper has three connections to `daemon.sock`:
its listener's, over which it registers and receives prompts, bytes and sizes;
one for screen updates; one for terminal output. Its id travels in the
environment to the hooks of the sessions inside it, which is how the loop links
a Claude session to its wrapper. Whatever the loop sends goes through a bounded
channel with `try_send` to the task of one connection. The relay is a second
process of the same shape: connection tasks and one manager task.

Handlers are atomic (file reads excepted), so what is hard is not inside them
but between them:

- several channels with no order between them, and one task per connection
  (events handled after what they precede, unregisters after registrations);
- state kept in several maps that must agree (sessions, channels, pending
  requests, waiters, watches) across handlers that each change some of them;
- timeouts and deaths: a hook that stops waiting, a wrapper killed, a daemon
  that is restarted under everything connected to it, threads that notice it
  one by one;
- a file read while it is being written, at any byte;
- full channels: what does not fit is dropped, with or without its receiver;
- identity: prefixes of ids, keys instead of connections, sequence numbers that
  start again.

What makes each part correct: a request shown as pending can be answered, and
its hook is told what was decided and nothing else (daemon and hooks); a running
wrapper is registered and a dead one is not (loop, listener, wrapper); a session
shown as needing input has something to be answered (state manager); who is a
subscriber shows what the daemon has, and who is not is not half one
(dashboards, terminal, conversation); a viewer sees what is written once, in
order (transcripts, output); prompts are typed whole and sizes agree (wrapper);
a file that is the user's keeps what is the user's (setup); a channel's buffer
is the end of its log, and its members are those that are connected (relay).
`PROJECT.json` lists the hazards behind these, line by line.

## 2. Modules

| Module | What it is | Run by | Proofs |
|---|---|---|---|
| `DaemonState` | the session table of `state.rs` as operators on two maps | | |
| `Permission` | abstract specification: the life of a permission request | | |
| `Daemon` | extends `DaemonState`: loop, connection tasks, permission hooks, wrappers, Claude; the refinement mapping to `Permission` | `MCDaemon` | `DaemonProofs` (types, permissions, wrappers, needing input) |
| `Transcript` | reading a file that grows | | |
| `SessionWatch` | extends it: streaming a conversation to its viewers | `MCSessionWatch` | `SessionWatchProofs` |
| `TranscriptView` | extends it: what is made of the lines of a transcript | `MCTranscriptView` | `TranscriptViewProofs` |
| `PtyControl` | what reaches the agent's terminal: keys, prompts, sizes | itself | `PtyProofs` |
| `TermOutput` | the way of the terminal's output to its viewers | itself | `TermOutputProofs` |
| `Dashboards` | what dashboards show of a session | itself | `DashboardsProofs` |
| `HookSetup` | `agent-dash setup hooks` | `MCHookSetup` | `HookSetupProofs` |
| `RelayLog` | abstract specification: one bounded log per channel | | |
| `RelayChannel` | the relay's manager and connection tasks; the refinement mapping to `RelayLog` | `MCRelay` | `RelayChannelProofs` |

One daemon, five modules: each has the arms of the loop that touch the state it
is about, the tasks and threads on both sides of them, and the crash and restart
of the daemon where its state survives in others. The arms share the loop and
little else: a map that two modules have (sessions, wrapper channels) is full in
`Daemon` and one Boolean in the others.

Conventions. Variables have the names of the code. A map's missing key is
`None`. `queue[v]` is the channel between loop and task of viewer `v`, and
everything a task has not written yet is still there. Actions `Handle...` are
arms of the loop or the manager, each whole; `Task...`, `Hook...`, `Wrapper...`,
`Listener...` are steps of that task, process or thread. Operators named
`X_Something` under a comment "Mutant" are wrong variants of `X` that no
specification uses: each breaks a property (section 3).

### Daemon

One action per handler (`HandleHookEvent`, `HandlePermissionRequest`,
`HandlePermissionResponse`, `HandleRegisterWrapper`, `HandleUnregisterWrapper`,
`HandleSendPrompt`, `WriteStateFile`), one per step of a connection task, of a
permission hook, of a wrapper, and of Claude, which is external and modelled by
the hooks it runs (`Agent...`, `Tool...`). `DaemonCrash` loses what lives in the
process; `DaemonRestart` is `ensure_daemon` or the service manager.

- `hook_rx` is a set: every event has a connection and a task of its own, so the
  order of arrival is arbitrary. `client_rx` is the FIFO channel, with its
  capacity: a task that finds it full waits.
- A permission request is named by its tool call: `hook_cmd.rs` uses the
  `tool_use_id` or makes up an id of its own for each process.
- `conn[c]` is a connection of a wrapper with its task. Every connection is used
  once. `outbox[c]` counts the prompts in the task's channel; `PtyControl` has
  that channel with everything that goes through it.
- `StartsWith` gives the prefix relation between ids that `SendPrompt` uses;
  comparing characters is left out.
- `RegisterWrapper` carries `real_session_id = None` from both places that send
  it (`wrapper.rs:406` and in the reconnect loop), so the relinking branch of the
  handler is unreachable and left out.
- A decision is "allow" or "deny": what other words do is what `allow` does
  (`translate_permission_decision`).
- A transcript may be found on disk from any hook event on, hence the choice in
  `HandleHookEvent`; `SendPrompt` may fail to save attached images, hence the
  choice there.
- `answered`, `shown`, `automatic` and `file_fresh` are history variables: what
  dashboards were shown and sent, what a hook event resolved, and whether
  `state.json` shows the current main sessions.
- `RequestState` maps a request to `Permission`: not announced (`shown`) it is
  new or asked; announced it is open while it is pending, then decided if its
  task was sent a reply, withdrawn if not. A decision that a crash kept from a
  hook is one the hook did not wait for (`GiveUp`).

### Transcript, SessionWatch, TranscriptView

`Transcript` measures a file in half lines, so that a write and a read can end
inside a line, and in the lines of `SplitsChar` inside a UTF-8 character.
`read_new_messages` takes the length of the file, then reads to its end, which
may be further by then; `read_tail_lines` is the history.

`SessionWatch` has the loop's arms for GetMessages, WatchSession, UnwatchSession
and FileChanged; the watcher's two maps; its bridge task; and two kinds of
viewers, a client of `daemon.sock` (`Socket...`: one watch, until it ends) and a
web page (`Page...`: unwatch, history, watch, one after the other). `Reads`
chooses how far the file has grown at each file operation of one handler.
Notifications that wait for the same reader are one: a second read finds nothing
new. `stream[v]` is history: what was sent to `v`, where its watch began, where
reads ended inside a line, and what befell it (its channel full, another viewer
of the same session, the session removed, a file change that sent messages and
left the offset where it was).

`TranscriptView` takes a transcript as a sequence of entries that grows by any
entry, possibly in two halves. It has both parsers: `parse_line` and the
renderers for structured messages, markdown and html, and `parse_jsonl_status`,
which has a filter of its own and of which only the session id has a reader
(`daemon.rs:368`; branch and question are dead, `jsonl.rs:46`, and left out). A text is a sequence of three kinds of characters
(one byte, two bytes, newline), enough for every limit that counts lines or
bytes. Mark-up, icons, escaping and inline markdown are left out.

### PtyControl, TermOutput, Dashboards: the wrapper and its clients

`PtyControl`: `wrapper_rx` (daemon), `lines` (socket), `listener` (one thread,
asleep in the middle of two handlers: `entering` between a prompt and its
carriage return, `restoring` between the two sizes of a redraw), `resizer`,
`write_rx` (channel to the writer thread) and the stdin thread. Setting the PTY
size and storing `term_size` are two steps of either thread.

`TermOutput`: the PTY reader, `term_data_rx`, the terminal data sender with its
batches and its own connection, the loop's `terminal_parser` and
`terminal_subscribers`, the redraw that a new viewer asks for. A chunk is one
read of the PTY, numbered; a screen is the sequence of chunks it has processed.

`Dashboards`: the reader thread's debounced look at the screen (`last_update`),
the screen update sender, the registration, permission requests, hook events and
answers as seen by the loop's broadcasts, and dashboards that subscribe:
clients of `daemon.sock`, among them the relay bridge, and pages, which keep one
request per session. Both connect again after their connection has ended, for
whatever reason: a client starts over with nothing (`ClientReconnects`), a page
keeps the requests it shows (`PageReconnects`, `app.js:74`). `HandleSubscribe`
sends as many of the pending requests as fit, in any order, and subscribes all
the same. `stale` and `untold` in `dash` are history: what a page showed at its
subscription although it was not pending, and what did not fit. A request to the loop is made when it is handled: the loop
takes them in the order they arrive, and nothing here depends on more.

### HookSetup

`settings.json` is the file's shape ("missing", "empty", "broken", "other": JSON
without an object at its root or at "hooks"; "json") and for each event its value: absent, not an array, or entries with their form and
commands. A run reads and merges in one step, and writes in two, because
`fs::write` empties the file first. Another run, the user, or death may come
between any of these.

### Relay

`HandleAuth`, `HandleForward`, `HandleSync`, `HandleDisconnect` and `EvictStale`
are the manager's commands and its tick; `Task...` the steps of a connection
task. Payloads are encrypted and opaque to the relay: a message is its sender's
key. `Age` lets a channel's last activity fall behind `channel_ttl`; the clock
is otherwise left out. `log`, `epoch`, `cursor`, `owed`, `missed` are history: a
device is assumed to sync after the highest number a sync gave it (the live stream
carries no numbers). A Sync names a channel of its own, which need not be the one
its connection is in; only what a device gets of the latter enters its history. No client of the repository sends Sync
yet; the protocol and the server's tests define it.

## 3. Runs

| Run | Properties | What it shows |
|---|---|---|
| `daemon_permissions` | `PendingHasWaiter`, `DecisionIntegrity`, `ImplementsPermission` | two requests of one session against events, answers, timeouts and a daemon that dies and comes back |
| `daemon_family` | `TypeOK`, `NeedsInputJustified`, `RegistryAgrees` | a wrapper that exits, its child and a request |
| `daemon_registry` | `LiveRegistration`, `Reregisters`, `DeadWrapperForgotten` | two wrappers with prefix ids, a crash, reconnections, exits: a registration is kept, regained, and removed for good |
| `watch_streams` | `SentInOrder`, `OnlyTornLost`, `DroppedStreamEnds`, `ReportedIsRead` | two clients of one session while its file grows under the reads, torn inside lines and characters: what is sent twice or not at all, and why |
| `watch_pages` | `OneConversation` | a page goes between two sessions that share a transcript, and shows one of them |
| `pty_control` | `TypeOK`, `PromptIntact`, `AcceptedInOrder`, `SizesSettle`, `PromptSubmitted`, `HostFollowed` | prompts, keys, web terminal, two host sizes and a redraw in the wrapper's threads, with a daemon that stops |
| `term_output` | `OutputConserved`, `SnapshotThenStream`, `WatcherSeesScreen` | the terminal's output from the agent to a socket and a page, with leaving, watching again and a daemon that stops |
| `dash_views` | `SubscriberCurrent`, `PermissionsCurrent`, `SuggestionCurrent` | a dashboard of either kind that leaves and connects again, two requests, suggestions, a full queue, a daemon that stops |
| `view_lines` | `OutputWhole`, `CutIsLongest`, `HistoryIsEnd`, `ListedUnderLastId` | every transcript of up to three of 27 entries, the last possibly half written |
| `hook_setup` | `InstalledOnce`, `UserEntriesKept`, `NothingLeftToDo` | two runs of the setup and an edit of the user from every short list of entries, and from files that hooks cannot be added to |
| `relay_channel` | `TypeOK`, `BufferIsWindow`, `LiveIsPeer`, `OneConnectionPerKey`, `SyncComplete`, `ImplementsLog`, `PeersLeave` | a phone that connects again while its old connection is there, and a desktop, in a channel that expires and starts again |
| `dash_phone` | `PhoneAnswerCounts` (violated) | a phone's answer is written to a connection the daemon does not read any more |

Every property of a passing run has a mutant, a variant of one definition as a
plausible bug would have it, with which TLC finds the property violated
(`PROJECT.json`, `mutants`). `TypeOK` of `SessionWatch`, `TranscriptView`, `Dashboards`, `TermOutput` and
`HookSetup` is a theorem; `INVARIANT TypeOK` in a copy of a configuration checks it there.

`dash_phone` ends in a violation: `docs/relay.md:94` says that phone commands
"are decrypted and forwarded to the daemon". The bridge writes them to the
connection on which it sent Subscribe (`relay_connector.rs:169` and `:286`), and
the task of that connection does nothing any more but stream
(`client_listener.rs:204`).

### Bounds, and why they are enough

Channels of 16 to 256 entries become channels of 1 to 3, so that full channels
are common; what happens at a full channel does not depend on its capacity.
Where a channel must also be found neither full nor empty it has room for more
(`DataCap = 3` against `BatchMax = 2`: a batch that empties the channel and one
that does not; `QueueCap = 2` in `dash_views`: a new subscriber is sent the
state and one of two requests, where the code has room for 63).

- `daemon_*`: `MaxHooks` bounds the events on their way; one is enough to be
  overtaken by client messages and crashes. `MaxStarts` and `MaxCrashes` bound
  restarts; `Conns` bounds reconnections: four for two wrappers let one come
  back twice. Each dashboard answer is given once, which makes two
  contradicting answers to each request. `daemon_permissions` uses the symmetry
  of two calls of one session; it checks no liveness. `NeedsInputJustified` is
  for sessions that stay in one wrapper while they wait (hazard at `state.rs:199`):
  its run has one, its theorem any number under that condition.
- `watch_streams`: two lines make a file whose end, middle and start differ;
  the middle of the second is inside a character. Two viewers in two formats
  are the fewest that share an offset. The invariants of the proofs were checked
  with three lines and larger channels, too. `watch_pages` has two sessions on one
  path, the worst case for the watcher's maps; files torn inside lines are left
  to the other run (`Torn = FALSE`).
- `pty_control`: two prompts, for one can overtake the other; one request of
  another kind at a time is enough to meet a prompt, a redraw, a host resize;
  `MaxHost = 2` lets the host terminal be resized, and resized again or back;
  its invariants are proved for any number.
- `term_output`: `MaxWatches = 2` lets a viewer leave and come back, or two
  watch at the same time, each with a redraw of its own; `MaxChunks` counts only
  what the agent writes besides.
- `dash_views`: one dashboard of either kind, since dashboards do not interact
  but through answers, which are not told apart; two requests, since a page
  keeps one and one fits in its channel beside the state. `MaxOutputs = 2` lets a
  suggestion be dropped at a full channel; 3, with which it can be made again,
  holds too, as does `QueueCap = 3` with three requests and no suggestions.
- `view_lines`: limits are small and in the proportions of the code
  (`VISIBLE_LINES < COLLAPSE_THRESHOLD < ` the longest output), with texts below,
  at and above each, and characters of two bytes at the cut.
- `hook_setup`: lists of up to four entries (own, old, mixed, foreign), so that a
  removal moves another entry that is to be removed; two runs, one edit.
- `relay_channel`: `MaxBuffer = 1` against two messages makes the ring buffer
  wrap (its theorem is for any size), `MaxEpochs = 2` lets a channel be evicted
  and start again, `CmdCap = 1` keeps every task waiting for room. A second
  channel, in which nobody is, is there to be named in a Sync.

Deadlock checking is off: connections, requests, lines and crashes are finite in
every instance, so each ends in a state where nothing is left to do. That
nothing waits for good is what the liveness properties say.

### Fairness

Weak fairness for the steps of tasks and threads that nothing but their own
work holds up: the daemon's loop (tokio's `select!` picks at random among ready
branches, so each queue is served), the tasks that write a queue to a socket,
the watcher's bridge, the wrapper's threads (EOF wakes them, sleeps and back-offs
end), the hook's timeout. The disconnect step of a relay connection waits for
room in a queue that others fill: it has strong fairness, for tokio's channel
gives room to waiting senders in their order. Nothing is assumed of users,
Claude, devices, exits, crashes and restarts: `Reregisters` allows for the daemon
to stay down, `WatcherSeesScreen` for an agent that is silent; only a
redraw that the terminal's change of size asks for is answered (`AgentRedraws`).

### Statements that do not hold

What comments and documents of the repository say and the models refute. Each is
defined with the properties of its module; to see the counterexample, put it
alone in a copy of the configuration named (with the specification it names).

| Definition | Where it is said | What happens | Configuration |
|---|---|---|---|
| `Daemon!InjectWorks` | `daemon.rs:72`: "so `inject` works" | the alias is of no use while the session is linked to a wrapper: SendPrompt rejects it as a subagent | `Daemon_family.cfg` |
| `Daemon!MovedPast` | `daemon.rs:99`: "Any hook event for a session means Claude has moved past any pending permission prompt" | a tool's own ToolStart, handled after its permission request, answers it with allow | `Daemon_permissions.cfg` |
| `Daemon!ParentKeepsNeedsInput` | `state.rs:166`: "mark the parent wrapper session as NeedsInput so the web UI [...] reflects the status" | one child's answer takes NeedsInput off the wrapper while another child still asks | `Daemon_family.cfg` with `Agents = {a1, a2}`, `Tools = {t1, t2}`, `AgentOf <- TwoAgents` |
| `Daemon!StaleFileIsDirty` | `docs/plans/2026-02-14-daemon-architecture-redesign.md:38`: "Subscribes to state changes, writes `state.json`" | an injected prompt changes the status but not `state.json` (`daemon.rs:550`) | `Daemon_family.cfg` |
| `Daemon!SubagentsCleanedUp` | `docs/plans/2026-02-25-wrapper-driven-sessions-design.md:63`: "`SessionEnd` or parent wrapper exit — subagent cleaned up" | a late hook event brings a removed subagent back for good (`daemon.rs:89`) | `Daemon_family.cfg` with `FairSpec` |
| `SessionWatch!LastSubscriberUnwatches` | `docs/plans/2026-02-15-message-api-design.md:126`: "When the last subscriber for a file unwatches, remove the watch" | the first one to leave removes it, and drops the others (`daemon.rs:326`) | `Watch_streams.cfg` |
| `SessionWatch!ViewHasNoGap` | the same, line 23: "Client receives new messages as they're written to the JSONL" | a message written between a page's history and its watch is in neither (`web.rs:140`) | `Watch_pages.cfg` |
| `Dashboards!BannerMeansPending` | `docs/plans/2026-02-25-web-interface-design.md:61`: the page's banner "appears when selected session has a pending permission request" | a page that was away while a request was answered connects again and still shows it: it never clears `pendingPermissions` (`app.js:9`, `:74`), and a new subscriber is told only what is pending | `Dash_views.cfg` |
| `PtyControl!RedrawRestores` | `wrapper.rs:697`: "then restoring the correct size" | a resize during the 300 ms of a redraw is undone | `Pty_control.cfg` |
| `TermOutput!SnapshotRestores` | `wrapper.rs:472`: "grabs a snapshot on reconnect to restore web viewers" | the snapshot goes over a connection whose task does not pass terminal output on | `Term_output.cfg` |
| `TranscriptView!ConversationIsListed` | `daemon.rs:365`: "Skip JSONL files that have no parseable conversation content" | a file whose last lines do not parse is skipped, conversation or not (`jsonl.rs:67`) | `View_lines.cfg` |
| `TranscriptView!ShortTextWhole` | `messages.rs:611`: "at most `max_chars` characters" (305 and 596 say the like) | limits are compared with lengths in bytes: a text within the limit in characters is cut (`messages.rs:614`). `CutIsLongest` is about the bytes | `View_lines.cfg` |
| `HookSetup!UpToDate` | `setup.rs:20`: "`Ok(false)` if already up to date", printed at `main.rs:264` | a file whose root or whose "hooks" is not an object gives `Ok(false)` with nothing installed (`setup.rs:94`, `:104`) | `Hook_setup.cfg` |
| `HookSetup!UserCommandsKept` | `docs/plans/2026-02-15-single-binary-design.md:137`: "preserves all non-agent-dash entries" | an entry with a command of agent-dash and one of the user is replaced as a whole (`setup.rs:179`, `:187`): the user's command goes | `Hook_setup.cfg` |
| `RelayChannel!SyncReturnsMissed` | `docs/relay.md:153`: "request buffered messages missed while offline" | a channel that expired numbers from 1 again, below the device's last number | `Relay_channel.cfg` |

## 4. Proofs

Assumptions are those of the modules: disjoint ids, `None` outside every set it
is added to, positive capacities, natural bounds. The bounds are arbitrary
naturals in the theorems, so they limit nothing.

| Theorem | States | Along which argument |
|---|---|---|
| `DaemonProofs!TypeCorrect` | `Spec => []TypeOK` | inductive with `ConnsOwned`: a connection in use has a wrapper, so that a registration names one |
| `DecisionIntegrityHolds` | `Spec => []DecisionIntegrity` | `AnswersRecorded`: an answer in the queue is one a dashboard gave |
| `PendingHasWaiterHolds` | `Spec => []PendingHasWaiter` | `RequestLife`: a request is queued at most once, by a task that awaits, before it is pending and before anything is replied |
| `FirstDecisionStandsHolds` | `Spec => FirstDecisionStands` | only a pending request is answered, and by the previous theorem its reply is still empty. No run checks it apart: TLC checks `ImplementsPermission`, which implies it |
| `DaemonImplementsPermission` | `Spec => ImplementsPermission` | every step maps to Ask, Announce, Answer, Decide, Resolve, Withdraw, Learn, GiveUp or a stutter. `RequestHistory` beside the invariants above: what is queued was not announced before, and what was not announced is neither pending nor decided |
| `RegistryAgreesHolds` | `Spec => []RegistryAgrees` | `ChannelsOpened`: a channel in the map was opened by its wrapper; `SameMains`: every other step keeps the main sessions; `Parentless`, proved along with them: a wrapper's session has no parent |
| `LiveRegistrationHolds` | `Spec => []LiveRegistration` | `LiveInv`, the order of the client channel: an unregister message of a wrapper's earlier connection stands ahead of the registration of the one it has now (`QueueOrdered`), because only the last connection of a running wrapper is served and a goodbye is that of a wrapper that exits (`LinkOwned`). By `Parentless`, another wrapper's removal does not take it along |
| `NeedsInputHolds` | `Spec /\ []SameWrapper => []NeedsInputJustified` | inductive with `PendingIsOwn`: a request is that of its own session, never of a wrapper. A step either leaves a reason (a request, its session and that one's parent) in place, or takes the marks off the session and the parent it stands for. `SameWrapper` is what the code does not see to: that a hook event which resolves requests comes from the wrapper they are shown on. Otherwise the new parent is cleared and the old one keeps its mark (`daemon.rs:93`, before `state.rs:199`) |
| `NeedsInputOneWrapper` | `Spec => []NeedsInputJustified` for one wrapper | there `SameWrapper` always holds: the case of the run, with any number of sessions, requests and restarts |
| `PtyProofs!SizesSettleHolds` | `Spec => []SizesSettle` | `SizesInv` says what holds in the middle of a change: only a redraw makes the PTY taller, and while no other thread changes the size, the value a thread is about to store is the PTY's. The property alone is not inductive: it is silent between the two stores |
| `PtyProofs!PromptIntactHolds` | `Spec => []PromptIntact` | `PromptInv`: a prompt without its carriage return is the one the listener is about to submit, or the listener has ended and nothing follows but keys |
| `PtyTypeCorrect` | `Spec => []TypeOK` | inductive as it stands, one lemma for each thread |
| `AcceptedInOrderHolds` | `Spec => []AcceptedInOrder` | the property is about `Way`, all the places a prompt can be at in the order it goes through them, and inductive with the types (`OrderInv`): a step moves a prompt within the way without passing another, and what leaves it is `lost` |
| `DashboardsProofs!DashboardsTypeCorrect` | `Spec => []TypeOK` | inductive as it stands |
| `SuggestionCurrentHolds` | `Spec => []SuggestionCurrent` | `SuggestionInv`: the last update in the channel is what was detected last, and what the sender sent last, on a connection the daemon reads, is what the daemon has |
| `SubscriberCurrentHolds` | `Spec => []SubscriberCurrent` | inductive with the types: whatever changes the state is broadcast, and whoever cannot be told is removed from the subscribers at once |
| `PermissionsCurrentHolds` | `Spec => []PermissionsCurrent` | inductive with the types: a request that is announced is pending from then on, one that is resolved is hidden behind every announcement of it, one that ends unannounced has vanished; and a subscription sends the pending requests in any order, but for those it notes as untold, and finds on the page those it notes as stale. So no capacity and no number of requests is assumed |
| `TermOutputProofs!TermTypeCorrect` | `Spec => []TypeOK` | inductive as it stands |
| `OutputConservedHolds` | `Spec => []OutputConserved` | the property is about `Way`, all the places a chunk can be at in the order it goes through them; inductive with the types: a read puts the next chunk behind all others, a batch, a handler or a loss takes chunks off one place and adds them to the next, to `missed` or to `gone` |
| `SnapshotThenStreamHolds` | `Spec => []SnapshotThenStream` | a step of the output appends the same chunks to the screen and to each queue, or ends the subscription. Beside it: in the queue of the loop the registration of a session comes before its end (`TurnInv`), output that is sent is not empty (`FullInv`), while the daemon has no screen nobody shows anything of it (`FreshInv`), and who subscribes joins from there on (`JoinInv`) |
| `HookSetupProofs!SetupTypeCorrect` | `Spec => []TypeOK` | inductive as it stands, from what merging does to a list of entries |
| `UserEntriesKeptHolds`, `InstalledOnceHolds`, `NothingLeftToDoHolds` | the three properties | `SetupInv`: a run that is to write holds what merging made of the file it read, and the user's entries in it are those the user left, unless the user raced it. That merging keeps them, installs one entry and changes nothing the second time is proved for lists of any length (`MergeSingle`, `Cleanup`, `MergingEvents`, `Merging`); that removing positions from the last to the first removes just them (`RemoveAllWorks`), by induction over the removals |
| `SessionWatchProofs!WatchTypeCorrect` | `Spec => []TypeOK` | inductive with `WatchInv`, below: the answer to a page's request finds it waiting |
| `OneConversationHolds` | `Spec => []OneConversation` | `WatchInv`: the requests of each viewer in the queue, in their order, leave it subscribed to one session at most, since a watch follows the unwatch of the one before, and a page watches what it has fetched. `ShowsInv`: a page that waits for nothing will show one session once its queue is empty |
| `SentInOrderHolds`, `OnlyTornLostHolds` | the two properties | `StreamInv` relates what was sent to offset and file: nothing sent ends behind the file, what was sent twice begins before the offset, from the offset on nothing is left out up to the last line sent, an offset inside a line is among the places where reads ended, and before the offset nothing is missing. `MoreSent` is one read's share of it, `ParsedLines` and `ReadFacts` say what a read returns |
| `TranscriptViewProofs!ViewTypeCorrect` | `Spec => []TypeOK` | inductive as it stands |
| `HistoryIsEndHolds` | `Spec => []HistoryIsEnd` | true of every transcript with these types: the tail is an interval of lines, filtering keeps it ascending (`KeepAscends`), so its last `limit` elements are the greatest ones, and there are as many of them as their sequence is long |
| `CutIsLongestHolds` | `Spec => []CutIsLongest` | the bytes of a prefix grow with it, and the loop that takes bytes off the end stops at the greatest character boundary up to the limit (`DownIs`). What a parser makes of an entry is texts (`ParsedContent`) |
| `ListedUnderLastIdHolds` | `Spec => []ListedUnderLastId` | `IdOf`, by induction over the lines: after `n` of them the id is that of the last entry among them that has one (`AfterStep`, `IdOfAll`); the tail is the end of the file and ascends (`StatusTailIs`), so no entry behind that one is missed (`IdIs`) |
| `OutputWholeHolds` | `Spec => []OutputWhole` | `Matched`, by induction over the blocks: the outputs in the html so far are those of the blocks so far, one each (`HtmlBlockIs`), and each is its visible and its hidden lines (`Split`), of which there are some (`LinesAre`) |
| `RelayChannelProofs!TypeCorrect` | `Spec => []TypeOK` | inductive as it stands |
| `LiveIsPeerHolds`, `OneConnectionPerKeyHolds` | membership is exact | inductive together with `CommandsAgree` (`MembershipInvariant`): a queued Disconnect belongs to a task that is gone, so removing by key removes only it |
| `WindowHolds` | `Spec => []BufferIsWindow` | each push keeps the window, for every `MaxBuffer` |
| `RelayImplementsLog` | `Spec => ImplementsLog` | every step maps to Join, Leave, Publish, Forget or a stutter, from the invariants above |
| `SyncCompleteHolds` | `Spec => []SyncComplete` | `SyncInv`: all that a device is owed is still buffered and has a higher number than the device's last one, when both are of one life of the channel; and the number in a waiting Sync is the device's last one, since a key has one connection and that one Sync at a time |

## 5. Only model-checked

- Liveness, which the prover does not reach (nor ENABLED): `Reregisters`,
  `DeadWrapperForgotten`, `PeersLeave`, `DroppedStreamEnds`, `ReportedIsRead`,
  `PromptSubmitted`, `HostFollowed`, `WatcherSeesScreen`.

All invariants that the runs check are theorems, and so are the refinements;
`NeedsInputJustified` under the condition that the table names.

Properties about sequences of any length are stated with quantifiers over
positions instead of folds (`SubscriberCurrent`, `PermissionsCurrent`,
`AcceptedInOrder`, `SentInOrder`, `OutputConserved`, `SnapshotThenStream`), and
`parse_lines` as an interval of lines, to be reasoned about. `SelectSeq` and
`FoldLeft` are recursive inside and opaque to the provers: the loops of
`TranscriptView` are recursive functions instead (`Keep`, `Bytes`), or
`FlattenSeq`, which is one. The induction theorems of the library cannot be used,
for they take an operator; where induction over data is needed (`HookSetup`,
`TranscriptView`), it is from the least counterexample, which exists because the
natural numbers are well-founded (`Least`), and the recursive functions it is
about have their equations proved first (in `TranscriptView`, by `Loop`).

Several properties name exceptions, which are losses the code has: a viewer whose
channel was full for its snapshot (`blind`), one that shares its session's offset
with another (`shared`) or whose session was removed (`forgotten`), a page with
two requests of one session (`crowded`) or with requests from before its
connection was closed (`stale`), a new subscriber with more requests pending than
fit (`untold`), a user's edit while the setup has the file read (`raced`), output
within 100 ms of the last look at the screen. The setup leaves a file alone that
has no object or no list to add hooks to ("other", `NotArray`), and takes what the
user has in an entry beside a command of agent-dash along with it
(`UserCommandsKept`). While a redraw is under way a size that is set is lost
(`settled` in `SizesSettle` and `HostFollowed`, `RedrawRestores`). Two of these were found by a proof, beyond the bounds of the runs there were. A suggestion that
was dropped at a full channel, or ignored by a daemon without the wrapper, is not
sent again while the screen shows the same (`overlooked`, `wrapper.rs:556`). And
when two formats are read and the last read ends inside a character, the offset
stays where it was although the other format's viewers were sent messages: they
get them again with every such file change (`again`, `daemon.rs:731`). The
hazards in `PROJECT.json` say where each is.

`PeersLeave` and `OneConnectionPerKey` begin where the relay's server sees a
connection end. It sends no ping and has no timeout: a peer that vanished without
a word is a member, and its key refused, until TCP gives up.

## 6. Not modelled

- `CreateSession` and headless start-up: the daemon starts a process that is
  then a wrapper like any other (`Headless` in `PtyControl` has its threads).
- Two daemons at a time (hazard at `client_listener.rs:137`): they share the path
  of a socket and no state.
- Read-only queries of `daemon.sock` (GetState, GetMessages there, ListSessions,
  ListDirectory): one request, one answer.
- Command line, agent profiles, relay server main: argument parsing, a static
  table, an accept loop.
- Encryption, pairing, QR codes, configuration and unit files; mark-up, icons,
  layout, keyboard, images; the text patterns by which a suggestion or a
  thinking text is recognised on the screen; what `updatedPermissions` holds.
- GNOME extension and Android app: to the daemon and the relay they are
  dashboards and devices, which are modelled; what is their own is user
  interface and cryptography. The app keeps a list of requests over its own
  reconnections and takes one off it as soon as it is answered
  (`MainViewModel.kt:60`, `:250`): behind the bridge, which starts over with its
  connection, this list is not modelled.
- A `ForceRedraw` that finds the wrapper's channel full (`daemon.rs:605`):
  `TermOutput` leaves out the capacity of that channel, `PtyControl` has it.
- The legacy daemon and hook scripts (`src/`, `hooks/` of the repository): outside
  the Cargo workspace, superseded.
