----------------------------- MODULE DaemonState -----------------------------
(***************************************************************************)
(* The session table of the daemon (state.rs) as operators on two maps:    *)
(*                                                                         *)
(*   ss   : session id -> session record, None where there is no entry;    *)
(*   pend : request id -> id of the session that asked, None if resolved.  *)
(*                                                                         *)
(* A request id is generated once per permission hook process, and a hook  *)
(* process serves one tool call, so a request is named by its tool call.   *)
(* Display data (project name, branch, cwd, texts, timestamps) is left     *)
(* out; has_pending_question is never set by the daemon.                   *)
(***************************************************************************)

CONSTANTS
    Wrappers,   \* session ids of `agent-dash run` processes (wrap-<pid>, web-<n>)
    Agents,     \* session ids that Claude gives itself and its subagents
    Tools,      \* tool calls, and the permission requests made for them
    None        \* the absent Option

SessionIds == Wrappers \cup Agents

Status == {"Idle", "Working", "NeedsInput"}

InternalSession ==
    [ status            : Status,
      active_tool       : Tools \cup {None},
      jsonl_path        : Agents \cup {None},
      is_main           : BOOLEAN,
      parent_wrapper_id : Wrappers \cup {None} ]

ASSUME IdsAreDisjoint == Wrappers \cap Agents = {}
ASSUME NoneIsNoValue == None \notin SessionIds \cup Tools \cup InternalSession

SessionTable == [SessionIds -> InternalSession \cup {None}]
PendingTable == [Tools -> SessionIds \cup {None}]

-----------------------------------------------------------------------------

NewSession ==
    [ status |-> "Idle", active_tool |-> None, jsonl_path |-> None,
      is_main |-> FALSE, parent_wrapper_id |-> None ]

EnsureSession(ss, s) ==
    IF ss[s] = None THEN [ss EXCEPT ![s] = NewSession] ELSE ss

SetStatus(ss, s, status) ==
    IF ss[s] = None THEN ss ELSE [ss EXCEPT ![s].status = status]

\* The wrapper under which session s is shown, if it has one.
ParentOf(ss, s) ==
    IF ss[s] = None THEN None ELSE ss[s].parent_wrapper_id

SetActiveTool(ss, s, tool) ==
    IF ss[s] = None THEN ss ELSE [ss EXCEPT ![s].active_tool = tool]

\* A hook event, as far as the session table is concerned. SessionEnd also
\* drops the pending requests of the session: RemoveRequests below.
ApplyHookEvent(ss, e) ==
    CASE e.type = "ToolStart" ->
            SetStatus(SetActiveTool(EnsureSession(ss, e.session), e.session, e.tool),
                      e.session, "Working")
      [] e.type = "ToolEnd" ->
            IF ss[e.session] # None /\ ss[e.session].active_tool = e.tool
            THEN SetActiveTool(ss, e.session, None)
            ELSE ss
      [] e.type = "Stop" ->
            SetStatus(SetActiveTool(ss, e.session, None), e.session, "Idle")
      [] e.type = "SessionStart" -> EnsureSession(ss, e.session)
      [] e.type = "SessionEnd"   -> [ss EXCEPT ![e.session] = None]

\* Mutant: one request is found instead of all.
RequestsOf_One(pend, S) ==
    LET all == {t \in Tools : pend[t] \in S}
    IN  IF all = {} THEN {} ELSE {CHOOSE t \in all : TRUE}

RequestsOf(pend, S) == {t \in Tools : pend[t] \in S}

RemoveRequests(pend, T) == [t \in Tools |-> IF t \in T THEN None ELSE pend[t]]

\* The statuses after a request of session s was added.
MarkNeedsInput(ss, s) ==
    LET own    == SetStatus(ss, s, "NeedsInput")
        parent == ParentOf(own, s)
    IN  IF parent = None THEN own ELSE SetStatus(own, parent, "NeedsInput")

ClearNeedsInput(ss, s) ==
    IF ss[s] # None /\ ss[s].status = "NeedsInput"
    THEN SetStatus(ss, s, "Idle")
    ELSE ss

\* Mutant: the parent wrapper's NeedsInput is forgotten.
StatusAfterResolve_OwnOnly(ss, pend, s) ==
    IF RequestsOf(pend, {s}) # {} THEN ss ELSE ClearNeedsInput(ss, s)

\* The statuses after requests of session s were removed and pend is left:
\* the last one to go takes NeedsInput off the session and off its parent.
StatusAfterResolve(ss, pend, s) ==
    LET own    == ClearNeedsInput(ss, s)
        parent == ParentOf(own, s)
    IN  IF RequestsOf(pend, {s}) # {} THEN ss
        ELSE IF parent = None THEN own
        ELSE ClearNeedsInput(own, parent)

\* A wrapper together with the sessions linked to it.
Family(ss, w) == {s \in SessionIds : ss[s] # None /\ (s = w \/ ParentOf(ss, s) = w)}

RemoveSessions(ss, S) == [s \in SessionIds |-> IF s \in S THEN None ELSE ss[s]]

\* The requests a dashboard shows on session s: its own and its children's.
InputReasonOf(ss, pend, s) ==
    {t \in Tools : pend[t] # None /\ (pend[t] = s \/ ParentOf(ss, pend[t]) = s)}

\* What dashboards and state.json are given: the main sessions.
DashSessions(ss, pend) ==
    [s \in {m \in SessionIds : ss[m] # None /\ ss[m].is_main} |->
        [ status       |-> ss[s].status,
          active_tool  |-> ss[s].active_tool,
          jsonl_path   |-> ss[s].jsonl_path,
          input_reason |-> InputReasonOf(ss, pend, s),
          subagents    |-> {c \in SessionIds : ParentOf(ss, c) = s} ]]

=============================================================================
