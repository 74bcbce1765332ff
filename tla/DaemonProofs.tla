---------------------------- MODULE DaemonProofs -----------------------------
(***************************************************************************)
(* Theorems about the daemon, for any number of wrappers, sessions, tool   *)
(* calls and connections and any capacities.                               *)
(***************************************************************************)
EXTENDS Daemon, SequenceTheorems, FiniteSetTheorems, TLAPS

-----------------------------------------------------------------------------
(* The session table: every operator of state.rs keeps it a session table. *)

\* Changing one field of a session gives a session.
LEMMA SessionUpdates ==
    ASSUME NEW r \in InternalSession
    PROVE  /\ \A x \in Status : [r EXCEPT !.status = x] \in InternalSession
           /\ \A x \in Tools \cup {None} : [r EXCEPT !.active_tool = x] \in InternalSession
           /\ \A x \in Agents \cup {None} : [r EXCEPT !.jsonl_path = x] \in InternalSession
           /\ [r EXCEPT !.is_main = TRUE] \in InternalSession
           /\ \A x \in Wrappers \cup {None} :
                  [r EXCEPT !.parent_wrapper_id = x] \in InternalSession
  BY DEF InternalSession

\* A fresh session is a session.
LEMMA NewSessionType == NewSession \in InternalSession
  BY DEF NewSession, InternalSession, Status

\* ensure_session leaves a table that has the session.
LEMMA EnsureSessionType ==
    ASSUME NEW ss \in SessionTable, NEW s \in SessionIds
    PROVE  EnsureSession(ss, s) \in SessionTable /\ EnsureSession(ss, s)[s] \in InternalSession
  <1>1. NewSession \in InternalSession
    BY NewSessionType
  <1> QED
    BY <1>1 DEF EnsureSession, SessionTable

\* Replacing the entry of a session that is there.
LEMMA UpdateEntry ==
    ASSUME NEW ss \in SessionTable, NEW s, NEW r \in InternalSession
    PROVE  [ss EXCEPT ![s] = r] \in SessionTable
  BY DEF SessionTable

\* set_status keeps the table a session table.
LEMMA SetStatusType ==
    ASSUME NEW ss \in SessionTable, NEW s \in SessionIds, NEW x \in Status
    PROVE  SetStatus(ss, s, x) \in SessionTable
  <1>1. CASE ss[s] = None
    BY <1>1 DEF SetStatus
  <1>2. CASE ss[s] # None
    <2>1. PICK r \in InternalSession : r = ss[s]
      BY <1>2 DEF SessionTable
    <2>2. SetStatus(ss, s, x) = [ss EXCEPT ![s] = [r EXCEPT !.status = x]]
      BY <1>2, <2>1, Zenon DEF SetStatus
    <2>3. PICK q \in InternalSession : q = [r EXCEPT !.status = x]
      BY SessionUpdates
    <2>4. [ss EXCEPT ![s] = q] \in SessionTable
      BY UpdateEntry
    <2> QED
      BY <2>2, <2>3, <2>4
  <1> QED
    BY <1>1, <1>2

\* So does setting or clearing the active tool.
LEMMA SetActiveToolType ==
    ASSUME NEW ss \in SessionTable, NEW s \in SessionIds, NEW x \in Tools \cup {None}
    PROVE  SetActiveTool(ss, s, x) \in SessionTable
  <1>1. CASE ss[s] = None
    BY <1>1 DEF SetActiveTool
  <1>2. CASE ss[s] # None
    <2>1. PICK r \in InternalSession : r = ss[s]
      BY <1>2 DEF SessionTable
    <2>2. SetActiveTool(ss, s, x) = [ss EXCEPT ![s] = [r EXCEPT !.active_tool = x]]
      BY <1>2, <2>1, Zenon DEF SetActiveTool
    <2>3. PICK q \in InternalSession : q = [r EXCEPT !.active_tool = x]
      BY SessionUpdates
    <2>4. [ss EXCEPT ![s] = q] \in SessionTable
      BY UpdateEntry
    <2> QED
      BY <2>2, <2>3, <2>4
  <1> QED
    BY <1>1, <1>2

\* The parent of a session is a wrapper, if there is one.
LEMMA ParentOfType ==
    ASSUME NEW ss \in SessionTable, NEW s \in SessionIds
    PROVE  ParentOf(ss, s) \in Wrappers \cup {None}
  BY DEF ParentOf, SessionTable, InternalSession

\* Removing sessions leaves a session table.
LEMMA RemoveSessionsType ==
    ASSUME NEW ss \in SessionTable, NEW S
    PROVE  RemoveSessions(ss, S) \in SessionTable
  BY DEF RemoveSessions, SessionTable

\* Removing requests leaves a table of requests.
LEMMA RemoveRequestsType ==
    ASSUME NEW pend \in PendingTable, NEW T
    PROVE  RemoveRequests(pend, T) \in PendingTable
  BY DEF RemoveRequests, PendingTable

\* Taking NeedsInput off a session leaves a session table.
LEMMA ClearNeedsInputType ==
    ASSUME NEW ss \in SessionTable, NEW s \in SessionIds
    PROVE  ClearNeedsInput(ss, s) \in SessionTable
  BY SetStatusType DEF ClearNeedsInput, Status

\* add_permission_request leaves a session table, its parent's entry included.
LEMMA MarkNeedsInputType ==
    ASSUME NEW ss \in SessionTable, NEW s \in SessionIds
    PROVE  MarkNeedsInput(ss, s) \in SessionTable
  <1> DEFINE own == SetStatus(ss, s, "NeedsInput")
             parent == ParentOf(own, s)
  <1>1. "NeedsInput" \in Status
    BY DEF Status
  <1>2. own \in SessionTable
    BY <1>1, SetStatusType
  <1> HIDE DEF own
  <1>3. parent = None \/ parent \in SessionIds
    BY <1>2, ParentOfType DEF SessionIds
  <1> HIDE DEF parent
  <1>4. CASE parent = None
    BY <1>2, <1>4 DEF MarkNeedsInput, own, parent
  <1>5. CASE parent # None
    <2>1. SetStatus(own, parent, "NeedsInput") \in SessionTable
      BY <1>1, <1>2, <1>3, <1>5, SetStatusType
    <2> QED
      BY <1>5, <2>1 DEF MarkNeedsInput, own, parent
  <1> QED
    BY <1>4, <1>5

\* resolve_permission leaves a session table, its parent's entry included.
LEMMA StatusAfterResolveType ==
    ASSUME NEW ss \in SessionTable, NEW pend, NEW s \in SessionIds
    PROVE  StatusAfterResolve(ss, pend, s) \in SessionTable
  <1> DEFINE own == ClearNeedsInput(ss, s)
             parent == ParentOf(own, s)
  <1>1. own \in SessionTable
    BY ClearNeedsInputType
  <1> HIDE DEF own
  <1>2. parent = None \/ parent \in SessionIds
    BY <1>1, ParentOfType DEF SessionIds
  <1> HIDE DEF parent
  <1>3. parent # None => ClearNeedsInput(own, parent) \in SessionTable
    BY <1>1, <1>2, ClearNeedsInputType
  <1>4. \/ StatusAfterResolve(ss, pend, s) = ss
        \/ StatusAfterResolve(ss, pend, s) = own
        \/ parent # None /\ StatusAfterResolve(ss, pend, s) = ClearNeedsInput(own, parent)
    BY DEF StatusAfterResolve, own, parent
  <1> QED
    BY <1>1, <1>3, <1>4

\* The fields of a hook envelope: its session is Claude's, its wrapper is optional.
LEMMA HookEnvelopeType ==
    ASSUME NEW e \in HookEnvelope
    PROVE  /\ e.type \in {"ToolStart", "ToolEnd", "Stop", "SessionStart", "SessionEnd"}
           /\ e.session \in Agents /\ e.session \in SessionIds
           /\ e.tool \in Tools \cup {None}
           /\ e.wrapper \in Wrappers \cup {None}
           /\ e.wrapper # None => e.wrapper \in SessionIds
  BY DEF HookEnvelope, SessionIds

\* apply_hook_event leaves a session table, for each of the five events.
LEMMA ApplyHookEventType ==
    ASSUME NEW ss \in SessionTable, NEW e \in HookEnvelope
    PROVE  ApplyHookEvent(ss, e) \in SessionTable
  <1>1. e.session \in SessionIds /\ e.tool \in Tools \cup {None}
    BY HookEnvelopeType
  <1>2. "Working" \in Status /\ "Idle" \in Status /\ None \in Tools \cup {None}
    BY DEF Status
  <1>3. CASE e.type = "ToolStart"
    <2>1. EnsureSession(ss, e.session) \in SessionTable
      BY <1>1, EnsureSessionType
    <2>2. SetActiveTool(EnsureSession(ss, e.session), e.session, e.tool) \in SessionTable
      BY <1>1, <2>1, SetActiveToolType
    <2>3. SetStatus(SetActiveTool(EnsureSession(ss, e.session), e.session, e.tool),
                    e.session, "Working") \in SessionTable
      BY <1>1, <1>2, <2>2, SetStatusType
    <2> QED
      BY <1>3, <2>3 DEF ApplyHookEvent
  <1>4. CASE e.type = "ToolEnd"
    <2>1. SetActiveTool(ss, e.session, None) \in SessionTable
      BY <1>1, <1>2, SetActiveToolType
    <2> QED
      BY <1>4, <2>1 DEF ApplyHookEvent
  <1>5. CASE e.type = "Stop"
    <2>1. SetActiveTool(ss, e.session, None) \in SessionTable
      BY <1>1, <1>2, SetActiveToolType
    <2>2. SetStatus(SetActiveTool(ss, e.session, None), e.session, "Idle") \in SessionTable
      BY <1>1, <1>2, <2>1, SetStatusType
    <2> QED
      BY <1>5, <2>2 DEF ApplyHookEvent
  <1>6. CASE e.type = "SessionStart"
    BY <1>1, <1>6, EnsureSessionType DEF ApplyHookEvent
  <1>7. CASE e.type = "SessionEnd"
    <2>1. [ss EXCEPT ![e.session] = None] \in SessionTable
      BY DEF SessionTable
    <2> QED
      BY <1>7, <2>1 DEF ApplyHookEvent
  <1> QED
    BY <1>3, <1>4, <1>5, <1>6, <1>7, HookEnvelopeType

\* Linking a session to its wrapper leaves a session table.
LEMMA LinkToWrapperType ==
    ASSUME NEW ss \in SessionTable, NEW e \in HookEnvelope
    PROVE  LinkToWrapper(ss, e) \in SessionTable
  <1> DEFINE known == EnsureSession(ss, e.session)
  <1>1. e.session \in SessionIds /\ e.wrapper \in Wrappers \cup {None}
    BY HookEnvelopeType
  <1>2. PICK r \in InternalSession : r = known[e.session]
    BY <1>1, EnsureSessionType
  <1>3. known \in SessionTable
    BY <1>1, EnsureSessionType
  <1>4. [known EXCEPT ![e.session] = [r EXCEPT !.parent_wrapper_id = e.wrapper]]
            \in SessionTable
    <2> HIDE DEF known
    <2> QED
      BY <1>1, <1>2, <1>3, SessionUpdates, UpdateEntry
  <1>5. \/ LinkToWrapper(ss, e) = ss
        \/ LinkToWrapper(ss, e) = known
        \/ LinkToWrapper(ss, e) = [known EXCEPT ![e.session] =
                                      [r EXCEPT !.parent_wrapper_id = e.wrapper]]
    BY <1>2, Zenon DEF LinkToWrapper
  <1> HIDE DEF known
  <1> QED
    BY <1>3, <1>4, <1>5

\* Recording a transcript leaves a session table.
LEMMA SetJsonlPathType ==
    ASSUME NEW ss \in SessionTable, NEW e \in HookEnvelope
    PROVE  SetJsonlPath(ss, e) \in SessionTable
  <1>1. e.session \in Agents
    BY HookEnvelopeType
  <1>2. ASSUME NEW i \in SessionIds, ss[i] # None
        PROVE  [ss[i] EXCEPT !.jsonl_path = e.session] \in InternalSession
    <2>1. PICK r \in InternalSession : r = ss[i]
      BY <1>2 DEF SessionTable
    <2> QED
      BY <1>1, <2>1, SessionUpdates
  <1> QED
    BY <1>2 DEF SetJsonlPath, SessionTable

-----------------------------------------------------------------------------
(* The channels into the loop.                                             *)

\* What the loop finds in a client message of each type.
LEMMA ClientMessageTypes ==
    ASSUME NEW m \in ClientMessage
    PROVE  /\ m.type \in {"PermissionRequest", "PermissionResponse", "RegisterWrapper",
                         "UnregisterWrapper", "SendPrompt"}
           /\ m.type \in {"PermissionRequest", "PermissionResponse"} => m.tool \in Tools
           /\ m.type = "PermissionResponse" => m.decision \in Decisions
           /\ m.type = "RegisterWrapper" => m.conn \in Conns
           /\ m.type = "UnregisterWrapper" => m.wrapper \in Wrappers
           /\ m.type = "SendPrompt" => m.session \in PromptTargets
  BY DEF ClientMessage

\* The messages that tasks send are client messages.
LEMMA MessagesAreTyped ==
    /\ \A t \in Tools : [type |-> "PermissionRequest", tool |-> t] \in ClientMessage
    /\ \A t \in Tools, d \in Decisions :
           [type |-> "PermissionResponse", tool |-> t, decision |-> d] \in ClientMessage
    /\ \A c \in Conns : [type |-> "RegisterWrapper", conn |-> c] \in ClientMessage
    /\ \A w \in Wrappers : [type |-> "UnregisterWrapper", wrapper |-> w] \in ClientMessage
    /\ \A x \in PromptTargets : [type |-> "SendPrompt", session |-> x] \in ClientMessage
  BY DEF ClientMessage

\* The client channel before and after the loop has taken its head.
LEMMA ClientRxPopped ==
    ASSUME TypeOK, NEW type, Receive(type)
    PROVE  /\ Head(client_rx) \in ClientMessage
           /\ Head(client_rx).type = type
           /\ Head(client_rx) = client_rx[1]
           /\ Len(client_rx) \in Nat /\ 1 \in 1..Len(client_rx)
           /\ client_rx' \in Seq(ClientMessage)
           /\ Len(client_rx') = Len(client_rx) - 1
           /\ Len(client_rx') <= QueueCap
           /\ \A i \in 1..Len(client_rx') :
                  i + 1 \in 1..Len(client_rx) /\ client_rx'[i] = client_rx[i + 1]
  <1>1. client_rx \in Seq(ClientMessage) /\ client_rx # <<>> /\ client_rx' = Tail(client_rx)
    BY DEF TypeOK, Receive
  <1>2. Len(client_rx) \in Nat /\ Len(client_rx) # 0 /\ Len(client_rx) <= QueueCap
    BY <1>1, LenProperties, EmptySeq DEF TypeOK
  <1>3. /\ Head(client_rx) \in ClientMessage
        /\ Head(client_rx) = client_rx[1]
        /\ Tail(client_rx) \in Seq(ClientMessage)
        /\ Len(Tail(client_rx)) = Len(client_rx) - 1
        /\ \A i \in 1..Len(Tail(client_rx)) : Tail(client_rx)[i] = client_rx[i + 1]
    BY <1>1, HeadTailProperties
  <1>4. Head(client_rx).type = type
    BY DEF Receive
  <1> QED
    BY <1>1, <1>2, <1>3, <1>4, CapsArePositive

\* ... and after a task has put a message at its end.
LEMMA ClientRxPushed ==
    ASSUME TypeOK, NEW m \in ClientMessage, Enqueue(m)
    PROVE  /\ Len(client_rx) \in Nat
           /\ client_rx' \in Seq(ClientMessage)
           /\ Len(client_rx') = Len(client_rx) + 1
           /\ Len(client_rx') <= QueueCap
           /\ client_rx'[Len(client_rx) + 1] = m
           /\ \A i \in 1..Len(client_rx) : client_rx'[i] = client_rx[i]
  <1>1. client_rx \in Seq(ClientMessage) /\ client_rx' = Append(client_rx, m)
    BY DEF TypeOK, Enqueue
  <1>2. Len(client_rx) \in Nat /\ Len(client_rx) < QueueCap
    BY <1>1, LenProperties DEF Enqueue
  <1> QED
    BY <1>1, <1>2, AppendProperties, CapsArePositive

\* Whether state.json is current is a truth value.
LEMMA TrackFileType == TrackFile => file_fresh' \in BOOLEAN
  BY DEF TrackFile

-----------------------------------------------------------------------------
(* Type correctness, one lemma per handler or process.                     *)

\* The daemon starts well typed.
LEMMA TypeInit == Init => TypeOK
  <1> SUFFICES ASSUME Init PROVE TypeOK
    OBVIOUS
  <1>1. sessions \in SessionTable /\ pending \in PendingTable
    BY DEF Init, NoSessions, NoRequests, SessionTable, PendingTable
  <1>2. client_rx \in Seq(ClientMessage) /\ Len(client_rx) <= QueueCap
    BY EmptySeq, CapsArePositive DEF Init
  <1>3. conn \in [Conns -> Connection] /\ outbox \in [Conns -> 0..OutboxCap]
    BY CapsArePositive DEF Init, Connection
  <1>4. wrapper_channels \in [SessionIds -> Conns \cup {None}]
    BY DEF Init, NoChannels
  <1>5. crashes \in 0..MaxCrashes /\ starts \in [Agents -> 0..MaxStarts]
    BY BoundsAreNumbers DEF Init
  <1> QED
    BY <1>1, <1>2, <1>3, <1>4, <1>5 DEF Init, TypeOK

\* Handling a hook event keeps every variable in its type.
LEMMA TypeHandleHookEvent ==
    ASSUME TypeOK, NEW e, HandleHookEvent(e) PROVE TypeOK'
  <1>1. e \in HookEnvelope
    BY DEF TypeOK, HandleHookEvent
  <1>2. /\ e.session \in SessionIds
        /\ e.wrapper # None => e.wrapper \in SessionIds
    BY <1>1, HookEnvelopeType
  <1>3. wrapper_channels' \in [SessionIds -> Conns \cup {None}]
    BY <1>2 DEF HandleHookEvent, AliasChannel, TypeOK
  <1>4. sessions' \in SessionTable
    <2>1. LinkToWrapper(sessions, e) \in SessionTable
      BY <1>1, LinkToWrapperType DEF TypeOK
    <2>2. \A pend : StatusAfterResolve(LinkToWrapper(sessions, e), pend, e.session)
                       \in SessionTable
      BY <1>2, <2>1, StatusAfterResolveType
    <2>3. PICK ss \in SessionTable :
              sessions' = ApplyHookEvent(ss, e)
              \/ sessions' = SetJsonlPath(ApplyHookEvent(ss, e), e)
      BY <2>1, <2>2 DEF HandleHookEvent
    <2>4. ApplyHookEvent(ss, e) \in SessionTable
      BY <1>1, ApplyHookEventType
    <2> QED
      BY <1>1, <2>3, <2>4, SetJsonlPathType
  <1>5. pending' \in PendingTable
    BY RemoveRequestsType DEF HandleHookEvent, TypeOK
  <1>6. permission_waiters' \in SUBSET Tools /\ automatic' \in SUBSET Tools
    BY DEF HandleHookEvent, TypeOK, RequestsOf
  <1>7. reply' \in [Tools -> Decisions \cup {None}]
    BY DEF HandleHookEvent, TypeOK, Decisions
  <1>8. hook_rx' \in SUBSET HookEnvelope /\ state_dirty' \in BOOLEAN
    BY DEF HandleHookEvent, TypeOK
  <1>9. file_fresh' \in BOOLEAN
    BY TrackFileType DEF HandleHookEvent
  <1>10. UNCHANGED <<up, crashes, client_rx, request_task, conn, outbox, bye, hook,
                     wrapVars, claudeVars, shown, answered>>
    BY DEF HandleHookEvent
  <1> QED
    BY <1>3, <1>4, <1>5, <1>6, <1>7, <1>8, <1>9, <1>10 DEF TypeOK, wrapVars, claudeVars

\* What every client handler leaves alone.
LEMMA ReceiveKeeps ==
    ASSUME TypeOK, NEW type, Receive(type)
    PROVE  /\ up' \in BOOLEAN /\ crashes' \in 0..MaxCrashes
           /\ hook_rx' \in SUBSET HookEnvelope
           /\ client_rx' \in Seq(ClientMessage) /\ Len(client_rx') <= QueueCap
           /\ request_task' \in [Tools -> {"none", "reading", "awaiting"}]
           /\ conn' \in [Conns -> Connection]
           /\ bye' \in SUBSET Wrappers
           /\ hook' \in [Tools -> {"none", "waiting", "allow", "deny", "silent"}]
           /\ UNCHANGED <<wrapVars, claudeVars>>
  <1>1. client_rx' \in Seq(ClientMessage) /\ Len(client_rx') <= QueueCap
    BY ClientRxPopped
  <1> QED
    BY <1>1 DEF Receive, TypeOK

\* So does handling a permission request,
LEMMA TypeHandlePermissionRequest == TypeOK /\ HandlePermissionRequest => TypeOK'
  <1> SUFFICES ASSUME TypeOK, HandlePermissionRequest PROVE TypeOK'
    OBVIOUS
  <1> DEFINE t == Head(client_rx).tool
  <1>1. Receive("PermissionRequest")
    BY DEF HandlePermissionRequest
  <1>2. t \in Tools /\ AgentOf[t] \in SessionIds
    <2>1. t \in Tools
      BY <1>1, ClientRxPopped, ClientMessageTypes
    <2> QED
      BY <2>1, AgentOfType DEF SessionIds
  <1>3. pending' \in PendingTable
    BY <1>2 DEF HandlePermissionRequest, TypeOK, PendingTable
  <1>4. sessions' \in SessionTable
    BY <1>2, MarkNeedsInputType DEF HandlePermissionRequest, TypeOK
  <1>5. permission_waiters' \in SUBSET Tools /\ shown' \in SUBSET Tools
    BY <1>2 DEF HandlePermissionRequest, TypeOK
  <1>6. state_dirty' \in BOOLEAN /\ file_fresh' \in BOOLEAN
    BY TrackFileType DEF HandlePermissionRequest
  <1>7. UNCHANGED <<wrapper_channels, outbox, reply, answered, automatic>>
    BY DEF HandlePermissionRequest
  <1> QED
    BY <1>1, <1>3, <1>4, <1>5, <1>6, <1>7, ReceiveKeeps DEF TypeOK, wrapVars, claudeVars

\* ... the answer to one, whether or not it is still pending,
LEMMA TypeHandlePermissionResponse == TypeOK /\ HandlePermissionResponse => TypeOK'
  <1> SUFFICES ASSUME TypeOK, HandlePermissionResponse PROVE TypeOK'
    OBVIOUS
  <1> DEFINE t == Head(client_rx).tool
  <1>1. Receive("PermissionResponse")
    BY DEF HandlePermissionResponse
  <1>2. t \in Tools /\ Head(client_rx).decision \in Decisions
    BY <1>1, ClientRxPopped, ClientMessageTypes
  <1>3. pending' \in PendingTable
    BY RemoveRequestsType DEF HandlePermissionResponse, TypeOK
  <1>4. sessions' \in SessionTable
    <2>1. pending[t] # None => pending[t] \in SessionIds
      BY <1>2 DEF TypeOK, PendingTable
    <2> QED
      BY <2>1, StatusAfterResolveType DEF HandlePermissionResponse, TypeOK
  <1>5. permission_waiters' \in SUBSET Tools
    BY DEF HandlePermissionResponse, TypeOK
  <1>6. reply' \in [Tools -> Decisions \cup {None}]
    BY <1>2 DEF HandlePermissionResponse, TypeOK
  <1>7. state_dirty' \in BOOLEAN /\ file_fresh' \in BOOLEAN
    <2>1. state_dirty \in BOOLEAN /\ file_fresh \in BOOLEAN
      BY DEF TypeOK
    <2> QED
      BY <2>1, TrackFileType DEF HandlePermissionResponse
  <1>8. UNCHANGED <<wrapper_channels, outbox, ghosts>>
    BY DEF HandlePermissionResponse
  <1> QED
    BY <1>1, <1>3, <1>4, <1>5, <1>6, <1>7, <1>8, ReceiveKeeps, ZenonT(60)
       DEF TypeOK, wrapVars, claudeVars, ghosts

\* Types alone are not inductive: a registration must come from a connection
\* that a wrapper opened.
ConnsOwned ==
    /\ \A c \in Conns : conn[c].task # "unused" => conn[c].wrapper # None
    /\ \A i \in 1..Len(client_rx) : client_rx[i].type = "RegisterWrapper" =>
           conn[client_rx[i].conn].task # "unused"

TypeInv == TypeOK /\ ConnsOwned

\* A connection that is in use has an owner.
LEMMA OwnerType ==
    ASSUME TypeInv, NEW c \in Conns, conn[c].task # "unused"
    PROVE  conn[c].wrapper \in Wrappers /\ conn[c].wrapper \in SessionIds
  <1>1. conn[c] \in Connection /\ conn[c].wrapper # None
    BY DEF TypeInv, TypeOK, ConnsOwned
  <1> QED
    BY <1>1 DEF Connection, SessionIds

\* ... the registration of a wrapper, given that its connection has an owner,
LEMMA TypeHandleRegisterWrapper == TypeInv /\ HandleRegisterWrapper => TypeOK'
  <1> SUFFICES ASSUME TypeInv, HandleRegisterWrapper PROVE TypeOK'
    OBVIOUS
  <1> USE DEF TypeInv
  <1> DEFINE c == Head(client_rx).conn
             w == conn[c].wrapper
  <1>1. Receive("RegisterWrapper")
    BY DEF HandleRegisterWrapper
  <1>2. c \in Conns
    BY <1>1, ClientRxPopped, ClientMessageTypes
  <1>3. w \in SessionIds
    <2>1. conn[c].task # "unused"
      BY <1>1, ClientRxPopped DEF ConnsOwned
    <2> QED
      BY <1>2, <2>1, OwnerType
  <1>4. sessions' \in SessionTable
    <2>1. PICK ss \in SessionTable : ss = EnsureSession(sessions, w) /\ ss[w] \in InternalSession
      BY <1>3, EnsureSessionType DEF TypeOK
    <2>2. PICK r \in InternalSession : r = [ss[w] EXCEPT !.is_main = TRUE]
      BY <2>1, SessionUpdates
    <2>3. sessions' = [ss EXCEPT ![w] = r]
      BY <2>1, <2>2, Zenon DEF HandleRegisterWrapper
    <2> QED
      BY <2>3, UpdateEntry
  <1>5. wrapper_channels' \in [SessionIds -> Conns \cup {None}]
    BY <1>2 DEF HandleRegisterWrapper, TypeOK
  <1>6. state_dirty' \in BOOLEAN /\ file_fresh' \in BOOLEAN
    BY TrackFileType DEF HandleRegisterWrapper
  <1>7. UNCHANGED <<pending, permission_waiters, outbox, reply, ghosts>>
    BY DEF HandleRegisterWrapper
  <1> QED
    BY <1>1, <1>4, <1>5, <1>6, <1>7, ReceiveKeeps DEF TypeOK, wrapVars, claudeVars, ghosts

\* ... the removal of one with its family,
LEMMA TypeHandleUnregisterWrapper == TypeOK /\ HandleUnregisterWrapper => TypeOK'
  <1> SUFFICES ASSUME TypeOK, HandleUnregisterWrapper PROVE TypeOK'
    OBVIOUS
  <1>1. Receive("UnregisterWrapper")
    BY DEF HandleUnregisterWrapper
  <1>2. sessions' \in SessionTable /\ pending' \in PendingTable
    BY RemoveSessionsType, RemoveRequestsType DEF HandleUnregisterWrapper, TypeOK
  <1>3. wrapper_channels' \in [SessionIds -> Conns \cup {None}]
    BY DEF HandleUnregisterWrapper, TypeOK
  <1>4. state_dirty' \in BOOLEAN /\ file_fresh' \in BOOLEAN
    BY TrackFileType DEF HandleUnregisterWrapper
  <1>5. UNCHANGED <<permission_waiters, outbox, reply, ghosts>>
    BY DEF HandleUnregisterWrapper
  <1> QED
    BY <1>1, <1>2, <1>3, <1>4, <1>5, ReceiveKeeps DEF TypeOK, wrapVars, claudeVars, ghosts

\* ... and a prompt, which goes into a wrapper's channel only if there is room.
LEMMA TypeHandleSendPrompt == TypeOK /\ HandleSendPrompt => TypeOK'
  <1> SUFFICES ASSUME TypeOK, HandleSendPrompt PROVE TypeOK'
    OBVIOUS
  <1> DEFINE x == Head(client_rx).session
             c == ResolveChannel(x)
  <1>1. Receive("SendPrompt")
    BY DEF HandleSendPrompt
  <1>2. x \in SessionIds
    BY <1>1, ClientRxPopped, ClientMessageTypes, PromptTargetsType
  <1>3. sessions' \in SessionTable
    <2>1. "Working" \in Status
      BY DEF Status
    <2> QED
      BY <1>2, <2>1, SetStatusType DEF HandleSendPrompt, TypeOK
  <1>4. outbox' \in [Conns -> 0..OutboxCap]
    <2>1. \/ outbox' = outbox
          \/ HasRoom(c) /\ outbox' = [outbox EXCEPT ![c] = @ + 1]
      BY DEF HandleSendPrompt
    <2> HIDE DEF c
    <2>2. CASE HasRoom(c) /\ c \in Conns /\ outbox' = [outbox EXCEPT ![c] = @ + 1]
      <3>1. outbox[c] + 1 \in 0..OutboxCap
        BY <2>2, CapsArePositive DEF HasRoom, TypeOK
      <3> QED
        BY <2>2, <3>1 DEF TypeOK
    <2>3. CASE c \notin Conns /\ outbox' = [outbox EXCEPT ![c] = @ + 1]
      BY <2>3 DEF TypeOK
    <2> QED
      BY <2>1, <2>2, <2>3 DEF TypeOK
  <1>5. file_fresh' \in BOOLEAN
    BY TrackFileType DEF HandleSendPrompt
  <1>6. UNCHANGED <<pending, permission_waiters, wrapper_channels, state_dirty, reply, ghosts>>
    BY DEF HandleSendPrompt
  <1> QED
    BY <1>1, <1>3, <1>4, <1>5, <1>6, ReceiveKeeps, ZenonT(60)
       DEF TypeOK, wrapVars, claudeVars, ghosts

\* The tick that writes state.json keeps the types.
LEMMA TypeWriteStateFile == TypeOK /\ WriteStateFile => TypeOK'
  <1> SUFFICES ASSUME TypeOK, WriteStateFile PROVE TypeOK'
    OBVIOUS
  <1>1. state_dirty' \in BOOLEAN /\ file_fresh' \in BOOLEAN
    BY DEF WriteStateFile
  <1>2. UNCHANGED <<up, crashes, sessions, pending, permission_waiters, wrapper_channels,
                    hook_rx, client_rx, request_task, conn, outbox, bye, hook, reply,
                    wrapper, listener, link, agent, env, phase, starts,
                    shown, answered, automatic>>
    BY DEF WriteStateFile, wrapVars, claudeVars, ghosts
  <1> QED
    BY <1>1, <1>2 DEF TypeOK

-----------------------------------------------------------------------------
(* Who owns a connection.                                                  *)

\* No step un-opens a connection or takes its owner away, and a registration is
\* sent by the task of an open one: that keeps ConnsOwned.
LEMMA OwnedPopped ==
    ASSUME TypeInv, NEW type, Receive(type) PROVE ConnsOwned'
  <1>1. conn' = conn
    BY DEF Receive
  <1>2. \A i \in 1..Len(client_rx') :
            i + 1 \in 1..Len(client_rx) /\ client_rx'[i] = client_rx[i + 1]
    BY ClientRxPopped DEF TypeInv
  <1> QED
    BY <1>1, <1>2 DEF TypeInv, ConnsOwned

\* A message is queued.
LEMMA OwnedPushed ==
    ASSUME TypeInv, NEW m \in ClientMessage, Enqueue(m),
           m.type = "RegisterWrapper" => conn'[m.conn].task # "unused",
           \A c \in Conns : conn'[c].task # "unused" => conn'[c].wrapper # None,
           \A c \in Conns : conn[c].task # "unused" => conn'[c].task # "unused"
    PROVE  ConnsOwned'
  <1>1. ASSUME NEW i \in 1..Len(client_rx'), client_rx'[i].type = "RegisterWrapper"
        PROVE  conn'[client_rx'[i].conn].task # "unused"
    <2>1. CASE i = Len(client_rx) + 1
      BY <1>1, <2>1, ClientRxPushed DEF TypeInv
    <2>2. CASE i \in 1..Len(client_rx)
      <3>1. client_rx'[i] = client_rx[i] /\ client_rx[i] \in ClientMessage
        BY <2>2, ClientRxPushed DEF TypeInv, TypeOK
      <3> QED
        BY <1>1, <2>2, <3>1, ClientMessageTypes DEF TypeInv, ConnsOwned
    <2> QED
      BY <2>1, <2>2, ClientRxPushed DEF TypeInv
  <1> QED
    BY <1>1 DEF ConnsOwned

\* The queue is left alone.
LEMMA OwnedKept ==
    ASSUME TypeInv, client_rx' = client_rx,
           \A c \in Conns : conn'[c].task # "unused" => conn'[c].wrapper # None,
           \A c \in Conns : conn[c].task # "unused" => conn'[c].task # "unused"
    PROVE  ConnsOwned'
  <1>1. ASSUME NEW i \in 1..Len(client_rx), client_rx[i].type = "RegisterWrapper"
        PROVE  conn'[client_rx[i].conn].task # "unused"
    <2>1. client_rx[i] \in ClientMessage
      BY DEF TypeInv, TypeOK
    <2> QED
      BY <1>1, <2>1, ClientMessageTypes DEF TypeInv, ConnsOwned
  <1> QED
    BY <1>1 DEF ConnsOwned

-----------------------------------------------------------------------------
(* Tasks, processes and failures keep the types.                           *)

\* A permission hook's task queues its request within the channel's capacity.
LEMMA TypeTaskRequest ==
    ASSUME TypeInv, NEW t \in Tools, TaskRequest(t) PROVE TypeInv'
  <1> DEFINE m == [type |-> "PermissionRequest", tool |-> t]
  <1>1. m \in ClientMessage /\ Enqueue(m) /\ m.type # "RegisterWrapper"
    BY MessagesAreTyped DEF TaskRequest
  <1> HIDE DEF m
  <1>2. client_rx' \in Seq(ClientMessage) /\ Len(client_rx') <= QueueCap
    BY <1>1, ClientRxPushed DEF TypeInv
  <1>3. TypeOK'
    BY <1>2 DEF TypeInv, TypeOK, TaskRequest, loopVars, wrapVars, claudeVars, ghosts
  <1>4. conn' = conn
    BY DEF TaskRequest
  <1>5. ConnsOwned'
    BY <1>1, <1>4, OwnedPushed DEF TypeInv, ConnsOwned
  <1> QED
    BY <1>3, <1>5 DEF TypeInv

\* A wrapper's task queues the registration and serves its connection.
LEMMA TypeTaskRegister ==
    ASSUME TypeInv, NEW c \in Conns, TaskRegister(c) PROVE TypeInv'
  <1> DEFINE m == [type |-> "RegisterWrapper", conn |-> c]
  <1>1. m \in ClientMessage /\ Enqueue(m) /\ m.conn = c
    BY MessagesAreTyped DEF TaskRegister
  <1> HIDE DEF m
  <1>2. client_rx' \in Seq(ClientMessage) /\ Len(client_rx') <= QueueCap
    BY <1>1, ClientRxPushed DEF TypeInv
  <1>3. PICK r \in Connection : r = conn[c]
    BY DEF TypeInv, TypeOK
  <1>4. conn' = [conn EXCEPT ![c] = [r EXCEPT !.task = "serving"]]
    BY <1>3, Zenon DEF TaskRegister
  <1>5. /\ [r EXCEPT !.task = "serving"] \in Connection
        /\ [r EXCEPT !.task = "serving"].task = "serving"
        /\ [r EXCEPT !.task = "serving"].wrapper = r.wrapper
    BY DEF Connection
  <1>6. conn' \in [Conns -> Connection]
    BY <1>4, <1>5 DEF TypeInv, TypeOK
  <1>7. TypeOK'
    BY <1>2, <1>6 DEF TypeInv, TypeOK, TaskRegister, loopVars, wrapVars, claudeVars, ghosts
  <1>8. r.task # "unused"
    BY <1>3 DEF TaskRegister
  <1>9. /\ conn'[c].task # "unused"
        /\ \A d \in Conns : conn'[d].task # "unused" => conn'[d].wrapper # None
        /\ \A d \in Conns : conn[d].task # "unused" => conn'[d].task # "unused"
    BY <1>3, <1>4, <1>5, <1>8 DEF TypeInv, TypeOK, ConnsOwned
  <1>10. ConnsOwned'
    BY <1>1, <1>9, OwnedPushed
  <1> QED
    BY <1>7, <1>10 DEF TypeInv

\* Delivering an event frees a place in the wrapper's channel.
LEMMA TypeTaskDeliver ==
    ASSUME TypeInv, NEW c \in Conns, TaskDeliver(c) PROVE TypeInv'
  <1>1. outbox[c] - 1 \in 0..OutboxCap
    BY CapsArePositive DEF TypeInv, TypeOK, TaskDeliver
  <1>2. outbox' \in [Conns -> 0..OutboxCap]
    BY <1>1 DEF TypeInv, TypeOK, TaskDeliver
  <1>3. TypeOK'
    BY <1>2 DEF TypeInv, TypeOK, TaskDeliver, loopVars, wrapVars, claudeVars, ghosts
  <1>4. client_rx' = client_rx /\ conn' = conn
    BY DEF TaskDeliver
  <1>5. ConnsOwned'
    BY <1>4, OwnedKept DEF TypeInv, ConnsOwned
  <1> QED
    BY <1>3, <1>5 DEF TypeInv

\* A task that stops serving unregisters its own wrapper.
LEMMA TypeTaskUnregister ==
    ASSUME TypeInv, NEW c \in Conns, TaskUnregister(c) PROVE TypeInv'
  <1>1. PICK r \in Connection : r = conn[c]
    BY DEF TypeInv, TypeOK
  <1>2. r.task # "unused"
    BY <1>1 DEF TaskUnregister
  <1>3. r.wrapper \in Wrappers
    BY <1>1, <1>2, OwnerType
  <1> DEFINE m == [type |-> "UnregisterWrapper", wrapper |-> r.wrapper]
  <1>4. m \in ClientMessage /\ Enqueue(m) /\ m.type # "RegisterWrapper"
    <2>1. Enqueue(m)
      BY <1>1, Zenon DEF TaskUnregister
    <2>2. m \in ClientMessage
      BY <1>3, MessagesAreTyped
    <2> QED
      BY <2>1, <2>2
  <1> HIDE DEF m
  <1>5. client_rx' \in Seq(ClientMessage) /\ Len(client_rx') <= QueueCap
    BY <1>4, ClientRxPushed DEF TypeInv
  <1>6. conn' = [conn EXCEPT ![c] = [r EXCEPT !.task = "closed"]]
    BY <1>1, Zenon DEF TaskUnregister
  <1>7. /\ [r EXCEPT !.task = "closed"] \in Connection
        /\ [r EXCEPT !.task = "closed"].task = "closed"
        /\ [r EXCEPT !.task = "closed"].wrapper = r.wrapper
    BY DEF Connection
  <1>8. conn' \in [Conns -> Connection] /\ outbox' \in [Conns -> 0..OutboxCap]
    <2>1. PICK q \in Connection : q = [r EXCEPT !.task = "closed"]
      BY <1>7
    <2>2. conn' = [conn EXCEPT ![c] = q] /\ conn \in [Conns -> Connection]
      BY <1>6, <2>1 DEF TypeInv, TypeOK
    <2>3. outbox' = [outbox EXCEPT ![c] = 0] /\ outbox \in [Conns -> 0..OutboxCap]
      BY DEF TypeInv, TypeOK, TaskUnregister
    <2> QED
      BY <2>2, <2>3, CapsArePositive
  <1>9. TypeOK'
    BY <1>5, <1>8 DEF TypeInv, TypeOK, TaskUnregister, loopVars, wrapVars, claudeVars, ghosts
  <1>10. /\ \A d \in Conns : conn'[d].task # "unused" => conn'[d].wrapper # None
         /\ \A d \in Conns : conn[d].task # "unused" => conn'[d].task # "unused"
    BY <1>1, <1>2, <1>6, <1>7 DEF TypeInv, TypeOK, ConnsOwned
  <1>11. ConnsOwned'
    BY <1>4, <1>10, OwnedPushed
  <1> QED
    BY <1>9, <1>11 DEF TypeInv

\* The goodbye of a wrapper is queued.
LEMMA TypeTaskBye ==
    ASSUME TypeInv, NEW w \in Wrappers, TaskBye(w) PROVE TypeInv'
  <1> DEFINE m == [type |-> "UnregisterWrapper", wrapper |-> w]
  <1>1. m \in ClientMessage /\ Enqueue(m) /\ m.type # "RegisterWrapper"
    BY MessagesAreTyped DEF TaskBye
  <1> HIDE DEF m
  <1>2. client_rx' \in Seq(ClientMessage) /\ Len(client_rx') <= QueueCap
    BY <1>1, ClientRxPushed DEF TypeInv
  <1>3. TypeOK'
    BY <1>2 DEF TypeInv, TypeOK, TaskBye, loopVars, wrapVars, claudeVars, ghosts
  <1>4. conn' = conn
    BY DEF TaskBye
  <1>5. ConnsOwned'
    BY <1>1, <1>4, OwnedPushed DEF TypeInv, ConnsOwned
  <1> QED
    BY <1>3, <1>5 DEF TypeInv

\* A dashboard's answer is queued.
LEMMA TypeTaskRespond ==
    ASSUME TypeInv, NEW t \in Tools, NEW d \in Decisions, TaskRespond(t, d) PROVE TypeInv'
  <1> DEFINE m == [type |-> "PermissionResponse", tool |-> t, decision |-> d]
  <1>1. m \in ClientMessage /\ Enqueue(m) /\ m.type # "RegisterWrapper"
    BY MessagesAreTyped DEF TaskRespond
  <1> HIDE DEF m
  <1>2. client_rx' \in Seq(ClientMessage) /\ Len(client_rx') <= QueueCap
    BY <1>1, ClientRxPushed DEF TypeInv
  <1>3. TypeOK'
    BY <1>2 DEF TypeInv, TypeOK, TaskRespond, loopVars, wrapVars, claudeVars
  <1>4. conn' = conn
    BY DEF TaskRespond
  <1>5. ConnsOwned'
    BY <1>1, <1>4, OwnedPushed DEF TypeInv, ConnsOwned
  <1> QED
    BY <1>3, <1>5 DEF TypeInv

\* A client's prompt is queued.
LEMMA TypeTaskPrompt ==
    ASSUME TypeInv, NEW x \in PromptTargets, TaskPrompt(x) PROVE TypeInv'
  <1> DEFINE m == [type |-> "SendPrompt", session |-> x]
  <1>1. m \in ClientMessage /\ Enqueue(m) /\ m.type # "RegisterWrapper"
    BY MessagesAreTyped DEF TaskPrompt
  <1> HIDE DEF m
  <1>2. client_rx' \in Seq(ClientMessage) /\ Len(client_rx') <= QueueCap
    BY <1>1, ClientRxPushed DEF TypeInv
  <1>3. TypeOK'
    BY <1>2 DEF TypeInv, TypeOK, TaskPrompt, loopVars, wrapVars, claudeVars, ghosts
  <1>4. conn' = conn
    BY DEF TaskPrompt
  <1>5. ConnsOwned'
    BY <1>1, <1>4, OwnedPushed DEF TypeInv, ConnsOwned
  <1> QED
    BY <1>3, <1>5 DEF TypeInv

\* Permission hooks that read a decision or give up keep the types.
LEMMA TypeHooks == TypeInv /\ Hooks => TypeInv'
  <1> SUFFICES ASSUME TypeInv, NEW t \in Tools, HookRead(t) \/ HookGiveUp(t)
               PROVE  TypeInv'
    BY DEF Hooks
  <1>1. hook' \in [Tools -> {"none", "waiting", "allow", "deny", "silent"}]
    <2>1. reply[t] # None => reply[t] \in {"allow", "deny"}
      BY DEF TypeInv, TypeOK, Decisions
    <2> QED
      <3>1. \E x \in {"allow", "deny", "silent"} : hook' = [hook EXCEPT ![t] = x]
        BY <2>1 DEF HookRead, HookGiveUp
      <3> QED
        BY <3>1 DEF TypeInv, TypeOK
  <1>2. UNCHANGED <<up, crashes, loopVars, hook_rx, client_rx, request_task, conn,
                    outbox, bye, reply, wrapVars, claudeVars, ghosts, file_fresh>>
    BY DEF HookRead, HookGiveUp
  <1>3. TypeOK'
    BY <1>1, <1>2 DEF TypeInv, TypeOK, loopVars, wrapVars, claudeVars, ghosts
  <1>4. ConnsOwned'
    BY <1>2, OwnedKept DEF TypeInv, ConnsOwned
  <1> QED
    BY <1>3, <1>4 DEF TypeInv

\* A connection task and its client's end after the wrapper has closed it.
LEMMA ClosedConn ==
    ASSUME TypeInv, NEW c, conn' = [conn EXCEPT ![c].open = FALSE]
    PROVE  /\ conn' \in [Conns -> Connection]
           /\ \A d \in Conns : /\ conn'[d].task = conn[d].task
                               /\ conn'[d].wrapper = conn[d].wrapper
  <1>1. CASE c \in Conns
    <2>1. PICK r \in Connection : r = conn[c]
      BY <1>1 DEF TypeInv, TypeOK
    <2>2. conn' = [conn EXCEPT ![c] = [r EXCEPT !.open = FALSE]]
      BY <2>1, Zenon
    <2>3. /\ [r EXCEPT !.open = FALSE] \in Connection
          /\ [r EXCEPT !.open = FALSE].task = r.task
          /\ [r EXCEPT !.open = FALSE].wrapper = r.wrapper
      BY DEF Connection
    <2>4. PICK q \in Connection : q = [r EXCEPT !.open = FALSE]
      BY <2>3
    <2>5. conn' = [conn EXCEPT ![c] = q] /\ q.task = r.task /\ q.wrapper = r.wrapper
      BY <2>2, <2>3, <2>4
    <2>6. conn \in [Conns -> Connection]
      BY DEF TypeInv, TypeOK
    <2> QED
      BY <2>1, <2>5, <2>6
  <1>2. CASE c \notin Conns
    BY <1>2 DEF TypeInv, TypeOK
  <1> QED
    BY <1>1, <1>2

\* A connection that a wrapper has opened.
LEMMA OpenedConn ==
    ASSUME TypeInv, NEW w \in Wrappers, NEW c \in Conns, Connect(w, c)
    PROVE  /\ conn' \in [Conns -> Connection]
           /\ \A d \in Conns : /\ conn'[d].task # "unused" => conn'[d].wrapper # None
                               /\ conn[d].task # "unused" => conn'[d].task # "unused"
           /\ link' \in [Wrappers -> Conns \cup {None}]
           /\ listener' \in [Wrappers -> {"none", "reading", "reconnecting"}]
  <1> DEFINE r == [wrapper |-> w, task |-> "reading", open |-> TRUE]
  <1>1. r \in Connection /\ r.task = "reading" /\ r.wrapper = w
    BY DEF Connection
  <1>2. conn' = [conn EXCEPT ![c] = r]
    BY DEF Connect
  <1>3. w # None
    BY NoneIsNoValue DEF SessionIds
  <1> HIDE DEF r
  <1>4. conn' \in [Conns -> Connection]
    BY <1>1, <1>2 DEF TypeInv, TypeOK
  <1>5. \A d \in Conns : /\ conn'[d].task # "unused" => conn'[d].wrapper # None
                         /\ conn[d].task # "unused" => conn'[d].task # "unused"
    BY <1>1, <1>2, <1>3 DEF TypeInv, TypeOK, ConnsOwned
  <1>6. /\ link' \in [Wrappers -> Conns \cup {None}]
        /\ listener' \in [Wrappers -> {"none", "reading", "reconnecting"}]
    BY DEF TypeInv, TypeOK, Connect
  <1> QED
    BY <1>4, <1>5, <1>6

\* A wrapper starts, with or without a daemon.
LEMMA TypeWrapperStart ==
    ASSUME TypeInv, NEW w \in Wrappers, WrapperStart(w) PROVE TypeInv'
  <1>1. /\ conn' \in [Conns -> Connection]
        /\ \A d \in Conns : /\ conn'[d].task # "unused" => conn'[d].wrapper # None
                            /\ conn[d].task # "unused" => conn'[d].task # "unused"
        /\ link' \in [Wrappers -> Conns \cup {None}]
        /\ listener' \in [Wrappers -> {"none", "reading", "reconnecting"}]
    <2>1. CASE \E c \in Conns : Connect(w, c)
      BY <2>1, OpenedConn
    <2>2. CASE UNCHANGED <<conn, link, listener>>
      BY <2>2 DEF TypeInv, TypeOK, ConnsOwned
    <2> QED
      BY <2>1, <2>2 DEF WrapperStart
  <1>2. wrapper' \in [Wrappers -> {"off", "on", "exiting", "dead"}]
    BY DEF TypeInv, TypeOK, WrapperStart
  <1>3. UNCHANGED <<up, crashes, loopVars, hook_rx, client_rx, request_task, outbox,
                    bye, hook, reply, claudeVars, ghosts, file_fresh>>
    BY DEF WrapperStart
  <1>4. TypeOK'
    BY <1>1, <1>2, <1>3 DEF TypeInv, TypeOK, loopVars, claudeVars, ghosts
  <1>5. ConnsOwned'
    BY <1>1, <1>3, OwnedKept
  <1> QED
    BY <1>4, <1>5 DEF TypeInv

\* A wrapper connects again.
LEMMA TypeReconnect ==
    ASSUME TypeInv, NEW w \in Wrappers, Reconnect(w) PROVE TypeInv'
  <1>1. /\ conn' \in [Conns -> Connection]
        /\ \A d \in Conns : /\ conn'[d].task # "unused" => conn'[d].wrapper # None
                            /\ conn[d].task # "unused" => conn'[d].task # "unused"
        /\ link' \in [Wrappers -> Conns \cup {None}]
        /\ listener' \in [Wrappers -> {"none", "reading", "reconnecting"}]
    <2>1. CASE \E c \in Conns : Connect(w, c)
      BY <2>1, OpenedConn
    <2>2. CASE UNCHANGED <<conn, link>> /\ listener' = [listener EXCEPT ![w] = "none"]
      BY <2>2 DEF TypeInv, TypeOK, ConnsOwned
    <2> QED
      BY <2>1, <2>2 DEF Reconnect
  <1>2. UNCHANGED <<up, crashes, loopVars, hook_rx, client_rx, request_task, outbox,
                    bye, hook, reply, wrapper, claudeVars, ghosts, file_fresh>>
    BY DEF Reconnect
  <1>3. TypeOK'
    BY <1>1, <1>2 DEF TypeInv, TypeOK, loopVars, claudeVars, ghosts
  <1>4. ConnsOwned'
    BY <1>1, <1>2, OwnedKept
  <1> QED
    BY <1>3, <1>4 DEF TypeInv

\* A wrapper's listener thread reads EOF.
LEMMA TypeListenerEof ==
    ASSUME TypeInv, NEW w \in Wrappers, ListenerEof(w) PROVE TypeInv'
  <1>1. conn' = [conn EXCEPT ![link[w]].open = FALSE]
    BY DEF ListenerEof
  <1>2. /\ conn' \in [Conns -> Connection]
        /\ \A d \in Conns : conn'[d].task = conn[d].task /\ conn'[d].wrapper = conn[d].wrapper
    BY <1>1, ClosedConn
  <1>3. /\ link' \in [Wrappers -> Conns \cup {None}]
        /\ listener' \in [Wrappers -> {"none", "reading", "reconnecting"}]
    BY DEF TypeInv, TypeOK, ListenerEof
  <1>4. UNCHANGED <<up, crashes, loopVars, hook_rx, client_rx, request_task, outbox,
                    bye, hook, reply, wrapper, claudeVars, ghosts, file_fresh>>
    BY DEF ListenerEof
  <1>5. TypeOK'
    BY <1>2, <1>3, <1>4 DEF TypeInv, TypeOK, loopVars, claudeVars, ghosts
  <1>6. ConnsOwned'
    BY <1>2, <1>4, OwnedKept DEF TypeInv, ConnsOwned
  <1> QED
    BY <1>5, <1>6 DEF TypeInv

\* A wrapper's child exits.
LEMMA TypeWrapperExit ==
    ASSUME TypeInv, NEW w \in Wrappers, WrapperExit(w) PROVE TypeInv'
  <1>1. TypeOK'
    BY DEF TypeInv, TypeOK, WrapperExit, loopVars, claudeVars, ghosts
  <1>2. client_rx' = client_rx /\ conn' = conn
    BY DEF WrapperExit
  <1>3. ConnsOwned'
    BY <1>2, OwnedKept DEF TypeInv, ConnsOwned
  <1> QED
    BY <1>1, <1>3 DEF TypeInv

\* A wrapper process ends.
LEMMA TypeWrapperDie ==
    ASSUME TypeInv, NEW w \in Wrappers, WrapperDie(w) PROVE TypeInv'
  <1>1. /\ conn' \in [Conns -> Connection]
        /\ \A d \in Conns : conn'[d].task = conn[d].task /\ conn'[d].wrapper = conn[d].wrapper
    <2>1. CASE conn' = [conn EXCEPT ![link[w]].open = FALSE]
      BY <2>1, ClosedConn
    <2>2. CASE conn' = conn
      BY <2>2 DEF TypeInv, TypeOK
    <2> QED
      BY <2>1, <2>2 DEF WrapperDie
  <1>2. /\ link' \in [Wrappers -> Conns \cup {None}]
        /\ listener' \in [Wrappers -> {"none", "reading", "reconnecting"}]
        /\ wrapper' \in [Wrappers -> {"off", "on", "exiting", "dead"}]
    BY DEF TypeInv, TypeOK, WrapperDie
  <1>3. UNCHANGED <<up, crashes, loopVars, hook_rx, client_rx, request_task, outbox,
                    bye, hook, reply, claudeVars, ghosts, file_fresh>>
    BY DEF WrapperDie
  <1>4. TypeOK'
    BY <1>1, <1>2, <1>3 DEF TypeInv, TypeOK, loopVars, claudeVars, ghosts
  <1>5. ConnsOwned'
    BY <1>1, <1>3, OwnedKept DEF TypeInv, ConnsOwned
  <1> QED
    BY <1>4, <1>5 DEF TypeInv

\* A hook that Claude runs sends a hook envelope.
LEMMA EmitType ==
    ASSUME TypeInv, NEW type \in {"ToolStart", "ToolEnd", "Stop", "SessionStart", "SessionEnd"},
           NEW a \in Agents, NEW t \in Tools \cup {None}, NEW w \in Wrappers \cup {None},
           Emit(type, a, t, w)
    PROVE  hook_rx' \in SUBSET HookEnvelope
  <1>1. [type |-> type, session |-> a, tool |-> t, wrapper |-> w] \in HookEnvelope
    BY DEF HookEnvelope
  <1> QED
    BY <1>1 DEF Emit, TypeInv, TypeOK

\* Claude's steps leave the daemon alone; what they change keeps its type.
LEMMA TypeClaudeStep ==
    ASSUME TypeInv, UNCHANGED claudeKeeps,
           hook_rx' \in SUBSET HookEnvelope,
           request_task' \in [Tools -> {"none", "reading", "awaiting"}],
           hook' \in [Tools -> {"none", "waiting", "allow", "deny", "silent"}],
           agent' \in [Agents -> {"off", "on"}],
           env' \in [Agents -> Wrappers \cup {None}],
           starts' \in [Agents -> 0..MaxStarts],
           phase' \in [Tools -> {"new", "started", "asking", "prompt", "running", "done"}]
    PROVE  TypeInv'
  <1>1. TypeOK'
    BY DEF TypeInv, TypeOK, claudeKeeps, loopVars, wrapVars, ghosts
  <1>2. client_rx' = client_rx /\ conn' = conn
    BY DEF claudeKeeps
  <1>3. ConnsOwned'
    BY <1>2, OwnedKept DEF TypeInv, ConnsOwned
  <1> QED
    BY <1>1, <1>3 DEF TypeInv

\* Claude sessions start, stop and end.
LEMMA TypeAgents ==
    ASSUME TypeInv, NEW a \in Agents, AgentStart(a) \/ AgentStop(a) \/ AgentEnd(a)
    PROVE  TypeInv'
  <1> USE DEF TypeInv
  <1>0. env[a] \in Wrappers \cup {None} /\ None \in Tools \cup {None}
    BY DEF TypeOK
  <1>1. CASE AgentStart(a)
    <2>1. starts[a] + 1 \in 0..MaxStarts
      BY <1>1, BoundsAreNumbers DEF AgentStart, TypeOK
    <2>2. agent' \in [Agents -> {"off", "on"}] /\ starts' \in [Agents -> 0..MaxStarts]
      BY <1>1, <2>1 DEF AgentStart, TypeOK
    <2>3. PICK w \in Wrappers \cup {None} :
              env' = [env EXCEPT ![a] = w] /\ Emit("SessionStart", a, None, w)
      BY <1>1 DEF AgentStart
    <2>4. env' \in [Agents -> Wrappers \cup {None}]
      BY <2>3 DEF TypeOK
    <2>5. hook_rx' \in SUBSET HookEnvelope
      BY <1>0, <2>3, EmitType
    <2>6. UNCHANGED claudeKeeps /\ UNCHANGED <<request_task, hook, phase>>
      BY <1>1 DEF AgentStart
    <2> QED
      BY <2>2, <2>4, <2>5, <2>6, TypeClaudeStep DEF TypeOK
  <1>2. CASE AgentStop(a)
    <2>1. hook_rx' \in SUBSET HookEnvelope
      BY <1>0, <1>2, EmitType DEF AgentStop
    <2>2. UNCHANGED claudeKeeps /\ UNCHANGED <<request_task, hook, claudeVars>>
      BY <1>2 DEF AgentStop
    <2> QED
      BY <2>1, <2>2, TypeClaudeStep DEF TypeOK, claudeVars
  <1>3. CASE AgentEnd(a)
    <2>1. hook_rx' \in SUBSET HookEnvelope
      BY <1>0, <1>3, EmitType DEF AgentEnd, TypeOK
    <2>2. /\ agent' \in [Agents -> {"off", "on"}]
          /\ phase' \in [Tools -> {"new", "started", "asking", "prompt", "running", "done"}]
      BY <1>3 DEF AgentEnd, TypeOK
    <2>3. UNCHANGED claudeKeeps /\ UNCHANGED <<request_task, hook, env, starts>>
      BY <1>3 DEF AgentEnd
    <2> QED
      BY <2>1, <2>2, <2>3, TypeClaudeStep DEF TypeOK
  <1> QED
    BY <1>1, <1>2, <1>3

\* The steps of a tool call keep the types.
LEMMA TypeTools ==
    ASSUME TypeInv, NEW t \in Tools,
           \/ ToolStart(t) \/ ToolAsk(t) \/ ToolRun(t)
           \/ ToolDecide(t) \/ ToolTerminal(t) \/ ToolEnd(t)
    PROVE  TypeInv'
  <1> USE DEF TypeInv
  <1>0. AgentOf[t] \in Agents /\ env[AgentOf[t]] \in Wrappers \cup {None}
    BY AgentOfType DEF TypeOK
  <1>1. \E from : \E to \in {"started", "asking", "prompt", "running", "done"} : ToolStep(t, from, to)
    BY DEF ToolStart, ToolAsk, ToolRun, ToolDecide, ToolTerminal, ToolEnd
  <1>2. phase' \in [Tools -> {"new", "started", "asking", "prompt", "running", "done"}]
    BY <1>1 DEF ToolStep, TypeOK
  <1>3. UNCHANGED claudeKeeps /\ UNCHANGED <<agent, env, starts>>
    BY <1>1 DEF ToolStep
  <1>4. hook_rx' \in SUBSET HookEnvelope
    <2>1. CASE ToolStart(t)
      BY <1>0, <2>1, EmitType DEF ToolStart
    <2>2. CASE ToolEnd(t)
      BY <1>0, <2>2, EmitType DEF ToolEnd
    <2>3. CASE hook_rx' = hook_rx
      BY <2>3 DEF TypeOK
    <2> QED
      BY <2>1, <2>2, <2>3 DEF ToolAsk, ToolRun, ToolDecide, ToolTerminal
  <1>5. /\ request_task' \in [Tools -> {"none", "reading", "awaiting"}]
        /\ hook' \in [Tools -> {"none", "waiting", "allow", "deny", "silent"}]
    <2>1. CASE ToolAsk(t)
      <3>1. \E x \in {"waiting", "silent"} : hook' = [hook EXCEPT ![t] = x]
        BY <2>1 DEF ToolAsk
      <3>2. request_task[t] \in {"none", "reading", "awaiting"}
        BY DEF TypeOK
      <3>3. \E x \in {"none", "reading", "awaiting"} :
                request_task' = [request_task EXCEPT ![t] = x]
        BY <2>1, <3>2 DEF ToolAsk
      <3>4. /\ hook \in [Tools -> {"none", "waiting", "allow", "deny", "silent"}]
            /\ request_task \in [Tools -> {"none", "reading", "awaiting"}]
        BY DEF TypeOK
      <3> QED
        BY <3>1, <3>3, <3>4
    <2>2. CASE UNCHANGED <<request_task, hook>>
      BY <2>2 DEF TypeOK
    <2> QED
      BY <2>1, <2>2 DEF ToolStart, ToolRun, ToolDecide, ToolTerminal, ToolEnd
  <1> QED
    BY <1>2, <1>3, <1>4, <1>5, TypeClaudeStep DEF TypeOK

\* A crash leaves empty tables and channels.
LEMMA TypeDaemonCrash == TypeInv /\ DaemonCrash => TypeInv'
  <1> SUFFICES ASSUME TypeInv, DaemonCrash PROVE TypeInv'
    OBVIOUS
  <1> USE DEF TypeInv
  <1>1. sessions' \in SessionTable /\ pending' \in PendingTable
    BY DEF DaemonCrash, NoSessions, NoRequests, SessionTable, PendingTable
  <1>2. client_rx' \in Seq(ClientMessage) /\ Len(client_rx') = 0
    BY EmptySeq DEF DaemonCrash
  <1>3. \A c \in Conns : /\ conn'[c] \in Connection
                         /\ conn'[c].wrapper = conn[c].wrapper
                         /\ conn'[c].task = "unused" <=> conn[c].task = "unused"
    <2> SUFFICES ASSUME NEW c \in Conns
                 PROVE  /\ conn'[c] \in Connection
                        /\ conn'[c].wrapper = conn[c].wrapper
                        /\ conn'[c].task = "unused" <=> conn[c].task = "unused"
      OBVIOUS
    <2>1. PICK r \in Connection : r = conn[c]
      BY DEF TypeOK
    <2>2. /\ [r EXCEPT !.task = "closed"] \in Connection
          /\ [r EXCEPT !.task = "closed"].task = "closed"
          /\ [r EXCEPT !.task = "closed"].wrapper = r.wrapper
      BY DEF Connection
    <2>3. conn'[c] = IF r.task = "unused" THEN r ELSE [r EXCEPT !.task = "closed"]
      BY <2>1, Zenon DEF DaemonCrash
    <2> QED
      BY <2>1, <2>2, <2>3
  <1>4. conn' \in [Conns -> Connection] /\ outbox' \in [Conns -> 0..OutboxCap]
    BY <1>3, CapsArePositive DEF DaemonCrash
  <1>5. crashes' \in 0..MaxCrashes
    BY BoundsAreNumbers DEF DaemonCrash, TypeOK
  <1>6. wrapper_channels' \in [SessionIds -> Conns \cup {None}]
    BY DEF DaemonCrash, NoChannels
  <1>7. file_fresh' \in BOOLEAN
    BY TrackFileType DEF DaemonCrash
  <1>8. TypeOK'
    <2>1. /\ up' \in BOOLEAN /\ permission_waiters' \in SUBSET Tools
          /\ state_dirty' \in BOOLEAN /\ hook_rx' \in SUBSET HookEnvelope
          /\ bye' \in SUBSET Wrappers
          /\ request_task' \in [Tools -> {"none", "reading", "awaiting"}]
      BY DEF DaemonCrash
    <2>2. Len(client_rx') <= QueueCap
      BY <1>2, CapsArePositive
    <2>3. UNCHANGED <<hook, reply, wrapVars, claudeVars, ghosts>>
      BY DEF DaemonCrash
    <2> QED
      BY <1>1, <1>2, <1>4, <1>5, <1>6, <1>7, <2>1, <2>2, <2>3
         DEF TypeOK, wrapVars, claudeVars, ghosts
  <1>9. ConnsOwned'
    BY <1>2, <1>3 DEF ConnsOwned
  <1> QED
    BY <1>8, <1>9

\* So does the restart.
LEMMA TypeDaemonRestart == TypeInv /\ DaemonRestart => TypeInv'
  <1> SUFFICES ASSUME TypeInv, DaemonRestart PROVE TypeInv'
    OBVIOUS
  <1>1. TypeOK'
    BY DEF TypeInv, TypeOK, DaemonRestart, loopVars, wrapVars, claudeVars, ghosts
  <1>2. client_rx' = client_rx /\ conn' = conn
    BY DEF DaemonRestart
  <1>3. ConnsOwned'
    BY <1>2, OwnedKept DEF TypeInv, ConnsOwned
  <1> QED
    BY <1>1, <1>3 DEF TypeInv

\* The loop's handlers.
LEMMA TypeLoop == TypeInv /\ (HandleHook \/ HandleClient \/ WriteStateFile) => TypeInv'
  <1> SUFFICES ASSUME TypeInv, HandleHook \/ HandleClient \/ WriteStateFile PROVE TypeInv'
    OBVIOUS
  <1>1. CASE HandleHook
    <2>1. PICK e : HandleHookEvent(e)
      BY <1>1 DEF HandleHook
    <2>2. TypeOK' /\ client_rx' = client_rx /\ conn' = conn
      BY <2>1, TypeHandleHookEvent DEF TypeInv, HandleHookEvent
    <2> QED
      BY <2>2, OwnedKept DEF TypeInv, ConnsOwned
  <1>2. CASE HandleClient
    <2>1. TypeOK'
      BY <1>2, TypeHandlePermissionRequest, TypeHandlePermissionResponse,
         TypeHandleRegisterWrapper, TypeHandleUnregisterWrapper, TypeHandleSendPrompt
         DEF TypeInv, HandleClient
    <2>2. \E type : Receive(type)
      BY <1>2 DEF HandleClient, HandlePermissionRequest, HandlePermissionResponse,
         HandleRegisterWrapper, HandleUnregisterWrapper, HandleSendPrompt
    <2> QED
      BY <2>1, <2>2, OwnedPopped DEF TypeInv
  <1>3. CASE WriteStateFile
    <2>1. TypeOK' /\ client_rx' = client_rx /\ conn' = conn
      BY <1>3, TypeWriteStateFile DEF TypeInv, WriteStateFile
    <2> QED
      BY <2>1, OwnedKept DEF TypeInv, ConnsOwned
  <1> QED
    BY <1>1, <1>2, <1>3

\* Types, and the ownership of connections, are kept by every step.
LEMMA TypeStep == TypeInv /\ [Next]_vars => TypeInv'
  <1> SUFFICES ASSUME TypeInv, [Next]_vars PROVE TypeInv'
    OBVIOUS
  <1>1. CASE HandleHook \/ HandleClient \/ WriteStateFile
    BY <1>1, TypeLoop
  <1>2. CASE Tasks
    BY <1>2, TypeTaskRequest, TypeTaskRegister, TypeTaskDeliver, TypeTaskUnregister,
       TypeTaskBye DEF Tasks
  <1>3. CASE Clients
    BY <1>3, TypeTaskRespond, TypeTaskPrompt DEF Clients
  <1>4. CASE Hooks
    BY <1>4, TypeHooks
  <1>5. CASE WrapperProcs
    BY <1>5, TypeWrapperStart, TypeListenerEof, TypeReconnect, TypeWrapperExit,
       TypeWrapperDie DEF WrapperProcs
  <1>6. CASE Claude
    BY <1>6, TypeAgents, TypeTools DEF Claude
  <1>7. CASE DaemonCrash \/ DaemonRestart
    BY <1>7, TypeDaemonCrash, TypeDaemonRestart
  <1>8. CASE UNCHANGED vars
    <2>1. TypeOK' /\ client_rx' = client_rx /\ conn' = conn
      BY <1>8 DEF TypeInv, TypeOK, vars, loopVars, wrapVars, claudeVars, ghosts
    <2> QED
      BY <2>1, OwnedKept DEF TypeInv, ConnsOwned
  <1> QED
    BY <1>1, <1>2, <1>3, <1>4, <1>5, <1>6, <1>7, <1>8 DEF Next

\* No connection is in use at first.
LEMMA TypeInvInit == Init => TypeInv
  <1> SUFFICES ASSUME Init PROVE TypeInv
    OBVIOUS
  <1>1. ConnsOwned
    BY EmptySeq DEF Init, ConnsOwned
  <1> QED
    BY <1>1, TypeInit DEF TypeInv

\* The inductive invariant of type correctness holds in every reachable state.
LEMMA TypeInvHolds == Spec => []TypeInv
  BY TypeInvInit, TypeStep, PTL DEF Spec

\* Every reachable state of the daemon and the processes around it is well
\* typed: no handler, however messages interleave, puts anything but sessions
\* into the table, and no channel exceeds its capacity.
THEOREM TypeCorrect == Spec => []TypeOK
  <1>1. TypeInv => TypeOK
    BY DEF TypeInv
  <1> QED
    BY <1>1, TypeInvHolds, PTL

-----------------------------------------------------------------------------
(* The life of a permission request: who may decide it and when it can     *)
(* still be decided.                                                       *)

(* Decisions come from somewhere.                                          *)

\* What DecisionIntegrity needs of the queue: an answer on its way to the loop
\* is one that a dashboard gave.
AnswersRecorded ==
    \A i \in 1..Len(client_rx) : client_rx[i].type = "PermissionResponse" =>
        <<client_rx[i].tool, client_rx[i].decision>> \in answered

DecisionInv == AnswersRecorded /\ DecisionIntegrity

\* A step that hands no decision to a task, and lets hooks learn only what their
\* tasks were sent, keeps DecisionIntegrity.
LEMMA IntegrityKept ==
    ASSUME DecisionIntegrity,
           answered \subseteq answered', automatic \subseteq automatic',
           \A t \in Tools : reply'[t] \in {reply[t], None},
           \A t \in Tools : hook'[t] \in {hook[t], reply[t], "waiting", "silent", "none"},
           None \notin Decisions
    PROVE  DecisionIntegrity'
  BY DEF DecisionIntegrity, Decisions

\* Messages that are no answers, and answers that are recorded, may be queued;
\* the loop may take its head.
LEMMA AnswersKept ==
    ASSUME AnswersRecorded, answered \subseteq answered', NEW k \in {0, 1},
           \A i \in 1..Len(client_rx') : client_rx'[i].type = "PermissionResponse" =>
               \/ i + k \in 1..Len(client_rx) /\ client_rx'[i] = client_rx[i + k]
               \/ <<client_rx'[i].tool, client_rx'[i].decision>> \in answered'
    PROVE  AnswersRecorded'
  BY DEF AnswersRecorded

\* The queue after a push and after a pop, as AnswersKept wants it.
LEMMA PushedFrom ==
    ASSUME TypeOK, NEW m \in ClientMessage, Enqueue(m)
    PROVE  \A i \in 1..Len(client_rx') :
               \/ i + 0 \in 1..Len(client_rx) /\ client_rx'[i] = client_rx[i + 0]
               \/ i = Len(client_rx) + 1 /\ client_rx'[i] = m
  BY ClientRxPushed

\* After the loop has taken its head, the queue is the old one shifted by one.
LEMMA PoppedFrom ==
    ASSUME TypeOK, NEW type, Receive(type)
    PROVE  \A i \in 1..Len(client_rx') :
               i + 1 \in 1..Len(client_rx) /\ client_rx'[i] = client_rx[i + 1]
  BY ClientRxPopped

\* A queue that is left alone.
LEMMA SameFrom ==
    ASSUME TypeOK, client_rx' = client_rx
    PROVE  \A i \in 1..Len(client_rx') :
               i + 0 \in 1..Len(client_rx) /\ client_rx'[i] = client_rx[i + 0]
  <1>1. Len(client_rx) \in Nat
    BY LenProperties DEF TypeOK
  <1> QED
    BY <1>1


\* A hook event allows only the requests it resolves, and those count as automatic.
LEMMA DecisionHook ==
    ASSUME TypeOK, DecisionInv, NEW e, HandleHookEvent(e) PROVE DecisionInv'
  <1> DEFINE moved == RequestsOf(pending, {e.session})
  <1>1. /\ client_rx' = client_rx /\ hook' = hook /\ answered' = answered
        /\ automatic' = automatic \cup moved
        /\ reply' = [t \in Tools |-> IF t \in moved \cap permission_waiters
                                     THEN "allow" ELSE reply[t]]
    BY DEF HandleHookEvent
  <1> HIDE DEF moved
  <1>2. AnswersRecorded'
    BY <1>1, SameFrom, AnswersKept DEF DecisionInv
  <1>3. DecisionIntegrity'
    BY <1>1 DEF DecisionInv, DecisionIntegrity
  <1> QED
    BY <1>2, <1>3 DEF DecisionInv

\* An answer that is handled was recorded when it was sent.
LEMMA DecisionResponse == TypeOK /\ DecisionInv /\ HandlePermissionResponse => DecisionInv'
  <1> SUFFICES ASSUME TypeOK, DecisionInv, HandlePermissionResponse PROVE DecisionInv'
    OBVIOUS
  <1> DEFINE t == Head(client_rx).tool
             d == Head(client_rx).decision
  <1>1. Receive("PermissionResponse")
    BY DEF HandlePermissionResponse
  <1>2. t \in Tools /\ d \in Decisions
    BY <1>1, ClientRxPopped, ClientMessageTypes
  <1>3. <<t, d>> \in answered
    BY <1>1, ClientRxPopped DEF DecisionInv, AnswersRecorded
  <1>4. answered' = answered /\ automatic' = automatic /\ hook' = hook
    BY <1>1 DEF HandlePermissionResponse, Receive, ghosts
  <1>5. reply' = reply \/ reply' = [reply EXCEPT ![t] = d]
    BY DEF HandlePermissionResponse
  <1>6. reply \in [Tools -> Decisions \cup {None}]
    BY DEF TypeOK
  <1> HIDE DEF t, d
  <1>7. AnswersRecorded'
    BY <1>1, <1>4, PoppedFrom, AnswersKept DEF DecisionInv
  <1>8. DecisionIntegrity'
    <2>1. ASSUME NEW x \in Tools
          PROVE  reply'[x] = reply[x] \/ (x = t /\ reply'[x] = d)
      BY <1>2, <1>5, <1>6
    <2> QED
      BY <1>3, <1>4, <2>1 DEF DecisionInv, DecisionIntegrity
  <1> QED
    BY <1>7, <1>8 DEF DecisionInv

\* The other handlers decide nothing.
LEMMA DecisionClient == TypeOK /\ DecisionInv /\ HandleClient => DecisionInv'
  <1> SUFFICES ASSUME TypeOK, DecisionInv, HandleClient, ~HandlePermissionResponse
               PROVE  DecisionInv'
    BY DecisionResponse
  <1>1. PICK type : Receive(type)
    BY DEF HandleClient, HandlePermissionRequest,
       HandleRegisterWrapper, HandleUnregisterWrapper, HandleSendPrompt
  <1>2. reply' = reply /\ answered' = answered /\ automatic' = automatic
    BY DEF HandleClient, HandlePermissionRequest,
       HandleRegisterWrapper, HandleUnregisterWrapper, HandleSendPrompt, ghosts
  <1>3. hook' = hook
    BY <1>1 DEF Receive
  <1>4. AnswersRecorded'
    BY <1>1, <1>2, PoppedFrom, AnswersKept DEF DecisionInv
  <1>5. DecisionIntegrity'
    BY <1>2, <1>3, IntegrityKept, NoneIsNoDecision DEF DecisionInv
  <1> QED
    BY <1>4, <1>5 DEF DecisionInv

\* A dashboard's answer is recorded when it is sent.
LEMMA DecisionRespond ==
    ASSUME TypeOK, DecisionInv, NEW t \in Tools, NEW d \in Decisions, TaskRespond(t, d)
    PROVE  DecisionInv'
  <1>1. PICK m : m = [type |-> "PermissionResponse", tool |-> t, decision |-> d]
    OBVIOUS
  <1>2. m \in ClientMessage /\ Enqueue(m) /\ m.tool = t /\ m.decision = d
    BY <1>1, MessagesAreTyped DEF TaskRespond
  <1>3. /\ answered' = answered \cup {<<t, d>>} /\ automatic' = automatic
        /\ reply' = reply /\ hook' = hook
    BY DEF TaskRespond
  <1>4. AnswersRecorded'
    <2>1. \A i \in 1..Len(client_rx') : client_rx'[i].type = "PermissionResponse" =>
              \/ i + 0 \in 1..Len(client_rx) /\ client_rx'[i] = client_rx[i + 0]
              \/ <<client_rx'[i].tool, client_rx'[i].decision>> \in answered'
      BY <1>2, <1>3, PushedFrom
    <2> QED
      BY <1>3, <2>1, AnswersKept DEF DecisionInv
  <1>5. DecisionIntegrity'
    BY <1>3, IntegrityKept, NoneIsNoDecision DEF DecisionInv
  <1> QED
    BY <1>4, <1>5 DEF DecisionInv

\* What a task may send: one message, and only a permission hook's task sends
\* requests, only a dashboard's task answers.
LEMMA TaskSends ==
    ASSUME TypeInv, Tasks \/ Clients
    PROVE  \/ client_rx' = client_rx
           \/ \E t \in Tools : TaskRequest(t)
           \/ \E t \in Tools, d \in Decisions : TaskRespond(t, d)
           \/ \E m \in ClientMessage :
                  Enqueue(m) /\ m.type \notin {"PermissionRequest", "PermissionResponse"}
  <1>1. ASSUME NEW c \in Conns, TaskRegister(c)
        PROVE  \E m \in ClientMessage :
                   Enqueue(m) /\ m.type \notin {"PermissionRequest", "PermissionResponse"}
    <2>1. [type |-> "RegisterWrapper", conn |-> c] \in ClientMessage
      BY MessagesAreTyped
    <2> QED
      BY <1>1, <2>1 DEF TaskRegister
  <1>2. ASSUME NEW c \in Conns, TaskUnregister(c)
        PROVE  \E m \in ClientMessage :
                   Enqueue(m) /\ m.type \notin {"PermissionRequest", "PermissionResponse"}
    <2>1. conn[c].wrapper \in Wrappers
      BY <1>2, OwnerType DEF TaskUnregister
    <2>2. [type |-> "UnregisterWrapper", wrapper |-> conn[c].wrapper] \in ClientMessage
      BY <2>1, MessagesAreTyped
    <2> QED
      BY <1>2, <2>2 DEF TaskUnregister
  <1>3. ASSUME NEW w \in Wrappers, TaskBye(w)
        PROVE  \E m \in ClientMessage :
                   Enqueue(m) /\ m.type \notin {"PermissionRequest", "PermissionResponse"}
    <2>1. [type |-> "UnregisterWrapper", wrapper |-> w] \in ClientMessage
      BY MessagesAreTyped
    <2> QED
      BY <1>3, <2>1 DEF TaskBye
  <1>4. ASSUME NEW x \in PromptTargets, TaskPrompt(x)
        PROVE  \E m \in ClientMessage :
                   Enqueue(m) /\ m.type \notin {"PermissionRequest", "PermissionResponse"}
    <2>1. [type |-> "SendPrompt", session |-> x] \in ClientMessage
      BY MessagesAreTyped
    <2> QED
      BY <1>4, <2>1 DEF TaskPrompt
  <1>5. ASSUME NEW c \in Conns, TaskDeliver(c) PROVE client_rx' = client_rx
    BY <1>5 DEF TaskDeliver
  <1> QED
    BY <1>1, <1>2, <1>3, <1>4, <1>5 DEF Tasks, Clients

\* The other messages that tasks send are no answers.
LEMMA DecisionTasks == TypeInv /\ DecisionInv /\ (Tasks \/ Clients) => DecisionInv'
  <1> SUFFICES ASSUME TypeInv, DecisionInv, Tasks \/ Clients,
                      ~(\E t \in Tools, d \in Decisions : TaskRespond(t, d))
               PROVE  DecisionInv'
    BY DecisionRespond DEF TypeInv
  <1>1. reply' = reply /\ hook' = hook /\ answered' = answered /\ automatic' = automatic
    BY DEF Tasks, Clients, TaskRequest, TaskRegister, TaskDeliver, TaskUnregister, TaskBye,
       TaskPrompt, ghosts
  <1>2. \A i \in 1..Len(client_rx') : client_rx'[i].type = "PermissionResponse" =>
            i + 0 \in 1..Len(client_rx) /\ client_rx'[i] = client_rx[i + 0]
    <2>1. CASE \E m \in ClientMessage : m.type # "PermissionResponse" /\ Enqueue(m)
      BY <2>1, PushedFrom DEF TypeInv
    <2>2. CASE client_rx' = client_rx
      BY <2>2, SameFrom DEF TypeInv
    <2>3. ASSUME NEW t \in Tools, TaskRequest(t)
          PROVE  \E m \in ClientMessage : m.type # "PermissionResponse" /\ Enqueue(m)
      <3>1. [type |-> "PermissionRequest", tool |-> t] \in ClientMessage
        BY MessagesAreTyped
      <3> QED
        BY <2>3, <3>1 DEF TaskRequest
    <2> QED
      BY <2>1, <2>2, <2>3, TaskSends
  <1>3. AnswersRecorded'
    BY <1>1, <1>2, AnswersKept DEF DecisionInv
  <1>4. DecisionIntegrity'
    BY <1>1, IntegrityKept, NoneIsNoDecision DEF DecisionInv
  <1> QED
    BY <1>3, <1>4 DEF DecisionInv

\* A step outside the daemon: hooks learn what their tasks were sent, or nothing.
LEMMA DecisionOutside ==
    ASSUME TypeOK, DecisionInv, client_rx' = client_rx, reply' = reply,
           answered' = answered, automatic' = automatic,
           \A t \in Tools : hook'[t] \in {hook[t], reply[t], "waiting", "silent", "none"}
    PROVE  DecisionInv'
  <1>1. AnswersRecorded'
    BY SameFrom, AnswersKept DEF DecisionInv
  <1>2. DecisionIntegrity'
    BY IntegrityKept, NoneIsNoDecision DEF DecisionInv
  <1> QED
    BY <1>1, <1>2 DEF DecisionInv

\* A permission hook learns what its task was sent, or gives up.
LEMMA DecisionHooks == TypeOK /\ DecisionInv /\ Hooks => DecisionInv'
  <1> SUFFICES ASSUME TypeOK, DecisionInv, NEW t \in Tools, HookRead(t) \/ HookGiveUp(t)
               PROVE  DecisionInv'
    BY DEF Hooks
  <1>1. \A x \in Tools : hook'[x] \in {hook[x], reply[x], "waiting", "silent", "none"}
    BY DEF TypeOK, HookRead, HookGiveUp
  <1>2. /\ client_rx' = client_rx /\ reply' = reply
        /\ answered' = answered /\ automatic' = automatic
    BY DEF HookRead, HookGiveUp, ghosts
  <1> QED
    BY <1>1, <1>2, DecisionOutside

\* Claude decides nothing: a new permission hook waits or is silent.
LEMMA DecisionClaude == TypeOK /\ DecisionInv /\ Claude => DecisionInv'
  <1> SUFFICES ASSUME TypeOK, DecisionInv, Claude PROVE DecisionInv'
    OBVIOUS
  <1>1. UNCHANGED claudeKeeps
    BY DEF Claude, AgentStart, AgentStop, AgentEnd, ToolStart, ToolAsk, ToolRun,
       ToolDecide, ToolTerminal, ToolEnd, ToolStep
  <1>2. hook' = hook \/ \E t \in Tools : ToolAsk(t)
    BY DEF Claude, AgentStart, AgentStop, AgentEnd, ToolStart, ToolRun,
       ToolDecide, ToolTerminal, ToolEnd
  <1>3. \A x \in Tools : hook'[x] \in {hook[x], reply[x], "waiting", "silent", "none"}
    BY <1>2 DEF TypeOK, ToolAsk
  <1>4. /\ client_rx' = client_rx /\ reply' = reply
        /\ answered' = answered /\ automatic' = automatic
    BY <1>1 DEF claudeKeeps, ghosts
  <1> QED
    BY <1>3, <1>4, DecisionOutside

\* A crash takes the queue with it, and no decision changes.
LEMMA DecisionCrash == TypeOK /\ DecisionInv /\ DaemonCrash => DecisionInv'
  <1> SUFFICES ASSUME TypeOK, DecisionInv, DaemonCrash PROVE DecisionInv'
    OBVIOUS
  <1>1. /\ Len(client_rx') = 0 /\ hook' = hook
        /\ reply' = reply
        /\ answered' = answered /\ automatic' = automatic
    BY EmptySeq DEF DaemonCrash, ghosts
  <1>2. AnswersRecorded'
    BY <1>1 DEF AnswersRecorded
  <1>3. DecisionIntegrity'
    BY <1>1, IntegrityKept, NoneIsNoDecision DEF DecisionInv
  <1> QED
    BY <1>2, <1>3 DEF DecisionInv

\* Every step keeps it.
LEMMA DecisionStep == TypeInv /\ DecisionInv /\ [Next]_vars => DecisionInv'
  <1> SUFFICES ASSUME TypeInv, DecisionInv, [Next]_vars PROVE DecisionInv'
    OBVIOUS
  <1>0. TypeOK
    BY DEF TypeInv
  <1>1. CASE HandleHook
    BY <1>0, <1>1, DecisionHook DEF HandleHook
  <1>2. CASE HandleClient
    BY <1>0, <1>2, DecisionClient
  <1>3. CASE Tasks \/ Clients
    BY <1>3, DecisionTasks
  <1>4. CASE Hooks
    BY <1>0, <1>4, DecisionHooks
  <1>5. CASE Claude
    BY <1>0, <1>5, DecisionClaude
  <1>6. CASE DaemonCrash
    BY <1>0, <1>6, DecisionCrash
  <1>7. CASE WriteStateFile \/ WrapperProcs \/ DaemonRestart \/ UNCHANGED vars
    <2>1. /\ client_rx' = client_rx /\ reply' = reply /\ hook' = hook
          /\ answered' = answered /\ automatic' = automatic
      BY <1>7 DEF WriteStateFile, WrapperProcs, DaemonRestart, WrapperStart, ListenerEof,
         Reconnect, WrapperExit, WrapperDie, vars, ghosts
    <2> QED
      BY <1>0, <2>1, DecisionOutside
  <1> QED
    BY <1>1, <1>2, <1>3, <1>4, <1>5, <1>6, <1>7 DEF Next

\* No decision is made up, in any instance: what a permission hook is told, a
\* dashboard answered or a hook event of the session resolved. Late, repeated
\* and contradicting answers, timeouts, crashes and restarts included.
THEOREM DecisionIntegrityHolds == Spec => []DecisionIntegrity
  <1>1. Init => DecisionInv
    BY EmptySeq, NoneIsNoDecision
       DEF Init, DecisionInv, AnswersRecorded, DecisionIntegrity, Decisions
  <1>2. DecisionInv => DecisionIntegrity
    BY DEF DecisionInv
  <1> QED
    BY <1>1, <1>2, DecisionStep, TypeInvHolds, PTL DEF Spec

-----------------------------------------------------------------------------
(* A pending request can be decided.                                       *)

QueuedRequest(i, t) == client_rx[i].type = "PermissionRequest" /\ client_rx[i].tool = t

\* The life of a request, which PendingHasWaiter needs to be inductive: its hook
\* asks once, its task queues it once, and until the loop takes it from the queue
\* it is neither pending nor decided.
RequestLife ==
    \A t \in Tools :
        /\ phase[t] \in {"new", "started"} => request_task[t] = "none" /\ reply[t] = None
        /\ request_task[t] # "awaiting" => pending[t] = None
        /\ request_task[t] = "reading" => reply[t] = None
        /\ \A i \in 1..Len(client_rx) : QueuedRequest(i, t) =>
               /\ request_task[t] = "awaiting"
               /\ pending[t] = None
               /\ reply[t] = None
               /\ \A j \in 1..Len(client_rx) : QueuedRequest(j, t) => j = i

RequestInv == RequestLife /\ PendingHasWaiter

\* A step that queues no request, makes none pending, and takes waiters and sends
\* decisions only for requests it removes.
LEMMA RequestsKept ==
    ASSUME TypeOK, RequestInv, NEW k \in {0, 1},
           \A i \in 1..Len(client_rx') : client_rx'[i].type = "PermissionRequest" =>
               i + k \in 1..Len(client_rx) /\ client_rx'[i] = client_rx[i + k],
           request_task' = request_task,
           \A t \in Tools : pending'[t] = pending[t] \/ pending'[t] = None,
           \A t \in Tools : pending'[t] # None => permission_waiters \cap {t} \subseteq permission_waiters',
           \A t \in Tools : reply'[t] # reply[t] => pending[t] # None /\ pending'[t] = None,
           \A t \in Tools : phase'[t] \in {"new", "started"} => phase[t] \in {"new", "started"}
    PROVE  RequestInv'
  <1>1. ASSUME NEW t \in Tools, NEW i \in 1..Len(client_rx'), QueuedRequest(i, t)'
        PROVE  i + k \in 1..Len(client_rx) /\ QueuedRequest(i + k, t)
    BY <1>1 DEF QueuedRequest
  <1>2. RequestLife'
    <2> SUFFICES ASSUME NEW t \in Tools
                 PROVE  /\ phase'[t] \in {"new", "started"} => request_task'[t] = "none" /\ reply'[t] = None
                        /\ request_task'[t] # "awaiting" => pending'[t] = None
                        /\ request_task'[t] = "reading" => reply'[t] = None
                        /\ \A i \in 1..Len(client_rx') : QueuedRequest(i, t)' =>
                               /\ request_task'[t] = "awaiting"
                               /\ pending'[t] = None
                               /\ reply'[t] = None
                               /\ \A j \in 1..Len(client_rx') : QueuedRequest(j, t)' => j = i
      BY DEF RequestLife
    <2>1. phase'[t] \in {"new", "started"} => request_task'[t] = "none" /\ reply'[t] = None
      BY DEF RequestInv, RequestLife
    <2>2. /\ request_task'[t] # "awaiting" => pending'[t] = None
          /\ request_task'[t] = "reading" => reply'[t] = None
      BY DEF RequestInv, RequestLife
    <2>3. ASSUME NEW i \in 1..Len(client_rx'), QueuedRequest(i, t)'
          PROVE  /\ request_task'[t] = "awaiting"
                 /\ pending'[t] = None
                 /\ reply'[t] = None
                 /\ \A j \in 1..Len(client_rx') : QueuedRequest(j, t)' => j = i
      <3>1. i + k \in 1..Len(client_rx) /\ QueuedRequest(i + k, t)
        BY <1>1, <2>3
      <3>2. request_task[t] = "awaiting" /\ pending[t] = None /\ reply[t] = None
        BY <3>1 DEF RequestInv, RequestLife
      <3>3. ASSUME NEW j \in 1..Len(client_rx'), QueuedRequest(j, t)' PROVE j = i
        <4>1. j + k \in 1..Len(client_rx) /\ QueuedRequest(j + k, t)
          BY <1>1, <3>3
        <4>2. j + k = i + k
          BY <3>1, <4>1 DEF RequestInv, RequestLife
        <4> QED
          BY <4>2
      <3> QED
        BY <3>2, <3>3
    <2> QED
      BY <2>1, <2>2, <2>3
  <1>3. PendingHasWaiter'
    BY DEF RequestInv, PendingHasWaiter
  <1> QED
    BY <1>2, <1>3 DEF RequestInv

\* The same for steps that leave the loop's variables alone.
LEMMA RequestsUntouched ==
    ASSUME TypeOK, RequestInv, NEW k \in {0, 1},
           \A i \in 1..Len(client_rx') : client_rx'[i].type = "PermissionRequest" =>
               i + k \in 1..Len(client_rx) /\ client_rx'[i] = client_rx[i + k],
           UNCHANGED <<request_task, pending, permission_waiters, reply>>,
           \A t \in Tools : phase'[t] \in {"new", "started"} => phase[t] \in {"new", "started"}
    PROVE  RequestInv'
  <1>1. /\ \A t \in Tools : pending'[t] = pending[t] \/ pending'[t] = None
        /\ \A t \in Tools : pending'[t] # None => permission_waiters \cap {t} \subseteq permission_waiters'
        /\ \A t \in Tools : reply'[t] # reply[t] => pending[t] # None /\ pending'[t] = None
    OBVIOUS
  <1> QED
    BY <1>1, RequestsKept

\* A hook event takes the waiters of the requests it resolves, and only those.
LEMMA RequestHook ==
    ASSUME TypeOK, RequestInv, NEW e, HandleHookEvent(e) PROVE RequestInv'
  <1>1. e \in HookEnvelope
    BY DEF TypeOK, HandleHookEvent
  <1>2. e.session # None
    BY <1>1, HookEnvelopeType, NoneIsNoValue
  <1> DEFINE moved == RequestsOf(pending, {e.session})
  <1>3. /\ client_rx' = client_rx /\ request_task' = request_task /\ phase' = phase
        /\ pending' = RemoveRequests(pending, moved)
        /\ permission_waiters' = permission_waiters \ moved
        /\ reply' = [t \in Tools |-> IF t \in moved \cap permission_waiters
                                     THEN "allow" ELSE reply[t]]
    BY DEF HandleHookEvent, claudeVars
  <1>4. \A t \in moved : pending[t] # None
    BY <1>2 DEF RequestsOf
  <1> HIDE DEF moved
  <1>5. /\ \A t \in Tools : pending'[t] = pending[t] \/ pending'[t] = None
        /\ \A t \in Tools : pending'[t] # None => permission_waiters \cap {t} \subseteq permission_waiters'
        /\ \A t \in Tools : reply'[t] # reply[t] => pending[t] # None /\ pending'[t] = None
    BY <1>3, <1>4 DEF RemoveRequests
  <1> QED
    BY <1>3, <1>5, SameFrom, RequestsKept

\* An answer takes the waiter of a pending request together with the request.
LEMMA RequestResponse == TypeOK /\ RequestInv /\ HandlePermissionResponse => RequestInv'
  <1> SUFFICES ASSUME TypeOK, RequestInv, HandlePermissionResponse PROVE RequestInv'
    OBVIOUS
  <1>1. Receive("PermissionResponse")
    BY DEF HandlePermissionResponse
  <1>2. PICK t : t = Head(client_rx).tool /\ t \in Tools
    BY <1>1, ClientRxPopped, ClientMessageTypes
  <1>3. request_task' = request_task /\ phase' = phase
    BY <1>1 DEF Receive, claudeVars
  <1>4. CASE pending[t] = None
    <2>1. UNCHANGED <<pending, permission_waiters, reply>>
      BY <1>2, <1>4 DEF HandlePermissionResponse
    <2> QED
      BY <1>1, <1>3, <2>1, PoppedFrom, RequestsUntouched
  <1>5. CASE pending[t] # None
    <2>1. /\ pending' = RemoveRequests(pending, {t})
          /\ permission_waiters' = permission_waiters \ {t}
          /\ reply' = reply \/ reply' = [reply EXCEPT ![t] = Head(client_rx).decision]
      BY <1>2, <1>5 DEF HandlePermissionResponse
    <2>2. reply \in [Tools -> Decisions \cup {None}]
      BY DEF TypeOK
    <2>3. /\ \A x \in Tools : pending'[x] = pending[x] \/ pending'[x] = None
          /\ \A x \in Tools : pending'[x] # None => permission_waiters \cap {x} \subseteq permission_waiters'
          /\ \A x \in Tools : reply'[x] # reply[x] => pending[x] # None /\ pending'[x] = None
      BY <1>2, <1>5, <2>1, <2>2 DEF RemoveRequests
    <2> QED
      BY <1>1, <1>3, <2>3, PoppedFrom, RequestsKept
  <1> QED
    BY <1>4, <1>5

\* Removing a wrapper removes requests but keeps their waiters.
LEMMA RequestUnregister == TypeOK /\ RequestInv /\ HandleUnregisterWrapper => RequestInv'
  <1> SUFFICES ASSUME TypeOK, RequestInv, HandleUnregisterWrapper PROVE RequestInv'
    OBVIOUS
  <1>1. Receive("UnregisterWrapper")
    BY DEF HandleUnregisterWrapper
  <1>2. request_task' = request_task /\ phase' = phase
    BY <1>1 DEF Receive, claudeVars
  <1>3. /\ permission_waiters' = permission_waiters /\ reply' = reply
        /\ \E T : pending' = RemoveRequests(pending, T)
    BY DEF HandleUnregisterWrapper
  <1>4. /\ \A x \in Tools : pending'[x] = pending[x] \/ pending'[x] = None
        /\ \A x \in Tools : pending'[x] # None => permission_waiters \cap {x} \subseteq permission_waiters'
        /\ \A x \in Tools : reply'[x] # reply[x] => pending[x] # None /\ pending'[x] = None
    BY <1>3 DEF RemoveRequests
  <1> QED
    BY <1>1, <1>2, <1>4, PoppedFrom, RequestsKept

\* The request at the head of the queue becomes pending: it is the only copy, and
\* nothing has been sent to its task.
LEMMA RequestRequest == TypeOK /\ RequestInv /\ HandlePermissionRequest => RequestInv'
  <1> SUFFICES ASSUME TypeOK, RequestInv, HandlePermissionRequest PROVE RequestInv'
    OBVIOUS
  <1>1. Receive("PermissionRequest")
    BY DEF HandlePermissionRequest
  <1>2. PICK t : t = Head(client_rx).tool /\ t \in Tools
    BY <1>1, ClientRxPopped, ClientMessageTypes
  <1>3. 1 \in 1..Len(client_rx) /\ QueuedRequest(1, t)
    BY <1>1, <1>2, ClientRxPopped DEF QueuedRequest
  <1>4. /\ request_task[t] = "awaiting" /\ reply[t] = None
        /\ \A j \in 1..Len(client_rx) : QueuedRequest(j, t) => j = 1
    BY <1>2, <1>3 DEF RequestInv, RequestLife
  <1>5. request_task' = request_task /\ phase' = phase
    BY <1>1 DEF Receive, claudeVars
  <1>6. /\ pending' = [pending EXCEPT ![t] = AgentOf[t]]
        /\ permission_waiters' = permission_waiters \cup {t}
        /\ reply' = reply
    BY <1>2 DEF HandlePermissionRequest
  <1>7. ASSUME NEW x \in Tools, x # t PROVE pending'[x] = pending[x]
    BY <1>6, <1>7 DEF TypeOK, PendingTable
  <1>8. ASSUME NEW x \in Tools, NEW i \in 1..Len(client_rx'), QueuedRequest(i, x)'
        PROVE  i + 1 \in 1..Len(client_rx) /\ QueuedRequest(i + 1, x) /\ x # t
    <2>1. i + 1 \in 1..Len(client_rx) /\ QueuedRequest(i + 1, x)
      BY <1>1, <1>8, PoppedFrom DEF QueuedRequest
    <2>2. x # t
      BY <1>4, <2>1
    <2> QED
      BY <2>1, <2>2
  <1>9. RequestLife'
    <2> SUFFICES ASSUME NEW x \in Tools
                 PROVE  /\ phase'[x] \in {"new", "started"} => request_task'[x] = "none" /\ reply'[x] = None
                        /\ request_task'[x] # "awaiting" => pending'[x] = None
                        /\ request_task'[x] = "reading" => reply'[x] = None
                        /\ \A i \in 1..Len(client_rx') : QueuedRequest(i, x)' =>
                               /\ request_task'[x] = "awaiting"
                               /\ pending'[x] = None
                               /\ reply'[x] = None
                               /\ \A j \in 1..Len(client_rx') : QueuedRequest(j, x)' => j = i
      BY DEF RequestLife
    <2>1. phase'[x] \in {"new", "started"} => request_task'[x] = "none" /\ reply'[x] = None
      BY <1>5, <1>6 DEF RequestInv, RequestLife
    <2>2. /\ request_task'[x] # "awaiting" => pending'[x] = None
          /\ request_task'[x] = "reading" => reply'[x] = None
      BY <1>4, <1>5, <1>6, <1>7 DEF RequestInv, RequestLife
    <2>3. ASSUME NEW i \in 1..Len(client_rx'), QueuedRequest(i, x)'
          PROVE  /\ request_task'[x] = "awaiting"
                 /\ pending'[x] = None
                 /\ reply'[x] = None
                 /\ \A j \in 1..Len(client_rx') : QueuedRequest(j, x)' => j = i
      <3>1. i + 1 \in 1..Len(client_rx) /\ QueuedRequest(i + 1, x) /\ x # t
        BY <1>8, <2>3
      <3>2. request_task[x] = "awaiting" /\ pending[x] = None /\ reply[x] = None
        BY <3>1 DEF RequestInv, RequestLife
      <3>3. ASSUME NEW j \in 1..Len(client_rx'), QueuedRequest(j, x)' PROVE j = i
        <4>1. j + 1 \in 1..Len(client_rx) /\ QueuedRequest(j + 1, x)
          BY <1>8, <3>3
        <4>2. j + 1 = i + 1
          BY <3>1, <4>1 DEF RequestInv, RequestLife
        <4> QED
          BY <4>2
      <3> QED
        BY <1>5, <1>6, <1>7, <3>1, <3>2, <3>3
    <2> QED
      BY <2>1, <2>2, <2>3
  <1>10. PendingHasWaiter'
    BY <1>4, <1>5, <1>6, <1>7 DEF RequestInv, PendingHasWaiter
  <1> QED
    BY <1>9, <1>10 DEF RequestInv

\* A hook's task queues its request, for the first time.
LEMMA RequestTask ==
    ASSUME TypeOK, RequestInv, NEW t \in Tools, TaskRequest(t) PROVE RequestInv'
  <1>1. PICK m : m = [type |-> "PermissionRequest", tool |-> t]
    OBVIOUS
  <1>2. m \in ClientMessage /\ Enqueue(m) /\ m.tool = t
    BY <1>1, MessagesAreTyped DEF TaskRequest
  <1>3. request_task[t] = "reading"
    BY DEF TaskRequest
  <1>4. /\ pending[t] = None /\ reply[t] = None
        /\ \A i \in 1..Len(client_rx) : ~QueuedRequest(i, t)
    BY <1>3 DEF RequestInv, RequestLife
  <1>5. UNCHANGED <<pending, permission_waiters, reply, phase>>
    BY DEF TaskRequest, loopVars, claudeVars
  <1>6. /\ request_task'[t] = "awaiting"
        /\ \A x \in Tools : x # t => request_task'[x] = request_task[x]
    BY DEF TaskRequest, TypeOK
  <1>7. ASSUME NEW x \in Tools, NEW i \in 1..Len(client_rx'), QueuedRequest(i, x)'
        PROVE  \/ i \in 1..Len(client_rx) /\ QueuedRequest(i, x) /\ x # t
               \/ i = Len(client_rx) + 1 /\ x = t
    <2>1. CASE i = Len(client_rx) + 1
      <3>1. client_rx'[i] = m
        BY <1>2, <2>1, ClientRxPushed
      <3> QED
        BY <1>2, <1>7, <2>1, <3>1 DEF QueuedRequest
    <2>2. CASE i \in 1..Len(client_rx)
      <3>1. client_rx'[i] = client_rx[i]
        BY <1>2, <2>2, ClientRxPushed
      <3>2. QueuedRequest(i, x)
        BY <1>7, <3>1 DEF QueuedRequest
      <3> QED
        BY <1>4, <2>2, <3>2
    <2> QED
      BY <1>2, <2>1, <2>2, ClientRxPushed
  <1>8. RequestLife'
    <2> SUFFICES ASSUME NEW x \in Tools
                 PROVE  /\ phase'[x] \in {"new", "started"} => request_task'[x] = "none" /\ reply'[x] = None
                        /\ request_task'[x] # "awaiting" => pending'[x] = None
                        /\ request_task'[x] = "reading" => reply'[x] = None
                        /\ \A i \in 1..Len(client_rx') : QueuedRequest(i, x)' =>
                               /\ request_task'[x] = "awaiting"
                               /\ pending'[x] = None
                               /\ reply'[x] = None
                               /\ \A j \in 1..Len(client_rx') : QueuedRequest(j, x)' => j = i
      BY DEF RequestLife
    <2>1. phase'[x] \in {"new", "started"} => request_task'[x] = "none" /\ reply'[x] = None
      BY <1>3, <1>5, <1>6 DEF RequestInv, RequestLife
    <2>2. /\ request_task'[x] # "awaiting" => pending'[x] = None
          /\ request_task'[x] = "reading" => reply'[x] = None
      BY <1>5, <1>6 DEF RequestInv, RequestLife
    <2>3. ASSUME NEW i \in 1..Len(client_rx'), QueuedRequest(i, x)'
          PROVE  /\ request_task'[x] = "awaiting"
                 /\ pending'[x] = None
                 /\ reply'[x] = None
                 /\ \A j \in 1..Len(client_rx') : QueuedRequest(j, x)' => j = i
      <3>1. CASE x = t
        <4>1. \A j \in 1..Len(client_rx') : QueuedRequest(j, x)' => j = Len(client_rx) + 1
          BY <1>7, <3>1
        <4> QED
          BY <1>4, <1>5, <1>6, <2>3, <3>1, <4>1
      <3>2. CASE x # t
        <4>1. \A j \in 1..Len(client_rx') : QueuedRequest(j, x)' =>
                  j \in 1..Len(client_rx) /\ QueuedRequest(j, x)
          BY <1>7, <3>2
        <4>2. /\ request_task[x] = "awaiting" /\ pending[x] = None /\ reply[x] = None
              /\ \A j \in 1..Len(client_rx) : QueuedRequest(j, x) => j = i
          BY <2>3, <4>1 DEF RequestInv, RequestLife
        <4> QED
          BY <1>5, <1>6, <3>2, <4>1, <4>2
      <3> QED
        BY <3>1, <3>2
    <2> QED
      BY <2>1, <2>2, <2>3
  <1>9. PendingHasWaiter'
    BY <1>5, <1>6 DEF RequestInv, PendingHasWaiter
  <1> QED
    BY <1>8, <1>9 DEF RequestInv

\* Other messages of other tasks.
LEMMA RequestTasks == TypeInv /\ RequestInv /\ (Tasks \/ Clients) => RequestInv'
  <1> SUFFICES ASSUME TypeInv, RequestInv, Tasks \/ Clients, ~(\E t \in Tools : TaskRequest(t))
               PROVE  RequestInv'
    BY RequestTask DEF TypeInv
  <1>1. UNCHANGED <<request_task, pending, permission_waiters, reply, phase>>
    BY DEF Tasks, Clients, TaskRegister, TaskDeliver, TaskUnregister, TaskBye,
       TaskRespond, TaskPrompt, loopVars, claudeVars
  <1>2. \A i \in 1..Len(client_rx') : client_rx'[i].type = "PermissionRequest" =>
            i + 0 \in 1..Len(client_rx) /\ client_rx'[i] = client_rx[i + 0]
    <2>1. CASE \E m \in ClientMessage : m.type # "PermissionRequest" /\ Enqueue(m)
      BY <2>1, PushedFrom DEF TypeInv
    <2>2. CASE client_rx' = client_rx
      BY <2>2, SameFrom DEF TypeInv
    <2>3. ASSUME NEW t \in Tools, NEW d \in Decisions, TaskRespond(t, d)
          PROVE  \E m \in ClientMessage : m.type # "PermissionRequest" /\ Enqueue(m)
      <3>1. [type |-> "PermissionResponse", tool |-> t, decision |-> d] \in ClientMessage
        BY MessagesAreTyped
      <3> QED
        BY <2>3, <3>1 DEF TaskRespond
    <2> QED
      BY <2>1, <2>2, <2>3, TaskSends
  <1> QED
    BY <1>1, <1>2, RequestsUntouched DEF TypeInv

\* Registrations and prompts.
LEMMA RequestClient == TypeOK /\ RequestInv /\ HandleClient => RequestInv'
  <1> SUFFICES ASSUME TypeOK, RequestInv, HandleRegisterWrapper \/ HandleSendPrompt
               PROVE  RequestInv'
    BY RequestRequest, RequestResponse, RequestUnregister DEF HandleClient
  <1>1. PICK type : Receive(type)
    BY DEF HandleRegisterWrapper, HandleSendPrompt
  <1>2. UNCHANGED <<request_task, phase>>
    BY <1>1 DEF Receive, claudeVars
  <1>3. UNCHANGED <<pending, permission_waiters, reply>>
    BY DEF HandleRegisterWrapper, HandleSendPrompt
  <1> QED
    BY <1>1, <1>2, <1>3, PoppedFrom, RequestsUntouched

\* A tool call asks once: its task is new, or there is none.
LEMMA RequestAsk ==
    ASSUME TypeOK, RequestInv, NEW t \in Tools, ToolAsk(t) PROVE RequestInv'
  <1>1. /\ client_rx' = client_rx
        /\ UNCHANGED <<pending, permission_waiters, reply>>
    BY DEF ToolAsk, ToolStep, claudeKeeps, loopVars
  <1>2. request_task[t] = "none" /\ reply[t] = None
    BY DEF RequestInv, RequestLife, ToolAsk, ToolStep
  <1>3. /\ pending[t] = None /\ reply[t] = None
        /\ \A i \in 1..Len(client_rx) : ~QueuedRequest(i, t)
    BY <1>2 DEF RequestInv, RequestLife
  <1>4. /\ phase'[t] = "asking"
        /\ \A x \in Tools : x # t => phase'[x] = phase[x] /\ request_task'[x] = request_task[x]
    BY DEF ToolAsk, ToolStep, TypeOK
  <1>5. \A i, x : QueuedRequest(i, x)' <=> QueuedRequest(i, x)
    BY <1>1 DEF QueuedRequest
  <1>6. RequestLife'
    BY <1>1, <1>3, <1>4, <1>5 DEF RequestInv, RequestLife
  <1>7. PendingHasWaiter'
    BY <1>1, <1>3, <1>4 DEF RequestInv, PendingHasWaiter
  <1> QED
    BY <1>6, <1>7 DEF RequestInv

\* Claude's other steps start no request and reopen none.
LEMMA RequestClaude == TypeOK /\ RequestInv /\ Claude => RequestInv'
  <1> SUFFICES ASSUME TypeOK, RequestInv, Claude, ~(\E t \in Tools : ToolAsk(t))
               PROVE  RequestInv'
    BY RequestAsk
  <1>1. UNCHANGED claudeKeeps
    BY DEF Claude, AgentStart, AgentStop, AgentEnd, ToolStart, ToolRun,
       ToolDecide, ToolTerminal, ToolEnd, ToolStep
  <1>2. request_task' = request_task
    BY DEF Claude, AgentStart, AgentStop, AgentEnd, ToolStart, ToolRun,
       ToolDecide, ToolTerminal, ToolEnd
  <1>3. \A x \in Tools : phase'[x] \in {"new", "started"} => phase[x] \in {"new", "started"}
    <2>1. CASE \E a \in Agents : AgentStart(a) \/ AgentStop(a) \/ AgentEnd(a)
      BY <2>1 DEF AgentStart, AgentStop, AgentEnd, InProgress, claudeVars
    <2>2. CASE \E t \in Tools : ToolStart(t) \/ ToolRun(t) \/ ToolDecide(t) \/ ToolTerminal(t)
                                \/ ToolEnd(t)
      <3>1. PICK t \in Tools : \/ phase[t] \in {"new", "started"} /\ (\E to : phase' = [phase EXCEPT ![t] = to])
                               \/ \E to \in {"running", "done", "prompt"} : phase' = [phase EXCEPT ![t] = to]
        BY <2>2 DEF ToolStart, ToolRun, ToolDecide, ToolTerminal, ToolEnd, ToolStep
      <3> QED
        BY <3>1 DEF TypeOK
    <2> QED
      BY <2>1, <2>2 DEF Claude
  <1>4. client_rx' = client_rx /\ UNCHANGED <<pending, permission_waiters, reply>>
    BY <1>1 DEF claudeKeeps, loopVars
  <1> QED
    BY <1>2, <1>3, <1>4, SameFrom, RequestsUntouched

\* A crash forgets every request, and no hook asks again.
LEMMA RequestCrash == TypeOK /\ RequestInv /\ DaemonCrash => RequestInv'
  <1> SUFFICES ASSUME TypeOK, RequestInv, DaemonCrash PROVE RequestInv'
    OBVIOUS
  <1>1. /\ Len(client_rx') = 0
        /\ \A t \in Tools : pending'[t] = None /\ request_task'[t] = "none"
        /\ UNCHANGED <<reply, phase>>
    BY EmptySeq DEF DaemonCrash, NoRequests, claudeVars
  <1>2. RequestLife'
    BY <1>1 DEF RequestInv, RequestLife
  <1>3. PendingHasWaiter'
    BY <1>1 DEF PendingHasWaiter
  <1> QED
    BY <1>2, <1>3 DEF RequestInv

\* Every step keeps the life of requests in order.
LEMMA RequestStep == TypeInv /\ RequestInv /\ [Next]_vars => RequestInv'
  <1> SUFFICES ASSUME TypeInv, RequestInv, [Next]_vars PROVE RequestInv'
    OBVIOUS
  <1>0. TypeOK
    BY DEF TypeInv
  <1>1. CASE HandleHook
    BY <1>0, <1>1, RequestHook DEF HandleHook
  <1>2. CASE HandleClient
    BY <1>0, <1>2, RequestClient
  <1>3. CASE Tasks \/ Clients
    BY <1>3, RequestTasks
  <1>4. CASE Claude
    BY <1>0, <1>4, RequestClaude
  <1>5. CASE DaemonCrash
    BY <1>0, <1>5, RequestCrash
  <1>6. CASE WriteStateFile \/ Hooks \/ WrapperProcs \/ DaemonRestart \/ UNCHANGED vars
    <2>1. /\ client_rx' = client_rx
          /\ UNCHANGED <<request_task, pending, permission_waiters, reply, phase>>
      BY <1>6 DEF WriteStateFile, Hooks, HookRead, HookGiveUp, WrapperProcs, DaemonRestart,
         WrapperStart, ListenerEof, Reconnect, WrapperExit, WrapperDie, vars, loopVars, claudeVars
    <2> QED
      BY <1>0, <2>1, SameFrom, RequestsUntouched
  <1> QED
    BY <1>1, <1>2, <1>3, <1>4, <1>5, <1>6 DEF Next

\* The life of requests is in order in every reachable state.
LEMMA RequestInvHolds == Spec => []RequestInv
  <1>1. Init => RequestInv
    BY EmptySeq DEF Init, RequestInv, RequestLife, PendingHasWaiter, NoRequests
  <1> QED
    BY <1>1, RequestStep, TypeInvHolds, PTL DEF Spec

\* A request shown as pending can still be decided, in every instance: its waiter
\* is held, its task waits, and nothing has been sent to it.
THEOREM PendingHasWaiterHolds == Spec => []PendingHasWaiter
  <1>1. RequestInv => PendingHasWaiter
    BY DEF RequestInv
  <1> QED
    BY <1>1, RequestInvHolds, PTL

\* Only a pending request is decided, and a decided one is not pending.
LEMMA DecidesPending ==
    ASSUME TypeInv, RequestInv, [Next]_vars, NEW t \in Tools, reply[t] # None
    PROVE  reply'[t] = reply[t]
  <1>0. TypeOK /\ pending[t] = None
    BY DEF TypeInv, RequestInv, PendingHasWaiter
  <1>1. CASE HandleHook
    <2>1. PICK e : HandleHookEvent(e)
      BY <1>1 DEF HandleHook
    <2>2. e \in HookEnvelope
      BY <1>0, <2>1 DEF TypeOK, HandleHookEvent
    <2>3. t \notin RequestsOf(pending, {e.session})
      BY <1>0, <2>2, HookEnvelopeType, NoneIsNoValue DEF RequestsOf
    <2> QED
      BY <2>1, <2>3 DEF HandleHookEvent
  <1>2. CASE HandleClient
    <2>1. CASE HandlePermissionResponse
      <3>1. \/ reply' = reply
            \/ /\ pending[Head(client_rx).tool] # None
               /\ reply' = [reply EXCEPT ![Head(client_rx).tool] = Head(client_rx).decision]
        BY <2>1 DEF HandlePermissionResponse
      <3> QED
        BY <1>0, <3>1 DEF TypeOK
    <2>2. CASE ~HandlePermissionResponse
      BY <1>2, <2>2 DEF HandleClient, HandlePermissionRequest,
         HandleRegisterWrapper, HandleUnregisterWrapper, HandleSendPrompt
    <2> QED
      BY <2>1, <2>2
  <1>3. CASE DaemonCrash
    BY <1>3 DEF DaemonCrash
  <1>4. CASE Claude
    <2>1. UNCHANGED claudeKeeps
      BY <1>4 DEF Claude, AgentStart, AgentStop, AgentEnd, ToolStart, ToolAsk, ToolRun,
         ToolDecide, ToolTerminal, ToolEnd, ToolStep
    <2> QED
      BY <2>1 DEF claudeKeeps
  <1>5. CASE \/ Tasks \/ Clients \/ WriteStateFile \/ Hooks \/ WrapperProcs \/ DaemonRestart
             \/ UNCHANGED vars
    <2>1. reply' = reply
      BY <1>5 DEF Tasks, Clients, TaskRequest, TaskRegister, TaskDeliver, TaskUnregister,
         TaskBye, TaskRespond, TaskPrompt, WriteStateFile, Hooks, HookRead, HookGiveUp,
         WrapperProcs, DaemonRestart, WrapperStart, ListenerEof, Reconnect, WrapperExit,
         WrapperDie, vars
    <2> QED
      BY <2>1
  <1> QED
    BY <1>1, <1>2, <1>3, <1>4, <1>5 DEF Next

\* Of several answers the first one handled stands: what a hook's task was sent
\* is not changed by later answers, hook events, crashes or restarts.
THEOREM FirstDecisionStandsHolds == Spec => FirstDecisionStands
  <1>1. TypeInv /\ RequestInv /\ [Next]_vars
        => [\A t \in Tools : reply[t] # None => reply'[t] = reply[t]]_vars
    BY DecidesPending
  <1> QED
    BY <1>1, TypeInvHolds, RequestInvHolds, PTL DEF Spec, FirstDecisionStands

------------------------------------------------------------------------------
(* The daemon implements the life of a permission request (Permission),    *)
(* for every instance: each step is one of its steps or a stutter.         *)

\* What the mapping needs beside the life of requests: shown records the requests
\* that were taken from the queue, and only a hook that asked has a request.
RequestHistory ==
    \A t \in Tools :
        /\ phase[t] \in {"new", "started"} => hook[t] = "none"
        /\ hook[t] = "none" => request_task[t] = "none" /\ t \notin shown
        /\ request_task[t] = "reading" => t \notin shown
        /\ t \notin shown => pending[t] = None /\ reply[t] = None
        /\ pending[t] \in {None, AgentOf[t]}
        /\ \A i \in 1..Len(client_rx) : QueuedRequest(i, t) => t \notin shown

MapInv == TypeInv /\ DecisionInv /\ RequestInv /\ RequestHistory

-----------------------------------------------------------------------------
(* The history is kept.                                                    *)

\* A step that queues and announces no request, and decides only pending ones.
LEMMA HistoryKept ==
    ASSUME RequestHistory, NEW k \in {0, 1},
           \A i \in 1..Len(client_rx') : client_rx'[i].type = "PermissionRequest" =>
               i + k \in 1..Len(client_rx) /\ client_rx'[i] = client_rx[i + k],
           request_task' = request_task, shown' = shown,
           \A t \in Tools : pending'[t] = pending[t] \/ pending'[t] = None,
           \A t \in Tools : reply'[t] # reply[t] => pending[t] # None,
           \A t \in Tools : hook'[t] = "none" <=> hook[t] = "none",
           \A t \in Tools : phase'[t] \in {"new", "started"} => phase[t] \in {"new", "started"}
    PROVE  RequestHistory'
  <1> SUFFICES ASSUME NEW t \in Tools
               PROVE  /\ phase'[t] \in {"new", "started"} => hook'[t] = "none"
                      /\ hook'[t] = "none" => request_task'[t] = "none" /\ t \notin shown'
                      /\ request_task'[t] = "reading" => t \notin shown'
                      /\ t \notin shown' => pending'[t] = None /\ reply'[t] = None
                      /\ pending'[t] \in {None, AgentOf[t]}
                      /\ \A i \in 1..Len(client_rx') : QueuedRequest(i, t)' => t \notin shown'
    BY DEF RequestHistory
  <1>1. ASSUME NEW i \in 1..Len(client_rx'), QueuedRequest(i, t)'
        PROVE  t \notin shown'
    <2>1. i + k \in 1..Len(client_rx) /\ QueuedRequest(i + k, t)
      BY <1>1 DEF QueuedRequest
    <2> QED
      BY <2>1 DEF RequestHistory
  <1>2. /\ phase'[t] \in {"new", "started"} => hook'[t] = "none"
        /\ hook'[t] = "none" => request_task'[t] = "none" /\ t \notin shown'
        /\ request_task'[t] = "reading" => t \notin shown'
    BY DEF RequestHistory
  <1>3. /\ t \notin shown' => pending'[t] = None /\ reply'[t] = None
        /\ pending'[t] \in {None, AgentOf[t]}
    BY DEF RequestHistory
  <1> QED
    BY <1>1, <1>2, <1>3

\* A hook event resolves pending requests.
LEMMA HistoryHook == ASSUME MapInv, NEW e, HandleHookEvent(e) PROVE RequestHistory'
  <1>0. e.session # None /\ TypeOK
    BY HookEnvelopeType, NoneIsNoValue DEF MapInv, TypeInv, TypeOK, HandleHookEvent
  <1> DEFINE moved == RequestsOf(pending, {e.session})
  <1>1. /\ client_rx' = client_rx /\ request_task' = request_task /\ phase' = phase
        /\ shown' = shown /\ hook' = hook
        /\ pending' = RemoveRequests(pending, moved)
        /\ reply' = [t \in Tools |-> IF t \in moved \cap permission_waiters
                                     THEN "allow" ELSE reply[t]]
    BY DEF HandleHookEvent, claudeVars
  <1>2. \A t \in moved : pending[t] # None
    BY <1>0 DEF RequestsOf
  <1> HIDE DEF moved
  <1>3. /\ \A t \in Tools : pending'[t] = pending[t] \/ pending'[t] = None
        /\ \A t \in Tools : reply'[t] # reply[t] => pending[t] # None
    BY <1>1, <1>2 DEF RemoveRequests
  <1> QED
    BY <1>0, <1>1, <1>3, SameFrom, HistoryKept DEF MapInv

\* Answers decide pending requests; the other messages decide and announce none.
LEMMA HistoryClient ==
    ASSUME MapInv, HandleClient, ~HandlePermissionRequest PROVE RequestHistory'
  <1>0. TypeOK /\ RequestHistory
    BY DEF MapInv, TypeInv
  <1>1. PICK type : Receive(type)
    BY DEF HandleClient, HandlePermissionResponse,
       HandleRegisterWrapper, HandleUnregisterWrapper, HandleSendPrompt
  <1>2. UNCHANGED <<request_task, phase, hook>>
    BY <1>1 DEF Receive, claudeVars
  <1>3. shown' = shown
    BY DEF HandleClient, HandlePermissionResponse,
       HandleRegisterWrapper, HandleUnregisterWrapper, HandleSendPrompt, ghosts
  <1>4. pending' = pending \/ \E T : pending' = RemoveRequests(pending, T)
    BY DEF HandleClient, HandlePermissionResponse,
       HandleRegisterWrapper, HandleUnregisterWrapper, HandleSendPrompt
  <1>5. \/ reply' = reply
        \/ /\ pending[Head(client_rx).tool] # None
           /\ reply' = [reply EXCEPT ![Head(client_rx).tool] = Head(client_rx).decision]
    BY DEF HandleClient, HandlePermissionResponse,
       HandleRegisterWrapper, HandleUnregisterWrapper, HandleSendPrompt
  <1>6. \A t \in Tools : pending'[t] = pending[t] \/ pending'[t] = None
    BY <1>4 DEF RemoveRequests
  <1>7. \A t \in Tools : reply'[t] # reply[t] => pending[t] # None
    BY <1>0, <1>5 DEF TypeOK
  <1> QED
    BY <1>0, <1>1, <1>2, <1>3, <1>6, <1>7, PoppedFrom, HistoryKept

\* The request at the head of the queue is announced; it was the only copy.
LEMMA HistoryRequest == ASSUME MapInv, HandlePermissionRequest PROVE RequestHistory'
  <1>0. TypeOK
    BY DEF MapInv, TypeInv
  <1>1. Receive("PermissionRequest")
    BY DEF HandlePermissionRequest
  <1>2. PICK t : t = Head(client_rx).tool /\ t \in Tools
    BY <1>0, <1>1, ClientRxPopped, ClientMessageTypes
  <1>3. 1 \in 1..Len(client_rx) /\ QueuedRequest(1, t)
    BY <1>0, <1>1, <1>2, ClientRxPopped DEF QueuedRequest
  <1>4. /\ request_task[t] = "awaiting"
        /\ \A j \in 1..Len(client_rx) : QueuedRequest(j, t) => j = 1
    BY <1>2, <1>3 DEF MapInv, RequestInv, RequestLife
  <1>5. UNCHANGED <<request_task, phase, hook>>
    BY <1>1 DEF Receive, claudeVars
  <1>6. /\ pending' = [pending EXCEPT ![t] = AgentOf[t]]
        /\ shown' = shown \cup {t} /\ reply' = reply
    BY <1>2 DEF HandlePermissionRequest
  <1>7. /\ pending'[t] = AgentOf[t]
        /\ \A x \in Tools : x # t => pending'[x] = pending[x]
    BY <1>0, <1>2, <1>6 DEF TypeOK, PendingTable
  <1>8. ASSUME NEW x \in Tools, NEW i \in 1..Len(client_rx'), QueuedRequest(i, x)'
        PROVE  x # t /\ x \notin shown
    <2>1. i + 1 \in 1..Len(client_rx) /\ QueuedRequest(i + 1, x)
      BY <1>0, <1>1, <1>8, PoppedFrom DEF QueuedRequest
    <2> QED
      BY <1>4, <2>1 DEF MapInv, RequestHistory
  <1>9. ASSUME NEW x \in Tools
        PROVE  /\ phase'[x] \in {"new", "started"} => hook'[x] = "none"
               /\ hook'[x] = "none" => request_task'[x] = "none" /\ x \notin shown'
               /\ request_task'[x] = "reading" => x \notin shown'
               /\ x \notin shown' => pending'[x] = None /\ reply'[x] = None
               /\ pending'[x] \in {None, AgentOf[x]}
    BY <1>4, <1>5, <1>6, <1>7 DEF MapInv, RequestHistory
  <1> QED
    BY <1>6, <1>8, <1>9 DEF RequestHistory

\* A hook's task queues its request, which was not announced before.
LEMMA HistoryTask ==
    ASSUME MapInv, NEW t \in Tools, TaskRequest(t) PROVE RequestHistory'
  <1>0. TypeOK
    BY DEF MapInv, TypeInv
  <1>1. PICK m : m = [type |-> "PermissionRequest", tool |-> t]
    OBVIOUS
  <1>2. m \in ClientMessage /\ Enqueue(m) /\ m.tool = t
    BY <1>1, MessagesAreTyped DEF TaskRequest
  <1>3. t \notin shown /\ hook[t] # "none"
    BY DEF TaskRequest, MapInv, RequestHistory
  <1>4. UNCHANGED <<pending, reply, phase, hook, shown>>
    BY DEF TaskRequest, loopVars, claudeVars, ghosts
  <1>5. /\ request_task'[t] = "awaiting"
        /\ \A x \in Tools : x # t => request_task'[x] = request_task[x]
    BY <1>0 DEF TaskRequest, TypeOK
  <1>6. ASSUME NEW x \in Tools, NEW i \in 1..Len(client_rx'), QueuedRequest(i, x)'
        PROVE  x \notin shown
    <2>1. CASE i \in 1..Len(client_rx) /\ client_rx'[i] = client_rx[i]
      <3>1. QueuedRequest(i, x)
        BY <1>6, <2>1 DEF QueuedRequest
      <3> QED
        BY <2>1, <3>1 DEF MapInv, RequestHistory
    <2>2. CASE client_rx'[i] = m
      <3>1. x = t
        BY <1>2, <1>6, <2>2 DEF QueuedRequest
      <3> QED
        BY <1>3, <3>1
    <2> QED
      BY <1>0, <1>2, <2>1, <2>2, ClientRxPushed
  <1>7. ASSUME NEW x \in Tools
        PROVE  /\ phase'[x] \in {"new", "started"} => hook'[x] = "none"
               /\ hook'[x] = "none" => request_task'[x] = "none" /\ x \notin shown'
               /\ request_task'[x] = "reading" => x \notin shown'
               /\ x \notin shown' => pending'[x] = None /\ reply'[x] = None
               /\ pending'[x] \in {None, AgentOf[x]}
    BY <1>3, <1>4, <1>5 DEF MapInv, RequestHistory
  <1> QED
    BY <1>4, <1>6, <1>7 DEF RequestHistory

\* The other tasks, and the dashboards.
LEMMA HistoryTasks ==
    ASSUME MapInv, Tasks \/ Clients, ~(\E t \in Tools : TaskRequest(t))
    PROVE  RequestHistory'
  <1>0. TypeInv /\ TypeOK /\ RequestHistory
    BY DEF MapInv, TypeInv
  <1>1. UNCHANGED <<request_task, pending, reply, phase, hook, shown>>
    BY DEF Tasks, Clients, TaskRegister, TaskDeliver, TaskUnregister, TaskBye,
       TaskRespond, TaskPrompt, loopVars, claudeVars, ghosts
  <1>2. \A i \in 1..Len(client_rx') : client_rx'[i].type = "PermissionRequest" =>
            i + 0 \in 1..Len(client_rx) /\ client_rx'[i] = client_rx[i + 0]
    <2>1. CASE \E m \in ClientMessage : m.type # "PermissionRequest" /\ Enqueue(m)
      BY <1>0, <2>1, PushedFrom
    <2>2. CASE client_rx' = client_rx
      BY <1>0, <2>2, SameFrom
    <2>3. ASSUME NEW t \in Tools, NEW d \in Decisions, TaskRespond(t, d)
          PROVE  \E m \in ClientMessage : m.type # "PermissionRequest" /\ Enqueue(m)
      <3>1. [type |-> "PermissionResponse", tool |-> t, decision |-> d] \in ClientMessage
        BY MessagesAreTyped
      <3> QED
        BY <2>3, <3>1 DEF TaskRespond
    <2> QED
      BY <1>0, <2>1, <2>2, <2>3, TaskSends
  <1> QED
    BY <1>0, <1>1, <1>2, HistoryKept

\* A step outside the daemon.
LEMMA HistoryOutside ==
    ASSUME MapInv, client_rx' = client_rx,
           UNCHANGED <<request_task, pending, reply, shown>>,
           \A t \in Tools : hook'[t] = "none" <=> hook[t] = "none",
           \A t \in Tools : phase'[t] \in {"new", "started"} => phase[t] \in {"new", "started"}
    PROVE  RequestHistory'
  BY SameFrom, HistoryKept DEF MapInv, TypeInv

\* A hook that waits goes on having asked.
LEMMA HookStays ==
    ASSUME MapInv, NEW t \in Tools, HookRead(t) \/ HookGiveUp(t)
    PROVE  hook[t] = "waiting" /\ \A x \in Tools : hook'[x] = "none" <=> hook[x] = "none"
  <1>1. /\ hook \in [Tools -> {"none", "waiting", "allow", "deny", "silent"}]
        /\ reply \in [Tools -> Decisions \cup {None}]
    BY DEF MapInv, TypeInv, TypeOK
  <1>2. hook[t] = "waiting"
    BY DEF HookRead, HookGiveUp
  <1>3. \E o \in {"allow", "deny", "silent"} : hook' = [hook EXCEPT ![t] = o]
    BY <1>1 DEF HookRead, HookGiveUp, Decisions
  <1> QED
    BY <1>1, <1>2, <1>3

\* So the history is kept by what hooks do.
LEMMA HistoryHooks == ASSUME MapInv, Hooks PROVE RequestHistory'
  <1>1. PICK t \in Tools : HookRead(t) \/ HookGiveUp(t)
    BY DEF Hooks
  <1>2. \A x \in Tools : hook'[x] = "none" <=> hook[x] = "none"
    BY <1>1, HookStays
  <1>3. /\ client_rx' = client_rx
        /\ UNCHANGED <<request_task, pending, reply, shown, phase>>
    BY <1>1 DEF HookRead, HookGiveUp, loopVars, ghosts, claudeVars
  <1> QED
    BY <1>2, <1>3, HistoryOutside

\* A tool call asks once.
LEMMA HistoryAsk == ASSUME MapInv, NEW t \in Tools, ToolAsk(t) PROVE RequestHistory'
  <1>0. TypeOK
    BY DEF MapInv, TypeInv
  <1>1. client_rx' = client_rx /\ UNCHANGED <<pending, reply, shown>>
    BY DEF ToolAsk, ToolStep, claudeKeeps, loopVars, ghosts
  <1>2. hook[t] = "none" /\ t \notin shown
    BY DEF MapInv, RequestHistory, ToolAsk, ToolStep
  <1>3. /\ phase'[t] = "asking" /\ hook'[t] \in {"waiting", "silent"}
        /\ \A x \in Tools : x # t => /\ phase'[x] = phase[x] /\ hook'[x] = hook[x]
                                     /\ request_task'[x] = request_task[x]
    BY <1>0 DEF ToolAsk, ToolStep, TypeOK
  <1>4. \A i, x : QueuedRequest(i, x)' <=> QueuedRequest(i, x)
    BY <1>1 DEF QueuedRequest
  <1> QED
    BY <1>1, <1>2, <1>3, <1>4 DEF MapInv, RequestHistory

\* Claude's other steps.
LEMMA HistoryClaude ==
    ASSUME MapInv, Claude, ~(\E t \in Tools : ToolAsk(t)) PROVE RequestHistory'
  <1>1. UNCHANGED claudeKeeps
    BY DEF Claude, AgentStart, AgentStop, AgentEnd, ToolStart, ToolRun,
       ToolDecide, ToolTerminal, ToolEnd, ToolStep
  <1>2. UNCHANGED <<request_task, hook>>
    BY DEF Claude, AgentStart, AgentStop, AgentEnd, ToolStart, ToolRun,
       ToolDecide, ToolTerminal, ToolEnd
  <1>3. \A x \in Tools : phase'[x] \in {"new", "started"} => phase[x] \in {"new", "started"}
    <2>1. CASE \E a \in Agents : AgentStart(a) \/ AgentStop(a) \/ AgentEnd(a)
      BY <2>1 DEF AgentStart, AgentStop, AgentEnd, InProgress, claudeVars
    <2>2. CASE \E t \in Tools : ToolStart(t) \/ ToolRun(t) \/ ToolDecide(t) \/ ToolTerminal(t)
                                \/ ToolEnd(t)
      <3>1. PICK t \in Tools : \/ phase[t] \in {"new", "started"} /\ (\E to : phase' = [phase EXCEPT ![t] = to])
                               \/ \E to \in {"running", "done", "prompt"} : phase' = [phase EXCEPT ![t] = to]
        BY <2>2 DEF ToolStart, ToolRun, ToolDecide, ToolTerminal, ToolEnd, ToolStep
      <3> QED
        BY <3>1 DEF MapInv, TypeInv, TypeOK
    <2> QED
      BY <2>1, <2>2 DEF Claude
  <1> QED
    BY <1>1, <1>2, <1>3, HistoryOutside DEF claudeKeeps, loopVars, ghosts

\* A crash leaves no request to announce.
LEMMA HistoryCrash == ASSUME MapInv, DaemonCrash PROVE RequestHistory'
  <1>1. /\ Len(client_rx') = 0
        /\ \A t \in Tools : pending'[t] = None /\ request_task'[t] = "none"
        /\ UNCHANGED <<reply, phase, hook, shown>>
    BY EmptySeq DEF DaemonCrash, NoRequests, claudeVars, ghosts
  <1> QED
    BY <1>1 DEF MapInv, RequestHistory

\* Every step keeps it.
LEMMA MapStep == MapInv /\ [Next]_vars => MapInv'
  <1> SUFFICES ASSUME MapInv, [Next]_vars PROVE MapInv'
    OBVIOUS
  <1>1. TypeInv' /\ DecisionInv' /\ RequestInv'
    BY TypeStep, DecisionStep, RequestStep DEF MapInv
  <1>2. RequestHistory'
    <2>1. CASE HandleHook
      BY <2>1, HistoryHook DEF HandleHook
    <2>2. CASE HandleClient
      BY <2>2, HistoryClient, HistoryRequest
    <2>3. CASE Tasks \/ Clients
      BY <2>3, HistoryTask, HistoryTasks
    <2>4. CASE Hooks
      BY <2>4, HistoryHooks
    <2>5. CASE Claude
      BY <2>5, HistoryAsk, HistoryClaude
    <2>6. CASE DaemonCrash
      BY <2>6, HistoryCrash
    <2>7. CASE WriteStateFile \/ WrapperProcs \/ DaemonRestart \/ UNCHANGED vars
      <3>1. /\ client_rx' = client_rx
            /\ UNCHANGED <<request_task, pending, reply, shown, hook, phase>>
        BY <2>7 DEF WriteStateFile, WrapperProcs, DaemonRestart, WrapperStart, ListenerEof,
           Reconnect, WrapperExit, WrapperDie, vars, loopVars, claudeVars, ghosts
      <3> QED
        BY <3>1, HistoryOutside
    <2> QED
      BY <2>1, <2>2, <2>3, <2>4, <2>5, <2>6, <2>7 DEF Next
  <1> QED
    BY <1>1, <1>2 DEF MapInv

\* It holds in the beginning.
LEMMA MapInit == Init => MapInv
  <1> SUFFICES ASSUME Init PROVE MapInv
    OBVIOUS
  <1>1. TypeInv
    BY TypeInvInit
  <1>2. DecisionInv
    BY EmptySeq, NoneIsNoDecision
       DEF Init, DecisionInv, AnswersRecorded, DecisionIntegrity, Decisions
  <1>3. RequestInv
    BY EmptySeq DEF Init, RequestInv, RequestLife, PendingHasWaiter, NoRequests
  <1>4. RequestHistory
    BY EmptySeq DEF Init, RequestHistory, NoRequests
  <1> QED
    BY <1>1, <1>2, <1>3, <1>4 DEF MapInv

-----------------------------------------------------------------------------
(* Steps and their images.                                                 *)

\* A step that moves the requests of T to one state and leaves the others.
LEMMA StatesMoved ==
    ASSUME NEW T \in SUBSET Tools, NEW v,
           \A t \in T : RequestState(t)' = v,
           \A t \in Tools \ T : RequestState(t)' = RequestState(t)
    PROVE  RequestStates' = [t \in Tools |-> IF t \in T THEN v ELSE RequestStates[t]]
  BY DEF RequestStates

\* The same for one request.
LEMMA StateMoved ==
    ASSUME NEW t \in Tools, NEW v, RequestState(t)' = v,
           \A x \in Tools \ {t} : RequestState(x)' = RequestState(x)
    PROVE  RequestStates[t] = RequestState(t) /\ RequestStates' = [RequestStates EXCEPT ![t] = v]
  BY DEF RequestStates

\* A step that no request, answer, decision or hook notices.
LEMMA Unnoticed ==
    ASSUME UNCHANGED <<shown, pending, reply, hook, answered>>
    PROVE  UNCHANGED Abstract!vars
  <1>1. RequestStates' = RequestStates
    BY DEF RequestStates, RequestState
  <1> QED
    BY <1>1 DEF Abstract!vars

\* The open requests of sessions, in the daemon and in its image.
LEMMA OpenRequests ==
    ASSUME MapInv, NEW S, None \notin S
    PROVE  Abstract!OpenOf(S) = RequestsOf(pending, S)
  <1>1. ASSUME NEW t \in Tools
        PROVE  RequestStates[t] = "open" /\ AgentOf[t] \in S <=> pending[t] \in S
    BY DEF MapInv, RequestHistory, RequestStates, RequestState
  <1> QED
    BY <1>1 DEF Abstract!OpenOf, RequestsOf

\* None is no session.
LEMMA NoneIsNoSession == \A S \in SUBSET SessionIds : None \notin S
  BY NoneIsNoValue

\* A hook event resolves the open requests of its session.
LEMMA ImageHook == ASSUME MapInv, NEW e, HandleHookEvent(e) PROVE Abstract!Next
  <1>0. e.session \in Agents /\ e.session # None
    BY HookEnvelopeType, NoneIsNoValue DEF MapInv, TypeInv, TypeOK, HandleHookEvent
  <1>1. PICK moved : moved = RequestsOf(pending, {e.session})
    OBVIOUS
  <1>2. /\ shown' = shown /\ hook' = hook /\ answered' = answered
        /\ pending' = RemoveRequests(pending, moved)
        /\ reply' = [t \in Tools |-> IF t \in moved \cap permission_waiters
                                     THEN "allow" ELSE reply[t]]
    BY <1>1 DEF HandleHookEvent
  <1>3. Abstract!OpenOf({e.session}) = moved
    BY <1>0, <1>1, OpenRequests
  <1>4. moved \in SUBSET Tools /\ \A t \in moved : pending[t] # None
    BY <1>0, <1>1 DEF RequestsOf
  <1>5. moved \subseteq permission_waiters /\ moved \subseteq shown
    BY <1>4 DEF MapInv, RequestInv, PendingHasWaiter, RequestHistory
  <1>6. reply' = [t \in Tools |-> IF t \in moved THEN "allow" ELSE reply[t]]
    BY <1>2, <1>5
  <1>7. \A t \in moved : RequestState(t)' = "decided"
    BY <1>2, <1>4, <1>5, <1>6, NoneIsNoDecision DEF RequestState, RemoveRequests, Decisions
  <1>8. \A t \in Tools \ moved : RequestState(t)' = RequestState(t)
    BY <1>2, <1>6 DEF RequestState, RemoveRequests
  <1>9. RequestStates' = [t \in Tools |-> IF t \in moved THEN "decided" ELSE RequestStates[t]]
    BY <1>4, <1>7, <1>8, StatesMoved
  <1>10. Abstract!Resolve(e.session)
    BY <1>2, <1>3, <1>6, <1>9 DEF Abstract!Resolve
  <1> QED
    BY <1>0, <1>10 DEF Abstract!Next

\* Taking a request from the queue announces it.
LEMMA ImageRequest == ASSUME MapInv, HandlePermissionRequest PROVE Abstract!Next
  <1>0. TypeOK
    BY DEF MapInv, TypeInv
  <1>1. Receive("PermissionRequest")
    BY DEF HandlePermissionRequest
  <1>2. PICK t : t = Head(client_rx).tool /\ t \in Tools
    BY <1>0, <1>1, ClientRxPopped, ClientMessageTypes
  <1>3. 1 \in 1..Len(client_rx) /\ QueuedRequest(1, t)
    BY <1>0, <1>1, <1>2, ClientRxPopped DEF QueuedRequest
  <1>4. t \notin shown /\ request_task[t] = "awaiting"
    BY <1>2, <1>3 DEF MapInv, RequestInv, RequestLife, RequestHistory
  <1>5. hook[t] # "none"
    BY <1>2, <1>4 DEF MapInv, RequestHistory
  <1>6. hook' = hook /\ answered' = answered /\ reply' = reply
    BY <1>1 DEF HandlePermissionRequest, Receive
  <1>7. shown' = shown \cup {t} /\ pending' = [pending EXCEPT ![t] = AgentOf[t]]
    BY <1>2 DEF HandlePermissionRequest
  <1>8. pending'[t] # None /\ \A x \in Tools \ {t} : pending'[x] = pending[x]
    <2>1. pending \in PendingTable
      BY <1>0 DEF TypeOK
    <2>2. AgentOf[t] \in Agents /\ None \notin Agents
      BY <1>2, AgentOfType, NoneIsNoValue DEF SessionIds
    <2> QED
      BY <1>2, <1>7, <2>1, <2>2 DEF PendingTable
  <1>9. /\ RequestState(t) = "asked" /\ RequestState(t)' = "open"
        /\ \A x \in Tools \ {t} : RequestState(x)' = RequestState(x)
    BY <1>4, <1>5, <1>6, <1>7, <1>8 DEF RequestState
  <1>10. Abstract!Announce(t)
    BY <1>2, <1>6, <1>9, StateMoved DEF Abstract!Announce
  <1> QED
    BY <1>2, <1>10 DEF Abstract!Next

\* An answer decides a pending request and is ignored otherwise.
LEMMA ImageResponse ==
    ASSUME MapInv, HandlePermissionResponse PROVE [Abstract!Next]_(Abstract!vars)
  <1>0. TypeOK
    BY DEF MapInv, TypeInv
  <1>1. Receive("PermissionResponse")
    BY DEF HandlePermissionResponse
  <1>2. PICK t, d : /\ t = Head(client_rx).tool /\ t \in Tools
                    /\ d = Head(client_rx).decision /\ d \in Decisions
    BY <1>0, <1>1, ClientRxPopped, ClientMessageTypes
  <1>3. <<t, d>> \in answered
    BY <1>0, <1>1, <1>2, ClientRxPopped DEF MapInv, DecisionInv, AnswersRecorded
  <1>4. hook' = hook /\ answered' = answered /\ shown' = shown
    BY <1>1 DEF HandlePermissionResponse, Receive, ghosts
  <1>5. CASE pending[t] = None
    <2>1. UNCHANGED <<pending, reply>>
      BY <1>2, <1>5 DEF HandlePermissionResponse
    <2> QED
      BY <1>4, <2>1, Unnoticed
  <1>6. CASE pending[t] # None
    <2>1. t \in permission_waiters /\ t \in shown
      BY <1>2, <1>6 DEF MapInv, RequestInv, PendingHasWaiter, RequestHistory
    <2>2. /\ pending' = RemoveRequests(pending, {t})
          /\ reply' = [reply EXCEPT ![t] = d]
      BY <1>2, <1>6, <2>1 DEF HandlePermissionResponse
    <2>3. reply'[t] # None /\ \A x \in Tools \ {t} : reply'[x] = reply[x]
      BY <1>0, <1>2, <2>2, NoneIsNoDecision DEF TypeOK
    <2>4. /\ RequestState(t) = "open" /\ RequestState(t)' = "decided"
          /\ \A x \in Tools \ {t} : RequestState(x)' = RequestState(x)
      BY <1>2, <1>4, <1>6, <2>1, <2>2, <2>3 DEF RequestState, RemoveRequests
    <2>5. Abstract!Decide(t, d)
      BY <1>2, <1>3, <1>4, <2>2, <2>4, StateMoved DEF Abstract!Decide
    <2> QED
      BY <1>2, <2>5 DEF Abstract!Next, Decisions
  <1> QED
    BY <1>5, <1>6

\* Removing a wrapper withdraws the open requests of its family.
LEMMA ImageUnregister == ASSUME MapInv, HandleUnregisterWrapper PROVE Abstract!Next
  <1>1. Receive("UnregisterWrapper")
    BY DEF HandleUnregisterWrapper
  <1>2. /\ hook' = hook /\ answered' = answered /\ shown' = shown /\ reply' = reply
    BY <1>1 DEF HandleUnregisterWrapper, Receive, ghosts
  <1>3. PICK F \in SUBSET SessionIds : pending' = RemoveRequests(pending, RequestsOf(pending, F))
    BY DEF HandleUnregisterWrapper, Family
  <1>4. RequestsOf(pending, F) = RequestsOf(pending, F \cap Agents)
    BY <1>3, NoneIsNoSession, AgentOfType DEF RequestsOf, MapInv, RequestHistory
  <1>5. PICK gone : gone = RequestsOf(pending, F \cap Agents)
    OBVIOUS
  <1>6. Abstract!OpenOf(F \cap Agents) = gone
    BY <1>3, <1>5, NoneIsNoSession, OpenRequests
  <1>7. gone \in SUBSET Tools /\ \A t \in gone : pending[t] # None
    BY <1>3, <1>5, NoneIsNoSession DEF RequestsOf
  <1>8. \A t \in gone : t \in shown /\ reply[t] = None
    BY <1>7 DEF MapInv, RequestInv, PendingHasWaiter, RequestHistory
  <1>9. /\ \A t \in gone : RequestState(t)' = "withdrawn"
        /\ \A t \in Tools \ gone : RequestState(t)' = RequestState(t)
    BY <1>2, <1>3, <1>4, <1>5, <1>7, <1>8 DEF RequestState, RemoveRequests
  <1>10. RequestStates' = [t \in Tools |-> IF t \in gone THEN "withdrawn" ELSE RequestStates[t]]
    BY <1>7, <1>9, StatesMoved
  <1>11. Abstract!Withdraw(F \cap Agents)
    BY <1>2, <1>6, <1>10 DEF Abstract!Withdraw
  <1> QED
    BY <1>11 DEF Abstract!Next

\* A crash withdraws every open request.
LEMMA ImageCrash == ASSUME MapInv, DaemonCrash PROVE Abstract!Next
  <1>1. /\ hook' = hook /\ answered' = answered /\ shown' = shown /\ reply' = reply
        /\ \A t \in Tools : pending'[t] = None
    BY DEF DaemonCrash, NoRequests, ghosts
  <1>2. PICK gone : gone = RequestsOf(pending, Agents)
    OBVIOUS
  <1>3. None \notin Agents
    BY NoneIsNoValue DEF SessionIds
  <1>4. Abstract!OpenOf(Agents) = gone
    BY <1>2, <1>3, OpenRequests
  <1>5. gone = {t \in Tools : pending[t] # None}
    BY <1>2, <1>3, AgentOfType DEF RequestsOf, MapInv, RequestHistory
  <1>6. \A t \in gone : t \in shown /\ reply[t] = None
    BY <1>5 DEF MapInv, RequestInv, PendingHasWaiter, RequestHistory
  <1>7. /\ \A t \in gone : RequestState(t)' = "withdrawn"
        /\ \A t \in Tools \ gone : RequestState(t)' = RequestState(t)
    BY <1>1, <1>5, <1>6 DEF RequestState
  <1>8. RequestStates' = [t \in Tools |-> IF t \in gone THEN "withdrawn" ELSE RequestStates[t]]
    BY <1>5, <1>7, StatesMoved
  <1>9. Abstract!Withdraw(Agents)
    BY <1>1, <1>4, <1>8 DEF Abstract!Withdraw
  <1> QED
    BY <1>9 DEF Abstract!Next

\* A dashboard answers what it was shown.
LEMMA ImageRespond ==
    ASSUME MapInv, NEW t \in Tools, NEW d \in Decisions, TaskRespond(t, d) PROVE Abstract!Next
  <1>1. /\ t \in shown /\ answered' = answered \cup {<<t, d>>}
        /\ UNCHANGED <<shown, pending, reply, hook>>
    BY DEF TaskRespond, loopVars
  <1>2. RequestStates' = RequestStates
    BY <1>1 DEF RequestStates, RequestState
  <1>3. RequestStates[t] \in {"open", "decided", "withdrawn"}
    BY <1>1 DEF RequestStates, RequestState
  <1>4. Abstract!Answer(t, d)
    BY <1>1, <1>2, <1>3 DEF Abstract!Answer
  <1> QED
    BY <1>4 DEF Abstract!Next, Decisions

\* A hook learns the decision or gives up.
LEMMA ImageHooks == ASSUME MapInv, Hooks PROVE Abstract!Next
  <1>1. PICK t \in Tools : HookRead(t) \/ HookGiveUp(t)
    BY DEF Hooks
  <1>2. UNCHANGED <<shown, pending, reply, answered>>
    BY <1>1 DEF HookRead, HookGiveUp, loopVars, ghosts
  <1>3. hook[t] = "waiting" /\ \A x \in Tools : hook'[x] = "none" <=> hook[x] = "none"
    BY <1>1, HookStays
  <1>4. RequestStates' = RequestStates
    BY <1>2, <1>3 DEF RequestStates, RequestState
  <1>5. CASE HookRead(t)
    <2>1. reply[t] # None
      BY <1>5 DEF HookRead
    <2>2. RequestStates[t] = "decided"
      BY <2>1 DEF RequestStates, RequestState, MapInv, RequestInv, PendingHasWaiter, RequestHistory
    <2>3. Abstract!Learn(t)
      BY <1>2, <1>3, <1>4, <1>5, <2>2 DEF Abstract!Learn, HookRead
    <2> QED
      BY <2>3 DEF Abstract!Next
  <1>6. CASE HookGiveUp(t)
    <2>1. Abstract!GiveUp(t)
      BY <1>2, <1>3, <1>4, <1>6 DEF Abstract!GiveUp, HookGiveUp
    <2> QED
      BY <2>1 DEF Abstract!Next
  <1> QED
    BY <1>1, <1>5, <1>6

\* A tool call asks.
LEMMA ImageAsk == ASSUME MapInv, NEW t \in Tools, ToolAsk(t) PROVE Abstract!Next
  <1>1. UNCHANGED <<shown, pending, reply, answered>>
    BY DEF ToolAsk, ToolStep, claudeKeeps, loopVars, ghosts
  <1>2. PICK o \in {"waiting", "silent"} : hook' = [hook EXCEPT ![t] = o]
    BY DEF ToolAsk
  <1>3. hook[t] = "none" /\ t \notin shown
    BY DEF MapInv, RequestHistory, ToolAsk, ToolStep
  <1>4. hook'[t] = o /\ \A x \in Tools \ {t} : hook'[x] = hook[x]
    BY <1>2 DEF MapInv, TypeInv, TypeOK
  <1>5. /\ RequestState(t) = "new" /\ RequestState(t)' = "asked"
        /\ \A x \in Tools \ {t} : RequestState(x)' = RequestState(x)
    BY <1>1, <1>3, <1>4 DEF RequestState
  <1>6. Abstract!Ask(t)
    BY <1>1, <1>2, <1>5, StateMoved DEF Abstract!Ask
  <1> QED
    BY <1>6 DEF Abstract!Next

\* Every step of the daemon, its tasks and its clients is a step of the life of
\* one session's requests, or none.
LEMMA ImageStep ==
    ASSUME MapInv, [Next]_vars PROVE [Abstract!Next]_(Abstract!vars)
  <1>1. CASE HandleHook
    BY <1>1, ImageHook DEF HandleHook
  <1>2. CASE HandleClient
    <2>1. CASE HandleRegisterWrapper \/ HandleSendPrompt
      <3>1. UNCHANGED <<shown, pending, reply, hook, answered>>
        BY <2>1 DEF HandleRegisterWrapper, HandleSendPrompt, Receive, ghosts
      <3> QED
        BY <3>1, Unnoticed
    <2> QED
      BY <1>2, <2>1, ImageRequest, ImageResponse, ImageUnregister DEF HandleClient
  <1>3. CASE Tasks \/ Clients
    <2>1. CASE \E t \in Tools, d \in Decisions : TaskRespond(t, d)
      BY <2>1, ImageRespond
    <2>2. CASE ~(\E t \in Tools, d \in Decisions : TaskRespond(t, d))
      <3>1. UNCHANGED <<shown, pending, reply, hook, answered>>
        BY <1>3, <2>2 DEF Tasks, Clients, TaskRequest, TaskRegister, TaskDeliver,
           TaskUnregister, TaskBye, TaskPrompt, loopVars, ghosts
      <3> QED
        BY <3>1, Unnoticed
    <2> QED
      BY <2>1, <2>2
  <1>4. CASE Hooks
    BY <1>4, ImageHooks
  <1>5. CASE Claude
    <2>1. CASE \E t \in Tools : ToolAsk(t)
      BY <2>1, ImageAsk
    <2>2. CASE ~(\E t \in Tools : ToolAsk(t))
      <3>1. UNCHANGED claudeKeeps /\ hook' = hook
        BY <1>5, <2>2 DEF Claude, AgentStart, AgentStop, AgentEnd, ToolStart, ToolRun,
           ToolDecide, ToolTerminal, ToolEnd, ToolStep
      <3> QED
        BY <3>1, Unnoticed DEF claudeKeeps, loopVars, ghosts
    <2> QED
      BY <2>1, <2>2
  <1>6. CASE DaemonCrash
    BY <1>6, ImageCrash
  <1>7. CASE WriteStateFile \/ WrapperProcs \/ DaemonRestart \/ UNCHANGED vars
    <2>1. UNCHANGED <<shown, pending, reply, hook, answered>>
      BY <1>7 DEF WriteStateFile, WrapperProcs, DaemonRestart, WrapperStart, ListenerEof,
         Reconnect, WrapperExit, WrapperDie, vars, loopVars, ghosts
    <2> QED
      BY <2>1, Unnoticed
  <1> QED
    BY <1>1, <1>2, <1>3, <1>4, <1>5, <1>6, <1>7 DEF Next

\* The daemon implements the life of a permission request, in every instance:
\* announced once, decided once and only while it is open, the open requests of
\* a session all at once when a hook event resolves them, none after it was
\* withdrawn, and its hook learns the decision or nothing.
THEOREM DaemonImplementsPermission == Spec => ImplementsPermission
  <1>1. Init => Abstract!Init
    BY DEF Init, Abstract!Init, RequestStates, RequestState
  <1>2. MapInv /\ [Next]_vars => [Abstract!Next]_(Abstract!vars)
    BY ImageStep
  <1> QED
    BY <1>1, <1>2, MapInit, MapStep, PTL DEF Spec, ImplementsPermission, Abstract!Spec

-----------------------------------------------------------------------------
(* The session table: it and the channel map agree on who is registered, a *)
(* running wrapper stays registered, and a session shown as needing input  *)
(* has a request.                                                          *)

\* The same wrappers are in both tables, main sessions or not, under the same parent.
SameMains(ss, tt) ==
    \A w \in Wrappers :
        /\ tt[w] = None <=> ss[w] = None
        /\ ss[w] # None => /\ tt[w].is_main = ss[w].is_main
                           /\ tt[w].parent_wrapper_id = ss[w].parent_wrapper_id

\* Steps of one handler compose.
LEMMA SameMainsTransitive ==
    ASSUME NEW ss, NEW tt, NEW uu, SameMains(ss, tt), SameMains(tt, uu)
    PROVE  SameMains(ss, uu)
  BY DEF SameMains

\* Entries other than the wrappers' do not count.
LEMMA AgentEntry ==
    ASSUME NEW ss \in SessionTable, NEW a \in Agents, NEW r
    PROVE  SameMains(ss, [ss EXCEPT ![a] = r])
  BY IdsAreDisjoint DEF SameMains, SessionTable, SessionIds

\* Nor do changes of a session that leave is_main and its parent alone.
LEMMA SameMainEntry ==
    ASSUME NEW ss \in SessionTable, NEW s \in SessionIds, ss[s] # None,
           NEW r \in InternalSession, r.is_main = ss[s].is_main,
           r.parent_wrapper_id = ss[s].parent_wrapper_id
    PROVE  SameMains(ss, [ss EXCEPT ![s] = r])
  <1>1. r # None
    BY NoneIsNoValue
  <1> QED
    BY <1>1 DEF SameMains, SessionTable, SessionIds

\* set_status neither adds nor removes a session, nor makes one main.
LEMMA SetStatusMains ==
    ASSUME NEW ss \in SessionTable, NEW s \in SessionIds, NEW x \in Status
    PROVE  SameMains(ss, SetStatus(ss, s, x))
  <1>1. CASE ss[s] = None
    BY <1>1 DEF SetStatus, SameMains
  <1>2. CASE ss[s] # None
    <2>1. PICK r \in InternalSession : r = ss[s]
      BY <1>2 DEF SessionTable
    <2>2. SetStatus(ss, s, x) = [ss EXCEPT ![s] = [r EXCEPT !.status = x]]
      BY <1>2, <2>1, Zenon DEF SetStatus
    <2>3. PICK q \in InternalSession : q = [r EXCEPT !.status = x]
      BY SessionUpdates
    <2>4. q.is_main = ss[s].is_main /\ q.parent_wrapper_id = ss[s].parent_wrapper_id
      BY <2>1, <2>3 DEF InternalSession
    <2> QED
      BY <1>2, <2>2, <2>3, <2>4, SameMainEntry
  <1> QED
    BY <1>1, <1>2

\* Nor does setting the active tool.
LEMMA SetActiveToolMains ==
    ASSUME NEW ss \in SessionTable, NEW s \in SessionIds, NEW x \in Tools \cup {None}
    PROVE  SameMains(ss, SetActiveTool(ss, s, x))
  <1>1. CASE ss[s] = None
    BY <1>1 DEF SetActiveTool, SameMains
  <1>2. CASE ss[s] # None
    <2>1. PICK r \in InternalSession : r = ss[s]
      BY <1>2 DEF SessionTable
    <2>2. SetActiveTool(ss, s, x) = [ss EXCEPT ![s] = [r EXCEPT !.active_tool = x]]
      BY <1>2, <2>1, Zenon DEF SetActiveTool
    <2>3. PICK q \in InternalSession : q = [r EXCEPT !.active_tool = x]
      BY SessionUpdates
    <2>4. q.is_main = ss[s].is_main /\ q.parent_wrapper_id = ss[s].parent_wrapper_id
      BY <2>1, <2>3 DEF InternalSession
    <2> QED
      BY <1>2, <2>2, <2>3, <2>4, SameMainEntry
  <1> QED
    BY <1>1, <1>2

\* A session that Claude's hooks create is not a wrapper's.
LEMMA EnsureSessionMains ==
    ASSUME NEW ss \in SessionTable, NEW a \in Agents
    PROVE  SameMains(ss, EnsureSession(ss, a))
  <1>1. SameMains(ss, ss)
    BY DEF SameMains
  <1> QED
    BY <1>1, AgentEntry DEF EnsureSession

\* Nor does taking NeedsInput off a session.
LEMMA ClearNeedsInputMains ==
    ASSUME NEW ss \in SessionTable, NEW s \in SessionIds
    PROVE  SameMains(ss, ClearNeedsInput(ss, s))
  <1>1. SameMains(ss, ss)
    BY DEF SameMains
  <1> QED
    BY <1>1, SetStatusMains DEF ClearNeedsInput, Status

\* add_permission_request leaves the set of wrappers alone.
LEMMA MarkNeedsInputMains ==
    ASSUME NEW ss \in SessionTable, NEW s \in SessionIds
    PROVE  SameMains(ss, MarkNeedsInput(ss, s))
  <1>1. "NeedsInput" \in Status
    BY DEF Status
  <1>2. PICK own \in SessionTable : own = SetStatus(ss, s, "NeedsInput") /\ SameMains(ss, own)
    BY <1>1, SetStatusType, SetStatusMains
  <1>3. PICK parent : parent = ParentOf(own, s) /\ (parent = None \/ parent \in SessionIds)
    BY ParentOfType DEF SessionIds
  <1>4. parent # None => SameMains(own, SetStatus(own, parent, "NeedsInput"))
    BY <1>1, <1>3, SetStatusMains
  <1>5. MarkNeedsInput(ss, s) = IF parent = None THEN own ELSE SetStatus(own, parent, "NeedsInput")
    BY <1>2, <1>3 DEF MarkNeedsInput
  <1> QED
    BY <1>2, <1>4, <1>5, SameMainsTransitive

\* So does resolve_permission.
LEMMA StatusAfterResolveMains ==
    ASSUME NEW ss \in SessionTable, NEW pend, NEW s \in SessionIds
    PROVE  SameMains(ss, StatusAfterResolve(ss, pend, s))
  <1>1. PICK own \in SessionTable : own = ClearNeedsInput(ss, s) /\ SameMains(ss, own)
    BY ClearNeedsInputType, ClearNeedsInputMains
  <1>2. PICK parent : parent = ParentOf(own, s) /\ (parent = None \/ parent \in SessionIds)
    BY ParentOfType DEF SessionIds
  <1>3. parent # None => SameMains(own, ClearNeedsInput(own, parent))
    BY <1>2, ClearNeedsInputMains
  <1>4. SameMains(ss, ss)
    BY DEF SameMains
  <1>5. \/ StatusAfterResolve(ss, pend, s) = ss
        \/ StatusAfterResolve(ss, pend, s) = own
        \/ parent # None /\ StatusAfterResolve(ss, pend, s) = ClearNeedsInput(own, parent)
    BY <1>1, <1>2 DEF StatusAfterResolve
  <1> QED
    BY <1>1, <1>3, <1>4, <1>5, SameMainsTransitive

\* So does every hook event, SessionEnd included: it names a session of Claude's.
LEMMA ApplyHookEventMains ==
    ASSUME NEW ss \in SessionTable, NEW e \in HookEnvelope
    PROVE  SameMains(ss, ApplyHookEvent(ss, e))
  <1>1. /\ e.session \in Agents /\ e.session \in SessionIds
        /\ e.tool \in Tools \cup {None} /\ None \in Tools \cup {None}
    BY HookEnvelopeType
  <1>2. "Working" \in Status /\ "Idle" \in Status
    BY DEF Status
  <1>3. CASE e.type = "ToolStart"
    <2>1. PICK k \in SessionTable : k = EnsureSession(ss, e.session) /\ SameMains(ss, k)
      BY <1>1, EnsureSessionType, EnsureSessionMains
    <2>2. PICK l \in SessionTable : l = SetActiveTool(k, e.session, e.tool) /\ SameMains(k, l)
      BY <1>1, SetActiveToolType, SetActiveToolMains
    <2>3. SameMains(l, SetStatus(l, e.session, "Working"))
      BY <1>1, <1>2, SetStatusMains
    <2>4. ApplyHookEvent(ss, e) = SetStatus(l, e.session, "Working")
      BY <1>3, <2>1, <2>2 DEF ApplyHookEvent
    <2> QED
      BY <2>1, <2>2, <2>3, <2>4, SameMainsTransitive
  <1>4. CASE e.type = "ToolEnd"
    <2>1. SameMains(ss, SetActiveTool(ss, e.session, None)) /\ SameMains(ss, ss)
      BY <1>1, SetActiveToolMains DEF SameMains
    <2> QED
      BY <1>4, <2>1 DEF ApplyHookEvent
  <1>5. CASE e.type = "Stop"
    <2>1. PICK l \in SessionTable : l = SetActiveTool(ss, e.session, None) /\ SameMains(ss, l)
      BY <1>1, SetActiveToolType, SetActiveToolMains
    <2>2. SameMains(l, SetStatus(l, e.session, "Idle"))
      BY <1>1, <1>2, SetStatusMains
    <2>3. ApplyHookEvent(ss, e) = SetStatus(l, e.session, "Idle")
      BY <1>5, <2>1 DEF ApplyHookEvent
    <2> QED
      BY <2>1, <2>2, <2>3, SameMainsTransitive
  <1>6. CASE e.type = "SessionStart"
    BY <1>1, <1>6, EnsureSessionMains DEF ApplyHookEvent
  <1>7. CASE e.type = "SessionEnd"
    BY <1>1, <1>7, AgentEntry DEF ApplyHookEvent
  <1> QED
    BY <1>3, <1>4, <1>5, <1>6, <1>7, HookEnvelopeType

\* So does linking a session to its wrapper, registered or not.
LEMMA LinkToWrapperMains ==
    ASSUME NEW ss \in SessionTable, NEW e \in HookEnvelope
    PROVE  SameMains(ss, LinkToWrapper(ss, e))
  <1>1. e.session \in Agents /\ e.session \in SessionIds
    BY HookEnvelopeType
  <1>2. PICK known \in SessionTable : known = EnsureSession(ss, e.session) /\ SameMains(ss, known)
    BY <1>1, EnsureSessionType, EnsureSessionMains
  <1>3. SameMains(ss, ss) /\ (\A r : SameMains(known, [known EXCEPT ![e.session] = r]))
    BY <1>1, AgentEntry DEF SameMains
  <1>4. \/ LinkToWrapper(ss, e) = ss
        \/ LinkToWrapper(ss, e) = known
        \/ LinkToWrapper(ss, e) = [known EXCEPT ![e.session] =
               [known[e.session] EXCEPT !.parent_wrapper_id = e.wrapper]]
    BY <1>2, Zenon DEF LinkToWrapper
  <1> QED
    BY <1>2, <1>3, <1>4, SameMainsTransitive

\* So does recording a transcript for the session and its wrapper.
LEMMA SetJsonlPathMains ==
    ASSUME NEW ss \in SessionTable, NEW e \in HookEnvelope
    PROVE  SameMains(ss, SetJsonlPath(ss, e))
  <1> SUFFICES ASSUME NEW w \in Wrappers
               PROVE  /\ SetJsonlPath(ss, e)[w] = None <=> ss[w] = None
                      /\ ss[w] # None =>
                            /\ SetJsonlPath(ss, e)[w].is_main = ss[w].is_main
                            /\ SetJsonlPath(ss, e)[w].parent_wrapper_id =
                                  ss[w].parent_wrapper_id
    BY DEF SameMains
  <1>1. w \in SessionIds
    BY DEF SessionIds
  <1>2. \/ SetJsonlPath(ss, e)[w] = ss[w]
        \/ ss[w] # None /\ SetJsonlPath(ss, e)[w] = [ss[w] EXCEPT !.jsonl_path = e.session]
    BY <1>1 DEF SetJsonlPath
  <1>3. CASE ss[w] # None
    <2>1. PICK r \in InternalSession : r = ss[w]
      BY <1>1, <1>3 DEF SessionTable
    <2>2. PICK q \in InternalSession : q = [r EXCEPT !.jsonl_path = e.session]
      BY SessionUpdates, HookEnvelopeType
    <2>3. /\ q.is_main = r.is_main /\ q.parent_wrapper_id = r.parent_wrapper_id
          /\ q # None
      BY <2>2, NoneIsNoValue DEF InternalSession
    <2> QED
      BY <1>2, <1>3, <2>1, <2>2, <2>3
  <1> QED
    BY <1>2, <1>3

-----------------------------------------------------------------------------

\* What RegistryAgrees needs of connections: a channel in the map is that of a
\* connection that was opened, whose wrapper does not change any more.
ChannelsOpened ==
    \A w \in Wrappers :
        wrapper_channels[w] # None => conn[wrapper_channels[w]].task # "unused"

\* ... and what an unregister message may take with its wrapper: only hook events
\* give a session a parent, and they never name a wrapper as their session.
Parentless ==
    \A w \in Wrappers : sessions[w] # None => sessions[w].parent_wrapper_id = None

RegistryInv == RegistryAgrees /\ ChannelsOpened /\ Parentless

\* A connection in use stays in use, and its wrapper's.
ConnsKept ==
    \A c \in Conns : conn[c].task # "unused" =>
        conn'[c].task # "unused" /\ conn'[c].wrapper = conn[c].wrapper

\* A step that registers and unregisters nobody.
LEMMA RegistryKept ==
    ASSUME TypeOK, RegistryInv, ConnsKept, SameMains(sessions, sessions'),
           \A w \in Wrappers : wrapper_channels'[w] = wrapper_channels[w]
    PROVE  RegistryInv'
  <1>1. \A w \in Wrappers : wrapper_channels[w] # None => wrapper_channels[w] \in Conns
    BY DEF TypeOK, SessionIds
  <1>2. RegistryAgrees'
    BY <1>1 DEF RegistryInv, RegistryAgrees, ChannelsOpened, ConnsKept, SameMains
  <1>3. ChannelsOpened'
    BY <1>1 DEF RegistryInv, ChannelsOpened, ConnsKept
  <1>4. Parentless'
    BY DEF RegistryInv, Parentless, SameMains
  <1> QED
    BY <1>2, <1>3, <1>4 DEF RegistryInv

\* A hook event registers and unregisters nobody; the alias is under Claude's id.
LEMMA RegistryHook ==
    ASSUME TypeOK, RegistryInv, NEW e, HandleHookEvent(e) PROVE RegistryInv'
  <1>1. e \in HookEnvelope
    BY DEF TypeOK, HandleHookEvent
  <1>2. e.session \in Agents /\ e.session \in SessionIds
    BY <1>1, HookEnvelopeType
  <1>3. \A w \in Wrappers : wrapper_channels'[w] = wrapper_channels[w]
    BY <1>2, IdsAreDisjoint DEF HandleHookEvent, AliasChannel, TypeOK, SessionIds
  <1>4. SameMains(sessions, sessions')
    <2>1. PICK linked \in SessionTable :
              linked = LinkToWrapper(sessions, e) /\ SameMains(sessions, linked)
      BY <1>1, LinkToWrapperType, LinkToWrapperMains DEF TypeOK
    <2>2. \A pend : /\ StatusAfterResolve(linked, pend, e.session) \in SessionTable
                    /\ SameMains(linked, StatusAfterResolve(linked, pend, e.session))
      BY <1>2, StatusAfterResolveType, StatusAfterResolveMains
    <2>3. PICK ss \in SessionTable :
              /\ SameMains(sessions, ss)
              /\ \/ sessions' = ApplyHookEvent(ss, e)
                 \/ sessions' = SetJsonlPath(ApplyHookEvent(ss, e), e)
      BY <2>1, <2>2, SameMainsTransitive DEF HandleHookEvent
    <2>4. ApplyHookEvent(ss, e) \in SessionTable /\ SameMains(ss, ApplyHookEvent(ss, e))
      BY <1>1, ApplyHookEventType, ApplyHookEventMains
    <2>5. SameMains(ApplyHookEvent(ss, e), SetJsonlPath(ApplyHookEvent(ss, e), e))
      BY <1>1, <2>4, SetJsonlPathMains
    <2> QED
      BY <2>3, <2>4, <2>5, SameMainsTransitive
  <1>5. ConnsKept
    BY DEF HandleHookEvent, ConnsKept
  <1> QED
    BY <1>3, <1>4, <1>5, RegistryKept

\* A registration puts the wrapper into both maps, with its own connection.
LEMMA RegistryRegister == TypeInv /\ RegistryInv /\ HandleRegisterWrapper => RegistryInv'
  <1> SUFFICES ASSUME TypeInv, RegistryInv, HandleRegisterWrapper PROVE RegistryInv'
    OBVIOUS
  <1>1. Receive("RegisterWrapper") /\ TypeOK
    BY DEF HandleRegisterWrapper, TypeInv
  <1>2. PICK c \in Conns : c = Head(client_rx).conn
    BY <1>1, ClientRxPopped, ClientMessageTypes
  <1>3. conn[c].task # "unused"
    BY <1>1, <1>2, ClientRxPopped DEF TypeInv, ConnsOwned
  <1>4. PICK w \in Wrappers : w = conn[c].wrapper /\ w \in SessionIds
    BY <1>3, OwnerType
  <1>5. conn' = conn
    BY <1>1 DEF Receive
  <1>6. PICK ss \in SessionTable : ss = EnsureSession(sessions, w) /\ ss[w] \in InternalSession
    BY <1>1, <1>4, EnsureSessionType DEF TypeOK
  <1>7. PICK r \in InternalSession : r = [ss[w] EXCEPT !.is_main = TRUE] /\ r.is_main = TRUE
    <2>1. [ss[w] EXCEPT !.is_main = TRUE].is_main = TRUE
      BY <1>6 DEF InternalSession
    <2> QED
      BY <1>6, <2>1, SessionUpdates
  <1>8. sessions' = [ss EXCEPT ![w] = r] /\ wrapper_channels' = [wrapper_channels EXCEPT ![w] = c]
    BY <1>2, <1>4, <1>6, <1>7, Zenon DEF HandleRegisterWrapper
  <1>9. /\ sessions'[w] = r /\ r # None /\ c # None
        /\ wrapper_channels'[w] = c
        /\ \A x \in Wrappers : x # w =>
               sessions'[x] = sessions[x] /\ wrapper_channels'[x] = wrapper_channels[x]
    <2>1. r # None /\ c # None
      BY NoneIsNoValue, NoneIsNoConn
    <2>2. sessions \in [SessionIds -> InternalSession \cup {None}]
      BY <1>1 DEF TypeOK, SessionTable
    <2>3. \A x \in Wrappers : x # w => ss[x] = sessions[x]
      BY <1>6, <2>2 DEF EnsureSession, SessionIds
    <2>4. /\ sessions'[w] = r
          /\ \A x \in Wrappers : x # w => sessions'[x] = ss[x]
      BY <1>4, <1>8 DEF SessionTable, SessionIds
    <2>5. /\ wrapper_channels'[w] = c
          /\ \A x \in Wrappers : x # w => wrapper_channels'[x] = wrapper_channels[x]
      BY <1>1, <1>4, <1>8 DEF TypeOK, SessionIds
    <2> QED
      BY <2>1, <2>3, <2>4, <2>5
  <1>10. RegistryAgrees'
    <2> SUFFICES ASSUME NEW x \in Wrappers
                 PROVE  /\ sessions'[x] # None <=> wrapper_channels'[x] # None
                        /\ sessions'[x] # None => sessions'[x].is_main
                        /\ wrapper_channels'[x] # None => conn'[wrapper_channels'[x]].wrapper = x
      BY DEF RegistryAgrees
    <2>1. CASE x = w
      BY <1>4, <1>5, <1>7, <1>9, <2>1
    <2>2. CASE x # w
      <3>1. /\ sessions[x] # None <=> wrapper_channels[x] # None
            /\ sessions[x] # None => sessions[x].is_main
            /\ wrapper_channels[x] # None => conn[wrapper_channels[x]].wrapper = x
        BY DEF RegistryInv, RegistryAgrees
      <3>2. sessions'[x] = sessions[x] /\ wrapper_channels'[x] = wrapper_channels[x]
        BY <1>9, <2>2
      <3> QED
        BY <1>5, <3>1, <3>2
    <2> QED
      BY <2>1, <2>2
  <1>11. ChannelsOpened'
    BY <1>3, <1>5, <1>9 DEF RegistryInv, ChannelsOpened
  <1>12. r.parent_wrapper_id = None
    <2>1. ss[w].parent_wrapper_id = None
      <3>1. CASE sessions[w] = None
        BY <1>1, <1>4, <1>6, <3>1 DEF EnsureSession, NewSession, TypeOK, SessionTable
      <3>2. CASE sessions[w] # None
        BY <1>4, <1>6, <3>2 DEF EnsureSession, RegistryInv, Parentless
      <3> QED
        BY <3>1, <3>2
    <2> QED
      BY <1>6, <1>7, <2>1 DEF InternalSession
  <1>13. Parentless'
    BY <1>9, <1>12 DEF RegistryInv, Parentless
  <1> QED
    BY <1>10, <1>11, <1>13 DEF RegistryInv

\* Unregistering takes the same ids out of both.
LEMMA RegistryUnregister == TypeOK /\ RegistryInv /\ HandleUnregisterWrapper => RegistryInv'
  <1> SUFFICES ASSUME TypeOK, RegistryInv, HandleUnregisterWrapper PROVE RegistryInv'
    OBVIOUS
  <1>1. conn' = conn
    BY DEF HandleUnregisterWrapper, Receive
  <1>2. PICK gone :
            /\ wrapper_channels' = [s \in SessionIds |->
                                        IF s \in gone THEN None ELSE wrapper_channels[s]]
            /\ sessions' = RemoveSessions(sessions, gone)
    BY DEF HandleUnregisterWrapper
  <1>3. \A w \in Wrappers :
            /\ w \in gone => sessions'[w] = None /\ wrapper_channels'[w] = None
            /\ w \notin gone => sessions'[w] = sessions[w]
                                /\ wrapper_channels'[w] = wrapper_channels[w]
    BY <1>2 DEF RemoveSessions, SessionIds
  <1>4. RegistryAgrees'
    BY <1>1, <1>3 DEF RegistryInv, RegistryAgrees
  <1>5. ChannelsOpened'
    BY <1>1, <1>3 DEF RegistryInv, ChannelsOpened
  <1>6. Parentless'
    BY <1>3 DEF RegistryInv, Parentless
  <1> QED
    BY <1>4, <1>5, <1>6 DEF RegistryInv

\* The other handlers change statuses at most.
LEMMA RegistryClient == TypeInv /\ RegistryInv /\ HandleClient => RegistryInv'
  <1> SUFFICES ASSUME TypeInv, RegistryInv,
                      HandlePermissionRequest \/ HandlePermissionResponse \/ HandleSendPrompt
               PROVE  RegistryInv'
    BY RegistryRegister, RegistryUnregister DEF HandleClient, TypeInv
  <1>1. TypeOK
    BY DEF TypeInv
  <1>2. PICK type : Receive(type) /\ type \in {"PermissionRequest", "PermissionResponse", "SendPrompt"}
    BY DEF HandlePermissionRequest, HandlePermissionResponse, HandleSendPrompt
  <1>3. ConnsKept
    BY <1>2 DEF Receive, ConnsKept
  <1>4. wrapper_channels' = wrapper_channels
    BY DEF HandlePermissionRequest, HandlePermissionResponse, HandleSendPrompt
  <1>5. SameMains(sessions, sessions)
    BY DEF SameMains
  <1>6. SameMains(sessions, sessions')
    <2>1. CASE HandlePermissionRequest
      <3>1. Head(client_rx).tool \in Tools
        BY <1>1, <2>1, ClientRxPopped, ClientMessageTypes DEF HandlePermissionRequest
      <3>2. AgentOf[Head(client_rx).tool] \in SessionIds
        BY <3>1, AgentOfType DEF SessionIds
      <3> QED
        BY <1>1, <2>1, <3>2, MarkNeedsInputMains DEF HandlePermissionRequest, TypeOK
    <2>2. CASE HandlePermissionResponse
      <3>1. Head(client_rx).tool \in Tools
        BY <1>1, <2>2, ClientRxPopped, ClientMessageTypes DEF HandlePermissionResponse
      <3>2. PICK s : s = pending[Head(client_rx).tool] /\ (s = None \/ s \in SessionIds)
        BY <1>1, <3>1 DEF TypeOK, PendingTable
      <3>3. \/ sessions' = sessions
            \/ s # None /\ \E left : sessions' = StatusAfterResolve(sessions, left, s)
        BY <2>2, <3>2 DEF HandlePermissionResponse
      <3> QED
        BY <1>1, <1>5, <3>2, <3>3, StatusAfterResolveMains DEF TypeOK
    <2>3. CASE HandleSendPrompt
      <3>1. Head(client_rx).session \in SessionIds
        BY <1>1, <2>3, ClientRxPopped, ClientMessageTypes, PromptTargetsType DEF HandleSendPrompt
      <3>2. "Working" \in Status
        BY DEF Status
      <3>3. \/ sessions' = sessions
            \/ sessions' = SetStatus(sessions, Head(client_rx).session, "Working")
        BY <2>3 DEF HandleSendPrompt
      <3> QED
        BY <1>1, <1>5, <3>1, <3>2, <3>3, SetStatusMains DEF TypeOK
    <2> QED
      BY <2>1, <2>2, <2>3
  <1> QED
    BY <1>1, <1>3, <1>4, <1>6, RegistryKept

\* Changing a connection's task or closing its client's end.
LEMMA ConnsKeptUpdate ==
    ASSUME TypeOK, NEW c,
           \/ conn' = [conn EXCEPT ![c].open = FALSE]
           \/ \E x \in {"serving", "closed"} : conn' = [conn EXCEPT ![c].task = x]
    PROVE  ConnsKept
  <1> SUFFICES ASSUME NEW d \in Conns, conn[d].task # "unused"
               PROVE  conn'[d].task # "unused" /\ conn'[d].wrapper = conn[d].wrapper
    BY DEF ConnsKept
  <1>1. PICK r \in Connection : r = conn[d]
    BY DEF TypeOK
  <1>2. /\ [r EXCEPT !.open = FALSE].task = r.task /\ [r EXCEPT !.open = FALSE].wrapper = r.wrapper
        /\ \A x : [r EXCEPT !.task = x].task = x /\ [r EXCEPT !.task = x].wrapper = r.wrapper
    BY DEF Connection
  <1>3. \/ conn'[d] = r
        \/ conn'[d] = [r EXCEPT !.open = FALSE]
        \/ \E x \in {"serving", "closed"} : conn'[d] = [r EXCEPT !.task = x]
    <2>1. conn \in [Conns -> Connection]
      BY DEF TypeOK
    <2>2. CASE conn' = [conn EXCEPT ![c].open = FALSE]
      BY <1>1, <2>1, <2>2
    <2>3. CASE \E x \in {"serving", "closed"} : conn' = [conn EXCEPT ![c].task = x]
      BY <1>1, <2>1, <2>3
    <2> QED
      BY <2>2, <2>3
  <1>4. CASE conn'[d] = r
    BY <1>1, <1>4
  <1>5. CASE conn'[d] = [r EXCEPT !.open = FALSE]
    BY <1>1, <1>2, <1>5
  <1>6. CASE \E x \in {"serving", "closed"} : conn'[d] = [r EXCEPT !.task = x]
    <2>1. PICK x \in {"serving", "closed"} : conn'[d] = [r EXCEPT !.task = x]
      BY <1>6
    <2>2. conn'[d].task = x /\ conn'[d].wrapper = r.wrapper
      BY <1>2, <2>1
    <2> QED
      BY <1>1, <2>1, <2>2
  <1> QED
    BY <1>3, <1>4, <1>5, <1>6

\* Only an unused connection is opened.
LEMMA ConnsKeptOpen ==
    ASSUME TypeOK, NEW w, NEW c, Connect(w, c) PROVE ConnsKept
  BY DEF TypeOK, Connect, ConnsKept

\* Steps of tasks and processes leave both maps alone.
LEMMA RegistryOutside ==
    TypeInv /\ RegistryInv
    /\ (Tasks \/ Clients \/ Hooks \/ WrapperProcs \/ Claude \/ WriteStateFile \/ DaemonRestart
        \/ UNCHANGED vars)
    => RegistryInv'
  <1> SUFFICES ASSUME TypeInv, RegistryInv,
                      \/ Tasks \/ Clients \/ Hooks \/ WrapperProcs \/ Claude
                      \/ WriteStateFile \/ DaemonRestart \/ UNCHANGED vars
               PROVE  RegistryInv'
    OBVIOUS
  <1>1. TypeOK
    BY DEF TypeInv
  <1>2. CASE conn' = conn /\ sessions' = sessions /\ wrapper_channels' = wrapper_channels
    BY <1>1, <1>2, RegistryKept DEF ConnsKept, SameMains
  <1>3. CASE ConnsKept /\ sessions' = sessions /\ wrapper_channels' = wrapper_channels
    BY <1>1, <1>3, RegistryKept DEF SameMains
  <1>4. CASE Tasks
    <2>1. sessions' = sessions /\ wrapper_channels' = wrapper_channels
      BY <1>4 DEF Tasks, TaskRequest, TaskRegister, TaskDeliver, TaskUnregister, TaskBye, loopVars
    <2>2. \/ conn' = conn
          \/ \E c \in Conns : \E x \in {"serving", "closed"} : conn' = [conn EXCEPT ![c].task = x]
      BY <1>4 DEF Tasks, TaskRequest, TaskRegister, TaskDeliver, TaskUnregister, TaskBye
    <2> QED
      BY <1>1, <1>2, <1>3, <2>1, <2>2, ConnsKeptUpdate
  <1>5. CASE WrapperProcs
    <2>1. sessions' = sessions /\ wrapper_channels' = wrapper_channels
      BY <1>5 DEF WrapperProcs, WrapperStart, ListenerEof, Reconnect, WrapperExit, WrapperDie,
         loopVars
    <2>2. \/ conn' = conn
          \/ \E c : conn' = [conn EXCEPT ![c].open = FALSE]
          \/ \E w, c : Connect(w, c)
      BY <1>5 DEF WrapperProcs, WrapperStart, ListenerEof, Reconnect, WrapperExit, WrapperDie
    <2> QED
      BY <1>1, <1>2, <1>3, <2>1, <2>2, ConnsKeptUpdate, ConnsKeptOpen
  <1>6. CASE Claude
    <2>1. UNCHANGED claudeKeeps
      BY <1>6 DEF Claude, AgentStart, AgentStop, AgentEnd, ToolStart, ToolAsk, ToolRun,
         ToolDecide, ToolTerminal, ToolEnd, ToolStep
    <2> QED
      BY <1>2, <2>1 DEF claudeKeeps, loopVars
  <1>7. CASE Clients \/ Hooks \/ WriteStateFile \/ DaemonRestart \/ UNCHANGED vars
    <2>1. conn' = conn /\ sessions' = sessions /\ wrapper_channels' = wrapper_channels
      BY <1>7 DEF Clients, TaskRespond, TaskPrompt, Hooks, HookRead, HookGiveUp,
         WriteStateFile, DaemonRestart, vars, loopVars
    <2> QED
      BY <1>2, <2>1
  <1> QED
    BY <1>4, <1>5, <1>6, <1>7

\* A crash empties both.
LEMMA RegistryCrash == RegistryInv /\ DaemonCrash => RegistryInv'
  <1> SUFFICES ASSUME DaemonCrash PROVE RegistryInv'
    OBVIOUS
  <1>1. \A w \in Wrappers : sessions'[w] = None /\ wrapper_channels'[w] = None
    BY DEF DaemonCrash, NoSessions, NoChannels, SessionIds
  <1> QED
    BY <1>1 DEF RegistryInv, RegistryAgrees, ChannelsOpened, Parentless

\* Every step keeps the registry in order.
LEMMA RegistryStep == TypeInv /\ RegistryInv /\ [Next]_vars => RegistryInv'
  <1> SUFFICES ASSUME TypeInv, RegistryInv, [Next]_vars PROVE RegistryInv'
    OBVIOUS
  <1>1. CASE HandleHook
    BY <1>1, RegistryHook DEF HandleHook, TypeInv
  <1>2. CASE HandleClient
    BY <1>2, RegistryClient
  <1>3. CASE DaemonCrash
    BY <1>3, RegistryCrash
  <1> QED
    BY <1>1, <1>2, <1>3, RegistryOutside DEF Next

\* The inductive invariant.
LEMMA RegistryInvHolds == Spec => []RegistryInv
  <1>1. Init => RegistryInv
    BY DEF Init, RegistryInv, RegistryAgrees, ChannelsOpened, Parentless, NoSessions,
           NoChannels, SessionIds
  <1> QED
    BY <1>1, RegistryStep, TypeInvHolds, PTL DEF Spec

\* In every instance the session table and the channel map hold the same
\* wrappers, each as a main session and with a connection of its own, whatever
\* hook events, prompts, reconnections and crashes come between.
THEOREM RegistryAgreesHolds == Spec => []RegistryAgrees
  <1>1. RegistryInv => RegistryAgrees
    BY DEF RegistryInv
  <1> QED
    BY <1>1, RegistryInvHolds, PTL

------------------------------------------------------------------------------
(* A running wrapper whose connection is served stays registered with it,  *)
(* for every instance. What carries it is the order of the client channel: *)
(* an unregister message of the wrapper's connection before stands ahead   *)
(* of the registration of the one it has now, and no other message of the  *)
(* wrapper can be waiting.                                                 *)

IsRegister(m, c) == m.type = "RegisterWrapper" /\ m.conn = c
IsUnregister(m, w) == m.type = "UnregisterWrapper" /\ m.wrapper = w

Serving(w) == wrapper[w] = "on" /\ link[w] # None /\ conn[link[w]].task = "serving"

\* The goodbye of a wrapper is sent when it exits.
ByeOnExit(w) == w \in bye => wrapper[w] \in {"exiting", "dead"}

\* The connection that the listener thread reads is the wrapper's, and open.
LinkIsOpen(w) ==
    /\ listener[w] = "reading" <=> link[w] # None
    /\ link[w] # None => /\ conn[link[w]].wrapper = w
                         /\ conn[link[w]].open
                         /\ conn[link[w]].task # "unused"

\* A wrapper that was not started has no connection.
NewIsUnconnected(w) ==
    wrapper[w] = "off" =>
        /\ listener[w] = "none"
        /\ \A c \in Conns : conn[c].task # "unused" => conn[c].wrapper # w

\* Only the last connection of a running wrapper is served.
OthersClosed(w) ==
    wrapper[w] = "on" =>
        \A c \in Conns : conn[c].wrapper = w /\ c # link[w] => conn[c].task \in {"unused", "closed"}

LinkOwned(w) == ByeOnExit(w) /\ LinkIsOpen(w) /\ NewIsUnconnected(w) /\ OthersClosed(w)

\* A registration that waits is that of the connection being served.
RegistersAreServed(w) ==
    wrapper[w] = "on" =>
        \A i \in 1..Len(client_rx), c \in Conns :
            IsRegister(client_rx[i], c) /\ conn[c].wrapper = w => c = link[w] /\ Serving(w)

\* It waits behind every unregister message of its wrapper,
RegistersAreLast(w) ==
    Serving(w) =>
        \A i \in 1..Len(client_rx) : IsUnregister(client_rx[i], w) =>
            \E j \in 1..Len(client_rx) : i < j /\ IsRegister(client_rx[j], link[w])

\* and when it no longer waits, the wrapper is registered.
ServedIsRegistered(w) ==
    Serving(w) => \/ wrapper_channels[w] = link[w]
                  \/ \E j \in 1..Len(client_rx) : IsRegister(client_rx[j], link[w])

QueueOrdered(w) == RegistersAreServed(w) /\ RegistersAreLast(w) /\ ServedIsRegistered(w)

LiveInv == \A w \in Wrappers : LinkOwned(w) /\ QueueOrdered(w)

-----------------------------------------------------------------------------
(* The client channel.                                                     *)

\* A step that leaves the wrapper and the connection it has as they are, or
\* after which the wrapper does not run.
LinkSame(w) ==
    wrapper'[w] = "on" => /\ wrapper[w] = "on"
                          /\ Serving(w)' <=> Serving(w)
                          /\ Serving(w) => link'[w] = link[w]

\* Whoever waits to be registered has a connection in use.
LEMMA RegisterInUse ==
    ASSUME TypeInv, NEW i \in 1..Len(client_rx), NEW c, IsRegister(client_rx[i], c)
    PROVE  c \in Conns /\ conn[c].task # "unused"
  <1>1. client_rx[i] \in ClientMessage
    BY ElementOfSeq DEF TypeInv, TypeOK
  <1> QED
    BY <1>1, ClientMessageTypes DEF TypeInv, ConnsOwned, IsRegister

\* The channel is left alone.
LEMMA QueueSame ==
    ASSUME TypeInv, NEW w \in Wrappers, QueueOrdered(w), ConnsKept, LinkSame(w),
           client_rx' = client_rx, wrapper_channels'[w] = wrapper_channels[w]
    PROVE  QueueOrdered(w)'
  <1>1. Serving(w)' => Serving(w) /\ link'[w] = link[w]
    BY DEF LinkSame, Serving
  <1>2. RegistersAreServed(w)'
    <2> SUFFICES ASSUME wrapper'[w] = "on", NEW i \in 1..Len(client_rx), NEW c \in Conns,
                        IsRegister(client_rx[i], c), conn'[c].wrapper = w
                 PROVE  c = link'[w] /\ Serving(w)'
      BY DEF RegistersAreServed, IsRegister
    <2>1. conn[c].wrapper = w
      BY RegisterInUse DEF ConnsKept
    <2>2. c = link[w] /\ Serving(w)
      BY <2>1 DEF QueueOrdered, RegistersAreServed, LinkSame
    <2> QED
      BY <2>2 DEF LinkSame
  <1>3. RegistersAreLast(w)'
    BY <1>1 DEF QueueOrdered, RegistersAreLast, IsRegister, IsUnregister
  <1>4. ServedIsRegistered(w)'
    BY <1>1 DEF QueueOrdered, ServedIsRegistered, IsRegister
  <1> QED
    BY <1>2, <1>3, <1>4 DEF QueueOrdered

\* A message is put at its end that is no registration, nor an unregister
\* message of the wrapper while it is served.
LEMMA QueuePushed ==
    ASSUME TypeInv, NEW w \in Wrappers, QueueOrdered(w), ConnsKept, LinkSame(w),
           NEW m \in ClientMessage, Enqueue(m), m.type # "RegisterWrapper",
           Serving(w) => ~IsUnregister(m, w),
           wrapper_channels'[w] = wrapper_channels[w]
    PROVE  QueueOrdered(w)'
  <1>1. Serving(w)' => Serving(w) /\ link'[w] = link[w]
    BY DEF LinkSame, Serving
  <1>2. /\ Len(client_rx) \in Nat /\ Len(client_rx') = Len(client_rx) + 1
        /\ client_rx'[Len(client_rx) + 1] = m
        /\ \A i \in 1..Len(client_rx) : client_rx'[i] = client_rx[i]
    BY ClientRxPushed DEF TypeInv
  <1>3. ASSUME NEW i \in 1..Len(client_rx'), client_rx'[i] # m
        PROVE  i \in 1..Len(client_rx) /\ client_rx'[i] = client_rx[i]
    BY <1>2, <1>3
  <1>4. RegistersAreServed(w)'
    <2> SUFFICES ASSUME wrapper'[w] = "on", NEW i \in 1..Len(client_rx'), NEW c \in Conns,
                        IsRegister(client_rx'[i], c), conn'[c].wrapper = w
                 PROVE  c = link'[w] /\ Serving(w)'
      BY DEF RegistersAreServed, IsRegister
    <2>1. i \in 1..Len(client_rx) /\ client_rx'[i] = client_rx[i]
      BY <1>3 DEF IsRegister
    <2>2. conn[c].wrapper = w
      BY <2>1, RegisterInUse DEF ConnsKept
    <2>3. c = link[w] /\ Serving(w)
      BY <2>1, <2>2 DEF QueueOrdered, RegistersAreServed, LinkSame
    <2> QED
      BY <2>3 DEF LinkSame
  <1>5. RegistersAreLast(w)'
    <2> SUFFICES ASSUME Serving(w)', NEW i \in 1..Len(client_rx'),
                        IsUnregister(client_rx'[i], w)
                 PROVE  \E j \in 1..Len(client_rx') :
                            i < j /\ IsRegister(client_rx'[j], link'[w])
      BY DEF RegistersAreLast, IsRegister, IsUnregister
    <2>1. i \in 1..Len(client_rx) /\ client_rx'[i] = client_rx[i]
      BY <1>1, <1>3
    <2>2. PICK j \in 1..Len(client_rx) : i < j /\ IsRegister(client_rx[j], link[w])
      BY <1>1, <2>1 DEF QueueOrdered, RegistersAreLast
    <2>3. j \in 1..Len(client_rx') /\ client_rx'[j] = client_rx[j]
      BY <1>2
    <2> QED
      BY <1>1, <2>2, <2>3
  <1>6. ServedIsRegistered(w)'
    <2> SUFFICES ASSUME Serving(w)', wrapper_channels[w] # link[w]
                 PROVE  \E j \in 1..Len(client_rx') : IsRegister(client_rx'[j], link'[w])
      BY <1>1 DEF ServedIsRegistered, IsRegister
    <2>1. PICK j \in 1..Len(client_rx) : IsRegister(client_rx[j], link[w])
      BY <1>1 DEF QueueOrdered, ServedIsRegistered
    <2>2. j \in 1..Len(client_rx') /\ client_rx'[j] = client_rx[j]
      BY <1>2
    <2> QED
      BY <1>1, <2>1, <2>2
  <1> QED
    BY <1>4, <1>5, <1>6 DEF QueueOrdered

\* The loop takes a message, after which the wrapper, if it is served, is
\* registered or a registration of it is still waiting.
LEMMA QueueTaken ==
    ASSUME TypeInv, NEW w \in Wrappers, QueueOrdered(w), NEW type, Receive(type),
           Serving(w) => \/ wrapper_channels'[w] = link[w]
                         \/ \E j \in 2..Len(client_rx) : IsRegister(client_rx[j], link[w])
    PROVE  QueueOrdered(w)'
  <1>1. /\ conn' = conn /\ wrapper' = wrapper /\ link' = link
        /\ Serving(w)' <=> Serving(w)
    BY DEF Receive, wrapVars, Serving
  <1>2. /\ Len(client_rx) \in Nat /\ Len(client_rx') = Len(client_rx) - 1
        /\ \A i \in 1..Len(client_rx') :
               i + 1 \in 1..Len(client_rx) /\ client_rx'[i] = client_rx[i + 1]
    BY ClientRxPopped DEF TypeInv
  <1>3. ASSUME NEW j \in 2..Len(client_rx)
        PROVE  j - 1 \in 1..Len(client_rx') /\ client_rx'[j - 1] = client_rx[j]
    BY <1>2
  <1>4. RegistersAreServed(w)'
    <2> SUFFICES ASSUME wrapper[w] = "on", NEW i \in 1..Len(client_rx'), NEW c \in Conns,
                        IsRegister(client_rx'[i], c), conn[c].wrapper = w
                 PROVE  c = link[w] /\ Serving(w)
      BY <1>1 DEF RegistersAreServed, IsRegister
    <2>1. i + 1 \in 1..Len(client_rx) /\ client_rx'[i] = client_rx[i + 1]
      BY <1>2
    <2> QED
      BY <2>1 DEF QueueOrdered, RegistersAreServed
  <1>5. RegistersAreLast(w)'
    <2> SUFFICES ASSUME Serving(w), NEW i \in 1..Len(client_rx'),
                        IsUnregister(client_rx'[i], w)
                 PROVE  \E j \in 1..Len(client_rx') :
                            i < j /\ IsRegister(client_rx'[j], link[w])
      BY <1>1 DEF RegistersAreLast, IsRegister, IsUnregister
    <2>1. i + 1 \in 1..Len(client_rx) /\ client_rx'[i] = client_rx[i + 1]
      BY <1>2
    <2>2. PICK j \in 1..Len(client_rx) : i + 1 < j /\ IsRegister(client_rx[j], link[w])
      BY <2>1 DEF QueueOrdered, RegistersAreLast
    <2>3. j - 1 \in 1..Len(client_rx') /\ client_rx'[j - 1] = client_rx[j] /\ i < j - 1
      BY <1>2, <1>3, <2>2
    <2> QED
      BY <2>2, <2>3
  <1>6. ServedIsRegistered(w)'
    BY <1>1, <1>3 DEF ServedIsRegistered, IsRegister
  <1> QED
    BY <1>4, <1>5, <1>6 DEF QueueOrdered

-----------------------------------------------------------------------------
(* The loop.                                                               *)

\* The loop touches no wrapper and no connection.
LEMMA LinkKept ==
    ASSUME NEW w, LinkOwned(w), UNCHANGED <<conn, wrapper, listener, link>>,
           w \in bye' => w \in bye
    PROVE  LinkOwned(w)'
  BY DEF LinkOwned, ByeOnExit, LinkIsOpen, NewIsUnconnected, OthersClosed

\* ... nor, when that is all, do others.
LEMMA LiveKept ==
    ASSUME TypeInv, LiveInv, UNCHANGED <<conn, wrapVars, bye, client_rx>>,
           \A w \in Wrappers : wrapper_channels'[w] = wrapper_channels[w]
    PROVE  LiveInv'
  <1> SUFFICES ASSUME NEW w \in Wrappers PROVE LinkOwned(w)' /\ QueueOrdered(w)'
    BY DEF LiveInv
  <1>1. LinkOwned(w) /\ QueueOrdered(w)
    BY DEF LiveInv
  <1>2. LinkSame(w) /\ ConnsKept
    BY DEF LinkSame, ConnsKept, Serving, wrapVars
  <1> QED
    BY <1>1, <1>2, LinkKept, QueueSame DEF wrapVars

\* A hook event changes no wrapper's entry of the channel map.
LEMMA LiveHook == ASSUME TypeInv, LiveInv, NEW e, HandleHookEvent(e) PROVE LiveInv'
  <1>1. e.session \in Agents /\ e.session \in SessionIds
    BY HookEnvelopeType DEF TypeInv, TypeOK, HandleHookEvent
  <1>2. \A w \in Wrappers : wrapper_channels'[w] = wrapper_channels[w]
    BY <1>1, IdsAreDisjoint DEF HandleHookEvent, AliasChannel, TypeInv, TypeOK, SessionIds
  <1> QED
    BY <1>2, LiveKept DEF HandleHookEvent

\* A message that neither registers nor unregisters changes none.
LEMMA LiveOtherClient ==
    ASSUME TypeInv, LiveInv,
           HandlePermissionRequest \/ HandlePermissionResponse \/ HandleSendPrompt
    PROVE  LiveInv'
  <1> SUFFICES ASSUME NEW w \in Wrappers PROVE LinkOwned(w)' /\ QueueOrdered(w)'
    BY DEF LiveInv
  <1>1. LinkOwned(w) /\ QueueOrdered(w)
    BY DEF LiveInv
  <1>2. PICK type : /\ Receive(type)
                    /\ type \in {"PermissionRequest", "PermissionResponse", "SendPrompt"}
    BY DEF HandlePermissionRequest, HandlePermissionResponse, HandleSendPrompt
  <1>3. wrapper_channels' = wrapper_channels
    BY DEF HandlePermissionRequest, HandlePermissionResponse, HandleSendPrompt
  <1>4. /\ client_rx[1].type = type /\ Len(client_rx) \in Nat
    BY <1>2, ClientRxPopped DEF TypeInv
  <1>5. \A j \in 1..Len(client_rx) : IsRegister(client_rx[j], link[w]) => j \in 2..Len(client_rx)
    BY <1>2, <1>4 DEF IsRegister
  <1>6. Serving(w) => \/ wrapper_channels'[w] = link[w]
                      \/ \E j \in 2..Len(client_rx) : IsRegister(client_rx[j], link[w])
    BY <1>1, <1>3, <1>5 DEF QueueOrdered, ServedIsRegistered
  <1>7. QueueOrdered(w)'
    BY <1>1, <1>2, <1>6, QueueTaken
  <1> QED
    BY <1>1, <1>2, <1>7, LinkKept DEF Receive, wrapVars

\* A registration that is handled is that of the connection being served.
LEMMA LiveRegister == ASSUME TypeInv, LiveInv, HandleRegisterWrapper PROVE LiveInv'
  <1> SUFFICES ASSUME NEW w \in Wrappers PROVE LinkOwned(w)' /\ QueueOrdered(w)'
    BY DEF LiveInv
  <1>1. LinkOwned(w) /\ QueueOrdered(w)
    BY DEF LiveInv
  <1>2. Receive("RegisterWrapper")
    BY DEF HandleRegisterWrapper
  <1>3. PICK c : c = Head(client_rx).conn
    OBVIOUS
  <1>4. /\ 1 \in 1..Len(client_rx) /\ Len(client_rx) \in Nat
        /\ IsRegister(client_rx[1], c)
    BY <1>2, <1>3, ClientRxPopped DEF TypeInv, IsRegister
  <1>5. c \in Conns /\ conn[c].task # "unused"
    BY <1>4, RegisterInUse
  <1>6. PICK v \in Wrappers : v = conn[c].wrapper /\ v \in SessionIds
    BY <1>5, OwnerType
  <1>7. /\ wrapper_channels'[v] = c
        /\ w # v => wrapper_channels'[w] = wrapper_channels[w]
    <2>1. wrapper_channels' = [wrapper_channels EXCEPT ![v] = c]
      BY <1>3, <1>6, Zenon DEF HandleRegisterWrapper
    <2> QED
      BY <1>6, <2>1 DEF TypeInv, TypeOK, SessionIds
  <1>8. Serving(w) => \/ wrapper_channels'[w] = link[w]
                      \/ \E j \in 2..Len(client_rx) : IsRegister(client_rx[j], link[w])
    <2> SUFFICES ASSUME Serving(w)
                 PROVE  \/ wrapper_channels'[w] = link[w]
                        \/ \E j \in 2..Len(client_rx) : IsRegister(client_rx[j], link[w])
      OBVIOUS
    <2>1. CASE w = v
      <3>1. c = link[w]
        BY <1>1, <1>4, <1>5, <1>6, <2>1 DEF QueueOrdered, RegistersAreServed, Serving
      <3> QED
        BY <1>7, <2>1, <3>1
    <2>2. CASE w # v
      <3>1. conn[link[w]].wrapper = w
        BY <1>1 DEF LinkOwned, LinkIsOpen, Serving
      <3>2. ~IsRegister(client_rx[1], link[w])
        BY <1>4, <1>6, <2>2, <3>1 DEF IsRegister
      <3>3. \A j \in 1..Len(client_rx) :
                IsRegister(client_rx[j], link[w]) => j \in 2..Len(client_rx)
        BY <1>4, <3>2
      <3> QED
        BY <1>1, <1>7, <2>2, <3>3 DEF QueueOrdered, ServedIsRegistered
    <2> QED
      BY <2>1, <2>2
  <1>9. QueueOrdered(w)'
    BY <1>1, <1>2, <1>8, QueueTaken
  <1> QED
    BY <1>1, <1>2, <1>9, LinkKept DEF Receive, wrapVars

\* An unregister message of a wrapper that is served has the registration of the
\* connection it has now behind it; one of another wrapper takes only sessions
\* linked to that one, which wrappers are not.
LEMMA LiveUnregister ==
    ASSUME TypeInv, RegistryInv, LiveInv, HandleUnregisterWrapper PROVE LiveInv'
  <1> SUFFICES ASSUME NEW w \in Wrappers PROVE LinkOwned(w)' /\ QueueOrdered(w)'
    BY DEF LiveInv
  <1>1. LinkOwned(w) /\ QueueOrdered(w)
    BY DEF LiveInv
  <1>2. Receive("UnregisterWrapper")
    BY DEF HandleUnregisterWrapper
  <1>3. PICK v : v = Head(client_rx).wrapper
    OBVIOUS
  <1>4. /\ 1 \in 1..Len(client_rx) /\ Len(client_rx) \in Nat
        /\ IsUnregister(client_rx[1], v) /\ v \in Wrappers
    <2>1. Head(client_rx) \in ClientMessage /\ Head(client_rx).type = "UnregisterWrapper"
      BY <1>2, ClientRxPopped DEF TypeInv
    <2>2. v \in Wrappers
      BY <1>3, <2>1, ClientMessageTypes
    <2> QED
      BY <1>2, <1>3, <2>2, ClientRxPopped DEF TypeInv, IsUnregister
  <1>5. w # v => wrapper_channels'[w] = wrapper_channels[w]
    <2>1. v # None /\ w \in SessionIds
      BY <1>4, NoneIsNoValue DEF SessionIds
    <2>2. ParentOf(sessions, w) = None
      BY DEF ParentOf, RegistryInv, Parentless
    <2>3. w # v => w \notin {v} \cup Family(sessions, v)
      BY <2>1, <2>2 DEF Family
    <2>4. wrapper_channels' = [s \in SessionIds |->
                                   IF s \in {v} \cup Family(sessions, v) THEN None
                                   ELSE wrapper_channels[s]]
      BY <1>3 DEF HandleUnregisterWrapper
    <2> QED
      BY <2>1, <2>3, <2>4
  <1>6. Serving(w) => \/ wrapper_channels'[w] = link[w]
                      \/ \E j \in 2..Len(client_rx) : IsRegister(client_rx[j], link[w])
    <2> SUFFICES ASSUME Serving(w)
                 PROVE  \/ wrapper_channels'[w] = link[w]
                        \/ \E j \in 2..Len(client_rx) : IsRegister(client_rx[j], link[w])
      OBVIOUS
    <2>1. \A j \in 1..Len(client_rx) :
              IsRegister(client_rx[j], link[w]) => j \in 2..Len(client_rx)
      BY <1>4 DEF IsRegister, IsUnregister
    <2>2. CASE w = v
      <3>1. \E j \in 1..Len(client_rx) : IsRegister(client_rx[j], link[w])
        BY <1>1, <1>4, <2>2 DEF QueueOrdered, RegistersAreLast
      <3> QED
        BY <2>1, <3>1
    <2>3. CASE w # v
      BY <1>1, <1>5, <2>1, <2>3 DEF QueueOrdered, ServedIsRegistered
    <2> QED
      BY <2>2, <2>3
  <1>7. QueueOrdered(w)'
    BY <1>1, <1>2, <1>6, QueueTaken
  <1> QED
    BY <1>1, <1>2, <1>7, LinkKept DEF Receive, wrapVars

-----------------------------------------------------------------------------
(* Tasks.                                                                  *)

\* A message is queued that says nothing of a wrapper that is served.
LEMMA LivePushed ==
    ASSUME TypeInv, LiveInv, UNCHANGED <<conn, wrapVars, wrapper_channels>>,
           NEW m \in ClientMessage, Enqueue(m), m.type # "RegisterWrapper",
           \A w \in Wrappers : IsUnregister(m, w) => ~Serving(w),
           \A w \in Wrappers : w \in bye' => w \in bye
    PROVE  LiveInv'
  <1> SUFFICES ASSUME NEW w \in Wrappers PROVE LinkOwned(w)' /\ QueueOrdered(w)'
    BY DEF LiveInv
  <1>1. LinkOwned(w) /\ QueueOrdered(w)
    BY DEF LiveInv
  <1>2. LinkSame(w) /\ ConnsKept
    BY DEF LinkSame, ConnsKept, Serving, wrapVars
  <1> QED
    BY <1>1, <1>2, LinkKept, QueuePushed DEF wrapVars

\* Requests, answers and prompts do not, and a goodbye is that of a wrapper
\* that exits.
LEMMA LiveOtherTask ==
    ASSUME TypeInv, LiveInv,
           \/ \E t \in Tools : TaskRequest(t)
           \/ \E t \in Tools, d \in Decisions : TaskRespond(t, d)
           \/ \E x \in PromptTargets : TaskPrompt(x)
           \/ \E w \in Wrappers : TaskBye(w)
    PROVE  LiveInv'
  <1>1. UNCHANGED <<conn, wrapVars, wrapper_channels>>
    BY DEF TaskRequest, TaskRespond, TaskPrompt, TaskBye, loopVars
  <1>2. \A w \in Wrappers : w \in bye' => w \in bye
    BY DEF TaskRequest, TaskRespond, TaskPrompt, TaskBye
  <1>3. CASE \E m \in ClientMessage :
                 /\ Enqueue(m)
                 /\ m.type \in {"PermissionRequest", "PermissionResponse", "SendPrompt"}
    BY <1>1, <1>2, <1>3, LivePushed DEF IsUnregister
  <1>4. CASE \E w \in Wrappers : TaskBye(w)
    <2>1. PICK v \in Wrappers : TaskBye(v)
      BY <1>4
    <2>2. PICK m \in ClientMessage : m = [type |-> "UnregisterWrapper", wrapper |-> v]
      BY MessagesAreTyped
    <2>3. Enqueue(m) /\ m.type # "RegisterWrapper" /\ m.wrapper = v
      BY <2>1, <2>2 DEF TaskBye
    <2>4. ~Serving(v)
      BY <2>1 DEF TaskBye, LiveInv, LinkOwned, ByeOnExit, Serving
    <2> QED
      BY <1>1, <1>2, <2>3, <2>4, LivePushed DEF IsUnregister
  <1>5. (\E w \in Wrappers : TaskBye(w))
        \/ \E m \in ClientMessage :
               /\ Enqueue(m)
               /\ m.type \in {"PermissionRequest", "PermissionResponse", "SendPrompt"}
    BY MessagesAreTyped DEF TaskRequest, TaskRespond, TaskPrompt
  <1> QED
    BY <1>3, <1>4, <1>5

\* What a step of a connection's task, or its client, changes in the connection.
LEMMA ConnTask ==
    ASSUME TypeOK, NEW c \in Conns, NEW x, conn' = [conn EXCEPT ![c].task = x]
    PROVE  /\ conn'[c].task = x /\ conn'[c].wrapper = conn[c].wrapper
           /\ conn'[c].open = conn[c].open
           /\ \A d \in Conns : d # c => conn'[d] = conn[d]
  <1>1. PICK r \in Connection : r = conn[c]
    BY DEF TypeOK
  <1>2. conn' = [conn EXCEPT ![c] = [r EXCEPT !.task = x]] /\ conn \in [Conns -> Connection]
    BY <1>1, Zenon DEF TypeOK
  <1>3. /\ [r EXCEPT !.task = x].task = x /\ [r EXCEPT !.task = x].wrapper = r.wrapper
        /\ [r EXCEPT !.task = x].open = r.open
    BY DEF Connection
  <1> QED
    BY <1>1, <1>2, <1>3

LEMMA ConnClosed ==
    ASSUME TypeOK, NEW c \in Conns, conn' = [conn EXCEPT ![c].open = FALSE]
    PROVE  /\ conn'[c].task = conn[c].task /\ conn'[c].wrapper = conn[c].wrapper
           /\ \A d \in Conns : d # c => conn'[d] = conn[d]
  <1>1. PICK r \in Connection : r = conn[c]
    BY DEF TypeOK
  <1>2. conn' = [conn EXCEPT ![c] = [r EXCEPT !.open = FALSE]] /\ conn \in [Conns -> Connection]
    BY <1>1, Zenon DEF TypeOK
  <1>3. /\ [r EXCEPT !.open = FALSE].task = r.task
        /\ [r EXCEPT !.open = FALSE].wrapper = r.wrapper
    BY DEF Connection
  <1> QED
    BY <1>1, <1>2, <1>3

\* The wrapper's connection is in the range of the types.
LEMMA LinkTypes ==
    ASSUME TypeInv, NEW w \in Wrappers, link[w] # None
    PROVE  link[w] \in Conns
  BY DEF TypeInv, TypeOK

\* A connection's task queues the registration behind whatever waits.
LEMMA LiveTaskRegister ==
    ASSUME TypeInv, LiveInv, NEW c \in Conns, TaskRegister(c) PROVE LiveInv'
  <1> SUFFICES ASSUME NEW w \in Wrappers PROVE LinkOwned(w)' /\ QueueOrdered(w)'
    BY DEF LiveInv
  <1>1. LinkOwned(w) /\ QueueOrdered(w)
    BY DEF LiveInv
  <1>2. /\ conn[c].task = "reading" /\ conn' = [conn EXCEPT ![c].task = "serving"]
        /\ UNCHANGED <<wrapper, listener, link, bye, wrapper_channels>>
    BY DEF TaskRegister, loopVars, wrapVars
  <1>3. /\ conn'[c].task = "serving" /\ conn'[c].wrapper = conn[c].wrapper
        /\ conn'[c].open = conn[c].open
        /\ \A d \in Conns : d # c => conn'[d] = conn[d]
    BY <1>2, ConnTask DEF TypeInv
  <1>4. link[w] # None => link[w] \in Conns
    BY LinkTypes
  <1>5. PICK m \in ClientMessage : m = [type |-> "RegisterWrapper", conn |-> c]
    BY MessagesAreTyped
  <1>6. Enqueue(m) /\ IsRegister(m, c)
    BY <1>5 DEF TaskRegister, IsRegister
  <1>7. LinkOwned(w)'
    BY <1>1, <1>2, <1>3, <1>4
       DEF LinkOwned, ByeOnExit, LinkIsOpen, NewIsUnconnected, OthersClosed
  <1>8. /\ Len(client_rx) \in Nat /\ Len(client_rx') = Len(client_rx) + 1
        /\ client_rx'[Len(client_rx) + 1] = m
        /\ \A i \in 1..Len(client_rx) : client_rx'[i] = client_rx[i]
    BY <1>6, ClientRxPushed DEF TypeInv
  <1>9. CASE wrapper[w] = "on" /\ link[w] = c
    <2>1. Serving(w)' /\ ~Serving(w) /\ link'[w] = c
      BY <1>1, <1>2, <1>3, <1>9, NoneIsNoConn DEF Serving
    <2>2. RegistersAreServed(w)'
      <3> SUFFICES ASSUME NEW i \in 1..Len(client_rx'), NEW d \in Conns,
                          IsRegister(client_rx'[i], d), conn'[d].wrapper = w
                   PROVE  d = c
        BY <2>1 DEF RegistersAreServed, IsRegister
      <3>1. CASE i = Len(client_rx) + 1
        BY <1>6, <1>8, <3>1 DEF IsRegister
      <3>2. CASE i # Len(client_rx) + 1
        <4>1. i \in 1..Len(client_rx) /\ client_rx'[i] = client_rx[i]
          BY <1>8, <3>2
        <4>2. conn[d].wrapper = w
          BY <1>3
        <4> QED
          BY <1>1, <1>9, <2>1, <4>1, <4>2 DEF QueueOrdered, RegistersAreServed
      <3> QED
        BY <3>1, <3>2
    <2>3. /\ Len(client_rx') \in 1..Len(client_rx')
          /\ IsRegister(client_rx'[Len(client_rx')], link'[w])
      BY <1>6, <1>8, <2>1
    <2>4. \A i \in 1..Len(client_rx') : IsUnregister(client_rx'[i], w) => i < Len(client_rx')
      BY <1>6, <1>8 DEF IsRegister, IsUnregister
    <2>5. RegistersAreLast(w)' /\ ServedIsRegistered(w)'
      BY <2>3, <2>4 DEF RegistersAreLast, ServedIsRegistered, IsRegister, IsUnregister
    <2> QED
      BY <1>7, <2>2, <2>5 DEF QueueOrdered
  <1>10. CASE wrapper[w] = "on" /\ link[w] # c
    <2>1. conn[c].wrapper # w
      BY <1>1, <1>2, <1>10 DEF LinkOwned, OthersClosed
    <2>2. Serving(w)' <=> Serving(w)
      BY <1>2, <1>3, <1>4, <1>10 DEF Serving
    <2>3. RegistersAreServed(w)'
      <3> SUFFICES ASSUME NEW i \in 1..Len(client_rx'), NEW d \in Conns,
                          IsRegister(client_rx'[i], d), conn'[d].wrapper = w
                   PROVE  d = link[w] /\ Serving(w)
        BY <1>2, <2>2 DEF RegistersAreServed, IsRegister
      <3>1. CASE i = Len(client_rx) + 1
        BY <1>3, <1>6, <1>8, <2>1, <3>1 DEF IsRegister
      <3>2. CASE i # Len(client_rx) + 1
        <4>1. i \in 1..Len(client_rx) /\ client_rx'[i] = client_rx[i]
          BY <1>8, <3>2
        <4>2. conn[d].wrapper = w
          BY <1>3
        <4> QED
          BY <1>1, <1>10, <4>1, <4>2 DEF QueueOrdered, RegistersAreServed
      <3> QED
        BY <3>1, <3>2
    <2>4. RegistersAreLast(w)'
      <3> SUFFICES ASSUME Serving(w), NEW i \in 1..Len(client_rx'),
                          IsUnregister(client_rx'[i], w)
                   PROVE  \E j \in 1..Len(client_rx') :
                              i < j /\ IsRegister(client_rx'[j], link[w])
        BY <1>2, <2>2 DEF RegistersAreLast, IsRegister, IsUnregister
      <3>1. i \in 1..Len(client_rx) /\ client_rx'[i] = client_rx[i]
        BY <1>6, <1>8 DEF IsRegister, IsUnregister
      <3>2. PICK j \in 1..Len(client_rx) : i < j /\ IsRegister(client_rx[j], link[w])
        BY <1>1, <3>1 DEF QueueOrdered, RegistersAreLast
      <3>3. j \in 1..Len(client_rx') /\ client_rx'[j] = client_rx[j]
        BY <1>8
      <3> QED
        BY <3>2, <3>3
    <2>5. ServedIsRegistered(w)'
      <3>1. \A j \in 1..Len(client_rx) :
                j \in 1..Len(client_rx') /\ client_rx'[j] = client_rx[j]
        BY <1>8
      <3> QED
        BY <1>1, <1>2, <2>2, <3>1 DEF QueueOrdered, ServedIsRegistered, IsRegister
    <2> QED
      BY <1>7, <2>3, <2>4, <2>5 DEF QueueOrdered
  <1>11. CASE wrapper[w] # "on"
    BY <1>2, <1>7, <1>11
       DEF QueueOrdered, RegistersAreServed, RegistersAreLast, ServedIsRegistered, Serving
  <1> QED
    BY <1>9, <1>10, <1>11

\* A task that stops serving was not that of a running wrapper: its client end
\* is open, and the loop holds its sender or is about to get it.
LEMMA LiveTaskUnregister ==
    ASSUME TypeInv, LiveInv, NEW c \in Conns, TaskUnregister(c) PROVE LiveInv'
  <1>1. /\ conn[c].task = "serving" /\ conn' = [conn EXCEPT ![c].task = "closed"]
        /\ UNCHANGED <<wrapper, listener, link, bye, wrapper_channels>>
    BY DEF TaskUnregister, loopVars, wrapVars
  <1>2. PICK v \in Wrappers : v = conn[c].wrapper
    BY <1>1, OwnerType
  <1>3. PICK m \in ClientMessage : m = [type |-> "UnregisterWrapper", wrapper |-> v]
    BY MessagesAreTyped
  <1>4. Enqueue(m) /\ m.type # "RegisterWrapper" /\ m.wrapper = v
    BY <1>2, <1>3 DEF TaskUnregister
  <1>5. wrapper[v] # "on"
    <2> SUFFICES ASSUME wrapper[v] = "on" PROVE FALSE
      OBVIOUS
    <2>1. link[v] = c
      BY <1>1, <1>2 DEF LiveInv, LinkOwned, OthersClosed
    <2>2. c # None /\ Serving(v)
      BY <1>1, <2>1, NoneIsNoConn DEF Serving
    <2>3. conn[c].open
      BY <2>1, <2>2 DEF LiveInv, LinkOwned, LinkIsOpen
    <2>4. SendersDropped(c)
      BY <2>3 DEF TaskUnregister
    <2>5. wrapper_channels[v] # c
      BY <2>4 DEF SendersDropped, SessionIds
    <2>6. PICK j \in 1..Len(client_rx) : IsRegister(client_rx[j], c)
      BY <2>1, <2>2, <2>5 DEF LiveInv, QueueOrdered, ServedIsRegistered
    <2>7. client_rx[j] = [type |-> "RegisterWrapper", conn |-> c]
      <3>1. client_rx[j] \in ClientMessage
        BY ElementOfSeq DEF TypeInv, TypeOK
      <3> QED
        BY <2>6, <3>1 DEF ClientMessage, IsRegister
    <2> QED
      BY <2>4, <2>7 DEF SendersDropped
  <1>6. /\ conn'[c].task = "closed" /\ conn'[c].wrapper = conn[c].wrapper
        /\ conn'[c].open = conn[c].open
        /\ \A d \in Conns : d # c => conn'[d] = conn[d]
    BY <1>1, ConnTask DEF TypeInv
  <1>7. ConnsKept
    BY <1>1, <1>6 DEF ConnsKept
  <1> SUFFICES ASSUME NEW w \in Wrappers PROVE LinkOwned(w)' /\ QueueOrdered(w)'
    BY DEF LiveInv
  <1>8. LinkOwned(w) /\ QueueOrdered(w)
    BY DEF LiveInv
  <1>9. link[w] # None => link[w] \in Conns /\ conn[link[w]].wrapper = w
    BY <1>8, LinkTypes DEF LinkOwned, LinkIsOpen
  <1>10. LinkOwned(w)'
    BY <1>1, <1>6, <1>8, <1>9
       DEF LinkOwned, ByeOnExit, LinkIsOpen, NewIsUnconnected, OthersClosed
  <1>11. LinkSame(w)
    BY <1>1, <1>2, <1>5, <1>6, <1>9 DEF LinkSame, Serving
  <1>12. Serving(w) => ~IsUnregister(m, w)
    BY <1>4, <1>5 DEF Serving, IsUnregister
  <1> QED
    BY <1>1, <1>4, <1>7, <1>8, <1>10, <1>11, <1>12, QueuePushed

-----------------------------------------------------------------------------
(* Wrappers.                                                               *)

\* What a wrapper's new connection is.
LEMMA Connected ==
    ASSUME TypeOK, NEW v \in Wrappers, NEW c \in Conns, Connect(v, c)
    PROVE  /\ conn[c].task = "unused" /\ c # None
           /\ conn'[c].wrapper = v /\ conn'[c].task = "reading" /\ conn'[c].open
           /\ \A d \in Conns : d # c => conn'[d] = conn[d]
           /\ link'[v] = c /\ listener'[v] = "reading"
           /\ \A w \in Wrappers : w # v => link'[w] = link[w] /\ listener'[w] = listener[w]
  BY NoneIsNoConn DEF TypeOK, Connect

\* A new connection is nobody else's business.
LEMMA ConnectOthers ==
    ASSUME TypeInv, NEW v \in Wrappers, NEW c \in Conns, Connect(v, c),
           NEW w \in Wrappers, w # v, LinkOwned(w), QueueOrdered(w),
           wrapper'[w] = wrapper[w], UNCHANGED <<bye, client_rx, wrapper_channels>>
    PROVE  LinkOwned(w)' /\ QueueOrdered(w)'
  <1>1. /\ conn[c].task = "unused" /\ conn'[c].wrapper = v
        /\ \A d \in Conns : d # c => conn'[d] = conn[d]
        /\ link'[w] = link[w] /\ listener'[w] = listener[w]
    BY Connected DEF TypeInv
  <1>2. link[w] # None => link[w] \in Conns /\ link[w] # c
    BY <1>1, LinkTypes DEF LinkOwned, LinkIsOpen
  <1>3. LinkOwned(w)'
    BY <1>1, <1>2 DEF LinkOwned, ByeOnExit, LinkIsOpen, NewIsUnconnected, OthersClosed
  <1>4. LinkSame(w) /\ ConnsKept
    BY <1>1, <1>2, ConnsKeptOpen DEF LinkSame, Serving, TypeInv
  <1> QED
    BY <1>3, <1>4, QueueSame

\* A wrapper connects once its connections before are closed.
LEMMA ConnectOwn ==
    ASSUME TypeInv, NEW v \in Wrappers, NEW c \in Conns, Connect(v, c), QueueOrdered(v),
           UNCHANGED <<bye, client_rx, wrapper_channels>>,
           v \in bye => wrapper'[v] \in {"exiting", "dead"}, wrapper'[v] # "off",
           link[v] = None,
           wrapper'[v] = "on" =>
               \A d \in Conns : conn[d].wrapper = v => conn[d].task \in {"unused", "closed"},
           wrapper'[v] = "on" => \/ wrapper[v] = "on"
                                 \/ \A d \in Conns : conn[d].task # "unused" =>
                                                         conn[d].wrapper # v
    PROVE  LinkOwned(v)' /\ QueueOrdered(v)'
  <1>1. /\ conn[c].task = "unused" /\ c # None
        /\ conn'[c].wrapper = v /\ conn'[c].task = "reading" /\ conn'[c].open
        /\ \A d \in Conns : d # c => conn'[d] = conn[d]
        /\ link'[v] = c /\ listener'[v] = "reading"
    BY Connected DEF TypeInv
  <1>2. LinkOwned(v)'
    BY <1>1 DEF LinkOwned, ByeOnExit, LinkIsOpen, NewIsUnconnected, OthersClosed
  <1>3. ~Serving(v) /\ ~Serving(v)'
    BY <1>1 DEF Serving
  <1>4. RegistersAreServed(v)'
    <2> SUFFICES ASSUME wrapper'[v] = "on", NEW i \in 1..Len(client_rx), NEW d \in Conns,
                        IsRegister(client_rx[i], d), conn'[d].wrapper = v
                 PROVE  FALSE
      BY DEF RegistersAreServed, IsRegister
    <2>1. conn[d].task # "unused"
      BY RegisterInUse
    <2>2. conn[d].wrapper = v
      BY <1>1, <2>1
    <2>3. wrapper[v] = "on"
      BY <2>1, <2>2
    <2> QED
      BY <1>3, <2>2, <2>3 DEF QueueOrdered, RegistersAreServed
  <1> QED
    BY <1>2, <1>3, <1>4 DEF QueueOrdered, RegistersAreLast, ServedIsRegistered

\* A wrapper starts without a past.
LEMMA LiveWrapperStart ==
    ASSUME TypeInv, LiveInv, NEW v \in Wrappers, WrapperStart(v) PROVE LiveInv'
  <1> SUFFICES ASSUME NEW w \in Wrappers PROVE LinkOwned(w)' /\ QueueOrdered(w)'
    BY DEF LiveInv
  <1>1. LinkOwned(w) /\ QueueOrdered(w) /\ LinkOwned(v) /\ QueueOrdered(v)
    BY DEF LiveInv
  <1>2. /\ wrapper[v] = "off" /\ wrapper'[v] = "on"
        /\ w # v => wrapper'[w] = wrapper[w]
        /\ UNCHANGED <<bye, client_rx, wrapper_channels>>
    BY DEF WrapperStart, TypeInv, TypeOK, loopVars
  <1>3. /\ link[v] = None /\ v \notin bye
        /\ \A d \in Conns : conn[d].task # "unused" => conn[d].wrapper # v
    BY <1>1, <1>2 DEF LinkOwned, NewIsUnconnected, LinkIsOpen, ByeOnExit
  <1>4. CASE \E c \in Conns : Connect(v, c)
    <2>1. PICK c \in Conns : Connect(v, c)
      BY <1>4
    <2>2. \A d \in Conns : conn[d].wrapper = v => conn[d].task \in {"unused", "closed"}
      BY <1>3
    <2>3. CASE w # v
      BY <1>1, <1>2, <2>1, <2>3, ConnectOthers
    <2>4. CASE w = v
      <3>1. LinkOwned(v)' /\ QueueOrdered(v)'
        BY <1>1, <1>2, <1>3, <2>1, <2>2, ConnectOwn
      <3> QED
        BY <2>4, <3>1
    <2> QED
      BY <2>3, <2>4
  <1>5. CASE UNCHANGED <<conn, link, listener>>
    <2>1. CASE w # v
      <3>1. LinkSame(w) /\ ConnsKept
        BY <1>2, <1>5, <2>1 DEF LinkSame, Serving, ConnsKept
      <3>2. LinkOwned(w)'
        BY <1>1, <1>2, <1>5, <2>1
           DEF LinkOwned, ByeOnExit, LinkIsOpen, NewIsUnconnected, OthersClosed
      <3> QED
        BY <1>1, <1>2, <3>1, <3>2, QueueSame
    <2>2. CASE w = v
      <3>1. LinkOwned(v)'
        BY <1>1, <1>2, <1>3, <1>5
           DEF LinkOwned, ByeOnExit, LinkIsOpen, NewIsUnconnected, OthersClosed
      <3>2. ~Serving(v)'
        BY <1>3, <1>5 DEF Serving
      <3>3. RegistersAreServed(v)'
        <4> SUFFICES ASSUME NEW i \in 1..Len(client_rx), NEW d \in Conns,
                            IsRegister(client_rx[i], d), conn[d].wrapper = v
                     PROVE  FALSE
          BY <1>2, <1>5 DEF RegistersAreServed, IsRegister
        <4> QED
          BY <1>3, RegisterInUse
      <3>4. QueueOrdered(v)'
        BY <3>2, <3>3 DEF QueueOrdered, RegistersAreLast, ServedIsRegistered
      <3> QED
        BY <2>2, <3>1, <3>4
    <2> QED
      BY <2>1, <2>2
  <1> QED
    BY <1>4, <1>5 DEF WrapperStart

\* It connects again when it has read the end of the connection before.
LEMMA LiveReconnect ==
    ASSUME TypeInv, LiveInv, NEW v \in Wrappers, Reconnect(v) PROVE LiveInv'
  <1> SUFFICES ASSUME NEW w \in Wrappers PROVE LinkOwned(w)' /\ QueueOrdered(w)'
    BY DEF LiveInv
  <1>1. LinkOwned(w) /\ QueueOrdered(w) /\ LinkOwned(v) /\ QueueOrdered(v)
    BY DEF LiveInv
  <1>2. /\ listener[v] = "reconnecting"
        /\ UNCHANGED <<wrapper, bye, client_rx, wrapper_channels>>
    BY DEF Reconnect, loopVars
  <1>3. link[v] = None /\ wrapper[v] # "off"
    BY <1>1, <1>2 DEF LinkOwned, LinkIsOpen, NewIsUnconnected
  <1>4. CASE \E c \in Conns : Connect(v, c)
    <2>1. PICK c \in Conns : Connect(v, c)
      BY <1>4
    <2>2. wrapper[v] = "on" =>
              \A d \in Conns : conn[d].wrapper = v => conn[d].task \in {"unused", "closed"}
      BY <1>1, <1>3, NoneIsNoConn DEF LinkOwned, OthersClosed
    <2>3. CASE w # v
      BY <1>1, <1>2, <2>1, <2>3, ConnectOthers
    <2>4. CASE w = v
      <3>1. v \in bye => wrapper[v] \in {"exiting", "dead"}
        BY <1>1 DEF LinkOwned, ByeOnExit
      <3>2. LinkOwned(v)' /\ QueueOrdered(v)'
        BY <1>1, <1>2, <1>3, <2>1, <2>2, <3>1, ConnectOwn
      <3> QED
        BY <2>4, <3>2
    <2> QED
      BY <2>3, <2>4
  <1>5. CASE listener' = [listener EXCEPT ![v] = "none"] /\ UNCHANGED <<conn, link>>
    <2>1. listener'[w] = IF w = v THEN "none" ELSE listener[w]
      BY <1>5 DEF TypeInv, TypeOK
    <2>2. LinkOwned(w)'
      BY <1>1, <1>2, <1>3, <1>5, <2>1
         DEF LinkOwned, ByeOnExit, LinkIsOpen, NewIsUnconnected, OthersClosed
    <2>3. LinkSame(w) /\ ConnsKept
      BY <1>2, <1>5 DEF LinkSame, Serving, ConnsKept
    <2> QED
      BY <1>1, <1>2, <2>2, <2>3, QueueSame
  <1> QED
    BY <1>4, <1>5 DEF Reconnect

\* A wrapper drops its connection, when it was closed or with the process.
LEMMA LinkDropped ==
    ASSUME TypeInv, LiveInv, NEW v \in Wrappers,
           \/ link[v] # None /\ conn' = [conn EXCEPT ![link[v]].open = FALSE]
           \/ link[v] = None /\ conn' = conn,
           link' = [link EXCEPT ![v] = None],
           listener'[v] # "reading",
           \A w \in Wrappers : w # v => wrapper'[w] = wrapper[w] /\ listener'[w] = listener[w],
           wrapper'[v] # "off",
           wrapper'[v] = "on" => /\ wrapper[v] = "on"
                                 /\ link[v] # None => conn[link[v]].task = "closed",
           v \in bye => wrapper'[v] \in {"exiting", "dead"},
           UNCHANGED <<bye, client_rx, wrapper_channels>>
    PROVE  LiveInv'
  <1> SUFFICES ASSUME NEW w \in Wrappers PROVE LinkOwned(w)' /\ QueueOrdered(w)'
    BY DEF LiveInv
  <1>1. LinkOwned(w) /\ QueueOrdered(w) /\ LinkOwned(v)
    BY DEF LiveInv
  <1>2. /\ \A d \in Conns : conn'[d].task = conn[d].task /\ conn'[d].wrapper = conn[d].wrapper
        /\ \A d \in Conns : d # link[v] => conn'[d] = conn[d]
    <2>1. CASE link[v] = None /\ conn' = conn
      BY <2>1
    <2>2. CASE link[v] # None /\ conn' = [conn EXCEPT ![link[v]].open = FALSE]
      <3>1. PICK c \in Conns : c = link[v]
        BY <2>2, LinkTypes
      <3>2. conn' = [conn EXCEPT ![c].open = FALSE]
        BY <2>2, <3>1
      <3>3. /\ conn'[c].task = conn[c].task /\ conn'[c].wrapper = conn[c].wrapper
            /\ \A d \in Conns : d # c => conn'[d] = conn[d]
        BY <3>2, ConnClosed DEF TypeInv
      <3> QED
        BY <3>1, <3>3
    <2> QED
      BY <2>1, <2>2
  <1>3. ConnsKept
    BY <1>2 DEF ConnsKept
  <1>4. link'[v] = None /\ (w # v => link'[w] = link[w])
    BY DEF TypeInv, TypeOK
  <1>5. CASE w # v
    <2>1. link[w] # None => /\ link[w] \in Conns /\ link[w] # link[v]
      BY <1>1, <1>5, LinkTypes DEF LinkOwned, LinkIsOpen
    <2>2. LinkOwned(w)'
      BY <1>1, <1>2, <1>4, <1>5, <2>1
         DEF LinkOwned, ByeOnExit, LinkIsOpen, NewIsUnconnected, OthersClosed
    <2>3. LinkSame(w)
      BY <1>2, <1>4, <1>5, <2>1 DEF LinkSame, Serving
    <2> QED
      BY <1>1, <1>3, <2>2, <2>3, QueueSame
  <1>6. CASE w = v
    <2>1. wrapper'[v] = "on" =>
              \A d \in Conns : conn[d].wrapper = v => conn[d].task \in {"unused", "closed"}
      BY <1>1, NoneIsNoConn DEF LinkOwned, OthersClosed
    <2>2. LinkOwned(v)'
      BY <1>2, <1>4, <2>1, NoneIsNoConn
         DEF LinkOwned, ByeOnExit, LinkIsOpen, NewIsUnconnected, OthersClosed
    <2>3. LinkSame(v)
      BY <1>4 DEF LinkSame, Serving
    <2> QED
      BY <1>1, <1>3, <1>6, <2>2, <2>3, QueueSame
  <1> QED
    BY <1>5, <1>6

\* ... on EOF,
LEMMA LiveListenerEof ==
    ASSUME TypeInv, LiveInv, NEW v \in Wrappers, ListenerEof(v) PROVE LiveInv'
  <1>1. LinkOwned(v)
    BY DEF LiveInv
  <1>2. /\ listener[v] = "reading" /\ conn[link[v]].task = "closed"
        /\ conn' = [conn EXCEPT ![link[v]].open = FALSE]
        /\ link' = [link EXCEPT ![v] = None]
        /\ UNCHANGED <<wrapper, bye, client_rx, wrapper_channels>>
    BY DEF ListenerEof, loopVars
  <1>3. /\ listener'[v] # "reading"
        /\ \A w \in Wrappers : w # v => listener'[w] = listener[w]
    BY DEF ListenerEof, TypeInv, TypeOK
  <1>4. /\ link[v] # None /\ wrapper[v] # "off"
        /\ v \in bye => wrapper[v] \in {"exiting", "dead"}
    BY <1>1, <1>2 DEF LinkOwned, LinkIsOpen, NewIsUnconnected, ByeOnExit
  <1> QED
    BY <1>2, <1>3, <1>4, LinkDropped

\* ... and when the process ends.
LEMMA LiveWrapperDie ==
    ASSUME TypeInv, LiveInv, NEW v \in Wrappers, WrapperDie(v) PROVE LiveInv'
  <1>1. /\ wrapper'[v] = "dead" /\ listener'[v] = "none"
        /\ \A w \in Wrappers : w # v => wrapper'[w] = wrapper[w] /\ listener'[w] = listener[w]
    BY DEF WrapperDie, TypeInv, TypeOK
  <1>2. /\ \/ link[v] # None /\ conn' = [conn EXCEPT ![link[v]].open = FALSE]
           \/ link[v] = None /\ conn' = conn
        /\ link' = [link EXCEPT ![v] = None]
        /\ UNCHANGED <<bye, client_rx, wrapper_channels>>
    BY DEF WrapperDie, loopVars
  <1> QED
    BY <1>1, <1>2, LinkDropped

\* A wrapper that exits keeps its connection until it ends.
LEMMA LiveWrapperExit ==
    ASSUME TypeInv, LiveInv, NEW v \in Wrappers, WrapperExit(v) PROVE LiveInv'
  <1> SUFFICES ASSUME NEW w \in Wrappers PROVE LinkOwned(w)' /\ QueueOrdered(w)'
    BY DEF LiveInv
  <1>1. LinkOwned(w) /\ QueueOrdered(w)
    BY DEF LiveInv
  <1>2. /\ UNCHANGED <<conn, listener, link, client_rx, wrapper_channels>>
        /\ wrapper'[v] = "exiting" /\ (w # v => wrapper'[w] = wrapper[w])
        /\ w \in bye' => w \in bye \/ w = v
    BY DEF WrapperExit, TypeInv, TypeOK, loopVars
  <1>3. LinkOwned(w)'
    BY <1>1, <1>2 DEF LinkOwned, ByeOnExit, LinkIsOpen, NewIsUnconnected, OthersClosed
  <1>4. LinkSame(w) /\ ConnsKept
    BY <1>2 DEF LinkSame, Serving, ConnsKept
  <1> QED
    BY <1>1, <1>2, <1>3, <1>4, QueueSame

-----------------------------------------------------------------------------

\* A crash closes every connection and empties the channel.
LEMMA LiveCrash == ASSUME TypeInv, LiveInv, DaemonCrash PROVE LiveInv'
  <1> SUFFICES ASSUME NEW w \in Wrappers PROVE LinkOwned(w)' /\ QueueOrdered(w)'
    BY DEF LiveInv
  <1>1. LinkOwned(w)
    BY DEF LiveInv
  <1>2. ASSUME NEW c \in Conns
        PROVE  /\ conn'[c].wrapper = conn[c].wrapper /\ conn'[c].open = conn[c].open
               /\ conn'[c].task = IF conn[c].task = "unused" THEN "unused" ELSE "closed"
    <2>1. PICK r \in Connection : r = conn[c]
      BY DEF TypeInv, TypeOK
    <2>2. /\ [r EXCEPT !.task = "closed"].task = "closed"
          /\ [r EXCEPT !.task = "closed"].wrapper = r.wrapper
          /\ [r EXCEPT !.task = "closed"].open = r.open
      BY DEF Connection
    <2>3. conn'[c] = IF r.task = "unused" THEN r ELSE [r EXCEPT !.task = "closed"]
      BY <2>1 DEF DaemonCrash
    <2> QED
      BY <2>1, <2>2, <2>3
  <1>3. UNCHANGED <<wrapper, listener, link>> /\ bye' = {} /\ client_rx' = <<>>
    BY DEF DaemonCrash, wrapVars
  <1>4. link[w] # None => link[w] \in Conns
    BY LinkTypes
  <1>5. LinkOwned(w)'
    BY <1>1, <1>2, <1>3, <1>4
       DEF LinkOwned, ByeOnExit, LinkIsOpen, NewIsUnconnected, OthersClosed
  <1>6. ~Serving(w)'
    BY <1>2, <1>3, <1>4 DEF Serving
  <1>7. \A i \in 1..Len(client_rx') : FALSE
    BY <1>3, EmptySeq
  <1> QED
    BY <1>5, <1>6, <1>7
       DEF QueueOrdered, RegistersAreServed, RegistersAreLast, ServedIsRegistered

\* The rest touches nothing that matters here.
LEMMA LiveRest ==
    ASSUME TypeInv, LiveInv,
           \/ Hooks \/ Claude \/ WriteStateFile \/ DaemonRestart \/ UNCHANGED vars
           \/ \E c \in Conns : TaskDeliver(c)
    PROVE  LiveInv'
  <1>1. UNCHANGED <<conn, wrapVars, bye, client_rx, wrapper_channels>>
    <2>1. CASE Claude
      <3>1. UNCHANGED claudeKeeps
        BY <2>1 DEF Claude, AgentStart, AgentStop, AgentEnd, ToolStart, ToolAsk, ToolRun,
           ToolDecide, ToolTerminal, ToolEnd, ToolStep
      <3> QED
        BY <3>1 DEF claudeKeeps, loopVars
    <2>2. CASE \/ Hooks \/ WriteStateFile \/ DaemonRestart \/ UNCHANGED vars
               \/ \E c \in Conns : TaskDeliver(c)
      BY <2>2 DEF Hooks, HookRead, HookGiveUp, WriteStateFile, DaemonRestart, vars, TaskDeliver,
         loopVars
    <2> QED
      BY <2>1, <2>2
  <1> QED
    BY <1>1, LiveKept

\* Every step keeps the messages in their order.
LEMMA LiveStep == TypeInv /\ RegistryInv /\ LiveInv /\ [Next]_vars => LiveInv'
  <1> SUFFICES ASSUME TypeInv, RegistryInv, LiveInv, [Next]_vars PROVE LiveInv'
    OBVIOUS
  <1>1. CASE HandleHook
    BY <1>1, LiveHook DEF HandleHook
  <1>2. CASE HandleClient
    BY <1>2, LiveOtherClient, LiveRegister, LiveUnregister DEF HandleClient
  <1>3. CASE Tasks
    BY <1>3, LiveOtherTask, LiveTaskRegister, LiveTaskUnregister, LiveRest DEF Tasks
  <1>4. CASE Clients
    BY <1>4, LiveOtherTask DEF Clients
  <1>5. CASE WrapperProcs
    BY <1>5, LiveWrapperStart, LiveListenerEof, LiveReconnect, LiveWrapperExit, LiveWrapperDie
       DEF WrapperProcs
  <1>6. CASE DaemonCrash
    BY <1>6, LiveCrash
  <1> QED
    BY <1>1, <1>2, <1>3, <1>4, <1>5, <1>6, LiveRest DEF Next

\* In every instance a running wrapper whose connection is served, and whose
\* registration has been handled, is registered with that connection: no
\* unregister message undoes it, whoever sent it and however late it comes.
THEOREM LiveRegistrationHolds == Spec => []LiveRegistration
  <1>1. Init => LiveInv
    <2> SUFFICES ASSUME Init, NEW w \in Wrappers PROVE LinkOwned(w) /\ QueueOrdered(w)
      BY DEF LiveInv
    <2>1. LinkOwned(w)
      BY NoneIsNoConn DEF Init, LinkOwned, ByeOnExit, LinkIsOpen, NewIsUnconnected, OthersClosed
    <2>2. \A i \in 1..Len(client_rx) : FALSE
      BY EmptySeq DEF Init
    <2>3. ~Serving(w)
      BY DEF Init, Serving
    <2> QED
      BY <2>1, <2>2, <2>3
         DEF QueueOrdered, RegistersAreServed, RegistersAreLast, ServedIsRegistered
  <1>2. TypeInv /\ RegistryInv /\ LiveInv => LiveRegistration
    <2> SUFFICES ASSUME TypeInv, RegistryInv, LiveInv, NEW w \in Wrappers,
                        wrapper[w] = "on", listener[w] = "reading",
                        conn[link[w]].task = "serving",
                        [type |-> "RegisterWrapper", conn |-> link[w]] \notin Queued
                 PROVE  /\ wrapper_channels[w] = link[w]
                        /\ sessions[w] # None
                        /\ sessions[w].is_main
      BY DEF LiveRegistration
    <2>1. link[w] # None /\ Serving(w)
      BY DEF LiveInv, LinkOwned, LinkIsOpen, Serving
    <2>2. ASSUME NEW j \in 1..Len(client_rx) PROVE ~IsRegister(client_rx[j], link[w])
      <3>1. client_rx[j] \in ClientMessage
        BY ElementOfSeq DEF TypeInv, TypeOK
      <3>2. IsRegister(client_rx[j], link[w]) =>
                client_rx[j] = [type |-> "RegisterWrapper", conn |-> link[w]]
        BY <3>1 DEF ClientMessage, IsRegister
      <3> QED
        BY <3>2 DEF Queued
    <2>3. wrapper_channels[w] = link[w]
      BY <2>1, <2>2 DEF LiveInv, QueueOrdered, ServedIsRegistered
    <2> QED
      BY <2>1, <2>3 DEF RegistryInv, RegistryAgrees
  <1> QED
    BY <1>1, <1>2, LiveStep, RegistryInvHolds, TypeInvHolds, PTL DEF Spec

------------------------------------------------------------------------------
(* A session shown as needing input has a request. The handlers of the     *)
(* session table are looked at for two things: which sessions they leave   *)
(* needing input, and whose parent they change.                            *)

Needy(ss) == {s \in SessionIds : ss[s] # None /\ ss[s].status = "NeedsInput"}

SameParents(ss, tt) == \A s \in SessionIds : ParentOf(tt, s) = ParentOf(ss, s)

SameParentsBut(ss, tt, s) == \A x \in SessionIds \ {s} : ParentOf(tt, x) = ParentOf(ss, x)

\* An entry that keeps its parent.
LEMMA EntryNeeds ==
    ASSUME NEW ss \in SessionTable, NEW s \in SessionIds, ss[s] # None, NEW r \in InternalSession,
           r.parent_wrapper_id = ss[s].parent_wrapper_id
    PROVE  /\ SameParents(ss, [ss EXCEPT ![s] = r])
           /\ Needy([ss EXCEPT ![s] = r])
                 = IF r.status = "NeedsInput" THEN Needy(ss) \cup {s} ELSE Needy(ss) \ {s}
  <1> DEFINE tt == [ss EXCEPT ![s] = r]
  <1>1. r # None
    BY NoneIsNoValue
  <1>2. tt[s] = r /\ \A x \in SessionIds \ {s} : tt[x] = ss[x]
    BY DEF SessionTable
  <1> HIDE DEF tt
  <1>3. SameParents(ss, tt)
    <2> SUFFICES ASSUME NEW x \in SessionIds PROVE ParentOf(tt, x) = ParentOf(ss, x)
      BY DEF SameParents
    <2>1. CASE x = s
      BY <1>1, <1>2, <2>1 DEF ParentOf
    <2>2. CASE x # s
      BY <1>2, <2>2 DEF ParentOf
    <2> QED
      BY <2>1, <2>2
  <1>4. Needy(tt) = IF r.status = "NeedsInput" THEN Needy(ss) \cup {s} ELSE Needy(ss) \ {s}
    BY <1>1, <1>2 DEF Needy
  <1> QED
    BY <1>3, <1>4 DEF tt

\* set_status changes one status.
LEMMA SetStatusNeeds ==
    ASSUME NEW ss \in SessionTable, NEW s \in SessionIds, NEW x \in Status
    PROVE  /\ SameParents(ss, SetStatus(ss, s, x))
           /\ Needy(SetStatus(ss, s, x)) \subseteq Needy(ss) \cup {s}
           /\ x # "NeedsInput" => Needy(SetStatus(ss, s, x)) = Needy(ss) \ {s}
  <1>1. CASE ss[s] = None
    BY <1>1 DEF SetStatus, SameParents, Needy
  <1>2. CASE ss[s] # None
    <2>1. PICK r \in InternalSession : r = ss[s]
      BY <1>2 DEF SessionTable
    <2>2. SetStatus(ss, s, x) = [ss EXCEPT ![s] = [r EXCEPT !.status = x]]
      BY <1>2, <2>1, Zenon DEF SetStatus
    <2>3. PICK q \in InternalSession : q = [r EXCEPT !.status = x]
      BY SessionUpdates
    <2>4. q.status = x /\ q.parent_wrapper_id = ss[s].parent_wrapper_id
      BY <2>1, <2>3 DEF InternalSession
    <2>5. SetStatus(ss, s, x) = [ss EXCEPT ![s] = q]
      BY ONLY <2>2, <2>3
    <2>6. /\ SameParents(ss, [ss EXCEPT ![s] = q])
          /\ Needy([ss EXCEPT ![s] = q])
                = IF q.status = "NeedsInput" THEN Needy(ss) \cup {s} ELSE Needy(ss) \ {s}
      BY ONLY <1>2, <2>4, EntryNeeds, q \in InternalSession, ss \in SessionTable, s \in SessionIds, Zenon
    <2> QED
      BY ONLY <2>4, <2>5, <2>6
  <1> QED
    BY <1>1, <1>2

\* Setting the active tool changes none.
LEMMA SetActiveToolNeeds ==
    ASSUME NEW ss \in SessionTable, NEW s \in SessionIds, NEW x \in Tools \cup {None}
    PROVE  SameParents(ss, SetActiveTool(ss, s, x)) /\ Needy(SetActiveTool(ss, s, x)) = Needy(ss)
  <1>1. CASE ss[s] = None
    BY <1>1 DEF SetActiveTool, SameParents
  <1>2. CASE ss[s] # None
    <2>1. PICK r \in InternalSession : r = ss[s]
      BY <1>2 DEF SessionTable
    <2>2. SetActiveTool(ss, s, x) = [ss EXCEPT ![s] = [r EXCEPT !.active_tool = x]]
      BY <1>2, <2>1, Zenon DEF SetActiveTool
    <2>3. PICK q \in InternalSession : q = [r EXCEPT !.active_tool = x]
      BY SessionUpdates
    <2>4. q.status = ss[s].status /\ q.parent_wrapper_id = ss[s].parent_wrapper_id
      BY <2>1, <2>3 DEF InternalSession
    <2>5. IF q.status = "NeedsInput" THEN s \in Needy(ss) ELSE s \notin Needy(ss)
      BY <1>2, <2>4 DEF Needy
    <2>6. SetActiveTool(ss, s, x) = [ss EXCEPT ![s] = q]
      BY ONLY <2>2, <2>3
    <2>7. /\ SameParents(ss, [ss EXCEPT ![s] = q])
          /\ Needy([ss EXCEPT ![s] = q])
                = IF q.status = "NeedsInput" THEN Needy(ss) \cup {s} ELSE Needy(ss) \ {s}
      BY ONLY <1>2, <2>4, EntryNeeds, q \in InternalSession, ss \in SessionTable, s \in SessionIds, Zenon
    <2> QED
      BY ONLY <2>5, <2>6, <2>7
  <1> QED
    BY <1>1, <1>2

\* A session that is created needs no input and has no parent.
LEMMA EnsureSessionNeeds ==
    ASSUME NEW ss \in SessionTable, NEW s \in SessionIds
    PROVE  SameParents(ss, EnsureSession(ss, s)) /\ Needy(EnsureSession(ss, s)) = Needy(ss)
  <1>1. CASE ss[s] # None
    BY <1>1 DEF EnsureSession, SameParents
  <1>2. CASE ss[s] = None
    <2> DEFINE tt == [ss EXCEPT ![s] = NewSession]
    <2>1. tt[s] = NewSession /\ \A x \in SessionIds \ {s} : tt[x] = ss[x]
      BY DEF SessionTable
    <2>2. NewSession # None /\ NewSession.parent_wrapper_id = None /\ NewSession.status # "NeedsInput"
      BY NewSessionType, NoneIsNoValue DEF NewSession
    <2> HIDE DEF tt
    <2>3. SameParents(ss, tt)
      <3> SUFFICES ASSUME NEW x \in SessionIds PROVE ParentOf(tt, x) = ParentOf(ss, x)
        BY DEF SameParents
      <3>1. CASE x = s
        BY <1>2, <2>1, <2>2, <3>1 DEF ParentOf
      <3>2. CASE x # s
        BY <2>1, <3>2 DEF ParentOf
      <3> QED
        BY <3>1, <3>2
    <2>4. Needy(tt) = Needy(ss)
      BY <1>2, <2>1, <2>2 DEF Needy
    <2> QED
      BY <1>2, <2>3, <2>4 DEF EnsureSession, tt
  <1> QED
    BY <1>1, <1>2

\* Taking NeedsInput off a session.
LEMMA ClearNeedsInputNeeds ==
    ASSUME NEW ss \in SessionTable, NEW s \in SessionIds
    PROVE  /\ SameParents(ss, ClearNeedsInput(ss, s))
           /\ Needy(ClearNeedsInput(ss, s)) = Needy(ss) \ {s}
  <1>1. CASE ss[s] # None /\ ss[s].status = "NeedsInput"
    <2>1. "Idle" \in Status
      BY DEF Status
    <2> QED
      BY <1>1, <2>1, SetStatusNeeds DEF ClearNeedsInput
  <1>2. CASE ~(ss[s] # None /\ ss[s].status = "NeedsInput")
    BY <1>2 DEF ClearNeedsInput, SameParents, Needy
  <1> QED
    BY <1>1, <1>2

\* add_permission_request marks the session and its parent.
LEMMA MarkNeedsInputNeeds ==
    ASSUME NEW ss \in SessionTable, NEW s \in SessionIds
    PROVE  /\ SameParents(ss, MarkNeedsInput(ss, s))
           /\ Needy(MarkNeedsInput(ss, s)) \subseteq Needy(ss) \cup {s, ParentOf(ss, s)}
  <1>1. "NeedsInput" \in Status
    BY DEF Status
  <1>2. PICK own \in SessionTable : /\ own = SetStatus(ss, s, "NeedsInput") /\ SameParents(ss, own)
                                    /\ Needy(own) \subseteq Needy(ss) \cup {s}
    BY <1>1, SetStatusType, SetStatusNeeds
  <1>3. ParentOf(own, s) = ParentOf(ss, s) /\ (ParentOf(own, s) # None => ParentOf(own, s) \in SessionIds)
    BY <1>2, ParentOfType DEF SameParents, SessionIds
  <1>4. CASE ParentOf(own, s) = None
    <2>1. MarkNeedsInput(ss, s) = own
      BY <1>2, <1>4 DEF MarkNeedsInput
    <2> QED
      BY <1>2, <2>1
  <1>5. CASE ParentOf(own, s) # None
    <2> DEFINE tt == SetStatus(own, ParentOf(own, s), "NeedsInput")
    <2>1. SameParents(own, tt) /\ Needy(tt) \subseteq Needy(own) \cup {ParentOf(own, s)}
      BY <1>1, <1>3, <1>5, SetStatusNeeds
    <2>2. MarkNeedsInput(ss, s) = tt
      BY <1>2, <1>5 DEF MarkNeedsInput
    <2> HIDE DEF tt
    <2>3. SameParents(ss, tt) /\ Needy(tt) \subseteq Needy(ss) \cup {s, ParentOf(ss, s)}
      BY <1>2, <1>3, <2>1 DEF SameParents
    <2> QED
      BY <2>2, <2>3
  <1> QED
    BY <1>4, <1>5

\* resolve_permission takes it off both, once no request of the session is left.
Resolved(ss, pend, s, tt) ==
    /\ SameParents(ss, tt)
    /\ RequestsOf(pend, {s}) # {} => Needy(tt) = Needy(ss)
    /\ RequestsOf(pend, {s}) = {} => Needy(tt) = Needy(ss) \ {s, ParentOf(ss, s)}

LEMMA StatusAfterResolveNeeds ==
    ASSUME NEW ss \in SessionTable, NEW pend, NEW s \in SessionIds
    PROVE  Resolved(ss, pend, s, StatusAfterResolve(ss, pend, s))
  <1>1. PICK own \in SessionTable : /\ own = ClearNeedsInput(ss, s) /\ SameParents(ss, own)
                                    /\ Needy(own) = Needy(ss) \ {s}
    BY ClearNeedsInputType, ClearNeedsInputNeeds
  <1>2. ParentOf(own, s) = ParentOf(ss, s) /\ (ParentOf(own, s) # None => ParentOf(own, s) \in SessionIds)
    BY <1>1, ParentOfType DEF SameParents, SessionIds
  <1>3. CASE RequestsOf(pend, {s}) # {}
    BY <1>3 DEF StatusAfterResolve, SameParents, Resolved
  <1>4. CASE RequestsOf(pend, {s}) = {} /\ ParentOf(own, s) = None
    <2>1. StatusAfterResolve(ss, pend, s) = own
      BY <1>1, <1>4 DEF StatusAfterResolve
    <2>2. None \notin Needy(ss)
      BY NoneIsNoValue DEF Needy
    <2> QED
      BY <1>1, <1>2, <1>4, <2>1, <2>2 DEF Resolved
  <1>5. CASE RequestsOf(pend, {s}) = {} /\ ParentOf(own, s) # None
    <2> DEFINE tt == ClearNeedsInput(own, ParentOf(own, s))
    <2>1. SameParents(own, tt) /\ Needy(tt) = Needy(own) \ {ParentOf(own, s)}
      BY <1>2, <1>5, ClearNeedsInputNeeds
    <2>2. StatusAfterResolve(ss, pend, s) = tt
      BY <1>1, <1>5 DEF StatusAfterResolve
    <2> HIDE DEF tt
    <2>3. SameParents(ss, tt) /\ Needy(tt) = Needy(ss) \ {s, ParentOf(ss, s)}
      BY <1>1, <1>2, <2>1 DEF SameParents
    <2> QED
      BY <1>5, <2>2, <2>3 DEF Resolved
  <1> QED
    BY <1>3, <1>4, <1>5

\* A hook event leaves no session needing input that did not before.
LEMMA ApplyHookEventNeeds ==
    ASSUME NEW ss \in SessionTable, NEW e \in HookEnvelope
    PROVE  /\ SameParentsBut(ss, ApplyHookEvent(ss, e), e.session)
           /\ Needy(ApplyHookEvent(ss, e)) \subseteq Needy(ss)
  <1> DEFINE s == e.session
  <1>1. /\ s \in SessionIds /\ e.tool \in Tools \cup {None} /\ None \in Tools \cup {None}
        /\ "Working" \in Status /\ "Idle" \in Status
    BY HookEnvelopeType DEF Status
  <1>2. SameParentsBut(ss, ss, s)
    BY DEF SameParentsBut
  <1>3. \A tt : SameParents(ss, tt) => SameParentsBut(ss, tt, s)
    BY DEF SameParents, SameParentsBut
  <1> HIDE DEF s
  <1>4. CASE e.type = "ToolStart"
    <2>1. PICK known \in SessionTable :
             known = EnsureSession(ss, s) /\ SameParents(ss, known) /\ Needy(known) = Needy(ss)
      BY <1>1, EnsureSessionType, EnsureSessionNeeds
    <2>2. PICK busy \in SessionTable :
             busy = SetActiveTool(known, s, e.tool) /\ SameParents(known, busy) /\ Needy(busy) = Needy(known)
      BY <1>1, SetActiveToolType, SetActiveToolNeeds
    <2>3. SameParents(busy, SetStatus(busy, s, "Working")) /\ Needy(SetStatus(busy, s, "Working")) = Needy(busy) \ {s}
      BY <1>1, SetStatusNeeds
    <2>4. ApplyHookEvent(ss, e) = SetStatus(busy, s, "Working")
      BY <1>4, <2>1, <2>2 DEF ApplyHookEvent, s
    <2>5. SameParents(ss, SetStatus(busy, s, "Working"))
      BY <2>1, <2>2, <2>3 DEF SameParents
    <2> QED
      BY <1>3, <2>1, <2>2, <2>3, <2>4, <2>5 DEF s
  <1>5. CASE e.type = "ToolEnd"
    <2>1. ApplyHookEvent(ss, e) \in {ss, SetActiveTool(ss, s, None)}
      BY <1>5 DEF ApplyHookEvent, s
    <2> QED
      BY <1>1, <1>2, <1>3, <2>1, SetActiveToolNeeds DEF s
  <1>6. CASE e.type = "Stop"
    <2>1. PICK idle \in SessionTable :
             idle = SetActiveTool(ss, s, None) /\ SameParents(ss, idle) /\ Needy(idle) = Needy(ss)
      BY <1>1, SetActiveToolType, SetActiveToolNeeds
    <2>2. SameParents(idle, SetStatus(idle, s, "Idle")) /\ Needy(SetStatus(idle, s, "Idle")) = Needy(idle) \ {s}
      BY <1>1, SetStatusNeeds
    <2>3. ApplyHookEvent(ss, e) = SetStatus(idle, s, "Idle")
      BY <1>6, <2>1 DEF ApplyHookEvent, s
    <2>4. SameParents(ss, SetStatus(idle, s, "Idle"))
      BY <2>1, <2>2 DEF SameParents
    <2> QED
      BY <1>3, <2>1, <2>2, <2>3, <2>4 DEF s
  <1>7. CASE e.type = "SessionStart"
    <2>1. ApplyHookEvent(ss, e) = EnsureSession(ss, s)
      BY <1>7 DEF ApplyHookEvent, s
    <2> QED
      BY <1>1, <1>3, <2>1, EnsureSessionNeeds DEF s
  <1>8. CASE e.type = "SessionEnd"
    <2>1. ApplyHookEvent(ss, e) = [ss EXCEPT ![s] = None]
      BY <1>8 DEF ApplyHookEvent, s
    <2>2. [ss EXCEPT ![s] = None][s] = None /\ \A x \in SessionIds \ {s} : [ss EXCEPT ![s] = None][x] = ss[x]
      BY <1>1 DEF SessionTable
    <2> QED
      BY <2>1, <2>2 DEF SameParentsBut, ParentOf, Needy, s
  <1> QED
    BY <1>4, <1>5, <1>6, <1>7, <1>8, HookEnvelopeType

\* Linking changes the parent of the session, to the wrapper of the event.
LEMMA LinkToWrapperNeeds ==
    ASSUME NEW ss \in SessionTable, NEW e \in HookEnvelope
    PROVE  /\ SameParentsBut(ss, LinkToWrapper(ss, e), e.session)
           /\ Needy(LinkToWrapper(ss, e)) = Needy(ss)
           /\ \/ ParentOf(LinkToWrapper(ss, e), e.session) = ParentOf(ss, e.session)
              \/ e.wrapper # None /\ ParentOf(LinkToWrapper(ss, e), e.session) = e.wrapper
  <1> DEFINE s == e.session
  <1>1. s \in SessionIds /\ e.wrapper \in Wrappers \cup {None}
    BY HookEnvelopeType
  <1>2. PICK known \in SessionTable :
           /\ known = EnsureSession(ss, s) /\ known[s] \in InternalSession
           /\ SameParents(ss, known) /\ Needy(known) = Needy(ss)
    BY <1>1, EnsureSessionType, EnsureSessionNeeds
  <1>3. CASE e.wrapper = None
    BY <1>3 DEF LinkToWrapper, SameParentsBut
  <1>4. CASE e.wrapper # None /\ known[s].is_main
    <2>1. LinkToWrapper(ss, e) = known
      BY <1>2, <1>4 DEF LinkToWrapper
    <2> QED
      BY <1>1, <1>2, <2>1 DEF SameParents, SameParentsBut
  <1>5. CASE e.wrapper # None /\ ~known[s].is_main
    <2> DEFINE r == [known[s] EXCEPT !.parent_wrapper_id = e.wrapper]
               tt == [known EXCEPT ![s] = r]
    <2>1. LinkToWrapper(ss, e) = tt
      BY <1>2, <1>5, Zenon DEF LinkToWrapper
    <2>2. r \in InternalSession /\ r.status = known[s].status /\ r.parent_wrapper_id = e.wrapper
      BY <1>1, <1>2 DEF InternalSession
    <2> HIDE DEF r
    <2>3. tt[s] = r /\ \A x \in SessionIds \ {s} : tt[x] = known[x]
      BY <1>1 DEF SessionTable
    <2>4. r # None /\ known[s] # None
      BY <1>2, <2>2, NoneIsNoValue
    <2> HIDE DEF tt
    <2>5. Needy(tt) = Needy(known)
      BY <2>2, <2>3, <2>4 DEF Needy
    <2>6. \A x \in SessionIds \ {s} : ParentOf(tt, x) = ParentOf(known, x)
      BY <2>3 DEF ParentOf
    <2>7. ParentOf(tt, s) = e.wrapper
      BY <2>2, <2>3, <2>4 DEF ParentOf
    <2> QED
      BY <1>2, <1>5, <2>1, <2>5, <2>6, <2>7 DEF SameParents, SameParentsBut
  <1> QED
    BY <1>3, <1>4, <1>5

\* Recording a transcript changes neither.
LEMMA SetJsonlPathNeeds ==
    ASSUME NEW ss \in SessionTable, NEW e \in HookEnvelope
    PROVE  SameParents(ss, SetJsonlPath(ss, e)) /\ Needy(SetJsonlPath(ss, e)) = Needy(ss)
  <1> DEFINE tt == SetJsonlPath(ss, e)
  <1>1. ASSUME NEW x \in SessionIds
        PROVE  /\ tt[x] = None <=> ss[x] = None
               /\ ss[x] # None => /\ tt[x].status = ss[x].status
                                  /\ tt[x].parent_wrapper_id = ss[x].parent_wrapper_id
    <2>1. tt[x] = ss[x] \/ (ss[x] # None /\ tt[x] = [ss[x] EXCEPT !.jsonl_path = e.session])
      BY DEF SetJsonlPath
    <2>2. CASE tt[x] = ss[x]
      BY <2>2
    <2>3. CASE ss[x] # None /\ tt[x] = [ss[x] EXCEPT !.jsonl_path = e.session]
      <3>1. PICK r \in InternalSession : r = ss[x]
        BY <2>3 DEF SessionTable
      <3>2. e.session \in Agents \cup {None}
        BY HookEnvelopeType
      <3>3. [r EXCEPT !.jsonl_path = e.session] \in InternalSession
        BY <3>2, SessionUpdates
      <3>4. /\ [r EXCEPT !.jsonl_path = e.session].status = r.status
            /\ [r EXCEPT !.jsonl_path = e.session].parent_wrapper_id = r.parent_wrapper_id
        BY DEF InternalSession
      <3> QED
        BY <2>3, <3>1, <3>3, <3>4, NoneIsNoValue
    <2> QED
      BY <2>1, <2>2, <2>3
  <1> HIDE DEF tt
  <1>2. SameParents(ss, tt) /\ Needy(tt) = Needy(ss)
    BY <1>1 DEF SameParents, ParentOf, Needy
  <1> QED
    BY <1>2 DEF tt

------------------------------------------------------------------------------
(* The state: which reasons a step keeps.                                   *)

\* A hook event that resolves requests comes from the wrapper that the
\* session's requests are shown on.
SameWrapper ==
    \A e \in hook_rx :
        /\ RequestsOf(pending, {e.session}) # {}
        /\ e.wrapper # None
        /\ ParentOf(sessions, e.session) # None
        => e.wrapper = ParentOf(sessions, e.session)

PendingIsOwn(pend) == \A t \in Tools : pend[t] \in {None, AgentOf[t]}

Justified(ss, pend) == \A s \in Needy(ss) : InputReasonOf(ss, pend, s) # {}

NeedsInv == PendingIsOwn(pending) /\ Justified(sessions, pending)

\* A request that stays, of a session that keeps its parent, stays a reason.
LEMMA ReasonKept ==
    ASSUME NEW ss, NEW tt, NEW pend, NEW left, NEW s, NEW t \in InputReasonOf(ss, pend, s),
           left[t] = pend[t], ParentOf(tt, pend[t]) = ParentOf(ss, pend[t])
    PROVE  t \in InputReasonOf(tt, left, s)
  BY DEF InputReasonOf

\* Fewer sessions need input, the parents and the requests stay.
LEMMA JustifiedKept ==
    ASSUME NEW ss \in SessionTable, NEW tt, NEW pend \in PendingTable,
           SameParents(ss, tt), Needy(tt) \subseteq Needy(ss), Justified(ss, pend)
    PROVE  Justified(tt, pend)
  <1> SUFFICES ASSUME NEW s \in Needy(tt) PROVE InputReasonOf(tt, pend, s) # {}
    BY DEF Justified
  <1>1. PICK t \in Tools : t \in InputReasonOf(ss, pend, s)
    BY DEF Justified, InputReasonOf
  <1>2. pend[t] \in SessionIds
    BY <1>1 DEF PendingTable, InputReasonOf
  <1>3. ParentOf(tt, pend[t]) = ParentOf(ss, pend[t])
    BY <1>2 DEF SameParents
  <1> QED
    BY <1>1, <1>3, ReasonKept

\* A hook event: its session's requests go with the marks they stood for.
LEMMA NeedsHandleHookEvent ==
    ASSUME TypeOK, NeedsInv, SameWrapper, NEW e, HandleHookEvent(e)
    PROVE  NeedsInv'
  <1> DEFINE s        == e.session
             moved    == RequestsOf(pending, {s})
             left     == RemoveRequests(pending, moved)
             linked   == LinkToWrapper(sessions, e)
             resolved == IF moved = {} THEN linked ELSE StatusAfterResolve(linked, left, s)
             applied  == ApplyHookEvent(resolved, e)
             parent   == ParentOf(sessions, s)
  <1>1. /\ e \in HookEnvelope /\ s \in SessionIds /\ e \in hook_rx
        /\ sessions \in SessionTable /\ pending \in PendingTable
    BY HookEnvelopeType DEF HandleHookEvent, TypeOK
  <1>2. pending' = left /\ sessions' \in {applied, SetJsonlPath(applied, e)}
    BY Zenon DEF HandleHookEvent
  <1>3. \A t \in Tools : left[t] = IF pending[t] = s THEN None ELSE pending[t]
    BY DEF RemoveRequests, RequestsOf
  <1>4. RequestsOf(left, {s}) = {}
    BY <1>1, <1>3, NoneIsNoValue DEF RequestsOf
  <1>5. moved # {} /\ parent # None /\ e.wrapper # None => e.wrapper = parent
    BY <1>1 DEF SameWrapper
  <1>6. moved = {} => \A t \in Tools : pending[t] # s
    BY DEF RequestsOf
  <1> HIDE DEF moved, left, parent
  <1>7. /\ linked \in SessionTable
        /\ SameParentsBut(sessions, linked, s) /\ Needy(linked) = Needy(sessions)
        /\ \/ ParentOf(linked, s) = parent
           \/ e.wrapper # None /\ ParentOf(linked, s) = e.wrapper
    BY <1>1, LinkToWrapperType, LinkToWrapperNeeds DEF parent
  <1> HIDE DEF linked
  <1>8. /\ resolved \in SessionTable
        /\ SameParentsBut(sessions, resolved, s)
        /\ Needy(resolved) \subseteq Needy(sessions)
        /\ moved # {} => s \notin Needy(resolved) /\ ParentOf(linked, s) \notin Needy(resolved)
    <2>1. CASE moved = {}
      BY <1>7, <2>1
    <2>2. CASE moved # {}
      <3>1. resolved = StatusAfterResolve(linked, left, s)
        BY <2>2
      <3>2. /\ resolved \in SessionTable /\ SameParents(linked, resolved)
            /\ Needy(resolved) = Needy(linked) \ {s, ParentOf(linked, s)}
        BY <1>1, <1>4, <1>7, <3>1, StatusAfterResolveType, StatusAfterResolveNeeds DEF Resolved
      <3> QED
        BY <1>7, <3>2 DEF SameParents, SameParentsBut
    <2> QED
      BY <2>1, <2>2
  <1> HIDE DEF resolved
  <1>9. /\ applied \in SessionTable
        /\ SameParentsBut(resolved, applied, s) /\ Needy(applied) \subseteq Needy(resolved)
    BY <1>1, <1>8, ApplyHookEventType, ApplyHookEventNeeds
  <1> HIDE DEF applied
  <1>10. SameParentsBut(sessions, sessions', s) /\ Needy(sessions') \subseteq Needy(resolved)
    <2>1. SameParentsBut(applied, sessions', s) /\ Needy(sessions') \subseteq Needy(applied)
      BY <1>1, <1>2, <1>9, SetJsonlPathNeeds DEF SameParents, SameParentsBut
    <2> QED
      BY <1>8, <1>9, <2>1 DEF SameParentsBut
  <1>11. PendingIsOwn(pending')
    BY <1>2, <1>3 DEF PendingIsOwn, NeedsInv
  <1>12. ASSUME NEW x \in Needy(sessions') PROVE InputReasonOf(sessions', pending', x) # {}
    <2>1. x \in Needy(sessions) /\ x \in Needy(resolved) /\ x \in SessionIds
      BY <1>8, <1>10, <1>12 DEF Needy
    <2>2. PICK t \in Tools : /\ t \in InputReasonOf(sessions, pending, x)
                             /\ pending[t] \in SessionIds
                             /\ pending[t] = x \/ ParentOf(sessions, pending[t]) = x
      BY <1>1, <2>1 DEF NeedsInv, Justified, InputReasonOf, PendingTable
    <2>3. CASE pending[t] # s
      <3>1. pending'[t] = pending[t]
        BY <1>2, <1>3, <2>3
      <3>2. ParentOf(sessions', pending[t]) = ParentOf(sessions, pending[t])
        BY <1>10, <2>2, <2>3 DEF SameParentsBut
      <3>3. t \in InputReasonOf(sessions', pending', x)
        BY <2>2, <3>1, <3>2, ReasonKept
      <3> QED
        BY <3>3
    <2>4. CASE pending[t] = s
      <3>1. moved # {} /\ x # s /\ x # ParentOf(linked, s)
        BY <1>6, <1>8, <2>1, <2>4
      <3>2. parent = x /\ x # None
        BY <2>1, <2>2, <2>4, <3>1, NoneIsNoValue DEF parent
      <3> QED
        BY <1>5, <1>7, <3>1, <3>2
    <2> QED
      BY <2>3, <2>4
  <1> QED
    BY <1>11, <1>12 DEF NeedsInv, Justified

\* A request is the reason of the marks it sets.
LEMMA NeedsHandlePermissionRequest == TypeOK /\ NeedsInv /\ HandlePermissionRequest => NeedsInv'
  <1> SUFFICES ASSUME TypeOK, NeedsInv, HandlePermissionRequest PROVE NeedsInv'
    OBVIOUS
  <1> DEFINE t == Head(client_rx).tool
             s == AgentOf[t]
  <1>1. sessions \in SessionTable /\ pending \in PendingTable /\ t \in Tools
    BY ClientRxPopped, ClientMessageTypes DEF HandlePermissionRequest, TypeOK
  <1>2. s \in Agents /\ s \in SessionIds /\ s # None
    BY <1>1, AgentOfType, NoneIsNoValue DEF SessionIds
  <1>3. pending' = [pending EXCEPT ![t] = s] /\ sessions' = MarkNeedsInput(sessions, s)
    BY DEF HandlePermissionRequest
  <1>4. /\ SameParents(sessions, sessions')
        /\ Needy(sessions') \subseteq Needy(sessions) \cup {s, ParentOf(sessions, s)}
    BY <1>1, <1>2, <1>3, MarkNeedsInputNeeds
  <1>5. pending'[t] = s /\ \A u \in Tools \ {t} : pending'[u] = pending[u]
    BY <1>1, <1>3 DEF PendingTable
  <1> HIDE DEF s, t
  <1>6. PendingIsOwn(pending')
    BY <1>1, <1>5 DEF PendingIsOwn, NeedsInv, s
  <1>7. \A x \in {s, ParentOf(sessions, s)} : t \in InputReasonOf(sessions', pending', x)
    BY <1>1, <1>2, <1>4, <1>5 DEF SameParents, InputReasonOf
  <1>8. ASSUME NEW x \in Needy(sessions) PROVE InputReasonOf(sessions', pending', x) # {}
    <2>1. PICK u \in Tools : /\ u \in InputReasonOf(sessions, pending, x)
                             /\ pending[u] # None /\ pending[u] \in SessionIds
      BY <1>1, <1>8 DEF NeedsInv, Justified, InputReasonOf, PendingTable
    <2>2. pending'[u] = pending[u]
      BY <1>5, <2>1 DEF PendingIsOwn, NeedsInv, s
    <2>3. ParentOf(sessions', pending[u]) = ParentOf(sessions, pending[u])
      BY <1>4, <2>1 DEF SameParents
    <2>4. u \in InputReasonOf(sessions', pending', x)
      BY <2>1, <2>2, <2>3, ReasonKept
    <2> QED
      BY <2>4
  <1> QED
    BY <1>4, <1>6, <1>7, <1>8 DEF NeedsInv, Justified

\* An answer: another request of the session stands in, or the marks go.
LEMMA NeedsHandlePermissionResponse == TypeOK /\ NeedsInv /\ HandlePermissionResponse => NeedsInv'
  <1> SUFFICES ASSUME TypeOK, NeedsInv, HandlePermissionResponse PROVE NeedsInv'
    OBVIOUS
  <1> DEFINE t == Head(client_rx).tool
             s == pending[t]
             left == RemoveRequests(pending, {t})
  <1>1. sessions \in SessionTable /\ pending \in PendingTable /\ t \in Tools
    BY ClientRxPopped, ClientMessageTypes DEF HandlePermissionResponse, TypeOK
  <1>2. CASE s = None
    BY <1>2 DEF HandlePermissionResponse, NeedsInv
  <1>3. CASE s # None
    <2>1. pending' = left /\ sessions' = StatusAfterResolve(sessions, left, s)
      BY <1>3 DEF HandlePermissionResponse
    <2>2. left[t] = None /\ \A u \in Tools \ {t} : left[u] = pending[u]
      BY <1>1 DEF RemoveRequests
    <2>3. s \in SessionIds
      BY <1>1, <1>3 DEF PendingTable
    <2> HIDE DEF left
    <2>4. /\ SameParents(sessions, sessions')
          /\ RequestsOf(left, {s}) # {} => Needy(sessions') = Needy(sessions)
          /\ RequestsOf(left, {s}) = {} => Needy(sessions') = Needy(sessions) \ {s, ParentOf(sessions, s)}
      <3>1. Resolved(sessions, left, s, StatusAfterResolve(sessions, left, s))
        BY <1>1, <2>3, StatusAfterResolveNeeds
      <3> QED
        BY <2>1, <3>1 DEF Resolved
    <2>5. PendingIsOwn(pending')
      BY <2>1, <2>2 DEF PendingIsOwn, NeedsInv
    <2>6. ASSUME NEW x \in Needy(sessions') PROVE InputReasonOf(sessions', pending', x) # {}
      <3>1. x \in Needy(sessions)
        BY <2>4, <2>6
      <3>2. PICK u \in Tools : /\ u \in InputReasonOf(sessions, pending, x)
                               /\ pending[u] # None /\ pending[u] \in SessionIds
                               /\ pending[u] = x \/ ParentOf(sessions, pending[u]) = x
        BY <1>1, <3>1 DEF NeedsInv, Justified, InputReasonOf, PendingTable
      <3>3. ParentOf(sessions', pending[u]) = ParentOf(sessions, pending[u])
        BY <2>4, <3>2 DEF SameParents
      <3>4. CASE u # t
        <4>1. u \in InputReasonOf(sessions', pending', x)
          BY <2>1, <2>2, <3>2, <3>3, <3>4, ReasonKept
        <4> QED
          BY <4>1
      <3>5. CASE u = t
        <4>1. RequestsOf(left, {s}) # {}
          BY <2>4, <2>6, <3>2, <3>5
        <4>2. PICK v \in Tools : left[v] = s
          BY <4>1 DEF RequestsOf
        <4>3. v \in InputReasonOf(sessions', pending', x)
          BY <1>3, <2>1, <3>2, <3>3, <3>5, <4>2 DEF InputReasonOf
        <4> QED
          BY <4>3
      <3> QED
        BY <3>4, <3>5
    <2> QED
      BY <2>5, <2>6 DEF NeedsInv, Justified
  <1> QED
    BY <1>2, <1>3

\* A wrapper that registers has no new reason and no new mark.
LEMMA NeedsHandleRegisterWrapper == TypeInv /\ NeedsInv /\ HandleRegisterWrapper => NeedsInv'
  <1> SUFFICES ASSUME TypeInv, NeedsInv, HandleRegisterWrapper PROVE NeedsInv'
    OBVIOUS
  <1> USE DEF TypeInv
  <1> DEFINE c == Head(client_rx).conn
             w == conn[c].wrapper
  <1>1. Receive("RegisterWrapper")
    BY DEF HandleRegisterWrapper
  <1>2. c \in Conns
    BY <1>1, ClientRxPopped, ClientMessageTypes
  <1>3. w \in SessionIds
    <2>1. conn[c].task # "unused"
      BY <1>1, ClientRxPopped DEF ConnsOwned
    <2> QED
      BY <1>2, <2>1, OwnerType
  <1>4. PICK ss \in SessionTable : /\ ss = EnsureSession(sessions, w) /\ ss[w] \in InternalSession
                                   /\ SameParents(sessions, ss) /\ Needy(ss) = Needy(sessions)
    BY <1>3, EnsureSessionType, EnsureSessionNeeds DEF TypeOK
  <1>5. PICK r \in InternalSession : /\ r = [ss[w] EXCEPT !.is_main = TRUE]
                                     /\ r.status = ss[w].status
                                     /\ r.parent_wrapper_id = ss[w].parent_wrapper_id
    <2>1. PICK q \in InternalSession : q = ss[w]
      BY <1>4
    <2>2. PICK r \in InternalSession : r = [q EXCEPT !.is_main = TRUE]
      BY SessionUpdates
    <2> QED
      BY <2>1, <2>2 DEF InternalSession
  <1>6. sessions' = [ss EXCEPT ![w] = r]
    BY <1>4, <1>5, Zenon DEF HandleRegisterWrapper
  <1>7. ss[w] # None
    BY <1>4, NoneIsNoValue
  <1>8. /\ SameParents(ss, [ss EXCEPT ![w] = r])
        /\ Needy([ss EXCEPT ![w] = r])
              = IF r.status = "NeedsInput" THEN Needy(ss) \cup {w} ELSE Needy(ss) \ {w}
    BY ONLY <1>3, <1>5, <1>7, EntryNeeds, r \in InternalSession, ss \in SessionTable, Zenon
  <1>9. IF r.status = "NeedsInput" THEN w \in Needy(ss) ELSE w \notin Needy(ss)
    BY <1>3, <1>5, <1>7 DEF Needy
  <1>10. SameParents(sessions, sessions') /\ Needy(sessions') \subseteq Needy(sessions)
    BY <1>4, <1>6, <1>8, <1>9 DEF SameParents
  <1>11. pending' = pending
    BY DEF HandleRegisterWrapper
  <1> QED
    BY <1>10, <1>11, JustifiedKept DEF NeedsInv, PendingIsOwn, TypeOK

\* One that unregisters takes its family's marks and requests with it: what is
\* left of another family has its reasons there.
LEMMA NeedsHandleUnregisterWrapper == TypeOK /\ NeedsInv /\ HandleUnregisterWrapper => NeedsInv'
  <1> SUFFICES ASSUME TypeOK, NeedsInv, HandleUnregisterWrapper PROVE NeedsInv'
    OBVIOUS
  <1> DEFINE w      == Head(client_rx).wrapper
             family == Family(sessions, w)
             lost   == RequestsOf(pending, family)
  <1>1. sessions \in SessionTable /\ pending \in PendingTable /\ w \in Wrappers
    BY ClientRxPopped, ClientMessageTypes DEF HandleUnregisterWrapper, TypeOK
  <1>2. sessions' = RemoveSessions(sessions, {w} \cup family) /\ pending' = RemoveRequests(pending, lost)
    BY DEF HandleUnregisterWrapper
  <1>3. \A s \in SessionIds : sessions'[s] = IF s = w \/ s \in family THEN None ELSE sessions[s]
    BY <1>2 DEF RemoveSessions
  <1>4. \A t \in Tools : pending'[t] = IF pending[t] \in family THEN None ELSE pending[t]
    BY <1>2 DEF RemoveRequests, RequestsOf
  <1>5. PendingIsOwn(pending')
    BY <1>4 DEF PendingIsOwn, NeedsInv
  <1> HIDE DEF family
  <1>6. ASSUME NEW s \in Needy(sessions') PROVE InputReasonOf(sessions', pending', s) # {}
    <2>1. s \in SessionIds /\ s # w /\ s \notin family /\ s \in Needy(sessions)
      BY <1>3, <1>6 DEF Needy
    <2>2. PICK t \in Tools : /\ t \in InputReasonOf(sessions, pending, s)
                             /\ pending[t] # None /\ pending[t] \in SessionIds
                             /\ pending[t] = s \/ ParentOf(sessions, pending[t]) = s
      BY <1>1, <2>1 DEF NeedsInv, Justified, InputReasonOf, PendingTable
    <2>3. pending[t] # w
      BY <1>1, <2>2, AgentOfType, IdsAreDisjoint DEF NeedsInv, PendingIsOwn
    <2>4. pending[t] \notin family
      BY <2>1, <2>2, <2>3 DEF family, Family
    <2>5. pending'[t] = pending[t]
      BY <1>4, <2>4
    <2>6. ParentOf(sessions', pending[t]) = ParentOf(sessions, pending[t])
      BY <1>3, <2>2, <2>3, <2>4 DEF ParentOf
    <2>7. t \in InputReasonOf(sessions', pending', s)
      BY <2>2, <2>5, <2>6, ReasonKept
    <2> QED
      BY <2>7
  <1> QED
    BY <1>5, <1>6 DEF NeedsInv, Justified

\* A prompt may take a mark off, and sets none.
LEMMA NeedsHandleSendPrompt == TypeOK /\ NeedsInv /\ HandleSendPrompt => NeedsInv'
  <1> SUFFICES ASSUME TypeOK, NeedsInv, HandleSendPrompt PROVE NeedsInv'
    OBVIOUS
  <1> DEFINE s == Head(client_rx).session
  <1>1. sessions \in SessionTable /\ pending \in PendingTable /\ s \in SessionIds
    BY ClientRxPopped, ClientMessageTypes, PromptTargetsType DEF HandleSendPrompt, TypeOK
  <1>2. pending' = pending /\ sessions' \in {sessions, SetStatus(sessions, s, "Working")}
    BY DEF HandleSendPrompt
  <1>3. "Working" \in Status
    BY DEF Status
  <1>4. SameParents(sessions, sessions') /\ Needy(sessions') \subseteq Needy(sessions)
    <2>1. CASE sessions' = sessions
      BY <2>1 DEF SameParents
    <2>2. CASE sessions' = SetStatus(sessions, s, "Working")
      BY <1>1, <1>3, <2>2, SetStatusNeeds
    <2> QED
      BY <1>2, <2>1, <2>2
  <1> QED
    BY <1>1, <1>2, <1>4, JustifiedKept DEF NeedsInv, PendingIsOwn

\* Every other step leaves sessions and requests alone, or forgets both.
LEMMA NeedsOutside ==
    NeedsInv
    /\ (Tasks \/ Clients \/ Hooks \/ WrapperProcs \/ Claude \/ WriteStateFile \/ DaemonRestart
        \/ UNCHANGED vars \/ DaemonCrash)
    => NeedsInv'
  <1> SUFFICES ASSUME NeedsInv,
                      \/ Tasks \/ Clients \/ Hooks \/ WrapperProcs \/ Claude
                      \/ WriteStateFile \/ DaemonRestart \/ UNCHANGED vars \/ DaemonCrash
               PROVE  NeedsInv'
    OBVIOUS
  <1>1. CASE sessions' = sessions /\ pending' = pending
    BY <1>1 DEF NeedsInv
  <1>2. CASE Tasks
    BY <1>1, <1>2 DEF Tasks, TaskRequest, TaskRegister, TaskDeliver, TaskUnregister, TaskBye, loopVars
  <1>3. CASE WrapperProcs
    BY <1>1, <1>3 DEF WrapperProcs, WrapperStart, ListenerEof, Reconnect, WrapperExit, WrapperDie,
       loopVars
  <1>4. CASE Claude
    <2>1. UNCHANGED claudeKeeps
      BY <1>4 DEF Claude, AgentStart, AgentStop, AgentEnd, ToolStart, ToolAsk, ToolRun,
         ToolDecide, ToolTerminal, ToolEnd, ToolStep
    <2> QED
      BY <1>1, <2>1 DEF claudeKeeps, loopVars
  <1>5. CASE Clients \/ Hooks \/ WriteStateFile \/ DaemonRestart \/ UNCHANGED vars
    BY <1>1, <1>5 DEF Clients, TaskRespond, TaskPrompt, Hooks, HookRead, HookGiveUp,
       WriteStateFile, DaemonRestart, vars, loopVars
  <1>6. CASE DaemonCrash
    <2>1. sessions' = NoSessions /\ pending' = NoRequests
      BY <1>6 DEF DaemonCrash
    <2> QED
      BY <2>1 DEF NeedsInv, PendingIsOwn, Justified, Needy, NoSessions, NoRequests
  <1> QED
    BY <1>2, <1>3, <1>4, <1>5, <1>6

LEMMA NeedsStep == TypeInv /\ SameWrapper /\ NeedsInv /\ [Next]_vars => NeedsInv'
  <1> SUFFICES ASSUME TypeInv, SameWrapper, NeedsInv, [Next]_vars PROVE NeedsInv'
    OBVIOUS
  <1>1. TypeOK
    BY DEF TypeInv
  <1>2. CASE HandleHook
    BY <1>1, <1>2, NeedsHandleHookEvent DEF HandleHook
  <1>3. CASE HandleClient
    BY <1>1, <1>3, NeedsHandlePermissionRequest, NeedsHandlePermissionResponse,
       NeedsHandleRegisterWrapper, NeedsHandleUnregisterWrapper, NeedsHandleSendPrompt
       DEF HandleClient
  <1> QED
    BY <1>2, <1>3, NeedsOutside DEF Next

\* In every instance a session shown as needing input has a pending request, its
\* own or that of a session linked to it, as long as no hook event that a session
\* ran in one wrapper comes while its requests are shown on another (state.rs
\* clears the parent after it has been replaced): whatever answers, events,
\* prompts, unregistrations and crashes come between.
THEOREM NeedsInputHolds == Spec /\ []SameWrapper => []NeedsInputJustified
  <1>1. Init => NeedsInv
    BY DEF Init, NeedsInv, PendingIsOwn, Justified, Needy, NoSessions, NoRequests
  <1>2. NeedsInv => NeedsInputJustified
    BY DEF NeedsInv, Justified, Needy, NeedsInputJustified
  <1>3. TypeInv /\ SameWrapper /\ NeedsInv /\ [Next]_vars => NeedsInv'
    BY NeedsStep
  <1> QED
    BY <1>1, <1>2, <1>3, TypeInvHolds, PTL DEF Spec

\* With one wrapper, however many sessions run in it or outside, the condition
\* always holds.
THEOREM NeedsInputOneWrapper ==
    ASSUME \A v, w \in Wrappers : v = w
    PROVE  Spec => []NeedsInputJustified
  <1>1. TypeInv => SameWrapper
    <2> SUFFICES ASSUME TypeOK, NEW e \in hook_rx,
                        e.wrapper # None, ParentOf(sessions, e.session) # None
                 PROVE  e.wrapper = ParentOf(sessions, e.session)
      BY DEF SameWrapper, TypeInv
    <2>1. e.session \in SessionIds /\ e.wrapper \in Wrappers
      BY HookEnvelopeType DEF TypeOK
    <2>2. ParentOf(sessions, e.session) \in Wrappers
      BY <2>1, ParentOfType DEF TypeOK
    <2> QED
      BY <2>1, <2>2
  <1> QED
    BY <1>1, TypeInvHolds, NeedsInputHolds, PTL

=============================================================================
