------------------------------ MODULE HookSetup ------------------------------
(***************************************************************************)
(* `agent-dash setup hooks` (setup.rs): every run of it reads Claude's     *)
(* settings.json, merges the hooks of agent-dash into it and writes it     *)
(* back if that changed anything. The file belongs to the user and to      *)
(* Claude, who edit it too; nothing locks it, and fs::write empties the    *)
(* file before it writes.                                                  *)
(*                                                                         *)
(* An entry of an event is nested ({"hooks": [...]}), nested with other    *)
(* keys ("matcher") or flat, with its commands in order. Of a command it   *)
(* matters whether it is the one installed for that event today            *)
(* ("current"), another one of agent-dash ("stale") or the user's.         *)
(***************************************************************************)
EXTENDS Naturals, Sequences, SequencesExt

CONSTANTS
    HookEvents,     \* the events of HOOK_ENTRIES
    Invalid,        \* "NotificationStart", which old versions installed
    Checked,        \* "PreToolUse", which hooks_installed looks at
    Installers,     \* bound: the runs of `setup hooks`
    UserCommands,   \* the commands of the user's own hooks
    InitialHooks,   \* what the settings may hold to begin with
    Absent,         \* no such key
    NotArray,       \* a value that is not an array
    MaxEdits        \* bound: edits of the user

Keys == HookEvents \cup {Invalid}

Entry == [form : {"nested", "matcher", "flat"}, commands : Seq(UserCommands \cup {"current", "stale"})]

\* The value of "hooks": what each event has.
Hooks == [Keys -> Seq(Entry) \cup {Absent, NotArray}]

ASSUME SetupTypes ==
    /\ Checked \in HookEvents /\ Invalid \notin HookEvents /\ MaxEdits \in Nat
    /\ UserCommands \cap {"current", "stale"} = {}
    /\ Absent # NotArray /\ {Absent, NotArray} \cap Seq(Entry) = {}
    /\ InitialHooks \subseteq Hooks

VARIABLES
    file,        \* settings.json: "missing", "empty", "broken", "other" (JSON without
                 \* an object at its root or at "hooks"), or "json" and its hooks
    installer,   \* each run: where it is, and the settings it is to write
    edits,       \* edits of the user so far
    owed,        \* history: the entries without a command of agent-dash, as the user left them
    raced,       \* history: the user edited the file while a run had read it
    installed    \* history: a run ended with Ok after the last edit

vars == <<file, installer, edits, owed, raced, installed>>

Empty == [k \in Keys |-> Absent]

------------------------------------------------------------------------------
(* Merging                                                                 *)

make_hook_entry == [form |-> "nested", commands |-> <<"current">>]

is_agent_dash_entry(entry) == \E c \in ToSet(entry.commands) : c \in {"current", "stale"}

agent_dash_indices(entries) == {i \in DOMAIN entries : is_agent_dash_entry(entries[i])}

\* Mutant: from the first to the last.
RemoveAll_Forward(entries, indices) ==
    LET rest[i \in 0..Len(entries)] ==
            IF i = 0 THEN entries
            ELSE IF i \in indices /\ i \in DOMAIN rest[i - 1] THEN RemoveAt(rest[i - 1], i)
            ELSE rest[i - 1]
    IN  rest[Len(entries)]

\* The duplicates go from the last to the first: each removal moves what
\* follows it. rest[n] is what is left when the last n places have been passed.
RemoveAll(entries, indices) ==
    LET rest[n \in 0..Len(entries)] ==
            LET i == Len(entries) - n + 1
            IN  IF n = 0 THEN entries
                ELSE IF i \in indices THEN RemoveAt(rest[n - 1], i) ELSE rest[n - 1]
    IN  rest[Len(entries)]

\* Mutant: duplicates stay.
merge_single_hook_KeepsDuplicates(value) ==
    IF value = NotArray THEN NotArray
    ELSE IF value = Absent THEN <<make_hook_entry>>
    ELSE LET found == agent_dash_indices(value)
         IN  IF found = {} THEN Append(value, make_hook_entry)
             ELSE [value EXCEPT ![Min(found)] = make_hook_entry]

merge_single_hook(value) ==
    IF value = NotArray THEN NotArray
    ELSE IF value = Absent THEN <<make_hook_entry>>
    ELSE LET found == agent_dash_indices(value)
             first == Min(found)
         IN  IF found = {} THEN Append(value, make_hook_entry)
             ELSE RemoveAll([value EXCEPT ![first] = make_hook_entry], found \ {first})

cleanup_invalid_event(value) ==
    IF value # NotArray /\ value # Absent
         /\ \A i \in DOMAIN value : is_agent_dash_entry(value[i])
      THEN Absent ELSE value

merge_events(hooks) ==
    [k \in Keys |-> IF k = Invalid THEN cleanup_invalid_event(hooks[k])
                    ELSE merge_single_hook(hooks[k])]

\* `changed` is TRUE exactly when the result differs. Where an object is
\* missing nothing is changed; where only the key "hooks" is, it is added.
merge_hooks(settings) ==
    IF settings.kind = "other" THEN settings.hooks ELSE merge_events(settings.hooks)

has_agent_dash_hook(hooks, event) ==
    /\ hooks[event] # Absent /\ hooks[event] # NotArray
    /\ agent_dash_indices(hooks[event]) # {}

hooks_installed == file.kind = "json" /\ has_agent_dash_hook(file.hooks, Checked)

------------------------------------------------------------------------------
Json(hooks) == [kind |-> "json", hooks |-> hooks]
NoHooks(kind) == [kind |-> kind, hooks |-> Empty]

\* The entries without a command of agent-dash, in order. An entry with both
\* kinds of commands is agent-dash's to merge_single_hook, which replaces or
\* removes it as a whole: the user's commands in it are not among these.
Others(entries) ==
    LET kept[n \in 0..Len(entries)] ==
            IF n = 0 THEN <<>>
            ELSE IF is_agent_dash_entry(entries[n]) THEN kept[n - 1]
            ELSE Append(kept[n - 1], entries[n])
    IN  kept[Len(entries)]

Foreign(hooks) ==
    [k \in Keys |-> IF hooks[k] \in {Absent, NotArray} THEN <<>> ELSE Others(hooks[k])]

Kinds == {"missing", "empty", "broken", "other", "json"}

TypeOK ==
    /\ file \in [kind : Kinds, hooks : Hooks]
    /\ file.kind # "json" => file.hooks = Empty
    /\ installer \in [Installers -> [at : {"start", "write", "writing", "done", "failed"}, hooks : Hooks]]
    /\ edits \in 0..MaxEdits
    /\ owed \in [Keys -> Seq(Entry)]
    /\ raced \in BOOLEAN /\ installed \in BOOLEAN

Init ==
    /\ file \in {Json(h) : h \in InitialHooks} \cup {NoHooks(kind) : kind \in {"missing", "broken", "other"}}
    /\ installer = [i \in Installers |-> [at |-> "start", hooks |-> Empty]]
    /\ edits = 0
    /\ owed = Foreign(file.hooks)
    /\ raced = FALSE
    /\ installed = FALSE

\* Mutant: the file is written back whether or not it changed.
Read_WritesAlways(i) ==
    /\ installer[i].at = "start"
    /\ IF file.kind \in {"empty", "broken"}
         THEN installer' = [installer EXCEPT ![i].at = "failed"]
         ELSE installer' = [installer EXCEPT ![i] = [at |-> "write", hooks |-> merge_hooks(file)]]
    /\ UNCHANGED <<file, edits, owed, raced, installed>>

\* read_settings and merge_hooks: a missing file is an empty object, one that
\* does not parse is an error, one that is up to date is not written.
Read(i) ==
    /\ installer[i].at = "start"
    /\ IF file.kind \in {"empty", "broken"}
         THEN installer' = [installer EXCEPT ![i].at = "failed"] /\ UNCHANGED installed
       ELSE LET merged == merge_hooks(file)
            IN  IF merged = file.hooks
                  THEN /\ installer' = [installer EXCEPT ![i].at = "done"]
                       /\ installed' = TRUE
                  ELSE /\ installer' = [installer EXCEPT ![i] = [at |-> "write", hooks |-> merged]]
                       /\ UNCHANGED installed
    /\ UNCHANGED <<file, edits, owed, raced>>

\* fs::write, first part: the file is created or emptied.
Truncate(i) ==
    /\ installer[i].at = "write"
    /\ file' = NoHooks("empty")
    /\ installer' = [installer EXCEPT ![i].at = "writing"]
    /\ UNCHANGED <<edits, owed, raced, installed>>

\* fs::write, second part. Over what another run wrote since the file was
\* emptied, something shorter leaves a rest behind it.
Write(i) ==
    /\ installer[i].at = "writing"
    /\ LET mine == Json(installer[i].hooks)
       IN  file' \in IF file.kind = "empty" \/ file = mine THEN {mine}
                     ELSE {mine, NoHooks("broken")}
    /\ installer' = [installer EXCEPT ![i].at = "done"]
    /\ installed' = TRUE
    /\ UNCHANGED <<edits, owed, raced>>

\* The run is killed, or its write fails.
Die(i) ==
    /\ installer[i].at \in {"write", "writing"}
    /\ installer' = [installer EXCEPT ![i].at = "failed"]
    /\ UNCHANGED <<file, edits, owed, raced, installed>>

\* The user, or Claude, writes the file with one more hook.
UserAdds(k, c) ==
    /\ edits < MaxEdits /\ file.kind \in {"json", "missing"}
    /\ file.hooks[k] # NotArray
    /\ LET entry == [form |-> "matcher", commands |-> <<c>>]
           old   == IF file.hooks[k] = Absent THEN <<>> ELSE file.hooks[k]
       IN  /\ file' = Json([file.hooks EXCEPT ![k] = Append(old, entry)])
           /\ owed' = [owed EXCEPT ![k] = Append(@, entry)]
    /\ edits' = edits + 1
    /\ raced' = (raced \/ \E i \in Installers : installer[i].at \in {"write", "writing"})
    /\ installed' = FALSE
    /\ UNCHANGED installer

Next ==
    \/ \E i \in Installers : Read(i) \/ Truncate(i) \/ Write(i) \/ Die(i)
    \/ \E k \in HookEvents, c \in UserCommands : UserAdds(k, c)

Spec == Init /\ [][Next]_vars

------------------------------------------------------------------------------
(* Properties                                                              *)

\* After a run that ended with Ok, and whatever other runs do, every event
\* has agent-dash's command once, as it is installed today, and a wrapper that
\* starts does not ask for the setup again. Excepted is what the code leaves
\* as it is, with Ok: an event whose value is not an array, and a file whose
\* root or whose "hooks" is not an object ("other").
InstalledOnce ==
    installed /\ file.kind = "json" =>
        /\ \A k \in HookEvents : file.hooks[k] # NotArray =>
              /\ file.hooks[k] # Absent
              /\ \E i \in DOMAIN file.hooks[k] : /\ file.hooks[k][i] = make_hook_entry
                                                /\ agent_dash_indices(file.hooks[k]) = {i}
        /\ hooks_installed \/ file.hooks[Checked] = NotArray

\* Entries without a command of agent-dash stay, and in order, through all
\* runs of the setup, unless the user changed the file between a run's read
\* and its write. What the user has in an entry beside a command of agent-dash,
\* other commands or a matcher, is not covered, and lost: UserCommandsKept.
UserEntriesKept ==
    file.kind = "json" /\ ~raced => Foreign(file.hooks) = owed

\* Once installed, the file is not written again until the user changes it:
\* every later run finds it up to date. (A run that had read it before writes
\* what it has.)
NothingLeftToDo ==
    [][\A i \in Installers :
          installed /\ file.kind = "json" /\ installer[i].at = "start" => installer'[i].at # "write"]_vars

\* "Ok(false) if already up to date" (setup.rs; `setup hooks` prints it): a run
\* that ended with Ok has left hooks that a wrapper finds. Not true of this
\* code, for which a file that it cannot add hooks to is up to date.
UpToDate == installed /\ file.kind \in {"json", "other"} => hooks_installed

UsersIn(hooks) ==
    [k \in Keys |-> {c \in UserCommands :
        hooks[k] \notin {Absent, NotArray} /\ \E i \in DOMAIN hooks[k] : c \in ToSet(hooks[k][i].commands)}]

\* "preserves all non-agent-dash entries" (single-binary-design.md), of every
\* command of the user: what a run writes has all those that it read. Not
\* true of this code: an entry with both kinds of commands is replaced.
UserCommandsKept ==
    [][\A i \in Installers : installer[i].at = "start" /\ installer'[i].at = "write"
          => UsersIn(installer'[i].hooks) = UsersIn(file.hooks)]_vars
==============================================================================
