---------------------------- MODULE TranscriptView ---------------------------
(***************************************************************************)
(* What agent-dash makes of the lines of a transcript: the messages that   *)
(* viewers are sent in one of three formats (messages.rs) and the id under *)
(* which it is in the list of a project's sessions (jsonl.rs). The two     *)
(* parsers are separate and do not accept the same lines.                  *)
(*                                                                         *)
(* A text is a sequence of characters: "a" is one byte long, "u" is two,   *)
(* "nl" is the newline. An entry is a line of the file after serde_json:   *)
(* its type, sessionId (or None) and content, where content is None,       *)
(* [text |-> a text] or [blocks |-> a sequence of content blocks].         *)
(***************************************************************************)
EXTENDS Transcript, FiniteSets

CONSTANTS
    Entries,             \* the entries a transcript is made of
    None,
    VISIBLE_LINES,       \* 3: lines shown of a long tool output
    COLLAPSE_THRESHOLD,  \* 5: lines up to which all are shown
    StatusUnits,         \* 64 KB: what parse_jsonl_status reads of a file
    MaxOutput,           \* 500: bytes of tool output in markdown
    DETAIL_MAX_LEN,      \* 80: bytes of a tool's detail in a headline
    StatusLines          \* 20: lines parse_jsonl_status looks at

Texts == Seq(STRING)

\* The input of a tool is a function from its string keys to texts.
IsInput(x) == x = None \/ x \in [DOMAIN x -> Texts]

IsBlock(b) ==
    /\ b.type = "text" => b.text \in Texts
    /\ b.type = "tool_use" => IsInput(b.input)
    /\ b.type = "tool_result" =>
          \/ b.content = None
          \/ DOMAIN b.content = {"text"} /\ b.content.text \in Texts
          \/ DOMAIN b.content = {"parts"} /\ b.content.parts \in Seq(Texts)

IsContent(c) ==
    \/ c = None
    \/ DOMAIN c = {"text"} /\ c.text \in Texts
    \/ /\ DOMAIN c = {"blocks"} /\ c.blocks \in Seq(ToSet(c.blocks))
       /\ \A b \in ToSet(c.blocks) : IsBlock(b)

ASSUME ViewTypes ==
    /\ {MaxOutput, DETAIL_MAX_LEN, StatusLines, StatusUnits} \subseteq Nat
    /\ {VISIBLE_LINES, COLLAPSE_THRESHOLD} \subseteq Nat \ {0}
    /\ VISIBLE_LINES <= COLLAPSE_THRESHOLD
    /\ \A e \in Entries : IsContent(e.content)

VARIABLES
    file,     \* the entries of the transcript, in the order written
    torn      \* the second half of the last one is still to be written

vars == <<file, torn>>

\* The length of the file in the units of Transcript.
FileLen == 2 * Len(file) - (IF torn THEN 1 ELSE 0)

------------------------------------------------------------------------------
(* Texts                                                                   *)

Width(c) == IF c = "u" THEN 2 ELSE 1

Bytes(s) ==
    LET upto[n \in 0..Len(s)] == IF n = 0 THEN 0 ELSE upto[n - 1] + Width(s[n])
    IN  upto[Len(s)]

\* Iterator::filter: the elements of s that are in S, in order.
Keep(s, S) ==
    LET kept[n \in 0..Len(s)] ==
            IF n = 0 THEN <<>>
            ELSE IF s[n] \in S THEN Append(kept[n - 1], s[n]) ELSE kept[n - 1]
    IN  kept[Len(s)]

\* str::lines: what stands between newlines; nothing follows the last one.
lines(s) ==
    LET breaks == Keep([i \in DOMAIN s |-> i], {i \in DOMAIN s : s[i] = "nl"})
        ends   == IF s = <<>> \/ Last(s) = "nl" THEN breaks ELSE Append(breaks, Len(s) + 1)
    IN  [k \in DOMAIN ends |->
            SubSeq(s, (IF k = 1 THEN 0 ELSE ends[k - 1]) + 1, ends[k] - 1)]

\* &s[..end]: the loop takes bytes off the end until it stands at a character
\* boundary. CharsBefore is the number of whole characters in `end` bytes.
IsCharBoundary(s, end) == \E n \in 0..Len(s) : Bytes(SubSeq(s, 1, n)) = end
CharsBefore(s, end) == CHOOSE n \in 0..Len(s) : Bytes(SubSeq(s, 1, n)) = end

\* Mutant: one byte is taken off before the first look.
CutAt_StepsFirst(s, max) ==
    LET step[end \in 0..max] ==
            IF end > 0 /\ ~IsCharBoundary(s, end) THEN step[end - 1] ELSE end
    IN  SubSeq(s, 1, CharsBefore(s, step[IF max = 0 THEN 0 ELSE max - 1]))

CutAt(s, max) ==
    LET step[end \in 0..max] ==
            IF end > 0 /\ ~IsCharBoundary(s, end) THEN step[end - 1] ELSE end
    IN  SubSeq(s, 1, CharsBefore(s, step[max]))

truncate_output(s, max) ==
    IF Bytes(s) <= max THEN s ELSE CutAt(s, max) \o <<"...">>

truncate_detail(s, max) ==
    LET oneline == ReplaceAll(s, "nl", " ")
    IN  IF Bytes(oneline) <= max THEN oneline ELSE CutAt(oneline, max) \o <<"...">>

------------------------------------------------------------------------------
(* messages.rs: blocks of a message                                        *)

\* What a tool's input has for the first of the keys that it has.
FirstPresent(input, keys, default) ==
    LET present == {i \in DOMAIN keys : input # None /\ keys[i] \in DOMAIN input}
    IN  IF present = {} THEN default ELSE input[keys[Min(present)]]

\* Which keys describe a call.
DetailKeys(name) ==
    CASE name = "Bash" -> <<"command">>
      [] name \in {"Read", "Edit", "Write"} -> <<"file_path">>
      [] name \in {"Grep", "Glob"} -> <<"pattern">>
      [] name = "WebFetch" -> <<"url">>
      [] name = "WebSearch" -> <<"query">>
      [] name = "TaskCreate" -> <<"subject">>
      [] name = "TaskUpdate" -> <<"status">>
      [] name \in {"Task", "Skill"} -> <<"description", "skill">>
      [] name = "NotebookEdit" -> <<"notebook_path">>
      [] OTHER -> <<"file_path", "path", "command", "pattern", "query", "url">>

extract_tool_detail(name, input) == FirstPresent(input, DetailKeys(name), <<>>)

\* content of a tool result: absent, a text, or an array of texts that is
\* joined with newlines (items that are not texts are left out).
Joined(parts) ==
    IF parts = <<>> THEN None
    ELSE FlattenSeq([i \in DOMAIN parts |-> IF i = 1 THEN parts[i] ELSE <<"nl">> \o parts[i]])

extract_tool_result_output(content) ==
    IF content = None THEN None
    ELSE IF "text" \in DOMAIN content
      THEN IF content.text = <<>> THEN None ELSE content.text
    ELSE Joined(content.parts)

Usable(b) == \/ b.type = "text" /\ b.text # <<>>
             \/ b.type \in {"tool_use", "tool_result"}

parse_one_block(b) ==
    CASE b.type = "text" -> b
      [] b.type = "tool_use" ->
            [type |-> "tool_use", name |-> b.name, input |-> b.input,
             detail |-> extract_tool_detail(b.name, b.input)]
      [] b.type = "tool_result" ->
            [type |-> "tool_result", name |-> IF b.name = None THEN "tool" ELSE b.name,
             output |-> extract_tool_result_output(b.content)]

parse_content_blocks(content) ==
    IF content = None THEN <<>>
    ELSE IF "text" \in DOMAIN content
      THEN IF content.text = <<>> THEN <<>> ELSE <<[type |-> "text", text |-> content.text]>>
    ELSE LET usable == Keep(content.blocks, {b \in ToSet(content.blocks) : Usable(b)})
         IN  [i \in DOMAIN usable |-> parse_one_block(usable[i])]

Role(e) == CASE e.type \in {"user", "human"} -> "user"
             [] e.type = "assistant" -> "assistant"
             [] OTHER -> None

\* parse_one_line: an entry is a message when somebody said something.
IsMessage(e) == Role(e) # None /\ parse_content_blocks(e.content) # <<>>

------------------------------------------------------------------------------
(* messages.rs: the formats. Wording and mark-up are left out: a rendering *)
(* is a sequence of items.                                                 *)

\* The characters that Claude starts a text with by itself.
StartsWithBullet(text) == Head(text) = "*"

HtmlText(role, b) ==
    <<[kind |-> "text", bullet |-> role # "user" /\ ~StartsWithBullet(b.text), text |-> b.text]>>

HtmlToolUse(b) ==
    CASE b.name = "TaskCreate" ->
            <<[kind |-> "task", label |-> FirstPresent(b.input, <<"subject">>, b.detail)]>>
      [] b.name = "TaskUpdate" ->
            <<[kind |-> "task", label |-> FirstPresent(b.input, <<"subject", "taskId">>, <<"Task">>)]>>
      [] OTHER ->
            <<[kind |-> "tool", name |-> b.name,
               detail |-> truncate_detail(b.detail, DETAIL_MAX_LEN)]>>

\* Mutant: the summary counts the lines above the threshold.
Collapsed_AboveThreshold(out) ==
    LET all   == lines(out)
        total == Len(all)
        shown == IF total <= COLLAPSE_THRESHOLD THEN total ELSE VISIBLE_LINES
    IN  [kind |-> "output", visible |-> SubSeq(all, 1, shown),
         hidden |-> SubSeq(all, shown + 1, total),
         announced |-> IF total <= COLLAPSE_THRESHOLD THEN 0 ELSE total - COLLAPSE_THRESHOLD]

\* A long output shows its first lines; the summary says how many it hides.
Collapsed(out) ==
    LET all   == lines(out)
        total == Len(all)
        shown == IF total <= COLLAPSE_THRESHOLD THEN total ELSE VISIBLE_LINES
    IN  [kind |-> "output", visible |-> SubSeq(all, 1, shown),
         hidden |-> SubSeq(all, shown + 1, total), announced |-> total - shown]

HtmlToolResult(b) ==
    CASE b.name \in {"TaskCreate", "TaskUpdate", "TaskGet"} \/ b.output = None -> <<>>
      [] b.name = "TaskList" /\ b.output # None ->
            <<[kind |-> "list", items |-> Keep(lines(b.output), ToSet(lines(b.output)) \ {<<>>})]>>
      [] OTHER -> IF lines(b.output) = <<>> THEN <<>> ELSE <<Collapsed(b.output)>>

HtmlBlock(role, b) == CASE b.type = "text" -> HtmlText(role, b)
                        [] b.type = "tool_use" -> HtmlToolUse(b)
                        [] b.type = "tool_result" -> HtmlToolResult(b)

render_html(role, blocks) == FlattenSeq([i \in DOMAIN blocks |-> HtmlBlock(role, blocks[i])])

MarkdownBlock(b) ==
    CASE b.type = "text" -> <<[kind |-> "text", text |-> b.text]>>
      [] b.type = "tool_use" -> <<[kind |-> "tool", name |-> b.name, detail |-> b.detail]>>
      [] b.type = "tool_result" ->
            IF b.output = None THEN <<>>
            ELSE <<[kind |-> "output", lines |-> lines(truncate_output(b.output, MaxOutput))]>>

render_markdown(blocks) == FlattenSeq([i \in DOMAIN blocks |-> MarkdownBlock(blocks[i])])

\* read_messages, of a file whose lines are not all messages.
Messages(limit) ==
    LastOf(Keep(read_tail_lines(FileLen), {i \in DOMAIN file : IsMessage(file[i])}), limit)

------------------------------------------------------------------------------
(* jsonl.rs: the id of a session                                           *)

\* serde takes an entry as a whole or not at all: the content of an assistant
\* entry must be an array (or absent), a tool_use in it must have an input.
\* Of a user entry it looks at nothing but the type and the id.
IsJournalEntry(e) ==
    \/ e.type = "user"
    \/ /\ e.type = "assistant"
       /\ \/ e.content = None
          \/ /\ "blocks" \in DOMAIN e.content
             /\ \A i \in DOMAIN e.content.blocks :
                   e.content.blocks[i].type = "tool_use" => e.content.blocks[i].input # None

\* The lines, whole or not, that the end of the file is split into.
StatusTail ==
    LET start == IF FileLen > StatusUnits THEN FileLen - StatusUnits ELSE 0
        before == start \div 2   \* lines that end before `start`
    IN  IF ~Readable(start, FileLen) THEN <<>>
        ELSE LastOf([k \in 1..((FileLen + 1) \div 2 - before) |-> before + k], StatusLines)

WholeInTail(i) ==
    /\ 2 * i <= FileLen
    /\ FileLen > StatusUnits => 2 * i - 2 >= FileLen - StatusUnits

\* Mutant: the first id stays.
NextId_KeepsFirst(id, i) ==
    IF ~WholeInTail(i) \/ ~IsJournalEntry(file[i]) \/ id # None THEN id ELSE file[i].sessionId

\* The body of the loop of parse_jsonl_status: an entry without an id leaves
\* the one found before. (The question it looks for, too, is read by nobody.)
NextId(id, i) ==
    IF ~WholeInTail(i) \/ ~IsJournalEntry(file[i]) \/ file[i].sessionId = None THEN id
    ELSE file[i].sessionId

\* The session id that the list of sessions takes of it. None stands for "not
\* a session": the file is left out of the list.
parse_jsonl_status ==
    LET after[n \in 0..Len(StatusTail)] ==
            IF n = 0 THEN None ELSE NextId(after[n - 1], StatusTail[n])
    IN  after[Len(StatusTail)]

------------------------------------------------------------------------------
(* The agent appends to its transcript, a write may end inside a line.     *)

TypeOK ==
    /\ file \in Seq(Entries) /\ Len(file) <= MaxLines
    /\ torn \in BOOLEAN
    /\ torn => file # <<>>

Init == file = <<>> /\ torn = FALSE

AgentBegins(e) ==
    /\ ~torn /\ Len(file) < MaxLines
    /\ file' = Append(file, e)
    /\ torn' = TRUE

AgentFinishes == torn /\ torn' = FALSE /\ UNCHANGED file

Next == AgentFinishes \/ \E e \in Entries : AgentBegins(e)

Spec == Init /\ [][Next]_vars

------------------------------------------------------------------------------
(* Properties                                                              *)

Blocks(i) == parse_content_blocks(file[i].content)

\* The html of a message leaves nothing of a tool's output out: its lines are
\* shown or can be unfolded, in order, and the summary counts the hidden ones
\* right. (Of the tools that manage Claude's task list only the list is shown.)
OutputWhole ==
    \A i \in DOMAIN file : IsMessage(file[i]) =>
        LET html     == render_html(Role(file[i]), Blocks(i))
            shown    == Keep(html, {x \in ToSet(html) : x.kind = "output"})
            expected == Keep(Blocks(i), {b \in ToSet(Blocks(i)) :
                           /\ b.type = "tool_result" /\ b.output # None /\ b.output # <<>>
                           /\ b.name \notin {"TaskCreate", "TaskUpdate", "TaskGet", "TaskList"}})
        IN  /\ Len(shown) = Len(expected)
            /\ \A k \in DOMAIN shown :
                  /\ shown[k].visible \o shown[k].hidden = lines(expected[k].output)
                  /\ shown[k].announced = Len(shown[k].hidden)
                  /\ shown[k].visible # <<>>

IsLongestCut(cut, s, max) ==
    LET n == Len(cut) - 1
    IN  \/ cut = s /\ Bytes(s) <= max
        \/ /\ cut = SubSeq(s, 1, n) \o <<"...">> /\ Bytes(s) > max
           /\ Bytes(SubSeq(s, 1, n)) <= max /\ max < Bytes(SubSeq(s, 1, n + 1))

\* A cut text is cut between characters, stays within its limit in bytes and
\* loses no character that had room; a detail is one line. (The limits are
\* lengths in bytes here, which the comments of the code call characters: see
\* ShortTextWhole.)
CutIsLongest ==
    \A i \in DOMAIN file : \A b \in ToSet(Blocks(i)) :
        /\ b.type = "tool_result" /\ b.output # None =>
              IsLongestCut(truncate_output(b.output, MaxOutput), b.output, MaxOutput)
        /\ b.type = "tool_use" =>
              IsLongestCut(truncate_detail(b.detail, DETAIL_MAX_LEN),
                           ReplaceAll(b.detail, "nl", " "), DETAIL_MAX_LEN)

\* "Truncate a string to at most `max_chars` characters" (messages.rs): a tool
\* output with no more characters than that is not cut. Not true of this code,
\* which counts bytes.
ShortTextWhole ==
    \A i \in DOMAIN file : \A b \in ToSet(Blocks(i)) :
        b.type = "tool_result" /\ b.output # None /\ Len(b.output) <= MaxOutput
            => truncate_output(b.output, MaxOutput) = b.output

\* The history is the end of the conversation: unless the tail starts or ends
\* inside a character, which loses all of it, the messages that begin after
\* the start of the tail are there, the newest `limit` of them.
HistoryIsEnd ==
    \A limit \in 1..MaxLines : Readable(TailStart(FileLen), FileLen) =>
        LET shown   == ToSet(Messages(limit))
            covered == {i \in DOMAIN file : /\ IsMessage(file[i]) /\ 2 * i <= FileLen
                                            /\ TailStart(FileLen) = 0 \/ 2 * i - 2 > TailStart(FileLen)}
        IN  /\ shown \subseteq {i \in DOMAIN file : IsMessage(file[i])}
            /\ \A i \in covered : i \in shown \/ Cardinality({j \in shown : j > i}) = limit
            /\ Cardinality(shown) <= limit

\* A file is in the list of sessions exactly when an entry with an id is among
\* the lines that the daemon looks at, and then under the id of the last such
\* entry of the whole file, however many other ids come before it (daemon.rs,
\* ListSessions). Entries that serde rejects do not count: the agent's with a
\* text for its content, or with a tool call without input.
ListedUnderLastId ==
    LET named == {i \in DOMAIN file : /\ 2 * i <= FileLen
                                      /\ IsJournalEntry(file[i]) /\ file[i].sessionId # None}
    IN  /\ parse_jsonl_status = None
              <=> \A i \in named \cap ToSet(StatusTail) : ~WholeInTail(i)
        /\ parse_jsonl_status # None =>
              \E i \in named : /\ parse_jsonl_status = file[i].sessionId
                                /\ \A j \in named : j <= i

\* "Skip JSONL files that have no parseable conversation content"
\* (daemon.rs): a file with conversation is listed. Not true of this code,
\* which looks at the last lines of the file only.
ConversationIsListed ==
    (\E i \in DOMAIN file : 2 * i <= FileLen /\ IsJournalEntry(file[i]) /\ file[i].sessionId # None)
      => parse_jsonl_status # None
==============================================================================
