-------------------------- MODULE MCTranscriptView ---------------------------
(* Entries for TLC: what Claude writes, and what the two parsers take      *)
(* differently.                                                            *)
EXTENDS TranscriptView, TLC

Text(s)       == [type |-> "text", text |-> s]
Tool(n, input) == [type |-> "tool_use", name |-> n, input |-> input]
Ask(input)    == Tool("AskUserQuestion", input)
Result(n, s)  == [type |-> "tool_result", name |-> n, content |-> [text |-> s]]

Says(who, content) == [type |-> who, sessionId |-> "id", content |-> content]

\* Tool outputs: short, at the threshold, above it, with a last line that does
\* or does not end, with wide characters at the cut.
Outputs == {<<>>, <<"nl">>, <<"a", "nl", "a">>, <<"a", "nl", "nl", "a">>, <<"u", "u", "a">>,
            <<"a", "u", "u">>, <<"nl", "a", "nl", "u", "nl", "a", "nl">>, <<"u", "nl", "u">>}

Results ==
    {Says("user", [blocks |-> <<Result(None, s)>>]) : s \in Outputs}
    \cup {Says("user", [blocks |-> <<Result(n, <<"a", "nl", "a", "nl", "a", "nl">>), Text(<<"a">>)>>])
             : n \in {None, "TaskUpdate", "TaskList"}}
    \cup {Says("user", [blocks |-> <<[type |-> "tool_result", name |-> None, content |-> c]>>])
             : c \in {None, [parts |-> <<<<"a">>, <<"u">>>>]}}

Turns ==
    {Says("assistant", [blocks |-> bs]) : bs \in
        {<<Text(<<"a">>)>>, <<Text(<<"*", "a">>), Ask("question" :> <<"a">>)>>,
         <<Ask("question" :> <<"u">>), Ask("none" :> <<>>)>>, <<Ask(None)>>,
         <<Tool("Bash", "command" :> <<"a", "nl", "u", "a">>)>>,
         <<Tool("TaskUpdate", "taskId" :> <<"a">>), [type |-> "thinking"]>>}}
    \cup {Says("assistant", [text |-> <<"a">>]), Says("assistant", None),
          Says("human", [text |-> <<"a">>]), Says("user", [text |-> <<>>]),
          Says("user", [text |-> <<"a">>]),
          [type |-> "user", sessionId |-> None, content |-> [text |-> <<"a">>]],
          [type |-> "user", sessionId |-> "other", content |-> [text |-> <<"a">>]],
          [type |-> "progress", sessionId |-> "id", content |-> None]}

MCEntries == Results \cup Turns
==============================================================================
