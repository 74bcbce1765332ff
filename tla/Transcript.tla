------------------------------ MODULE Transcript -----------------------------
(***************************************************************************)
(* Reading a transcript (messages.rs). The agent only ever appends to its  *)
(* JSONL file. A line is two units long, so that a write, and therefore a  *)
(* read, can end inside one: line i is the units 2i-1 and 2i, its newline  *)
(* belongs to the second. In the lines of SplitsChar the middle falls      *)
(* inside a UTF-8 character.                                               *)
(***************************************************************************)
EXTENDS Integers, Sequences, SequencesExt

CONSTANTS
    MaxLines,     \* bound: lines of a transcript
    TailUnits,    \* TAIL_BYTES, 128 KB: what read_messages reads of a file
    SplitsChar    \* lines whose middle is inside a character

ASSUME TranscriptTypes == {MaxLines, TailUnits} \subseteq Nat /\ SplitsChar \subseteq 1..MaxLines

Lines == 1..MaxLines
Lengths == 0..(2 * MaxLines)

InsideChar(b) == \E i \in SplitsChar : b = 2 * i - 1

\* read_to_string refuses bytes that are not UTF-8: a read that starts or
\* ends inside a character fails as a whole.
Readable(from, to) == ~InsideChar(from) /\ ~InsideChar(to)

\* Mutant: the first line is taken for a part of one, as at the start of a tail.
parse_lines_SkipsFirst(from, to) ==
    LET skipped == from \div 2 + 1
    IN  [k \in 1..(to \div 2 - skipped) |-> skipped + k]

\* parse_lines: the messages of the units after `from` up to `to`. A part of
\* a line is not JSON and is skipped without a word.
parse_lines(from, to) ==
    LET skipped == (from + 1) \div 2   \* lines that begin before `from` is reached
    IN  [k \in 1..(to \div 2 - skipped) |-> skipped + k]

\* Mutants: the offset does not move; a file that is one unit longer is not read.
read_new_messages_OldOffset(offset, len, end) ==
    IF len <= offset \/ ~Readable(offset, end)
      THEN [messages |-> <<>>, offset |-> offset]
      ELSE [messages |-> parse_lines(offset, end), offset |-> offset]

read_new_messages_OffByOne(offset, len, end) ==
    IF len <= offset + 1 \/ ~Readable(offset, end)
      THEN [messages |-> <<>>, offset |-> offset]
      ELSE [messages |-> parse_lines(offset, end), offset |-> len]

\* read_new_messages: `len` is the length the metadata gave, `end` where the
\* read that followed it stopped; the file may have grown in between.
read_new_messages(offset, len, end) ==
    IF len <= offset \/ ~Readable(offset, end)
      THEN [messages |-> <<>>, offset |-> offset]
      ELSE [messages |-> parse_lines(offset, end), offset |-> len]

\* read_tail_lines: the lines of the end of a file of length `len`. When the
\* tail starts inside the file, what precedes its first newline is dropped; so
\* is a whole line, if the tail happens to start with it.
TailStart(len) == IF len > TailUnits THEN len - TailUnits ELSE 0

\* Mutant: the first line is dropped of a short file, too.
read_tail_lines_DropsFirst(len) ==
    LET start == TailStart(len)
        text  == parse_lines(2 * (start \div 2), len)
    IN  IF ~Readable(start, len) THEN <<>> ELSE SubSeq(text, 2, Len(text))

read_tail_lines(len) ==
    LET start == TailStart(len)
    IN  IF ~Readable(start, len) THEN <<>>
        ELSE parse_lines(IF start = 0 THEN 0 ELSE 2 * (start \div 2) + 2, len)

\* read_messages: the last `limit` messages of the file.
LastOf(seq, limit) ==
    IF Len(seq) > limit THEN SubSeq(seq, Len(seq) - limit + 1, Len(seq)) ELSE seq

read_messages(len, limit) == LastOf(read_tail_lines(len), limit)
==============================================================================
