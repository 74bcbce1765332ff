------------------------------ MODULE MCDaemon -------------------------------
(* Small instances of Daemon for TLC; the .cfg files choose among them.    *)
EXTENDS Daemon, TLC

CONSTANTS w1, w2, a1, a2, t1, t2

\* Which session makes which tool call.
NoTools   == [t \in {} |-> a1]
OneTool   == t1 :> a1
OneAgent  == t1 :> a1 @@ t2 :> a1
TwoAgents == t1 :> a1 @@ t2 :> a2

\* The id of w1 is a prefix of that of w2, as wrap-12 is of wrap-123.
ShortId == {<<w1, w2>>}

\* Two calls of one session are interchangeable.
ToolSymmetry == Permutations({t1, t2})

=============================================================================
