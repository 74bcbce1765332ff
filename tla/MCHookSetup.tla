----------------------------- MODULE MCHookSetup -----------------------------
(* Settings to begin with: lists with duplicates, old and mixed entries.   *)
EXTENDS HookSetup, TLC

CONSTANTS PreToolUse, Stop, NotificationStart

Hook(form, commands) == [form |-> form, commands |-> commands]
Target == Hook("nested", <<"current">>)
Old    == Hook("flat", <<"stale">>)
User   == Hook("nested", <<"mine">>)
Mixed  == Hook("nested", <<"mine", "stale">>)
Narrow == Hook("matcher", <<"current">>)

Lists == SeqOf({Target, Old, User}, 4) \cup {<<Mixed>>, <<Mixed, User>>, <<Narrow>>, <<Narrow, Old>>}

MCInitialHooks ==
    {PreToolUse :> p @@ Stop :> s @@ NotificationStart :> n :
        p \in Lists \cup {Absent, NotArray}, s \in {Absent, NotArray, <<Target>>},
        n \in {Absent, <<Old>>, <<Old, User>>}}
==============================================================================
