------------------------------ MODULE Permission -----------------------------
(***************************************************************************)
(* What the daemon promises of a permission request, without its queues,   *)
(* tasks and sockets: it is announced at most once and decided at most     *)
(* once, by an answer to its announcement or together with every open      *)
(* request of its session; once withdrawn it is not decided any more; and  *)
(* what the hook that asked is told is the decision, or nothing.           *)
(***************************************************************************)
CONSTANTS Tools, Agents, AgentOf, None

VARIABLES
    request,    \* tool call -> how far its request has come
    answers,    \* <<tool call, decision>> given by dashboards
    decision,   \* tool call -> what was decided, None if nothing was
    outcome     \* tool call -> its hook: none, waiting, silent, or what it learned

vars == <<request, answers, decision, outcome>>

Init ==
    /\ request = [t \in Tools |-> "new"]
    /\ answers = {}
    /\ decision = [t \in Tools |-> None]
    /\ outcome = [t \in Tools |-> "none"]

\* The hook asks; it may find nobody to ask.
Ask(t) ==
    /\ request[t] = "new"
    /\ request' = [request EXCEPT ![t] = "asked"]
    /\ \E o \in {"waiting", "silent"} : outcome' = [outcome EXCEPT ![t] = o]
    /\ UNCHANGED <<answers, decision>>

\* Dashboards are shown the request, perhaps when its hook has given up.
Announce(t) ==
    /\ request[t] = "asked"
    /\ request' = [request EXCEPT ![t] = "open"]
    /\ UNCHANGED <<answers, decision, outcome>>

\* A dashboard answers what it was shown, however late.
Answer(t, d) ==
    /\ request[t] \in {"open", "decided", "withdrawn"}
    /\ answers' = answers \cup {<<t, d>>}
    /\ UNCHANGED <<request, decision, outcome>>

\* One of the answers to an open request decides it.
Decide(t, d) ==
    /\ request[t] = "open"
    /\ <<t, d>> \in answers
    /\ request' = [request EXCEPT ![t] = "decided"]
    /\ decision' = [decision EXCEPT ![t] = d]
    /\ UNCHANGED <<answers, outcome>>

OpenOf(S) == {t \in Tools : request[t] = "open" /\ AgentOf[t] \in S}

\* A session went on by itself: all its open requests count as allowed.
Resolve(a) ==
    /\ request' = [t \in Tools |-> IF t \in OpenOf({a}) THEN "decided" ELSE request[t]]
    /\ decision' = [t \in Tools |-> IF t \in OpenOf({a}) THEN "allow" ELSE decision[t]]
    /\ UNCHANGED <<answers, outcome>>

\* Sessions are forgotten, and their open requests with them.
Withdraw(S) ==
    /\ request' = [t \in Tools |-> IF t \in OpenOf(S) THEN "withdrawn" ELSE request[t]]
    /\ UNCHANGED <<answers, decision, outcome>>

Learn(t) ==
    /\ outcome[t] = "waiting"
    /\ request[t] = "decided"
    /\ outcome' = [outcome EXCEPT ![t] = decision[t]]
    /\ UNCHANGED <<request, answers, decision>>

GiveUp(t) ==
    /\ outcome[t] = "waiting"
    /\ outcome' = [outcome EXCEPT ![t] = "silent"]
    /\ UNCHANGED <<request, answers, decision>>

Next ==
    \/ \E t \in Tools : Ask(t) \/ Announce(t) \/ Learn(t) \/ GiveUp(t)
    \/ \E t \in Tools, d \in {"allow", "deny"} : Answer(t, d) \/ Decide(t, d)
    \/ \E a \in Agents : Resolve(a)
    \/ \E S \in SUBSET Agents : Withdraw(S)

Spec == Init /\ [][Next]_vars

=============================================================================
