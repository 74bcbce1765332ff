------------------------------ MODULE RelayLog -------------------------------
(***************************************************************************)
(* What the relay promises to the devices of a channel: one totally        *)
(* ordered log per channel, written by members only, of which the last     *)
(* MaxBuffer entries can be read back; it is forgotten only while nobody   *)
(* is in the channel.                                                      *)
(***************************************************************************)
EXTENDS Naturals, Sequences

CONSTANTS Channels, Keys, MaxBuffer

VARIABLES
    members,    \* channel -> keys that are in it
    log,        \* channel -> sender keys of the messages so far
    base        \* channel -> how many of the oldest can no longer be read

vars == <<members, log, base>>

Init ==
    /\ members = [ch \in Channels |-> {}]
    /\ log = [ch \in Channels |-> <<>>]
    /\ base = [ch \in Channels |-> 0]

Join(ch, k) ==
    /\ k \notin members[ch]
    /\ members' = [members EXCEPT ![ch] = @ \cup {k}]
    /\ UNCHANGED <<log, base>>

Leave(ch, k) ==
    /\ k \in members[ch]
    /\ members' = [members EXCEPT ![ch] = @ \ {k}]
    /\ UNCHANGED <<log, base>>

Publish(ch, k) ==
    /\ k \in members[ch]
    /\ log' = [log EXCEPT ![ch] = Append(@, k)]
    /\ base' = [base EXCEPT ![ch] = IF Len(log[ch]) - @ = MaxBuffer THEN @ + 1 ELSE @]
    /\ UNCHANGED members

\* Any set of channels that nobody is in may be forgotten at once.
Forget(S) ==
    /\ \A ch \in S : members[ch] = {}
    /\ log' = [ch \in Channels |-> IF ch \in S THEN <<>> ELSE log[ch]]
    /\ base' = [ch \in Channels |-> IF ch \in S THEN 0 ELSE base[ch]]
    /\ UNCHANGED members

Next ==
    \/ \E ch \in Channels, k \in Keys : Join(ch, k) \/ Leave(ch, k) \/ Publish(ch, k)
    \/ \E S \in SUBSET Channels : Forget(S)

Spec == Init /\ [][Next]_vars

=============================================================================
