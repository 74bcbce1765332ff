------------------------------- MODULE MCRelay -------------------------------
(* A phone that connects again while its old connection is still there, and *)
(* a daemon connector, in one channel; syncs may name a second one, which   *)
(* nobody is in.                                                            *)
EXTENDS RelayChannel, TLC

CONSTANTS ch1, ch2, phone, desk, p1, p2, d1

OneChannel == [c \in Conns |-> ch1]
PhoneAndDesk == [c \in Conns |-> IF c \in {p1, p2} THEN phone ELSE desk]

=============================================================================
