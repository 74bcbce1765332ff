--------------------------- MODULE MCSessionWatch ----------------------------
(* Instances of SessionWatch for TLC.                                      *)
EXTENDS SessionWatch, TLC

CONSTANTS s1, s2, p1, socket1, socket2, page1

\* A wrapper and its child, or one session alone.
OnePath == s1 :> p1 @@ s2 :> p1
OneSession == s1 :> p1

\* A page asks for html, a client of daemon.sock gets structured messages
\* unless it asks for another format.
MCFormat == [v \in Viewers |-> IF v = socket1 THEN "structured" ELSE "html"]
==============================================================================
