------------------------------- MODULE MCCore -------------------------------
(* A small instance of Core for TLC.                                         *)
EXTENDS Core, TLC

CONSTANTS k1, k2, p1

\* line is like daemon/broadcast, mq like daemon/midasinput; half needs the
\* extension that does not load, after one that does.
Modules == {"line", "mq", "half", "tcpline", "qamqp", "broken"}
NeedsOf == [x \in Modules |-> CASE x = "line" -> {"tcpline"}
                                [] x = "half" -> {"tcpline", "broken"}
                                [] OTHER -> {}]
PreloadsOf == [x \in Modules |-> IF x = "mq" THEN {"qamqp", "tcpline"} ELSE {}]

File(preload, m1, m2, port, v) ==
  [preload |-> preload, daemons |-> (k1 :> m1) @@ (k2 :> m2), ports |-> p1 :> port,
   conf |-> [k \in Key |-> v]]

\* Two daemons, whose port changes hands; one that is removed; one that does
\* not load; the port removed.
Files == {File({"qamqp"}, "line", "mq", k1, 1),
          File({"half"}, "line", "mq", k2, 2),
          File({}, "half", Null, k2, 1),
          File({}, "line", "mq", Null, 1)}
=============================================================================
