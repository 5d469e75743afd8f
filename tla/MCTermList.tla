----------------------------- MODULE MCTermList -----------------------------
EXTENDS TermList, TLC

CONSTANTS e1, e2, e3, e4, gate1, gate2, ip1, ip2

\* A terminal, another in its place, and the first one moved, with a port of
\* its own and one that 1C tells apart; an address that is none.
MCTold ==
  (e1 :> [id |-> gate1, ip |-> ip1, port |-> 0, type |-> "pocket", field |-> 0]) @@
  (e2 :> [id |-> gate2, ip |-> ip1, port |-> 8080, type |-> "jsp", field |-> 0]) @@
  (e3 :> [id |-> gate1, ip |-> ip2, port |-> 0, type |-> "jsp", field |-> 9000]) @@
  (e4 :> [id |-> gate2, ip |-> NotAnIP, port |-> 0, type |-> "pocket", field |-> 0])

MCOffers == {{e1, e4}, {e2, e3}}
MCDefaultPort == ("pocket" :> 8080) @@ ("jsp" :> 8902)
=============================================================================
