--------------------------- MODULE MCSharedPaging ---------------------------
(* Constants of SharedPaging for TLC. *)
EXTENDS SharedPaging

Plain(n) == [i \in 1 .. n |-> "plain"]

MCScript ==
  [ short |-> [lines |-> Plain(2), newline |-> FALSE],
    page |-> [lines |-> Plain(3), newline |-> FALSE],
    trail |-> [lines |-> Plain(6), newline |-> TRUE],
    long |-> [lines |-> Plain(10), newline |-> FALSE],
    starts |-> [lines |-> <<"plain", "long", "page", "long", "plain", "plain">>, newline |-> FALSE],
    leaves |-> [lines |-> <<"none", "plain", "quit", "plain">>, newline |-> FALSE] ]

MCExecs ==
  LET Names == DOMAIN MCScript \cup {"none"}
  IN {<<f>> : f \in {"long"}} \cup {<<f, g>> : f \in Names, g \in Names}
     \cup {<<f, g, h>> : f \in {"page", "long"}, g \in {"long", "trail"}, h \in {"trail", "none", "long"}}
=============================================================================
