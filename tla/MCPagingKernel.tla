--------------------------- MODULE MCPagingKernel ---------------------------
(* Constants of PagingKernel for TLC. *)
EXTENDS PagingKernel

Lines(n) == [i \in 1 .. n |-> "ok"]

PlainScript(n) == [lines |-> Lines(n), newline |-> FALSE]

(* One page, two pages, and enough for two faults. *)
PlainScripts == {PlainScript(3), PlainScript(5), PlainScript(8), PlainScript(10)}

(* A trailing newline; a command that returns 1, in the middle and at the  *)
(* end; a blank line.                                                      *)
Trailing == [lines |-> Lines(2), newline |-> TRUE]
RemoveInside == [lines |-> <<"ok", "one">> \o Lines(7), newline |-> FALSE]
RemoveLast == [lines |-> <<"ok", "one">>, newline |-> FALSE]
Blank == [lines |-> <<"ok", "blank", "ok", "ok">>, newline |-> FALSE]

AllScripts == PlainScripts \cup {Trailing, RemoveInside, RemoveLast, Blank}

(* One deviation at a time, next to plain scripts. *)
WithTrailing == {PlainScript(3), Trailing}
WithRemove == {PlainScript(3), RemoveInside}
=============================================================================
