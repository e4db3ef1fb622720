---------------------------- MODULE MCScriptShell ----------------------------
(* Constants of ScriptShell for TLC. *)
EXTENDS IfStatements

Strings == STRING

MCDeref == [d \in {"$x", "$y", "$none"} |-> IF d = "$x" THEN "x" ELSE IF d = "$y" THEN "y" ELSE "none"]

Inner == If("$y", "==", "a", Simple(<<"print", "x">>), Simple(<<"print", "y">>))

MCTyped ==
  { Simple(<<"set", "x", "a">>), Simple(<<"set", "y", "a">>), Simple(<<"set", "y", "a", "b">>),
    Simple(<<"set", "none", "a">>), Simple(<<"set", "z", "a">>), Simple(<<"print", "none">>),
    Simple(<<"echo", "$y">>), Simple(<<"echo", "y">>), Simple(<<"print">>), Simple(<<"quit">>),
    Simple(<<"run", "self">>), Simple(<<"run", "new">>),
    Simple(<<"my_touch", "self">>), Simple(<<"my_touch", "new">>),
    Simple(<<"my_cp", "self", "new">>), Simple(<<"my_cp", "new", "new">>),
    Simple(<<"if", "x", "==">>), Simple(<<"if", "a", "==", "a", "then", "echo", "a", "fi">>),
    If("$x", "==", "a", Simple(<<"set", "x", "b">>), Simple(<<"set", "x", "a">>)),
    If("$x", "!=", "$y", Simple(<<"print", "x">>), Inner),
    If("$x", "==", "$y", Inner, Simple(<<"print", "z">>)) }

MCDisk == [ self |-> [lines |-> <<Simple(<<"run", "self">>), Simple(<<"set", "x", "a">>),
                                  Simple(<<"run", "self">>)>>, newline |-> TRUE] ]
=============================================================================
