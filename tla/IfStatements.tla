----------------------------- MODULE IfStatements -----------------------------
(***************************************************************************)
(* The statements of assignment 1: a simple command, or `if l op r then    *)
(* s else t fi` with statements s and t; the words ScriptShell gets for    *)
(* them, and the command it has to come to.                                *)
(***************************************************************************)
EXTENDS ScriptShell

Simple(words) == [kind |-> "simple", words |-> words]
If(l, op, r, s, t) == [kind |-> "if", left |-> l, op |-> op, right |-> r, yes |-> s, no |-> t]
Blank == Simple(<<>>)

RECURSIVE WordsOf(_)
WordsOf(st) ==
  IF st.kind = "simple" THEN st.words
  ELSE <<"if", st.left, st.op, st.right, "then">> \o WordsOf(st.yes)
         \o <<"else">> \o WordsOf(st.no) \o <<"fi">>

-----------------------------------------------------------------------------
(* A word that stands for a variable nobody has set.                       *)
Missing(w) == w \in DOMAIN Deref /\ Named(Deref[w]) = {}

(* The simple command that a statement comes to, and none when a condition *)
(* on the way to it asks for a variable that does not exist.               *)
NoCommand == <<>>

RECURSIVE Intended(_)
Intended(st) ==
  IF st.kind = "simple" THEN st.words
  ELSE IF Missing(st.left) \/ Missing(st.right) THEN NoCommand
  ELSE IF (Value(st.left) = Value(st.right)) <=> (st.op = "==") THEN Intended(st.yes)
  ELSE Intended(st.no)

(* An `if` inside the second branch, and words enough for it.              *)
RECURSIVE InElseOnly(_)
InElseOnly(st) == st.kind = "simple" \/ (st.yes.kind = "simple" /\ InElseOnly(st.no))
Supported(st) ==
  st.kind = "if" /\ InElseOnly(st) /\ Len(Words(st)) <= MaxArgs

(* Of an `if` whose branches are simple commands, or whose second branch   *)
(* is another such `if`, the shell interprets the command that is meant,   *)
(* although it only looks for the words `else` and `fi`.  That is said of  *)
(* conditions whose variables are set.  Of others A1_README.md:25 promises *)
(* an error, and the code runs a branch: mem_get_value never answers the   *)
(* NULL that ifStatement waits for (interpreter.c:315 and 325).            *)
IfRunsBranch ==
  Alive /\ command # <<>> /\ Supported(meant) /\ Intended(meant) # NoCommand =>
    IF command[1] = "if" THEN Complete ELSE command = Intended(meant)
===============================================================================
