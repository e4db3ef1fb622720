----------------------------- MODULE ScriptShell -----------------------------
(***************************************************************************)
(* The shell of assignment 1: lines split into words (a1/shell.c), the     *)
(* interpreter with its `if` and its nested scripts (a1/interpreter.c) and *)
(* the array of variables (a1/shellmemory.c).                              *)
(*                                                                         *)
(* What a user means is a statement.  What the shell works on are its      *)
(* words, and the branch that an `if` picks is found by looking for words; *)
(* IfStatements says what statements are.  Directories are left out; of    *)
(* the files only their lines are kept.                                    *)
(***************************************************************************)
EXTENDS Integers, FiniteSets, FiniteSetsExt, SequencesExt

CONSTANTS Word,      \* the words of lines, the names and the values: strings
          Slots,     \* the size of shellmemory, 1000 in the code
          Deref,     \* word that begins with a dollar -> the name behind it
          Typed,     \* statements a user types
          Words(_),  \* the words of a statement
          Nothing,   \* the statement of an empty line
          Disk,      \* file name -> [lines: statements, newline] at the start
          OpenMax,   \* external: the files a process may have open
          MaxTyped   \* bound: lines a user types

None == "none"
NotThere == <<"Variable", "does", "not", "exist">>
MaxArgs == 20

ASSUME ShellAssumption ==
  /\ Slots \in Nat /\ OpenMax \in Nat /\ MaxTyped \in Nat
  /\ \A st \in Typed : Words(st) \in Seq(Word)
  /\ Words(Nothing) = <<>> /\ None \in Word /\ NotThere \in Seq(Word)
  /\ \A w \in DOMAIN Deref : Deref[w] \in Word
  /\ DOMAIN Disk \subseteq Word
  /\ \A f \in DOMAIN Disk : Disk[f].newline \in BOOLEAN /\ Disk[f].lines \in Seq(Typed)

VARIABLES shellmemory,  \* slot -> [var, value]
          disk,         \* file name -> [lines, newline]
          scripts,      \* the scripts that run, the innermost last, as the lines still to come
          command,      \* the words to be interpreted next, <<>> when there are none
          shown,        \* the words shown last
          fate,         \* "alive", "ended", or "undefined" in C
          typed,        \* how many lines the user has typed
          meant         \* history: the statement that is being interpreted

vars == <<shellmemory, disk, scripts, command, shown, fate, typed, meant>>

-----------------------------------------------------------------------------
(* shellmemory.c.                                                          *)
FreeSlot == [var |-> None, value |-> <<None>>]
Named(x) == {k \in 1 .. Slots : shellmemory[k].var = x}

(* The first slot of that name, or the first that is free, or none.  A     *)
(* free slot has a name too.                                               *)
\* Mutant of SetValue: the name is not looked for.
SetValueFirst(x, v) ==
  IF Named(None) # {}
  THEN [shellmemory EXCEPT ![Min(Named(None))] = [var |-> x, value |-> v]]
  ELSE shellmemory

SetValue(x, v) ==
  IF Named(x) # {} THEN [shellmemory EXCEPT ![Min(Named(x))].value = v]
  ELSE IF Named(None) # {}
  THEN [shellmemory EXCEPT ![Min(Named(None))] = [var |-> x, value |-> v]]
  ELSE shellmemory

GetValue(x) == IF Named(x) = {} THEN NotThere ELSE shellmemory[Min(Named(x))].value

\* echo and if look a word up that begins with a dollar.
Value(w) == IF w \in DOMAIN Deref THEN GetValue(Deref[w]) ELSE <<w>>

-----------------------------------------------------------------------------
Init ==
  /\ shellmemory = [k \in 1 .. Slots |-> FreeSlot]
  /\ disk = Disk
  /\ scripts = <<>> /\ command = <<>> /\ shown = <<>>
  /\ fate = "alive" /\ typed = 0 /\ meant = Nothing

Alive == fate = "alive"
Between == Alive /\ command = <<>>
Size == Len(command)
Is(w) == Alive /\ command # <<>> /\ Size <= MaxArgs /\ command[1] = w
Done == command' = <<>>

(* main reads a line.                                                      *)
Type(st) ==
  /\ Between /\ scripts = <<>> /\ typed < MaxTyped
  /\ typed' = typed + 1 /\ command' = Words(st) /\ meant' = st
  /\ UNCHANGED <<shellmemory, disk, scripts, shown, fate>>

(* The loop of run: the next line of the innermost script.                 *)
\* Mutant of NextLine: an empty line at the end is read again and again.
NextLineStuck ==
  LET rest == Last(scripts)
  IN /\ Between /\ scripts # <<>> /\ rest # <<>>
     /\ command' = Words(Head(rest)) /\ meant' = Head(rest)
     /\ scripts' = IF Head(rest) = Nothing THEN scripts ELSE Append(Front(scripts), Tail(rest))
     /\ UNCHANGED <<shellmemory, disk, shown, fate, typed>>

NextLine ==
  LET rest == Last(scripts)
  IN /\ Between /\ scripts # <<>> /\ rest # <<>>
     /\ command' = Words(Head(rest)) /\ meant' = Head(rest)
     /\ scripts' = Append(Front(scripts), Tail(rest))
     /\ UNCHANGED <<shellmemory, disk, shown, fate, typed>>

EndOfScript ==
  /\ Between /\ scripts # <<>> /\ Last(scripts) = <<>>
  /\ scripts' = Front(scripts)
  /\ UNCHANGED <<shellmemory, disk, command, shown, fate, typed, meant>>

-----------------------------------------------------------------------------
(* The interpreter.                                                        *)

Set ==
  /\ Is("set") /\ Size \in 3 .. 7
  /\ shellmemory' = SetValue(command[2], SubSeq(command, 3, Size))
  /\ Done /\ UNCHANGED <<disk, scripts, shown, fate, typed, meant>>

Display ==
  /\ Is("print") /\ Size = 2
  /\ shown' = GetValue(command[2])
  /\ Done /\ UNCHANGED <<shellmemory, disk, scripts, fate, typed, meant>>

Echo ==
  /\ Is("echo") /\ Size = 2
  /\ shown' = Value(command[2])
  /\ Done /\ UNCHANGED <<shellmemory, disk, scripts, fate, typed, meant>>

Quit ==
  /\ Is("quit") /\ Size = 1
  /\ fate' = "ended"
  /\ Done /\ UNCHANGED <<shellmemory, disk, scripts, shown, typed, meant>>

(* fopen can still open a file.                                            *)
\* Mutant of Available: one file more.
AvailableOneMore == Len(scripts) <= OpenMax
Available == Len(scripts) < OpenMax

(* run reads the lines of the file as they are now.  When the last one     *)
(* ends in a newline, fgets has nothing more to read, and an empty line    *)
(* follows.  In an empty file the first line is read from the stack of the *)
(* process.                                                                *)
Lines(file) == IF file.newline THEN Append(file.lines, Nothing) ELSE file.lines

Run ==
  /\ Is("run") /\ Size = 2 /\ command[2] \in DOMAIN disk /\ Available
  /\ IF disk[command[2]].lines = <<>>
     THEN fate' = "undefined" /\ UNCHANGED scripts
     ELSE scripts' = Append(scripts, Lines(disk[command[2]])) /\ UNCHANGED fate
  /\ Done /\ UNCHANGED <<shellmemory, disk, shown, typed, meant>>

(* fopen of a file to be written, which makes it when it is not there.     *)
Written(f, file) == [g \in DOMAIN disk \cup {f} |-> IF g = f THEN file ELSE disk[g]]

(* my_touch empties a file that is there; fclose(NULL) is undefined.       *)
Empty == [lines |-> <<>>, newline |-> FALSE]
Touch ==
  /\ Is("my_touch") /\ Size = 2
  /\ IF Available THEN disk' = Written(command[2], Empty) /\ UNCHANGED fate
     ELSE fate' = "undefined" /\ UNCHANGED disk
  /\ Done /\ UNCHANGED <<shellmemory, scripts, shown, typed, meant>>

(* my_cp opens the destination, which empties it, before it reads the      *)
(* source.                                                                 *)
Copy ==
  /\ Is("my_cp") /\ Size = 3 /\ command[2] \in DOMAIN disk /\ Available
  /\ IF Len(scripts) + 2 <= OpenMax
     THEN /\ disk' = Written(command[3], IF command[3] = command[2] THEN Empty ELSE disk[command[2]])
          /\ UNCHANGED fate
     ELSE fate' = "undefined" /\ UNCHANGED disk
  /\ Done /\ UNCHANGED <<shellmemory, scripts, shown, typed, meant>>

(* ifStatement.  The first `else` ends the first branch; the second goes   *)
(* up to the last word.                                                    *)
Elses == {k \in 6 .. Size - 1 : command[k] = "else"}
\* Mutant of ElseIndex: the last `else` is taken.
ElseIndexLast == Max(Elses)
ElseIndex == Min(Elses)

Complete ==
  /\ command[3] \in {"==", "!="} /\ command[5] = "then" /\ command[Size] = "fi"
  /\ Elses # {}
Holds == (Value(command[2]) = Value(command[4])) <=> (command[3] = "==")
Branch ==
  IF Holds THEN SubSeq(command, 6, ElseIndex - 1) ELSE SubSeq(command, ElseIndex + 1, Size - 1)

Choose ==
  /\ Is("if") /\ Size >= 5 /\ Complete /\ Branch # <<>>
  /\ command' = Branch
  /\ UNCHANGED <<shellmemory, disk, scripts, shown, fate, typed, meant>>

\* Words behind the last one are read, which nothing has set.
ShortIf ==
  /\ Is("if") /\ Size < 5
  /\ fate' = "undefined"
  /\ Done /\ UNCHANGED <<shellmemory, disk, scripts, shown, typed, meant>>

(* "Unknown Command" and "Bad command".  An empty line is one, too.        *)
Understood ==
  /\ Size <= MaxArgs
  /\ \/ command[1] = "set" /\ Size \in 3 .. 7
     \/ command[1] \in {"print", "echo", "my_touch"} /\ Size = 2
     \/ command[1] = "quit" /\ Size = 1
     \/ command[1] = "run" /\ Size = 2 /\ command[2] \in DOMAIN disk /\ Available
     \/ command[1] = "my_cp" /\ Size = 3 /\ command[2] \in DOMAIN disk /\ Available
     \/ command[1] = "if" /\ (Size < 5 \/ (Complete /\ Branch # <<>>))

BadCommand ==
  /\ Alive /\ command # <<>> /\ ~Understood
  /\ Done /\ UNCHANGED <<shellmemory, disk, scripts, shown, fate, typed, meant>>

Interpret ==
  Set \/ Display \/ Echo \/ Quit \/ Run \/ Touch \/ Copy \/ Choose \/ ShortIf \/ BadCommand

Step == NextLine \/ EndOfScript \/ Interpret
Next == Step \/ \E st \in Typed : Type(st)

Spec == Init /\ [][Next]_vars /\ WF_vars(Step)

-----------------------------------------------------------------------------
(* Every variable has its type, and the files of no more scripts than the  *)
(* process may have open are.                                              *)
TypeOK ==
  /\ \A k \in 1 .. Slots : shellmemory[k].var \in Word /\ shellmemory[k].value \in Seq(Word)
  /\ \A f \in DOMAIN disk : f \in Word /\ disk[f].lines \in Seq(Typed)
  /\ Len(scripts) <= OpenMax
  /\ \A k \in DOMAIN scripts : scripts[k] \in Seq(Typed \cup {Nothing})
  /\ command \in Seq(Word) /\ shown \in Seq(Word)
  /\ fate \in {"alive", "ended", "undefined"} /\ typed \in 0 .. MaxTyped

(* A name has the value it was last given: no slot hides another one of    *)
(* its name, and what the name "none" is given disturbs no other.          *)
Stored == {shellmemory[k].var : k \in 1 .. Slots} \ {None}
Store == INSTANCE VariableStore WITH
  Capacity <- Slots, Reserved <- None,
  value <- [x \in Stored |-> GetValue(x)]
ImplementsVariables == Store!Spec

(* The shell comes back to the prompt, also from a script that runs        *)
(* itself: it ends when no more files can be opened.                       *)
Prompt == Between /\ scripts = <<>>
Returns == Alive ~> (Prompt \/ ~Alive)
=============================================================================
