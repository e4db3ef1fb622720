---------------------------- MODULE VariableStore ----------------------------
(***************************************************************************)
(* What the variables of the shell of assignment 1 promise: a name has the *)
(* value it was last given, and a new name is ignored when the store is    *)
(* full.  ScriptShell implements this with an array of slots.              *)
(***************************************************************************)
EXTENDS FiniteSets, Integers, Sequences

CONSTANTS Capacity,  \* how many names there may be
          Reserved,  \* the name that marks a free slot, and cannot be stored
          Deref,     \* word that begins with a dollar -> the name behind it
          NotThere   \* what is shown for a name without a value

VARIABLES command,  \* the words to be interpreted next, <<>> when there are none
          value,    \* name -> its value, a sequence of words
          shown     \* the value that was shown last

Init == command = <<>> /\ value = <<>> /\ shown = <<>>

Storable(x) ==
  x # Reserved /\ (x \in DOMAIN value \/ Cardinality(DOMAIN value) < Capacity)

Of(x) == IF x \in DOMAIN value THEN value[x] ELSE NotThere

With(x, v) == [y \in DOMAIN value \cup {x} |-> IF y = x THEN v ELSE value[y]]

\* A set has a name and one to five words.
Set ==
  /\ Len(command) \in 3 .. 7 /\ command[1] = "set"
  /\ value' = IF Storable(command[2]) THEN With(command[2], SubSeq(command, 3, Len(command))) ELSE value
  /\ UNCHANGED shown

Display ==
  /\ Len(command) = 2 /\ command[1] = "print"
  /\ command[2] # Reserved => shown' = Of(command[2])
  /\ UNCHANGED value

Echo ==
  /\ Len(command) = 2 /\ command[1] = "echo"
  /\ IF command[2] \notin DOMAIN Deref THEN shown' = <<command[2]>>
     ELSE Deref[command[2]] # Reserved => shown' = Of(Deref[command[2]])
  /\ UNCHANGED value

\* Nothing to do, or something that is no business of the store.
Other ==
  /\ command = <<>> \/ command[1] \notin {"set", "print", "echo"}
     \/ (command[1] = "set" /\ Len(command) \notin 3 .. 7)
     \/ (command[1] \in {"print", "echo"} /\ Len(command) # 2)
  /\ UNCHANGED <<value, shown>>

Next == Set \/ Display \/ Echo \/ Other

Spec == Init /\ [][Next]_<<command, value, shown>>
=============================================================================
