------------------------------ MODULE FileStore ------------------------------
(***************************************************************************)
(* What the file commands of assignment 3 come to for bytes and positions, *)
(* without inodes, sectors and free map: a file is a sequence of bytes, an *)
(* open file a position in it.  OpenFiles implements this.                 *)
(*                                                                         *)
(* The positions are those of the program, which leaves them two bytes     *)
(* before the end of a write.  The comment of file_write has them at the   *)
(* end: SeeksNonNegative of OpenFiles is about what comes of it.           *)
(*                                                                         *)
(* A request that is refused (a full disk, a name that is taken) changes   *)
(* nothing, or is a Refuse.  The names that Relink gives to files are only *)
(* looked at.                                                              *)
(***************************************************************************)
EXTENDS Integers, Sequences

CONSTANTS Name,    \* the names a user gives to files
          Text,    \* the texts a user writes
          Offsets, \* the positions a user seeks
          Host,    \* name -> the bytes of the host's file of this name
          Nul      \* the byte 0

VARIABLES content,  \* file name -> its bytes
          pos,      \* open file -> position, in bytes from the start
          out       \* the bytes the last command delivered

store == <<content, pos, out>>

Init == content = <<>> /\ pos = <<>> /\ out = <<>>

-----------------------------------------------------------------------------
Zeros(n) == [i \in 1 .. n |-> Nul]

\* The bytes from position p on.
From(bytes, p) == SubSeq(bytes, p + 1, Len(bytes))

\* The string a byte sequence holds in C.
String(bytes) ==
  SubSeq(bytes, 1, CHOOSE n \in 0 .. Len(bytes) :
    (\A i \in 1 .. n : bytes[i] # Nul) /\ (n < Len(bytes) => bytes[n + 1] = Nul))

(* `bytes` with `new` written at position p; a gap reads as zeros.         *)
Spliced(bytes, p, new) ==
  LET filled == bytes \o Zeros(p - Len(bytes))
  IN SubSeq(filled, 1, p) \o new \o From(filled, p + Len(new))

\* fn with v for f.
With(fn, f, v) == [g \in DOMAIN fn \cup {f} |-> IF g = f THEN v ELSE fn[g]]
Without(fn, f) == [g \in DOMAIN fn \ {f} |-> fn[g]]

(* A file is opened by the first command that names it.                    *)
Position(f) == IF f \in DOMAIN pos THEN pos[f] ELSE 0
At(f, p) == pos' = With(pos, f, p)
Rest(f) == From(content[f], Position(f))
Silent == out' = <<>>

-----------------------------------------------------------------------------
(* A position may be negative, and then nothing is read or written.        *)
Accessible(f) == Position(f) >= 0

(* Commands that change no file.                                           *)

Open(f) == At(f, Position(f)) /\ Silent

Seek(f) == (\E p \in Offsets : At(f, p)) /\ Silent

(* A write that does not fit.  Nothing is written, and still the position  *)
(* goes back by two bytes, from the start of a file to -2.                 *)
Refuse(f) == Accessible(f) /\ At(f, Position(f) - 2) /\ Silent

Read(f) ==
  /\ Accessible(f) /\ At(f, Position(f) + Len(out'))
  /\ out' = SubSeq(Rest(f), 1, Len(out'))

\* The whole file, whatever the position, which stays, also one below 0.
Show(f) == UNCHANGED pos /\ out' = content[f]

\* The host gets the string that starts at the position.
Export(f) ==
  /\ Accessible(f) /\ out' = String(Rest(f))
  /\ At(f, Position(f) + Len(Rest(f)))

\* Every file is read to its end.
Search ==
  /\ Silent /\ \A f \in DOMAIN content : Accessible(f)
  /\ pos' = [f \in DOMAIN content |-> Position(f) + Len(Rest(f))]

OpenEvery == Silent /\ pos' = [f \in DOMAIN content |-> Position(f)]

Restart == pos' = <<>> /\ Silent

Look ==
  /\ UNCHANGED content
  /\ \/ Restart \/ OpenEvery \/ Search
     \/ \E f \in DOMAIN content :
          Open(f) \/ Seek(f) \/ Refuse(f) \/ Read(f) \/ Show(f) \/ Export(f)

-----------------------------------------------------------------------------
(* Commands that change files.                                             *)

Create(f) ==
  /\ UNCHANGED pos /\ Silent
  /\ f \in DOMAIN content' \ DOMAIN content
  /\ content' = With(content, f, Zeros(Len(content'[f])))

(* The next write starts on the last two bytes of this one: on the zeros   *)
(* behind a text, and after an Import on the zero and the byte before it.  *)
Put(f, bytes) ==
  /\ Accessible(f) /\ At(f, Position(f) + Len(bytes) - 2) /\ Silent
  /\ f \in DOMAIN content
  /\ content' = [content EXCEPT ![f] = Spliced(@, Position(f), bytes)]

Write(f) == \E text \in Text : Put(f, text \o Zeros(2))

(* A file of the host arrives whole or cut off, and ends in one zero.      *)
Import(f) ==
  \E n \in 0 .. Len(Host[f]) :
    LET bytes == SubSeq(Host[f], 1, n) \o <<Nul>>
    IN \/ Put(f, bytes)
       \/ /\ At(f, Len(bytes) - 2) /\ Silent
          /\ f \notin DOMAIN content
          /\ content' = With(content, f, bytes)

Remove(f) ==
  /\ pos' = Without(pos, f) /\ Silent
  /\ content' = Without(content, f)

(* Every file is there afterwards, and as long as it was.  That it holds   *)
(* what it held is not promised.                                           *)
Rebuild ==
  /\ Silent /\ \A f \in DOMAIN content : Accessible(f)
  /\ pos' = [f \in DOMAIN content |-> Len(content[f]) - 2]
  /\ DOMAIN content' = DOMAIN content
  /\ \A f \in DOMAIN content : Len(content'[f]) = Len(content[f])

(* Files may come back under other names; no file that is there changes.   *)
Relink ==
  /\ UNCHANGED pos /\ Silent
  /\ DOMAIN content \subseteq DOMAIN content'
  /\ \A f \in DOMAIN content : content'[f] = content[f]

Next ==
  \/ Look
  \/ \E f \in Name : Create(f) \/ Write(f) \/ Import(f) \/ Remove(f)
  \/ Rebuild \/ Relink

Spec == Init /\ [][Next]_store
=============================================================================
