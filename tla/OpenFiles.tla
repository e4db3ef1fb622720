------------------------------ MODULE OpenFiles ------------------------------
(***************************************************************************)
(* The file commands of assignment 3 (a3/interpreter.c) and what they call:*)
(* a3/fs/fsutil.c and fsutil2.c over open files (a3/fs/file.c), the root   *)
(* directory (a3/fs/directory.c, filesys.c) and the bytes of inodes        *)
(* (inode_read_at and inode_write_at of a3/fs/inode.c).                    *)
(*                                                                         *)
(* A command is a step.  What it calls are operators on states: records of *)
(* the five variables that make up the file system, passed along in the    *)
(* order of the calls.  Inodes have direct blocks only; InodeStore has the *)
(* tables.  At the prompt there is no working directory but the root:      *)
(* every call opens it and closes it.  A file goes by its name, and in     *)
(* CatByPath by a path, which is another name of the same file to the file *)
(* table.  A command that changes nothing is no step.                      *)
(***************************************************************************)
EXTENDS Integers, FiniteSets, FiniteSetsExt, SequencesExt, TLC

CONSTANTS Name,        \* file names
          Letter,      \* bytes of text
          Nul,         \* the byte 0
          Meta,        \* a byte of an inode's sector
          Text,        \* what a user writes
          Host,        \* name -> the bytes of the host's file of this name
          Heap,        \* strings that may lie in memory malloc returns
          SectorSize,  \* BLOCK_SECTOR_SIZE
          LastSector,  \* sectors are 0 .. LastSector
          Gap,         \* distance of neighbouring blocks that counts as fragmented, 6 in the code
          MaxLength,   \* bound: no command makes a file longer
          MaxChanges,  \* bound: commands that change the disk
          Sizes,       \* bound: the sizes asked for in create and read
          Offsets      \* bound: the positions asked for in seek

FreeMapSector == 0
RootDirSector == 1
System == {FreeMapSector, RootDirSector}
Sector == 0 .. LastSector
Byte == Letter \cup {Nul, Meta}

ASSUME FilesAssumption ==
  /\ SectorSize \in Nat \ {0} /\ LastSector \in Nat /\ LastSector >= 2
  /\ Gap \in Nat \ {0, 1} /\ MaxLength \in Nat /\ MaxChanges \in Nat
  /\ Text \subseteq Seq(Letter) /\ <<>> \notin Text
  /\ Host \in [Name -> Seq(Letter)] /\ Heap \subseteq Seq(Letter)
  /\ Sizes \subseteq 0 .. MaxLength /\ Offsets \subseteq Int
  /\ Nul \notin Letter /\ Meta \notin Letter \cup {Nul}

VARIABLES used,     \* free_map: the sectors whose bit is set
          disk,     \* sector -> what was last written to it
          dir,      \* the slots of the root directory, after the parent's
          inodes,   \* open_inodes: sector -> the inode in memory, or NotOpen
          table,    \* file_table: name -> [inode |-> its sector, pos |-> position]
          out,      \* the bytes the last command delivered
          changes,  \* how many commands have changed the disk
          freed,    \* the open files whose inode was freed under their handle
          removed   \* history: inode sector -> bytes of the file removed from
                    \* there, as long as nothing was allocated since

vars == <<used, disk, dir, inodes, table, out, changes, freed, removed>>

Now == [used |-> used, disk |-> disk, dir |-> dir, inodes |-> inodes, table |-> table]

Becomes(s) ==
  /\ used' = s.used /\ disk' = s.disk /\ dir' = s.dir
  /\ inodes' = s.inodes /\ table' = s.table

-----------------------------------------------------------------------------
(* Sectors, inodes, directory entries.                                     *)

Data(bytes) == [kind |-> "data", bytes |-> bytes]
Inode(len, blocks) == [kind |-> "inode", len |-> len, blocks |-> blocks]
NotOpen == [kind |-> "none"]
NoEntry == [kind |-> "free"]
Entry(f, i) == [kind |-> "entry", name |-> f, inode |-> i]

\* fn with the entry v for x, as add_to_file_table adds one.
With(fn, x, v) == [y \in DOMAIN fn \cup {x} |-> IF y = x THEN v ELSE fn[y]]
Zeros(n) == [k \in 1 .. n |-> Nul]
SectorsFor(n) == (n + SectorSize - 1) \div SectorSize

\* The names recover(0) gives: recovered0-<sector>.
Recovered(i) == <<"recovered0", i>>
FileName == Name \cup {Recovered(i) : i \in Sector}

Files(s) == {s.dir[k].name : k \in {h \in DOMAIN s.dir : s.dir[h].kind = "entry"}}
SlotOf(s, f) ==
  CHOOSE k \in DOMAIN s.dir : s.dir[k].kind = "entry" /\ s.dir[k].name = f
InodeOf(s, f) == s.dir[SlotOf(s, f)].inode

\* dir_readdir: the names, in the order of the slots.
Listing(s) ==
  FoldLeft(LAMBDA names, e : IF e.kind = "entry" THEN Append(names, e.name) ELSE names,
           <<>>, s.dir)

(* dir_add: the first slot that is not in use, or a new one at the end.    *)
Added(d, f, i) ==
  LET free == {k \in DOMAIN d : d[k].kind = "free"}
  IN IF free = {} THEN Append(d, Entry(f, i)) ELSE [d EXCEPT ![Min(free)] = Entry(f, i)]

(* A directory is as long as its last entry.                               *)
Erased(d, f) ==
  LET rest == [k \in DOMAIN d |->
                 IF d[k].kind = "entry" /\ d[k].name = f THEN NoEntry ELSE d[k]]
      last == Max({0} \cup {k \in DOMAIN d : rest[k].kind = "entry"})
  IN SubSeq(rest, 1, last)

-----------------------------------------------------------------------------
(* inode_reserve: the lowest free sectors, filled with zeros, until the    *)
(* inode holds n bytes or the disk is full.                                *)
Free(s) == Sector \ s.used
LowestOf(S, k) == {t \in S : Cardinality({u \in S : u < t}) < k}
Ascending(S) == [k \in 1 .. Cardinality(S) |->
                   CHOOSE t \in S : Cardinality({u \in S : u < t}) = k - 1]

\* Mutant of Cleared: the new blocks keep what was there.
NotCleared(d, new) == [t \in Sector |-> IF t \in new /\ d[t].kind = "inode"
                                        THEN Data(Zeros(SectorSize)) ELSE d[t]]
Cleared(d, new) == [t \in Sector |-> IF t \in new THEN Data(Zeros(SectorSize)) ELSE d[t]]

Reserve(s, blocks, n) ==
  LET wanted == SectorsFor(n) - Len(blocks)
      new == LowestOf(Free(s), wanted)
  IN [state |-> [s EXCEPT !.used = @ \cup new, !.disk = Cleared(@, new)],
      blocks |-> blocks \o Ascending(new),
      enough |-> wanted <= Cardinality(new)]

(* inode_read_at: n bytes from position p, less at the end of the file.    *)
Raw(sector) ==
  IF sector.kind = "data" THEN sector.bytes ELSE [k \in 1 .. SectorSize |-> Meta]
ByteAt(d, inode, p) ==
  Raw(d[inode.blocks[(p \div SectorSize) + 1]])[(p % SectorSize) + 1]
Bytes(d, inode, p, n) ==
  [k \in 1 .. Max({0, Min({n, inode.len - p})}) |-> ByteAt(d, inode, p + k - 1)]

(* inode_write_at: an inode that is too short is extended first, and goes  *)
(* to its sector; what could not be reserved in full stays in memory only. *)
Stored(d, inode, p, bytes) ==
  LET new == [q \in p .. p + Len(bytes) - 1 |-> bytes[q - p + 1]]
      touched == {k \in 1 .. Len(inode.blocks) :
                    \E q \in DOMAIN new : q \div SectorSize = k - 1}
  IN FoldSet(LAMBDA k, e :
       LET at == inode.blocks[k]
       IN [e EXCEPT ![at] = Data([h \in 1 .. SectorSize |->
             LET q == (k - 1) * SectorSize + h - 1
             IN IF q \in DOMAIN new THEN new[q] ELSE Raw(e[at])[h]])], d, touched)

WriteAt(s, i, p, bytes) ==
  LET end == p + Len(bytes)
      inode == s.inodes[i]
      inside == end - 1 \in 0 .. inode.len - 1
      got == Reserve(s, inode.blocks, end)
      long == Inode(end, got.blocks)
      grown == [got.state EXCEPT !.inodes[i] = long, !.disk[i] = long]
  IN IF inside
     THEN [state |-> [s EXCEPT !.disk = Stored(@, inode, p, bytes)], written |-> Len(bytes)]
     ELSE IF got.enough
     THEN [state |-> [grown EXCEPT !.disk = Stored(@, long, p, bytes)], written |-> Len(bytes)]
     ELSE [state |-> [got.state EXCEPT !.inodes[i] = Inode(inode.len, got.blocks)],
           written |-> 0]

-----------------------------------------------------------------------------
(* filesys_create and filesys_remove, with the file table.                 *)

(* The inode's sector is allocated before the name is looked up.  When the *)
(* blocks do not fit, or the name is taken, only that sector is released.  *)
Created(s, f, n) ==
  IF Free(s) = {} THEN s
  ELSE LET i == Min(Free(s))
           got == Reserve([s EXCEPT !.used = @ \cup {i}], <<>>, n)
           named == [got.state EXCEPT !.disk[i] = Inode(n, got.blocks)]
       IN IF ~got.enough THEN [got.state EXCEPT !.used = @ \ {i}]
          ELSE IF f \in Files(s) THEN [named EXCEPT !.used = @ \ {i}]
          ELSE [named EXCEPT !.dir = Added(@, f, i)]

(* inode_open returns the inode that is open already, or reads the sector. *)
InMemory(s, i) == IF s.inodes[i] = NotOpen THEN s.disk[i] ELSE s.inodes[i]

Opened(s, f) ==
  IF f \in DOMAIN s.table THEN s
  ELSE LET i == InodeOf(s, f)
       IN [s EXCEPT !.inodes[i] = InMemory(s, i),
                    !.table = With(@, f, [inode |-> i, pos |-> 0])]

Moved(s, f, p) == [s EXCEPT !.table[f].pos = p]

(* remove_from_file_table: the only reference goes, and with it the inode  *)
(* in memory.                                                              *)
\* Mutant of Closed: the inode is not closed with the handle.
ClosedHandle(s, f) == [s EXCEPT !.table = [g \in DOMAIN @ \ {f} |-> @[g]]]

Closed(s, f) ==
  IF f \notin DOMAIN s.table THEN s
  ELSE [s EXCEPT !.inodes[s.table[f].inode] = NotOpen,
                 !.table = [g \in DOMAIN @ \ {f} |-> @[g]]]

(* fsutil_rm: the handle is closed, the entry erased, and the inode and    *)
(* the blocks its length reaches are released.                             *)
\* Mutant of Gone: pointers are released whatever the length; those not in use are 0.
GoneEvery(s, f) ==
  LET i == InodeOf(s, f)
      closed == Closed(s, f)
      inode == InMemory(closed, i)
  IN [closed EXCEPT !.used = @ \ ({0, i} \cup ToSet(inode.blocks)),
                    !.dir = Erased(@, f), !.inodes[i] = NotOpen]

\* Mutant of Gone: the inode is written back with length 0.
GoneTruncated(s, f) ==
  LET i == InodeOf(s, f)
      closed == Closed(s, f)
      inode == InMemory(closed, i)
  IN [closed EXCEPT
        !.used = @ \ ({i} \cup {inode.blocks[k] : k \in 1 .. SectorsFor(inode.len)}),
        !.disk[i] = Inode(0, inode.blocks), !.dir = Erased(@, f), !.inodes[i] = NotOpen]

Gone(s, f) ==
  LET i == InodeOf(s, f)
      closed == Closed(s, f)
      inode == InMemory(closed, i)
  IN [closed EXCEPT
        !.used = @ \ ({i} \cup {inode.blocks[k] : k \in 1 .. SectorsFor(inode.len)}),
        !.dir = Erased(@, f), !.inodes[i] = NotOpen]

(* file_write puts a zero at the end of what it writes, and leaves the     *)
(* position two bytes before that end, also when nothing was written.      *)
\* Mutant of Terminated: the last byte is written as it is.
Unterminated(bytes) == bytes
Terminated(bytes) == [k \in DOMAIN bytes |-> IF k = Len(bytes) THEN Nul ELSE bytes[k]]

\* Mutant of WroteTo: the position is left at the end of what was written.
WroteToEnd(s, f, bytes) ==
  LET open == Opened(s, f)
      p == open.table[f].pos
      done == WriteAt(open, open.table[f].inode, p, Terminated(bytes))
  IN Moved(done.state, f, p + done.written)

WroteTo(s, f, bytes) ==
  LET open == Opened(s, f)
      p == open.table[f].pos
      done == WriteAt(open, open.table[f].inode, p, Terminated(bytes))
  IN Moved(done.state, f, p + done.written - 2)

(* What file_read would deliver, and the file with the position after it.  *)
Reading(s, f, n) ==
  LET open == Opened(s, f)
  IN Bytes(open.disk, open.inodes[open.table[f].inode], open.table[f].pos, n)
ReadFrom(s, f, n) ==
  Moved(Opened(s, f), f, Opened(s, f).table[f].pos + Len(Reading(s, f, n)))

SizeOf(s, f) == InMemory(s, InodeOf(s, f)).len
Contents(s, f) ==
  LET inode == InMemory(s, InodeOf(s, f))
  IN [k \in 1 .. inode.len |-> ByteAt(s.disk, inode, k - 1)]

-----------------------------------------------------------------------------
(* The format leaves an empty root directory.  The data of the free map    *)
(* and of the directory lies in sectors that stay allocated, left out.     *)
Init ==
  /\ used = System
  /\ disk = [i \in Sector |-> IF i \in System THEN Inode(0, <<>>) ELSE Data(Zeros(SectorSize))]
  /\ dir = <<>>
  /\ inodes = [i \in Sector |-> NotOpen]
  /\ table = <<>>
  /\ out = <<>>
  /\ changes = 0
  /\ freed = {}
  /\ removed = <<>>

(* What a command does through a handle whose inode was freed is undefined *)
(* in C, and not followed.                                                 *)
Exists(f) == f \in Files(Now) \ freed
Position(f) == IF f \in DOMAIN table THEN table[f].pos ELSE 0

(* A position may be negative, after `seek` or a write that failed.  What  *)
(* a read or a write does there is undefined in C, and not followed.       *)
Accessible(f) == Exists(f) /\ Position(f) >= 0

(* After recover(0) there are inodes in memory, and entries, of sectors    *)
(* that are free.  From there on the model only follows the commands that  *)
(* allocate and release nothing, until the next allocation could meet none *)
(* of them.                                                                *)
Settled ==
  /\ \A i \in Sector : inodes[i] # NotOpen => i \in used
  /\ \A f \in Files(Now) : InodeOf(Now, f) \in used

Silent == out' = <<>>

\* A command that may allocate and release sectors, and one that does not.
Counts == Settled /\ changes < MaxChanges /\ changes' = changes + 1
Changes == Counts /\ UNCHANGED freed
Keeps == UNCHANGED <<changes, freed, removed>>

-----------------------------------------------------------------------------
(* The commands.                                                           *)

Create(f, n) ==
  /\ Changes /\ Created(Now, f, n) # Now
  /\ Becomes(Created(Now, f, n))
  /\ Silent /\ removed' = <<>>

(* The words come with a blank between them and two zeros behind them.     *)
Write(f, text) ==
  /\ Changes /\ Accessible(f) /\ Position(f) + Len(text) + 2 <= MaxLength
  /\ Becomes(WroteTo(Now, f, text \o Zeros(2)))
  /\ Silent /\ removed' = IF used' = used THEN removed ELSE <<>>

Read(f, n) ==
  /\ Accessible(f)
  /\ Becomes(ReadFrom(Now, f, n))
  /\ out' = Reading(Now, f, n) /\ Keeps

\* ASSERT(new_pos >= 0) prints and goes on.
Seek(f, p) ==
  /\ Exists(f)
  /\ Becomes(Moved(Opened(Now, f), f, p))
  /\ Silent /\ Keeps

Size(f) ==
  /\ Exists(f)
  /\ Becomes(Opened(Now, f))
  /\ Silent /\ Keeps

(* cat reads from the start and puts the position back; a file that was    *)
(* not open is closed again.                                               *)
Cat(f) ==
  LET shown == ReadFrom(Moved(Opened(Now, f), f, 0), f, SizeOf(Now, f))
  IN /\ Exists(f)
     /\ Becomes(IF f \in DOMAIN table THEN Moved(shown, f, table[f].pos) ELSE Closed(shown, f))
     /\ out' = Reading(Moved(Opened(Now, f), f, 0), f, SizeOf(Now, f))
     /\ Keeps

(* cat of a path to a file that is open under its name: inode_open returns *)
(* the inode of that handle without counting (inode_reopen), and the close *)
(* at the end frees it.                                                    *)
CatByPath(f) ==
  /\ Exists(f) /\ f \in DOMAIN table
  /\ inodes' = [inodes EXCEPT ![table[f].inode] = NotOpen]
  /\ freed' = freed \cup {f} /\ out' = Contents(Now, f)
  /\ UNCHANGED <<used, disk, dir, table, changes, removed>>

Rm(f) ==
  /\ Changes /\ Exists(f)
  /\ Becomes(Gone(Now, f))
  /\ Silent
  /\ removed' = With(removed, InodeOf(Now, f), Contents(Now, f))

(* The bytes of the host's file are compared with the number of free       *)
(* sectors.  What create answers is not looked at.                         *)
CopyIn(f) ==
  LET free == Cardinality(Free(Now))
      bytes == Host[f] \o <<Nul>>
      fits == SubSeq(bytes, 1, Min({free, Len(bytes)}))
      made == Created(Now, f, Len(fits))
  IN /\ Changes /\ free > 0 /\ Position(f) >= 0 /\ f \notin freed
     /\ Position(f) + Len(fits) <= MaxLength
     /\ Becomes(IF f \in Files(made) THEN WroteTo(made, f, fits) ELSE made)
     /\ Silent /\ removed' = <<>>

(* The host's file holds the string that the rest of the file starts with. *)
UpToNul(bytes) == SelectInSeq(bytes, LAMBDA b : b = Nul)
String(bytes) == IF UpToNul(bytes) = 0 THEN bytes ELSE SubSeq(bytes, 1, UpToNul(bytes) - 1)

CopyOut(f) ==
  /\ Accessible(f)
  /\ Becomes(ReadFrom(Now, f, SizeOf(Now, f)))
  /\ out' = String(Reading(Now, f, SizeOf(Now, f))) /\ Keeps

AllAccessible == Files(Now) # {} /\ \A f \in Files(Now) : Accessible(f)

ReadAll(s) == FoldLeft(LAMBDA t, f : ReadFrom(t, f, SizeOf(t, f)), s, Listing(s))

\* find_file; the pattern it looks for is left out.
FindFile ==
  /\ AllAccessible
  /\ Becomes(ReadAll(Now))
  /\ Silent /\ Keeps

\* What fragmentation_degree and recover(2) do to the open files.
OpenAll ==
  /\ \A f \in Files(Now) : Exists(f)
  /\ Becomes(FoldLeft(LAMBDA t, f : Opened(t, f), Now, Listing(Now)))
  /\ Silent /\ Keeps

(* defragment: what is read of each file, up to its first zero, is         *)
(* appended to one string, which starts behind whatever malloc returned;   *)
(* each file is created again with its size and with the piece of the      *)
(* string at the sum of the sizes before it.                               *)
Gathered(start, heap) ==
  FoldLeft(LAMBDA text, f :
    text \o (IF Reading(Now, f, SizeOf(Now, f)) = <<>> THEN heap[f]
             ELSE String(Reading(Now, f, SizeOf(Now, f)))), start, Listing(Now))

Piece(text, p, n, heap) ==
  LET rest == IF p <= Len(text) THEN SubSeq(text, p + 1, Len(text)) ELSE heap
  IN [k \in 1 .. n |-> IF k <= Len(rest) THEN rest[k] ELSE Nul]

Recreated(s, text, heap) ==
  FoldLeft(LAMBDA t, f :
    LET n == SizeOf(Now, f)
        made == Created(t.state, f, n)
    IN [state |-> IF f \in Files(made) THEN WroteTo(made, f, Piece(text, t.at, n, heap[f])) ELSE made,
        at |-> t.at + n],
    [state |-> s, at |-> 0], Listing(Now)).state

(* The first rm opens the root directory through the working directory,    *)
(* which defragment holds open, and its close frees the inode of both.     *)
(* Their memory goes to an inode that is opened later.  The dir_close at   *)
(* the end closes whatever inode is there: the directory's again, when     *)
(* there is one file, or that of a file just written.                      *)
HitByClose(s) ==
  {{}} \cup (IF Cardinality(DOMAIN s.table) > 1 THEN {{f} : f \in DOMAIN s.table} ELSE {})
Dropped(s, hit) ==
  [s EXCEPT !.inodes = [i \in Sector |->
     IF \E f \in hit : s.table[f].inode = i THEN NotOpen ELSE @[i]]]

\* Mutant of Defragment: each file is removed when its turn to be written comes.
DefragmentInPlace ==
  LET InPlace(t, f) ==
        LET n == SizeOf(Now, f)
            made == Created(Gone(t.state, f), f, n)
        IN [state |-> WroteTo(made, f, Piece(t.text, t.at, n, <<>>)),
            text |-> t.text, at |-> t.at + n]
  IN /\ Changes /\ AllAccessible
     /\ \E start \in Heap :
          LET text == Gathered(start, [f \in Files(Now) |-> start])
          IN Becomes(FoldLeft(InPlace, [state |-> ReadAll(Now), text |-> text, at |-> 0],
                              Listing(Now)).state)
     /\ Silent /\ removed' = <<>>

Defragment ==
  /\ Counts /\ AllAccessible
  /\ \E start \in Heap, heap \in [Files(Now) -> Heap] :
       LET made == Recreated(FoldLeft(Gone, ReadAll(Now), Listing(Now)), Gathered(start, heap), heap)
       IN \E hit \in HitByClose(made) : Becomes(Dropped(made, hit)) /\ freed' = hit
  /\ Silent /\ removed' = <<>>

(* recover(0): the inode of every free sector is opened, and none is       *)
(* closed; one that looks like a file's gets an entry.                     *)
Relinked(s, i) ==
  LET open == [s EXCEPT !.inodes[i] = InMemory(s, i)]
  IN IF InMemory(s, i).kind = "inode" /\ Recovered(i) \notin Files(s)
     THEN [open EXCEPT !.dir = Added(@, Recovered(i), i)] ELSE open

Recover0 ==
  /\ Becomes(FoldLeft(Relinked, Now, Ascending(Free(Now))))
  /\ Silent /\ Keeps

\* quit, and a new shell on the same disk.
Restart ==
  /\ inodes' = [i \in Sector |-> NotOpen] /\ table' = <<>> /\ freed' = {}
  /\ Silent /\ UNCHANGED <<used, disk, dir, changes, removed>>

Next ==
  \/ \E f \in Name, n \in Sizes : Create(f, n)
  \/ \E f \in Name : Rm(f) \/ CopyIn(f)
  \/ \E f \in Name, text \in Text : Write(f, text)
  \/ \E f \in FileName : Size(f) \/ Cat(f) \/ CatByPath(f) \/ CopyOut(f)
  \/ \E f \in FileName, n \in Sizes : Read(f, n)
  \/ \E f \in FileName, p \in Offsets : Seek(f, p)
  \/ FindFile \/ OpenAll \/ Defragment \/ Recover0 \/ Restart

Spec == Init /\ [][Next]_vars

-----------------------------------------------------------------------------
InodeRecord == [kind : {"inode"}, len : 0 .. MaxLength, blocks : Seq(Sector)]
DataRecord == [kind : {"data"}, bytes : [1 .. SectorSize -> Byte]]

(* Every variable has its type, and the system sectors stay allocated.     *)
TypeOK ==
  /\ used \in SUBSET Sector /\ System \subseteq used
  /\ \A i \in Sector : disk[i] \in InodeRecord \cup DataRecord
  /\ \A i \in Sector : inodes[i] \in InodeRecord \cup DataRecord \cup {NotOpen}
  /\ \A k \in DOMAIN dir :
       dir[k] = NoEntry \/ (dir[k].name \in FileName /\ dir[k].inode \in Sector)
  /\ \A f \in DOMAIN table : f \in FileName /\ table[f].inode \in Sector /\ table[f].pos \in Int
  /\ out \in Seq(Byte)
  /\ changes \in 0 .. MaxChanges /\ DOMAIN removed \subseteq Sector
  /\ freed \subseteq DOMAIN table

(* An open file leads to the inode its name leads to, and that inode is    *)
(* alive: no command but defragment, and cat of a path, frees it under the *)
(* handle, and none gives its sector away.  Every inode in memory is some  *)
(* handle's, until recover(0) opens more.                                  *)
HandlesLive ==
  /\ \A f \in DOMAIN table :
       /\ f \in Files(Now) /\ table[f].inode = InodeOf(Now, f)
       /\ f \notin freed => inodes[table[f].inode].kind = "inode"
  /\ Settled => \A i \in Sector : inodes[i] # NotOpen => \E f \in DOMAIN table : table[f].inode = i

(* A file that is not empty ends in a zero.  find_file and defragment use  *)
(* what they read of a file as a string, in a buffer of its size.          *)
EndsInNul ==
  \A f \in Files(Now) : SizeOf(Now, f) > 0 /\ InodeOf(Now, f) \in used
    => Contents(Now, f)[SizeOf(Now, f)] = Nul

(* The rest of a file's last sector is zero, so that recover(2), which     *)
(* looks for data past the end of a file, finds none the shell has put     *)
(* there.                                                                  *)
PastEndZero ==
  \A f \in Files(Now) :
    LET inode == InMemory(Now, InodeOf(Now, f))
        last == inode.blocks[SectorsFor(inode.len)]
    IN inode.len % SectorSize # 0 /\ InodeOf(Now, f) \in used =>
         \A h \in (inode.len % SectorSize) + 1 .. SectorSize : Raw(disk[last])[h] = Nul

Content(s) == [f \in Files(s) |-> Contents(s, f)]

(* Bytes at positions, without sectors: every command is what FileStore    *)
(* says of it.                                                             *)
Store == INSTANCE FileStore WITH
  content <- Content(Now),
  pos <- [f \in DOMAIN table |-> table[f].pos]
ImplementsFileStore == Store!Spec

(* recover(0) brings back, byte for byte, every file removed since the     *)
(* last allocation.                                                        *)
RecoverFindsRemoved ==
  [][Recover0 => \A i \in DOMAIN removed :
       Recovered(i) \in Files(Now)' /\ Content(Now)'[Recovered(i)] = removed[i]]_vars

\* The sectors rm would release; what a failed extension took is not among them.
OwnedSectors(s) ==
  UNION {{InodeOf(s, f)} \cup
         {InMemory(s, InodeOf(s, f)).blocks[k] : k \in 1 .. SectorsFor(SizeOf(s, f))} : f \in Files(s)}

\* is_file_fragmented, for the files fragmentation_degree looks at.
Fragmented(s) ==
  {f \in Files(s) :
     LET blocks == InMemory(s, InodeOf(s, f)).blocks
     IN SizeOf(s, f) > SectorSize /\ \E k \in 1 .. SectorsFor(SizeOf(s, f)) - 1 :
          blocks[k + 1] - blocks[k] \notin 1 - Gap .. Gap - 1}

(* On a disk where no sector is lost, defragment leaves no file that       *)
(* fragmentation_degree would count, although it recreates the files one   *)
(* by one over sectors it has just released.                               *)
NothingLost == used = System \cup OwnedSectors(Now)
DefragmentCompacts == [][Fragmented(Now)' # {} /\ NothingLost => ~Defragment]_vars

(* ASSERT(new_pos >= 0) (file.c:183): the position that cat and size put   *)
(* back with file_seek is not negative, if the user never seeks one.  So   *)
(* it would be if file_write advanced it, as its comment has it (:131).    *)
SeeksNonNegative ==
  [][\A f \in Name : (Cat(f) \/ Size(f)) /\ Offsets \subseteq Nat => Position(f) >= 0]_vars

(* "read all file content into a buffer" and "recreate all the files"      *)
(* (fsutil2.c:157 and 200): a file holds what it held before.              *)
DefragmentKeepsContent == [][Defragment => Content(Now)' = Content(Now)]_vars
=============================================================================
