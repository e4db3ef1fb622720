------------------------------ MODULE InodeStore ------------------------------
(***************************************************************************)
(* Where the files of assignment 3 live on the disk: the free map          *)
(* (a3/fs/free-map.c, a3/fs/bitmap.c), the growth and the release of an    *)
(* inode's blocks (a3/fs/inode.c), and creation and removal in the root    *)
(* directory (a3/fs/filesys.c, a3/fs/directory.c).                         *)
(*                                                                         *)
(* Lengths are counted in sectors.  An inode reaches its data through      *)
(* direct blocks, one indirect table and one doubly indirect table; a      *)
(* block is named by the way to it, <<"direct", i>>, <<"indirect", k>> or  *)
(* <<"doubly", k, l>>, and the tables on the way by its prefixes.          *)
(* inode_reserve visits these nodes one by one, a step of the model each.  *)
(* A file is open under one name, and the shell is only left by `quit`.    *)
(* A request that changes nothing (a create on a full disk, a name that    *)
(* does not exist) is no step.                                             *)
(***************************************************************************)
EXTENDS Integers, Sequences, FiniteSets

CONSTANTS Name,        \* file names
          LastSector,  \* sectors are 0 .. LastSector
          Direct,      \* DIRECT_BLOCKS_COUNT
          PerTable,    \* INDIRECT_BLOCKS_PER_SECTOR
          Lengths      \* bound: the lengths asked for, in sectors

FreeMapSector == 0
RootDirSector == 1
System == {FreeMapSector, RootDirSector}
Sector == 0 .. LastSector

ASSUME InodeAssumption ==
  /\ LastSector \in Nat /\ LastSector >= 2
  /\ Direct \in Nat \ {0} /\ PerTable \in Nat \ {0}
  /\ Lengths \in SUBSET (1 .. Direct + PerTable + PerTable * PerTable)

VARIABLES used,  \* free_map: the sectors whose bit is set
          disk,  \* sector -> what was last written to it
          dir,   \* root directory: name -> inode sector, 0 when there is no such entry
          open,  \* file table: name -> the in-memory inode, or Closed
          job,   \* the create or write under way, NoJob, or Unmapped
          failed \* history: a request has failed since the disk was formatted

vars == <<used, disk, dir, open, job, failed>>

-----------------------------------------------------------------------------
(* The blocks of an inode.                                                 *)

Leaf(i) ==
  IF i < Direct THEN <<"direct", i>>
  ELSE IF i < Direct + PerTable THEN <<"indirect", i - Direct>>
  ELSE LET d == i - Direct - PerTable
       IN <<"doubly", d \div PerTable, d % PerTable>>

(* The tables on the way to a leaf, outermost first, and then the leaf.    *)
Way(i) ==
  LET leaf == Leaf(i)
  IN CASE leaf[1] = "direct"   -> <<leaf>>
       [] leaf[1] = "indirect" -> <<<<"indirect">>, leaf>>
       [] leaf[1] = "doubly"   -> <<<<"doubly">>, <<"doubly", leaf[2]>>, leaf>>

OnWay(node, i) == \E k \in 1 .. Len(Way(i)) : Way(i)[k] = node

Node == UNION {{Way(i)[k] : k \in 1 .. Len(Way(i))} :
               i \in 0 .. Direct + PerTable + PerTable * PerTable - 1}
Root == {node \in Node : Len(node) = 1 \/ node[1] = "direct"}
Table == {node \in Node : node \in {<<"indirect">>, <<"doubly">>}
                          \/ (node[1] = "doubly" /\ Len(node) = 2)}

(* The table that holds a node's entry. *)
Up(node) == SubSeq(node, 1, Len(node) - 1)
Children(table) == {node \in Node \ Root : Up(node) = table}
Slot(node) == node[Len(node)]

(* Nodes that a file of n sectors needs. *)
Needs(n) == {node \in Node : \E i \in 0 .. n - 1 : OnWay(node, i)}

-----------------------------------------------------------------------------
(* Sector contents: zeros, data of a file, a table, an inode.              *)
Zeros == [kind |-> "zeros"]
Data(f) == [kind |-> "data", of |-> f]
TableOf(ptr, table) ==
  [kind |-> "table",
   at |-> [k \in 0 .. PerTable - 1 |-> ptr[CHOOSE c \in Children(table) : Slot(c) = k]]]
Inode(n, root) == [kind |-> "inode", len |-> n, root |-> root]

NoBlocks == [node \in Root |-> 0]
EntryAt(content, k) == IF content.kind = "table" THEN content.at[k] ELSE 0

(* The pointers of an inode as they are on the disk, 0 where there is none. *)
PointersIn(d, root) ==
  LET first == [node \in Node |-> IF node \in Root THEN root[node] ELSE 0]
      Below(ptr) == [node \in Node |->
        IF node \in Root THEN root[node]
        ELSE IF ptr[Up(node)] = 0 THEN 0 ELSE EntryAt(d[ptr[Up(node)]], Slot(node))]
  IN Below(Below(first))
PointersOf(root) == PointersIn(disk, root)

(* What a file occupies by the inode on the disk: its inode's sector, and  *)
(* the blocks and tables its length reaches.                               *)
OnDisk(f) == disk[dir[f]]
BlocksOf(f) == {PointersOf(OnDisk(f).root)[node] : node \in Needs(OnDisk(f).len)}
Occupies(f) == {dir[f]} \cup BlocksOf(f)

Exists(f) == dir[f] # 0

-----------------------------------------------------------------------------
Closed == [kind |-> "closed"]
NoJob == [op |-> "none"]
\* The shell runs on a disk whose free map cannot be read: not modelled further.
Unmapped == [op |-> "unmapped"]

(* A freshly formatted disk: do_format.  The data of the free map and of   *)
(* the root directory lies in sectors that stay allocated; they are left   *)
(* out.                                                                    *)
Init ==
  /\ used = System
  /\ disk = [s \in Sector |-> IF s \in System THEN Inode(0, NoBlocks) ELSE Zeros]
  /\ dir = [f \in Name |-> 0]
  /\ open = [f \in Name |-> Closed]
  /\ job = NoJob
  /\ failed = FALSE

(* free_map_allocate(1): the lowest clear bit. *)
Full(u) == u = Sector
\* Mutant of Allocated: the bit is not set.
AllocatedUnmarked(u, s) == u
Allocated(u, s) == u \cup {s}
Lowest(u) == CHOOSE s \in Sector \ u : \A t \in Sector \ u : s <= t

(* A new block is written with zeros before it is used. *)
\* Mutant of Cleared: the block keeps what was there.
NotCleared(d, s) == d
Cleared(d, s) == [d EXCEPT ![s] = Zeros]

(* inode_reserve starts on root pointers `root`, for n sectors.            *)
Reserve(op, f, sector, root, n) ==
  [op |-> op, file |-> f, sector |-> sector, len |-> n, at |-> 0, depth |-> 1,
   ptr |-> [node \in Node |-> IF node \in Root THEN root[node] ELSE 0]]

(* filesys_create allocates the inode's sector before anything is looked   *)
(* up in the directory.                                                    *)
Create(f, n) ==
  /\ job = NoJob /\ ~Full(used)
  /\ used' = Allocated(used, Lowest(used))
  /\ job' = Reserve("create", f, Lowest(used), NoBlocks, n)
  /\ UNCHANGED <<disk, dir, open, failed>>

(* A write into sector n - 1 of a file opens it when it is not open, and   *)
(* extends it when it is shorter.                                          *)
InMemory(f) ==
  IF open[f] = Closed THEN [kind |-> "open", len |-> OnDisk(f).len, root |-> OnDisk(f).root]
  ELSE open[f]

WriteInside(f, n) ==
  /\ job = NoJob /\ Exists(f) /\ n \in 1 .. InMemory(f).len
  /\ open' = [open EXCEPT ![f] = InMemory(f)]
  /\ disk' = [disk EXCEPT ![PointersOf(InMemory(f).root)[Leaf(n - 1)]] = Data(f)]
  /\ UNCHANGED <<used, dir, job, failed>>

WritePast(f, n) ==
  /\ job = NoJob /\ Exists(f) /\ n > InMemory(f).len
  /\ open' = [open EXCEPT ![f] = InMemory(f)]
  /\ job' = Reserve("write", f, dir[f], InMemory(f).root, n)
  /\ UNCHANGED <<used, disk, dir, failed>>

-----------------------------------------------------------------------------
(* The loops of inode_reserve and inode_reserve_indirect.                  *)

Walking == job.op \in {"create", "write"}
Current == Way(job.at)[job.depth]
IsLeaf == job.depth = Len(Way(job.at))

(* A table that was just read, or cleared, fills in its children.          *)
Entered(ptr, table, s, content) ==
  [node \in Node |->
     IF node = table THEN s
     ELSE IF node \in Children(table) THEN EntryAt(content, Slot(node))
     ELSE ptr[node]]

VisitTable ==
  /\ Walking /\ job.at < job.len /\ ~IsLeaf
  /\ \/ /\ job.ptr[Current] # 0
        /\ job' = [job EXCEPT !.depth = @ + 1,
                    !.ptr = Entered(@, Current, @[Current], disk[@[Current]])]
        /\ UNCHANGED <<used, disk>>
     \/ /\ job.ptr[Current] = 0
        /\ \E s \in Sector :
             \* On a full disk *p_entry stays 0, and nothing looks at the result.
             /\ IF Full(used) THEN s = 0 /\ UNCHANGED used
                ELSE s = Lowest(used) /\ used' = Allocated(used, s)
             /\ disk' = Cleared(disk, s)
             /\ job' = [job EXCEPT !.depth = @ + 1, !.ptr = Entered(@, Current, s, Zeros)]
  /\ UNCHANGED <<dir, open, failed>>

(* After a leaf the tables whose last leaf it is are written back; the     *)
(* next leaf is entered at the first table that is not being visited yet.  *)
LastOf(table) == OnWay(table, job.at) /\ (job.at + 1 = job.len \/ ~OnWay(table, job.at + 1))

WrittenBack(d, ptr) ==
  [s \in Sector |->
     IF \E table \in Table : LastOf(table) /\ ptr[table] = s
     THEN TableOf(ptr, CHOOSE table \in Table : LastOf(table) /\ ptr[table] = s)
     ELSE d[s]]

NextDepth ==
  CHOOSE k \in 1 .. 3 : /\ k <= Len(Way(job.at + 1)) /\ ~OnWay(Way(job.at + 1)[k], job.at)
                        /\ \A h \in 1 .. k - 1 : OnWay(Way(job.at + 1)[h], job.at)

PastLeaf(ptr) ==
  [job EXCEPT !.at = @ + 1, !.ptr = ptr,
              !.depth = IF job.at + 1 < job.len THEN NextDepth ELSE 1]

VisitLeaf ==
  /\ Walking /\ job.at < job.len /\ IsLeaf
  /\ \/ /\ job.ptr[Current] # 0
        /\ disk' = WrittenBack(disk, job.ptr)
        /\ job' = PastLeaf(job.ptr)
        /\ UNCHANGED used
     \/ /\ job.ptr[Current] = 0 /\ ~Full(used)
        /\ LET s == Lowest(used)
               ptr == [job.ptr EXCEPT ![Current] = s]
           IN /\ used' = Allocated(used, s)
              /\ disk' = WrittenBack(Cleared(disk, s), ptr)
              /\ job' = PastLeaf(ptr)
  /\ UNCHANGED <<dir, open, failed>>

RootPart(ptr) == [node \in Root |-> ptr[node]]

(* inode_reserve answers false.  A create gives the inode's sector back; a *)
(* write leaves what was reserved in the memory of the open file.          *)
Fail ==
  /\ Walking /\ job.at < job.len /\ IsLeaf /\ job.ptr[Current] = 0 /\ Full(used)
  /\ \/ /\ job.op = "create" /\ used' = used \ {job.sector} /\ UNCHANGED open
     \/ /\ job.op = "write" /\ UNCHANGED used
        /\ open' = [open EXCEPT ![job.file].root = RootPart(job.ptr)]
  /\ job' = NoJob /\ failed' = TRUE
  /\ UNCHANGED <<disk, dir>>

(* inode_create writes the inode; dir_add then fails when the name is      *)
(* taken, and only the inode's sector is given back.                       *)
\* Mutant of FinishCreate: the sector is given back and the entry stays.
FinishCreateReleased ==
  /\ job.op = "create" /\ job.at = job.len
  /\ disk' = [disk EXCEPT ![job.sector] = Inode(job.len, RootPart(job.ptr))]
  /\ dir' = IF Exists(job.file) THEN dir ELSE [dir EXCEPT ![job.file] = job.sector]
  /\ used' = used \ {job.sector}
  /\ failed' = (failed \/ Exists(job.file))
  /\ job' = NoJob
  /\ UNCHANGED open

FinishCreate ==
  /\ job.op = "create" /\ job.at = job.len
  /\ disk' = [disk EXCEPT ![job.sector] = Inode(job.len, RootPart(job.ptr))]
  /\ IF Exists(job.file)
     THEN used' = used \ {job.sector} /\ UNCHANGED dir
     ELSE dir' = [dir EXCEPT ![job.file] = job.sector] /\ UNCHANGED used
  /\ failed' = (failed \/ Exists(job.file))
  /\ job' = NoJob
  /\ UNCHANGED open

(* The new length and the new blocks go to the inode's sector, and then    *)
(* the data to its own.                                                    *)
\* Mutant of FinishWrite: the inode is not written back.
FinishWriteInMemory ==
  /\ job.op = "write" /\ job.at = job.len
  /\ open' = [open EXCEPT ![job.file].len = job.len, ![job.file].root = RootPart(job.ptr)]
  /\ disk' = [disk EXCEPT ![job.ptr[Leaf(job.len - 1)]] = Data(job.file)]
  /\ job' = NoJob
  /\ UNCHANGED <<used, dir, failed>>

FinishWrite ==
  /\ job.op = "write" /\ job.at = job.len
  /\ open' = [open EXCEPT ![job.file].len = job.len, ![job.file].root = RootPart(job.ptr)]
  /\ disk' = [disk EXCEPT ![job.sector] = Inode(job.len, RootPart(job.ptr)),
                          ![job.ptr[Leaf(job.len - 1)]] = Data(job.file)]
  /\ job' = NoJob
  /\ UNCHANGED <<used, dir, failed>>

-----------------------------------------------------------------------------
(* rm: the file is closed, which writes nothing, then its inode is read    *)
(* again, the entry erased, and what the length of the inode reaches is    *)
(* released.                                                               *)
\* Mutant of Released: the tables stay allocated.
ReleasedLeaves(f) ==
  {dir[f]} \cup {PointersOf(OnDisk(f).root)[Leaf(i)] : i \in 0 .. OnDisk(f).len - 1}

\* Mutant of Released: every pointer is released, whatever the length.
ReleasedEvery(f) == {dir[f]} \cup {PointersOf(OnDisk(f).root)[node] : node \in Node}

Released(f) == {dir[f]} \cup {PointersOf(OnDisk(f).root)[node] : node \in Needs(OnDisk(f).len)}

Remove(f) ==
  /\ job = NoJob /\ Exists(f)
  /\ used' = used \ Released(f)
  /\ dir' = [dir EXCEPT ![f] = 0]
  /\ open' = [open EXCEPT ![f] = Closed]
  /\ UNCHANGED <<disk, job, failed>>

(* quit, and a new shell on the same disk.  The free map is read from its  *)
(* file, which every allocation and release has written; when its inode is *)
(* gone nothing is read, and PANIC prints and returns, which leaves the    *)
(* map as free_map_init made it.                                           *)
MapReadable == disk[FreeMapSector].kind = "inode"

Restart ==
  /\ job \in {NoJob, Unmapped}
  /\ IF MapReadable THEN UNCHANGED <<used, job>>
     ELSE used' = System /\ job' = Unmapped
  /\ open' = [f \in Name |-> Closed]
  /\ UNCHANGED <<disk, dir, failed>>

Next ==
  \/ \E f \in Name, n \in {0} \cup Lengths : Create(f, n)
  \/ \E f \in Name, n \in Lengths : WriteInside(f, n) \/ WritePast(f, n)
  \/ VisitTable \/ VisitLeaf \/ Fail
  \/ FinishCreate \/ FinishWrite
  \/ \E f \in Name : Remove(f)
  \/ Restart

Spec == Init /\ [][Next]_vars

-----------------------------------------------------------------------------
Length == {0} \cup Lengths

Content ==
  {Zeros} \cup {Data(f) : f \in Name}
  \cup [kind : {"table"}, at : [0 .. PerTable - 1 -> Sector]]
  \cup [kind : {"inode"}, len : Length, root : [Root -> Sector]]

Jobs == [op : {"create", "write"}, file : Name, sector : Sector, len : Length,
         at : Nat, depth : 1 .. 3, ptr : [Node -> Sector]]

(* The sectors of the two system files are never given out or released,    *)
(* the root directory keeps its inode, and every variable has its type.    *)
TypeOK ==
  /\ used \in SUBSET Sector /\ System \subseteq used
  /\ disk \in [Sector -> Content]
  /\ disk[RootDirSector].kind = "inode"
  /\ dir \in [Name -> Sector]
  /\ DOMAIN open = Name
  /\ \A f \in Name : \/ open[f] = Closed
                     \/ open[f] \in [kind : {"open"}, len : Length, root : [Root -> Sector]]
  /\ \/ job \in {NoJob, Unmapped}
     \/ job \in Jobs
  /\ failed \in BOOLEAN

Files == {f \in Name : Exists(f)}

(* The inodes, tables and data of all files lie in sectors of their own,   *)
(* none of them a system file's: what a write stores nothing else reaches, *)
(* whatever was created, extended, removed or cut short by a full disk     *)
(* before (inode_reserve, inode_deallocate, free_map_allocate).            *)
NoSharedSector ==
  \A f, g \in Files :
    /\ disk[dir[f]].kind = "inode"
    /\ Occupies(f) \cap System = {}
    /\ Cardinality(Occupies(f)) = 1 + Cardinality(Needs(OnDisk(f).len))
    /\ f # g => Occupies(f) \cap Occupies(g) = {}

(* While the free map can be read, every sector a file occupies is marked  *)
(* used in it, so that free_map_allocate never hands it out again.         *)
OwnedAreUsed == job # Unmapped => \A f \in Files : Occupies(f) \subseteq used

(* The in-memory inode of an open file and the one on the disk agree on    *)
(* the length and on every block within it, although a failed extension    *)
(* leaves more pointers in memory: a close, which writes nothing, loses no *)
(* data, and rm, which reads the disk, releases the blocks in use.         *)
OpenMatchesDisk ==
  \A f \in Files : open[f] # Closed =>
    /\ open[f].len = OnDisk(f).len
    /\ \A node \in Needs(open[f].len) :
         PointersOf(open[f].root)[node] = PointersOf(OnDisk(f).root)[node]

(* A sector within a file's length holds zeros or what was written to this *)
(* file, never a block of a file that was removed (the zero fill of        *)
(* inode_reserve).                                                         *)
OwnContent ==
  \A f \in Files : \A i \in 0 .. OnDisk(f).len - 1 :
    disk[PointersOf(OnDisk(f).root)[Leaf(i)]] \in {Zeros, Data(f)}

(* As long as no request has failed, a used sector belongs to a file: rm   *)
(* returns inode, tables and data, and nothing leaks.                      *)
NothingLost ==
  job = NoJob /\ ~failed => used = System \cup UNION {Occupies(f) : f \in Files}

(* "Free map file inode sector" (filesys.h:8) across restarts: a sector a  *)
(* file occupies is marked used, in every shell.  It does not hold: an     *)
(* indirect table that finds the disk full is written to sector 0.         *)
MapSurvives == \A f \in Files : Occupies(f) \subseteq used
=============================================================================
