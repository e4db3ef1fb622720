# A verification of the ECSE 427 shells: TLA+ models, model checking and proofs

The repository holds three shells written for an operating-systems course.
Assignment 3 (`src/a3`) is the largest: a shell whose scripts run as processes
under a demand-paging kernel, with a file system (derived from Pintos) on a
disk image.  Assignments 1 and 2 are earlier shells, with a code base of their
own.  Everything is single-threaded C.  What makes it hard is not concurrency
but long sequences of calls over shared state: a cache over a disk, frames over
a backing store, inodes over a bitmap, each with failures half way.

## Inventory

| Part | State | Operations | Talks to | Hard behaviour | Properties that make it correct |
|---|---|---|---|---|---|
| Buffer cache `a3/fs/cache.c` | 64 slots, clock hand | read, write, evict, flush, close | called by inodes, calls the block device | write-back order, stale copies, exit without close | one slot per sector; clean slots agree with the disk; it behaves like a store without a cache |
| Block device `a3/fs/block.c`, `ide.c` | disk image | read, write | cache | a sector past the end | accesses stay on the device |
| Kernel `a3/kernel.c`, `pcb.c`, `cpu.c`, `linked_list.c` | PCBs, ready queue, LRU list | new process, run a line, fault, evict, finish | shell memory; `parseInput` runs each line | eviction of pages of other processes, lines that return 1, termination | page tables and frames agree; no process is lost; lines run in order; `exec` returns |
| Shell memory `a3/shellmemory.c` | frames and variables in one array | allocate, set, free, reset | kernel, interpreter | first fit in threes, the border between the zones | zones stay apart |
| Shell, interpreter `a3/shell.c`, `interpreter.c` | the current line (`strtok`) | parse a line, dispatch a command | everything | a command that runs a script re-enters the parser and the kernel | every part of a one-liner runs |
| Free map `a3/fs/free-map.c`, `bitmap.c` | one bit a sector, and its file | allocate, release, open | inodes | allocation before the owner is written | owned sectors are marked |
| Inodes `a3/fs/inode.c` | disk inodes, open inodes | create, open, close, read, write, reserve, deallocate | free map, cache | growth over three kinds of blocks, full disk half way, references | sectors are disjoint, none is lost, nothing of a removed file shows |
| Directories, file system `a3/fs/directory.c`, `filesys.c` | entries, working directory | create, open, remove, chdir | inodes | a create that fails late, a shared working directory | an entry leads to a live inode |
| Open files `a3/fs/file.c`, `fsutil.c` | file table, positions | open, read, write, seek, size, rm | inodes | two names for one inode, positions | a handle's inode is alive; reads return what was written |
| Utilities `a3/fs/fsutil2.c` | none | copy in/out, find, defragment, recover | open files, free map, cache | everything is removed before it is written back | contents survive |
| Assignment 2 `a2/` | frames, ready queue, LRU queue | run, exec with FCFS/SJF/RR/AGING, page faults | own shell | stale page tables after an eviction | as for the kernel above |
| Assignment 1 `a1/` | 1000 variables | set, print, if, run | own shell | capacity of the store | last set wins |

`a3/fs/list.c` (library), `partition.c` (a scan of the image's
first sector at start, which finds no partition on an image this shell formats), `debug.c` and the build files hold no behaviour the properties are
about.  One fact of `debug.c` shapes every model: `PANIC` and `ASSERT` print and
return, they never stop the program.

The hazards, each at its line and with the properties that would catch it, are
in `PROJECT.json`.

## Plan

1. `SectorStore`, `BufferCache` and their proofs: everything the file system
   stores passes through them.  *Done.*
2. `PagingKernel`: the kernel of assignment 3.  *Done; all its invariants and
   `FinishIsClean` are proved, those about content and order for plain scripts.*
3. `InodeStore`: free map, inode growth and release, create and remove.  *Done;
   all its invariants are proved.*
4. `FileStore` and `OpenFiles`: handles, positions, bytes, the two-byte overlap of
   writes, and the commands of `fsutil2.c` on top of them.  *Done; all invariants and
   action properties of `OpenFiles`, and that it implements `FileStore`, are proved.*
5. `SharedPaging`: the kernel of assignment 2, whose evictions leave the victim's
   page table as it was.  *Done; all its invariants but `ExecutedInOrder` are proved.*
6. `VariableStore`, `ScriptShell` and `IfStatements`: assignment 1.  *Done; the types
   and that `ScriptShell` implements `VariableStore` are proved.*

Abstract specifications: the store without a cache, the store of byte sequences and
the bounded map of variables (done); the disjoint files that `InodeStore` should
implement and the set of scripts run to their end that `PagingKernel` should
implement are left.

## Modules

### SectorStore and BufferCache (`cache.c`, `block.c`, `ide.c`)

`SectorStore` is what the file system expects: each sector has a current content
and a durable one, a read returns the current one, a close makes everything
durable, a restart falls back to the durable one, and other sectors may become
durable at any operation.

`BufferCache` is the code.  `cache` is the array of entries, `clock` the static of
`buffer_cache_evict`, `disk` the image.  `ReadHit`, `ReadMiss`, `WriteHit` and
`WriteMiss` are `buffer_cache_read` and `buffer_cache_write` by the outcome of
`buffer_cache_lookup`; a miss includes the eviction (`Victim`, `Swept`), the
write-back (`Flushed`) and the fill (`Filled`), which reads the sector even when it
is about to be overwritten, as the code does.  `Close` is `buffer_cache_close`, and
`Restart` is a new process, after a `quit` (then a `Close` came before) or after one
of the `exit(99)` of `PCB_init` (then it did not).  `result` and `op` record the last
answer for the refinement.  The sector a caller passes may lie past the device, as
`byte_to_sector`'s -1 does: `read(2)` then transfers nothing and `write(2)` extends
the image, which `Absent` stands for: `check_sector` is documented to panic (`block.c:27`)
and only prints.  The run asks for sectors of the device, the proofs for any.  Contents
are model values.

### PagingKernel (`kernel.c`, `pcb.c`, `cpu.c`, `linked_list.c`, `shellmemory.c`, `interpreter.c`)

`mem` is `shellmemory`, frames first and variables after them; `pcbs`, `queue` and
`lru` are `ALL_PCB`, `QUEUE` and `LRU_CACHE` (the head is the newest).  `Exec` is
the prompt's `exec` or `run`; `NewProc` is `new_proc` with `PCB_init`, for one script;
`Dispatch` pops the queue; `RunLine`, `PageFault` and `ReturnOne` are `run_proc` by
what `cpu_run` answers; `Finish` is the end of `run_proc_RR`; `Set`, `ResetMem` and `Quit`
are commands at the prompt.  A step is one call of `run_proc`: a turn of
two lines is two steps with `cpu` in between.  A line is abstracted to what the
kernel can tell: it runs, it returns 1, or it is blank.  `count_lines`,
`fgets` and the index arithmetic are modelled by what they do, the border check
of `frame_alloc` and the comparison of pages by frame start included.
`executed` is a history variable.  Left out: scripts that start scripts, a script that
is not there (`PCB_init` then ends the process, as it does without a frame), and
`run_proc_FIFO`, which nothing calls.

### InodeStore (`free-map.c`, `bitmap.c`, `inode.c`, `filesys.c`, `directory.c`)

`used` is the bitmap (its file is written at every change, so the two are one),
`disk` what was last written to each sector, cache and image taken together,
`dir` the root directory, `open` the in-memory inode of an open file.  A create or
an extending write is a `job` that visits the blocks one by one in the order of
`inode_reserve`: `VisitTable` allocates or reads a table, `VisitLeaf` allocates a
data block and writes back the tables that are complete, `Fail` is the full
disk.  `FinishCreate` writes the inode and adds the entry, or gives the inode's
sector back when the name is taken; `FinishWrite` writes the inode and the data.
`Remove` is `rm` with `inode_deallocate`, `Restart` a `quit` and a new shell.
Lengths are in sectors, contents are "zeros", "data of f", a table or an inode.
Stale contents of freed sectors stay on the disk, which `OwnContent` is about.
`PointersOf` looks an inode's pointers up table by table (`Up` is the table that holds
a node's entry), 0 where the code would find none.
`failed` is a history variable.  Once the free map's inode is destroyed and the
shell was started again (`Unmapped`), the model goes no further.  Left out:
references and deferred removal, the data of the two system files, offsets within
a sector, directories other than the root.

### FileStore and OpenFiles (`fsutil.c`, `fsutil2.c`, `file.c`, and `filesys.c`, `directory.c`, `inode.c` below them)

`FileStore` is what the file commands come to for a user: `content` is a sequence
of bytes for each file, `pos` a position for each open file, `out` what the last
command delivered.  A write replaces bytes at the position, fills a gap with zeros
and leaves the position two bytes before its end.  That is the program's way and not
what the comment of `file_write` says (`file.c:131`), by which the position advances by
the number of bytes; run `files_seek` shows what comes of it.  `cat` leaves the position alone,
`copy_out` and `find_file` move it to the end; what `defragment` (`Rebuild`) puts into
the files is not promised, only that they are there with their sizes.

`OpenFiles` is the code.  A command is a step, and what it calls are operators on
records of the five variables of the file system (`used`, `disk`, `dir`, `inodes`,
`table`), applied in the order of the calls: `Created` is `filesys_create` with the
allocation before the look-up of the name, `Reserve` is `inode_reserve` with its
partial allocation on a full disk, `WriteAt` and `Bytes` are `inode_write_at` and
`inode_read_at`, `Opened` and `Closed` the file table, `Gone` is `fsutil_rm`, `WroteTo`
and `ReadFrom` are `file_write` and `file_read`.  `dir` keeps the slots of the root
directory, so that the order in which `defragment` and `find_file` see the files is
the code's.  `CopyIn` compares the bytes of the host's file with the number of free
sectors, as the code does.  `Defragment` gathers, removes, recreates and writes;
the strings it appends to start with whatever `malloc` returned (`Heap`).  `Recover0`
re-links each free sector that still looks like a file's inode.  `freed` names the
open files whose inode was freed under their handle, in two ways that were also
seen on the program itself (`size f` then answers 36000, the size of the root
directory, whose inode has taken the memory): `CatByPath`, where `cat /f` closes the
inode of the handle `f`; and a defragment of two or more files, where the first
`rm` frees the inode of the root directory that `defragment` holds open, and the last
`dir_close` closes the inode that was given its memory.

Three kinds of states are not followed further, because what the program does there
is undefined or needs a model of memory: a read or write at a negative position
(`Accessible`; what a seek to it, `cat`, `size`, `rm` and a restart do is followed), a command through a freed handle (`Exists`), and an allocation or a
removal after `recover(0)` met an inode or linked one (`Settled`), however little it
found, because what it re-linked is still marked free, and what it opened stays open.  In this module inodes have direct blocks only; the tables are
`InodeStore`'s.

### SharedPaging (assignment 2: `kernel.c`, `pcb.c`, `ready_queue.c`, `shellmemory.c`, `interpreter.c`)

`lines` is the frame store, a line being known by its process and its number; `procs`
the PCBs (those of ended processes stay, because their pages stay in the LRU queue),
`queue` and `lru` the two queues.  `Admit` makes a process of the next argument of
`run` or `exec` with `process_initialize`, `Refuse` meets a missing file, `Dispatch`,
`PageFault`, `RunLine` and `Return` are the loops of `scheduler_FCFS` and `scheduler_RR`.
`Loaded` is the loading of a page (`LoadedTo` is how far its script is loaded then,
`LoadedLines` the frame store and `LoadedPcb` the process after it) in both variants, `load_pages_to_memory` with
`initial` TRUE (a short page gets -1 over its indices) and `load_missing_page_to_mem`
with FALSE.  An eviction frees the lines of the head of the LRU queue and does not
touch its owner's page table.  A script that runs a script adds a process to the queue
that is being served.  `fate` is "crashed" when an eviction finds no victim and
"undefined" when it reads through an index that is none.  `exec` returns no value on
its normal path, which is taken for 0.  `ran` is a history variable.

### VariableStore, ScriptShell and IfStatements (assignment 1: `shell.c`, `interpreter.c`, `shellmemory.c`)

`VariableStore` is a map of at most `Capacity` names to values, with one name, `none`,
that cannot be stored.  `ScriptShell` is the array of slots, the interpreter and its
nested scripts.  `Type` and `NextLine` put the words of the next line, from the user or
from the innermost script, into `command`; the actions under "The interpreter" take
them.  `Choose` is `ifStatement`, which looks for the first `else` and the last `fi` and
hands the words between back to the interpreter.  `ScriptShell` knows nothing of a
statement but its words, `Words(st)`, a constant operator: so the proofs about it are
about all lines.  `IfStatements` says what statements are, a simple command or an `if`
with statements as branches, gives their words, `WordsOf`, and the command an `if`
should come to.  `meant` remembers the statement the words were written from, so that
`IfRunsBranch` can compare.  Scripts are read
whole when they start: their text is shorter than the buffer of a C stream.

## Runs

| Run | Bounds | States | Shows |
|---|---|---|---|
| `cache` | 3 slots, the 4 sectors of the device, 2 contents | 411136 | type, one slot per sector, clean slots agree with the disk, a close is durable, `BufferCache` implements `SectorStore` |
| `kernel` | 17 frame lines (5 frames and two spare lines at the border), 1 variable, 3 processes, scripts of 2 to 10 lines, with blank lines, a trailing newline or commands that return 1 | | mapping, LRU list, no lost process, order, clean finish, termination |
| `kernel_returns`, `kernel_order`, `kernel_variables` | one kind of script each | | three of the disagreements below (violations) |
| `inodes` | 8 free sectors, 2 files, 1 direct block, 2 entries a table, lengths 0, 3 and 4 | | sectors disjoint, marked, agreeing with memory, clean, not lost |
| `inodes_map` | the same disk, length 3 | | sector 0 is overwritten on a full disk (violation) |
| `files` | 2 files of up to 5 bytes, 5 free sectors of 2 bytes, seeks to -1, 0 and 2, 4 commands that change the disk, any number of others | 233623 | `OpenFiles` implements `FileStore`; handles, zeros at and behind the end of files, what recover and defragment achieve |
| `files_defragment` | the same disk | | a file holds other bytes after `defragment` (violation) |
| `files_seek` | the same disk, seeks to 0 and 2 | | `cat` and `size` seek a negative position nobody asked for (violation) |
| `a2` | 18 lines (6 frames), scripts of 2, 3, 6 and 10 lines, one that starts others, one that quits or names a missing script; commands while there are fewer than 3 processes | about 95000 | pages hold their lines while they may be used, no process is lost, order, return |
| `a1` | 2 slots, 3 open files, 5 typed lines out of 21 statements, a script that runs itself | about 60000 | `ScriptShell` implements `VariableStore`; `if` runs the right branch when its variables are set; the prompt comes back |

Why these bounds are enough to be interesting.  A cache of three slots with four
sectors evicts, gives second chances and turns in full.  Five frames cannot hold
three processes of two or more pages, so pages of other processes are evicted, and
`PCB_init` fails when the frames run out.  A file of three sectors fills the direct
block and the indirect table, one of four reaches the doubly indirect block and
needs all eight free sectors; with any other file on the disk it fails, at every
block where it can.  In `files`, two files of three bytes need six sectors and there
are five: creates, extensions and copies fail half way; sizes of 1, 3 and 5 end
inside a sector, the overlap of a write and the seek to 2 meet the boundary
between sectors, and a file that grows after another was made is fragmented at
`Gap` = 2.  In `a2`, scripts of up to four pages, three of them in one
`exec` after others have left their pages behind, share six frames, and processes left behind by a failed exec meet those of the next (the run was also made
once with `MaxPrompt` 5, 1.6 million states, without a violation).  In `a1`, the third name
finds the store full, and three open files bound the recursion.

Named bounds: `MaxPid`, `Lengths`, `MaxLength`, `MaxChanges`, `Sizes`, `Offsets`, `MaxPrompt`,
`Execs`, `MaxTyped`, and the sizes that the code takes from macros or the system
(`CacheSize`, `FrameStoreSize`, `VarStoreSize`, `Direct`, `PerTable`, `LastSector`,
`SectorSize`, `Gap`, `Slots`, `OpenMax`).  The constants of `inodes` and `files` are
symmetric in the two names.  Deadlock is not checked in `files`, `a2` and `a1`: there a
bound, a `quit` or an undefined state ends the behaviour.

What the violations say of the code:

- `kernel_returns`: `count_lines` counts a line after a trailing newline; the process
  faults on it for ever.
- `kernel_order`: a command that returns 1 (a successful `rm`) is taken for a page
  fault; following lines are loaded over the page in use, and lines are skipped.
- `kernel_variables`: freeing the last frame clears the first two variables.
- `inodes_map`: on a full disk a table is "allocated" at sector 0, the free map's
  inode; the next shell starts with every file's sectors marked free.
- `files_defragment`: `defragment` reads each file from where the last command left the
  position and takes bytes for strings; on the program, a file "hello world" that was
  just copied in comes back as "d".
- `files_seek`: the position after a write lies two bytes before its end, not at its end
  as `file.c:131` says.  From the start of a file a refused write leads to -2, and `defragment`
  of a file of one byte to -1; the next `cat` or `size` then fails the assertion of
  `file_seek` (`file.c:183`), which stops nothing.  After `copy_in`, whose bytes end in one zero
  and not in two, the next write also overwrites the last byte of the text.

The passing kernel properties about content and order (`MappingCoherent`, `LRUExact`,
`ExecutedInOrder`, `FinishIsClean`, `Terminates`) are stated for executions of plain
scripts, without these triggers, because the code breaks them otherwise;
`TypeOK`, `TouchFinds` and `NoProcessLost` hold for all scripts of the run.  Likewise:

- `ExecutedInOrder` of `a2` is stated as long as no script runs another one.  With
  such a script a page can be evicted before its last line was run, and the process
  runs lines of another: on the program, with `framesize=18`, a script that runs two
  long ones executes `run` in place of its own `echo` lines.  A script with a newline
  at its end runs its last line twice, which `Loads` takes for what the script is.
- `UndefinedNeedsShortPage` says when an eviction reads through -1: on the program,
  `run` of a two-line script and an `exec` of long ones end in a segmentation fault.
- `IfRunsBranch` of `a1` is about an `if` whose first branch is a simple command; an `if`
  nested in the first branch ends at the inner `else`.  It is also only about conditions
  whose variables are set.  For others `A1_README.md:25` promises an error, and
  `ifStatement` has checks for them (`interpreter.c:315` and `325`); but `mem_get_value` answers
  the text "Variable does not exist", never NULL, so the checks are dead, that text
  is compared like a value, and a branch runs.
- `HandlesLive` of `files` is about handles outside `freed`.

## Fairness

While scripts run, each shell is in a loop that nothing interrupts and in which
every step is a finite computation, so a step that can be taken is taken:

- `PagingKernel`: `WF_vars(Kernel)`, the loop of `run_proc_RR`.
- `SharedPaging`: `Progress`, weak fairness of `Loop` with the condition for a step of it
  written out as `Busy`.
- `ScriptShell`: `WF_vars(Step)`, the loop of `run` and the interpreter.

User commands have no fairness: a user may never type another line.
`BufferCache`, `InodeStore` and `OpenFiles` promise nothing that must happen
eventually, and have no fairness.

## Proofs

`BufferCacheProofs` proves, for every cache size, every set of sectors and contents and
every disk allowed by `CacheAssumption`:

- `TypeCorrect`, `OneSlot`, `CleanMatches`, `Durable`: the four invariants of run
  `cache`, and that also with sectors past the device, which the run leaves out;
- `Implements`: if every sector asked for is on the device, `Spec => Store!Spec`.

The assumptions: at least one slot; the device's sectors are among those a caller may
pass; at most one number lies outside it (the code's only source of such numbers is
the constant -1); zeros are a content and `Absent` is not one.

The argument.  None of the three data properties is inductive alone.  `IInv` is
`TypeOK`, `OneSlotPerSector`, `CleanMatchesDisk` and `CloseLeavesClean` (after a close no slot
is dirty).  A miss writes one sector: that no other slot holds it is
`OneSlotPerSector`, and without it the write-back of a victim would make a clean
slot stale, so `CleanMatchesDisk` needs it; `Durable` follows from `CloseLeavesClean`
with `CleanMatchesDisk`.  `InitInvariant` and `NextKeepsInvariant` have one step per action.  For
the refinement the invariant says what a victim without a write-back loses:
nothing.  Each action is then shown to be the abstract action of the same name, an
eviction being a `Persist` of the victim's sector.

`PagingKernelProofs` proves, for every set of scripts and every size of the shell
memory allowed by `KernelAssumption` (sizes are numbers, a blank line ends in a
newline, a line number stands for "never loaded" that no memory reaches):

- `KernelInvariant`: the inductive invariant `KInv`;
- `KernelTypes`, `NoProcessIsLost`, `RemoveElemFinds`: `TypeOK`, `NoProcessLost` and
  `TouchFinds` of run `kernel`, for all scripts, those with commands that return 1 and with
  trailing newlines included.

The argument.  `remove_elem` dereferences what it searches for, so the list has to hold
the page: a page is touched when a line of it ran, which needs a valid line, so
`Listed` (every page with a valid line is in the list) is what has to be kept.  It is
disturbed by an eviction, which takes the tail from the list and must clear all valid
bits of that page, and by `new_proc`, whose fresh pages have none.  Its converse
`ListOK` (entries name existing pages) is needed because an eviction updates the page
table of whatever process the tail names; and an eviction needs a tail, which is
there as soon as a process was made.  `TurnOK` says how many lines a dispatched process has
left: `NoProcessLost` needs it when a turn ends, to know that a process which is
not queued again has no line left.  The lemmas follow the code's functions: `InPush`,
`InWithout` and `InTouched` for the list, `LoadsKeeps` for the loop of `load_page` that
evicts until a frame is free, then one lemma per action.

`PlainScriptProofs` proves, under the same assumptions, what the kernel does as long as
all scripts of the `exec` under way are plain; before it, other scripts may have run and
lost lines of the frame store:

- `MappingIsCoherent`, `LRUIsExact`, `ScriptsRunInOrder`: `MappingCoherent`, `LRUExact` and
  `ExecutedInOrder` of run `kernel`;
- `RunsFinishClean`: its action property `FinishIsClean`.

The argument.  `load_page` reads on in `source_file` from where it stopped, so a process
whose page was evicted before its last line had run would read other lines in its
place.  Nothing in the code asks whether the victim, the tail of the list, is still
needed.  That it never is rests on four facts, which make up `PlainInv`:

- *Order* (`OrderPlain`).  Nearer to the head than the page a process is at, there are only
  pages that are recent for their processes: the page they are at, the one before it, or
  the second page, which `PCB_init` loaded with the first.  A page moves to the head with
  each of its lines, and turns are taken round robin, so list and queue turn in step:
  `WaitPlain` relates the two for the processes that wait, `TurnPlain` for the one that
  runs.  The second page of a process is an exception: `PCB_init` put it into the list and
  nothing moves it while the first is in use, so it could come to the tail unread.  It
  does not, because a page fault needs a process that has run six lines, and while
  another is in its first page nobody is more than a turn further (`SyncPlain`, which
  rests on turns ending at even lines, `EvenPlain`).
- *Room* (`BasePlain`).  Two recent pages of one process have numbers of different parity,
  so the recent pages of all processes need at most as many frames as the pages
  `PCB_init` loaded, and it found frames for these.  `SomeNotRecent` is the
  pigeonhole: were all frames taken by recent pages, the page that is missing could not
  have had a place among the first ones.  So when no frame is free a page that is not
  recent is in the list; if the tail were a page in use, every other page would be
  nearer to the head than it, hence recent (`VictimDone`).
- *Places* (`Starts`).  The count of frames is only fixed because frames never drift:
  `frame_alloc` looks for any three free lines, but between lines that were lost, frames
  are taken from the left and given back whole, so they always start at the same
  places (`Tiling`, `FirstFitIs`, `NoFrameIs`).
- *Content* (`PagesPlain`, `OwnedPlain`, `ListPlain`, `RanPlain`).  A page is in memory with all
  its lines, or has not been read yet or is done; lines in the name of a live
  process are on its resident pages, which is why `free_PCB` finds all of them.

A page fault then loads the third page of a script or a later one, the next one in
`source_file` (`FaultStart`), and a plain line is never taken for a fault
(`ReturnOnePlain`).  `OInv` is `PlainInv` under plain scripts, together with what does not
depend on the scripts: frames belong to processes that exist or existed (`Owned`),
so a new process starts without frames.  `KInv` and `OInv` together are inductive.

`SharedPagingProofs` proves, for every frame store, every set of scripts and every
arguments of `exec` allowed by `PagingAssumption` (a script has a line; `exec` has one to
three arguments):

- `PagingInvariant`: the inductive invariant `SInv`;
- `PagingTypes`, `LivePagesAreHeld`, `NoProcessIsLost`, `UndefinedNeedsAShortPage`: all
  invariants of run `a2` but the order of lines.

The argument.  An eviction leaves the victim's page table as it was, so a table says
nothing by itself about the frame store.  What can be kept is that pages that are
*live*, still in the LRU queue or not begun, hold their lines (`Holds`).  A load takes
lines that are free or those of the head of the queue; that these are lines of no
other live page follows from `Holds` itself, because a line knows its owner.  It also
has to be shown that the indices of a page are distinct (`PageOK`), that pages are
loaded front to back, and that no page still to run has a line at the index
`last` of its process (`PcbOK`): the code finds the end of a script by comparing
indices, and a match too early would end the process before its last line.
`UndefinedNeedsShortPage` follows from the last part of `PageOK`.  `RanOK`, one line run for
each place passed, gives `NoProcessLost`.  `StateOK` takes the state as a record, because
one line of a script can start another process, which loads two pages, before the
line ends: `LoadedOK` and `NewProcessOK` are used twice in that step.

`InodeStoreProofs` proves, for every disk, any number of direct blocks and of entries a
table, and every set of names and lengths allowed by `InodeAssumption`:

- `InodeInvariant`: the inductive invariant `IInv`;
- `InodeTypes`, `FilesDisjoint`, `FilesStayMarked`, `MemoryAgrees`, `ContentIsOwn`,
  `NothingIsLost`: all invariants of run `inodes`.

The argument.  While a file grows, pointers to its blocks are in three places: on the
disk, in the inode of the open file, and in the request under way, and a table that
was filled but not written back is on the disk with fewer entries.  Comparing these
places pairwise does not give an inductive invariant.  `IInv` says instead that there
are two maps, from a sector to the inode that owns it and to its place in that
inode, and that whatever pointer is found anywhere leads to a sector of that owner
and that place: in the roots (`FilesOK`), in open files (`OpenOK`), in tables
(`TablesOK`), in the request (`JobOK`).  Two different pointers can then not lead to one
sector, which is `FilesDisjoint`.  An allocation extends the maps by a free sector
(`OwnersOK`: an owned sector is marked used), a removal forgets the sectors of one
owner, and a failed request leaves sectors owned by an inode nobody names; a freed
table keeps its entries on the disk and is harmless because it has no owner.
`LeavesOK` is what a data sector may hold.  `WalkOK` describes `inode_reserve` half way:
what was visited is there, the tables it is done with are on the disk, those it is in
the middle of have only right entries there; one of them may be without a sector
only when the disk is full and the next allocation will fail.  That exception is the
table written to sector 0, which nobody owns; so even then the files stay apart, and
only the free map's own inode is lost.  The shape of an inode comes first
(`WayFacts`, `TableFacts`, `NodeFacts`: by arithmetic with division, and no longer unfolded
after that); then lemmas that a disk which changes only owned entries keeps files as
they are (`FrameInode`, `FrameFile`), and one lemma per action.

`NothingLost` says that rm and the ends of requests keep no sector, and it speaks of
the moments between requests only.  `Accounted` is its form for every state: until a
request fails, a used sector is a system file's, or a file occupies it (`Held`), or
`inode_reserve` has visited it for the request under way (`Walked`).  `IInv` and
`Accounted` together are inductive.  All actions but `Remove` and the failing ones
satisfy `NoneForgotten`: no file and no request loses a sector, and a sector newly
marked used is one the request has visited.  When a request ends, what was visited
becomes what the new length on the disk reaches (`DoneSectors`); `Remove` releases
exactly what the file held.

`ScriptShellProofs` proves, for every number of slots and of open files, every disk, and
every set of statements, whatever words they have (`ShellAssumption` only says that
words are words):

- `ShellInvariant`: the inductive invariant `ShellInv`;
- `ShellTypes`: `TypeOK`;
- `StoresVariables`: the array of slots implements `VariableStore`, as a refinement
  under the mapping of `ScriptShell`.

The argument.  The refinement rests on one fact that the code states nowhere: two slots
never have the same name, free slots apart (`Unique`).  It is inductive because a value
goes to a new slot only when no slot has the name.  Under it `MapOf` reads the slots as a
map (`MapIs`); a slot is free exactly when fewer names than slots are stored
(`Capacity`, by the map from slots to names, a bijection when no slot is free), so the
map is full when `mem_set_value` finds no place; and what is stored under the name of the
free slots, `none`, changes no other name (`SetValueIs`).  `mem_get_value` reads the map
(`GetValueIs`).  Every other command leaves the map alone, whatever an `if` or a script
makes of its words, because the words only have to be a sequence (`ChooseStep`,
`ScriptStep`).  `VariableStore` says nothing of fairness, so the refinement is one of
safety.

`FoldFacts` proves what the folds of the community modules compute, for a step `Op` that
is a parameter of the module.  The provers cannot use a theorem of induction, because
it has an operator for a parameter; but that a set of numbers that is not empty
has a least element is a fact about sets.  `CountingUp` and `FoldExists` use it as the
argument of a least counterexample.  `FoldSteps` then gives, for a fold over a sequence,
the chain of values it goes through, and `FoldOfSet`, for a fold over a set, its value from
any function that takes the same steps in every order.

`OpenFilesProofs` proves, for every number and size of sectors, every set of names, texts,
host's files and sizes allowed by `FilesAssumption` (a sector holds a byte; there is a
sector besides the two system ones; `Gap` is at least two; a text is not empty and has no zero in it; sizes are
within `MaxLength`):

- `Ordered`: the inductive invariant `IInv`;
- `TypeCorrect`, `HandlesStayAlive`, `FilesEndInNul`, `PastEndStaysZero`: `TypeOK`, `HandlesLive`,
  `EndsInNul` and `PastEndZero` of run `files`;
- `Implements`: `OpenFiles` implements `FileStore`, as a refinement under the mapping of
  `OpenFiles`;
- `RecoverFinds`: `RecoverFindsRemoved`, if no user takes a name that `recover(0)` gives
  (`OwnNames`);
- `Compacts`: `DefragmentCompacts`.

The argument.  Each command is a composition of operators on states, and `IInv` says that
the state is `Good`, so there is a lemma for each operator that `Good` survives it
(`OpenedKeeps`, `MovedKeeps`, `ClosedKeeps`, `CreatedKeeps`, `WriteAtIs`, `GoneKeeps`, `RelinkedKeeps`,
`DropsKeeps`), one for each chain of them over all files (`ReadAllKeeps`, `OpenAllKeeps`,
`GoneAllKeeps`, `RecreatesKeeps`, `RecoverKeeps`), and one for each action.  `Good` consists of:

- `Named`: no name is twice in the directory and no two names lead to one inode sector,
  without which the first slot `lookup` finds would not be the file's;
- `Kinds`: the inode sector of a file holds an inode, and the inode in memory is that one
  or, after `inode_reserve` failed half way, has more blocks (`Shrinks`); so a close that
  writes nothing, and a restart, lose no byte;
- `Held`, `Owners`, `Spare`: how the file table and the inodes in memory correspond; `Spare` is
  about the inodes `recover(0)` leaves open;
- `Strays`: a file whose inode sector is free got its name from `recover(0)`, so no name
  a user can type leads there;
- `Apart`: the blocks of a file are allocated, different, none of another file and none an
  inode sector; an allocation takes free sectors, hence none of anyone's;
- `Zeroed`: from its last byte on, a file's sectors are zero.  `EndsInNul` and `PastEndZero` are
  two parts of it, and neither is inductive alone: an extension moves the end over what
  lay behind it, and the last byte of the new end is zero because `inode_reserve` blanks
  new sectors, what lay behind the old end was zero, and `file_write` ends in zeros (`ExtendedEnd`, `WrittenEnd`).

Files whose inode sector is free (`Kept` leaves them out) may share sectors, so a command
that allocates or removes is only followed from a `Clean` state, which is what `Settled` says.
`Alive`, that the inodes of open files outside `freed` are in memory, is kept beside `Good`
because it speaks of `freed`.

The refinement.  The lemmas that say that an operator keeps `Good` also say what it does to the bytes
of every file: it has the same sectors with the same bytes in them (`FrameContents`), or
is the file written to, and then holds what `FileStore`'s `Spliced` says, through an extension
that blanks the new sectors and fails half way or not (`SplicedIs`, `ExtendedBytes`).
So there is one lemma for each command, from `SizeRefines` to `DefragmentRefines`, and `NextRefines` puts
them together.  Two of them need more than that:

- `WroteRefines`: a write on a full disk is a `Refuse` only because an allocation that fails
  leaves the length alone, although the blocks it took stay with the inode in memory;
- `DefragmentRefines`: every file is there again, with its length, so there must be room for
  each of them once all are removed.  The sectors of the files that were there are apart
  (`RegionsApart`) and are all free again after the removals, so they number as many as the files
  need (`SpacesNext`); making a file takes exactly its share (`CreatedRoom`), and what is left
  is enough for those that follow (`RemadeMore`).

`FileStore` says nothing of fairness, so this too is a refinement of safety.

What `recover(0)` finds.  `RecoverFindsRemoved` compares bytes with those a file had when it
was removed, some commands earlier, so it needs an invariant of its own, `RInv`: for every
file in `removed`, the sector of its inode and the sectors its length reaches are
free, and still hold that inode and those bytes (`Traced`); and a name that `recover(0)`
gives leads to the sector in it (`Found`).  A command that allocates nothing writes to
sectors that are in use only (`FrameUnwritten`, and one lemma
...`Unwritten` or ...`Traces` for each command); one that allocates empties `removed`.
`Found` is why `OwnNames` is needed: a user who creates a file `recovered0-5` keeps sector 5 from
being linked.

What `defragment` achieves.  `NothingLost` says that all used sectors are the system's or those
`rm` would release.  Under it the removals leave only the system's sectors in use, so what is
free then is one run of sectors; each file takes the lowest of them for its
inode and its blocks, and what is left is again all sectors from some number on (`Packed`).  So the
blocks of a file follow each other, a distance of one, and `Gap` is at least two.

Only model-checked:

- `ExecutedInOrder` of `a2`.  There a page that was evicted keeps its page table, and which
  lines its process then reads depends on how far the queue of pages has turned
  since: an invariant of the kind of `PlainInv` for that kernel, with its two ways of
  loading pages and its commands that load pages in the middle of a turn, is left;
- `IfRunsBranch` of `ScriptShell`: the branch that is meant is defined by recursion over
  statements, which needs an induction over data, too;
- every liveness property, because they depend on fairness.

## Not modelled

- Printing and formatting; the splitting of a line into commands and words (its
  `strtok` state, by which a command that runs a script loses the rest of the
  line); overflow of fixed text buffers; exhaustion of memory; `system("cp ...")` of
  the backing store.
- Assignment 3: scripts that start scripts, after which the outer `run_proc_RR` works in
  freed memory; `run_proc_FIFO`, `file_reopen`, `file_deny_write` and other code that
  nothing calls; directories other than the root, which no command makes; names
  written as paths except in `cat`; the deferred removal of inodes, which no
  command reaches; `recover(1)` and what `recover(2)` prints, which only write files of
  the host; the statistics of the block device; `partition.c`, `list.c`.
- Assignment 2: the variables; SJF, AGING and RR30, which `exec` cannot select.
- Assignment 1: the commands that only act on the host's directories.
- Behaviour after an access that is undefined in C, where it is named above.
