---------------------------- MODULE PagingKernel ----------------------------
(***************************************************************************)
(* The demand-paged kernel of assignment 3: `exec` and `run` at the prompt *)
(* (a3/interpreter.c), processes and their pages (a3/pcb.c, a3/cpu.c), the *)
(* round-robin scheduler with its LRU list (a3/kernel.c, a3/linked_list.c) *)
(* and the shell memory that holds frames and variables                    *)
(* (a3/shellmemory.c).                                                     *)
(*                                                                         *)
(* A script is the sequence of its lines, each known by what matters to    *)
(* the kernel: "ok" (the command returns something else than 1), "one" (it *)
(* returns 1, as a successful `rm` does) or "blank" (an empty line); and   *)
(* whether the last line ends in a newline.  A line in memory is <<pid,    *)
(* number>>.  Scripts that start other scripts are left out.               *)
(***************************************************************************)
EXTENDS Integers, Sequences, FiniteSets

CONSTANTS FrameStoreSize,  \* FRAME_STORE_SIZE
          VarStoreSize,    \* VAR_STORE_SIZE
          Script,          \* the scripts a user can name
          MaxPid,          \* bound: processes one shell creates
          Var, Value,      \* names and values of shell variables
          None             \* "none", in a key or a value of the shell memory

(* Three lines a page. *)
Offset == 0 .. 2

(* The index of a page that was never loaded. *)
NeverLoaded == 1000

Frames   == 0 .. FrameStoreSize - 1
VarZone  == FrameStoreSize .. FrameStoreSize + VarStoreSize - 1
Position == Frames \cup VarZone
Pid      == 1 .. MaxPid

Terminated(s, n) == n < Len(s.lines) \/ s.newline

ASSUME KernelAssumption ==
  /\ FrameStoreSize \in Nat /\ VarStoreSize \in Nat /\ MaxPid \in Nat
  /\ FrameStoreSize + VarStoreSize <= NeverLoaded
  /\ \A s \in Script :
       /\ s.lines \in Seq({"ok", "one", "blank"}) /\ s.newline \in BOOLEAN
       /\ \A n \in 1 .. Len(s.lines) : s.lines[n] = "blank" => Terminated(s, n)
  /\ Pid \cap Var = {} /\ None \notin Pid \cup Var \cup Value

VARIABLES mem,       \* shellmemory
          pcbs,      \* ALL_PCB: pid -> struct PCB
          queue,     \* QUEUE, as pids
          lru,       \* LRU_CACHE, as <<pid, page number>>; the head is the newest
          nextPid,   \* PID_counter
          loading,   \* the scripts of this exec still to become processes
          cpu,       \* the turn of the process that was popped, or Idle
          phase,     \* "prompt", "loading" (new_proc) or "running" (run_proc_RR)
          executed   \* history: pid -> the lines it executed

vars == <<mem, pcbs, queue, lru, nextPid, loading, cpu, phase, executed>>

Idle == [pid |-> 0, left |-> 0, requeue |-> FALSE]

FreeLine == [var |-> None, value |-> None]

-----------------------------------------------------------------------------
(* pcb.c: the size and the pages of a process.                             *)

(* count_lines: newlines that follow something else than a newline, and    *)
(* one more for a last line without one.                                   *)
CountLines(s) ==
  Cardinality({n \in 1 .. Len(s.lines) : s.lines[n] # "blank" /\ Terminated(s, n)}) + 1

PageTableSize(lines) == IF lines % 3 = 0 THEN lines \div 3 ELSE lines \div 3 + 1

UnloadedPage == [index |-> [j \in Offset |-> NeverLoaded],
                 valid |-> [j \in Offset |-> FALSE], pc |-> 0]

(* fpos is the number of lines fgets has taken from source_file. *)
FreshPcb(s) ==
  [script |-> s, size |-> CountLines(s), fpos |-> 0,
   pages |-> [i \in 0 .. PageTableSize(CountLines(s)) - 1 |-> UnloadedPage]]

(* frame_alloc takes the first three free lines in a row. *)
\* Mutant of Fits: the last line of the frame is not checked against the border.
FitsPastBorder(m, k) ==
  k \in 0 .. FrameStoreSize - 2 /\ \A j \in Offset : m[k + j].var = None

Fits(m, k) == k \in 0 .. FrameStoreSize - 3 /\ \A j \in Offset : m[k + j].var = None

FirstFit(m, k) == Fits(m, k) /\ \A h \in 0 .. k - 1 : ~Fits(m, h)

NoFrame(m) == \A k \in Frames : ~Fits(m, k)

(* load_PAGE, and the loop of PCB_init, into frame k: every line of the    *)
(* frame is taken, and those that fgets could still fill become valid.     *)
Reads(pcb, j) == pcb.fpos + j + 1 <= Len(pcb.script.lines)

\* Mutant of LoadedPcb: every page is read from the front of the file.
LoadedPcbRewound(pcb, i, k) ==
  [pcb EXCEPT !.pages[i].index = [j \in Offset |-> k + j],
              !.pages[i].valid = [j \in Offset |-> Reads(pcb, j)]]

LoadedPcb(pcb, i, k) ==
  [pcb EXCEPT !.pages[i].index = [j \in Offset |-> k + j],
              !.pages[i].valid = [j \in Offset |-> Reads(pcb, j)],
              !.fpos = IF Reads(pcb, 2) THEN @ + 3 ELSE Len(pcb.script.lines)]

LoadedMem(m, p, pcb, k) ==
  [x \in Position |->
     IF x \in k .. k + 2
     THEN [var |-> p,
           value |-> IF Reads(pcb, x - k) THEN <<p, pcb.fpos + x - k + 1>> ELSE m[x].value]
     ELSE m[x]]

(* PAGE_evict frees the lines the page has, and forgets them. *)
\* Mutant of EvictedMem: a frame is cleared from every line, as in free_PCB.
EvictedMemFrames(m, page) ==
  [x \in Position |-> IF \E j, d \in Offset : page.index[j] + d = x THEN FreeLine ELSE m[x]]

EvictedMem(m, page) ==
  [x \in Position |-> IF \E j \in Offset : page.index[j] = x THEN FreeLine ELSE m[x]]

EvictedPage(page) ==
  [page EXCEPT !.index = [j \in Offset |-> 0], !.valid = [j \in Offset |-> FALSE]]

-----------------------------------------------------------------------------
(* A shell that has just started: main, mem_init and kernel_setup. *)
Fresh(m, ps, q, l, n, w, c, f, e) ==
  /\ m = [x \in Position |-> FreeLine]
  /\ ps = <<>> /\ q = <<>> /\ l = <<>> /\ n = 1
  /\ w = <<>> /\ c = Idle /\ f = "prompt" /\ e = <<>>

Init == Fresh(mem, pcbs, queue, lru, nextPid, loading, cpu, phase, executed)

(* The process ends and the user starts the shell again. *)
Restarted == Fresh(mem', pcbs', queue', lru', nextPid', loading', cpu', phase', executed')

Quit == phase = "prompt" /\ Restarted

(* set: mem_set_value changes the first line of that name, or takes the    *)
(* first free one of the variable zone, or does nothing.                   *)
Named(x, v) == x \in VarZone /\ mem[x].var = v

Set(v, d) ==
  /\ phase = "prompt"
  /\ LET Store(x) == mem' = [mem EXCEPT ![x] = [var |-> v, value |-> d]]
         First(x, name) == Named(x, name) /\ \A y \in FrameStoreSize .. x - 1 : ~Named(y, name)
         Missing(name) == \A x \in VarZone : ~Named(x, name)
     IN \/ \E x \in VarZone : First(x, v) /\ Store(x)
        \/ Missing(v) /\ \E x \in VarZone : First(x, None) /\ Store(x)
        \/ Missing(v) /\ Missing(None) /\ UNCHANGED mem
  /\ UNCHANGED <<pcbs, queue, lru, nextPid, loading, cpu, phase, executed>>

ResetMem ==
  /\ phase = "prompt"
  /\ mem' = [x \in Position |-> IF x \in VarZone THEN FreeLine ELSE mem[x]]
  /\ UNCHANGED <<pcbs, queue, lru, nextPid, loading, cpu, phase, executed>>

(* exec takes one to three scripts; run is exec of one. *)
Exec(scripts) ==
  /\ phase = "prompt"
  /\ nextPid + Len(scripts) - 1 <= MaxPid
  /\ loading' = scripts
  /\ phase' = "loading"
  /\ UNCHANGED <<mem, pcbs, queue, lru, nextPid, cpu, executed>>

-----------------------------------------------------------------------------
(* new_proc: the process joins ALL_PCB and QUEUE, and the pages PCB_init   *)
(* loaded, at most two, go to the head of the LRU list one after the       *)
(* other.                                                                  *)
\* Mutant of LoadedFirst: only the first page enters the list.
LoadedFirstOne(p, n) == <<<<p, 0>>>>

LoadedFirst(p, n) == IF n = 1 THEN <<<<p, 0>>>> ELSE <<<<p, 1>>, <<p, 0>>>>

Admit(pcb, m) ==
  /\ mem' = m
  /\ pcbs' = [p \in DOMAIN pcbs \cup {nextPid} |-> IF p = nextPid THEN pcb ELSE pcbs[p]]
  /\ queue' = Append(queue, nextPid)
  /\ lru' = LoadedFirst(nextPid, Cardinality(DOMAIN pcb.pages)) \o lru
  /\ executed' = [p \in DOMAIN executed \cup {nextPid} |->
                    IF p = nextPid THEN <<>> ELSE executed[p]]
  /\ nextPid' = nextPid + 1
  /\ loading' = Tail(loading)
  /\ phase' = IF Len(loading) = 1 THEN "running" ELSE "loading"
  /\ UNCHANGED cpu

(* PCB_init ends the shell with exit(99) when a page finds no frame. *)
NewProc ==
  /\ phase = "loading"
  /\ LET pcb == FreshPcb(Head(loading))
         Frame(k) == LoadedMem(mem, nextPid, pcb, k)
         FirstPage(k) == LoadedPcb(pcb, 0, k)
     IN \/ NoFrame(mem) /\ Restarted
        \/ \E k \in Frames :
             /\ FirstFit(mem, k)
             /\ \/ DOMAIN pcb.pages = {0} /\ Admit(FirstPage(k), Frame(k))
                \/ /\ DOMAIN pcb.pages # {0}
                   /\ NoFrame(Frame(k))
                   /\ Restarted
                \/ /\ DOMAIN pcb.pages # {0}
                   /\ \E h \in Frames :
                        /\ FirstFit(Frame(k), h)
                        /\ Admit(LoadedPcb(FirstPage(k), 1, h),
                                 LoadedMem(Frame(k), nextPid, FirstPage(k), h))

-----------------------------------------------------------------------------
(* run_proc_RR.                                                            *)

PcbDone(p) == \A i \in DOMAIN pcbs[p].pages : pcbs[p].pages[i].pc = 3

QueueDone == \A n \in 1 .. Len(queue) : PcbDone(queue[n])

(* The head of the queue gets two lines if it has more than one left, and  *)
(* comes back then; one line if it has one left; nothing if it has none.   *)
Dispatch ==
  /\ phase = "running" /\ cpu = Idle /\ ~QueueDone
  /\ queue' = Tail(queue)
  /\ LET p == Head(queue)
         size == pcbs[p].size
     IN cpu' = IF size > 1 THEN [pid |-> p, left |-> 2, requeue |-> TRUE]
               ELSE IF size = 1 THEN [pid |-> p, left |-> 1, requeue |-> FALSE]
               ELSE Idle
  /\ UNCHANGED <<mem, pcbs, lru, nextPid, loading, phase, executed>>

(* The page to run is the first whose program counter is not 3. *)
Current(p, i) ==
  /\ i \in DOMAIN pcbs[p].pages /\ pcbs[p].pages[i].pc # 3
  /\ \A h \in 0 .. i - 1 : pcbs[p].pages[h].pc = 3

ValidHere(p, i) == pcbs[p].pages[i].valid[pcbs[p].pages[i].pc]

(* The line in memory there, what it returns (a freed line holds "none",   *)
(* which is no command), and the process after it.                         *)
LineAt(p, i) == mem[pcbs[p].pages[i].index[pcbs[p].pages[i].pc]].value

ReturnsOne(line) == line # None /\ pcbs[line[1]].script.lines[line[2]] = "one"

Advanced(p, i) == [pcbs[p] EXCEPT !.pages[i].pc = @ + 1, !.size = @ - 1]

Record(p, i) == executed' = [executed EXCEPT ![p] = Append(@, LineAt(p, i))]

(* PAGE_equal compares where pages start; remove_elem takes the first page *)
(* in the list that starts where page i does.                              *)
StartOf(e) == pcbs[e[1]].pages[e[2]].index[0]

Entry(n, p, i) ==
  /\ StartOf(lru[n]) = StartOf(<<p, i>>)
  /\ \A m \in 1 .. n - 1 : StartOf(lru[m]) # StartOf(<<p, i>>)

\* Mutant of Touched: the page is added at the head and not removed.
TouchedTwice(n) == <<lru[n]>> \o lru

Touched(n) == <<lru[n]>> \o SubSeq(lru, 1, n - 1) \o SubSeq(lru, n + 1, Len(lru))

(* After a turn's last line a process that had more than one comes back.   *)
\* Mutant of EndLine: it only comes back while it has more than one line.
EndLineIfMore(p) ==
  IF cpu.left = 1
  THEN /\ cpu' = Idle
       /\ queue' = IF pcbs[p].size > 2 THEN Append(queue, p) ELSE queue
  ELSE cpu' = [cpu EXCEPT !.left = @ - 1] /\ UNCHANGED queue

EndLine(p) ==
  IF cpu.left = 1
  THEN /\ cpu' = Idle
       /\ queue' = IF cpu.requeue THEN Append(queue, p) ELSE queue
  ELSE cpu' = [cpu EXCEPT !.left = @ - 1] /\ UNCHANGED queue

(* run_proc when the line is in memory and does not return 1. *)
RunLine ==
  /\ phase = "running" /\ cpu # Idle
  /\ LET p == cpu.pid IN
     \E i \in DOMAIN pcbs[p].pages :
       /\ Current(p, i) /\ ValidHere(p, i) /\ ~ReturnsOne(LineAt(p, i))
       /\ \E n \in 1 .. Len(lru) : Entry(n, p, i) /\ lru' = Touched(n)
       /\ pcbs' = [pcbs EXCEPT ![p] = Advanced(p, i)]
       /\ Record(p, i)
       /\ EndLine(p)
  /\ UNCHANGED <<mem, nextPid, loading, phase>>

(* load_PAGE, for process p with its state pcb, from memory m and processes *)
(* ps, and what run_proc does after it: the page goes to the head of the    *)
(* list, the process to the tail of the queue, and its turn is over.        *)
Loads(p, i, ps, m, list) ==
  /\ \/ \E k \in Frames :
          /\ FirstFit(m, k)
          /\ mem' = LoadedMem(m, p, ps[p], k)
          /\ pcbs' = [ps EXCEPT ![p] = LoadedPcb(ps[p], i, k)]
     \/ NoFrame(m) /\ mem' = m /\ pcbs' = ps
  /\ lru' = <<<<p, i>>>> \o list
  /\ queue' = Append(queue, p)
  /\ cpu' = Idle

(* The victim is the tail of the list. *)
\* Mutant of VictimAt: the victim is the head of the list.
VictimAtHead == 1

VictimAt == Len(lru)

(* run_proc after cpu_run answered 1. *)
Fault(p, i, ps) ==
  \/ ~NoFrame(mem) /\ Loads(p, i, ps, mem, lru)
  \/ /\ NoFrame(mem)
     /\ LET v == lru[VictimAt]
            page == ps[v[1]].pages[v[2]]
        IN Loads(p, i, [ps EXCEPT ![v[1]].pages[v[2]] = EvictedPage(page)],
                 EvictedMem(mem, page),
                 SubSeq(lru, 1, VictimAt - 1) \o SubSeq(lru, VictimAt + 1, Len(lru)))

PageFault ==
  /\ phase = "running" /\ cpu # Idle
  /\ \E i \in DOMAIN pcbs[cpu.pid].pages :
       /\ Current(cpu.pid, i) /\ ~ValidHere(cpu.pid, i)
       /\ Fault(cpu.pid, i, pcbs)
  /\ UNCHANGED <<nextPid, loading, phase, executed>>

(* A command that returned 1 is taken for a page fault. *)
ReturnOne ==
  /\ phase = "running" /\ cpu # Idle
  /\ LET p == cpu.pid IN
     \E i \in DOMAIN pcbs[p].pages :
       /\ Current(p, i) /\ ValidHere(p, i) /\ ReturnsOne(LineAt(p, i))
       /\ Record(p, i)
       /\ Fault(p, i, [pcbs EXCEPT ![p] = Advanced(p, i)])
  /\ UNCHANGED <<nextPid, loading, phase>>

(* free_PCB calls clear_frame, which clears three lines, once for each of  *)
(* the three lines of a page.                                              *)
\* Mutant of Cleared: the first page of each process only.
ClearedFirst(p) ==
  {pcbs[p].pages[i].index[j] + d : i \in {0}, j \in Offset, d \in Offset}

Cleared(p) ==
  {pcbs[p].pages[i].index[j] + d : i \in DOMAIN pcbs[p].pages, j \in Offset, d \in Offset}

(* The loop ends: every process is freed and the three lists are emptied.  *)
Finish ==
  /\ phase = "running" /\ cpu = Idle /\ QueueDone
  /\ mem' = [x \in Position |->
               IF \E p \in DOMAIN pcbs : x \in Cleared(p) THEN FreeLine ELSE mem[x]]
  /\ pcbs' = <<>> /\ queue' = <<>> /\ lru' = <<>> /\ executed' = <<>>
  /\ phase' = "prompt"
  /\ UNCHANGED <<nextPid, loading, cpu>>

Kernel == NewProc \/ Dispatch \/ RunLine \/ PageFault \/ ReturnOne \/ Finish

Command ==
  \/ \E v \in Var, d \in Value : Set(v, d)
  \/ ResetMem
  \/ \E n \in 1 .. 3 : \E scripts \in [1 .. n -> Script] : Exec(scripts)
  \/ Quit

Next == Kernel \/ Command

(* The kernel is a loop that nothing interrupts. *)
Spec == Init /\ [][Next]_vars /\ WF_vars(Kernel)

-----------------------------------------------------------------------------
(* The types of the kernel's data; a page's lines lie inside the frame     *)
(* store, or it has the index it started with.                             *)
TypeOK ==
  /\ \A x \in Position : mem[x].var \in Pid \cup Var \cup {None}
  /\ DOMAIN pcbs \subseteq Pid /\ DOMAIN executed = DOMAIN pcbs
  /\ \A p \in DOMAIN pcbs :
       /\ pcbs[p].size \in Nat
       /\ \A i \in DOMAIN pcbs[p].pages :
            /\ pcbs[p].pages[i].index \in [Offset -> Frames \cup {NeverLoaded}]
            /\ pcbs[p].pages[i].valid \in [Offset -> BOOLEAN]
            /\ pcbs[p].pages[i].pc \in 0 .. 3
  /\ \A n \in 1 .. Len(queue) : queue[n] \in DOMAIN pcbs
  /\ \A n \in 1 .. Len(lru) : lru[n][1] \in DOMAIN pcbs
  /\ nextPid \in 1 .. MaxPid + 1
  /\ cpu.pid \in DOMAIN pcbs \cup {0} /\ cpu.left \in 0 .. 2
  /\ phase \in {"prompt", "loading", "running"}

(* What the kernel is written for: no blank line, no newline after the     *)
(* last line, and no command that returns 1.                               *)
Plain(s) == s.lines # <<>> /\ ~s.newline /\ \A n \in 1 .. Len(s.lines) : s.lines[n] = "ok"

AllPlain == \A p \in DOMAIN pcbs : Plain(pcbs[p].script)

Resident(p, i) == pcbs[p].pages[i].index[0] # NeverLoaded
                  /\ \E j \in Offset : pcbs[p].pages[i].valid[j]

(* The page tables and the frames agree: a valid entry leads to the line   *)
(* of the script that belongs there, under the owner's name.  The pages    *)
(* are read from source_file front to back, so a page evicted before it    *)
(* was used up, or loaded twice, would break this for all that follow.     *)
MappingCoherent ==
  AllPlain =>
    \A p \in DOMAIN pcbs : \A i \in DOMAIN pcbs[p].pages : \A j \in Offset :
      pcbs[p].pages[i].valid[j]
        => mem[pcbs[p].pages[i].index[j]] = [var |-> p, value |-> <<p, 3 * i + j + 1>>]

(* The LRU list names each resident page once, and no other page.          *)
LRUExact ==
  AllPlain =>
    /\ \A n, m \in 1 .. Len(lru) : lru[n] = lru[m] => n = m
    /\ \A p \in DOMAIN pcbs : \A i \in DOMAIN pcbs[p].pages :
         Resident(p, i) <=> \E n \in 1 .. Len(lru) : lru[n] = <<p, i>>

(* A page whose line is about to run is in the LRU list, so remove_elem    *)
(* never walks past the end of it, whatever the scripts are.               *)
TouchFinds ==
  \A p \in DOMAIN pcbs : \A i \in DOMAIN pcbs[p].pages :
    cpu.pid = p /\ Current(p, i) /\ ValidHere(p, i) => \E n \in 1 .. Len(lru) : lru[n] = <<p, i>>

(* A process that still has lines to run waits in the queue once or has    *)
(* the processor; the one on the processor is not in the queue as well.    *)
NoProcessLost ==
  /\ \A n, m \in 1 .. Len(queue) : queue[n] = queue[m] => n = m
  /\ \A p \in DOMAIN pcbs :
       LET waits == \E n \in 1 .. Len(queue) : queue[n] = p
       IN /\ pcbs[p].size > 0 => waits \/ cpu.pid = p
          /\ ~(waits /\ cpu.pid = p)

(* The lines of a script run in the order they are written in.             *)
InOrder(p) == executed[p] = [n \in 1 .. Len(executed[p]) |-> <<p, n>>]

ExecutedInOrder == AllPlain => \A p \in DOMAIN pcbs : InOrder(p)

(* When exec returns, every line of every script has run, and no frame is  *)
(* left in the name of its process.                                        *)
FinishIsClean ==
  [][phase = "running" /\ phase' = "prompt" /\ pcbs # <<>> /\ AllPlain =>
       \A p \in DOMAIN pcbs :
         /\ Len(executed[p]) = Len(pcbs[p].script.lines)
         /\ \A x \in Frames : mem'[x].var # p]_vars

(* exec of plain scripts comes back to the prompt. *)
Terminates == (phase = "running" /\ AllPlain) ~> phase = "prompt"

-----------------------------------------------------------------------------
(* interpreter.c:355 and kernel.c:30: exec executes the files, a line at a *)
(* time, whatever commands are in them.                                    *)
EveryScriptInOrder == \A p \in DOMAIN pcbs : InOrder(p)

(* interpreter.c:354: run executes the file, and then the prompt is back.  *)
RunReturns == phase = "running" ~> phase = "prompt"

(* shellmemory.c:12-13: the zone above FRAME_STORE_SIZE is reserved for    *)
(* variables, so the kernel's own steps leave it alone.                    *)
VariablesKept ==
  [][phase = "running" /\ pcbs # <<>> => \A x \in VarZone : mem'[x] = mem[x]]_vars
=============================================================================
