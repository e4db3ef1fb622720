---------------------------- MODULE SharedPaging ----------------------------
(***************************************************************************)
(* The shell of assignment 2: `run` and `exec` (a2/interpreter.c), the     *)
(* processes and their pages (a2/kernel.c, a2/pcb.c), the ready queue      *)
(* (a2/ready_queue.c) and the frame store with its eviction                *)
(* (a2/shellmemory.c).                                                     *)
(*                                                                         *)
(* Here an evicted page stays in its owner's page table, and nothing is    *)
(* freed when a process ends: that a process runs its own lines rests on   *)
(* the order in which pages are evicted.                                   *)
(*                                                                         *)
(* A script is its lines and whether the last one ends in a newline.  A    *)
(* line is "plain", "quit", or the name of the script that it runs.  A     *)
(* line in memory is known by its process and its number.                  *)
(***************************************************************************)
EXTENDS Integers, FiniteSets, FiniteSetsExt, SequencesExt, Functions

CONSTANTS FrameStoreSize,  \* FRAME_STORE_SIZE
          Script,          \* script name -> [lines, newline]
          Missing,         \* a name without a file
          Execs,           \* bound: the arguments of exec, at most three names
          MaxPrompt        \* bound: processes there may be for a command to be given

Name == DOMAIN Script
Frames == 0 .. FrameStoreSize - 1
Offset == 0 .. 2
Quantum == 2

ASSUME PagingAssumption ==
  /\ FrameStoreSize \in Nat /\ MaxPrompt \in Nat
  /\ Missing \notin Name
  /\ {"plain", "quit"} \cap (Name \cup {Missing}) = {}
  /\ \A f \in Name :
       /\ Script[f].newline \in BOOLEAN
       /\ Script[f].lines \in Seq({"plain", "quit", Missing} \cup Name) \ {<<>>}
  /\ \A e \in Execs : e \in Seq(Name \cup {Missing}) /\ Len(e) \in 1 .. 3

VARIABLES lines,    \* the frame store: a line of a process, or Free
          procs,    \* the PCBs: pid -> PCB, those of ended processes included
          queue,    \* the ready queue, as pids
          lru,      \* the LRU queue, as [pid, page]; the head is the victim
          fate,     \* "alive", "ended", "crashed", or "undefined" in C
          policy,   \* "prompt", or the policy that run or exec asks for
          loading,  \* the names that are still to become processes
          running,  \* the process that was popped, or 0
          left,     \* the lines it may still run in this turn
          ran       \* history: pid -> the lines it ran, up to one more than it has

vars == <<lines, procs, queue, lru, fate, policy, loading, running, left, ran>>

Now == [lines |-> lines, procs |-> procs, queue |-> queue, lru |-> lru, fate |-> fate]

Becomes(s) ==
  /\ lines' = s.lines /\ procs' = s.procs /\ queue' = s.queue
  /\ lru' = s.lru /\ fate' = s.fate

-----------------------------------------------------------------------------
Free == [pid |-> 0, n |-> 0]
Line(p, n) == [pid |-> p, n |-> n]
Filling(p) == Line(p, 0)

NoPage == <<>>
NoIndex == -1

(* After a newline at the end of the file, fgets meets the end and leaves  *)
(* the last line in the buffer, which is loaded once more.  count_lines    *)
(* counts the same.                                                        *)
Loads(f) == LET s == Script[f] IN IF s.newline THEN Append(s.lines, Last(s.lines)) ELSE s.lines
LineCount(f) == Len(Loads(f))

(* makePCB and page_table_init.                                            *)
\* Mutant of Pcb: the page table has no entry for a short last page.
PcbShort(f) ==
  [script |-> f, page |-> 0, line |-> 0, loaded |-> 0, last |-> NoIndex, lastPage |-> -1,
   table |-> [i \in 0 .. LineCount(f) \div 3 - 1 |-> NoPage]]

Pcb(f) ==
  [script |-> f, page |-> 0, line |-> 0, loaded |-> 0, last |-> NoIndex, lastPage |-> -1,
   table |-> [i \in 0 .. LineCount(f) \div 3 |-> NoPage]]

(* allocate_frame, for the three lines of a page: the free lines, lowest   *)
(* first, as far as three are there; when there are none left, the lines   *)
(* of the page at the head of the LRU queue are freed, and the one of its  *)
(* first index is taken.                                                   *)
FreeLines(s) ==
  LET free == {i \in Frames : s.lines[i] = Free}
      a == Min(free)
      b == Min(free \ {a})
      c == Min(free \ {a, b})
  IN IF free = {} THEN <<>>
     ELSE IF free = {a} THEN <<a>>
     ELSE IF free = {a, b} THEN <<a, b>> ELSE <<a, b, c>>
Evicts(s) == Len(FreeLines(s)) < 3
Victim(s) == s.procs[Head(s.lru).pid].table[Head(s.lru).page]
InOrder(index) == <<index[0], Min({index[1], index[2]}), Max({index[1], index[2]})>>
Taken(s) == IF Evicts(s) THEN FreeLines(s) \o InOrder(Victim(s)) ELSE FreeLines(s)
Freed(s) == IF Evicts(s) THEN Range(Victim(s)) ELSE {}

(* Without a victim the code reads through NULL; a victim with an index    *)
(* that is none, or with a line that is free, is undefined.                *)
Outcome(s) ==
  IF ~Evicts(s) THEN s.fate
  ELSE IF s.lru = <<>> THEN "crashed"
  ELSE IF \E i \in Range(Victim(s)) : i = NoIndex \/ s.lines[i] = Free THEN "undefined"
  ELSE s.fate

(* LRU_queue_pop_head.                                                     *)
\* Mutant of Popped: the victim stays in the LRU queue.
PoppedNot(s) == s.lru
Popped(s) == IF Evicts(s) THEN Tail(s.lru) ELSE s.lru

(* The next page of a script is loaded.  The last line makes the index and *)
(* the page of the end known.  When the page is short, more lines are      *)
(* taken to fill it: by load_pages_to_memory with copies of the last line, *)
(* over whose indices it writes -1, by load_missing_page_to_mem with empty *)
(* lines.                                                                  *)
LoadedTo(pcb) == Min({pcb.loaded + 3, LineCount(pcb.script)})

LoadedLines(s, p, initial) ==
  LET pcb == s.procs[p]
      n == LoadedTo(pcb)
      at == Taken(s)
      Text(j) == IF pcb.loaded + j <= n THEN Line(p, pcb.loaded + j)
                 ELSE IF initial THEN Line(p, n) ELSE Filling(p)
  IN [i \in Frames |->
        IF \E j \in 1 .. 3 : at[j] = i THEN Text(CHOOSE j \in 1 .. 3 : at[j] = i)
        ELSE IF i \in Freed(s) THEN Free ELSE s.lines[i]]

LoadedPcb(pcb, at, initial) ==
  LET page == pcb.loaded \div 3
      n == LoadedTo(pcb)
      end == n = LineCount(pcb.script)
  IN [pcb EXCEPT
       !.table[page] =
         [j \in Offset |-> IF initial /\ pcb.loaded + j + 1 > n THEN NoIndex ELSE at[j + 1]],
       !.loaded = n,
       !.last = IF end THEN at[n - pcb.loaded] ELSE @,
       !.lastPage = IF end THEN page ELSE @]

Loaded(s, p, initial) ==
  IF Outcome(s) # "alive" THEN [s EXCEPT !.fate = Outcome(s)]
  ELSE [s EXCEPT !.lines = LoadedLines(s, p, initial),
                 !.lru = Popped(s),
                 !.procs[p] = LoadedPcb(@, Taken(s), initial)]

(* process_initialize loads two pages.                                     *)
NewProcess(s, f) ==
  LET p == Len(s.procs) + 1
      made == [s EXCEPT !.procs = Append(@, Pcb(f)), !.queue = Append(@, p)]
      one == Loaded(made, p, TRUE)
  IN IF LineCount(f) <= 3 THEN one ELSE Loaded(one, p, TRUE)

(* load_missing_page_to_mem.                                               *)
\* Mutant of NextPage: -1 is written over the indices here too.
NextPageInitial(s, p) == Loaded(s, p, TRUE)
NextPage(s, p) == Loaded(s, p, FALSE)

-----------------------------------------------------------------------------
(* mem_init, and no process yet.                                           *)
Init ==
  /\ lines = [i \in Frames |-> Free]
  /\ procs = <<>> /\ queue = <<>> /\ lru = <<>> /\ fate = "alive"
  /\ policy = "prompt" /\ loading = <<>> /\ running = 0 /\ left = 0 /\ ran = <<>>

Prompt == fate = "alive" /\ policy = "prompt" /\ Len(procs) < MaxPrompt
Kernel == fate = "alive" /\ policy # "prompt" /\ loading = <<>>

Asks(e, how) ==
  /\ Prompt /\ policy' = how /\ loading' = e
  /\ UNCHANGED <<lines, procs, queue, lru, fate, running, left, ran>>

Run(f) == Asks(<<f>>, "FCFS")
Exec(e) == Asks(e, "RR")

\* New processes have run nothing yet.
Records == [p \in DOMAIN procs' |-> IF p \in DOMAIN ran THEN ran[p] ELSE <<>>]

Admit ==
  /\ fate = "alive" /\ loading # <<>> /\ Head(loading) # Missing
  /\ \E s \in {NewProcess(Now, Head(loading))} : Becomes(s)
  /\ loading' = Tail(loading) /\ ran' = Records
  /\ UNCHANGED <<policy, running, left>>

(* A name without a file ends the command: nothing is scheduled, and the   *)
(* processes made so far wait for the next run or exec.                    *)
Refuse ==
  /\ fate = "alive" /\ loading # <<>> /\ Head(loading) = Missing
  /\ loading' = <<>> /\ policy' = "prompt"
  /\ UNCHANGED <<lines, procs, queue, lru, fate, running, left, ran>>

(* scheduler_FCFS and scheduler_RR.                                        *)
Dispatch ==
  /\ Kernel /\ running = 0 /\ queue # <<>>
  /\ running' = Head(queue) /\ queue' = Tail(queue)
  /\ left' = Quantum
  /\ UNCHANGED <<lines, procs, lru, fate, policy, loading, ran>>

Return ==
  /\ Kernel /\ running = 0 /\ queue = <<>>
  /\ policy' = "prompt"
  /\ UNCHANGED <<lines, procs, queue, lru, fate, loading, running, left, ran>>

\* Mutant of Requeued: a process that met a page fault is not put back.
RequeuedIfLoaded(s, p) ==
  IF procs[p].table[procs[p].page] = NoPage THEN s
  ELSE [s EXCEPT !.queue = IF policy = "RR" THEN Append(@, p) ELSE <<p>> \o @]

Requeued(s, p) ==
  [s EXCEPT !.queue = IF policy = "RR" THEN Append(@, p) ELSE <<p>> \o @]

CurrentPage == procs[running].table[procs[running].page]
CurrentIndex == CurrentPage[procs[running].line]

PageFault ==
  /\ Kernel /\ running # 0 /\ CurrentPage = NoPage
  /\ \E s \in {Requeued(NextPage(Now, running), running)} : Becomes(s)
  /\ running' = 0 /\ UNCHANGED <<policy, loading, left, ran>>

(* The first line of a page brings it into the LRU queue.                  *)
\* Mutant of Started: the page is put at the head of the LRU queue.
StartedAtHead(s, p) ==
  IF procs[p].line = 0 THEN [s EXCEPT !.lru = <<[pid |-> p, page |-> procs[p].page]>> \o @] ELSE s

Started(s, p) ==
  IF procs[p].line = 0 THEN [s EXCEPT !.lru = Append(@, [pid |-> p, page |-> procs[p].page])] ELSE s

(* What the line at an index does, whoever's it is.  A `run` inside a      *)
(* script adds a process to the queue and returns.                         *)
Command(i) == IF lines[i].n = 0 THEN "plain" ELSE Loads(procs[lines[i].pid].script)[lines[i].n]
Interpreted(s, c) ==
  IF c \in Name THEN NewProcess(s, c)
  ELSE IF c = "quit" THEN [s EXCEPT !.fate = "ended"] ELSE s

(* updatePC.                                                               *)
\* Mutant of Advanced: a last page that is not known yet is taken for reached.
AdvancedIfKnown(pcb) ==
  IF pcb.line < 2 THEN [pcb EXCEPT !.line = @ + 1]
  ELSE IF pcb.page < pcb.lastPage THEN [pcb EXCEPT !.page = @ + 1, !.line = 0] ELSE pcb

Advanced(pcb) ==
  IF pcb.line < 2 THEN [pcb EXCEPT !.line = @ + 1]
  ELSE IF pcb.lastPage = -1 \/ pcb.page < pcb.lastPage
  THEN [pcb EXCEPT !.page = @ + 1, !.line = 0] ELSE pcb

RunLine ==
  /\ Kernel /\ running # 0 /\ CurrentPage # NoPage
  /\ LET after == Interpreted(Started(Now, running), Command(CurrentIndex))
         moved == [after EXCEPT !.procs[running] = Advanced(@)]
         over == CurrentIndex = procs[running].last
         turn == policy = "RR" /\ left = 1
     IN /\ \E s \in {IF over THEN after ELSE IF turn THEN Requeued(moved, running) ELSE moved} :
             Becomes(s)
        /\ running' = IF over \/ turn THEN 0 ELSE running
        /\ left' = IF policy = "RR" THEN left - 1 ELSE left
  /\ ran' = [Records EXCEPT ![running] =
       IF Len(@) > LineCount(procs[running].script) THEN @ ELSE Append(@, lines[CurrentIndex])]
  /\ UNCHANGED <<policy, loading>>

Loop == Admit \/ Refuse \/ Dispatch \/ Return \/ PageFault \/ RunLine

Next ==
  \/ \E f \in Name : Run(f)
  \/ \E e \in Execs : Exec(e)
  \/ Loop

(* The shell goes on until it is back at the prompt or dead: weak fairness *)
(* of Loop, with the condition for a step of it written out.               *)
Busy == fate = "alive" /\ policy # "prompt"
Progress == []<>~Busy \/ []<><<Loop>>_vars

Spec == Init /\ [][Next]_vars /\ Progress

-----------------------------------------------------------------------------
LineRecord == [pid : Nat, n : Nat]

(* Every variable has its type.                                            *)
TypeOK ==
  /\ lines \in [Frames -> LineRecord]
  /\ \A p \in DOMAIN procs :
       /\ procs[p].script \in Name /\ procs[p].line \in Offset
       /\ procs[p].page \in DOMAIN procs[p].table
       /\ procs[p].last \in Frames \cup {NoIndex}
       /\ \A i \in DOMAIN procs[p].table :
            procs[p].table[i] = NoPage \/ procs[p].table[i] \in [Offset -> Frames \cup {NoIndex}]
  /\ queue \in Seq(DOMAIN procs)
  /\ \A k \in DOMAIN lru : lru[k].pid \in DOMAIN procs
  /\ fate \in {"alive", "ended", "crashed", "undefined"}
  /\ policy \in {"prompt", "FCFS", "RR"} /\ running \in {0} \cup DOMAIN procs
  /\ left \in 0 .. Quantum
  /\ DOMAIN ran = DOMAIN procs

Finished(p) == p # running /\ p \notin ToSet(queue)

(* A page nobody has freed: its first line was not run yet, or it is still *)
(* in the LRU queue.                                                       *)
Begun(p, i) ==
  procs[p].page > i \/ (procs[p].page = i /\ (procs[p].line > 0 \/ Finished(p)))
Live(p, i) == ~Begun(p, i) \/ [pid |-> p, page |-> i] \in ToSet(lru)

(* Evicting a page frees its lines and nobody else's: what an index of a   *)
(* live page leads to is the line of the script that belongs there.        *)
LivePagesHold ==
  fate = "alive" => \A p \in DOMAIN procs : \A i \in DOMAIN procs[p].table :
    LET page == procs[p].table[i]
    IN page # NoPage /\ Live(p, i) => \A j \in Offset :
         LET n == 3 * i + j + 1
         IN IF n <= LineCount(procs[p].script) THEN lines[page[j]] = Line(p, n)
            ELSE page[j] = NoIndex \/ lines[page[j]] = Filling(p)

(* A process leaves the queue for good exactly when it has run as many     *)
(* lines as its script has: also one that an exec left behind, or that     *)
(* another script added while the queue's loop was running.                *)
NoProcessLost ==
  fate \in {"alive", "ended"} =>
    /\ IsInjective(queue) /\ running \notin ToSet(queue)
    /\ \A p \in DOMAIN procs : Finished(p) <=> Len(ran[p]) >= LineCount(procs[p].script)

(* As long as no script runs another one, every process runs the lines of  *)
(* its script, in order: no page is evicted before its last line was run,  *)
(* although nothing in the code looks at that.                             *)
Spawning == \E p \in DOMAIN procs : ToSet(Loads(procs[p].script)) \cap Name # {}
ExecutedInOrder ==
  ~Spawning => \A p \in DOMAIN procs : \A k \in DOMAIN ran[p] : ran[p][k] = Line(p, k)

(* A read through an index that is not one needs a script of one or two    *)
(* pages whose last page is short.                                         *)
UndefinedNeedsShortPage ==
  fate = "undefined" => \E p \in DOMAIN procs :
    LineCount(procs[p].script) <= 6 /\ LineCount(procs[p].script) % 3 # 0

(* run and exec return to the prompt, unless the shell dies.               *)
Returns == Busy ~> ~Busy
=============================================================================
