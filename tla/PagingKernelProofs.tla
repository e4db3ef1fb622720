------------------------- MODULE PagingKernelProofs -------------------------
(***************************************************************************)
(* Proofs about PagingKernel for every size of the two zones, every set of *)
(* scripts (blank lines, trailing newlines and commands that return 1      *)
(* included) and every bound on the number of processes.                   *)
(***************************************************************************)
EXTENDS PagingKernel, SequenceTheorems, FiniteSetTheorems, TLAPS

(* The data of a process, with one page at least. *)
Page == [index : [Offset -> Frames \cup {NeverLoaded}],
         valid : [Offset -> BOOLEAN], pc : 0 .. 3]
PageTable == UNION {[0 .. n - 1 -> Page] : n \in Nat \ {0}}
PcbType == [script : Script, size : Nat, fpos : Nat, pages : PageTable]

MemOK(m) ==
  DOMAIN m = Position /\ \A x \in Position : m[x].var \in Pid \cup Var \cup {None}

PcbsOK(ps) == DOMAIN ps \subseteq Pid /\ \A p \in DOMAIN ps : ps[p] \in PcbType

(* The LRU list names pages that exist, and every page with a valid line. *)
In(e, list) == \E n \in 1 .. Len(list) : list[n] = e

ListOK(ps, list) ==
  /\ list \in Seq(Pid \X Nat)
  /\ \A p \in Pid, i \in Nat :
       In(<<p, i>>, list) => p \in DOMAIN ps /\ i \in DOMAIN ps[p].pages

Listed(ps, list) ==
  \A p \in DOMAIN ps : \A i \in DOMAIN ps[p].pages : \A j \in Offset :
    ps[p].pages[i].valid[j] => In(<<p, i>>, list)

(* A process that was dispatched has the lines its turn may take, and no   *)
(* others when it is not to be queued again.                               *)
TurnOK ==
  \/ cpu = Idle
  \/ /\ phase = "running" /\ cpu \in [pid : DOMAIN pcbs, left : 1 .. 2, requeue : BOOLEAN]
     /\ pcbs[cpu.pid].size >= cpu.left
     /\ cpu.requeue \/ pcbs[cpu.pid].size = cpu.left

(* The inductive invariant. *)
KInv ==
  /\ MemOK(mem)
  /\ PcbsOK(pcbs)
  /\ ListOK(pcbs, lru)
  /\ Listed(pcbs, lru)
  /\ pcbs # <<>> => lru # <<>> /\ FrameStoreSize >= 3
  /\ DOMAIN executed = DOMAIN pcbs
  /\ queue \in Seq(DOMAIN pcbs)
  /\ nextPid \in 1 .. MaxPid + 1 /\ \A p \in DOMAIN pcbs : p < nextPid
  /\ phase \in {"prompt", "loading", "running"}
  /\ phase = "loading" =>
       loading \in Seq(Script) /\ loading # <<>> /\ nextPid + Len(loading) - 1 <= MaxPid
  /\ TurnOK
  /\ NoProcessLost

-----------------------------------------------------------------------------
(* A new process has one page or more, and none of them is loaded.         *)
LEMMA FreshPcbType ==
  ASSUME NEW s \in Script
  PROVE  /\ FreshPcb(s) \in PcbType
         /\ \A i \in DOMAIN FreshPcb(s).pages : \A j \in Offset :
              ~FreshPcb(s).pages[i].valid[j]
         /\ \E n \in Nat \ {0} : DOMAIN FreshPcb(s).pages = 0 .. n - 1
  <1>1. CountLines(s) \in Nat \ {0}
    <2>. DEFINE ended == {n \in 1 .. Len(s.lines) : s.lines[n] # "blank" /\ Terminated(s, n)}
    <2>1. Len(s.lines) \in Nat
      OBVIOUS
    <2>2. IsFiniteSet(1 .. Len(s.lines))
      BY <2>1, FS_Interval
    <2>3. IsFiniteSet(ended)
      BY <2>2, FS_Subset
    <2>4. Cardinality(ended) \in Nat
      BY <2>3, FS_CardinalityType
    <2>5. QED
      BY <2>4 DEF CountLines
  <1>. DEFINE n == PageTableSize(CountLines(s))
              table == [i \in 0 .. n - 1 |-> UnloadedPage]
  <1>2. n \in Nat \ {0}
    BY <1>1 DEF PageTableSize
  <1>3. UnloadedPage \in Page
    BY DEF UnloadedPage, Page
  <1>4. table \in PageTable
    <2>1. table \in [0 .. n - 1 -> Page]
      BY <1>3
    <2>. HIDE DEF n, table
    <2>2. QED
      BY <1>2, <2>1 DEF PageTable
  <1>5. FreshPcb(s) = [script |-> s, size |-> CountLines(s), fpos |-> 0, pages |-> table]
    BY DEF FreshPcb
  <1>6. FreshPcb(s) \in PcbType
    BY <1>1, <1>4, <1>5 DEF PcbType
  <1>7. FreshPcb(s).pages = table
    BY <1>5
  <1>8. DOMAIN FreshPcb(s).pages = 0 .. n - 1
    BY <1>7
  <1>9. \A i \in 0 .. n - 1 : FreshPcb(s).pages[i] = UnloadedPage
    BY <1>7
  <1>10. \A i \in 0 .. n - 1 : \A j \in Offset : ~FreshPcb(s).pages[i].valid[j]
    BY <1>9 DEF UnloadedPage
  <1>. HIDE DEF n, table
  <1>11. QED
    BY <1>2, <1>6, <1>8, <1>10

-----------------------------------------------------------------------------
(* The data of a process after load_PAGE, PAGE_evict and a step of its     *)
(* program counter: of the type it had, with the same pages and size.      *)

LEMMA PcbTypeOf ==
  ASSUME NEW n \in Nat \ {0}
  PROVE  \A q : q \in [script : Script, size : Nat, fpos : Nat, pages : [0 .. n - 1 -> Page]]
                  => q \in PcbType
  BY DEF PcbType, PageTable

LEMMA PcbTypeIs ==
  ASSUME NEW q \in PcbType
  PROVE  \E n \in Nat \ {0} :
           /\ DOMAIN q.pages = 0 .. n - 1
           /\ q \in [script : Script, size : Nat, fpos : Nat, pages : [0 .. n - 1 -> Page]]
  BY DEF PcbType, PageTable

LEMMA LoadedPcbType ==
  ASSUME NEW q \in PcbType, NEW i \in DOMAIN q.pages, NEW k \in 0 .. FrameStoreSize - 3
  PROVE  /\ LoadedPcb(q, i, k) \in PcbType
         /\ LoadedPcb(q, i, k).size = q.size
         /\ DOMAIN LoadedPcb(q, i, k).pages = DOMAIN q.pages
         /\ \A h \in DOMAIN q.pages \ {i} : LoadedPcb(q, i, k).pages[h] = q.pages[h]
  <1>. DEFINE index == [j \in Offset |-> k + j]
              valid == [j \in Offset |-> Reads(q, j)]
              fpos == IF Reads(q, 2) THEN q.fpos + 3 ELSE Len(q.script.lines)
              new == LoadedPcb(q, i, k)
  <1>1. PICK n \in Nat \ {0} :
          /\ DOMAIN q.pages = 0 .. n - 1
          /\ q \in [script : Script, size : Nat, fpos : Nat, pages : [0 .. n - 1 -> Page]]
    BY PcbTypeIs
  <1>2. index \in [Offset -> Frames \cup {NeverLoaded}]
    BY KernelAssumption DEF Frames, Offset
  <1>3. valid \in [Offset -> BOOLEAN]
    BY DEF Reads
  <1>4. fpos \in Nat
    BY <1>1
  <1>5. new = [q EXCEPT !.pages[i].index = index, !.pages[i].valid = valid, !.fpos = fpos]
    BY DEF LoadedPcb
  <1>. HIDE DEF index, valid, fpos, new
  <1>6. /\ new \in [script : Script, size : Nat, fpos : Nat, pages : [0 .. n - 1 -> Page]]
        /\ new.size = q.size
        /\ \A h \in (0 .. n - 1) \ {i} : new.pages[h] = q.pages[h]
    <2>. DEFINE X == [Offset -> Frames \cup {NeverLoaded}]
                V == [Offset -> BOOLEAN]
                C == 0 .. 3
                D == 0 .. n - 1
    <2>1. /\ q \in [script : Script, size : Nat, fpos : Nat,
                    pages : [D -> [index : X, valid : V, pc : C]]]
          /\ i \in D /\ index \in X /\ valid \in V
      BY <1>1, <1>2, <1>3 DEF Page
    <2>2. Page = [index : X, valid : V, pc : C]
      BY DEF Page
    <2>. HIDE DEF X, V, C, D
    <2>3. /\ new \in [script : Script, size : Nat, fpos : Nat,
                      pages : [D -> [index : X, valid : V, pc : C]]]
          /\ new.size = q.size
          /\ \A h \in D \ {i} : new.pages[h] = q.pages[h]
      <3>. DEFINE pageA == [q.pages[i] EXCEPT !.index = index]
                  tableA == [q.pages EXCEPT ![i] = pageA]
                  pageB == [pageA EXCEPT !.valid = valid]
                  tableB == [q.pages EXCEPT ![i] = pageB]
      <3>1. q.pages \in [D -> [index : X, valid : V, pc : C]]
        BY <2>1
      <3>2. pageB \in [index : X, valid : V, pc : C]
        BY <2>1, <3>1
      <3>3. tableB \in [D -> [index : X, valid : V, pc : C]]
        BY <3>1, <3>2
      <3>4. \A h \in D \ {i} : tableB[h] = q.pages[h]
        BY <3>1
      <3>5. new = [q EXCEPT !.pages = tableB, !.fpos = fpos]
        BY <1>5, <2>1, <3>1
      <3>. HIDE DEF pageA, tableA, pageB, tableB
      <3>6. QED
        BY <1>4, <2>1, <3>3, <3>4, <3>5
    <2>4. QED
      BY <2>2, <2>3 DEF D
  <1>7. new \in PcbType
    BY <1>6, PcbTypeOf
  <1>8. DOMAIN new.pages = 0 .. n - 1
    BY <1>6
  <1>9. QED
    BY <1>1, <1>6, <1>7, <1>8 DEF new

LEMMA EvictedPageType ==
  ASSUME NEW page \in Page, FrameStoreSize >= 3
  PROVE  EvictedPage(page) \in Page /\ \A j \in Offset : ~EvictedPage(page).valid[j]
  <1>. DEFINE index == [j \in Offset |-> 0]
              valid == [j \in Offset |-> FALSE]
              new == EvictedPage(page)
  <1>1. index \in [Offset -> Frames \cup {NeverLoaded}] /\ valid \in [Offset -> BOOLEAN]
    BY KernelAssumption DEF Frames
  <1>2. \A j \in Offset : ~valid[j]
    OBVIOUS
  <1>3. new = [page EXCEPT !.index = index, !.valid = valid]
    BY DEF EvictedPage
  <1>. HIDE DEF index, valid, new
  <1>4. new \in Page /\ new.valid = valid
    BY <1>1, <1>3 DEF Page
  <1>5. QED
    BY <1>2, <1>4 DEF new

(* A process with one of its pages replaced. *)
LEMMA WithPageType ==
  ASSUME NEW q \in PcbType, NEW i \in DOMAIN q.pages, NEW page \in Page
  PROVE  LET new == [q EXCEPT !.pages[i] = page]
         IN  /\ new \in PcbType /\ new.size = q.size
             /\ DOMAIN new.pages = DOMAIN q.pages /\ new.pages[i] = page
             /\ \A h \in DOMAIN q.pages \ {i} : new.pages[h] = q.pages[h]
  <1>. DEFINE new == [q EXCEPT !.pages[i] = page]
  <1>1. PICK n \in Nat \ {0} :
          /\ DOMAIN q.pages = 0 .. n - 1
          /\ q \in [script : Script, size : Nat, fpos : Nat, pages : [0 .. n - 1 -> Page]]
    BY PcbTypeIs
  <1>2. /\ new \in [script : Script, size : Nat, fpos : Nat, pages : [0 .. n - 1 -> Page]]
        /\ new.size = q.size /\ new.pages[i] = page
        /\ \A h \in DOMAIN q.pages \ {i} : new.pages[h] = q.pages[h]
    BY <1>1
  <1>3. new \in PcbType
    BY <1>2, PcbTypeOf
  <1>4. DOMAIN new.pages = DOMAIN q.pages
    BY <1>1, <1>2
  <1>5. QED
    BY <1>2, <1>3, <1>4

LEMMA AdvancedType ==
  ASSUME NEW p \in DOMAIN pcbs, pcbs[p] \in PcbType, pcbs[p].size >= 1,
         NEW i \in DOMAIN pcbs[p].pages, pcbs[p].pages[i].pc # 3
  PROVE  /\ Advanced(p, i) \in PcbType
         /\ Advanced(p, i).size = pcbs[p].size - 1
         /\ DOMAIN Advanced(p, i).pages = DOMAIN pcbs[p].pages
         /\ \A h \in DOMAIN pcbs[p].pages : Advanced(p, i).pages[h].valid = pcbs[p].pages[h].valid
  <1>. DEFINE q == pcbs[p]
              new == Advanced(p, i)
  <1>1. PICK n \in Nat \ {0} :
          /\ DOMAIN q.pages = 0 .. n - 1
          /\ q \in [script : Script, size : Nat, fpos : Nat, pages : [0 .. n - 1 -> Page]]
    BY PcbTypeIs
  <1>2. new = [q EXCEPT !.pages[i].pc = q.pages[i].pc + 1, !.size = q.size - 1]
    BY DEF Advanced
  <1>3. q.pages[i].pc + 1 \in 0 .. 3 /\ q.size - 1 \in Nat
    BY <1>1 DEF Page
  <1>. DEFINE pc == q.pages[i].pc + 1
              size == q.size - 1
  <1>4. new = [q EXCEPT !.pages[i].pc = pc, !.size = size]
    BY <1>2
  <1>. HIDE DEF q, new, pc, size
  <1>5. /\ new \in [script : Script, size : Nat, fpos : Nat, pages : [0 .. n - 1 -> Page]]
        /\ new.size = size
        /\ \A h \in DOMAIN q.pages : new.pages[h].valid = q.pages[h].valid
    <2>. DEFINE X == [Offset -> Frames \cup {NeverLoaded}]
                V == [Offset -> BOOLEAN]
                C == 0 .. 3
                D == 0 .. n - 1
    <2>1. /\ q \in [script : Script, size : Nat, fpos : Nat,
                    pages : [D -> [index : X, valid : V, pc : C]]]
          /\ i \in D /\ pc \in C /\ size \in Nat
      BY <1>1, <1>3 DEF Page, q, pc, size
    <2>2. Page = [index : X, valid : V, pc : C]
      BY DEF Page
    <2>. HIDE DEF X, V, C, D
    <2>3. /\ new \in [script : Script, size : Nat, fpos : Nat,
                      pages : [D -> [index : X, valid : V, pc : C]]]
          /\ new.size = size
          /\ \A h \in D : new.pages[h].valid = q.pages[h].valid
      BY <1>4, <2>1
    <2>4. QED
      BY <1>1, <2>2, <2>3 DEF D
  <1>6. new \in PcbType
    BY <1>5, PcbTypeOf
  <1>7. DOMAIN new.pages = DOMAIN q.pages
    BY <1>1, <1>5
  <1>8. QED
    BY <1>5, <1>6, <1>7 DEF new, q, size

-----------------------------------------------------------------------------
(* What the list operations do to the pages in the LRU list: add_head,     *)
(* remove_elem followed by add_head, and the removal of the tail.          *)
LEMMA InPush ==
  ASSUME NEW S, NEW list \in Seq(S), NEW e \in S
  PROVE  /\ <<e>> \o list \in Seq(S) /\ <<e>> \o list # <<>>
         /\ \A d : In(d, <<e>> \o list) <=> d = e \/ In(d, list)
  <1>. DEFINE new == <<e>> \o list
  <1>1. new \in Seq(S) /\ Len(new) = Len(list) + 1 /\ new[1] = e
    OBVIOUS
  <1>2. \A n \in 1 .. Len(list) : new[n + 1] = list[n]
    OBVIOUS
  <1>3. ASSUME NEW d, In(d, new) PROVE d = e \/ In(d, list)
    <2>1. PICK n \in 1 .. Len(new) : new[n] = d
      BY <1>3 DEF In
    <2>2. CASE n = 1
      BY <1>1, <2>1, <2>2
    <2>3. CASE n # 1
      <3>1. n - 1 \in 1 .. Len(list)
        BY <1>1, <2>1, <2>3
      <3>2. list[n - 1] = d
        BY <1>2, <2>1, <3>1
      <3>3. QED
        BY <3>1, <3>2 DEF In
    <2>4. QED
      BY <2>2, <2>3
  <1>4. In(e, new)
    BY <1>1 DEF In
  <1>5. ASSUME NEW d, In(d, list) PROVE In(d, new)
    <2>1. PICK n \in 1 .. Len(list) : list[n] = d
      BY <1>5 DEF In
    <2>2. n + 1 \in 1 .. Len(new) /\ new[n + 1] = d
      BY <1>1, <1>2, <2>1
    <2>3. QED
      BY <2>2 DEF In
  <1>6. QED
    BY <1>1, <1>3, <1>4, <1>5

LEMMA PushTwo ==
  ASSUME NEW S, NEW list \in Seq(S), NEW d \in S, NEW e \in S
  PROVE  <<d, e>> \o list = <<d>> \o (<<e>> \o list)
  <1>1. <<d, e>> = <<d>> \o <<e>>
    <2>1. <<d, e>> \in Seq(S) /\ <<d>> \in Seq(S) /\ <<e>> \in Seq(S)
      OBVIOUS
    <2>. DEFINE two == <<d>> \o <<e>>
    <2>2. two \in Seq(S) /\ Len(two) = 2 /\ two[1] = d /\ two[2] = e
      BY <2>1, ConcatProperties
    <2>. HIDE DEF two
    <2>3. two = <<d, e>>
      BY <2>2
    <2>4. QED
      BY <2>3 DEF two
  <1>2. <<d>> \in Seq(S) /\ <<e>> \in Seq(S)
    OBVIOUS
  <1>3. QED
    BY <1>1, <1>2, ConcatAssociative

(* A list without its element n: no other page leaves it. *)
Without(list, n) == SubSeq(list, 1, n - 1) \o SubSeq(list, n + 1, Len(list))

LEMMA WithoutIs ==
  ASSUME NEW S, NEW list \in Seq(S), NEW n \in 1 .. Len(list)
  PROVE  /\ Without(list, n) \in Seq(S) /\ Len(Without(list, n)) = Len(list) - 1
         /\ \A x \in 1 .. n - 1 : Without(list, n)[x] = list[x]
         /\ \A x \in n .. Len(list) - 1 : Without(list, n)[x] = list[x + 1]
  <1>. DEFINE L == Len(list)
              front == SubSeq(list, 1, n - 1)
              back == SubSeq(list, n + 1, L)
              new == front \o back
  <1>1. L \in Nat
    OBVIOUS
  <1>2. /\ front \in Seq(S) /\ Len(front) = n - 1
        /\ \A x \in 1 .. n - 1 : front[x] = list[x]
    OBVIOUS
  <1>3. /\ back \in Seq(S) /\ Len(back) = L - n
        /\ \A x \in 1 .. L - n : back[x] = list[x + n]
    OBVIOUS
  <1>. HIDE DEF front, back
  <1>4. /\ new \in Seq(S) /\ Len(new) = L - 1
        /\ \A x \in 1 .. n - 1 : new[x] = list[x]
        /\ \A x \in n .. L - 1 : new[x] = list[x + 1]
    <2>1. new \in Seq(S) /\ Len(new) = Len(front) + Len(back)
      BY <1>2, <1>3, ConcatProperties
    <2>2. \A x \in 1 .. Len(front) + Len(back) :
            new[x] = IF x <= Len(front) THEN front[x] ELSE back[x - Len(front)]
      BY <1>2, <1>3
    <2>3. ASSUME NEW x \in n .. L - 1 PROVE new[x] = list[x + 1]
      <3>1. /\ x \in 1 .. (n - 1) + (L - n) /\ ~(x <= n - 1)
            /\ x - (n - 1) \in 1 .. L - n /\ (x - (n - 1)) + n = x + 1
        BY <1>1
      <3>2. new[x] = back[x - (n - 1)]
        BY <1>2, <1>3, <2>2, <3>1
      <3>3. QED
        BY <1>3, <3>1, <3>2
    <2>4. ASSUME NEW x \in 1 .. n - 1 PROVE new[x] = list[x]
      BY <1>1, <1>2, <1>3, <2>2
    <2>5. (n - 1) + (L - n) = L - 1
      BY <1>1
    <2>6. QED
      BY <1>2, <1>3, <2>1, <2>3, <2>4, <2>5
  <1>5. new = Without(list, n)
    BY DEF Without, front, back
  <1>. HIDE DEF new
  <1>6. QED
    BY <1>4, <1>5 DEF L

LEMMA InWithout ==
  ASSUME NEW S, NEW list \in Seq(S), NEW n \in 1 .. Len(list)
  PROVE  /\ Without(list, n) \in Seq(S)
         /\ \A d : In(d, Without(list, n)) => In(d, list)
         /\ \A d : In(d, list) => d = list[n] \/ In(d, Without(list, n))
  <1>. DEFINE L == Len(list)
              new == Without(list, n)
  <1>1. L \in Nat
    OBVIOUS
  <1>2. /\ new \in Seq(S) /\ Len(new) = L - 1
        /\ \A x \in 1 .. n - 1 : new[x] = list[x]
        /\ \A x \in n .. L - 1 : new[x] = list[x + 1]
    BY WithoutIs
  <1>. HIDE DEF new
  <1>3. ASSUME NEW d, In(d, new) PROVE In(d, list)
    <2>1. PICK x \in 1 .. L - 1 : new[x] = d
      BY <1>2, <1>3 DEF In
    <2>2. CASE x < n
      BY <1>2, <2>1, <2>2 DEF In
    <2>3. CASE x >= n
      <3>1. x + 1 \in 1 .. L /\ list[x + 1] = d
        BY <1>2, <2>1, <2>3
      <3>2. QED
        BY <3>1 DEF In
    <2>4. QED
      BY <2>2, <2>3
  <1>4. ASSUME NEW d, In(d, list), d # list[n] PROVE In(d, new)
    <2>1. PICK x \in 1 .. L : list[x] = d
      BY <1>4 DEF In
    <2>2. CASE x < n
      <3>1. x \in 1 .. L - 1 /\ new[x] = d
        BY <1>2, <2>1, <2>2
      <3>2. QED
        BY <1>2, <3>1 DEF In
    <2>3. CASE x > n
      <3>1. x - 1 \in 1 .. L - 1 /\ x - 1 \in n .. L - 1 /\ (x - 1) + 1 = x
        BY <2>1, <2>3
      <3>2. new[x - 1] = d
        BY <1>2, <2>1, <3>1
      <3>3. QED
        BY <1>2, <3>1, <3>2 DEF In
    <2>4. QED
      BY <1>4, <2>1, <2>2, <2>3
  <1>5. QED
    BY <1>2, <1>3, <1>4 DEF new

LEMMA TouchedIs ==
  ASSUME NEW S, lru \in Seq(S), NEW n \in 1 .. Len(lru)
  PROVE  Touched(n) = <<lru[n]>> \o Without(lru, n)
  <1>. DEFINE front == SubSeq(lru, 1, n - 1)
              back == SubSeq(lru, n + 1, Len(lru))
  <1>1. front \in Seq(S) /\ back \in Seq(S) /\ <<lru[n]>> \in Seq(S)
    OBVIOUS
  <1>. HIDE DEF front, back
  <1>2. (<<lru[n]>> \o front) \o back = <<lru[n]>> \o (front \o back)
    BY <1>1, ConcatAssociative
  <1>3. QED
    BY <1>2 DEF Touched, Without, front, back

LEMMA InTouched ==
  ASSUME NEW S, lru \in Seq(S), NEW n \in 1 .. Len(lru)
  PROVE  /\ Touched(n) \in Seq(S) /\ Touched(n) # <<>>
         /\ \A d : In(d, Touched(n)) <=> In(d, lru)
  <1>1. lru[n] \in S /\ In(lru[n], lru)
    BY DEF In
  <1>2. Without(lru, n) \in Seq(S)
    BY InWithout
  <1>3. Touched(n) = <<lru[n]>> \o Without(lru, n)
    BY TouchedIs
  <1>4. \A d : In(d, lru) <=> d = lru[n] \/ In(d, Without(lru, n))
    <2>1. \A d : In(d, Without(lru, n)) => In(d, lru)
      BY InWithout
    <2>2. \A d : In(d, lru) => d = lru[n] \/ In(d, Without(lru, n))
      BY InWithout
    <2>3. QED
      BY <1>1, <2>1, <2>2
  <1>5. /\ Touched(n) \in Seq(S) /\ Touched(n) # <<>>
        /\ \A d : In(d, Touched(n)) <=> d = lru[n] \/ In(d, Without(lru, n))
    BY <1>1, <1>2, <1>3, InPush
  <1>6. QED
    BY <1>4, <1>5

-----------------------------------------------------------------------------
(* load_PAGE and what run_proc does after it, from any state of the memory *)
(* and the processes: the frame store, the page tables and the LRU list    *)
(* stay well formed, whether a frame is free or not.                       *)
LEMMA LoadedMemOK ==
  ASSUME NEW m, MemOK(m), NEW p \in Pid, NEW q, NEW k
  PROVE  MemOK(LoadedMem(m, p, q, k))
  BY DEF MemOK, LoadedMem

LEMMA EvictedMemOK ==
  ASSUME NEW m, MemOK(m), NEW page
  PROVE  MemOK(EvictedMem(m, page))
  BY DEF MemOK, EvictedMem, FreeLine

(* What Loads and Fault keep, for processes ps before the step. *)
Kept(ps) ==
  /\ MemOK(mem') /\ PcbsOK(pcbs') /\ ListOK(pcbs', lru') /\ Listed(pcbs', lru')
  /\ lru' # <<>>
  /\ DOMAIN pcbs' = DOMAIN ps
  /\ \A r \in DOMAIN ps : pcbs'[r].size = ps[r].size

LEMMA LoadsKeeps ==
  ASSUME NEW p, NEW i, NEW ps, NEW m, NEW list,
         MemOK(m), PcbsOK(ps), ListOK(ps, list), Listed(ps, list),
         p \in DOMAIN ps, i \in DOMAIN ps[p].pages, Loads(p, i, ps, m, list)
  PROVE  Kept(ps)
  <1>1. p \in Pid /\ ps[p] \in PcbType
    BY DEF PcbsOK
  <1>2. i \in Nat
    BY <1>1, PcbTypeIs
  <1>3. /\ lru' \in Seq(Pid \X Nat) /\ lru' # <<>>
        /\ \A d : In(d, lru') <=> d = <<p, i>> \/ In(d, list)
    <2>1. list \in Seq(Pid \X Nat) /\ <<p, i>> \in Pid \X Nat
      BY <1>1, <1>2 DEF ListOK
    <2>2. lru' = <<<<p, i>>>> \o list
      BY DEF Loads
    <2>3. QED
      BY <2>1, <2>2, InPush
  <1>4. CASE mem' = m /\ pcbs' = ps
    <2>1. ListOK(ps, lru')
      BY <1>3 DEF ListOK
    <2>2. Listed(ps, lru')
      BY <1>3 DEF Listed
    <2>3. QED
      BY <1>3, <1>4, <2>1, <2>2 DEF Kept
  <1>5. ASSUME NEW k \in Frames, FirstFit(m, k), mem' = LoadedMem(m, p, ps[p], k),
               pcbs' = [ps EXCEPT ![p] = LoadedPcb(ps[p], i, k)]
        PROVE  Kept(ps)
    <2>. DEFINE new == LoadedPcb(ps[p], i, k)
    <2>1. k \in 0 .. FrameStoreSize - 3
      BY <1>5 DEF FirstFit, Fits
    <2>2. /\ new \in PcbType /\ new.size = ps[p].size
          /\ DOMAIN new.pages = DOMAIN ps[p].pages
          /\ \A h \in DOMAIN ps[p].pages \ {i} : new.pages[h] = ps[p].pages[h]
      BY <1>1, <2>1, LoadedPcbType
    <2>. HIDE DEF new
    <2>3. DOMAIN pcbs' = DOMAIN ps
      BY <1>5
    <2>4. pcbs'[p] = new /\ \A r \in DOMAIN ps \ {p} : pcbs'[r] = ps[r]
      BY <1>5 DEF new
    <2>5. MemOK(mem')
      BY <1>1, <1>5, LoadedMemOK
    <2>6. PcbsOK(pcbs')
      BY <2>2, <2>3, <2>4 DEF PcbsOK
    <2>7. ListOK(pcbs', lru')
      BY <1>3, <2>2, <2>3, <2>4 DEF ListOK
    <2>8. Listed(pcbs', lru')
      <3>1. ASSUME NEW r \in DOMAIN pcbs', NEW h \in DOMAIN pcbs'[r].pages, NEW j \in Offset,
                   pcbs'[r].pages[h].valid[j]
            PROVE  In(<<r, h>>, lru')
        <4>1. CASE r = p /\ h = i
          BY <1>3, <4>1
        <4>2. CASE ~(r = p /\ h = i)
          <5>1. h \in DOMAIN ps[r].pages /\ pcbs'[r].pages[h] = ps[r].pages[h]
            BY <2>2, <2>3, <2>4, <3>1, <4>2
          <5>2. In(<<r, h>>, list)
            BY <2>3, <3>1, <5>1 DEF Listed
          <5>3. QED
            BY <1>3, <5>2
        <4>3. QED
          BY <4>1, <4>2
      <3>2. QED
        BY <3>1 DEF Listed
    <2>9. \A r \in DOMAIN ps : pcbs'[r].size = ps[r].size
      BY <2>2, <2>4
    <2>10. QED
      BY <1>3, <2>3, <2>5, <2>6, <2>7, <2>8, <2>9 DEF Kept
  <1>6. QED
    BY <1>4, <1>5 DEF Loads

EvictedPcb(q, i) == [q EXCEPT !.pages[i] = EvictedPage(q.pages[i])]

(* PAGE_evict of the page <<o, h>> at the tail of the list. *)
Evicted(ps, o, h) == [ps EXCEPT ![o].pages[h] = EvictedPage(ps[o].pages[h])]

LEMMA EvictKeeps ==
  ASSUME NEW ps, PcbsOK(ps), ListOK(ps, lru), Listed(ps, lru), lru # <<>>, FrameStoreSize >= 3,
         NEW o, NEW h, lru[Len(lru)] = <<o, h>>,
         NEW evicted, evicted = Evicted(ps, o, h)
  PROVE  /\ o \in DOMAIN ps /\ h \in DOMAIN ps[o].pages
         /\ DOMAIN evicted = DOMAIN ps /\ evicted[o] = EvictedPcb(ps[o], h)
         /\ \A r \in DOMAIN ps \ {o} : evicted[r] = ps[r]
         /\ evicted[o].size = ps[o].size /\ DOMAIN evicted[o].pages = DOMAIN ps[o].pages
         /\ PcbsOK(evicted) /\ ListOK(evicted, Without(lru, Len(lru)))
         /\ Listed(evicted, Without(lru, Len(lru)))
  <1>. DEFINE L == Len(lru)
              page == ps[o].pages[h]
              new == EvictedPcb(ps[o], h)
  <1>1. lru \in Seq(Pid \X Nat) /\ L \in 1 .. Len(lru) /\ In(<<o, h>>, lru)
    BY DEF ListOK, In
  <1>2. o \in Pid /\ h \in Nat
    BY <1>1
  <1>3. o \in DOMAIN ps /\ h \in DOMAIN ps[o].pages /\ ps[o] \in PcbType
    <2>1. o \in DOMAIN ps /\ h \in DOMAIN ps[o].pages
      BY <1>1, <1>2 DEF ListOK
    <2>2. QED
      BY <2>1 DEF PcbsOK
  <1>4. page \in Page
    BY <1>3, PcbTypeIs
  <1>. HIDE DEF page
  <1>5. EvictedPage(page) \in Page /\ \A j \in Offset : ~EvictedPage(page).valid[j]
    BY <1>4, EvictedPageType
  <1>6. /\ new \in PcbType /\ new.size = ps[o].size
        /\ DOMAIN new.pages = DOMAIN ps[o].pages /\ new.pages[h] = EvictedPage(page)
        /\ \A g \in DOMAIN ps[o].pages \ {h} : new.pages[g] = ps[o].pages[g]
    <2>1. new = [ps[o] EXCEPT !.pages[h] = EvictedPage(page)]
      BY DEF EvictedPcb, page
    <2>. HIDE DEF new
    <2>2. QED
      BY <1>3, <1>5, <2>1, WithPageType
  <1>7. evicted = [ps EXCEPT ![o] = new]
    BY DEF Evicted, EvictedPcb
  <1>. HIDE DEF new, L
  <1>8. /\ DOMAIN evicted = DOMAIN ps /\ evicted[o] = new
        /\ \A r \in DOMAIN ps \ {o} : evicted[r] = ps[r]
    BY <1>3, <1>7
  <1>9. PcbsOK(evicted)
    BY <1>6, <1>8 DEF PcbsOK
  <1>10. /\ Without(lru, L) \in Seq(Pid \X Nat)
         /\ \A d : In(d, Without(lru, L)) => In(d, lru)
         /\ \A d : In(d, lru) => d = <<o, h>> \/ In(d, Without(lru, L))
    BY <1>1, InWithout DEF L
  <1>11. ListOK(evicted, Without(lru, L))
    BY <1>6, <1>8, <1>10 DEF ListOK
  <1>12. Listed(evicted, Without(lru, L))
    <2>1. ASSUME NEW r \in DOMAIN evicted, NEW g \in DOMAIN evicted[r].pages, NEW j \in Offset,
                 evicted[r].pages[g].valid[j]
          PROVE  In(<<r, g>>, Without(lru, L))
      <3>1. <<r, g>> # <<o, h>>
        BY <1>5, <1>6, <1>8, <2>1
      <3>2. g \in DOMAIN ps[r].pages /\ evicted[r].pages[g] = ps[r].pages[g]
        BY <1>3, <1>6, <1>8, <2>1, <3>1
      <3>3. In(<<r, g>>, lru)
        BY <1>8, <2>1, <3>2 DEF Listed
      <3>4. QED
        BY <1>10, <3>1, <3>3
    <2>2. QED
      BY <2>1 DEF Listed
  <1>13. QED
    BY <1>3, <1>6, <1>8, <1>9, <1>11, <1>12 DEF L, new

(* What Fault does: load_PAGE at once, or after the tail of the list was   *)
(* evicted.                                                                *)
LEMMA FaultIs ==
  ASSUME NEW p, NEW i, NEW ps, ListOK(ps, lru), lru # <<>>, Fault(p, i, ps)
  PROVE  \/ ~NoFrame(mem) /\ Loads(p, i, ps, mem, lru)
         \/ NoFrame(mem) /\ \E o, h :
              /\ lru[Len(lru)] = <<o, h>>
              /\ Loads(p, i, Evicted(ps, o, h), EvictedMem(mem, ps[o].pages[h]),
                       Without(lru, Len(lru)))
  <1>1. lru \in Seq(Pid \X Nat) /\ Len(lru) \in 1 .. Len(lru)
    BY DEF ListOK
  <1>2. PICK v : v = lru[Len(lru)]
    OBVIOUS
  <1>3. v \in Pid \X Nat
    BY <1>1, <1>2
  <1>4. PICK o, h : o = v[1] /\ h = v[2] /\ v = <<o, h>>
    BY <1>3
  <1>5. \/ ~NoFrame(mem) /\ Loads(p, i, ps, mem, lru)
        \/ NoFrame(mem) /\ Loads(p, i, [ps EXCEPT ![v[1]].pages[v[2]] = EvictedPage(ps[v[1]].pages[v[2]])],
                                EvictedMem(mem, ps[v[1]].pages[v[2]]), Without(lru, Len(lru)))
    BY <1>2, Zenon DEF Fault, VictimAt, Without
  <1>6. [ps EXCEPT ![v[1]].pages[v[2]] = EvictedPage(ps[v[1]].pages[v[2]])] = Evicted(ps, o, h)
    BY <1>4, Zenon DEF Evicted
  <1>7. ps[v[1]].pages[v[2]] = ps[o].pages[h]
    BY <1>4
  <1>8. \/ ~NoFrame(mem) /\ Loads(p, i, ps, mem, lru)
        \/ NoFrame(mem) /\ Loads(p, i, Evicted(ps, o, h), EvictedMem(mem, ps[o].pages[h]),
                                Without(lru, Len(lru)))
    BY <1>5, <1>6, <1>7
  <1>9. QED
    BY <1>2, <1>4, <1>8, Zenon

LEMMA FaultKeeps ==
  ASSUME NEW p, NEW i, NEW ps, MemOK(mem), PcbsOK(ps), ListOK(ps, lru), Listed(ps, lru),
         lru # <<>>, FrameStoreSize >= 3,
         p \in DOMAIN ps, i \in DOMAIN ps[p].pages, Fault(p, i, ps)
  PROVE  Kept(ps)
  <1>1. CASE Loads(p, i, ps, mem, lru)
    BY <1>1, LoadsKeeps
  <1>2. ASSUME NEW o, NEW h, lru[Len(lru)] = <<o, h>>, NEW evicted, evicted = Evicted(ps, o, h),
               NEW m, m = EvictedMem(mem, ps[o].pages[h]),
               Loads(p, i, evicted, m, Without(lru, Len(lru)))
        PROVE  Kept(ps)
    <2>1. /\ DOMAIN evicted = DOMAIN ps
          /\ \A r \in DOMAIN ps \ {o} : evicted[r] = ps[r]
          /\ evicted[o].size = ps[o].size /\ DOMAIN evicted[o].pages = DOMAIN ps[o].pages
          /\ PcbsOK(evicted) /\ ListOK(evicted, Without(lru, Len(lru)))
          /\ Listed(evicted, Without(lru, Len(lru)))
      BY <1>2, EvictKeeps
    <2>2. MemOK(m)
      BY <1>2, EvictedMemOK
    <2>3. p \in DOMAIN evicted /\ i \in DOMAIN evicted[p].pages
      BY <2>1
    <2>4. Kept(evicted)
      BY <1>2, <2>1, <2>2, <2>3, LoadsKeeps
    <2>5. QED
      BY <2>1, <2>4 DEF Kept
  <1>3. QED
    BY <1>1, <1>2, FaultIs

-----------------------------------------------------------------------------
(* The queue: NoProcessLost for any queue, processes and running process,  *)
(* and what add_tail and the pop of the head do to it.                     *)
Distinct(q) == \A n, m \in 1 .. Len(q) : q[n] = q[m] => n = m

Waiting(q, ps, pid) ==
  /\ Distinct(q)
  /\ \A p \in DOMAIN ps :
       /\ ps[p].size > 0 => In(p, q) \/ pid = p
       /\ ~(In(p, q) /\ pid = p)

LEMMA WaitingIs == NoProcessLost <=> Waiting(queue, pcbs, cpu.pid)
  BY DEF NoProcessLost, Waiting, Distinct, In

LEMMA AppendDistinct ==
  ASSUME NEW S, NEW q \in Seq(S), NEW e \in S, Distinct(q), ~In(e, q)
  PROVE  /\ Append(q, e) \in Seq(S) /\ Distinct(Append(q, e))
         /\ \A d : In(d, Append(q, e)) <=> d = e \/ In(d, q)
  <1>. DEFINE new == Append(q, e)
  <1>1. /\ new \in Seq(S) /\ Len(new) = Len(q) + 1 /\ new[Len(q) + 1] = e
        /\ \A n \in 1 .. Len(q) : new[n] = q[n]
    OBVIOUS
  <1>2. \A n \in 1 .. Len(q) : q[n] # e
    BY DEF In
  <1>3. Distinct(new)
    BY <1>1, <1>2 DEF Distinct
  <1>4. ASSUME NEW d PROVE In(d, new) <=> d = e \/ In(d, q)
    <2>1. ASSUME In(d, new) PROVE d = e \/ In(d, q)
      BY <1>1, <2>1 DEF In
    <2>2. ASSUME d = e \/ In(d, q) PROVE In(d, new)
      <3>1. CASE d = e
        <4>1. Len(q) + 1 \in 1 .. Len(new)
          BY <1>1
        <4>2. QED
          BY <1>1, <3>1, <4>1 DEF In
      <3>2. CASE In(d, q)
        <4>1. PICK n \in 1 .. Len(q) : q[n] = d
          BY <3>2 DEF In
        <4>2. n \in 1 .. Len(new) /\ new[n] = d
          BY <1>1, <4>1
        <4>3. QED
          BY <4>2 DEF In
      <3>3. QED
        BY <2>2, <3>1, <3>2
    <2>3. QED
      BY <2>1, <2>2
  <1>5. QED
    BY <1>1, <1>3, <1>4

LEMMA TailDistinct ==
  ASSUME NEW S, NEW q \in Seq(S), q # <<>>, Distinct(q)
  PROVE  /\ Head(q) \in S /\ In(Head(q), q)
         /\ Tail(q) \in Seq(S) /\ Distinct(Tail(q)) /\ ~In(Head(q), Tail(q))
         /\ \A d : In(d, q) <=> d = Head(q) \/ In(d, Tail(q))
  <1>. DEFINE new == Tail(q)
  <1>1. /\ Len(q) \in Nat \ {0} /\ q[1] = Head(q) /\ q[1] \in S
        /\ new \in Seq(S) /\ Len(new) = Len(q) - 1
        /\ \A n \in 1 .. Len(new) : new[n] = q[n + 1]
    OBVIOUS
  <1>. HIDE DEF new
  <1>2. 1 \in 1 .. Len(q)
    BY <1>1
  <1>3. ASSUME NEW n \in 1 .. Len(new) PROVE n + 1 \in 1 .. Len(q) /\ new[n] = q[n + 1] /\ n + 1 # 1
    BY <1>1
  <1>4. Distinct(new)
    BY <1>1, <1>3 DEF Distinct
  <1>5. ~In(q[1], new)
    BY <1>2, <1>3 DEF Distinct, In
  <1>6. ASSUME NEW d, In(d, q), d # q[1] PROVE In(d, new)
    <2>1. PICK n \in 1 .. Len(q) : q[n] = d
      BY <1>6 DEF In
    <2>2. n - 1 \in 1 .. Len(new) /\ (n - 1) + 1 = n
      BY <1>1, <1>6, <2>1
    <2>3. new[n - 1] = d
      BY <1>1, <2>1, <2>2
    <2>4. QED
      BY <2>2, <2>3 DEF In
  <1>7. ASSUME NEW d, In(d, new) PROVE In(d, q)
    BY <1>3, <1>7 DEF In
  <1>8. In(q[1], q)
    BY <1>2 DEF In
  <1>9. QED
    BY <1>1, <1>4, <1>5, <1>6, <1>7, <1>8 DEF new

(* The process on the processor goes to the tail of the queue, or is done. *)
LEMMA TurnEnds ==
  ASSUME KInv, cpu # Idle, cpu' = Idle, DOMAIN pcbs' = DOMAIN pcbs,
         \A r \in DOMAIN pcbs \ {cpu.pid} : pcbs'[r].size = pcbs[r].size,
         \/ queue' = Append(queue, cpu.pid)
         \/ queue' = queue /\ pcbs'[cpu.pid].size = 0
  PROVE  queue' \in Seq(DOMAIN pcbs') /\ NoProcessLost' /\ TurnOK'
  <1>1. cpu.pid \in DOMAIN pcbs /\ queue \in Seq(DOMAIN pcbs)
    BY DEF KInv, TurnOK
  <1>2. Waiting(queue, pcbs, cpu.pid)
    BY WaitingIs DEF KInv
  <1>3. cpu'.pid = 0 /\ 0 \notin DOMAIN pcbs
    BY DEF Idle, KInv, PcbsOK, Pid
  <1>4. CASE queue' = Append(queue, cpu.pid)
    <2>1. ~In(cpu.pid, queue) /\ Distinct(queue)
      BY <1>1, <1>2 DEF Waiting
    <2>2. /\ queue' \in Seq(DOMAIN pcbs) /\ Distinct(queue')
          /\ \A d : In(d, queue') <=> d = cpu.pid \/ In(d, queue)
      BY <1>1, <1>4, <2>1, AppendDistinct
    <2>3. Waiting(queue', pcbs', cpu'.pid)
      BY <1>2, <1>3, <2>2 DEF Waiting
    <2>4. QED
      BY <2>2, <2>3, WaitingIs DEF TurnOK, NoProcessLost, Waiting, Distinct, In
  <1>5. CASE queue' = queue /\ pcbs'[cpu.pid].size = 0
    <2>1. Waiting(queue', pcbs', cpu'.pid)
      BY <1>2, <1>3, <1>5 DEF Waiting
    <2>2. QED
      BY <1>1, <1>5, <2>1 DEF TurnOK, NoProcessLost, Waiting, Distinct, In
  <1>6. QED
    BY <1>4, <1>5

-----------------------------------------------------------------------------
(* The steps.                                                              *)
LEMMA KInvInit == Init => KInv
  <1>1. ASSUME Init PROVE KInv
    <2>1. /\ mem = [x \in Position |-> FreeLine]
          /\ pcbs = <<>> /\ queue = <<>> /\ lru = <<>> /\ nextPid = 1
          /\ cpu = Idle /\ phase = "prompt" /\ executed = <<>>
      BY <1>1 DEF Init, Fresh
    <2>2. DOMAIN pcbs = {} /\ Len(queue) = 0 /\ Len(lru) = 0
      BY <2>1
    <2>3. MemOK(mem)
      BY <2>1 DEF MemOK, FreeLine
    <2>4. PcbsOK(pcbs) /\ Listed(pcbs, lru)
      BY <2>2 DEF PcbsOK, Listed
    <2>5. ListOK(pcbs, lru)
      BY <2>1, <2>2 DEF ListOK, In
    <2>6. queue \in Seq(DOMAIN pcbs)
      BY <2>1
    <2>7. NoProcessLost
      BY <2>2 DEF NoProcessLost
    <2>8. nextPid \in 1 .. MaxPid + 1 /\ \A p \in DOMAIN pcbs : p < nextPid
      BY <2>1, <2>2, KernelAssumption
    <2>9. TurnOK
      BY <2>1 DEF TurnOK
    <2>10. QED
      BY <2>1, <2>3, <2>4, <2>5, <2>6, <2>7, <2>8, <2>9 DEF KInv
  <1>2. QED
    BY <1>1

LEMMA RestartedKeeps == Restarted => KInv'
  <1>1. Restarted => Init'
    BY DEF Restarted, Init
  <1>2. Init' => KInv'
    BY KInvInit, PTL
  <1>3. QED
    BY <1>1, <1>2

(* A step at the prompt that leaves the processes alone. *)
LEMMA PromptKeeps ==
  ASSUME KInv, MemOK(mem'), phase = "prompt",
         UNCHANGED <<pcbs, queue, lru, nextPid, cpu, executed>>,
         phase' \in {"prompt", "loading"},
         phase' = "loading" =>
           loading' \in Seq(Script) /\ loading' # <<>> /\ nextPid + Len(loading') - 1 <= MaxPid
  PROVE  KInv'
  <1>1. TurnOK'
    BY DEF KInv, TurnOK
  <1>2. NoProcessLost'
    BY DEF KInv, NoProcessLost
  <1>3. QED
    BY <1>1, <1>2 DEF KInv

LEMMA SetKeeps ==
  ASSUME KInv, NEW v \in Var, NEW d \in Value, Set(v, d)
  PROVE  KInv'
  <1>1. MemOK(mem')
    <2>1. CASE UNCHANGED mem
      BY <2>1 DEF KInv
    <2>2. ASSUME NEW x \in VarZone, mem' = [mem EXCEPT ![x] = [var |-> v, value |-> d]]
          PROVE  MemOK(mem')
      BY <2>2 DEF KInv, MemOK
    <2>3. QED
      BY <2>1, <2>2 DEF Set
  <1>2. QED
    BY <1>1, PromptKeeps DEF Set

LEMMA ResetMemKeeps ==
  ASSUME KInv, ResetMem
  PROVE  KInv'
  <1>1. MemOK(mem')
    BY DEF KInv, MemOK, ResetMem, FreeLine
  <1>2. QED
    BY <1>1, PromptKeeps DEF ResetMem

LEMMA ExecKeeps ==
  ASSUME KInv, NEW n \in 1 .. 3, NEW scripts \in [1 .. n -> Script], Exec(scripts)
  PROVE  KInv'
  <1>1. scripts \in Seq(Script) /\ Len(scripts) = n
    OBVIOUS
  <1>2. scripts # <<>>
    BY <1>1
  <1>3. MemOK(mem')
    BY DEF KInv, Exec
  <1>4. QED
    BY <1>1, <1>2, <1>3, PromptKeeps DEF Exec

(* new_proc, whatever pages PCB_init loaded of a process of the right type. *)
LEMMA AdmitKeeps ==
  ASSUME KInv, phase = "loading", FrameStoreSize >= 3,
         NEW q \in PcbType, NEW m, MemOK(m), Admit(q, m),
         NEW n \in Nat \ {0}, DOMAIN q.pages = 0 .. n - 1,
         \A h \in DOMAIN q.pages : \A j \in Offset : q.pages[h].valid[j] => h \in {0, 1}
  PROVE  KInv'
  <1>1. /\ loading \in Seq(Script) /\ loading # <<>> /\ nextPid + Len(loading) - 1 <= MaxPid
        /\ nextPid \in 1 .. MaxPid + 1 /\ \A p \in DOMAIN pcbs : p < nextPid
        /\ queue \in Seq(DOMAIN pcbs) /\ DOMAIN pcbs \subseteq Pid /\ cpu = Idle
    BY DEF KInv, PcbsOK, TurnOK
  <1>2. nextPid \in Pid /\ nextPid \notin DOMAIN pcbs /\ nextPid + 1 \in 1 .. MaxPid + 1
    BY <1>1, KernelAssumption DEF Pid
  <1>3. /\ DOMAIN pcbs' = DOMAIN pcbs \cup {nextPid} /\ pcbs'[nextPid] = q
        /\ \A p \in DOMAIN pcbs : pcbs'[p] = pcbs[p]
    BY <1>2 DEF Admit
  <1>4. MemOK(mem')
    BY DEF Admit
  <1>5. PcbsOK(pcbs')
    BY <1>2, <1>3 DEF KInv, PcbsOK
  <1>6. /\ lru' \in Seq(Pid \X Nat) /\ lru' # <<>>
        /\ \A d : In(d, lru') <=> d = <<nextPid, 0>> \/ (n # 1 /\ d = <<nextPid, 1>>) \/ In(d, lru)
    <2>1. Cardinality(0 .. n - 1) = n
      BY FS_Interval
    <2>2. lru \in Seq(Pid \X Nat) /\ <<nextPid, 0>> \in Pid \X Nat /\ <<nextPid, 1>> \in Pid \X Nat
      BY <1>2 DEF KInv, ListOK
    <2>. DEFINE one == <<<<nextPid, 0>>>> \o lru
    <2>3. /\ one \in Seq(Pid \X Nat) /\ one # <<>>
          /\ \A d : In(d, one) <=> d = <<nextPid, 0>> \/ In(d, lru)
      BY <2>2, InPush
    <2>4. CASE n = 1
      <3>1. lru' = one
        BY <2>1, <2>4 DEF Admit, LoadedFirst
      <3>2. QED
        BY <2>3, <2>4, <3>1
    <2>5. CASE n # 1
      <3>1. lru' = <<<<nextPid, 1>>, <<nextPid, 0>>>> \o lru
        BY <2>1, <2>5 DEF Admit, LoadedFirst
      <3>2. lru' = <<<<nextPid, 1>>>> \o one
        <4>1. PICK S, list, d, e : /\ S = Pid \X Nat /\ list = lru
                                   /\ d = <<nextPid, 1>> /\ e = <<nextPid, 0>>
          OBVIOUS
        <4>2. list \in Seq(S) /\ d \in S /\ e \in S
          BY <2>2, <4>1
        <4>3. <<d, e>> \o list = <<d>> \o (<<e>> \o list)
          BY <4>2, PushTwo
        <4>4. QED
          BY <3>1, <4>1, <4>3
      <3>. HIDE DEF one
      <3>3. /\ lru' \in Seq(Pid \X Nat) /\ lru' # <<>>
            /\ \A d : In(d, lru') <=> d = <<nextPid, 1>> \/ In(d, one)
        BY <2>2, <2>3, <3>2, InPush
      <3>4. QED
        BY <2>3, <2>5, <3>3
    <2>6. QED
      BY <2>4, <2>5
  <1>7. ListOK(pcbs', lru')
    <2>1. ASSUME NEW p \in Pid, NEW i \in Nat, In(<<p, i>>, lru')
          PROVE  p \in DOMAIN pcbs' /\ i \in DOMAIN pcbs'[p].pages
      <3>1. CASE In(<<p, i>>, lru)
        BY <1>3, <3>1 DEF KInv, ListOK
      <3>2. CASE <<p, i>> = <<nextPid, 0>> \/ (n # 1 /\ <<p, i>> = <<nextPid, 1>>)
        BY <1>3, <3>2
      <3>3. QED
        BY <1>6, <2>1, <3>1, <3>2
    <2>2. QED
      BY <1>6, <2>1 DEF ListOK
  <1>8. Listed(pcbs', lru')
    <2>1. ASSUME NEW p \in DOMAIN pcbs', NEW i \in DOMAIN pcbs'[p].pages, NEW j \in Offset,
                 pcbs'[p].pages[i].valid[j]
          PROVE  In(<<p, i>>, lru')
      <3>1. CASE p = nextPid
        <4>1. i \in {0, 1} /\ i \in 0 .. n - 1
          BY <1>3, <2>1, <3>1
        <4>2. QED
          BY <1>6, <3>1, <4>1
      <3>2. CASE p # nextPid
        BY <1>3, <1>6, <2>1, <3>2 DEF KInv, Listed
      <3>3. QED
        BY <3>1, <3>2
    <2>2. QED
      BY <2>1 DEF Listed
  <1>9. DOMAIN executed' = DOMAIN pcbs'
    BY <1>3 DEF KInv, Admit
  <1>10. queue' \in Seq(DOMAIN pcbs') /\ NoProcessLost'
    <2>1. Waiting(queue, pcbs, cpu.pid)
      BY WaitingIs DEF KInv
    <2>2. ~In(nextPid, queue)
      BY <1>1, <1>2 DEF In
    <2>3. queue \in Seq(DOMAIN pcbs') /\ queue' = Append(queue, nextPid) /\ cpu' = cpu
      BY <1>1, <1>3 DEF Admit
    <2>4. /\ queue' \in Seq(DOMAIN pcbs') /\ Distinct(queue')
          /\ \A d : In(d, queue') <=> d = nextPid \/ In(d, queue)
      BY <1>3, <2>1, <2>2, <2>3, AppendDistinct DEF Waiting
    <2>5. 0 \notin DOMAIN pcbs' /\ cpu'.pid = 0 /\ cpu.pid = 0
      BY <1>1, <1>2, <1>3, <2>3 DEF Idle, Pid
    <2>6. Waiting(queue', pcbs', cpu'.pid)
      BY <1>3, <2>1, <2>4, <2>5 DEF Waiting
    <2>7. QED
      BY <2>4, <2>6 DEF NoProcessLost, Waiting, Distinct, In
  <1>11. nextPid' \in 1 .. MaxPid + 1 /\ \A p \in DOMAIN pcbs' : p < nextPid'
    BY <1>1, <1>2, <1>3 DEF Admit, Pid
  <1>12. /\ phase' \in {"loading", "running"}
         /\ phase' = "loading" =>
              /\ loading' \in Seq(Script) /\ loading' # <<>>
              /\ nextPid' + Len(loading') - 1 <= MaxPid
    <2>1. /\ Len(loading) \in Nat \ {0} /\ Tail(loading) \in Seq(Script)
          /\ Len(Tail(loading)) = Len(loading) - 1
      BY <1>1
    <2>2. /\ loading' = Tail(loading) /\ nextPid' = nextPid + 1
          /\ phase' = IF Len(loading) = 1 THEN "running" ELSE "loading"
      BY DEF Admit
    <2>3. nextPid' + Len(loading') - 1 <= MaxPid
      <3>1. nextPid \in Int /\ MaxPid \in Int /\ Len(loading) \in Int
        BY <1>1, <2>1, KernelAssumption
      <3>2. nextPid' = nextPid + 1 /\ Len(loading') = Len(loading) - 1
        BY <2>1, <2>2
      <3>3. QED
        BY <1>1, <3>1, <3>2
    <2>4. phase' = "loading" => loading' # <<>>
      <3>1. phase' = "loading" => Len(loading') # 0
        BY <2>1, <2>2
      <3>2. QED
        BY <3>1
    <2>5. QED
      BY <2>1, <2>2, <2>3, <2>4
  <1>13. TurnOK'
    BY <1>1 DEF TurnOK, Admit
  <1>14. QED
    BY <1>4, <1>5, <1>6, <1>7, <1>8, <1>9, <1>10, <1>11, <1>12, <1>13 DEF KInv

LEMMA NewProcKeeps ==
  ASSUME KInv, NewProc
  PROVE  KInv'
  <1>. DEFINE s == Head(loading)
              pcb == FreshPcb(s)
              one(k) == LoadedPcb(pcb, 0, k)
              frame(k) == LoadedMem(mem, nextPid, pcb, k)
              two(k, h) == LoadedPcb(one(k), 1, h)
              both(k, h) == LoadedMem(frame(k), nextPid, one(k), h)
  <1>1. /\ phase = "loading" /\ loading \in Seq(Script) /\ loading # <<>>
        /\ nextPid + Len(loading) - 1 <= MaxPid /\ nextPid \in 1 .. MaxPid + 1
    BY DEF NewProc, KInv
  <1>2. s \in Script
    BY <1>1
  <1>3. nextPid \in Pid
    <2>1. Len(loading) \in Nat \ {0}
      BY <1>1
    <2>2. QED
      BY <1>1, <2>1, KernelAssumption DEF Pid
  <1>4. /\ pcb \in PcbType
        /\ \A i \in DOMAIN pcb.pages : \A j \in Offset : ~pcb.pages[i].valid[j]
    BY <1>2, FreshPcbType
  <1>5. PICK n \in Nat \ {0} : DOMAIN pcb.pages = 0 .. n - 1
    BY <1>2, FreshPcbType
  <1>. HIDE DEF pcb
  <1>6. 0 \in DOMAIN pcb.pages /\ (DOMAIN pcb.pages # {0} => 1 \in DOMAIN pcb.pages)
    BY <1>5
  <1>7. ASSUME NEW k \in Frames, FirstFit(mem, k)
        PROVE  /\ FrameStoreSize >= 3 /\ one(k) \in PcbType /\ MemOK(frame(k))
               /\ DOMAIN one(k).pages = DOMAIN pcb.pages
               /\ \A h \in DOMAIN pcb.pages \ {0} : one(k).pages[h] = pcb.pages[h]
    <2>1. k \in 0 .. FrameStoreSize - 3 /\ FrameStoreSize >= 3
      BY <1>7, KernelAssumption DEF FirstFit, Fits
    <2>2. MemOK(frame(k))
      BY <1>3, LoadedMemOK DEF KInv
    <2>3. QED
      BY <1>4, <1>6, <2>1, <2>2, LoadedPcbType
  <1>8. ASSUME NEW k \in Frames, FirstFit(mem, k), Admit(one(k), frame(k))
        PROVE  KInv'
    <2>1. \A h \in DOMAIN one(k).pages : \A j \in Offset :
            one(k).pages[h].valid[j] => h \in {0, 1}
      BY <1>4, <1>7, <1>8
    <2>2. QED
      BY <1>1, <1>5, <1>7, <1>8, <2>1, AdmitKeeps
  <1>9. ASSUME NEW k \in Frames, FirstFit(mem, k), NEW h \in Frames, FirstFit(frame(k), h),
               DOMAIN pcb.pages # {0}, Admit(two(k, h), both(k, h))
        PROVE  KInv'
    <2>. HIDE DEF one, frame
    <2>1. h \in 0 .. FrameStoreSize - 3
      BY <1>9 DEF FirstFit, Fits
    <2>2. /\ two(k, h) \in PcbType /\ DOMAIN two(k, h).pages = DOMAIN pcb.pages
          /\ \A g \in DOMAIN pcb.pages \ {1} : two(k, h).pages[g] = one(k).pages[g]
      BY <1>6, <1>7, <1>9, <2>1, LoadedPcbType
    <2>3. MemOK(both(k, h))
      BY <1>3, <1>7, <1>9, LoadedMemOK
    <2>. HIDE DEF two, both
    <2>4. \A g \in DOMAIN two(k, h).pages : \A j \in Offset :
            two(k, h).pages[g].valid[j] => g \in {0, 1}
      BY <1>4, <1>7, <1>9, <2>2
    <2>5. QED
      BY <1>1, <1>5, <1>7, <1>9, <2>2, <2>3, <2>4, AdmitKeeps
  <1>10. QED
    BY <1>8, <1>9, RestartedKeeps DEF NewProc, pcb

LEMMA DispatchKeeps ==
  ASSUME KInv, Dispatch
  PROVE  KInv'
  <1>. DEFINE p == Head(queue)
              size == pcbs[p].size
  <1>1. queue \in Seq(DOMAIN pcbs) /\ Waiting(queue, pcbs, cpu.pid) /\ cpu = Idle
    BY WaitingIs DEF KInv, Dispatch
  <1>2. queue # <<>>
    <2>1. ~QueueDone
      BY DEF Dispatch
    <2>2. PICK n \in 1 .. Len(queue) : TRUE
      BY <2>1 DEF QueueDone
    <2>3. QED
      BY <2>2
  <1>3. /\ p \in DOMAIN pcbs /\ Tail(queue) \in Seq(DOMAIN pcbs) /\ Distinct(Tail(queue))
        /\ ~In(p, Tail(queue)) /\ \A d : In(d, queue) <=> d = p \/ In(d, Tail(queue))
    BY <1>1, <1>2, TailDistinct DEF Waiting
  <1>4. size \in Nat
    BY <1>3 DEF KInv, PcbsOK, PcbType
  <1>5. 0 \notin DOMAIN pcbs
    BY DEF KInv, PcbsOK, Pid
  <1>. HIDE DEF p, size
  <1>6. /\ queue' = Tail(queue) /\ pcbs' = pcbs /\ phase = "running" /\ phase' = phase
        /\ cpu' = IF size > 1 THEN [pid |-> p, left |-> 2, requeue |-> TRUE]
                  ELSE IF size = 1 THEN [pid |-> p, left |-> 1, requeue |-> FALSE]
                  ELSE Idle
    BY DEF Dispatch, p, size
  <1>7. cpu'.pid = IF size > 0 THEN p ELSE 0
    BY <1>4, <1>6 DEF Idle
  <1>8. Waiting(queue', pcbs', cpu'.pid)
    BY <1>1, <1>3, <1>5, <1>6, <1>7 DEF Waiting, Idle, size
  <1>9. NoProcessLost'
    BY <1>8 DEF NoProcessLost, Waiting, Distinct, In
  <1>10. TurnOK'
    <2>1. CASE size > 1
      BY <1>3, <1>4, <1>6, <2>1 DEF TurnOK, size
    <2>2. CASE size = 1
      BY <1>3, <1>4, <1>6, <2>2 DEF TurnOK, size
    <2>3. CASE size = 0
      BY <1>6, <2>3 DEF TurnOK
    <2>4. QED
      BY <1>4, <2>1, <2>2, <2>3
  <1>11. UNCHANGED <<mem, pcbs, lru, nextPid, loading, phase, executed>>
    BY DEF Dispatch
  <1>12. QED
    BY <1>3, <1>6, <1>9, <1>10, <1>11 DEF KInv

(* The process on the processor and the page its next line is in. *)
LEMMA RunningIs ==
  ASSUME KInv, cpu # Idle, NEW i \in DOMAIN pcbs[cpu.pid].pages, Current(cpu.pid, i)
  PROVE  /\ phase = "running" /\ cpu \in [pid : DOMAIN pcbs, left : 1 .. 2, requeue : BOOLEAN]
         /\ cpu.pid \in DOMAIN pcbs /\ pcbs[cpu.pid] \in PcbType
         /\ pcbs[cpu.pid].size >= cpu.left
         /\ cpu.requeue \/ pcbs[cpu.pid].size = cpu.left
         /\ Advanced(cpu.pid, i) \in PcbType
         /\ Advanced(cpu.pid, i).size = pcbs[cpu.pid].size - 1
         /\ DOMAIN Advanced(cpu.pid, i).pages = DOMAIN pcbs[cpu.pid].pages
         /\ \A h \in DOMAIN pcbs[cpu.pid].pages :
              Advanced(cpu.pid, i).pages[h].valid = pcbs[cpu.pid].pages[h].valid
  <1>1. /\ phase = "running" /\ cpu \in [pid : DOMAIN pcbs, left : 1 .. 2, requeue : BOOLEAN]
        /\ pcbs[cpu.pid].size >= cpu.left
        /\ cpu.requeue \/ pcbs[cpu.pid].size = cpu.left
    BY DEF KInv, TurnOK
  <1>2. cpu.pid \in DOMAIN pcbs /\ pcbs[cpu.pid] \in PcbType
    BY <1>1 DEF KInv, PcbsOK
  <1>3. pcbs[cpu.pid].size >= 1
    BY <1>1, <1>2 DEF PcbType
  <1>4. pcbs[cpu.pid].pages[i].pc # 3
    BY DEF Current
  <1>5. QED
    BY <1>1, <1>2, <1>3, <1>4, AdvancedType

(* The processes after the running one has executed a line. *)
LEMMA AdvancedKeeps ==
  ASSUME KInv, cpu # Idle, NEW i \in DOMAIN pcbs[cpu.pid].pages, Current(cpu.pid, i), NEW ps,
         ps = [pcbs EXCEPT ![cpu.pid] = Advanced(cpu.pid, i)]
  PROVE  /\ PcbsOK(ps) /\ ListOK(ps, lru) /\ Listed(ps, lru) /\ DOMAIN ps = DOMAIN pcbs
         /\ ps[cpu.pid].size = pcbs[cpu.pid].size - 1
         /\ \A r \in DOMAIN pcbs \ {cpu.pid} : ps[r].size = pcbs[r].size
         /\ \A r \in DOMAIN pcbs : DOMAIN ps[r].pages = DOMAIN pcbs[r].pages
  <1>. DEFINE p == cpu.pid
              new == Advanced(p, i)
  <1>1. /\ p \in DOMAIN pcbs /\ new \in PcbType /\ new.size = pcbs[p].size - 1
        /\ DOMAIN new.pages = DOMAIN pcbs[p].pages
        /\ \A h \in DOMAIN pcbs[p].pages : new.pages[h].valid = pcbs[p].pages[h].valid
    BY RunningIs
  <1>2. /\ DOMAIN ps = DOMAIN pcbs /\ ps[p] = new
        /\ \A r \in DOMAIN pcbs \ {p} : ps[r] = pcbs[r]
    BY <1>1
  <1>. HIDE DEF new
  <1>3. PcbsOK(ps)
    BY <1>1, <1>2 DEF KInv, PcbsOK
  <1>4. ListOK(ps, lru)
    BY <1>1, <1>2 DEF KInv, ListOK
  <1>5. Listed(ps, lru)
    <2>1. ASSUME NEW r \in DOMAIN ps, NEW h \in DOMAIN ps[r].pages, NEW j \in Offset,
                 ps[r].pages[h].valid[j]
          PROVE  In(<<r, h>>, lru)
      <3>1. h \in DOMAIN pcbs[r].pages /\ pcbs[r].pages[h].valid[j]
        BY <1>1, <1>2, <2>1
      <3>2. QED
        BY <1>2, <3>1 DEF KInv, Listed
    <2>2. QED
      BY <2>1 DEF Listed
  <1>6. QED
    BY <1>1, <1>2, <1>3, <1>4, <1>5

LEMMA RunLineKeeps ==
  ASSUME KInv, RunLine
  PROVE  KInv'
  <1>. DEFINE p == cpu.pid
  <1>1. PICK i \in DOMAIN pcbs[p].pages :
          /\ Current(p, i)
          /\ \E n \in 1 .. Len(lru) : Entry(n, p, i) /\ lru' = Touched(n)
          /\ pcbs' = [pcbs EXCEPT ![p] = Advanced(p, i)]
          /\ Record(p, i)
          /\ EndLine(p)
    BY DEF RunLine
  <1>2. /\ phase = "running" /\ cpu # Idle /\ UNCHANGED <<mem, nextPid, loading, phase>>
    BY DEF RunLine
  <1>3. /\ cpu \in [pid : DOMAIN pcbs, left : 1 .. 2, requeue : BOOLEAN]
        /\ p \in DOMAIN pcbs /\ pcbs[p].size \in Nat
        /\ pcbs[p].size >= cpu.left /\ (cpu.requeue \/ pcbs[p].size = cpu.left)
    BY <1>1, <1>2, RunningIs DEF PcbType
  <1>4. /\ PcbsOK(pcbs') /\ ListOK(pcbs', lru) /\ Listed(pcbs', lru)
        /\ DOMAIN pcbs' = DOMAIN pcbs /\ pcbs'[p].size = pcbs[p].size - 1
        /\ \A r \in DOMAIN pcbs \ {p} : pcbs'[r].size = pcbs[r].size
    BY <1>1, <1>2, AdvancedKeeps
  <1>5. /\ lru' \in Seq(Pid \X Nat) /\ lru' # <<>>
        /\ \A d : In(d, lru') <=> In(d, lru)
    BY <1>1, InTouched DEF KInv, ListOK
  <1>6. ListOK(pcbs', lru') /\ Listed(pcbs', lru')
    BY <1>4, <1>5 DEF ListOK, Listed
  <1>7. DOMAIN executed' = DOMAIN pcbs'
    BY <1>1, <1>4 DEF KInv, Record
  <1>8. queue' \in Seq(DOMAIN pcbs') /\ NoProcessLost' /\ TurnOK'
    <2>1. CASE cpu.left = 1
      <3>1. cpu' = Idle /\ queue' = IF cpu.requeue THEN Append(queue, p) ELSE queue
        BY <1>1, <2>1 DEF EndLine
      <3>2. ~cpu.requeue => pcbs'[p].size = 0
        BY <1>3, <1>4, <2>1
      <3>3. QED
        BY <1>2, <1>4, <3>1, <3>2, TurnEnds
    <2>2. CASE cpu.left # 1
      <3>1. cpu' = [cpu EXCEPT !.left = cpu.left - 1] /\ queue' = queue /\ cpu.left = 2
        BY <1>1, <1>3, <2>2 DEF EndLine
      <3>2. /\ cpu' \in [pid : DOMAIN pcbs, left : 1 .. 2, requeue : BOOLEAN]
            /\ cpu'.pid = p /\ cpu'.left = 1 /\ cpu'.requeue = cpu.requeue
        BY <1>3, <3>1
      <3>3. TurnOK'
        BY <1>2, <1>3, <1>4, <3>1, <3>2 DEF TurnOK
      <3>4. queue \in Seq(DOMAIN pcbs) /\ Waiting(queue, pcbs, p)
        BY WaitingIs DEF KInv
      <3>5. Waiting(queue', pcbs', cpu'.pid)
        BY <1>3, <1>4, <3>1, <3>2, <3>4 DEF Waiting
      <3>6. NoProcessLost'
        BY <3>5 DEF NoProcessLost, Waiting, Distinct, In
      <3>7. QED
        BY <1>4, <3>1, <3>3, <3>4, <3>6
    <2>3. QED
      BY <2>1, <2>2
  <1>9. QED
    BY <1>2, <1>4, <1>5, <1>6, <1>7, <1>8 DEF KInv

(* A fault of the running process, after a line or instead of one. *)
LEMMA FaultEnds ==
  ASSUME KInv, cpu # Idle, phase = "running", NEW i \in DOMAIN pcbs[cpu.pid].pages,
         Current(cpu.pid, i), NEW ps, Fault(cpu.pid, i, ps),
         PcbsOK(ps), ListOK(ps, lru), Listed(ps, lru), DOMAIN ps = DOMAIN pcbs,
         \A r \in DOMAIN pcbs \ {cpu.pid} : ps[r].size = pcbs[r].size,
         i \in DOMAIN ps[cpu.pid].pages, DOMAIN executed' = DOMAIN executed,
         UNCHANGED <<nextPid, loading, phase>>
  PROVE  KInv'
  <1>1. cpu.pid \in DOMAIN pcbs
    BY RunningIs
  <1>2. lru # <<>> /\ FrameStoreSize >= 3 /\ MemOK(mem)
    BY <1>1 DEF KInv
  <1>3. Kept(ps)
    BY <1>1, <1>2, FaultKeeps
  <1>4. queue' = Append(queue, cpu.pid) /\ cpu' = Idle
    BY DEF Fault, Loads
  <1>5. DOMAIN pcbs' = DOMAIN pcbs /\ \A r \in DOMAIN pcbs \ {cpu.pid} : pcbs'[r].size = pcbs[r].size
    BY <1>3 DEF Kept
  <1>6. queue' \in Seq(DOMAIN pcbs') /\ NoProcessLost' /\ TurnOK'
    BY <1>4, <1>5, TurnEnds
  <1>7. QED
    BY <1>2, <1>3, <1>5, <1>6 DEF KInv, Kept

LEMMA PageFaultKeeps ==
  ASSUME KInv, PageFault
  PROVE  KInv'
  <1>1. PICK i \in DOMAIN pcbs[cpu.pid].pages : Current(cpu.pid, i) /\ Fault(cpu.pid, i, pcbs)
    BY DEF PageFault
  <1>2. phase = "running" /\ cpu # Idle /\ UNCHANGED <<nextPid, loading, phase, executed>>
    BY DEF PageFault
  <1>3. PcbsOK(pcbs) /\ ListOK(pcbs, lru) /\ Listed(pcbs, lru)
    BY DEF KInv
  <1>4. QED
    BY <1>1, <1>2, <1>3, FaultEnds

LEMMA ReturnOneKeeps ==
  ASSUME KInv, ReturnOne
  PROVE  KInv'
  <1>. DEFINE ps(i) == [pcbs EXCEPT ![cpu.pid] = Advanced(cpu.pid, i)]
  <1>1. PICK i \in DOMAIN pcbs[cpu.pid].pages :
          Current(cpu.pid, i) /\ Record(cpu.pid, i) /\ Fault(cpu.pid, i, ps(i))
    BY DEF ReturnOne
  <1>2. phase = "running" /\ cpu # Idle /\ UNCHANGED <<nextPid, loading, phase>>
    BY DEF ReturnOne
  <1>3. /\ PcbsOK(ps(i)) /\ ListOK(ps(i), lru) /\ Listed(ps(i), lru) /\ DOMAIN ps(i) = DOMAIN pcbs
        /\ \A r \in DOMAIN pcbs \ {cpu.pid} : ps(i)[r].size = pcbs[r].size
        /\ \A r \in DOMAIN pcbs : DOMAIN ps(i)[r].pages = DOMAIN pcbs[r].pages
    BY <1>1, <1>2, AdvancedKeeps
  <1>4. cpu.pid \in DOMAIN pcbs /\ DOMAIN executed' = DOMAIN executed
    BY <1>1, <1>2, RunningIs DEF Record
  <1>. HIDE DEF ps
  <1>5. i \in DOMAIN ps(i)[cpu.pid].pages
    BY <1>3, <1>4
  <1>6. QED
    BY <1>1, <1>2, <1>3, <1>4, <1>5, FaultEnds

LEMMA FinishKeeps ==
  ASSUME KInv, Finish
  PROVE  KInv'
  <1>1. /\ pcbs' = <<>> /\ queue' = <<>> /\ lru' = <<>> /\ executed' = <<>> /\ phase' = "prompt"
        /\ cpu' = Idle /\ nextPid' = nextPid
    BY DEF Finish
  <1>2. DOMAIN pcbs' = {} /\ Len(queue') = 0 /\ Len(lru') = 0 /\ DOMAIN executed' = {}
    BY <1>1
  <1>3. MemOK(mem')
    BY DEF KInv, MemOK, Finish, FreeLine
  <1>4. PcbsOK(pcbs') /\ Listed(pcbs', lru') /\ NoProcessLost'
    BY <1>2 DEF PcbsOK, Listed, NoProcessLost
  <1>5. ListOK(pcbs', lru')
    BY <1>1, <1>2 DEF ListOK, In
  <1>6. queue' \in Seq(DOMAIN pcbs')
    BY <1>1
  <1>7. TurnOK'
    BY <1>1 DEF TurnOK
  <1>8. QED
    BY <1>1, <1>2, <1>3, <1>4, <1>5, <1>6, <1>7 DEF KInv

LEMMA KInvStep == KInv /\ [Next]_vars => KInv'
  <1>1. ASSUME KInv, Next PROVE KInv'
    <2>1. CASE Kernel
      BY <1>1, <2>1, NewProcKeeps, DispatchKeeps, RunLineKeeps, PageFaultKeeps,
         ReturnOneKeeps, FinishKeeps DEF Kernel
    <2>2. CASE Command
      BY <1>1, <2>2, SetKeeps, ResetMemKeeps, ExecKeeps, RestartedKeeps DEF Command, Quit
    <2>3. QED
      BY <1>1, <2>1, <2>2 DEF Next
  <1>2. ASSUME KInv, UNCHANGED vars PROVE KInv'
    BY <1>2 DEF vars, KInv, TurnOK, NoProcessLost
  <1>3. QED
    BY <1>1, <1>2

-----------------------------------------------------------------------------
(* KInv holds in every reachable state: the frame store, the page tables,  *)
(* the LRU list, the queue and the turn stay well formed through exec, the *)
(* page faults of kernel.c and the exits of PCB_init.                      *)
THEOREM KernelInvariant == Spec => []KInv
  BY KInvInit, KInvStep, PTL DEF Spec

(* Whatever the scripts are, the kernel's data keep their types: in        *)
(* particular a page's lines are in the frame store, every queued and      *)
(* listed process exists, and no page counts past its third line.          *)
THEOREM KernelTypes == Spec => []TypeOK
  <1>1. KInv => TypeOK
    <2>1. ASSUME KInv PROVE TypeOK
      <3>1. \A p \in DOMAIN pcbs :
              /\ pcbs[p].size \in Nat
              /\ \A i \in DOMAIN pcbs[p].pages :
                   /\ pcbs[p].pages[i].index \in [Offset -> Frames \cup {NeverLoaded}]
                   /\ pcbs[p].pages[i].valid \in [Offset -> BOOLEAN]
                   /\ pcbs[p].pages[i].pc \in 0 .. 3
        <4>1. ASSUME NEW p \in DOMAIN pcbs PROVE pcbs[p] \in PcbType
          BY <2>1 DEF KInv, PcbsOK
        <4>2. QED
          BY <4>1, PcbTypeIs DEF PcbType, Page
      <3>2. \A n \in 1 .. Len(queue) : queue[n] \in DOMAIN pcbs
        BY <2>1 DEF KInv
      <3>3. \A n \in 1 .. Len(lru) : lru[n][1] \in DOMAIN pcbs
        <4>1. ASSUME NEW n \in 1 .. Len(lru) PROVE lru[n][1] \in DOMAIN pcbs
          <5>1. lru[n] \in Pid \X Nat
            BY <2>1 DEF KInv, ListOK
          <5>2. lru[n] = <<lru[n][1], lru[n][2]>> /\ lru[n][1] \in Pid /\ lru[n][2] \in Nat
            BY <5>1
          <5>3. In(<<lru[n][1], lru[n][2]>>, lru)
            BY <5>2 DEF In
          <5>4. QED
            BY <2>1, <5>2, <5>3 DEF KInv, ListOK
        <4>2. QED
          BY <4>1
      <3>4. cpu.pid \in DOMAIN pcbs \cup {0} /\ cpu.left \in 0 .. 2
        BY <2>1 DEF KInv, TurnOK, Idle
      <3>5. QED
        BY <2>1, <3>1, <3>2, <3>3, <3>4 DEF TypeOK, KInv, MemOK, PcbsOK
    <2>2. QED
      BY <2>1
  <1>2. QED
    BY <1>1, KernelInvariant, PTL

(* Whatever the scripts are, a process with lines left is in QUEUE exactly *)
(* once or on the processor, and never both: run_proc_RR pops and appends  *)
(* it on every path, a page fault and a command that returned 1 included.  *)
THEOREM NoProcessIsLost == Spec => []NoProcessLost
  <1>1. KInv => NoProcessLost
    BY DEF KInv
  <1>2. QED
    BY <1>1, KernelInvariant, PTL

(* remove_elem finds the page of the line about to run in the LRU list, so *)
(* it does not walk past the end of the list, whatever the scripts are.    *)
THEOREM RemoveElemFinds == Spec => []TouchFinds
  <1>1. KInv => TouchFinds
    <2>1. ASSUME KInv, NEW p \in DOMAIN pcbs, NEW i \in DOMAIN pcbs[p].pages,
                 cpu.pid = p, Current(p, i), ValidHere(p, i)
          PROVE  In(<<p, i>>, lru)
      <3>1. pcbs[p].pages[i].pc \in Offset
        <4>1. pcbs[p] \in PcbType
          BY <2>1 DEF KInv, PcbsOK
        <4>2. pcbs[p].pages[i].pc \in 0 .. 3
          BY <4>1, PcbTypeIs DEF Page
        <4>3. QED
          BY <2>1, <4>2 DEF Current, Offset
      <3>2. QED
        BY <2>1, <3>1 DEF KInv, Listed, ValidHere
    <2>2. QED
      BY <2>1 DEF TouchFinds, In
  <1>2. QED
    BY <1>1, KernelInvariant, PTL
=============================================================================
